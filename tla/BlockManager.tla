---------------------------- MODULE BlockManager ----------------------------
(***************************************************************************)
(* The block manager of step2 (blockmgr.h, blockmgr.cc): a write-back      *)
(* cache of disk blocks with reference counts, over a disk whose free      *)
(* blocks form a list threaded through the blocks themselves.              *)
(*                                                                         *)
(* The callers are the InodeFile and TempData objects of the server: each  *)
(* holds at most one reference to a block, changes its bytes through the   *)
(* pointer it was given, and declares the change with dirtify().  Every    *)
(* operation runs under the semaphore lock_, so it is one action; the      *)
(* changes made through pointers do not, so Write is an action of its own. *)
(***************************************************************************)
EXTENDS Naturals, Sequences, FiniteSets

CONSTANTS
    Clients,      \* the objects that use the manager
    Values,       \* what a caller can store in a block, Zeroed included
    Zeroed,       \* a block of zero bytes
    Versions,     \* values time() can give a superblock
    Cylinders,    \* geometry of the disk
    Sections,
    MaxPool,      \* MAX_DATA_POOL_SIZE
    RefMax,       \* largest value of the uint32_t refcnt
    NoData,       \* "not in blocks_"
    NoSuper       \* "no superblock": wrong magic on disk, no manager in memory

\* A block id is (cylinder << 32) | section; 0 is both the superblock and
\* the null id.  Ids are compared as 64-bit integers.
Null == <<0, 0>>
Blocks == ((0 .. Cylinders - 1) \X (0 .. Sections - 1)) \ {Null}
Ends == Blocks \cup {Null, <<Cylinders, 0>>}
Leq(a, b) == a[1] < b[1] \/ (a[1] = b[1] /\ a[2] <= b[2])

\* struct FreeBlock: the bytes free_block() leaves in a block.  A caller's
\* data starts with another magic, so it is never taken for one.
FreeMark == [next : Blocks \cup {Null}, version : Versions]
Content == Values \cup FreeMark
SuperBlock == [head : Blocks \cup {Null}, end : Ends, version : Versions]
Data == [dirty : BOOLEAN, refcnt : 0 .. RefMax, data : Content]

ASSUME ClientsAssumption ==
    IsFiniteSet(Clients) /\ RefMax \in Nat \ {0} /\ Cardinality(Clients) <= RefMax
ASSUME GeometryAssumption ==
    Cylinders \in Nat \ {0} /\ Sections \in Nat \ {0} /\ MaxPool \in Nat \ {0}
ASSUME ContentAssumption ==
    Zeroed \in Values /\ Values \cap FreeMark = {}
ASSUME SentinelAssumption ==
    NoData \notin Data /\ NoSuper \notin SuperBlock

VARIABLES
    disk,       \* what the disk holds in each block
    diskSb,     \* the superblock on disk
    sb,         \* the superblock in memory, NoSuper when no manager runs
    blocks,     \* blocks_: block id -> Data, NoData for one not cached
    pool,       \* free_data_.size()
    holders,    \* block -> the callers that hold a reference to it
    wrote,      \* block -> the holders that changed it
    declared,   \* block -> the holders that called dirtify() (or allocated it)
    live,       \* the blocks the callers own
    freed,      \* the blocks given back, in the order they were freed
    intact      \* the disk's superblock describes live and freed

mgrVars == <<sb, blocks, pool>>
diskVars == <<disk, diskSb>>
callerVars == <<holders, wrote, declared>>
ownerVars == <<live, freed, intact>>
vars == <<mgrVars, diskVars, callerVars, ownerVars>>

-----------------------------------------------------------------------------
Up == sb # NoSuper
Cached(b) == blocks[b] # NoData
CachedBlocks == {b \in Blocks : Cached(b)}
\* blocks_.size(): the superblock is always in it, pinned and dirty.
Size == 1 + Cardinality(CachedBlocks)
IdleOrNot == CachedBlocks   \* mutant: flush_block_ without the refcnt test
Idle == {b \in CachedBlocks : blocks[b].refcnt = 0}
DirtyIdle ==   \* mutant: the destructor writes through flush_block_
    {b \in CachedBlocks : blocks[b].dirty /\ blocks[b].refcnt = 0}
Dirty == {b \in CachedBlocks : blocks[b].dirty}
FreedSet == {freed[i] : i \in 1 .. Len(freed)}

BelowEnd(b) == Leq(b, sb.end) /\ b # sb.end   \* mutant: < for <=

\* The check made by load, dirtify, unref_block and free_block.
InRange(b) == Leq(b, sb.end)
Extent(end) == {b \in Blocks : Leq(b, end)}

\* uint32_t arithmetic on refcnt.
Incr(n) == IF n = RefMax THEN 0 ELSE n + 1
Decr(n) == IF n = 0 THEN RefMax ELSE n - 1

IsFree(data) == data \in FreeMark /\ data.version = sb.version

\* flush_block_ on every block of W: the disk afterwards.
WriteBack(W) == [b \in Blocks |-> IF b \in W THEN blocks[b].data ELSE disk[b]]

\* get_free_data_: a pooled buffer, else a new one while the cache is below
\* its limit, else the buffer of any block nobody references, else a new one.
\* Null stands for "nothing evicted"; the hash order picks the victim.
EvictReferenced(b) ==   \* mutant: the refcnt test left out
    IF Cached(b) \/ pool > 0 \/ Size < MaxPool \/ CachedBlocks = {}
    THEN {Null}
    ELSE CachedBlocks

EvictNothing(b) == {Null}   \* mutant: always a new buffer

Evictions(b) ==
    IF Cached(b) \/ pool > 0 \/ Size < MaxPool \/ Idle = {}
    THEN {Null}
    ELSE Idle

\* load_block_: the cache entry of b, read from disk when it has none.
Loaded(b) ==
    IF Cached(b)
    THEN blocks[b]
    ELSE [dirty |-> FALSE, refcnt |-> 0, data |-> disk[b]]

\* load_block_(b) after which the entry is set to d; victim made room for it.
Place(b, victim, d) ==
    /\ blocks' = [x \in Blocks |->
                    IF x = b THEN d ELSE IF x = victim THEN NoData ELSE blocks[x]]
    /\ disk' = WriteBack({victim} \cap Dirty)
    /\ pool' = IF Cached(b) \/ pool = 0 THEN pool ELSE pool - 1
    /\ UNCHANGED diskSb

NextBeyond(end) ==   \* mutant: incr_next_block goes on behind the end of the disk
    IF end[2] + 1 = Sections THEN <<end[1] + 1, 0>> ELSE <<end[1], end[2] + 1>>

\* incr_next_block on the end of the allocated blocks.
NextBlock(end) ==
    IF end[1] = Cylinders THEN end
    ELSE IF end[2] + 1 = Sections THEN <<end[1] + 1, 0>>
    ELSE <<end[1], end[2] + 1>>
DiskFull(end) == NextBlock(end)[1] = Cylinders

-----------------------------------------------------------------------------
Init ==
    /\ disk = [b \in Blocks |-> Zeroed]
    /\ diskSb = NoSuper
    /\ sb = NoSuper
    /\ blocks = [b \in Blocks |-> NoData]
    /\ pool = 0
    /\ holders = [b \in Blocks |-> {}]
    /\ wrote = [b \in Blocks |-> {}]
    /\ declared = [b \in Blocks |-> {}]
    /\ live = {}
    /\ freed = << >>
    /\ intact = TRUE

\* BlockManager(disk, create): a new superblock when asked for or when the
\* one on disk has no magic.  The operator reopens an old file system only
\* if its superblock still describes it (intact).
Format(version) ==
    /\ ~Up
    /\ sb' = [head |-> Null, end |-> Null, version |-> version]
    /\ live' = {}
    /\ freed' = << >>
    /\ intact' = FALSE
    /\ UNCHANGED <<blocks, pool, diskVars, callerVars>>

Reopen ==
    /\ ~Up
    /\ diskSb # NoSuper
    /\ intact
    /\ sb' = diskSb
    /\ UNCHANGED <<blocks, pool, diskVars, callerVars, ownerVars>>

\* load: a new reference to a block the callers own.
Load(c, b) ==
    /\ Up
    /\ b \in live /\ InRange(b)
    /\ c \notin holders[b]
    /\ \E victim \in Evictions(b) :
          Place(b, victim, [Loaded(b) EXCEPT !.refcnt = Incr(@)])
    /\ holders' = [holders EXCEPT ![b] = @ \cup {c}]
    /\ UNCHANGED <<sb, wrote, declared, ownerVars>>

\* The last lines of allocate_, without the memset.
GrantUncleared(c, b) ==   \* mutant
    /\ \E victim \in Evictions(b) :
          Place(b, victim, [dirty |-> TRUE, refcnt |-> 1, data |-> Loaded(b).data])
    /\ holders' = [holders EXCEPT ![b] = @ \cup {c}]
    /\ declared' = [declared EXCEPT ![b] = @ \cup {c}]
    /\ live' = live \cup {b}
    /\ intact' = FALSE
    /\ UNCHANGED wrote

\* The last lines of allocate_: block b is c's, zeroed, dirty, with one reference.
Grant(c, b) ==
    /\ \E victim \in Evictions(b) :
          Place(b, victim, [dirty |-> TRUE, refcnt |-> 1, data |-> Zeroed])
    /\ holders' = [holders EXCEPT ![b] = @ \cup {c}]
    /\ declared' = [declared EXCEPT ![b] = @ \cup {c}]
    /\ live' = live \cup {b}
    /\ intact' = FALSE
    /\ UNCHANGED wrote

AllocateNew(c) ==
    /\ Up
    /\ sb.head = Null
    /\ ~DiskFull(sb.end)
    /\ sb' = [sb EXCEPT !.end = NextBlock(sb.end)]
    /\ Grant(c, NextBlock(sb.end))
    /\ UNCHANGED freed

AllocateFull ==
    /\ Up
    /\ sb.head = Null
    /\ DiskFull(sb.end)
    /\ sb' = [sb EXCEPT !.end = NextBlock(sb.end)]
    /\ intact' = (intact /\ sb' = sb)
    /\ UNCHANGED <<blocks, pool, diskVars, callerVars, live, freed>>

\* The head of the free list, popped if its bytes are a current mark.
AllocateFreed(c) ==
    /\ Up
    /\ sb.head # Null
    /\ LET data == Loaded(sb.head).data
       IN  sb' = [sb EXCEPT !.head = IF IsFree(data) THEN data.next ELSE Null]
    /\ Grant(c, sb.head)
    /\ freed' = SubSeq(freed, 1, Len(freed) - 1)

\* A holder changes the bytes it points to, outside any lock of the manager.
Write(c, b, v) ==
    /\ Up
    /\ c \in holders[b]
    /\ blocks' = [blocks EXCEPT ![b].data = v]
    /\ wrote' = [wrote EXCEPT ![b] = @ \cup {c}]
    /\ UNCHANGED <<sb, pool, diskVars, holders, declared, ownerVars>>

Dirtify(c, b) ==
    /\ Up
    /\ c \in holders[b]
    /\ blocks' = IF InRange(b) /\ Cached(b)
                 THEN [blocks EXCEPT ![b].dirty = TRUE]
                 ELSE blocks
    /\ declared' = [declared EXCEPT ![b] = @ \cup {c}]
    /\ UNCHANGED <<sb, pool, diskVars, holders, wrote, ownerVars>>

\* c no longer points to b.
Forget(c, b) ==
    /\ holders' = [holders EXCEPT ![b] = @ \ {c}]
    /\ wrote' = [wrote EXCEPT ![b] = @ \ {c}]
    /\ declared' = [declared EXCEPT ![b] = @ \ {c}]

\* One reference less.  A cache over its limit writes a block back as soon as
\* nobody references it, and gives its buffer to the pool unless that is full.
Drop(b) ==
    LET n == Decr(blocks[b].refcnt)
        release == n = 0 /\ Size > MaxPool
    IN  /\ blocks' = IF release THEN [blocks EXCEPT ![b] = NoData]
                                ELSE [blocks EXCEPT ![b].refcnt = n]
        /\ disk' = IF release THEN WriteBack({b} \cap Dirty) ELSE disk
        /\ pool' = IF release /\ pool < MaxPool THEN pool + 1 ELSE pool

\* unref_block, by a caller that has declared its changes.
UnrefBlock(c, b) ==
    /\ Up
    /\ c \in holders[b]
    /\ c \in wrote[b] => c \in declared[b]
    /\ IF InRange(b) /\ Cached(b) THEN Drop(b) ELSE UNCHANGED <<blocks, disk, pool>>
    /\ Forget(c, b)
    /\ UNCHANGED <<sb, diskSb, ownerVars>>

\* The body of free_block: b becomes the head of the free list, unless its
\* bytes say that it is already on it.
Push(b) ==
    LET data == Loaded(b).data
        mark == [next |-> sb.head, version |-> sb.version]
    IN  /\ \E victim \in Evictions(b) :
              Place(b, victim,
                    [dirty |-> TRUE, refcnt |-> 0,
                     data |-> IF IsFree(data) THEN data ELSE mark])
        /\ sb' = IF IsFree(data) THEN sb ELSE [sb EXCEPT !.head = b]

\* free_block, by a caller that may hold the only reference, of a block the
\* callers own or have already given back.
FreeBlock(c, b) ==
    /\ Up
    /\ b \in live \cup FreedSet
    /\ holders[b] \subseteq {c}
    /\ IF InRange(b) THEN Push(b) ELSE UNCHANGED <<sb, blocks, pool, diskVars>>
    /\ Forget(c, b)
    /\ live' = live \ {b}
    /\ freed' = IF b \in live THEN Append(freed, b) ELSE freed
    /\ intact' = (intact /\ sb' = sb)

\* flush: the dirty blocks nobody references are written, the superblock not.
Flush ==
    /\ Up
    /\ disk' = WriteBack(Idle \cap Dirty)
    /\ blocks' = [b \in Blocks |-> IF b \in Idle \cap Dirty
                                    THEN [blocks[b] EXCEPT !.dirty = FALSE]
                                    ELSE blocks[b]]
    /\ UNCHANGED <<sb, pool, diskSb, callerVars, ownerVars>>

\* The manager's memory is gone, and every pointer into it.
Gone ==
    /\ sb' = NoSuper
    /\ blocks' = [b \in Blocks |-> NoData]
    /\ pool' = 0
    /\ holders' = [b \in Blocks |-> {}]
    /\ wrote' = [b \in Blocks |-> {}]
    /\ declared' = [b \in Blocks |-> {}]

\* ~BlockManager: every dirty block is written, referenced or not.
Shutdown ==
    /\ Up
    /\ disk' = WriteBack(Dirty)
    /\ diskSb' = sb
    /\ Gone
    /\ intact' = TRUE
    /\ UNCHANGED <<live, freed>>

\* The server stops with a flush or a destructor having written the blocks
\* of W, and perhaps the superblock.  If blocks were allocated or freed since
\* the manager was opened, the disk no longer describes who owns what.
Crash(W) ==
    /\ Up
    /\ disk' = WriteBack(W)
    /\ diskSb' \in {diskSb, sb}
    /\ Gone
    /\ live' = IF intact THEN live ELSE {}
    /\ freed' = IF intact THEN freed ELSE << >>
    /\ UNCHANGED intact

Next ==
    \/ \E version \in Versions : Format(version)
    \/ Reopen
    \/ \E c \in Clients, b \in Blocks :
          \/ Load(c, b)
          \/ Dirtify(c, b)
          \/ UnrefBlock(c, b)
          \/ FreeBlock(c, b)
          \/ \E v \in Values : Write(c, b, v)
    \/ \E c \in Clients : AllocateNew(c) \/ AllocateFreed(c)
    \/ AllocateFull
    \/ Flush
    \/ Shutdown
    \/ \E W \in SUBSET Dirty : Crash(W)

Spec == Init /\ [][Next]_vars

-----------------------------------------------------------------------------
(* Properties *)

\* Every variable has its type; a manager that is down holds nothing.
TypeOK ==
    /\ disk \in [Blocks -> Content]
    /\ diskSb \in SuperBlock \cup {NoSuper}
    /\ sb \in SuperBlock \cup {NoSuper}
    /\ blocks \in [Blocks -> Data \cup {NoData}]
    /\ pool \in 0 .. MaxPool
    /\ holders \in [Blocks -> SUBSET Clients]
    /\ wrote \in [Blocks -> SUBSET Clients]
    /\ declared \in [Blocks -> SUBSET Clients]
    /\ live \in SUBSET Blocks
    /\ freed \in Seq(Blocks)
    /\ intact \in BOOLEAN

\* The content callers and the manager see in a block, cached or not.
Stored(b) == Loaded(b).data

\* super and the bytes content gives the blocks form a free list that is
\* exactly freed, last freed first, and that together with live makes
\* up, without overlap, the blocks handed out so far.
Describes(super, content) ==
    /\ super.head = IF freed = << >> THEN Null ELSE freed[Len(freed)]
    /\ \A i \in 1 .. Len(freed) :
          content[freed[i]] = [next |-> IF i = 1 THEN Null ELSE freed[i - 1],
                               version |-> super.version]
    /\ \A i, j \in 1 .. Len(freed) : freed[i] = freed[j] => i = j
    /\ live \cap FreedSet = {}
    /\ live \cup FreedSet = Extent(super.end)

\* While the manager runs, the free list threaded through cache and disk is
\* sound: no block is both owned and free, none is on the list twice, none
\* handed out is lost (allocate_, free_block, incr_next_block).
FreeListSound == Up => Describes(sb, [b \in Blocks |-> Stored(b)])

\* Whenever a restart without formatting is possible, the disk alone, without
\* the cache, holds a sound free list and the callers' data in live blocks.
RestartSound ==
    intact => \/ /\ diskSb # NoSuper
                 /\ Describes(diskSb, disk)
                 /\ \A b \in live : disk[b] \in Values
              \/ diskSb = NoSuper /\ live = {} /\ freed = << >>

\* The uint32_t counter of a cached block is the number of references callers
\* hold, and a block somebody points into stays cached and owned: no pointer
\* dangles, whatever is evicted or released meanwhile.
RefcntExact ==
    \A b \in Blocks :
        /\ holders[b] # {} => Cached(b) /\ b \in live
        /\ Cached(b) => blocks[b].refcnt = Cardinality(holders[b])

\* A cache entry may be dropped without being written only if the disk has its
\* bytes: clean entries equal the disk, up to a change whose author still
\* holds the block and has yet to declare it.  Neither flush nor an eviction
\* may mark clean a block whose holder has declared a change.
CleanMatchesDisk ==
    \A b \in CachedBlocks :
        /\ ~blocks[b].dirty /\ wrote[b] = {} => blocks[b].data = disk[b]
        /\ declared[b] # {} => blocks[b].dirty

-----------------------------------------------------------------------------
(* What the callers are promised, as a refinement of BlockStore. *)

Pending(b) == wrote[b] \ declared[b] # {}

Store == INSTANCE BlockStore WITH
    store <- [b \in live |-> Stored(b)],
    durable <- [b \in live |-> disk[b]],
    pending <- {b \in live : Pending(b)},
    recoverable <- intact

\* Behind cache, evictions, flushes, free list, shutdowns and crashes, callers
\* see the abstract store: a block is never handed out twice, loads return the
\* last write, a shutdown keeps what was declared, a crash of a session that
\* allocated and freed nothing costs only updates not written back.
ImplementsStore == Store!SSpec
=============================================================================
