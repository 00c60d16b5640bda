---------------------------- MODULE InodeBlocks ----------------------------
(***************************************************************************)
(* The blocks of the inode files of step2 (inodefile.h, inodefile.cc):     *)
(* which blocks a file takes from and gives back to the block manager, how *)
(* close() writes their ids into the inode and a tree of entry blocks, how *)
(* open() finds them again, and the references an open file holds.         *)
(*                                                                         *)
(* Sizes count blocks, since the bytes are the matter of InodeData; the    *)
(* block manager is what BlockManager shows of it: a stack of free blocks  *)
(* and a reference counter per block.  A file is opened by one InodeFile   *)
(* at a time, whose handlers run one after the other, so an operation is   *)
(* one action; the operations of different files interleave.               *)
(***************************************************************************)
EXTENDS Naturals, Sequences, SequencesExt

CONSTANTS
    Files,
    N,         \* the blocks of the disk, super block left out
    Direct,    \* INODE_DIRECT_BLOCK
    E,         \* InodeEntryNum
    MaxData,   \* bound on the data blocks of a file
    RefMax,    \* largest value of the uint32_t refcnt
    NoInode,   \* "the file does not exist"
    Closed     \* "no InodeFile has the file open"

\* What the inode and its three trees can list.
Capacity == Direct + E + E * E + E * E * E

ASSUME SizesAssumption ==
    /\ N \in Nat /\ Direct \in Nat /\ E \in Nat \ {0} /\ RefMax \in Nat \ {0}
    /\ MaxData \in 0 .. Capacity

VARIABLES
    free,       \* the free list, the last block freed at the end
    children,   \* block -> the children of an entry block, << >> for another block
    inode,      \* file -> its InodeBlock
    file,       \* file -> the fields of the InodeFile that has it open
    refs,       \* block -> refcnt, 0 if the block is not cached
    stored,     \* closed file -> data_ids_ when it was closed
    lost,       \* the files that a close() could not save
    leaky,      \* an operation or a close() has left blocks to nobody
    dangling    \* a close() has given back references that it did not hold

diskVars == <<free, children, inode>>
history == <<stored, lost, leaky, dangling>>
vars == <<diskVars, file, refs, history>>

-----------------------------------------------------------------------------
Blocks == 1 .. N
Null == 0
Exists(f) == inode[f] # NoInode
IsOpen(f) == Exists(f) /\ file[f] # Closed
Smaller(m, n) == IF m < n THEN m ELSE n
Larger(m, n) == IF m < n THEN n ELSE m

\* The last n blocks of the free list in the order allocate hands them out,
\* and the list without them.
Taken(list, n) == Reverse(SubSeq(list, Len(list) - n + 1, Len(list)))
Rest(list, n) == SubSeq(list, 1, Len(list) - n)

\* What allocate and free_block leave in the counters.
Counted(counts, granted, given) ==
    [b \in Blocks |-> IF b \in granted THEN 1 ELSE IF b \in given THEN 0 ELSE counts[b]]

\* load of the blocks of B that are not in cached_data_ yet.
Referenced(counts, B) ==
    [b \in Blocks |-> IF b \in B THEN (counts[b] + 1) % (RefMax + 1) ELSE counts[b]]

\* unref_block on each block of B.  Nothing happens to a block that is not in
\* the cache; one that is, although nobody references it, wraps around.
Released(counts, B) ==
    {[b \in Blocks |-> IF b \notin B THEN counts[b]
                       ELSE IF counts[b] > 0 THEN counts[b] - 1
                       ELSE IF b \in idle THEN RefMax ELSE 0] :
        idle \in SUBSET {b \in B : counts[b] = 0}}

-----------------------------------------------------------------------------
(* load_entries_: the walk over direct blocks and trees.  left is data_num, *)
(* ids and entries are data_ids_ and entry_ids_, ch[b] are the children in   *)
(* entry block b.                                                           *)

LoadLeaf(ch, walk, b) ==
    LET n == Smaller(walk.left, Len(ch[b])) IN
    IF walk.left = 0 \/ ~walk.ok THEN walk
    ELSE IF b = Null THEN [walk EXCEPT !.ok = FALSE]
    ELSE [ok |-> ch[b] # << >>,
          left |-> walk.left - n,
          ids |-> walk.ids \o SubSeq(ch[b], 1, n),
          entries |-> Append(walk.entries, b)]

LoadNode(LoadChild(_, _, _), ch, walk, b) ==
    LET after[k \in 0 .. Len(ch[b])] ==
            IF k = 0 THEN [walk EXCEPT !.ok = ch[b] # << >>, !.entries = Append(@, b)]
            ELSE LoadChild(ch, after[k - 1], ch[b][k])
    IN  IF walk.left = 0 \/ ~walk.ok THEN walk
        ELSE IF b = Null THEN [walk EXCEPT !.ok = FALSE]
        ELSE after[Len(ch[b])]

LoadDouble(ch, walk, b) == LoadNode(LoadLeaf, ch, walk, b)
LoadTriple(ch, walk, b) == LoadNode(LoadDouble, ch, walk, b)

LoadEntries(ch, node) ==
    LET n == Smaller(Direct, node.need)
        start == [ok |-> TRUE, left |-> node.need - n,
                  ids |-> SubSeq(node.direct, 1, n), entries |-> << >>]
        one == LoadLeaf(ch, start, node.roots[1])
        two == LoadDouble(ch, one, node.roots[2])
    IN  LoadTriple(ch, two, node.roots[3])

-----------------------------------------------------------------------------
(* save_entries_: data_ids_ is written into direct blocks and trees.  i is   *)
(* the number of ids written, entries is entry_ids_, id the block written.   *)

\* The entry block a save fills: the last one loaded, else a new one.
GetEntry(save) ==
    IF save.entries # << >>
    THEN [save EXCEPT !.id = Last(save.entries), !.entries = Front(save.entries)]
    ELSE IF save.free # << >>
    THEN [save EXCEPT !.id = Last(save.free), !.free = Front(save.free),
                      !.granted = @ \cup {Last(save.free)}]
    ELSE [save EXCEPT !.id = Null]

SaveLeafNoReset(save, ids) ==   \* mutant: the new children behind the old ones
    LET got == GetEntry(save)
        n == Smaller(E, Len(ids) - save.i)
    IN  IF save.i = Len(ids) THEN [save EXCEPT !.id = Null]
        ELSE IF got.id = Null THEN got
        ELSE [got EXCEPT !.children[got.id] = @ \o SubSeq(ids, save.i + 1, save.i + n),
                         !.i = save.i + n]

SaveLeaf(save, ids) ==
    LET got == GetEntry(save)
        n == Smaller(E, Len(ids) - save.i)
    IN  IF save.i = Len(ids) THEN [save EXCEPT !.id = Null]
        ELSE IF got.id = Null THEN got
        ELSE [got EXCEPT !.children[got.id] = SubSeq(ids, save.i + 1, save.i + n),
                         !.i = save.i + n]

\* A child that cannot be saved ends the loop; the blocks of the children
\* saved before it are left to nobody, and i stays behind them.
SaveNode(SaveChild(_, _), save, ids) ==
    LET got == GetEntry(save)
        loop[k \in 0 .. E] ==
            IF k = 0 THEN [save |-> got, failed |-> FALSE, kids |-> << >>]
            ELSE LET last == loop[k - 1]
                     child == SaveChild(last.save, ids)
                 IN  IF last.failed \/ last.save.i = Len(ids) THEN last
                     ELSE [save |-> child, failed |-> child.id = Null,
                           kids |-> Append(last.kids, child.id)]
        done == loop[E]
    IN  IF save.i = Len(ids) THEN [save EXCEPT !.id = Null]
        ELSE IF got.id = Null THEN got
        ELSE IF done.failed
        THEN [done.save EXCEPT !.id = Null, !.free = Append(@, got.id),
                               !.children[got.id] = << >>]
        ELSE [done.save EXCEPT !.id = got.id, !.children[got.id] = done.kids]

SaveDouble(save, ids) == SaveNode(SaveLeaf, save, ids)
SaveTripleFlat(save, ids) == SaveNode(SaveLeaf, save, ids)   \* mutant: wrong level

SaveTriple(save, ids) == SaveNode(SaveDouble, save, ids)

\* The whole of save_entries_(), the entry blocks not needed anymore freed.
SaveEntries(ids, entries) ==
    LET start == [i |-> Smaller(Direct, Len(ids)), id |-> Null, entries |-> entries,
                  free |-> free, children |-> children, granted |-> {}]
        one == SaveLeaf(start, ids)
        two == SaveDouble(one, ids)
        three == SaveTriple(two, ids)
        surplus == three.entries
    IN  [saved |-> three.i = Len(ids),
         roots |-> <<one.id, two.id, three.id>>,
         free |-> three.free \o surplus,
         children |-> [b \in Blocks |-> IF b \in ToSet(surplus) THEN << >>
                                        ELSE three.children[b]],
         fresh |-> three.granted]

-----------------------------------------------------------------------------
Init ==
    /\ free = [k \in Blocks |-> N + 1 - k]
    /\ children = [b \in Blocks |-> << >>]
    /\ inode = [f \in Files |-> NoInode]
    /\ file = [f \in Files |-> Closed]
    /\ refs = [b \in Blocks |-> 0]
    /\ stored = [f \in Files |-> << >>]
    /\ lost = {}
    /\ leaky = FALSE
    /\ dangling = FALSE

\* create: a new inode, left open; without a block for it nothing happens.
Create(f) ==
    /\ ~Exists(f)
    /\ free # << >>
    /\ LET b == Last(free) IN
       /\ inode' = [inode EXCEPT ![f] = [id |-> b, need |-> 0, roots |-> <<Null, Null, Null>>,
                                         direct |-> [k \in 1 .. Direct |-> Null]]]
       /\ refs' = Counted(refs, {b}, {})
    /\ free' = Front(free)
    /\ file' = [file EXCEPT ![f] = [ids |-> << >>, entries |-> << >>, cached |-> {}]]
    /\ UNCHANGED <<children, history>>

\* close() of an InodeFile with these fields, with the counters as given.
CloseWith(f, h, counts) ==
    LET node == inode[f]
        save == SaveEntries(h.ids, h.entries)
        given == save.fresh \cup (ToSet(h.entries) \cap ToSet(save.free))
    IN  /\ free' = save.free
        /\ children' = save.children
        /\ inode' = [inode EXCEPT ![f].roots = save.roots,
                                  ![f].direct = [k \in 1 .. Direct |->
                                        IF k <= Len(h.ids) THEN h.ids[k] ELSE @[k]]]
        /\ refs' \in Released(Counted(counts, {}, given), h.cached \cup {node.id})
        /\ file' = [file EXCEPT ![f] = Closed]
        /\ lost' = IF save.saved THEN lost ELSE lost \cup {f}
        /\ leaky' = (leaky \/ ~save.saved \/ Len(h.ids) # node.need)
        /\ dangling' = (dangling \/ ~(h.cached \subseteq ToSet(h.ids)))

Close(f) ==
    /\ IsOpen(f)
    /\ CloseWith(f, file[f], refs)
    /\ stored' = [stored EXCEPT ![f] = file[f].ids]

\* open, which closes the file again when it cannot find all of its blocks.
Open(f) ==
    /\ Exists(f) /\ ~IsOpen(f)
    /\ LET node == inode[f]
           walk == LoadEntries(children, node)
           h == [ids |-> walk.ids, entries |-> walk.entries, cached |-> {}]
       IN  \/ /\ walk.ok
              /\ file' = [file EXCEPT ![f] = h]
              /\ refs' = Referenced(refs, {node.id})
              /\ stored' = [stored EXCEPT ![f] = << >>]
              /\ UNCHANGED <<diskVars, lost, leaky, dangling>>
           \/ /\ ~walk.ok
              /\ CloseWith(f, h, Referenced(refs, {node.id}))
              /\ UNCHANGED stored

ReadAgain(f, i, j) ==   \* mutant: loads without looking in cached_data_
    /\ IsOpen(f)
    /\ i < j /\ j <= inode[f].need
    /\ LET touched == ToSet(SubSeq(file[f].ids, i + 1, j)) IN
       /\ file' = [file EXCEPT ![f].cached = @ \cup touched]
       /\ refs' = Referenced(refs, touched)
    /\ UNCHANGED <<diskVars, history>>

\* read and readall, of blocks i + 1 .. j.
Read(f, i, j) ==
    /\ IsOpen(f)
    /\ i < j /\ j <= inode[f].need
    /\ LET touched == ToSet(SubSeq(file[f].ids, i + 1, j)) \ file[f].cached IN
       /\ file' = [file EXCEPT ![f].cached = @ \cup touched]
       /\ refs' = Referenced(refs, touched)
    /\ UNCHANGED <<diskVars, history>>

ExtendUnchecked(f, i, n) ==   \* mutant: the id of a failed allocation is kept
    LET h == file[f]
        new == Smaller(n - Smaller(n, Len(h.ids)), Len(free))
        grant == Taken(free, new)
        missing == [k \in 1 .. n - Smaller(n, Len(h.ids)) - new |-> Null]
    IN  /\ free' = Rest(free, new)
        /\ file' = [file EXCEPT ![f].ids = h.ids \o grant \o missing,
                                ![f].cached = @ \cup ToSet(grant)]
        /\ refs' = Counted(refs, ToSet(grant), {})
        /\ inode' = [inode EXCEPT ![f].need = Larger(@, n)]
        /\ UNCHANGED <<children, history>>

\* The file has n data blocks, or as many as the disk can give; blocks from
\* i + 1 on are loaded.  Its size grows only if all were there.
Extend(f, i, n) ==
    LET h == file[f]
        new == Smaller(n - Smaller(n, Len(h.ids)), Len(free))
        grant == Taken(free, new)
        ids == h.ids \o grant
        touched == ToSet(SubSeq(h.ids, i + 1, Smaller(n, Len(h.ids)))) \ h.cached
    IN  /\ free' = Rest(free, new)
        /\ file' = [file EXCEPT ![f].ids = ids,
                                ![f].cached = @ \cup touched \cup ToSet(grant)]
        /\ refs' = Referenced(Counted(refs, ToSet(grant), {}), touched)
        /\ inode' = [inode EXCEPT ![f].need = IF Len(ids) < n THEN @ ELSE Larger(@, n)]
        /\ UNCHANGED <<children, history>>

\* write to blocks i + 1 .. n, from an offset within the file.
Write(f, i, n) ==
    /\ IsOpen(f)
    /\ i <= inode[f].need /\ i < n
    /\ Extend(f, i, n)

\* truncate to a size not below the present one.
Grow(f, n) ==
    /\ IsOpen(f)
    /\ n >= inode[f].need
    /\ Extend(f, n, n)

\* truncate to a smaller size, which leaves cached_data_ as it is.
Shrink(f, n) ==
    /\ IsOpen(f)
    /\ n <= inode[f].need /\ inode[f].need > 0
    /\ LET cut == SubSeq(file[f].ids, n + 1, Len(file[f].ids)) IN
       /\ free' = free \o cut
       /\ refs' = Counted(refs, {}, ToSet(cut))
    /\ file' = [file EXCEPT ![f].ids = SubSeq(@, 1, n)]
    /\ inode' = [inode EXCEPT ![f].need = n]
    /\ UNCHANGED <<children, history>>

RemoveAllKeepsIds(f) ==   \* mutant: data_ids_.clear() left out
    /\ IsOpen(f)
    /\ free' = free \o file[f].ids
    /\ refs' = Counted(refs, {}, ToSet(file[f].ids))
    /\ file' = [file EXCEPT ![f].cached = {}]
    /\ inode' = [inode EXCEPT ![f].need = 0]
    /\ UNCHANGED <<children, history>>

RemoveAll(f) ==
    /\ IsOpen(f)
    /\ free' = free \o file[f].ids
    /\ refs' = Counted(refs, {}, ToSet(file[f].ids))
    /\ file' = [file EXCEPT ![f].ids = << >>, ![f].cached = {}]
    /\ inode' = [inode EXCEPT ![f].need = 0]
    /\ UNCHANGED <<children, history>>

\* insert and remove, on an InodeFile with the fields h and a disk with the
\* free list list: TempData collects the new blocks i + 1 .. n; then move_to
\* frees the old ones, the last first, and puts the new ones in their place.
\* If the disk fills up, ~TempData drops its references but frees nothing.
Rebuild(f, h, list, counts, i, n) ==
    LET grant == Taken(list, Smaller(n - i, Len(list)))
        old == SubSeq(h.ids, i + 1, Len(h.ids))
    IN  \/ /\ Len(grant) = n - i
           /\ free' = Rest(list, n - i) \o Reverse(old)
           /\ file' = [file EXCEPT ![f] =
                          [h EXCEPT !.ids = SubSeq(@, 1, i) \o grant,
                                    !.cached = (@ \ ToSet(old)) \cup ToSet(grant)]]
           /\ refs' = Counted(counts, ToSet(grant), ToSet(old))
           /\ inode' = [inode EXCEPT ![f].need = n]
           /\ UNCHANGED leaky
        \/ /\ Len(grant) < n - i
           /\ free' = << >>
           /\ file' = [file EXCEPT ![f] = h]
           /\ refs' = Counted(counts, {}, ToSet(grant))
           /\ leaky' = (leaky \/ grant # << >>)
           /\ UNCHANGED inode

\* insert in block i + 1, loaded or, at the end of the file, allocated first;
\* the file then has n blocks.
Insert(f, i, n) ==
    /\ IsOpen(f)
    /\ i <= inode[f].need /\ inode[f].need <= n
    /\ LET h == file[f]
           new == IF i = Len(h.ids) THEN Taken(free, Smaller(1, Len(free))) ELSE << >>
           touched == ToSet(SubSeq(h.ids, i + 1, Smaller(i + 1, Len(h.ids)))) \ h.cached
       IN  Rebuild(f,
                   [h EXCEPT !.ids = @ \o new, !.cached = @ \cup touched \cup ToSet(new)],
                   Rest(free, Len(new)),
                   Referenced(Counted(refs, ToSet(new), {}), touched), i, n)
    /\ UNCHANGED <<children, stored, lost, dangling>>

\* remove from block i + 1, after which the file has n blocks.  A disk that fills
\* up stops it after it has loaded some of the blocks behind the removed bytes.
RemovePart(f, i, n) ==
    /\ IsOpen(f)
    /\ i < inode[f].need /\ i <= n /\ n <= inode[f].need
    /\ \E from, to \in IF n - i <= Len(free) THEN {i + 1} ELSE i + 1 .. inode[f].need :
          LET h == file[f]
              copied == {h.ids[i + 1]} \cup ToSet(SubSeq(h.ids, from, to))
          IN  Rebuild(f, [h EXCEPT !.cached = @ \cup copied], free,
                      Referenced(refs, copied \ h.cached), i, n)
    /\ UNCHANGED <<children, stored, lost, dangling>>

DeleteClosesFirst(f) ==   \* mutant: removeall after close does nothing
    /\ IsOpen(f)
    /\ LET gone == file[f].entries \o <<inode[f].id>> IN
       /\ free' = free \o gone
       /\ children' = [b \in Blocks |-> IF b \in ToSet(gone) THEN << >> ELSE children[b]]
       /\ refs' = Counted(refs, {}, ToSet(gone \o file[f].ids))
    /\ inode' = [inode EXCEPT ![f] = NoInode]
    /\ file' = [file EXCEPT ![f] = Closed]
    /\ stored' = [stored EXCEPT ![f] = << >>]
    /\ lost' = lost \ {f}
    /\ UNCHANGED <<leaky, dangling>>

\* The file system removes a file: open or load_node_, then removeall, close
\* and free_block of the inode.
Delete(f) ==
    /\ IsOpen(f)
    /\ LET h == file[f]
           gone == h.ids \o h.entries \o <<inode[f].id>>
       IN  /\ free' = free \o gone
           /\ children' = [b \in Blocks |-> IF b \in ToSet(gone) THEN << >> ELSE children[b]]
           /\ refs' = Counted(refs, {}, ToSet(gone))
    /\ inode' = [inode EXCEPT ![f] = NoInode]
    /\ file' = [file EXCEPT ![f] = Closed]
    /\ stored' = [stored EXCEPT ![f] = << >>]
    /\ lost' = lost \ {f}
    /\ UNCHANGED <<leaky, dangling>>

Next ==
    \E f \in Files :
        \/ Create(f) \/ Open(f) \/ Close(f) \/ RemoveAll(f) \/ Delete(f)
        \/ \E n \in 0 .. MaxData : Grow(f, n) \/ Shrink(f, n)
        \/ \E i, n \in 0 .. MaxData :
              Read(f, i, n) \/ Write(f, i, n) \/ Insert(f, i, n) \/ RemovePart(f, i, n)

Spec == Init /\ [][Next]_vars

-----------------------------------------------------------------------------
(* Properties *)

Node == [id : Blocks, need : 0 .. MaxData, roots : [1 .. 3 -> 0 .. N],
         direct : [1 .. Direct -> 0 .. N]]
Fields == [ids : Seq(Blocks), entries : Seq(Blocks), cached : SUBSET Blocks]

ASSUME MarksAssumption == NoInode \notin Node /\ Closed \notin Fields

\* Every variable has its type.
TypeOK ==
    /\ free \in Seq(Blocks)
    /\ children \in [Blocks -> Seq(Blocks)]
    /\ inode \in [Files -> Node \cup {NoInode}]
    /\ file \in [Files -> Fields \cup {Closed}]
    /\ refs \in [Blocks -> 0 .. RefMax]
    /\ stored \in [Files -> Seq(Blocks)]
    /\ lost \in SUBSET Files
    /\ leaky \in BOOLEAN /\ dangling \in BOOLEAN

\* The blocks of a file: those the open InodeFile knows, or those that the
\* next open() would find.
Found(f) == LoadEntries(children, inode[f])
Owned(f) ==
    IF ~Exists(f) THEN << >>
    ELSE <<inode[f].id>> \o (IF IsOpen(f) THEN file[f].ids \o file[f].entries
                                          ELSE Found(f).ids \o Found(f).entries)

\* No block has two owners, or two places in one file, or is owned and free:
\* through every sequence of operations of several files, saves that reuse
\* or give up entry blocks, and failures half-way (save_entries_, move_to).
\* Once a close() has given back too many references, pointers may dangle.
NoSharing ==
    ~dangling =>
        /\ IsInjective(free)
        /\ \A f \in Files :
              /\ IsInjective(Owned(f))
              /\ ToSet(Owned(f)) \cap ToSet(free) = {}
              /\ \A g \in Files \ {f} : ToSet(Owned(f)) \cap ToSet(Owned(g)) = {}

\* No block is lost: each is free or owned by a file, unless an operation ran
\* out of blocks with some in its hands.
NothingLost ==
    ~leaky /\ ~dangling =>
        Blocks = ToSet(free) \cup UNION {ToSet(Owned(f)) : f \in Files}

\* A closed file opens, with the data blocks that its size covers in the order
\* they had: whatever other files did since, however full the disk is, and
\* although open() reads trees that close() built from the entry blocks at hand.
Reopens ==
    \A f \in Files \ lost :
        Exists(f) /\ ~IsOpen(f) /\ ~dangling =>
            Found(f).ok /\ Found(f).ids = SubSeq(stored[f], 1, inode[f].need)

Pins(f) == IF IsOpen(f) THEN (file[f].cached \cap ToSet(file[f].ids)) \cup {inode[f].id}
                        ELSE {}

\* An open file holds exactly one reference to its inode and to each block it
\* has a pointer to, and nobody holds one to another block: what the block
\* manager relies on when it evicts, and why it can evict at all.
PinsExact ==
    ~dangling => \A b \in Blocks :
                 refs[b] = IF \E f \in Files : b \in Pins(f) THEN 1 ELSE 0
=============================================================================
