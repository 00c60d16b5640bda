------------------------- MODULE BlockManagerProofs -------------------------
(***************************************************************************)
(* Proofs about BlockManager, for every number of callers, every geometry  *)
(* of the disk, every cache size and every content.                        *)
(*                                                                         *)
(* The inductive invariant IndInv joins the invariants the runs check with *)
(* three facts they need: nothing is referenced while no manager runs, the *)
(* callers' blocks hold callers' data in memory and, once clean, on disk,  *)
(* and a session that moved no block still has the superblock of the disk. *)
(* Two sections build on it: the bound on the number of buffers, and the   *)
(* refinement of BlockStore.                                               *)
(***************************************************************************)
EXTENDS BlockBuffers, FiniteSetTheorems, TLAPS

DownIsEmpty ==
    /\ ~Up => \A b \in Blocks : blocks[b] = NoData /\ holders[b] = {}
    /\ \A b \in Blocks : wrote[b] \subseteq holders[b] /\ declared[b] \subseteq holders[b]

LiveHoldsData ==
    Up => \A b \in live : /\ Stored(b) \in Values
                          /\ Cached(b) /\ ~blocks[b].dirty => disk[b] \in Values

QuietKeepsSuper == Up /\ intact => sb = diskSb

IndInv ==
    /\ TypeOK
    /\ DownIsEmpty
    /\ RefcntExact
    /\ CleanMatchesDisk
    /\ LiveHoldsData
    /\ FreeListSound
    /\ QuietKeepsSuper
    /\ RestartSound

-----------------------------------------------------------------------------
(* The cache. *)

\* The victim of get_free_data_ is never the block being loaded.
LEMMA VictimDiffers ==
    ASSUME NEW b \in Blocks, NEW victim \in Evictions(b)
    PROVE  /\ victim # b
           /\ victim \in Blocks => victim \in Idle
BY DEF Evictions, Blocks, Idle, CachedBlocks

\* load_block_ with eviction disturbs no block but the one it loads: what is
\* stored in the others stays, in the cache or written to the disk, and a
\* referenced one stays where it is.
LEMMA PlaceFacts ==
    ASSUME TypeOK, RefcntExact, CleanMatchesDisk, DownIsEmpty,
           NEW b \in Blocks, NEW victim \in Evictions(b), NEW d \in Data,
           Place(b, victim, d)
    PROVE  /\ disk' \in [Blocks -> Content]
           /\ blocks' \in [Blocks -> Data \cup {NoData}]
           /\ pool' \in 0 .. MaxPool
           /\ diskSb' = diskSb
           /\ blocks'[b] = d /\ disk'[b] = disk[b]
           /\ \A x \in Blocks \ {b} :
                 /\ blocks'[x] # NoData => blocks'[x] = blocks[x] /\ disk'[x] = disk[x]
                 /\ holders[x] # {} => blocks'[x] = blocks[x]
                 /\ Stored(x)' = Stored(x)
                 /\ disk'[x] \in {disk[x], Stored(x)}
<1>1. victim # b /\ (victim \in Blocks => victim \in Idle)
  BY VictimDiffers
<1>2. /\ blocks' = [x \in Blocks |->
                      IF x = b THEN d ELSE IF x = victim THEN NoData ELSE blocks[x]]
      /\ disk' = [x \in Blocks |-> IF x \in {victim} \cap Dirty
                                   THEN blocks[x].data ELSE disk[x]]
      /\ pool' = IF Cached(b) \/ pool = 0 THEN pool ELSE pool - 1
      /\ diskSb' = diskSb
  BY DEF Place, WriteBack
<1>3. \A x \in Dirty : blocks[x] \in Data /\ blocks[x].data \in Content
  BY DEF Dirty, CachedBlocks, Cached, TypeOK, Data
<1>4. disk' \in [Blocks -> Content]
  BY <1>2, <1>3 DEF TypeOK
<1>5. blocks' \in [Blocks -> Data \cup {NoData}]
  BY <1>2 DEF TypeOK
<1>6. pool' \in 0 .. MaxPool
  BY <1>2, GeometryAssumption DEF TypeOK
<1>7. blocks'[b] = d /\ disk'[b] = disk[b]
  BY <1>1, <1>2
<1>8. ASSUME NEW x \in Blocks \ {b}
      PROVE  /\ blocks'[x] # NoData => blocks'[x] = blocks[x] /\ disk'[x] = disk[x]
             /\ holders[x] # {} => blocks'[x] = blocks[x]
             /\ Stored(x)' = Stored(x)
             /\ disk'[x] \in {disk[x], Stored(x)}
  <2>1. CASE x # victim
    <3>1. blocks'[x] = blocks[x] /\ disk'[x] = disk[x]
      BY <1>2, <2>1
    <3>2. Stored(x)' = Stored(x)
      BY <3>1 DEF Stored, Loaded, Cached
    <3> QED
      BY <3>1, <3>2
  <2>2. CASE x = victim
    <3>1. x \in CachedBlocks /\ blocks[x] # NoData /\ blocks[x].refcnt = 0
      BY <1>1, <2>2 DEF Idle, CachedBlocks, Cached
    <3>2. holders[x] = {}
      <4>1. Cardinality(holders[x]) = 0
        BY <3>1 DEF RefcntExact, Cached
      <4>2. IsFiniteSet(holders[x])
        BY ClientsAssumption, FS_Subset DEF TypeOK
      <4> QED
        BY <4>1, <4>2, FS_EmptySet
    <3>3. wrote[x] = {}
      BY <3>2 DEF DownIsEmpty
    <3>4. blocks'[x] = NoData
      BY <1>2, <2>2
    <3>5. Stored(x) = blocks[x].data
      BY <3>1 DEF Stored, Loaded, Cached
    <3>6. Stored(x)' = disk'[x]
      BY <3>4 DEF Stored, Loaded, Cached
    <3>7. disk'[x] = blocks[x].data
      <4>1. CASE x \in Dirty
        BY <4>1, <1>2, <2>2
      <4>2. CASE x \notin Dirty
        <5>1. ~blocks[x].dirty
          BY <3>1, <4>2 DEF Dirty
        <5>2. blocks[x].data = disk[x]
          BY <5>1, <3>1, <3>3 DEF CleanMatchesDisk
        <5> QED
          BY <5>2, <4>2, <1>2
      <4> QED
        BY <4>1, <4>2
    <3> QED
      BY <3>2, <3>4, <3>5, <3>6, <3>7
  <2> QED
    BY <2>1, <2>2
<1> QED
  BY <1>2, <1>4, <1>5, <1>6, <1>7, <1>8

\* An entry found or made by load_block_ is one of the type.
LEMMA LoadedType ==
    ASSUME TypeOK, NEW b \in Blocks
    PROVE  /\ Loaded(b) \in Data
           /\ Stored(b) = Loaded(b).data /\ Stored(b) \in Content
<1>1. 0 \in 0 .. RefMax
  BY ClientsAssumption
<1> QED
  BY <1>1 DEF TypeOK, Loaded, Cached, Data, Stored

\* The references of a block are finitely many, fewer than refcnt can count.
LEMMA FiniteHolders ==
    ASSUME TypeOK, NEW b \in Blocks
    PROVE  /\ IsFiniteSet(holders[b])
           /\ Cardinality(holders[b]) \in 0 .. RefMax
           /\ \A c \in Clients \ holders[b] : Cardinality(holders[b]) < RefMax
<1>1. holders[b] \subseteq Clients
  BY DEF TypeOK
<1>2. IsFiniteSet(holders[b]) /\ Cardinality(holders[b]) <= Cardinality(Clients)
  BY <1>1, ClientsAssumption, FS_Subset
<1>3. Cardinality(holders[b]) \in Nat /\ Cardinality(Clients) \in Nat
  BY <1>2, ClientsAssumption, FS_CardinalityType
<1>4. ASSUME NEW c \in Clients \ holders[b]
      PROVE  Cardinality(holders[b]) # Cardinality(Clients)
  BY <1>1, <1>4, ClientsAssumption, FS_Subset
<1> QED
  BY <1>2, <1>3, <1>4, ClientsAssumption

-----------------------------------------------------------------------------
(* What the steps that move no block between owners have in common. *)

\* The free list in memory stands as long as the blocks on it keep their bytes.
LEMMA FreeListStable ==
    ASSUME FreeListSound, Up,
           sb' = sb, live' = live, freed' = freed, freed \in Seq(Blocks),
           \A b \in FreedSet : Stored(b)' = Stored(b)
    PROVE  FreeListSound'
<1> DEFINE content == [b \in Blocks |-> Stored(b)]
<1>1. Describes(sb, content)
  BY DEF FreeListSound
<1>2. \A i \in 1 .. Len(freed) : freed[i] \in FreedSet /\ freed[i] \in Blocks
  BY DEF FreedSet
<1>3. \A i \in 1 .. Len(freed) : Stored(freed[i])' = Stored(freed[i])
  BY <1>2
<1>4. \A i \in 1 .. Len(freed) : content[freed[i]] = Stored(freed[i])
  BY <1>2
<1>5. \A i \in 1 .. Len(freed) : content'[freed[i]] = Stored(freed[i])'
  BY <1>2
<1>6. FreedSet' = FreedSet
  BY DEF FreedSet
<1>7. \A i \in 1 .. Len(freed)' :
         content'[freed'[i]] = [next |-> IF i = 1 THEN Null ELSE freed'[i - 1],
                                version |-> sb'.version]
  <2> HIDE DEF content
  <2> QED
    BY <1>1, <1>3, <1>4, <1>5 DEF Describes
<1>8. Describes(sb, content)'
  <2> HIDE DEF content
  <2> QED
    BY <1>1, <1>6, <1>7 DEF Describes, Extent
<1> QED
  BY <1>8 DEF FreeListSound

\* While no block moved since the manager was opened, the blocks of the free
\* list have in memory the bytes they have on disk.
LEMMA QuietFreed ==
    ASSUME FreeListSound, RestartSound, QuietKeepsSuper, TypeOK, Up, intact,
           NEW b \in FreedSet
    PROVE  disk[b] = Stored(b)
<1>1. sb = diskSb /\ diskSb # NoSuper
  BY DEF QuietKeepsSuper, Up
<1>2. Describes(sb, [x \in Blocks |-> Stored(x)]) /\ Describes(sb, disk)
  BY <1>1 DEF FreeListSound, RestartSound
<1>3. PICK i \in 1 .. Len(freed) : b = freed[i]
  BY DEF FreedSet
<1>4. b \in Blocks
  BY <1>3 DEF TypeOK
<1>5. [x \in Blocks |-> Stored(x)][b] = disk[b]
  BY <1>2, <1>3 DEF Describes
<1> QED
  BY <1>4, <1>5

\* A restart stays possible when blocks reach the disk with the bytes stored in
\* them and no block changes owner.
LEMMA RestartStable ==
    ASSUME IndInv, Up,
           diskSb' = diskSb, live' = live, freed' = freed, intact' => intact,
           \A b \in Blocks : disk'[b] \in {disk[b], Stored(b)}
    PROVE  RestartSound'
<1> SUFFICES ASSUME intact'
             PROVE  /\ diskSb # NoSuper
                    /\ Describes(diskSb, disk)'
                    /\ \A b \in live : disk'[b] \in Values
  BY DEF RestartSound
<1>1. intact /\ diskSb # NoSuper
  BY DEF IndInv, QuietKeepsSuper, Up
<1>2. Describes(diskSb, disk) /\ \A b \in live : disk[b] \in Values
  BY <1>1 DEF IndInv, RestartSound
<1>3. \A b \in FreedSet : disk'[b] = disk[b]
  <2> TAKE b \in FreedSet
  <2>1. disk[b] = Stored(b)
    BY <1>1, QuietFreed DEF IndInv
  <2>2. b \in Blocks
    BY DEF IndInv, TypeOK, FreedSet
  <2> QED
    BY <2>1, <2>2
<1>4. \A i \in 1 .. Len(freed) : disk'[freed[i]] = disk[freed[i]]
  BY <1>3 DEF FreedSet
<1>5. FreedSet' = FreedSet
  BY DEF FreedSet
<1>6. Describes(diskSb, disk)'
  BY <1>2, <1>4, <1>5 DEF Describes, Extent
<1>7. \A b \in live : disk'[b] \in Values
  BY <1>2 DEF IndInv, LiveHoldsData, TypeOK
<1> QED
  BY <1>1, <1>6, <1>7

-----------------------------------------------------------------------------
(* One lemma for each action. *)

LEMMA LoadStep ==
    ASSUME IndInv, NEW c \in Clients, NEW b \in Blocks, Load(c, b)
    PROVE  IndInv'
<1> USE DEF IndInv
<1>1. /\ Up /\ b \in live /\ c \notin holders[b]
      /\ holders' = [holders EXCEPT ![b] = @ \cup {c}]
      /\ UNCHANGED <<sb, wrote, declared, live, freed, intact>>
  BY DEF Load, ownerVars
<1> DEFINE d == [Loaded(b) EXCEPT !.refcnt = Incr(@)]
<1>2. PICK victim \in Evictions(b) : Place(b, victim, d)
  BY DEF Load
<1>3. /\ Loaded(b) \in Data /\ Stored(b) = Loaded(b).data
      /\ holders[b] = {} \/ Cached(b)
  BY LoadedType DEF RefcntExact
<1>4. /\ Cardinality(holders[b]) \in 0 .. RefMax - 1
      /\ Cardinality(holders[b] \cup {c}) = Cardinality(holders[b]) + 1
  <2>1. /\ IsFiniteSet(holders[b]) /\ Cardinality(holders[b]) \in 0 .. RefMax
        /\ Cardinality(holders[b]) < RefMax
    BY <1>1, FiniteHolders
  <2>2. Cardinality(holders[b] \cup {c}) = Cardinality(holders[b]) + 1
    BY <1>1, <2>1, FS_AddElement
  <2> QED
    BY <2>1, <2>2, ClientsAssumption
<1>5. Loaded(b).refcnt = Cardinality(holders[b])
  BY <1>3, FS_EmptySet DEF Loaded, RefcntExact
<1>6. /\ d \in Data /\ d.data = Stored(b) /\ d.dirty = Loaded(b).dirty
      /\ d.refcnt = Cardinality(holders'[b])
  <2>1. Incr(Loaded(b).refcnt) = Cardinality(holders[b]) + 1
    BY <1>4, <1>5, ClientsAssumption DEF Incr
  <2>2. holders'[b] = holders[b] \cup {c}
    BY <1>1 DEF TypeOK
  <2> QED
    BY <1>3, <1>4, <2>1, <2>2, ClientsAssumption DEF Data
<1>7. /\ disk' \in [Blocks -> Content] /\ blocks' \in [Blocks -> Data \cup {NoData}]
      /\ pool' \in 0 .. MaxPool /\ diskSb' = diskSb
      /\ blocks'[b] = d /\ disk'[b] = disk[b]
      /\ \A x \in Blocks \ {b} :
            /\ blocks'[x] # NoData => blocks'[x] = blocks[x] /\ disk'[x] = disk[x]
            /\ holders[x] # {} => blocks'[x] = blocks[x]
            /\ Stored(x)' = Stored(x)
            /\ disk'[x] \in {disk[x], Stored(x)}
  BY <1>2, <1>6, PlaceFacts
<1>8. \A x \in Blocks \ {b} : holders'[x] = holders[x]
  BY <1>1 DEF TypeOK
<1>9. d # NoData
  BY <1>6, SentinelAssumption
<1>10. \A x \in Blocks : Stored(x)' = Stored(x)
  BY <1>6, <1>7, <1>9 DEF Stored, Loaded, Cached
<1>11. TypeOK'
  BY <1>1, <1>7 DEF TypeOK
<1>12. DownIsEmpty'
  <2>1. Up' /\ \A x \in Blocks : holders[x] \subseteq holders'[x]
    BY <1>1 DEF TypeOK, Up
  <2> QED
    BY <1>1, <2>1 DEF DownIsEmpty
<1>13. RefcntExact'
  BY <1>1, <1>6, <1>7, <1>8, <1>9 DEF RefcntExact, Cached
<1>14. CleanMatchesDisk'
  <2> SUFFICES ASSUME NEW x \in Blocks, blocks'[x] # NoData
               PROVE  /\ ~blocks'[x].dirty /\ wrote'[x] = {} => blocks'[x].data = disk'[x]
                      /\ declared'[x] # {} => blocks'[x].dirty
    BY DEF CleanMatchesDisk, CachedBlocks, Cached
  <2>1. CASE x = b
    <3>1. CASE Cached(b)
      BY <1>1, <1>6, <1>7, <2>1, <3>1 DEF CleanMatchesDisk, CachedBlocks, Stored, Loaded
    <3>2. CASE ~Cached(b)
      <4>1. wrote[b] = {} /\ declared[b] = {}
        BY <1>3, <3>2 DEF DownIsEmpty
      <4>2. d.data = disk[b]
        BY <1>6, <3>2 DEF Stored, Loaded
      <4> QED
        BY <1>1, <1>7, <2>1, <4>1, <4>2
    <3> QED
      BY <3>1, <3>2
  <2>2. CASE x # b
    BY <1>1, <1>7, <2>2 DEF CleanMatchesDisk, CachedBlocks, Cached
  <2> QED
    BY <2>1, <2>2
<1>15. LiveHoldsData'
  <2> SUFFICES ASSUME NEW x \in live
               PROVE  /\ Stored(x)' \in Values
                      /\ blocks'[x] # NoData /\ ~blocks'[x].dirty => disk'[x] \in Values
    BY <1>1 DEF LiveHoldsData, Cached
  <2>1. x \in Blocks /\ Stored(x)' \in Values
    BY <1>1, <1>10 DEF LiveHoldsData, TypeOK
  <2>2. CASE x = b
    BY <1>1, <1>6, <1>7, <2>1, <2>2 DEF LiveHoldsData, Stored, Loaded, Cached
  <2>3. CASE x # b
    BY <1>1, <1>7, <2>1, <2>3 DEF LiveHoldsData, Cached
  <2> QED
    BY <2>1, <2>2, <2>3
<1>16. FreeListSound'
  <2>1. \A x \in FreedSet : x \in Blocks
    BY DEF FreedSet, TypeOK
  <2> QED
    BY <1>1, <1>10, <2>1, FreeListStable DEF TypeOK
<1>17. QuietKeepsSuper'
  BY <1>1, <1>7 DEF QuietKeepsSuper, Up
<1>18. RestartSound'
  BY <1>1, <1>7, RestartStable
<1> QED
  BY <1>11, <1>12, <1>13, <1>14, <1>15, <1>16, <1>17, <1>18

\* Handing b out disturbs no other block; the free list is left to the callers
\* of this lemma.
LEMMA GrantStep ==
    ASSUME IndInv, Up, NEW c \in Clients, NEW b \in Blocks, b \notin live, Grant(c, b),
           sb' \in SuperBlock, freed' \in Seq(Blocks)
    PROVE  /\ TypeOK' /\ DownIsEmpty' /\ RefcntExact' /\ CleanMatchesDisk'
           /\ LiveHoldsData' /\ QuietKeepsSuper' /\ RestartSound'
           /\ \A x \in Blocks \ {b} : Stored(x)' = Stored(x)
<1> USE DEF IndInv
<1>1. /\ holders' = [holders EXCEPT ![b] = @ \cup {c}]
      /\ declared' = [declared EXCEPT ![b] = @ \cup {c}]
      /\ live' = live \cup {b} /\ intact' = FALSE /\ wrote' = wrote
  BY DEF Grant
<1> DEFINE d == [dirty |-> TRUE, refcnt |-> 1, data |-> Zeroed]
<1>2. PICK victim \in Evictions(b) : Place(b, victim, d)
  BY DEF Grant
<1>3. d \in Data /\ d # NoData
  <2>1. d \in Data
    BY ClientsAssumption, ContentAssumption DEF Data, Content
  <2> QED
    BY <2>1, SentinelAssumption
<1>4. /\ disk' \in [Blocks -> Content] /\ blocks' \in [Blocks -> Data \cup {NoData}]
      /\ pool' \in 0 .. MaxPool /\ diskSb' = diskSb
      /\ blocks'[b] = d /\ disk'[b] = disk[b]
      /\ \A x \in Blocks \ {b} :
            /\ blocks'[x] # NoData => blocks'[x] = blocks[x] /\ disk'[x] = disk[x]
            /\ holders[x] # {} => blocks'[x] = blocks[x]
            /\ Stored(x)' = Stored(x)
            /\ disk'[x] \in {disk[x], Stored(x)}
  BY <1>2, <1>3, PlaceFacts
<1>5. holders[b] = {}
  BY DEF RefcntExact
<1>6. holders'[b] = {c} /\ \A x \in Blocks \ {b} : holders'[x] = holders[x]
  BY <1>1, <1>5 DEF TypeOK
<1>7. c \in declared'[b] /\ \A x \in Blocks \ {b} : declared'[x] = declared[x]
  BY <1>1 DEF TypeOK
<1>8. sb' # NoSuper
  BY SentinelAssumption
<1>9. TypeOK'
  BY <1>1, <1>4 DEF TypeOK
<1>10. DownIsEmpty'
  <2>1. declared[b] = {} /\ wrote[b] = {}
    BY <1>5 DEF DownIsEmpty
  <2>2. declared'[b] = {c}
    BY <1>1, <2>1 DEF TypeOK
  <2> QED
    BY <1>1, <1>6, <1>7, <1>8, <2>1, <2>2 DEF DownIsEmpty, Up
<1>11. RefcntExact'
  <2>1. Cardinality({c}) = 1
    BY FS_Singleton
  <2> QED
    <3> SUFFICES ASSUME NEW x \in Blocks
                 PROVE  /\ holders'[x] # {} => blocks'[x] # NoData /\ x \in live'
                        /\ blocks'[x] # NoData =>
                              blocks'[x].refcnt = Cardinality(holders'[x])
      BY DEF RefcntExact, Cached
    <3>1. CASE x = b
      <4>1. x \in live' /\ blocks'[x] # NoData
        BY <1>1, <1>3, <1>4, <3>1
      <4>2. blocks'[x] = d
        BY <1>4, <3>1
      <4>3. holders'[x] = {c}
        BY <1>6, <3>1
      <4> QED
        BY <4>1, <4>2, <4>3, <2>1
    <3>2. CASE x # b
      BY <1>1, <1>4, <1>6, <3>2 DEF RefcntExact, Cached
    <3> QED
      BY <3>1, <3>2
<1>12. CleanMatchesDisk'
  BY <1>1, <1>4, <1>7 DEF CleanMatchesDisk, CachedBlocks, Cached
<1>13. LiveHoldsData'
  <2> SUFFICES ASSUME NEW x \in live'
               PROVE  /\ Stored(x)' \in Values
                      /\ blocks'[x] # NoData /\ ~blocks'[x].dirty => disk'[x] \in Values
    BY DEF LiveHoldsData, Cached
  <2>1. CASE x = b
    BY <1>3, <1>4, <2>1, ContentAssumption DEF Stored, Loaded, Cached
  <2>2. CASE x # b
    <3>1. x \in live /\ x \in Blocks
      BY <1>1, <2>2 DEF TypeOK
    <3> QED
      BY <1>4, <2>2, <3>1 DEF LiveHoldsData, Cached
  <2> QED
    BY <2>1, <2>2
<1> QED
  BY <1>1, <1>4, <1>9, <1>10, <1>11, <1>12, <1>13 DEF QuietKeepsSuper, RestartSound

\* incr_next_block: the new end is the one block more that is handed out.
LEMMA NextExtends ==
    ASSUME NEW end \in Ends, ~DiskFull(end)
    PROVE  /\ NextBlock(end) \in Blocks
           /\ NextBlock(end) \notin Extent(end)
           /\ Extent(NextBlock(end)) = Extent(end) \cup {NextBlock(end)}
<1>1. end[1] \in 0 .. Cylinders - 1 /\ end[2] \in 0 .. Sections - 1 /\ end = <<end[1], end[2]>>
  BY GeometryAssumption DEF Ends, Blocks, Null, DiskFull, NextBlock
<1> DEFINE nb == NextBlock(end)
<1>2. /\ nb[1] \in 0 .. Cylinders - 1 /\ nb[2] \in 0 .. Sections - 1
      /\ nb = <<nb[1], nb[2]>> /\ nb # Null
  BY <1>1, GeometryAssumption DEF NextBlock, DiskFull, Null
<1>3. nb \in Blocks
  BY <1>2 DEF Blocks
<1>4. ~Leq(nb, end)
  BY <1>1, <1>2, GeometryAssumption DEF NextBlock, Leq
<1>5. ASSUME NEW b \in Blocks
      PROVE  Leq(b, nb) <=> Leq(b, end) \/ b = nb
  <2>1. b[1] \in 0 .. Cylinders - 1 /\ b[2] \in 0 .. Sections - 1 /\ b = <<b[1], b[2]>>
    BY DEF Blocks
  <2> QED
    BY <1>1, <1>2, <2>1, GeometryAssumption DEF NextBlock, Leq, DiskFull
<1> QED
  BY <1>3, <1>4, <1>5 DEF Extent

\* When the disk is full the end moves past it, and hands nothing out.
LEMMA FullKeepsExtent ==
    ASSUME NEW end \in Ends, DiskFull(end)
    PROVE  NextBlock(end) \in Ends /\ Extent(NextBlock(end)) = Extent(end)
<1>1. CASE end[1] = Cylinders
  BY <1>1 DEF NextBlock
<1>2. CASE end[1] # Cylinders
  <2>1. end[1] \in 0 .. Cylinders - 1 /\ end[2] \in 0 .. Sections - 1
    BY <1>2, GeometryAssumption DEF Ends, Blocks, Null
  <2>2. end[1] = Cylinders - 1 /\ end[2] = Sections - 1 /\ NextBlock(end) = <<Cylinders, 0>>
    BY <1>2, <2>1, GeometryAssumption DEF NextBlock, DiskFull
  <2>3. \A b \in Blocks : Leq(b, end) /\ Leq(b, NextBlock(end))
    BY <2>2, GeometryAssumption DEF Blocks, Leq
  <2> QED
    BY <2>2, <2>3 DEF Extent, Ends
<1> QED
  BY <1>1, <1>2

LEMMA AllocateNewStep ==
    ASSUME IndInv, NEW c \in Clients, AllocateNew(c)
    PROVE  IndInv'
<1> DEFINE nb == NextBlock(sb.end)
<1>1. /\ Up /\ sb.head = Null /\ ~DiskFull(sb.end) /\ Grant(c, nb)
      /\ sb' = [sb EXCEPT !.end = nb] /\ freed' = freed
  BY DEF AllocateNew
<1>2. sb \in SuperBlock /\ sb.end \in Ends
  BY <1>1 DEF IndInv, TypeOK, Up, SuperBlock
<1>3. nb \in Blocks /\ nb \notin Extent(sb.end) /\ Extent(nb) = Extent(sb.end) \cup {nb}
  BY <1>1, <1>2, NextExtends
<1>4. sb' \in SuperBlock /\ sb'.end = nb /\ sb'.head = sb.head /\ sb'.version = sb.version
  BY <1>1, <1>2, <1>3 DEF SuperBlock, Ends
<1>5. Describes(sb, [b \in Blocks |-> Stored(b)])
  BY <1>1 DEF IndInv, FreeListSound
<1>6. nb \notin live /\ nb \notin FreedSet
  BY <1>3, <1>5 DEF Describes
<1>7. /\ TypeOK' /\ DownIsEmpty' /\ RefcntExact' /\ CleanMatchesDisk'
      /\ LiveHoldsData' /\ QuietKeepsSuper' /\ RestartSound'
      /\ \A x \in Blocks \ {nb} : Stored(x)' = Stored(x)
  <2>1. freed' \in Seq(Blocks)
    BY <1>1 DEF IndInv, TypeOK
  <2> QED
    BY <1>1, <1>3, <1>4, <1>6, <2>1, GrantStep
<1>8. FreeListSound'
  <2>1. freed = << >>
    BY <1>1, <1>5 DEF Describes, Blocks, IndInv, TypeOK
  <2>2. FreedSet = {} /\ FreedSet' = {}
    BY <1>1, <2>1 DEF FreedSet
  <2>3. live' = Extent(sb'.end)
    BY <1>1, <1>3, <1>4, <1>5, <2>2 DEF Describes, Grant
  <2> QED
    BY <1>1, <1>4, <2>1, <2>2, <2>3 DEF FreeListSound, Describes
<1> QED
  BY <1>7, <1>8 DEF IndInv

\* The head of the list is its last freed block, and its bytes name the one
\* freed before it.
LEMMA HeadOfList ==
    ASSUME IndInv, Up, sb.head # Null
    PROVE  /\ Len(freed) \in Nat \ {0} /\ sb.head = freed[Len(freed)]
           /\ sb.head \in Blocks /\ sb.head \in FreedSet /\ sb.head \notin live
           /\ IsFree(Stored(sb.head))
           /\ Stored(sb.head).next =
                 IF Len(freed) = 1 THEN Null ELSE freed[Len(freed) - 1]
<1>1. Describes(sb, [b \in Blocks |-> Stored(b)]) /\ freed \in Seq(Blocks)
  BY DEF IndInv, FreeListSound, TypeOK
<1>2. Len(freed) \in Nat \ {0} /\ sb.head = freed[Len(freed)]
  BY <1>1 DEF Describes
<1>3. sb.head \in Blocks /\ sb.head \in FreedSet /\ sb.head \notin live
  BY <1>1, <1>2 DEF Describes, FreedSet
<1>4. Stored(sb.head) = [next |-> IF Len(freed) = 1 THEN Null ELSE freed[Len(freed) - 1],
                         version |-> sb.version]
  <2>1. [b \in Blocks |-> Stored(b)][freed[Len(freed)]] =
           [next |-> IF Len(freed) = 1 THEN Null ELSE freed[Len(freed) - 1],
            version |-> sb.version]
    <3>1. Len(freed) \in 1 .. Len(freed)
      BY <1>2
    <3> QED
      BY <1>1, <3>1 DEF Describes
  <2> QED
    BY <1>2, <1>3, <2>1
<1>5. sb.version \in Versions
  BY DEF IndInv, TypeOK, Up, SuperBlock
<1>6. Len(freed) = 1 \/ freed[Len(freed) - 1] \in Blocks
  <2> SUFFICES ASSUME Len(freed) # 1
               PROVE  freed[Len(freed) - 1] \in Blocks
    OBVIOUS
  <2>0. \A n \in Nat \ {0, 1} : n - 1 \in 1 .. n
    OBVIOUS
  <2>1. Len(freed) - 1 \in 1 .. Len(freed)
    BY <1>2, <2>0
  <2>2. \A i \in 1 .. Len(freed) : freed[i] \in Blocks
    BY <1>1
  <2> QED
    BY <2>1, <2>2
<1> QED
  BY <1>2, <1>3, <1>4, <1>5, <1>6 DEF IsFree, FreeMark

\* All but the last element of a sequence.
LEMMA FrontFacts ==
    ASSUME NEW S, NEW s \in Seq(S), NEW n \in Nat, Len(s) = n + 1
    PROVE  /\ SubSeq(s, 1, Len(s) - 1) \in Seq(S)
           /\ Len(SubSeq(s, 1, Len(s) - 1)) = n
           /\ \A i \in 1 .. n : SubSeq(s, 1, Len(s) - 1)[i] = s[i]
           /\ SubSeq(s, 1, Len(s) - 1) = << >> <=> n = 0
<1>1. \A i \in 1 .. n : s[i] \in S
  OBVIOUS
<1> QED
  BY <1>1

LEMMA AllocateFreedStep ==
    ASSUME IndInv, NEW c \in Clients, AllocateFreed(c)
    PROVE  IndInv'
<1> DEFINE h == sb.head
           content == [b \in Blocks |-> Stored(b)]
<1>1. /\ Up /\ h # Null /\ Grant(c, h)
      /\ sb' = [sb EXCEPT !.head = IF IsFree(Loaded(h).data) THEN Loaded(h).data.next ELSE Null]
      /\ freed' = SubSeq(freed, 1, Len(freed) - 1)
  BY DEF AllocateFreed
<1>2. PICK n \in Nat : Len(freed) = n + 1
  <2>1. Len(freed) \in Nat \ {0}
    BY <1>1, HeadOfList
  <2>2. \A m \in Nat \ {0} : m - 1 \in Nat /\ m = (m - 1) + 1
    OBVIOUS
  <2> QED
    BY <2>1, <2>2
<1>3. h = freed[n + 1] /\ h \in Blocks /\ h \notin live
  BY <1>1, <1>2, HeadOfList
<1>4. Stored(h) = Loaded(h).data
  BY DEF Stored
<1>5. sb' = [sb EXCEPT !.head = IF n = 0 THEN Null ELSE freed[n]]
  <2>1. IsFree(Stored(h)) /\ Stored(h).next = IF Len(freed) = 1 THEN Null ELSE freed[Len(freed) - 1]
    BY <1>1, HeadOfList
  <2>2. Stored(h).next = IF n = 0 THEN Null ELSE freed[n]
    BY <1>2, <2>1
  <2> QED
    BY <1>1, <1>4, <2>1, <2>2
<1>6. freed \in Seq(Blocks) /\ sb \in SuperBlock
  BY <1>1 DEF IndInv, TypeOK, Up
<1>7. /\ freed' \in Seq(Blocks) /\ Len(freed') = n
      /\ \A i \in 1 .. n : freed'[i] = freed[i]
      /\ freed' = << >> <=> n = 0
  BY <1>1, <1>2, <1>6, FrontFacts
<1>8. n = 0 \/ freed[n] \in Blocks
  BY <1>2, <1>6
<1>9. sb' \in SuperBlock
  BY <1>5, <1>6, <1>8 DEF SuperBlock
<1>10. /\ TypeOK' /\ DownIsEmpty' /\ RefcntExact' /\ CleanMatchesDisk'
       /\ LiveHoldsData' /\ QuietKeepsSuper' /\ RestartSound'
       /\ \A x \in Blocks \ {h} : Stored(x)' = Stored(x)
  BY <1>1, <1>3, <1>7, <1>9, GrantStep
<1>11. FreeListSound'
  <2>1. Describes(sb, content)
    BY <1>1 DEF IndInv, FreeListSound
  <2>2. \A i \in 1 .. n : freed[i] \in Blocks /\ freed[i] # h
    <3> TAKE i \in 1 .. n
    <3>1. i \in 1 .. Len(freed) /\ n + 1 \in 1 .. Len(freed) /\ i # n + 1
      BY <1>2
    <3> QED
      BY <1>3, <1>6, <2>1, <3>1 DEF Describes
  <2>3. sb'.version = sb.version /\ sb'.end = sb.end
        /\ sb'.head = IF freed' = << >> THEN Null ELSE freed'[Len(freed')]
    BY <1>5, <1>6, <1>7 DEF SuperBlock
  <2>4. \A i \in 1 .. n : content'[freed'[i]] =
           [next |-> IF i = 1 THEN Null ELSE freed'[i - 1], version |-> sb'.version]
    <3> TAKE i \in 1 .. n
    <3>1. content'[freed'[i]] = Stored(freed[i])
      BY <1>7, <1>10, <2>2
    <3>2. content[freed[i]] = Stored(freed[i])
      BY <2>2
    <3>3. i \in 1 .. Len(freed) /\ (i = 1 \/ i - 1 \in 1 .. n)
      BY <1>2
    <3>4. content[freed[i]] =
             [next |-> IF i = 1 THEN Null ELSE freed[i - 1], version |-> sb.version]
      BY <2>1, <3>3 DEF Describes
    <3> HIDE DEF content
    <3> QED
      BY <1>7, <2>3, <3>1, <3>2, <3>3, <3>4
  <2>5. \A i, j \in 1 .. n : freed'[i] = freed'[j] => i = j
    <3>1. \A i \in 1 .. n : i \in 1 .. Len(freed)
      BY <1>2
    <3> QED
      BY <1>7, <2>1, <3>1 DEF Describes
  <2>6. FreedSet' = FreedSet \ {h}
    <3>1. FreedSet' = {freed[i] : i \in 1 .. n}
      BY <1>7 DEF FreedSet
    <3>2. \A i \in 1 .. Len(freed) : i = n + 1 \/ i \in 1 .. n
      BY <1>2
    <3>3. \A i \in 1 .. n : i \in 1 .. Len(freed)
      BY <1>2
    <3> QED
      BY <1>2, <1>3, <2>2, <3>1, <3>2, <3>3 DEF FreedSet
  <2>7. h \in FreedSet
    BY <1>1, HeadOfList
  <2>8. live' = live \cup {h}
    BY <1>1 DEF Grant
  <2>9. live' \cap FreedSet' = {} /\ live' \cup FreedSet' = Extent(sb'.end)
    BY <2>1, <2>3, <2>6, <2>7, <2>8 DEF Describes
  <2>10. Describes(sb, content)'
    <3> HIDE DEF content
    <3> QED
      BY <1>7, <2>3, <2>4, <2>5, <2>9 DEF Describes, Extent
  <2> QED
    BY <2>10 DEF FreeListSound
<1> QED
  BY <1>10, <1>11 DEF IndInv

LEMMA AllocateFullStep ==
    ASSUME IndInv, AllocateFull
    PROVE  IndInv'
<1> USE DEF IndInv
<1>1. /\ Up /\ DiskFull(sb.end)
      /\ sb' = [sb EXCEPT !.end = NextBlock(sb.end)]
      /\ intact' = (intact /\ sb' = sb)
      /\ UNCHANGED <<blocks, pool, disk, diskSb, holders, wrote, declared, live, freed>>
  BY DEF AllocateFull, diskVars, callerVars
<1>2. sb \in SuperBlock /\ sb.end \in Ends
  BY <1>1 DEF TypeOK, Up, SuperBlock
<1>3. NextBlock(sb.end) \in Ends /\ Extent(NextBlock(sb.end)) = Extent(sb.end)
  BY <1>1, <1>2, FullKeepsExtent
<1>4. /\ sb' \in SuperBlock /\ sb'.head = sb.head /\ sb'.version = sb.version
      /\ Extent(sb'.end) = Extent(sb.end)
  BY <1>1, <1>2, <1>3 DEF SuperBlock
<1>5. Up'
  BY <1>4, SentinelAssumption DEF Up
<1>6. \A x \in Blocks : Stored(x)' = Stored(x)
  BY <1>1 DEF Stored, Loaded, Cached
<1>7. TypeOK'
  BY <1>1, <1>4 DEF TypeOK
<1>8. DownIsEmpty'
  BY <1>1, <1>5 DEF DownIsEmpty
<1>9. RefcntExact' /\ CleanMatchesDisk'
  BY <1>1 DEF RefcntExact, CleanMatchesDisk, CachedBlocks, Cached
<1>10. LiveHoldsData'
  BY <1>1, <1>6 DEF LiveHoldsData, Cached, TypeOK
<1>11. FreeListSound'
  <2>1. [b \in Blocks |-> Stored(b)]' = [b \in Blocks |-> Stored(b)]
    BY <1>6
  <2>2. Describes(sb, [b \in Blocks |-> Stored(b)])
    BY <1>1 DEF FreeListSound
  <2>3. FreedSet' = FreedSet
    BY <1>1 DEF FreedSet
  <2> DEFINE content == [b \in Blocks |-> Stored(b)]
  <2>4. Describes(sb, content)'
    <3> HIDE DEF content
    <3>1. content' = content
      BY <2>1 DEF content
    <3>2. Describes(sb, content)
      BY <2>2 DEF content
    <3> QED
      BY <1>1, <1>4, <2>3, <3>1, <3>2 DEF Describes
  <2> QED
    BY <2>4 DEF FreeListSound
<1>12. QuietKeepsSuper'
  BY <1>1 DEF QuietKeepsSuper
<1>13. RestartSound'
  BY <1>1, RestartStable
<1> QED
  BY <1>7, <1>8, <1>9, <1>10, <1>11, <1>12, <1>13

LEMMA WriteStep ==
    ASSUME IndInv, NEW c \in Clients, NEW b \in Blocks, NEW v \in Values, Write(c, b, v)
    PROVE  IndInv'
<1> USE DEF IndInv
<1>1. /\ Up /\ c \in holders[b]
      /\ blocks' = [blocks EXCEPT ![b].data = v]
      /\ wrote' = [wrote EXCEPT ![b] = @ \cup {c}]
      /\ UNCHANGED <<sb, pool, disk, diskSb, holders, declared, live, freed, intact>>
  BY DEF Write, diskVars, ownerVars
<1>2. Cached(b) /\ b \in live /\ blocks[b] \in Data
  BY <1>1 DEF RefcntExact, TypeOK, Cached
<1>3. /\ blocks'[b] \in Data /\ blocks'[b] # NoData /\ blocks'[b].data = v
      /\ blocks'[b].dirty = blocks[b].dirty /\ blocks'[b].refcnt = blocks[b].refcnt
      /\ \A x \in Blocks \ {b} : blocks'[x] = blocks[x]
  <2>1. blocks' = [blocks EXCEPT ![b] = [blocks[b] EXCEPT !.data = v]]
    BY <1>1
  <2>2. blocks'[b] = [blocks[b] EXCEPT !.data = v]
    BY <2>1 DEF TypeOK
  <2>3. blocks'[b] \in Data
    BY <1>2, <2>2 DEF Data, Content
  <2> QED
    BY <1>2, <2>1, <2>2, <2>3, SentinelAssumption DEF Data, TypeOK
<1>4. blocks' \in [Blocks -> Data \cup {NoData}]
  BY <1>1, <1>3 DEF TypeOK
<1>5. TypeOK'
  BY <1>1, <1>4 DEF TypeOK
<1>6. c \in wrote'[b] /\ wrote'[b] \subseteq holders[b]
      /\ \A x \in Blocks \ {b} : wrote'[x] = wrote[x]
  BY <1>1 DEF TypeOK, DownIsEmpty
<1>7. DownIsEmpty'
  BY <1>1, <1>6 DEF DownIsEmpty, Up
<1>8. RefcntExact'
  BY <1>1, <1>2, <1>3 DEF RefcntExact, Cached
<1>9. CleanMatchesDisk'
  BY <1>1, <1>2, <1>3, <1>6 DEF CleanMatchesDisk, CachedBlocks, Cached
<1>10. /\ Stored(b)' = v
       /\ \A x \in Blocks \ {b} : Stored(x)' = Stored(x)
  BY <1>1, <1>3 DEF Stored, Loaded, Cached
<1>11. LiveHoldsData'
  <2> SUFFICES ASSUME NEW x \in live
               PROVE  /\ Stored(x)' \in Values
                      /\ blocks'[x] # NoData /\ ~blocks'[x].dirty => disk'[x] \in Values
    BY <1>1 DEF LiveHoldsData, Cached
  <2>1. CASE x = b
    BY <1>1, <1>2, <1>3, <1>10, <2>1 DEF LiveHoldsData
  <2>2. CASE x # b
    BY <1>1, <1>3, <1>10, <2>2 DEF LiveHoldsData, Cached, TypeOK
  <2> QED
    BY <2>1, <2>2
<1>12. FreeListSound'
  <2>1. b \notin FreedSet
    BY <1>1, <1>2 DEF FreeListSound, Describes
  <2>2. \A x \in FreedSet : Stored(x)' = Stored(x)
    BY <1>10, <2>1 DEF FreedSet, TypeOK
  <2> QED
    BY <1>1, <2>2, FreeListStable DEF TypeOK
<1>13. QuietKeepsSuper'
  BY <1>1 DEF QuietKeepsSuper, Up
<1>14. RestartSound'
  BY <1>1, RestartStable
<1> QED
  BY <1>5, <1>7, <1>8, <1>9, <1>11, <1>12, <1>13, <1>14

\* Every block the callers own, or gave back, passes check_block_range_.
LEMMA OwnedInRange ==
    ASSUME FreeListSound, Up, NEW b \in live \cup FreedSet
    PROVE  InRange(b)
BY DEF FreeListSound, Describes, Extent, InRange

LEMMA DirtifyStep ==
    ASSUME IndInv, NEW c \in Clients, NEW b \in Blocks, Dirtify(c, b)
    PROVE  IndInv'
<1> USE DEF IndInv
<1>1. /\ Up /\ c \in holders[b]
      /\ blocks' = IF InRange(b) /\ Cached(b)
                   THEN [blocks EXCEPT ![b].dirty = TRUE] ELSE blocks
      /\ declared' = [declared EXCEPT ![b] = @ \cup {c}]
      /\ UNCHANGED <<sb, pool, disk, diskSb, holders, wrote, live, freed, intact>>
  BY DEF Dirtify, diskVars, ownerVars
<1>2. Cached(b) /\ blocks[b] \in Data /\ InRange(b)
  BY <1>1, OwnedInRange DEF RefcntExact, TypeOK, Cached
<1>3. /\ blocks'[b] \in Data /\ blocks'[b] # NoData /\ blocks'[b].data = blocks[b].data
      /\ blocks'[b].dirty /\ blocks'[b].refcnt = blocks[b].refcnt
      /\ \A x \in Blocks \ {b} : blocks'[x] = blocks[x]
  <2>1. blocks' = [blocks EXCEPT ![b] = [blocks[b] EXCEPT !.dirty = TRUE]]
    BY <1>1, <1>2
  <2>2. blocks'[b] = [blocks[b] EXCEPT !.dirty = TRUE]
    BY <2>1 DEF TypeOK
  <2>3. blocks'[b] \in Data
    BY <1>2, <2>2 DEF Data
  <2> QED
    BY <1>2, <2>1, <2>2, <2>3, SentinelAssumption DEF Data, TypeOK
<1>4. blocks' \in [Blocks -> Data \cup {NoData}]
  BY <1>1, <1>3 DEF TypeOK
<1>5. TypeOK'
  BY <1>1, <1>4 DEF TypeOK
<1>6. /\ declared'[b] \subseteq holders[b]
      /\ \A x \in Blocks \ {b} : declared'[x] = declared[x]
  BY <1>1 DEF TypeOK, DownIsEmpty
<1>7. DownIsEmpty'
  BY <1>1, <1>6 DEF DownIsEmpty, Up
<1>8. RefcntExact'
  BY <1>1, <1>2, <1>3 DEF RefcntExact, Cached
<1>9. CleanMatchesDisk'
  BY <1>1, <1>3, <1>6 DEF CleanMatchesDisk, CachedBlocks, Cached
<1>10. \A x \in Blocks : Stored(x)' = Stored(x)
  BY <1>1, <1>2, <1>3 DEF Stored, Loaded, Cached
<1>11. LiveHoldsData'
  BY <1>1, <1>3, <1>10 DEF LiveHoldsData, Cached, TypeOK
<1>12. FreeListSound'
  BY <1>1, <1>10, FreeListStable DEF TypeOK, FreedSet
<1>13. QuietKeepsSuper'
  BY <1>1 DEF QuietKeepsSuper, Up
<1>14. RestartSound'
  BY <1>1, RestartStable
<1> QED
  BY <1>5, <1>7, <1>8, <1>9, <1>11, <1>12, <1>13, <1>14

LEMMA UnrefStep ==
    ASSUME IndInv, NEW c \in Clients, NEW b \in Blocks, UnrefBlock(c, b)
    PROVE  IndInv'
<1> USE DEF IndInv
<1> DEFINE n == Decr(blocks[b].refcnt)
           release == n = 0 /\ Size > MaxPool
<1>0. Up /\ c \in holders[b] /\ Cached(b) /\ InRange(b)
  BY OwnedInRange DEF UnrefBlock, RefcntExact
<1>1. /\ Up /\ c \in holders[b] /\ Cached(b)
      /\ c \in wrote[b] => c \in declared[b]
      /\ blocks' = IF release THEN [blocks EXCEPT ![b] = NoData]
                              ELSE [blocks EXCEPT ![b].refcnt = n]
      /\ disk' = IF release THEN WriteBack({b} \cap Dirty) ELSE disk
      /\ pool' = IF release /\ pool < MaxPool THEN pool + 1 ELSE pool
      /\ holders' = [holders EXCEPT ![b] = @ \ {c}]
      /\ wrote' = [wrote EXCEPT ![b] = @ \ {c}]
      /\ declared' = [declared EXCEPT ![b] = @ \ {c}]
      /\ UNCHANGED <<sb, diskSb, live, freed, intact>>
  BY <1>0 DEF UnrefBlock, Drop, Forget, ownerVars
<1>2. /\ blocks[b] \in Data /\ blocks[b] # NoData
      /\ blocks[b].refcnt = Cardinality(holders[b])
  BY <1>1 DEF TypeOK, Cached, RefcntExact
<1>3. /\ holders'[b] = holders[b] \ {c} /\ wrote'[b] = wrote[b] \ {c}
      /\ declared'[b] = declared[b] \ {c}
      /\ \A x \in Blocks \ {b} : /\ holders'[x] = holders[x] /\ wrote'[x] = wrote[x]
                                 /\ declared'[x] = declared[x]
  BY <1>1 DEF TypeOK
<1>4. /\ n \in 0 .. RefMax /\ n = Cardinality(holders'[b])
      /\ n = 0 => holders'[b] = {}
  <2>1. IsFiniteSet(holders[b]) /\ Cardinality(holders[b]) \in 0 .. RefMax
    BY FiniteHolders
  <2>2. /\ IsFiniteSet(holders[b] \ {c})
        /\ Cardinality(holders[b] \ {c}) = Cardinality(holders[b]) - 1
    BY <1>1, <2>1, FS_RemoveElement
  <2>3. Cardinality(holders[b]) # 0
    BY <1>1, <2>1, FS_EmptySet
  <2>4. n = Cardinality(holders[b]) - 1
    BY <1>2, <2>1, <2>3 DEF Decr
  <2>5. n \in 0 .. RefMax
    BY <2>1, <2>3, <2>4, ClientsAssumption
  <2>6. n = 0 => holders[b] \ {c} = {}
    BY <2>2, <2>4, FS_EmptySet
  <2> QED
    BY <1>3, <2>2, <2>4, <2>5, <2>6
<1>5. ~blocks[b].dirty => c \notin wrote[b]
  BY <1>1 DEF CleanMatchesDisk, CachedBlocks
<1>6. \A x \in Blocks \ {b} : blocks'[x] = blocks[x] /\ disk'[x] = disk[x]
  BY <1>1 DEF TypeOK, WriteBack
<1>7. CASE release
  <2>1. blocks'[b] = NoData /\ holders'[b] = {} /\ wrote'[b] = {} /\ declared'[b] = {}
    BY <1>1, <1>3, <1>4, <1>7 DEF TypeOK, DownIsEmpty
  <2>2. disk'[b] = blocks[b].data
    <3>1. CASE blocks[b].dirty
      BY <1>1, <1>7, <3>1 DEF WriteBack, Dirty, CachedBlocks
    <3>2. CASE ~blocks[b].dirty
      <4>1. wrote[b] = {}
        BY <1>3, <1>5, <2>1, <3>2
      <4>2. blocks[b].data = disk[b]
        BY <1>1, <3>2, <4>1 DEF CleanMatchesDisk, CachedBlocks
      <4> QED
        BY <1>1, <1>7, <3>2, <4>2 DEF WriteBack, Dirty
    <3> QED
      BY <3>1, <3>2
  <2>3. \A x \in Blocks : Stored(x)' = Stored(x) /\ disk'[x] \in {disk[x], Stored(x)}
    BY <1>1, <1>6, <2>1, <2>2 DEF Stored, Loaded, Cached
  <2>4. TypeOK'
    <3>1. blocks' \in [Blocks -> Data \cup {NoData}]
      BY <1>1, <1>7 DEF TypeOK
    <3>2. disk' \in [Blocks -> Content]
      <4>1. \A x \in Blocks : disk'[x] \in Content
        BY <1>2, <1>6, <2>2 DEF TypeOK, Data
      <4> QED
        BY <1>1, <1>7, <4>1 DEF WriteBack
    <3>3. pool' \in 0 .. MaxPool
      BY <1>1, <1>7, GeometryAssumption DEF TypeOK
    <3> QED
      BY <1>1, <3>1, <3>2, <3>3 DEF TypeOK
  <2>5. DownIsEmpty'
    BY <1>1, <1>3 DEF DownIsEmpty, Up
  <2>6. RefcntExact'
    BY <1>1, <1>3, <1>6, <2>1 DEF RefcntExact, Cached
  <2>7. CleanMatchesDisk'
    BY <1>1, <1>3, <1>6, <2>1 DEF CleanMatchesDisk, CachedBlocks, Cached
  <2>8. LiveHoldsData'
    <3> SUFFICES ASSUME NEW x \in live
                 PROVE  /\ Stored(x)' \in Values
                        /\ blocks'[x] # NoData /\ ~blocks'[x].dirty => disk'[x] \in Values
      BY <1>1 DEF LiveHoldsData, Cached
    <3>1. x \in Blocks /\ Stored(x)' \in Values
      BY <1>1, <2>3 DEF LiveHoldsData, TypeOK
    <3>2. CASE x = b
      BY <2>1, <3>1, <3>2
    <3>3. CASE x # b
      BY <1>1, <1>6, <3>1, <3>3 DEF LiveHoldsData, Cached
    <3> QED
      BY <3>1, <3>2, <3>3
  <2>9. FreeListSound'
    BY <1>1, <2>3, FreeListStable DEF TypeOK, FreedSet
  <2>10. QuietKeepsSuper'
    BY <1>1 DEF QuietKeepsSuper, Up
  <2>11. RestartSound'
    BY <1>1, <2>3, RestartStable
  <2> QED
    BY <2>4, <2>5, <2>6, <2>7, <2>8, <2>9, <2>10, <2>11
<1>8. CASE ~release
  <2> HIDE DEF n
  <2>1. blocks'[b] = [blocks[b] EXCEPT !.refcnt = n] /\ disk' = disk
    BY <1>1, <1>8 DEF TypeOK
  <2>2. /\ blocks'[b] \in Data /\ blocks'[b] # NoData /\ blocks'[b].data = blocks[b].data
        /\ blocks'[b].dirty = blocks[b].dirty /\ blocks'[b].refcnt = n
    <3>1. blocks'[b] \in Data
      BY <1>2, <1>4, <2>1 DEF Data
    <3> QED
      BY <1>2, <2>1, <3>1, SentinelAssumption DEF Data
  <2>3. \A x \in Blocks : Stored(x)' = Stored(x)
    BY <1>1, <1>6, <2>1, <2>2 DEF Stored, Loaded, Cached
  <2>4. TypeOK'
    <3>1. blocks' \in [Blocks -> Data \cup {NoData}]
      <4>1. \A x \in Blocks : blocks'[x] \in Data \cup {NoData}
        BY <1>6, <2>2 DEF TypeOK
      <4> QED
        BY <1>1, <1>8, <4>1 DEF TypeOK
    <3>2. pool' = pool
      BY <1>1, <1>8
    <3> QED
      BY <1>1, <2>1, <3>1, <3>2 DEF TypeOK
  <2>5. DownIsEmpty'
    BY <1>1, <1>3 DEF DownIsEmpty, Up
  <2>6. RefcntExact'
    BY <1>1, <1>3, <1>4, <1>6, <2>2 DEF RefcntExact, Cached
  <2>7. CleanMatchesDisk'
    <3>1. ~blocks[b].dirty => wrote'[b] = wrote[b]
      BY <1>3, <1>5
    <3> QED
      BY <1>1, <1>3, <1>6, <2>1, <2>2, <3>1 DEF CleanMatchesDisk, CachedBlocks, Cached
  <2>8. LiveHoldsData'
    BY <1>1, <1>6, <2>1, <2>2, <2>3 DEF LiveHoldsData, Cached, TypeOK
  <2>9. FreeListSound'
    BY <1>1, <2>3, FreeListStable DEF TypeOK, FreedSet
  <2>10. QuietKeepsSuper'
    BY <1>1 DEF QuietKeepsSuper, Up
  <2>11. RestartSound'
    BY <1>1, <2>1, RestartStable
  <2> QED
    BY <2>4, <2>5, <2>6, <2>7, <2>8, <2>9, <2>10, <2>11
<1> QED
  BY <1>7, <1>8

LEMMA FlushStep ==
    ASSUME IndInv, Flush
    PROVE  IndInv'
<1> USE DEF IndInv
<1> DEFINE W == Idle \cap Dirty
<1>1. /\ Up
      /\ disk' = [b \in Blocks |-> IF b \in W THEN blocks[b].data ELSE disk[b]]
      /\ blocks' = [b \in Blocks |-> IF b \in W THEN [blocks[b] EXCEPT !.dirty = FALSE]
                                                ELSE blocks[b]]
      /\ UNCHANGED <<sb, pool, diskSb, holders, wrote, declared, live, freed, intact>>
  BY DEF Flush, WriteBack, callerVars, ownerVars
<1>2. ASSUME NEW b \in W
      PROVE  /\ b \in Blocks /\ blocks[b] \in Data /\ blocks[b] # NoData
             /\ holders[b] = {} /\ declared[b] = {}
  <2>1. b \in Blocks /\ blocks[b] # NoData /\ blocks[b].refcnt = 0
    BY DEF Idle, CachedBlocks, Cached
  <2>2. Cardinality(holders[b]) = 0
    BY <2>1 DEF RefcntExact, Cached
  <2>3. holders[b] = {}
    BY <2>1, <2>2, FiniteHolders, FS_EmptySet
  <2> QED
    BY <2>1, <2>3 DEF TypeOK, DownIsEmpty
<1>3. ASSUME NEW b \in W
      PROVE  /\ blocks'[b] \in Data /\ blocks'[b] # NoData /\ ~blocks'[b].dirty
             /\ blocks'[b].data = blocks[b].data /\ blocks'[b].refcnt = blocks[b].refcnt
             /\ disk'[b] = blocks[b].data
  <2> HIDE DEF W
  <2>1. blocks'[b] = [blocks[b] EXCEPT !.dirty = FALSE] /\ disk'[b] = blocks[b].data
    BY <1>1, <1>2
  <2>2. blocks'[b] \in Data
    BY <1>2, <2>1 DEF Data
  <2> QED
    BY <1>2, <2>1, <2>2, SentinelAssumption DEF Data
<1> HIDE DEF W
<1>4. \A b \in Blocks \ W : blocks'[b] = blocks[b] /\ disk'[b] = disk[b]
  BY <1>1
<1>5. \A b \in Blocks : Stored(b)' = Stored(b) /\ disk'[b] \in {disk[b], Stored(b)}
  <2> TAKE b \in Blocks
  <2>1. CASE b \in W
    BY <1>2, <1>3, <2>1 DEF Stored, Loaded, Cached
  <2>2. CASE b \notin W
    BY <1>4, <2>2 DEF Stored, Loaded, Cached
  <2> QED
    BY <2>1, <2>2
<1>6. TypeOK'
  <2>1. \A b \in Blocks : blocks'[b] \in Data \cup {NoData} /\ disk'[b] \in Content
    <3> TAKE b \in Blocks
    <3>1. CASE b \in W
      BY <1>2, <1>3, <3>1 DEF Data
    <3>2. CASE b \notin W
      BY <1>4, <3>2 DEF TypeOK
    <3> QED
      BY <3>1, <3>2
  <2>2. blocks' \in [Blocks -> Data \cup {NoData}] /\ disk' \in [Blocks -> Content]
    BY <1>1, <2>1
  <2> QED
    BY <1>1, <2>2 DEF TypeOK
<1>7. DownIsEmpty'
  BY <1>1 DEF DownIsEmpty, Up
<1>8. RefcntExact'
  BY <1>1, <1>2, <1>3, <1>4 DEF RefcntExact, Cached
<1>9. CleanMatchesDisk'
  BY <1>1, <1>2, <1>3, <1>4 DEF CleanMatchesDisk, CachedBlocks, Cached
<1>10. LiveHoldsData'
  <2> SUFFICES ASSUME NEW b \in live
               PROVE  /\ Stored(b)' \in Values
                      /\ blocks'[b] # NoData /\ ~blocks'[b].dirty => disk'[b] \in Values
    BY <1>1 DEF LiveHoldsData, Cached
  <2>1. b \in Blocks /\ Stored(b)' \in Values
    BY <1>1, <1>5 DEF LiveHoldsData, TypeOK
  <2>2. CASE b \in W
    BY <1>1, <1>2, <1>3, <2>2 DEF LiveHoldsData, Stored, Loaded, Cached
  <2>3. CASE b \notin W
    BY <1>1, <1>4, <2>1, <2>3 DEF LiveHoldsData, Cached
  <2> QED
    BY <2>1, <2>2, <2>3
<1>11. FreeListSound'
  BY <1>1, <1>5, FreeListStable DEF TypeOK, FreedSet
<1>12. QuietKeepsSuper'
  BY <1>1 DEF QuietKeepsSuper, Up
<1>13. RestartSound'
  BY <1>1, <1>5, RestartStable
<1> QED
  BY <1>6, <1>7, <1>8, <1>9, <1>10, <1>11, <1>12, <1>13

LEMMA FreeBlockStep ==
    ASSUME IndInv, NEW c \in Clients, NEW b \in Blocks, FreeBlock(c, b)
    PROVE  IndInv'
<1> USE DEF IndInv
<1> DEFINE data == Loaded(b).data
           mark == [next |-> sb.head, version |-> sb.version]
           d == [dirty |-> TRUE, refcnt |-> 0, data |-> IF IsFree(data) THEN data ELSE mark]
           content == [x \in Blocks |-> Stored(x)]
<1>0. Up /\ InRange(b)
  BY OwnedInRange DEF FreeBlock
<1>1. /\ Up /\ b \in live \cup FreedSet /\ holders[b] \subseteq {c}
      /\ sb' = IF IsFree(data) THEN sb ELSE [sb EXCEPT !.head = b]
      /\ holders' = [holders EXCEPT ![b] = @ \ {c}]
      /\ wrote' = [wrote EXCEPT ![b] = @ \ {c}]
      /\ declared' = [declared EXCEPT ![b] = @ \ {c}]
      /\ live' = live \ {b}
      /\ freed' = IF b \in live THEN Append(freed, b) ELSE freed
      /\ intact' = (intact /\ sb' = sb)
  BY <1>0 DEF FreeBlock, Push, Forget
<1>2. PICK victim \in Evictions(b) : Place(b, victim, d)
  BY <1>0 DEF FreeBlock, Push
<1>3. /\ sb \in SuperBlock /\ data \in Content /\ Stored(b) = data
      /\ freed \in Seq(Blocks) /\ Describes(sb, content)
  BY <1>1, LoadedType DEF TypeOK, Up, Data, FreeListSound
<1>4. d \in Data /\ d # NoData
  <2>1. mark \in FreeMark
    BY <1>3 DEF SuperBlock, FreeMark
  <2>2. (IF IsFree(data) THEN data ELSE mark) \in Content
    BY <1>3, <2>1 DEF Content
  <2>3. d \in Data
    BY <2>2, ClientsAssumption DEF Data
  <2> QED
    BY <2>3, SentinelAssumption
<1>5. /\ disk' \in [Blocks -> Content] /\ blocks' \in [Blocks -> Data \cup {NoData}]
      /\ pool' \in 0 .. MaxPool /\ diskSb' = diskSb
      /\ blocks'[b] = d /\ disk'[b] = disk[b]
      /\ \A x \in Blocks \ {b} :
            /\ blocks'[x] # NoData => blocks'[x] = blocks[x] /\ disk'[x] = disk[x]
            /\ holders[x] # {} => blocks'[x] = blocks[x]
            /\ Stored(x)' = Stored(x)
            /\ disk'[x] \in {disk[x], Stored(x)}
  <2> HIDE DEF d
  <2> QED
    BY <1>2, <1>4, PlaceFacts
<1>6. /\ holders'[b] = {} /\ wrote'[b] = {} /\ declared'[b] = {}
      /\ \A x \in Blocks \ {b} : /\ holders'[x] = holders[x] /\ wrote'[x] = wrote[x]
                                 /\ declared'[x] = declared[x]
  BY <1>1 DEF TypeOK, DownIsEmpty
<1>7. sb' \in SuperBlock /\ sb'.version = sb.version /\ sb'.end = sb.end /\ Up'
  <2>1. [sb EXCEPT !.head = b] \in SuperBlock
    BY <1>3 DEF SuperBlock
  <2>2. sb' \in SuperBlock
    BY <1>1, <1>3, <2>1
  <2> QED
    BY <1>1, <1>3, <2>2, SentinelAssumption DEF SuperBlock, Up
<1>8. blocks'[b].dirty /\ blocks'[b].refcnt = 0 /\ blocks'[b].data = d.data /\ Stored(b)' = d.data
  BY <1>4, <1>5 DEF Stored, Loaded, Cached
<1>9. TypeOK'
  <2>1. freed' \in Seq(Blocks)
    BY <1>1, <1>3
  <2> QED
    BY <1>1, <1>5, <1>7, <2>1 DEF TypeOK
<1>10. DownIsEmpty'
  BY <1>6, <1>7 DEF DownIsEmpty
<1>11. RefcntExact'
  <2>1. Cardinality({}) = 0
    BY FS_EmptySet
  <2> SUFFICES ASSUME NEW x \in Blocks
               PROVE  /\ holders'[x] # {} => blocks'[x] # NoData /\ x \in live'
                      /\ blocks'[x] # NoData =>
                            blocks'[x].refcnt = Cardinality(holders'[x])
    BY DEF RefcntExact, Cached
  <2>2. CASE x = b
    BY <1>6, <1>8, <2>1, <2>2
  <2>3. CASE x # b
    BY <1>1, <1>5, <1>6, <2>3 DEF RefcntExact, Cached
  <2> QED
    BY <2>2, <2>3
<1>12. CleanMatchesDisk'
  BY <1>5, <1>6, <1>8 DEF CleanMatchesDisk, CachedBlocks, Cached
<1>13. LiveHoldsData'
  BY <1>1, <1>5 DEF LiveHoldsData, Cached, TypeOK
<1>14. CASE b \in live
  <2>1. ~IsFree(data)
    BY <1>1, <1>3, <1>14, ContentAssumption DEF LiveHoldsData, IsFree
  <2>2. sb' = [sb EXCEPT !.head = b] /\ freed' = Append(freed, b) /\ Stored(b)' = mark
    BY <1>1, <1>8, <1>14, <2>1
  <2>3. b \notin FreedSet
    BY <1>3, <1>14 DEF Describes
  <2>4. sb'.head = b /\ sb.head # b
    <3>1. sb.head = Null \/ sb.head \in FreedSet
      BY <1>1, HeadOfList
    <3> QED
      BY <1>3, <2>2, <2>3, <3>1 DEF SuperBlock, Blocks
  <2>5. ~intact'
    BY <1>1, <2>4
  <2>6. PICK n \in Nat : Len(freed) = n
    BY <1>3
  <2>7. /\ Len(freed') = n + 1 /\ freed'[n + 1] = b /\ freed' # << >>
        /\ \A i \in 1 .. n : freed'[i] = freed[i] /\ freed[i] \in FreedSet /\ freed[i] \in Blocks
    BY <1>3, <2>2, <2>6 DEF FreedSet
  <2>8. \A i \in 1 .. n + 1 : i = n + 1 \/ i \in 1 .. n
    OBVIOUS
  <2>9. \A i \in 1 .. n : content'[freed'[i]] = content[freed[i]]
    BY <1>5, <2>3, <2>7
  <2>10. content'[b] = mark
    BY <2>2
  <2>11. sb.head = IF n = 0 THEN Null ELSE freed[n]
    BY <1>3, <2>6 DEF Describes
  <2>12. \A i \in 1 .. n + 1 : content'[freed'[i]] =
            [next |-> IF i = 1 THEN Null ELSE freed'[i - 1], version |-> sb'.version]
    <3> TAKE i \in 1 .. n + 1
    <3> HIDE DEF content
    <3>1. CASE i = n + 1
      <4>1. sb.head = IF i = 1 THEN Null ELSE freed'[i - 1]
        <5>1. i - 1 = n /\ (i = 1 <=> n = 0) /\ (n = 0 \/ n \in 1 .. n)
          BY <3>1
        <5> QED
          BY <2>7, <2>11, <5>1
      <4> QED
        BY <1>7, <2>7, <2>10, <3>1, <4>1
    <3>2. CASE i \in 1 .. n
      <4>1. i = 1 \/ i - 1 \in 1 .. n
        BY <3>2
      <4>2. content[freed[i]] =
               [next |-> IF i = 1 THEN Null ELSE freed[i - 1], version |-> sb.version]
        BY <1>3, <2>6, <3>2 DEF Describes
      <4> QED
        BY <1>7, <2>7, <2>9, <3>2, <4>1, <4>2
    <3> QED
      BY <2>8, <3>1, <3>2
  <2>13. \A i, j \in 1 .. n + 1 : freed'[i] = freed'[j] => i = j
    <3>1. \A i, j \in 1 .. n : freed[i] = freed[j] => i = j
      BY <1>3, <2>6 DEF Describes
    <3> QED
      BY <2>3, <2>7, <2>8, <3>1
  <2>14. FreedSet' = FreedSet \cup {b}
    <3>1. FreedSet = {freed[i] : i \in 1 .. n}
      BY <2>6 DEF FreedSet
    <3>2. FreedSet' = {freed'[i] : i \in 1 .. n + 1}
      BY <2>7 DEF FreedSet
    <3>3. \A i \in 1 .. n : i \in 1 .. n + 1
      OBVIOUS
    <3>4. n + 1 \in 1 .. n + 1
      OBVIOUS
    <3> QED
      BY <2>7, <2>8, <3>1, <3>2, <3>3, <3>4
  <2>15. live' \cap FreedSet' = {} /\ live' \cup FreedSet' = Extent(sb'.end)
    BY <1>1, <1>3, <1>7, <1>14, <2>14 DEF Describes
  <2>16. sb'.head = IF freed' = << >> THEN Null ELSE freed'[Len(freed')]
    BY <2>4, <2>7
  <2>17. Describes(sb, content)'
    <3> HIDE DEF content
    <3> QED
      BY <2>7, <2>12, <2>13, <2>15, <2>16 DEF Describes, Extent
  <2>18. FreeListSound'
    BY <2>17 DEF FreeListSound
  <2> QED
    BY <1>9, <1>10, <1>11, <1>12, <1>13, <2>5, <2>18 DEF QuietKeepsSuper, RestartSound
<1>15. CASE b \notin live
  <2>1. b \in FreedSet
    BY <1>1, <1>15
  <2>2. PICK i \in 1 .. Len(freed) : b = freed[i]
    BY <2>1 DEF FreedSet
  <2>3. IsFree(data)
    <3>1. content[b] = [next |-> IF i = 1 THEN Null ELSE freed[i - 1], version |-> sb.version]
      BY <1>3, <2>2 DEF Describes
    <3>2. data = [next |-> IF i = 1 THEN Null ELSE freed[i - 1], version |-> sb.version]
      BY <1>3, <3>1
    <3>3. data \notin Values
      <4>1. \A j \in 1 .. Len(freed) : freed[j] \in Blocks
        BY <1>3
      <4>2. i = 1 \/ i - 1 \in 1 .. Len(freed)
        BY <1>3
      <4>3. data \in FreeMark
        BY <1>3, <3>2, <4>1, <4>2 DEF FreeMark, SuperBlock
      <4> QED
        BY <4>3, ContentAssumption
    <3> QED
      BY <1>3, <3>2, <3>3 DEF IsFree, Content
  <2>4. sb' = sb /\ live' = live /\ freed' = freed /\ intact' = intact /\ Stored(b)' = Stored(b)
    BY <1>1, <1>3, <1>8, <1>15, <2>3 DEF TypeOK
  <2>5. \A x \in Blocks : Stored(x)' = Stored(x) /\ disk'[x] \in {disk[x], Stored(x)}
    BY <1>5, <2>4
  <2>6. FreeListSound'
    BY <1>1, <1>3, <2>4, <2>5, FreeListStable DEF FreedSet
  <2>7. QuietKeepsSuper'
    BY <1>1, <1>5, <2>4 DEF QuietKeepsSuper
  <2>8. RestartSound'
    BY <1>1, <1>5, <2>4, <2>5, RestartStable
  <2> QED
    BY <1>9, <1>10, <1>11, <1>12, <1>13, <2>6, <2>7, <2>8
<1> QED
  BY <1>14, <1>15

LEMMA EmptyIsSeq == ASSUME NEW S PROVE << >> \in Seq(S)
OBVIOUS

\* With no manager nothing is cached, and only the disk is left to describe.
LEMMA DownStep ==
    ASSUME ~Up', DownIsEmpty', TypeOK', RestartSound'
    PROVE  IndInv'
<1>1. \A b \in Blocks : blocks'[b] = NoData /\ holders'[b] = {}
  BY DEF DownIsEmpty
<1>2. RefcntExact' /\ CleanMatchesDisk'
  BY <1>1 DEF RefcntExact, CleanMatchesDisk, CachedBlocks, Cached
<1>3. LiveHoldsData' /\ FreeListSound' /\ QuietKeepsSuper'
  BY DEF LiveHoldsData, FreeListSound, QuietKeepsSuper
<1> QED
  BY <1>2, <1>3 DEF IndInv

\* When the manager stops, the disk gets some of the dirty blocks.
LEMMA StopFacts ==
    ASSUME IndInv, Up, NEW W \in SUBSET Dirty, disk' = WriteBack(W), Gone,
           diskSb' \in {diskSb, sb}, live' \in {live, {}}, freed' \in {freed, << >>},
           intact' \in BOOLEAN
    PROVE  /\ ~Up' /\ DownIsEmpty' /\ TypeOK'
           /\ \A b \in Blocks : disk'[b] \in {disk[b], Stored(b)}
<1> USE DEF IndInv
<1>1. ~Up' /\ DownIsEmpty'
  BY DEF Gone, Up, DownIsEmpty
<1>2. \A b \in W : b \in Blocks /\ blocks[b].data = Stored(b)
  BY DEF Dirty, CachedBlocks, Stored, Loaded
<1>3. \A b \in Blocks : disk'[b] \in {disk[b], Stored(b)}
  BY <1>2 DEF WriteBack
<1>4. \A b \in Blocks : disk'[b] \in Content
  BY <1>3, LoadedType DEF TypeOK
<1>5. disk' \in [Blocks -> Content]
  BY <1>4 DEF WriteBack
<1>6. TypeOK'
  <2>1. /\ freed' \in Seq(Blocks) /\ live' \in SUBSET Blocks
        /\ diskSb' \in SuperBlock \cup {NoSuper}
    BY EmptyIsSeq DEF TypeOK
  <2>2. /\ sb' \in SuperBlock \cup {NoSuper} /\ pool' \in 0 .. MaxPool
        /\ blocks' \in [Blocks -> Data \cup {NoData}]
        /\ holders' \in [Blocks -> SUBSET Clients]
        /\ wrote' \in [Blocks -> SUBSET Clients]
        /\ declared' \in [Blocks -> SUBSET Clients]
    BY GeometryAssumption DEF Gone
  <2> QED
    BY <1>5, <2>1, <2>2 DEF TypeOK
<1> QED
  BY <1>1, <1>3, <1>6

LEMMA ShutdownStep ==
    ASSUME IndInv, Shutdown
    PROVE  IndInv'
<1> USE DEF IndInv
<1>1. /\ Up /\ disk' = WriteBack(Dirty) /\ diskSb' = sb /\ Gone /\ intact' = TRUE
      /\ live' = live /\ freed' = freed
  BY DEF Shutdown
<1>2. ~Up' /\ DownIsEmpty' /\ TypeOK'
  BY <1>1, StopFacts
<1>3. Describes(sb, [b \in Blocks |-> Stored(b)]) /\ sb # NoSuper
  BY <1>1 DEF FreeListSound, Up
<1>4. \A b \in FreedSet : b \in Blocks /\ disk'[b] = Stored(b)
  <2> TAKE b \in FreedSet
  <2>1. b \in Blocks /\ b \notin live
    BY <1>3 DEF Describes, FreedSet, TypeOK
  <2>2. holders[b] = {} /\ wrote[b] = {}
    BY <2>1 DEF RefcntExact, DownIsEmpty
  <2>3. CASE b \in Dirty
    BY <1>1, <2>1, <2>3 DEF WriteBack, Stored, Loaded, Dirty, CachedBlocks
  <2>4. CASE b \notin Dirty
    <3>1. disk'[b] = disk[b]
      BY <1>1, <2>1, <2>4 DEF WriteBack
    <3>2. CASE Cached(b)
      BY <2>1, <2>2, <2>4, <3>1, <3>2 DEF CleanMatchesDisk, Dirty, CachedBlocks, Stored, Loaded
    <3>3. CASE ~Cached(b)
      BY <2>1, <3>1, <3>3 DEF Stored, Loaded
    <3> QED
      BY <3>2, <3>3
  <2> QED
    BY <2>1, <2>3, <2>4
<1>5. \A b \in live : disk'[b] \in Values
  <2> TAKE b \in live
  <2>1. b \in Blocks /\ Stored(b) \in Values
    BY <1>1 DEF LiveHoldsData, TypeOK
  <2>2. CASE b \in Dirty
    BY <1>1, <2>1, <2>2 DEF WriteBack, Stored, Loaded, Dirty, CachedBlocks
  <2>3. CASE b \notin Dirty
    <3>1. disk'[b] = disk[b]
      BY <1>1, <2>1, <2>3 DEF WriteBack
    <3> QED
      BY <1>1, <2>1, <2>3, <3>1 DEF LiveHoldsData, Dirty, CachedBlocks, Stored, Loaded
  <2> QED
    BY <2>2, <2>3
<1>6. Describes(diskSb, disk)'
  <2>1. \A i \in 1 .. Len(freed) :
           disk'[freed[i]] = [next |-> IF i = 1 THEN Null ELSE freed[i - 1],
                              version |-> sb.version]
    <3> TAKE i \in 1 .. Len(freed)
    <3>1. freed[i] \in FreedSet
      BY DEF FreedSet
    <3>2. freed[i] \in Blocks /\ disk'[freed[i]] = Stored(freed[i])
      BY <1>4, <3>1
    <3>3. [b \in Blocks |-> Stored(b)][freed[i]] =
             [next |-> IF i = 1 THEN Null ELSE freed[i - 1], version |-> sb.version]
      BY <1>3 DEF Describes
    <3> QED
      BY <3>2, <3>3
  <2>2. FreedSet' = FreedSet
    BY <1>1 DEF FreedSet
  <2> QED
    BY <1>1, <1>3, <2>1, <2>2 DEF Describes, Extent
<1>7. RestartSound'
  BY <1>1, <1>3, <1>5, <1>6 DEF RestartSound
<1> QED
  BY <1>2, <1>7, DownStep

LEMMA CrashStep ==
    ASSUME IndInv, NEW W \in SUBSET Dirty, Crash(W)
    PROVE  IndInv'
<1> USE DEF IndInv
<1>1. /\ Up /\ disk' = WriteBack(W) /\ diskSb' \in {diskSb, sb} /\ Gone /\ intact' = intact
      /\ live' = IF intact THEN live ELSE {}
      /\ freed' = IF intact THEN freed ELSE << >>
  BY DEF Crash
<1>2. /\ ~Up' /\ DownIsEmpty' /\ TypeOK'
      /\ \A b \in Blocks : disk'[b] \in {disk[b], Stored(b)}
  <2>1. live' \in {live, {}} /\ freed' \in {freed, << >>} /\ intact' \in BOOLEAN
    BY <1>1 DEF TypeOK
  <2> QED
    BY <1>1, <2>1, StopFacts
<1>3. CASE intact
  <2>1. diskSb' = diskSb /\ live' = live /\ freed' = freed
    BY <1>1, <1>3 DEF QuietKeepsSuper
  <2> QED
    BY <1>1, <1>2, <2>1, RestartStable, DownStep
<1>4. CASE ~intact
  BY <1>1, <1>2, <1>4, DownStep DEF RestartSound
<1> QED
  BY <1>3, <1>4

LEMMA FormatStep ==
    ASSUME IndInv, NEW version \in Versions, Format(version)
    PROVE  IndInv'
<1> USE DEF IndInv
<1>1. /\ ~Up /\ sb' = [head |-> Null, end |-> Null, version |-> version]
      /\ live' = {} /\ freed' = << >> /\ intact' = FALSE
      /\ UNCHANGED <<blocks, pool, disk, diskSb, holders, wrote, declared>>
  BY DEF Format, diskVars, callerVars
<1>2. sb' \in SuperBlock
  BY <1>1 DEF SuperBlock, Ends
<1>3. TypeOK'
  <2>1. freed' \in Seq(Blocks) /\ live' \in SUBSET Blocks /\ intact' \in BOOLEAN
    BY <1>1, EmptyIsSeq
  <2> QED
    BY <1>1, <1>2, <2>1 DEF TypeOK
<1>4. \A b \in Blocks : blocks'[b] = NoData /\ holders'[b] = {}
  BY <1>1 DEF DownIsEmpty
<1>5. DownIsEmpty' /\ RefcntExact' /\ CleanMatchesDisk'
  BY <1>1, <1>4 DEF DownIsEmpty, RefcntExact, CleanMatchesDisk, CachedBlocks, Cached
<1>6. Extent(Null) = {}
  BY GeometryAssumption DEF Extent, Leq, Null, Blocks
<1>7. FreeListSound'
  <2>1. FreedSet' = {}
    BY <1>1 DEF FreedSet
  <2> QED
    BY <1>1, <1>6, <2>1 DEF FreeListSound, Describes, Extent
<1> QED
  BY <1>1, <1>3, <1>5, <1>7 DEF LiveHoldsData, QuietKeepsSuper, RestartSound

LEMMA ReopenStep ==
    ASSUME IndInv, Reopen
    PROVE  IndInv'
<1> USE DEF IndInv
<1>1. /\ ~Up /\ diskSb # NoSuper /\ intact /\ sb' = diskSb
      /\ UNCHANGED <<blocks, pool, disk, diskSb, holders, wrote, declared, live, freed, intact>>
  BY DEF Reopen, diskVars, callerVars, ownerVars
<1>2. TypeOK'
  BY <1>1 DEF TypeOK
<1>3. \A b \in Blocks : blocks'[b] = NoData /\ holders'[b] = {}
  BY <1>1 DEF DownIsEmpty
<1>4. DownIsEmpty' /\ RefcntExact' /\ CleanMatchesDisk'
  BY <1>1, <1>3 DEF DownIsEmpty, RefcntExact, CleanMatchesDisk, CachedBlocks, Cached
<1>5. \A b \in Blocks : Stored(b)' = disk[b] /\ disk' = disk
  BY <1>1, <1>3 DEF Stored, Loaded, Cached
<1>6. Describes(diskSb, disk) /\ \A b \in live : disk[b] \in Values
  BY <1>1 DEF RestartSound
<1>7. LiveHoldsData'
  BY <1>1, <1>5, <1>6 DEF LiveHoldsData, TypeOK
<1>8. FreeListSound'
  <2> DEFINE content == [b \in Blocks |-> Stored(b)]
  <2>1. content' = disk
    BY <1>5 DEF TypeOK
  <2>2. FreedSet' = FreedSet
    BY <1>1 DEF FreedSet
  <2>3. Describes(sb, content)'
    <3> HIDE DEF content
    <3> QED
      BY <1>1, <1>6, <2>1, <2>2 DEF Describes, Extent
  <2> QED
    BY <2>3 DEF FreeListSound
<1>9. QuietKeepsSuper'
  BY <1>1 DEF QuietKeepsSuper
<1>10. RestartSound'
  <2>1. FreedSet' = FreedSet
    BY <1>1 DEF FreedSet
  <2>2. Describes(diskSb, disk)'
    BY <1>1, <1>6, <2>1 DEF Describes, Extent
  <2> QED
    BY <1>1, <1>6, <2>2 DEF RestartSound
<1> QED
  BY <1>2, <1>4, <1>7, <1>8, <1>9, <1>10

-----------------------------------------------------------------------------
(* The theorems. *)

LEMMA InitEstablishes == Init => IndInv
<1> SUFFICES ASSUME Init
             PROVE  IndInv
  OBVIOUS
<1> USE DEF Init
<1>1. Zeroed \in Content
  BY ContentAssumption DEF Content
<1>2. TypeOK
  BY <1>1, GeometryAssumption DEF TypeOK
<1>3. \A b \in Blocks : blocks[b] = NoData /\ holders[b] = {} /\ wrote[b] = {} /\ declared[b] = {}
  OBVIOUS
<1>4. DownIsEmpty /\ RefcntExact /\ CleanMatchesDisk
  BY <1>3 DEF DownIsEmpty, RefcntExact, CleanMatchesDisk, CachedBlocks, Cached
<1>5. LiveHoldsData /\ FreeListSound /\ QuietKeepsSuper /\ RestartSound
  BY DEF LiveHoldsData, FreeListSound, QuietKeepsSuper, RestartSound, Up
<1> QED
  BY <1>2, <1>4, <1>5 DEF IndInv

LEMMA StutterPreserves == IndInv /\ UNCHANGED vars => IndInv'
<1> SUFFICES ASSUME IndInv, UNCHANGED vars
             PROVE  IndInv'
  OBVIOUS
<1>1. UNCHANGED <<disk, diskSb, sb, blocks, pool, holders, wrote, declared, live, freed, intact>>
  BY DEF vars, mgrVars, diskVars, callerVars, ownerVars
<1>2. \A b \in Blocks : Stored(b)' = Stored(b)
  BY <1>1 DEF Stored, Loaded, Cached
<1>3. FreedSet' = FreedSet
  BY <1>1 DEF FreedSet
<1>4. [b \in Blocks |-> Stored(b)]' = [b \in Blocks |-> Stored(b)]
  BY <1>2
<1> QED
  BY <1>1, <1>2, <1>3, <1>4
     DEF IndInv, TypeOK, DownIsEmpty, RefcntExact, CleanMatchesDisk, LiveHoldsData,
         FreeListSound, QuietKeepsSuper, RestartSound, Describes, Up, CachedBlocks, Cached

LEMMA NextPreserves == IndInv /\ [Next]_vars => IndInv'
<1> SUFFICES ASSUME IndInv, Next
             PROVE  IndInv'
  BY StutterPreserves
<1>1. CASE \E version \in Versions : Format(version)
  BY <1>1, FormatStep
<1>2. CASE Reopen
  BY <1>2, ReopenStep
<1>3. ASSUME NEW c \in Clients, NEW b \in Blocks,
             \/ Load(c, b) \/ Dirtify(c, b) \/ UnrefBlock(c, b) \/ FreeBlock(c, b)
             \/ \E v \in Values : Write(c, b, v)
      PROVE  IndInv'
  BY <1>3, LoadStep, DirtifyStep, UnrefStep, FreeBlockStep, WriteStep
<1>4. ASSUME NEW c \in Clients, AllocateNew(c) \/ AllocateFreed(c)
      PROVE  IndInv'
  BY <1>4, AllocateNewStep, AllocateFreedStep
<1>5. CASE AllocateFull
  BY <1>5, AllocateFullStep
<1>6. CASE Flush
  BY <1>6, FlushStep
<1>7. CASE Shutdown
  BY <1>7, ShutdownStep
<1>8. CASE \E W \in SUBSET Dirty : Crash(W)
  BY <1>8, CrashStep
<1> QED
  BY <1>1, <1>2, <1>3, <1>4, <1>5, <1>6, <1>7, <1>8 DEF Next

\* The inductive invariant holds in every state the manager can reach.
THEOREM Invariance == Spec => []IndInv
BY InitEstablishes, NextPreserves, PTL DEF Spec

\* Every variable keeps its type (all of BlockManager's state).
THEOREM TypeCorrect == Spec => []TypeOK
BY Invariance, PTL DEF IndInv

\* No block is handed out twice, none is lost, none is both owned and free,
\* whatever is evicted, flushed or released meanwhile (allocate_, free_block,
\* incr_next_block, get_free_data_).
THEOREM FreeListCorrect == Spec => []FreeListSound
BY Invariance, PTL DEF IndInv

\* refcnt counts the callers' references exactly and never wraps, and a block
\* with a reference is never evicted: pointers handed out by load and allocate
\* stay valid until the reference is dropped.
THEOREM RefcntCorrect == Spec => []RefcntExact
BY Invariance, PTL DEF IndInv

\* No declared change is lost by dropping a clean cache entry (dirtify,
\* flush_block_, get_free_data_, release_block_).
THEOREM CacheCorrect == Spec => []CleanMatchesDisk
BY Invariance, PTL DEF IndInv

\* After a clean shutdown, or a crash of a session that moved no block, the
\* disk by itself describes a sound file system (~BlockManager, flush).
THEOREM RestartCorrect == Spec => []RestartSound
BY Invariance, PTL DEF IndInv

-----------------------------------------------------------------------------
(* The number of buffers. *)

\* What holds of the buffers whatever the manager does: peak bounds the blocks
\* referenced now, and a manager that is down has no buffer in its pool.
BuffersInv ==
    /\ IF Up THEN Pinned <= peak ELSE pool = 0 /\ peak = 0
    /\ peak \in Nat
    /\ BufferBound

LEMMA LargerFacts ==
    ASSUME NEW m \in Nat, NEW n \in Nat
    PROVE  /\ Larger(m, n) \in Nat /\ Larger(m, n) \in {m, n}
           /\ m <= Larger(m, n) /\ n <= Larger(m, n)
BY DEF Larger

LEMMA WithinLimit ==
    ASSUME NEW m \in Nat, NEW p \in Nat, NEW q \in Nat, NEW pinned \in Nat,
           NEW old \in Nat, NEW new \in Nat,
           pinned <= p, p <= q, old <= Larger(m, p + 1),
           new <= old \/ new <= m \/ new <= pinned + 1
    PROVE  new <= Larger(m, q + 1)
BY DEF Larger

LEMMA BlocksFinite == IsFiniteSet(Blocks)
<1>1. IsFiniteSet(0 .. Cylinders - 1) /\ IsFiniteSet(0 .. Sections - 1)
  BY GeometryAssumption, FS_Interval
<1>2. IsFiniteSet((0 .. Cylinders - 1) \X (0 .. Sections - 1))
  BY <1>1, FS_Product
<1> QED
  BY <1>2, FS_Subset DEF Blocks

LEMMA SizeType ==
    /\ IsFiniteSet(CachedBlocks) /\ Size \in Nat \ {0}
    /\ Pinned \in Nat \ {0}
<1> DEFINE P == {b \in Blocks : holders[b] # {}}
<1>1. CachedBlocks \subseteq Blocks /\ P \subseteq Blocks
  BY DEF CachedBlocks
<1>2. IsFiniteSet(CachedBlocks) /\ IsFiniteSet(P)
  BY <1>1, BlocksFinite, FS_Subset
<1>3. Cardinality(CachedBlocks) \in Nat /\ Cardinality(P) \in Nat
  BY <1>2, FS_CardinalityType
<1> QED
  BY <1>2, <1>3 DEF Size, Pinned

\* The blocks cached determine the number of buffers in blocks_.
LEMMA SameSize ==
    ASSUME \A b \in Blocks : (blocks'[b] = NoData) <=> (blocks[b] = NoData)
    PROVE  Size' = Size
<1>1. CachedBlocks' = CachedBlocks
  BY DEF CachedBlocks, Cached
<1> QED
  BY <1>1 DEF Size

\* load_block_ needs at most one new buffer, and only when the cache is below
\* its limit or every block in it is referenced.
LEMMA PlaceBuffers ==
    ASSUME TypeOK, RefcntExact, NEW b \in Blocks, NEW victim \in Evictions(b),
           NEW d, d # NoData, Place(b, victim, d)
    PROVE  \/ Size' + pool' <= Size + pool
           \/ Size' + pool' <= MaxPool
           \/ Size' + pool' <= Pinned + 1
<1>1. /\ blocks' = [x \in Blocks |->
                      IF x = b THEN d ELSE IF x = victim THEN NoData ELSE blocks[x]]
      /\ pool' = IF Cached(b) \/ pool = 0 THEN pool ELSE pool - 1
  BY DEF Place
<1>2. /\ CachedBlocks' = (CachedBlocks \ {victim}) \cup {b}
      /\ victim # b
  BY <1>1, VictimDiffers DEF CachedBlocks, Cached
<1>3. /\ IsFiniteSet(CachedBlocks) /\ IsFiniteSet(CachedBlocks \ {victim})
      /\ Cardinality(CachedBlocks) \in Nat
      /\ Cardinality(CachedBlocks \ {victim})
            = Cardinality(CachedBlocks) - (IF victim \in CachedBlocks THEN 1 ELSE 0)
  BY SizeType, FS_RemoveElement, FS_CardinalityType
<1>4. Cardinality(CachedBlocks')
            = Cardinality(CachedBlocks \ {victim})
              + (IF b \in CachedBlocks \ {victim} THEN 0 ELSE 1)
  BY <1>2, <1>3, FS_AddElement
<1>5. /\ Size' = Size - (IF victim \in CachedBlocks THEN 1 ELSE 0)
                      + (IF b \in CachedBlocks THEN 0 ELSE 1)
      /\ Size \in Nat /\ pool \in 0 .. MaxPool /\ MaxPool \in Nat
  BY <1>2, <1>3, <1>4, GeometryAssumption DEF Size, TypeOK
<1>6. Null \notin CachedBlocks
  BY DEF CachedBlocks, Blocks
<1>7. CASE Cached(b)
  <2>1. victim = Null /\ b \in CachedBlocks /\ pool' = pool
    BY <1>1, <1>7 DEF Evictions, CachedBlocks
  <2> QED
    BY <1>5, <1>6, <2>1
<1>8. CASE ~Cached(b) /\ pool > 0
  <2>1. victim = Null /\ b \notin CachedBlocks /\ pool' = pool - 1
    BY <1>1, <1>5, <1>8 DEF Evictions, CachedBlocks
  <2> QED
    BY <1>5, <1>6, <2>1
<1>9. CASE ~Cached(b) /\ ~(pool > 0) /\ Size < MaxPool
  <2>1. victim = Null /\ b \notin CachedBlocks /\ pool' = 0
    BY <1>1, <1>5, <1>9 DEF Evictions, CachedBlocks
  <2>2. Size' = Size + 1
    BY <1>5, <1>6, <2>1
  <2> QED
    BY <1>5, <1>9, <2>1, <2>2
<1>10. CASE ~Cached(b) /\ ~(pool > 0) /\ ~(Size < MaxPool) /\ Idle = {}
  <2>1. victim = Null /\ b \notin CachedBlocks /\ pool' = 0
    BY <1>1, <1>5, <1>10 DEF Evictions, CachedBlocks
  <2>2. Size' = Size + 1
    BY <1>5, <1>6, <2>1
  <2>3. CachedBlocks = {x \in Blocks : holders[x] # {}}
    <3>1. \A x \in CachedBlocks : holders[x] # {}
      BY <1>10, FS_EmptySet DEF Idle, CachedBlocks, RefcntExact
    <3> QED
      BY <3>1 DEF CachedBlocks, RefcntExact
  <2>4. Size = Pinned
    BY <2>3 DEF Size, Pinned
  <2> QED
    BY <1>5, <2>1, <2>2, <2>4
<1>11. CASE ~Cached(b) /\ ~(pool > 0) /\ ~(Size < MaxPool) /\ Idle # {}
  <2>1. victim \in CachedBlocks /\ b \notin CachedBlocks /\ pool' = pool
    BY <1>1, <1>5, <1>11 DEF Evictions, CachedBlocks, Idle
  <2> QED
    BY <1>5, <2>1
<1> QED
  BY <1>7, <1>8, <1>9, <1>10, <1>11

\* release_block_ moves a buffer from blocks_ to the pool, or frees it.
LEMMA DropBuffers ==
    ASSUME TypeOK, NEW b \in Blocks, Cached(b), Drop(b)
    PROVE  Size' + pool' <= Size + pool
<1> DEFINE n == Decr(blocks[b].refcnt)
           release == n = 0 /\ Size > MaxPool
<1>1. /\ blocks' = IF release THEN [blocks EXCEPT ![b] = NoData]
                              ELSE [blocks EXCEPT ![b].refcnt = n]
      /\ pool' = IF release /\ pool < MaxPool THEN pool + 1 ELSE pool
  BY DEF Drop
<1>2. pool \in 0 .. MaxPool /\ MaxPool \in Nat /\ Size \in Nat
  BY GeometryAssumption, SizeType DEF TypeOK
<1>3. CASE release
  <2>1. CachedBlocks' = CachedBlocks \ {b} /\ b \in CachedBlocks
    BY <1>1, <1>3 DEF CachedBlocks, Cached, TypeOK
  <2>2. /\ Cardinality(CachedBlocks \ {b}) = Cardinality(CachedBlocks) - 1
        /\ Cardinality(CachedBlocks) \in Nat
    BY <2>1, SizeType, FS_RemoveElement, FS_CardinalityType
  <2>3. Size' = Size - 1
    BY <2>1, <2>2 DEF Size
  <2> QED
    BY <1>1, <1>2, <1>3, <2>3
<1>4. CASE ~release
  <2>1. /\ blocks' = [blocks EXCEPT ![b] = [blocks[b] EXCEPT !.refcnt = n]]
        /\ pool' = pool
    BY <1>1, <1>4
  <2> HIDE DEF n, release
  <2>2. blocks[b] \in Data /\ blocks'[b] = [blocks[b] EXCEPT !.refcnt = n]
    BY <2>1 DEF TypeOK, Cached
  <2>3. n \in 0 .. RefMax
    BY <2>2, ClientsAssumption DEF n, Decr, Data
  <2>4. blocks'[b] \in Data
    BY <2>2, <2>3 DEF Data
  <2>5. \A x \in Blocks : (blocks'[x] = NoData) <=> (blocks[x] = NoData)
    BY <2>1, <2>4, SentinelAssumption DEF TypeOK, Cached
  <2>6. Size' = Size
    BY <2>5, SameSize
  <2> QED
    BY <1>2, <2>1, <2>6
<1> QED
  BY <1>3, <1>4

\* What any step of a running manager does to the number of buffers.
LEMMA StepBuffers ==
    ASSUME IndInv, IndInv', Up, Next, Up'
    PROVE  \/ Size' + pool' <= Size + pool
           \/ Size' + pool' <= MaxPool
           \/ Size' + pool' <= Pinned + 1
<1> USE DEF IndInv
<1>1. Size \in Nat /\ pool \in 0 .. MaxPool /\ MaxPool \in Nat
  BY SizeType, GeometryAssumption DEF TypeOK
<1>2. ASSUME \A b \in Blocks : (blocks'[b] = NoData) <=> (blocks[b] = NoData),
             pool' = pool
      PROVE  Size' + pool' <= Size + pool
  BY <1>1, <1>2, SameSize
<1>3. ASSUME NEW b \in Blocks, NEW victim \in Evictions(b), NEW d, Place(b, victim, d),
             d # NoData
      PROVE  \/ Size' + pool' <= Size + pool
             \/ Size' + pool' <= MaxPool
             \/ Size' + pool' <= Pinned + 1
  BY <1>3, PlaceBuffers
<1>4. ASSUME NEW b \in Blocks, NEW victim, NEW d, Place(b, victim, d)
      PROVE  blocks'[b] = d
  BY <1>4 DEF Place
<1>5. ASSUME NEW c \in Clients, NEW b \in Blocks, Load(c, b)
      PROVE  \/ Size' + pool' <= Size + pool
             \/ Size' + pool' <= MaxPool
             \/ Size' + pool' <= Pinned + 1
  <2>1. PICK victim \in Evictions(b) : Place(b, victim, [Loaded(b) EXCEPT !.refcnt = Incr(@)])
    BY <1>5 DEF Load
  <2>2. c \in holders'[b]
    BY <1>5 DEF Load, TypeOK
  <2>3. blocks'[b] # NoData
    BY <2>2 DEF RefcntExact, Cached
  <2> QED
    BY <1>3, <1>4, <2>1, <2>3
<1>6. ASSUME NEW c \in Clients, NEW b \in Blocks, Grant(c, b)
      PROVE  \/ Size' + pool' <= Size + pool
             \/ Size' + pool' <= MaxPool
             \/ Size' + pool' <= Pinned + 1
  <2>1. PICK victim \in Evictions(b) :
           Place(b, victim, [dirty |-> TRUE, refcnt |-> 1, data |-> Zeroed])
    BY <1>6 DEF Grant
  <2>2. c \in holders'[b]
    BY <1>6 DEF Grant, TypeOK
  <2>3. blocks'[b] # NoData
    BY <2>2 DEF RefcntExact, Cached
  <2> QED
    BY <1>3, <1>4, <2>1, <2>3
<1>7. ASSUME NEW c \in Clients, NEW b \in Blocks, FreeBlock(c, b)
      PROVE  \/ Size' + pool' <= Size + pool
             \/ Size' + pool' <= MaxPool
             \/ Size' + pool' <= Pinned + 1
  <2>1. CASE ~InRange(b)
    BY <1>2, <1>7, <2>1 DEF FreeBlock
  <2>2. CASE InRange(b)
    <3> DEFINE e == [dirty |-> TRUE, refcnt |-> 0,
                     data |-> IF IsFree(Loaded(b).data) THEN Loaded(b).data
                              ELSE [next |-> sb.head, version |-> sb.version]]
    <3>1. PICK victim \in Evictions(b) : Place(b, victim, e)
      BY <1>7, <2>2 DEF FreeBlock, Push
    <3>2. e \in Data
      <4>1. Loaded(b).data \in Content
        BY LoadedType
      <4>2. [next |-> sb.head, version |-> sb.version] \in Content
        BY DEF TypeOK, Up, SuperBlock, Content, FreeMark
      <4>3. 0 \in 0 .. RefMax
        BY ClientsAssumption
      <4> QED
        BY <4>1, <4>2, <4>3 DEF Data
    <3>3. e # NoData
      BY <3>2, SentinelAssumption
    <3> QED
      BY <1>3, <3>1, <3>3
  <2> QED
    BY <2>1, <2>2
<1>8. ASSUME NEW c \in Clients, NEW b \in Blocks, UnrefBlock(c, b)
      PROVE  Size' + pool' <= Size + pool
  BY <1>2, <1>8, DropBuffers DEF UnrefBlock
<1>9. ASSUME NEW c \in Clients, NEW b \in Blocks, Dirtify(c, b)
      PROVE  Size' + pool' <= Size + pool
  <2>1. pool' = pool /\ Cached(b) /\ c \in holders'[b]
    BY <1>9 DEF Dirtify, RefcntExact
  <2>2. \A x \in Blocks \ {b} : blocks'[x] = blocks[x]
    BY <1>9 DEF Dirtify, TypeOK
  <2>3. blocks'[b] # NoData
    BY <2>1 DEF RefcntExact, Cached
  <2> QED
    BY <1>2, <2>1, <2>2, <2>3 DEF Cached
<1>10. ASSUME NEW c \in Clients, NEW b \in Blocks, NEW v \in Values, Write(c, b, v)
      PROVE  Size' + pool' <= Size + pool
  <2>1. pool' = pool /\ Cached(b) /\ c \in holders'[b]
    BY <1>10 DEF Write, RefcntExact
  <2>2. \A x \in Blocks \ {b} : blocks'[x] = blocks[x]
    BY <1>10 DEF Write, TypeOK
  <2>3. blocks'[b] # NoData
    BY <2>1 DEF RefcntExact, Cached
  <2> QED
    BY <1>2, <2>1, <2>2, <2>3 DEF Cached
<1>11. ASSUME NEW c \in Clients, AllocateNew(c) \/ AllocateFreed(c)
      PROVE  \/ Size' + pool' <= Size + pool
             \/ Size' + pool' <= MaxPool
             \/ Size' + pool' <= Pinned + 1
  <2>1. CASE AllocateNew(c)
    <3>1. NextBlock(sb.end) \in Blocks
      BY <2>1, NextExtends DEF AllocateNew, TypeOK, Up, SuperBlock
    <3> QED
      BY <1>6, <2>1, <3>1 DEF AllocateNew
  <2>2. CASE AllocateFreed(c)
    <3>1. sb.head \in Blocks
      BY <2>2 DEF AllocateFreed, TypeOK, Up, SuperBlock
    <3> QED
      BY <1>6, <2>2, <3>1 DEF AllocateFreed
  <2> QED
    BY <1>11, <2>1, <2>2
<1>12. CASE AllocateFull
  BY <1>2, <1>12 DEF AllocateFull
<1>13. CASE Flush
  <2>1. \A b \in Idle \cap Dirty : [blocks[b] EXCEPT !.dirty = FALSE] \in Data
    BY DEF Dirty, CachedBlocks, Cached, TypeOK, Data
  <2>2. \A b \in Blocks : (blocks'[b] = NoData) <=> (blocks[b] = NoData)
    BY <1>13, <2>1, SentinelAssumption DEF Flush, Dirty, CachedBlocks, Cached
  <2> QED
    BY <1>2, <1>13, <2>2 DEF Flush
<1> QED
  BY <1>5, <1>7, <1>8, <1>9, <1>10, <1>11, <1>12, <1>13
     DEF Next, Format, Reopen, Shutdown, Crash, Gone, Up

\* A manager that is down, or goes down, has no buffer in its pool.
LEMMA LastStep ==
    ASSUME IndInv, IndInv', Next, ~Up', ~Up => pool = 0
    PROVE  pool' = 0
<1> USE DEF IndInv
<1>1. CASE ~Up
  BY <1>1 DEF Next, Format, Reopen, Load, Dirtify, UnrefBlock, FreeBlock, Write, AllocateNew,
              AllocateFreed, AllocateFull, Flush, Shutdown, Crash
<1>2. CASE Up
  <2>1. sb' = NoSuper
    BY DEF Up
  <2>2. /\ \A h \in Blocks : [sb EXCEPT !.head = h] # NoSuper
        /\ \A e \in Ends : [sb EXCEPT !.end = e] # NoSuper
    BY <1>2, SentinelAssumption DEF TypeOK, Up, SuperBlock
  <2>3. ASSUME NEW c \in Clients, NEW b \in Blocks, FreeBlock(c, b)
        PROVE  FALSE
    <3>1. sb' = sb \/ sb' = [sb EXCEPT !.head = b]
      BY <2>3 DEF FreeBlock, Push
    <3> QED
      BY <1>2, <2>1, <2>2, <3>1 DEF Up
  <2>4. ASSUME AllocateFull
        PROVE  FALSE
    <3>1. NextBlock(sb.end) \in Ends
      BY <2>4, FullKeepsExtent DEF AllocateFull, TypeOK, Up, SuperBlock
    <3> QED
      BY <2>1, <2>2, <2>4, <3>1 DEF AllocateFull
  <2>5. ASSUME NEW c \in Clients, NEW b \in Blocks, Grant(c, b)
        PROVE  FALSE
    <3>1. c \in holders'[b]
      BY <2>5 DEF Grant, TypeOK
    <3> QED
      BY <3>1 DEF DownIsEmpty
  <2>6. ASSUME NEW c \in Clients, AllocateNew(c) \/ AllocateFreed(c)
        PROVE  FALSE
    <3>1. AllocateNew(c) => NextBlock(sb.end) \in Blocks
      BY NextExtends DEF AllocateNew, TypeOK, Up, SuperBlock
    <3>2. AllocateFreed(c) => sb.head \in Blocks
      BY DEF AllocateFreed, TypeOK, Up, SuperBlock
    <3> QED
      BY <2>5, <2>6, <3>1, <3>2 DEF AllocateNew, AllocateFreed
  <2> QED
    BY <1>2, <2>1, <2>3, <2>4, <2>6
       DEF Next, Format, Reopen, Load, Dirtify, UnrefBlock, Write, Flush, Shutdown, Crash, Gone, Up
<1> QED
  BY <1>1, <1>2

LEMMA BuffersInit == BInit => BuffersInv
BY DEF BInit, Init, BuffersInv, Up, BufferBound

LEMMA BuffersStep == IndInv /\ IndInv' /\ BuffersInv /\ [BNext]_bvars => BuffersInv'
<1> SUFFICES ASSUME IndInv, IndInv', BuffersInv, [BNext]_bvars
             PROVE  BuffersInv'
  OBVIOUS
<1>1. /\ Size \in Nat /\ Pinned \in Nat \ {0} /\ pool \in 0 .. MaxPool /\ MaxPool \in Nat \ {0}
      /\ peak \in Nat
  BY SizeType, GeometryAssumption DEF IndInv, TypeOK, BuffersInv
<1>2. Size' \in Nat /\ Pinned' \in Nat \ {0} /\ pool' \in 0 .. MaxPool
  <2>1. SizeType'
    BY SizeType, PTL
  <2> QED
    BY <2>1, GeometryAssumption DEF IndInv, TypeOK
<1>3. CASE UNCHANGED bvars
  BY <1>3 DEF bvars, vars, mgrVars, callerVars, BuffersInv, BufferBound, Up, Size, CachedBlocks,
              Cached, Pinned
<1>4. CASE BNext /\ ~Up'
  <2>1. pool' = 0
    BY <1>4, LastStep DEF BNext, BuffersInv
  <2> QED
    BY <1>4, <2>1 DEF BNext, BuffersInv, BufferBound
<1>5. CASE BNext /\ Up' /\ Up
  <2>1. peak' = Larger(peak, Pinned')
    BY <1>5 DEF BNext
  <2>2. /\ Pinned <= peak
        /\ Size + pool <= Larger(MaxPool, peak + 1)
    BY <1>5 DEF BuffersInv, BufferBound
  <2>3. \/ Size' + pool' <= Size + pool
        \/ Size' + pool' <= MaxPool
        \/ Size' + pool' <= Pinned + 1
    BY <1>5, StepBuffers DEF BNext
  <2>4. peak' \in Nat /\ peak' >= peak /\ peak' >= Pinned'
    BY <1>1, <1>2, <2>1, LargerFacts
  <2>5. /\ Size + pool \in Nat /\ Size' + pool' \in Nat
        /\ Pinned \in Nat /\ MaxPool \in Nat /\ peak \in Nat
    <3> DEFINE size == Size'
               spare == pool'
    <3>1. size \in Nat /\ spare \in 0 .. MaxPool
      BY <1>2
    <3> HIDE DEF size, spare
    <3>2. size + spare \in Nat
      BY <1>1, <3>1
    <3> QED
      BY <1>1, <3>2 DEF size, spare
  <2>6. Size' + pool' <= Larger(MaxPool, peak' + 1)
    <3> DEFINE old == Size + pool
               new == Size' + pool'
               most == Larger(MaxPool, peak' + 1)
    <3>1. old <= Larger(MaxPool, peak + 1) /\ Pinned <= peak /\ peak <= peak'
      BY <2>2, <2>4
    <3>2. new <= old \/ new <= MaxPool \/ new <= Pinned + 1
      BY <2>3
    <3>3. old \in Nat /\ new \in Nat
      BY <2>5
    <3> HIDE DEF old, new
    <3>4. new <= most
      BY <2>4, <2>5, <3>1, <3>2, <3>3, WithinLimit
    <3> QED
      BY <3>4 DEF new
  <2> QED
    BY <1>5, <2>4, <2>6 DEF BuffersInv, BufferBound
<1>6. CASE BNext /\ Up' /\ ~Up
  <2>1. pool = 0 /\ peak = 0
    BY <1>6 DEF BuffersInv
  <2>2. blocks' = blocks /\ pool' = pool
    BY <1>6 DEF BNext, Next, Format, Reopen, Load, Dirtify, UnrefBlock, FreeBlock, Write, AllocateNew,
                AllocateFreed, AllocateFull, Flush, Shutdown, Crash
  <2>3. CachedBlocks' = {}
    BY <1>6, <2>2 DEF IndInv, DownIsEmpty, CachedBlocks, Cached
  <2>4. Size' = 1
    BY <2>3, FS_EmptySet DEF Size
  <2>5. peak' = Larger(peak, Pinned')
    BY <1>6 DEF BNext
  <2>6. /\ peak' \in Nat /\ Pinned' <= peak'
        /\ Size' + pool' <= Larger(MaxPool, peak' + 1)
    <3>1. peak' \in Nat /\ peak' >= Pinned'
      BY <1>1, <1>2, <2>5, LargerFacts
    <3>2. Larger(MaxPool, peak' + 1) \in Nat /\ MaxPool <= Larger(MaxPool, peak' + 1)
      BY <1>1, <3>1, LargerFacts
    <3> QED
      BY <1>1, <1>2, <2>1, <2>2, <2>4, <3>1, <3>2
  <2> QED
    BY <1>6, <2>6 DEF BuffersInv, BufferBound
<1> QED
  BY <1>3, <1>4, <1>5, <1>6

\* Buffers are reused: past its limit, the manager never has more than one
\* buffer beyond the most blocks its callers ever referenced at once
\* (get_free_data_, release_block_, free_block).
THEOREM BuffersCorrect == BSpec => []BufferBound
<1>1. BInit => IndInv /\ BuffersInv
  BY InitEstablishes, BuffersInit DEF BInit
<1>2. [BNext]_bvars => [Next]_vars
  BY DEF BNext, bvars
<1>3. IndInv /\ BuffersInv /\ [BNext]_bvars => IndInv' /\ BuffersInv'
  BY <1>2, NextPreserves, BuffersStep
<1>4. BuffersInv => BufferBound
  BY DEF BuffersInv
<1> QED
  BY <1>1, <1>3, <1>4, PTL DEF BSpec

-----------------------------------------------------------------------------
(* The abstract store (BlockStore).                                         *)

\* A step that moves no block between owners and leaves what is stored in
\* each alone, whatever reaches the disk, is a write-back of the store.
LEMMA WriteBackView ==
    ASSUME live \in SUBSET Blocks, live' = live, intact' = intact,
           \A b \in live : /\ Stored(b)' = Stored(b)
                           /\ disk'[b] \in {disk[b], Stored(b)}
                           /\ Pending(b)' <=> Pending(b)
    PROVE  Store!SWriteBack
BY DEF Store!SWriteBack, Store!Mixed

LEMMA LoadView ==
    ASSUME IndInv, NEW c \in Clients, NEW b \in Blocks, Load(c, b)
    PROVE  Store!SWriteBack
<1> USE DEF IndInv
<1> DEFINE d == [Loaded(b) EXCEPT !.refcnt = Incr(@)]
<1>1. PICK victim \in Evictions(b) : Place(b, victim, d)
  BY DEF Load
<1>2. c \notin holders[b] /\ Loaded(b) \in Data /\ Stored(b) = Loaded(b).data
  BY LoadedType DEF Load
<1>3. Loaded(b).refcnt \in 0 .. RefMax /\ Incr(Loaded(b).refcnt) \in 0 .. RefMax
  BY <1>2, ClientsAssumption DEF Incr, Data
<1>4. d \in Data /\ d.data = Stored(b)
  BY <1>2, <1>3 DEF Data
<1>5. /\ blocks'[b] = d /\ disk'[b] = disk[b]
      /\ \A x \in Blocks \ {b} : Stored(x)' = Stored(x) /\ disk'[x] \in {disk[x], Stored(x)}
  BY <1>1, <1>4, PlaceFacts
<1>6. Stored(b)' = Stored(b)
  BY <1>4, <1>5, SentinelAssumption DEF Stored, Loaded, Cached
<1>7. \A x \in Blocks : Pending(x)' <=> Pending(x)
  BY DEF Load, Pending
<1>8. live \in SUBSET Blocks /\ live' = live /\ intact' = intact
  BY DEF Load, ownerVars, TypeOK
<1> QED
  BY <1>5, <1>6, <1>7, <1>8, WriteBackView

\* A block handed out comes from outside the store, zeroed.
LEMMA GrantView ==
    ASSUME IndInv, IndInv', Up, NEW c \in Clients, NEW b \in Blocks, b \notin live, Grant(c, b)
    PROVE  Store!SAllocate(b)
<1> USE DEF IndInv
<1> DEFINE d == [dirty |-> TRUE, refcnt |-> 1, data |-> Zeroed]
<1>1. PICK victim \in Evictions(b) : Place(b, victim, d)
  BY DEF Grant
<1>2. d \in Data
  BY ClientsAssumption, ContentAssumption DEF Data, Content
<1>3. /\ blocks'[b] = d
      /\ \A x \in Blocks \ {b} : Stored(x)' = Stored(x) /\ disk'[x] \in {disk[x], Stored(x)}
  BY <1>1, <1>2, PlaceFacts
<1>4. Stored(b)' = Zeroed
  <2>1. d # NoData /\ d.data = Zeroed
    BY <1>2, SentinelAssumption
  <2> HIDE DEF d
  <2> QED
    BY <1>3, <2>1 DEF Stored, Loaded, Cached
<1>5. /\ live' = live \cup {b} /\ intact' = FALSE /\ wrote' = wrote
      /\ \A x \in Blocks \ {b} : declared'[x] = declared[x]
  <2>1. /\ live' = live \cup {b} /\ intact' = FALSE /\ wrote' = wrote
        /\ declared' = [declared EXCEPT ![b] = @ \cup {c}]
    BY DEF Grant
  <2> QED
    BY <2>1 DEF TypeOK
<1>6. wrote[b] = {}
  BY DEF DownIsEmpty, RefcntExact
<1>7. \A x \in live : Pending(x)' <=> Pending(x)
  BY <1>5 DEF Pending, TypeOK
<1>8. {x \in live' : Pending(x)'} = {x \in live : Pending(x)}
  BY <1>5, <1>6, <1>7 DEF Pending
<1>9. live \in SUBSET Blocks
  BY DEF TypeOK
<1> QED
  BY <1>3, <1>4, <1>5, <1>8, <1>9 DEF Store!SAllocate

LEMMA AllocateView ==
    ASSUME IndInv, IndInv', NEW c \in Clients, AllocateNew(c) \/ AllocateFreed(c)
    PROVE  \E b \in Blocks : Store!SAllocate(b)
<1> USE DEF IndInv
<1>1. CASE AllocateNew(c)
  <2> DEFINE nb == NextBlock(sb.end)
  <2>1. Up /\ Grant(c, nb) /\ sb.end \in Ends /\ ~DiskFull(sb.end)
    BY <1>1 DEF AllocateNew, TypeOK, Up, SuperBlock
  <2>2. nb \in Blocks /\ nb \notin Extent(sb.end)
    BY <2>1, NextExtends
  <2>3. nb \notin live
    BY <2>1, <2>2 DEF FreeListSound, Describes
  <2> QED
    BY <2>1, <2>2, <2>3, GrantView
<1>2. CASE AllocateFreed(c)
  <2>1. Up /\ Grant(c, sb.head) /\ sb.head # Null
    BY <1>2 DEF AllocateFreed
  <2> QED
    BY <2>1, HeadOfList, GrantView
<1> QED
  BY <1>1, <1>2

LEMMA WriteView ==
    ASSUME IndInv, NEW c \in Clients, NEW b \in Blocks, NEW v \in Values, Write(c, b, v)
    PROVE  Store!SUpdate(b, v)
<1> USE DEF IndInv
<1>1. /\ b \in live /\ Cached(b) /\ blocks[b] \in Data
      /\ blocks' = [blocks EXCEPT ![b] = [blocks[b] EXCEPT !.data = v]]
      /\ UNCHANGED <<disk, declared, live, intact>>
  BY DEF Write, RefcntExact, TypeOK, Cached, diskVars, ownerVars
<1>2. blocks'[b] = [blocks[b] EXCEPT !.data = v]
  BY <1>1 DEF TypeOK
<1>3. blocks'[b] \in Data /\ blocks'[b].data = v
  BY <1>1, <1>2 DEF Data, Content
<1>4. Stored(b)' = v /\ \A x \in Blocks \ {b} : Stored(x)' = Stored(x)
  BY <1>1, <1>3, SentinelAssumption DEF Stored, Loaded, Cached, TypeOK
<1>5. live \in SUBSET Blocks
  BY DEF TypeOK
<1>6. [x \in live |-> Stored(x)]' = [[x \in live |-> Stored(x)] EXCEPT ![b] = v]
  BY <1>1, <1>4, <1>5
<1>7. {x \in live : Pending(x)}' \in
         {{x \in live : Pending(x)}, {x \in live : Pending(x)} \cup {b}}
  <2>1. wrote'[b] = wrote[b] \cup {c} /\ \A x \in Blocks \ {b} : wrote'[x] = wrote[x]
    BY DEF Write, TypeOK
  <2>2. \A x \in live \ {b} : Pending(x)' <=> Pending(x)
    BY <1>1, <1>5, <2>1 DEF Pending
  <2>3. Pending(b) => Pending(b)'
    BY <1>1, <2>1 DEF Pending
  <2> QED
    BY <1>1, <2>2, <2>3
<1>8. [x \in live |-> disk[x]]' = [x \in live |-> disk[x]]
  BY <1>1
<1> QED
  BY <1>1, <1>6, <1>7, <1>8 DEF Store!SUpdate

LEMMA DirtifyView ==
    ASSUME IndInv, NEW c \in Clients, NEW b \in Blocks, Dirtify(c, b)
    PROVE  Store!SDeclare(b)
<1> USE DEF IndInv
<1>1. /\ Cached(b) /\ blocks[b] \in Data
      /\ UNCHANGED <<disk, wrote, live, intact>>
      /\ \/ blocks' = blocks
         \/ blocks' = [blocks EXCEPT ![b] = [blocks[b] EXCEPT !.dirty = TRUE]]
  BY DEF Dirtify, RefcntExact, TypeOK, Cached, diskVars, ownerVars
<1>2. /\ blocks'[b] # NoData /\ blocks'[b].data = blocks[b].data
      /\ \A x \in Blocks \ {b} : blocks'[x] = blocks[x]
  <2>1. CASE blocks' = blocks
    BY <1>1, <2>1 DEF Cached
  <2>2. CASE blocks' = [blocks EXCEPT ![b] = [blocks[b] EXCEPT !.dirty = TRUE]]
    <3>1. blocks'[b] = [blocks[b] EXCEPT !.dirty = TRUE]
      BY <2>2 DEF TypeOK
    <3>2. blocks'[b] \in Data /\ blocks'[b].data = blocks[b].data
      BY <1>1, <3>1 DEF Data
    <3> QED
      BY <2>2, <3>2, SentinelAssumption DEF TypeOK
  <2> QED
    BY <1>1, <2>1, <2>2
<1>3. \A x \in Blocks : Stored(x)' = Stored(x)
  BY <1>1, <1>2 DEF Stored, Loaded, Cached
<1>4. live \in SUBSET Blocks
  BY DEF TypeOK
<1>5. /\ [x \in live |-> Stored(x)]' = [x \in live |-> Stored(x)]
      /\ [x \in live |-> disk[x]]' = [x \in live |-> disk[x]]
  BY <1>1, <1>3, <1>4
<1>6. {x \in live : Pending(x)}' \in
         {{x \in live : Pending(x)}, {x \in live : Pending(x)} \ {b}}
  <2>1. declared'[b] = declared[b] \cup {c} /\ \A x \in Blocks \ {b} : declared'[x] = declared[x]
    BY DEF Dirtify, TypeOK
  <2>2. \A x \in live \ {b} : Pending(x)' <=> Pending(x)
    BY <1>1, <1>4, <2>1 DEF Pending
  <2>3. Pending(b)' => Pending(b)
    BY <1>1, <2>1 DEF Pending
  <2> QED
    BY <1>1, <2>2, <2>3
<1> QED
  BY <1>1, <1>5, <1>6 DEF Store!SDeclare

\* What unref_block writes is what is stored, and the caller that leaves has
\* declared its changes.
LEMMA UnrefView ==
    ASSUME IndInv, NEW c \in Clients, NEW b \in Blocks, UnrefBlock(c, b)
    PROVE  Store!SWriteBack
<1> USE DEF IndInv
<1>1. /\ c \in holders[b] /\ Cached(b) /\ b \in live /\ InRange(b)
      /\ blocks[b] \in Data
  BY OwnedInRange DEF UnrefBlock, RefcntExact, TypeOK, Cached
<1>2. Drop(b) /\ UNCHANGED <<live, intact>>
  BY <1>1 DEF UnrefBlock, ownerVars
<1>3. \A x \in Blocks \ {b} : Stored(x)' = Stored(x) /\ disk'[x] = disk[x]
  <2>1. \A x \in Blocks \ {b} : blocks'[x] = blocks[x] /\ disk'[x] = disk[x]
    BY <1>2 DEF Drop, WriteBack, TypeOK
  <2> QED
    BY <2>1 DEF Stored, Loaded, Cached
<1>4. Stored(b)' = Stored(b) /\ disk'[b] \in {disk[b], Stored(b)}
  <2> DEFINE n == Decr(blocks[b].refcnt)
             release == n = 0 /\ Size > MaxPool
  <2>1. CASE release
    <3>1. blocks'[b] = NoData /\ disk' = WriteBack({b} \cap Dirty)
      BY <1>2, <2>1 DEF Drop, TypeOK
    <3>2. Stored(b)' = disk'[b] /\ Stored(b) = blocks[b].data
      BY <1>1, <3>1 DEF Stored, Loaded, Cached
    <3>3. disk'[b] = IF b \in Dirty THEN blocks[b].data ELSE disk[b]
      BY <3>1 DEF WriteBack
    <3>4. b \notin Dirty => blocks[b].data = disk[b]
      <4> SUFFICES ASSUME b \notin Dirty
                   PROVE  blocks[b].data = disk[b]
        OBVIOUS
      <4>1. ~blocks[b].dirty
        BY <1>1 DEF Dirty, CachedBlocks
      <4>2. holders[b] = {c}
        <5>1. /\ blocks[b].refcnt = Cardinality(holders[b])
              /\ IsFiniteSet(holders[b]) /\ Cardinality(holders[b]) \in 0 .. RefMax
          BY <1>1, FiniteHolders DEF RefcntExact
        <5>2. Cardinality(holders[b]) = 0 \/ Cardinality(holders[b]) = 1
          BY <2>1, <5>1, ClientsAssumption DEF Decr
        <5> QED
          BY <1>1, <5>1, <5>2, FS_EmptySet, FS_Singleton
      <4>3. wrote[b] = {}
        BY <1>1, <4>1, <4>2 DEF UnrefBlock, DownIsEmpty, CleanMatchesDisk, CachedBlocks
      <4> QED
        BY <1>1, <4>1, <4>3 DEF CleanMatchesDisk, CachedBlocks
    <3> QED
      BY <3>2, <3>3, <3>4
  <2>2. CASE ~release
    <3>1. blocks' = [blocks EXCEPT ![b] = [blocks[b] EXCEPT !.refcnt = n]] /\ disk' = disk
      BY <1>2, <2>2 DEF Drop
    <3>2. n \in 0 .. RefMax
      BY <1>1, ClientsAssumption DEF Decr, Data
    <3> HIDE DEF n, release
    <3>3. blocks'[b] = [blocks[b] EXCEPT !.refcnt = n]
      BY <3>1 DEF TypeOK
    <3>4. blocks'[b] \in Data /\ blocks'[b].data = blocks[b].data
      BY <1>1, <3>2, <3>3 DEF Data
    <3> QED
      BY <1>1, <3>1, <3>4, SentinelAssumption DEF Stored, Loaded, Cached
  <2> QED
    BY <2>1, <2>2
<1>5. \A x \in Blocks : Pending(x)' <=> Pending(x)
  BY DEF UnrefBlock, Forget, Pending, TypeOK
<1>6. live \in SUBSET Blocks
  BY DEF TypeOK
<1> QED
  BY <1>2, <1>3, <1>4, <1>5, <1>6, WriteBackView

LEMMA FlushView ==
    ASSUME IndInv, Flush
    PROVE  Store!SWriteBack
<1> USE DEF IndInv
<1> DEFINE W == Idle \cap Dirty
<1>1. /\ disk' = [b \in Blocks |-> IF b \in W THEN blocks[b].data ELSE disk[b]]
      /\ blocks' = [b \in Blocks |-> IF b \in W THEN [blocks[b] EXCEPT !.dirty = FALSE]
                                                ELSE blocks[b]]
      /\ UNCHANGED <<wrote, declared, live, intact>>
  BY DEF Flush, WriteBack, callerVars, ownerVars
<1>2. \A b \in W : b \in Blocks /\ blocks[b] \in Data /\ blocks[b] # NoData
  BY DEF Idle, CachedBlocks, Cached, TypeOK
<1> HIDE DEF W
<1>3. ASSUME NEW b \in Blocks
      PROVE  Stored(b)' = Stored(b) /\ disk'[b] \in {disk[b], Stored(b)}
  <2>1. CASE b \in W
    <3>1. blocks'[b] = [blocks[b] EXCEPT !.dirty = FALSE] /\ disk'[b] = blocks[b].data
      BY <1>1, <2>1
    <3>2. blocks'[b] \in Data /\ blocks'[b].data = blocks[b].data
      BY <1>2, <2>1, <3>1 DEF Data
    <3> QED
      BY <1>2, <2>1, <3>1, <3>2, SentinelAssumption DEF Stored, Loaded, Cached
  <2>2. CASE b \notin W
    BY <1>1, <2>2 DEF Stored, Loaded, Cached
  <2> QED
    BY <2>1, <2>2
<1>4. live \in SUBSET Blocks /\ \A b \in Blocks : Pending(b)' <=> Pending(b)
  BY <1>1 DEF TypeOK, Pending
<1> QED
  BY <1>1, <1>3, <1>4, WriteBackView

\* free_block of an owned block releases it; freeing one a second time finds
\* its mark and changes nothing.
LEMMA FreeBlockView ==
    ASSUME IndInv, NEW c \in Clients, NEW b \in Blocks, FreeBlock(c, b)
    PROVE  Store!SRelease(b) \/ Store!SWriteBack
<1> USE DEF IndInv
<1> DEFINE data == Loaded(b).data
           mark == [next |-> sb.head, version |-> sb.version]
           d == [dirty |-> TRUE, refcnt |-> 0, data |-> IF IsFree(data) THEN data ELSE mark]
<1>1. Up /\ InRange(b) /\ b \in live \cup FreedSet /\ holders[b] \subseteq {c}
  BY OwnedInRange DEF FreeBlock
<1>2. /\ sb' = IF IsFree(data) THEN sb ELSE [sb EXCEPT !.head = b]
      /\ live' = live \ {b} /\ intact' = (intact /\ sb' = sb)
      /\ wrote' = [wrote EXCEPT ![b] = @ \ {c}]
      /\ declared' = [declared EXCEPT ![b] = @ \ {c}]
  BY <1>1 DEF FreeBlock, Push, Forget
<1>3. PICK victim \in Evictions(b) : Place(b, victim, d)
  BY <1>1 DEF FreeBlock, Push
<1>4. /\ sb \in SuperBlock /\ data \in Content /\ Stored(b) = data
      /\ Describes(sb, [x \in Blocks |-> Stored(x)]) /\ freed \in Seq(Blocks)
      /\ live \in SUBSET Blocks
  BY <1>1, LoadedType DEF TypeOK, Up, Data, FreeListSound
<1>5. d \in Data
  <2>1. mark \in FreeMark
    BY <1>4 DEF SuperBlock, FreeMark
  <2>2. (IF IsFree(data) THEN data ELSE mark) \in Content
    BY <1>4, <2>1 DEF Content
  <2> QED
    BY <2>2, ClientsAssumption DEF Data
<1>6. /\ blocks'[b] = d /\ disk'[b] = disk[b]
      /\ \A x \in Blocks \ {b} : Stored(x)' = Stored(x) /\ disk'[x] \in {disk[x], Stored(x)}
  <2> HIDE DEF d
  <2> QED
    BY <1>3, <1>5, PlaceFacts
<1>7. \A x \in Blocks \ {b} : Pending(x)' <=> Pending(x)
  BY <1>2 DEF Pending, TypeOK
<1>8. CASE b \in live
  <2>1. ~IsFree(data)
    BY <1>1, <1>4, <1>8, ContentAssumption DEF LiveHoldsData, IsFree
  <2>2. sb.head # b
    <3>1. sb.head = Null \/ sb.head \in FreedSet
      BY <1>1, HeadOfList
    <3> QED
      BY <1>4, <1>8, <3>1 DEF Describes, Blocks
  <2>3. [sb EXCEPT !.head = b].head = b
    BY <1>4 DEF SuperBlock
  <2>4. sb' # sb
    BY <1>2, <2>1, <2>2, <2>3
  <2>5. intact' = FALSE
    BY <1>2, <2>4
  <2>6. {x \in live : Pending(x)}' = {x \in live : Pending(x)} \ {b}
    BY <1>2, <1>4, <1>7
  <2> QED
    BY <1>2, <1>4, <1>6, <1>8, <2>5, <2>6 DEF Store!SRelease
<1>9. CASE b \notin live
  <2>1. live' = live
    BY <1>2, <1>9
  <2>2. IsFree(data)
    <3>1. PICK i \in 1 .. Len(freed) : b = freed[i]
      BY <1>1, <1>9 DEF FreedSet
    <3>2. [x \in Blocks |-> Stored(x)][freed[i]] =
             [next |-> IF i = 1 THEN Null ELSE freed[i - 1], version |-> sb.version]
      BY <1>4 DEF Describes
    <3>3. Stored(b) = [next |-> IF i = 1 THEN Null ELSE freed[i - 1], version |-> sb.version]
      BY <3>1, <3>2
    <3>4. i = 1 \/ freed[i - 1] \in Blocks
      <4>1. Len(freed) \in Nat
        BY <1>4
      <4>2. i # 1 => i - 1 \in 1 .. Len(freed)
        BY <4>1
      <4> QED
        BY <1>4, <4>2
    <3>5. sb.version \in Versions
      BY <1>4 DEF SuperBlock
    <3>6. Stored(b) \in FreeMark
      BY <3>3, <3>4, <3>5 DEF FreeMark
    <3> QED
      BY <1>4, <3>3, <3>6 DEF IsFree
  <2>3. intact' = intact
    BY <1>2, <2>2 DEF TypeOK
  <2>4. Store!SWriteBack
    BY <1>4, <1>6, <1>7, <1>9, <2>1, <2>3, WriteBackView
  <2> QED
    BY <2>4
<1> QED
  BY <1>8, <1>9

\* A shutdown keeps every block but those with an undeclared change.
LEMMA ShutdownView ==
    ASSUME IndInv, Shutdown
    PROVE  Store!SShutdown
<1> USE DEF IndInv
<1>1. /\ disk' = WriteBack(Dirty) /\ Gone /\ intact' = TRUE /\ live' = live
      /\ live \in SUBSET Blocks
  BY DEF Shutdown, TypeOK
<1>2. \A b \in Blocks : Stored(b)' = disk'[b] /\ ~Pending(b)'
  BY <1>1 DEF Gone, Stored, Loaded, Cached, Pending
<1>3. \A b \in Blocks : disk'[b] = IF b \in Dirty THEN Stored(b) ELSE disk[b]
  BY <1>1 DEF WriteBack, Dirty, CachedBlocks, Stored, Loaded
<1>4. ASSUME NEW b \in live, ~Pending(b)
      PROVE  disk'[b] = Stored(b)
  <2>1. CASE b \in Dirty
    BY <1>1, <1>3, <2>1
  <2>2. CASE ~Cached(b)
    BY <1>1, <1>3, <2>2 DEF Stored, Loaded, Dirty, CachedBlocks
  <2>3. CASE Cached(b) /\ b \notin Dirty
    <3>1. b \in CachedBlocks /\ ~blocks[b].dirty
      BY <1>1, <2>3 DEF Dirty, CachedBlocks
    <3>2. declared[b] = {}
      BY <3>1 DEF CleanMatchesDisk
    <3>3. wrote[b] = {}
      BY <1>4, <3>2 DEF Pending
    <3>4. blocks[b].data = disk[b]
      BY <3>1, <3>3 DEF CleanMatchesDisk
    <3> QED
      BY <1>1, <1>3, <2>3, <3>4 DEF Stored, Loaded
  <2> QED
    BY <2>1, <2>2, <2>3
<1> QED
  BY <1>1, <1>2, <1>3, <1>4 DEF Store!SShutdown, Store!Mixed

\* A crash costs the updates not written back, or all if blocks were moved.
LEMMA CrashView ==
    ASSUME IndInv, NEW W \in SUBSET Dirty, Crash(W)
    PROVE  Store!SCrash \/ Store!SWipe
<1> USE DEF IndInv
<1>1. /\ disk' = WriteBack(W) /\ Gone /\ intact' = intact
      /\ live' = IF intact THEN live ELSE {}
      /\ live \in SUBSET Blocks /\ intact \in BOOLEAN
  BY DEF Crash, TypeOK
<1>2. \A b \in Blocks : Stored(b)' = disk'[b] /\ ~Pending(b)'
  BY <1>1 DEF Gone, Stored, Loaded, Cached, Pending
<1>3. \A b \in Blocks : disk'[b] \in {disk[b], Stored(b)}
  BY <1>1 DEF WriteBack, Dirty, CachedBlocks, Stored, Loaded
<1>4. CASE intact
  BY <1>1, <1>2, <1>3, <1>4 DEF Store!SCrash, Store!Mixed
<1>5. CASE ~intact
  BY <1>1, <1>5 DEF Store!SWipe
<1> QED
  BY <1>4, <1>5

LEMMA FormatView == ASSUME IndInv, NEW version \in Versions, Format(version) PROVE Store!SWipe
<1>1. live' = {} /\ intact' \in BOOLEAN
  BY DEF Format
<1> QED
  BY <1>1 DEF Store!SWipe

LEMMA ReopenView == ASSUME IndInv, Reopen PROVE UNCHANGED Store!svars
<1>1. UNCHANGED <<disk, blocks, wrote, declared, live, intact>>
  BY DEF Reopen, diskVars, callerVars, ownerVars
<1>2. \A b \in Blocks : Stored(b)' = Stored(b) /\ (Pending(b)' <=> Pending(b))
  BY <1>1 DEF Stored, Loaded, Cached, Pending
<1> QED
  BY <1>1, <1>2 DEF Store!svars, IndInv, TypeOK

LEMMA AllocateFullView ==
    ASSUME IndInv, AllocateFull
    PROVE  Store!SExhaust \/ UNCHANGED Store!svars
<1>1. UNCHANGED <<disk, blocks, wrote, declared, live>> /\ intact' = (intact /\ sb' = sb)
  BY DEF AllocateFull, diskVars, callerVars
<1>2. \A b \in Blocks : Stored(b)' = Stored(b) /\ (Pending(b)' <=> Pending(b))
  BY <1>1 DEF Stored, Loaded, Cached, Pending
<1>3. live \in SUBSET Blocks /\ intact \in BOOLEAN
  BY DEF IndInv, TypeOK
<1>4. /\ [b \in live |-> Stored(b)]' = [b \in live |-> Stored(b)]
      /\ [b \in live |-> disk[b]]' = [b \in live |-> disk[b]]
      /\ {b \in live : Pending(b)}' = {b \in live : Pending(b)}
  BY <1>1, <1>2, <1>3
<1>5. intact' = FALSE \/ intact' = intact
  BY <1>1, <1>3
<1> QED
  BY <1>4, <1>5 DEF Store!SExhaust, Store!svars

LEMMA StutterView == ASSUME IndInv, UNCHANGED vars PROVE UNCHANGED Store!svars
<1>1. UNCHANGED <<disk, blocks, wrote, declared, live, intact>>
  BY DEF vars, mgrVars, diskVars, callerVars, ownerVars
<1>2. \A b \in Blocks : Stored(b)' = Stored(b) /\ (Pending(b)' <=> Pending(b))
  BY <1>1 DEF Stored, Loaded, Cached, Pending
<1> QED
  BY <1>1, <1>2 DEF Store!svars, IndInv, TypeOK

LEMMA InitView == Init => Store!SInit
BY DEF Init, Store!SInit

LEMMA NextView == IndInv /\ IndInv' /\ [Next]_vars => [Store!SNext]_(Store!svars)
<1> SUFFICES ASSUME IndInv, IndInv', Next
             PROVE  Store!SNext \/ UNCHANGED Store!svars
  BY StutterView
<1>1. CASE \E version \in Versions : Format(version)
  BY <1>1, FormatView DEF Store!SNext
<1>2. CASE Reopen
  BY <1>2, ReopenView
<1>3. ASSUME NEW c \in Clients, NEW b \in Blocks, Load(c, b) \/ UnrefBlock(c, b)
      PROVE  Store!SNext
  BY <1>3, LoadView, UnrefView DEF Store!SNext
<1>4. ASSUME NEW c \in Clients, NEW b \in Blocks, Dirtify(c, b)
      PROVE  Store!SNext
  BY <1>4, DirtifyView DEF Store!SNext
<1>5. ASSUME NEW c \in Clients, NEW b \in Blocks, FreeBlock(c, b)
      PROVE  Store!SNext
  BY <1>5, FreeBlockView DEF Store!SNext
<1>6. ASSUME NEW c \in Clients, NEW b \in Blocks, NEW v \in Values, Write(c, b, v)
      PROVE  Store!SNext
  BY <1>6, WriteView DEF Store!SNext
<1>7. ASSUME NEW c \in Clients, AllocateNew(c) \/ AllocateFreed(c)
      PROVE  Store!SNext
  BY <1>7, AllocateView DEF Store!SNext
<1>8. CASE AllocateFull
  BY <1>8, AllocateFullView DEF Store!SNext
<1>9. CASE Flush
  BY <1>9, FlushView DEF Store!SNext
<1>10. CASE Shutdown
  BY <1>10, ShutdownView DEF Store!SNext
<1>11. CASE \E W \in SUBSET Dirty : Crash(W)
  BY <1>11, CrashView DEF Store!SNext
<1> QED
  BY <1>1, <1>2, <1>3, <1>4, <1>5, <1>6, <1>7, <1>8, <1>9, <1>10, <1>11 DEF Next

\* Behind cache, evictions, flushes, free list, shutdowns and crashes, callers
\* see the abstract store of blocks.
THEOREM StoreImplemented == Spec => ImplementsStore
<1>1. Init => Store!SInit
  BY InitView
<1>2. IndInv /\ IndInv' /\ [Next]_vars => [Store!SNext]_(Store!svars)
  BY NextView
<1>3. ImplementsStore <=> Store!SInit /\ [][Store!SNext]_(Store!svars)
  BY DEF ImplementsStore, Store!SSpec
<1> QED
  BY <1>1, <1>2, <1>3, Invariance, PTL DEF Spec
=============================================================================
