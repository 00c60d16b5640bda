-------------------------- MODULE DirectoryProofs --------------------------
(***************************************************************************)
(* For every set of names and inodes and every length of the vector: the   *)
(* names of a directory are unique, lookup(inode) never answers with the   *)
(* name of a deleted file, and a failed save loses only new names.         *)
(*                                                                         *)
(* What makes it true is the position of the deleted slots: an inode that  *)
(* a live entry and a deleted one both carry is in the live one first,     *)
(* because add_entry takes the first deleted slot there is (Sound).        *)
(***************************************************************************)
EXTENDS Directory, WellFoundedInduction, TLAPS

\* What every vector of entries, in memory or saved, satisfies.
Sound(es) ==
    /\ es \in Seq(Entry)
    /\ \A i, j \in LiveSlots(es) : es[i].name = es[j].name => i = j
    /\ \A i, j \in LiveSlots(es) :
          es[i].inode = es[j].inode /\ es[i].inode \in Inodes => i = j
    /\ \A i \in LiveSlots(es), j \in FreeSlots(es) :
          es[i].inode = es[j].inode /\ es[i].inode \in Inodes => i < j

\* Entries not made since the directory was opened are in slots the file has.
OldInFile(es, f, new) ==
    \A i \in LiveSlots(es) : es[i].inode \in Inodes \ new => i <= Len(f)

IndInv ==
    /\ Sound(entries)
    /\ Sound(file)
    /\ isOpen \in BOOLEAN
    /\ added \in SUBSET Inodes
    /\ isOpen => Len(file) <= Len(entries) /\ OldInFile(entries, file, added)

-----------------------------------------------------------------------------
(* Operators *)

\* First picks the least element of a set of slots.
LEMMA FirstIsLeast ==
    ASSUME NEW n \in Nat, NEW S \in SUBSET (1 .. n), S # {}
    PROVE  First(S) \in S /\ \A j \in S : First(S) <= j
<1> DEFINE Less == OpToRel(<, Nat)
<1>1. S \subseteq Nat
  OBVIOUS
<1>2. \E i \in S : \A j \in S : <<j, i>> \notin Less
  BY <1>1, NatLessThanWellFounded, WFMin, Zenon
<1>3. \A i, j \in Nat : j < i => <<j, i>> \in Less
  BY Zenon DEF OpToRel
<1> HIDE DEF Less
<1>4. PICK i \in S : \A j \in S : ~ (j < i)
  BY <1>1, <1>2, <1>3, Zenon
<1>5. \A j \in S : i <= j
  BY <1>1, <1>4
<1> QED
  BY <1>5 DEF First

\* The components of an entry.
LEMMA EntryFields ==
    ASSUME NEW es \in Seq(Entry), NEW i \in Slots(es)
    PROVE  /\ es[i] \in Entry
           /\ es[i].live \in BOOLEAN
           /\ es[i].name \in Names \cup {Empty}
           /\ es[i].inode \in Inodes \cup {Self, Parent}
<1>1. es[i] \in Entry
  BY DEF Slots
<1> QED
  BY <1>1 DEF Entry

\* lookup answers NoInode exactly when no live entry has the name, and
\* otherwise with the inode of a live entry that has it.
LEMMA LookupFinds ==
    ASSUME NEW es \in Seq(Entry), NEW name
    PROVE  /\ Lookup(es, name) = NoInode <=> Matches(es, name) = {}
           /\ Matches(es, name) # {} =>
                 /\ First(Matches(es, name)) \in LiveSlots(es)
                 /\ es[First(Matches(es, name))].name = name
                 /\ es[First(Matches(es, name))].inode = Lookup(es, name)
<1>1. CASE Matches(es, name) = {}
  BY <1>1 DEF Lookup
<1>2. CASE Matches(es, name) # {}
  <2>1. Matches(es, name) \in SUBSET (1 .. Len(es)) /\ Len(es) \in Nat
    BY DEF Matches, LiveSlots, Slots
  <2>2. First(Matches(es, name)) \in Matches(es, name)
    BY <1>2, <2>1, FirstIsLeast
  <2>3. First(Matches(es, name)) \in LiveSlots(es)
        /\ es[First(Matches(es, name))].name = name
    BY <2>2 DEF Matches
  <2>4. es[First(Matches(es, name))].inode = Lookup(es, name)
    BY <1>2 DEF Lookup
  <2>5. es[First(Matches(es, name))].inode # NoInode
    BY <2>3, EntryFields, InodesAssumption DEF LiveSlots
  <2> QED
    BY <1>2, <2>3, <2>4, <2>5
<1> QED
  BY <1>1, <1>2

\* Removing a name frees its slot and changes nothing else.
LEMMA RemovedSlots ==
    ASSUME NEW es \in Seq(Entry), NEW name, Matches(es, name) # {}
    PROVE  LET m == First(Matches(es, name)) IN
           /\ Removed(es, name) \in Seq(Entry)
           /\ Slots(Removed(es, name)) = Slots(es)
           /\ Len(Removed(es, name)) = Len(es)
           /\ m \in FreeSlots(Removed(es, name))
           /\ LiveSlots(Removed(es, name)) = LiveSlots(es) \ {m}
           /\ \A i \in Slots(es) :
                 /\ Removed(es, name)[i].name = es[i].name
                 /\ Removed(es, name)[i].inode = es[i].inode
<1> DEFINE m == First(Matches(es, name))
           r == [es EXCEPT ![m].live = FALSE]
<1>1. m \in LiveSlots(es)
  BY LookupFinds
<1>2. m \in Slots(es) /\ es[m].live
  BY <1>1 DEF LiveSlots
<1>3. Removed(es, name) = r
  BY DEF Removed
<1>4. \A i \in Slots(es) : r[i] = IF i = m THEN [es[m] EXCEPT !.live = FALSE] ELSE es[i]
  BY <1>2 DEF Slots
<1>5. [es[m] EXCEPT !.live = FALSE] \in Entry
  BY <1>2, EntryFields DEF Entry
<1>6. \A i \in Slots(es) : r[i] \in Entry
  BY <1>4, <1>5, EntryFields
<1>7. r \in Seq(Entry) /\ Len(r) = Len(es)
  BY <1>2, <1>5 DEF Slots
<1>8. \A i \in Slots(es) :
         /\ r[i].name = es[i].name
         /\ r[i].inode = es[i].inode
         /\ r[i].live <=> (es[i].live /\ i # m)
  <2> SUFFICES ASSUME NEW i \in Slots(es)
               PROVE  /\ r[i].name = es[i].name
                      /\ r[i].inode = es[i].inode
                      /\ r[i].live <=> (es[i].live /\ i # m)
    OBVIOUS
  <2> HIDE DEF r, m
  <2>1. CASE i = m
    <3>1. r[i] = [es[m] EXCEPT !.live = FALSE]
      BY <1>4, <2>1
    <3>2. es[m] \in Entry
      BY <1>2, EntryFields
    <3> QED
      BY <2>1, <3>1, <3>2 DEF Entry
  <2>2. CASE i # m
    BY <2>2, <1>4
  <2> QED
    BY <2>1, <2>2
<1>9. Slots(r) = Slots(es)
  BY <1>7 DEF Slots
<1> HIDE DEF r, m
<1>10. LiveSlots(r) = LiveSlots(es) \ {m} /\ m \in FreeSlots(r)
  BY <1>8, <1>9, <1>2 DEF LiveSlots, FreeSlots
<1> QED
  BY <1>3, <1>7, <1>8, <1>9, <1>10 DEF m

\* Adding an entry fills the first deleted slot, or one more slot at the end,
\* and changes nothing else.
LEMMA AddedSlots ==
    ASSUME NEW es \in Seq(Entry), NEW name \in Names,
           NEW x \in Inodes \cup {Self, Parent}
    PROVE  LET a == Added(es, name, x) IN
           /\ a \in Seq(Entry)
           /\ Len(es) <= Len(a)
           /\ \E k \in Slots(a) :
                 /\ k \notin LiveSlots(es)
                 /\ \A j \in FreeSlots(es) : k <= j
                 /\ a[k].name = name /\ a[k].inode = x
                 /\ LiveSlots(a) = LiveSlots(es) \cup {k}
                 /\ FreeSlots(a) = FreeSlots(es) \ {k}
                 /\ \A i \in Slots(a) \ {k} : i \in Slots(es) /\ a[i] = es[i]
<1> DEFINE a == Added(es, name, x)
           rec == Record(name, x)
<1>1. rec \in Entry /\ rec.live /\ rec.name = name /\ rec.inode = x
  BY NamesAssumption DEF Record, Entry
<1>2. CASE FreeSlots(es) # {}
  <2> DEFINE k == First(FreeSlots(es))
  <2>1. FreeSlots(es) \in SUBSET (1 .. Len(es)) /\ Len(es) \in Nat
    BY DEF FreeSlots, LiveSlots, Slots
  <2>2. k \in FreeSlots(es) /\ \A j \in FreeSlots(es) : k <= j
    BY <1>2, <2>1, FirstIsLeast
  <2>3. k \in Slots(es) /\ k \notin LiveSlots(es)
    BY <2>2 DEF FreeSlots
  <2> HIDE DEF k, rec
  <2>4. a = [es EXCEPT ![k] = rec]
    BY <1>2 DEF Added, k, rec
  <2>5. a \in Seq(Entry) /\ Len(a) = Len(es)
    BY <2>4, <2>3, <1>1 DEF Slots
  <2>6. \A i \in Slots(es) : a[i] = IF i = k THEN rec ELSE es[i]
    BY <2>4, <2>3 DEF Slots
  <2>7. Slots(a) = Slots(es)
    BY <2>5 DEF Slots
  <2> HIDE DEF a
  <2>8. LiveSlots(a) = LiveSlots(es) \cup {k} /\ FreeSlots(a) = FreeSlots(es) \ {k}
    BY <2>6, <2>7, <2>3, <1>1 DEF LiveSlots, FreeSlots
  <2>9. /\ a[k].name = name /\ a[k].inode = x
        /\ \A i \in Slots(a) \ {k} : i \in Slots(es) /\ a[i] = es[i]
    BY <2>6, <2>7, <2>3, <1>1
  <2> QED
    BY <2>2, <2>3, <2>5, <2>7, <2>8, <2>9 DEF a
<1>3. CASE FreeSlots(es) = {}
  <2> DEFINE k == Len(es) + 1
  <2> HIDE DEF rec
  <2>1. a = Append(es, rec)
    BY <1>3 DEF Added, rec
  <2>2. a \in Seq(Entry) /\ Len(a) = k
    BY <2>1, <1>1
  <2>3. Slots(a) = Slots(es) \cup {k} /\ k \notin Slots(es) /\ k \in Slots(a)
    BY <2>2 DEF Slots
  <2>4. a[k] = rec /\ \A i \in Slots(es) : a[i] = es[i]
    BY <2>1, <1>1 DEF Slots
  <2> HIDE DEF a, k
  <2>5. LiveSlots(a) = LiveSlots(es) \cup {k} /\ FreeSlots(a) = FreeSlots(es) \ {k}
    BY <2>3, <2>4, <1>1 DEF LiveSlots, FreeSlots
  <2>6. k \notin LiveSlots(es) /\ \A i \in Slots(a) \ {k} : i \in Slots(es)
    BY <2>3 DEF LiveSlots
  <2>7. Len(es) <= Len(a)
    BY <2>2 DEF k
  <2> QED
    BY <1>3, <1>1, <2>2, <2>3, <2>4, <2>5, <2>6, <2>7 DEF a
<1> QED
  BY <1>2, <1>3

\* Adding an empty name to a vector with a deleted slot changes no live entry:
\* it only leaves its inode in a deleted one.
LEMMA EmptyAdded ==
    ASSUME NEW es \in Seq(Entry), NEW x \in Inodes \cup {Self, Parent},
           FreeSlots(es) # {}
    PROVE  LET a == Added(es, Empty, x) IN
           /\ a \in Seq(Entry)
           /\ Len(a) = Len(es)
           /\ LiveSlots(a) = LiveSlots(es)
           /\ FreeSlots(a) = FreeSlots(es)
           /\ \A i \in LiveSlots(es) : a[i] = es[i]
           /\ \A i \in FreeSlots(es) : a[i].inode = x \/ a[i] = es[i]
<1> DEFINE a == Added(es, Empty, x)
           rec == Record(Empty, x)
           k == First(FreeSlots(es))
<1>1. rec \in Entry /\ ~ rec.live /\ rec.inode = x
  BY DEF Record, Entry
<1>2. FreeSlots(es) \in SUBSET (1 .. Len(es)) /\ Len(es) \in Nat
  BY DEF FreeSlots, LiveSlots, Slots
<1>3. k \in FreeSlots(es)
  BY <1>2, FirstIsLeast
<1>4. k \in Slots(es) /\ k \notin LiveSlots(es)
  BY <1>3 DEF FreeSlots
<1> HIDE DEF k, rec
<1>5. a = [es EXCEPT ![k] = rec]
  BY DEF Added, k, rec
<1>6. a \in Seq(Entry) /\ Len(a) = Len(es)
  BY <1>5, <1>4, <1>1 DEF Slots
<1>7. \A i \in Slots(es) : a[i] = IF i = k THEN rec ELSE es[i]
  BY <1>5, <1>4 DEF Slots
<1>8. Slots(a) = Slots(es)
  BY <1>6 DEF Slots
<1> HIDE DEF a
<1>9. LiveSlots(a) = LiveSlots(es) /\ FreeSlots(a) = FreeSlots(es)
  BY <1>7, <1>8, <1>4, <1>1 DEF LiveSlots, FreeSlots
<1>10. /\ \A i \in LiveSlots(es) : i \in Slots(es) /\ i # k
       /\ \A i \in FreeSlots(es) : i \in Slots(es)
  BY <1>4 DEF LiveSlots, FreeSlots
<1> QED
  BY <1>1, <1>6, <1>7, <1>9, <1>10 DEF a

-----------------------------------------------------------------------------
(* Sound is kept by what the operations do to the vector. *)

LEMMA RemovedSound ==
    ASSUME NEW es, Sound(es), NEW name, Matches(es, name) # {}
    PROVE  Sound(Removed(es, name))
<1> DEFINE m == First(Matches(es, name))
           r == Removed(es, name)
<1>1. es \in Seq(Entry)
  BY DEF Sound
<1>2. m \in LiveSlots(es)
  BY <1>1, LookupFinds
<1>3. /\ r \in Seq(Entry)
      /\ Slots(r) = Slots(es)
      /\ LiveSlots(r) = LiveSlots(es) \ {m}
      /\ \A i \in Slots(es) : r[i].name = es[i].name /\ r[i].inode = es[i].inode
  BY <1>1, RemovedSlots
<1>4. /\ LiveSlots(es) \subseteq Slots(es) /\ LiveSlots(r) \subseteq LiveSlots(es)
      /\ FreeSlots(r) = FreeSlots(es) \cup {m}
      /\ FreeSlots(es) \subseteq Slots(es)
  BY <1>2, <1>3 DEF LiveSlots, FreeSlots
<1> HIDE DEF m, r
<1>5. \A i, j \in LiveSlots(r) : r[i].name = r[j].name => i = j
  BY <1>3, <1>4 DEF Sound
<1>6. \A i, j \in LiveSlots(r) :
         r[i].inode = r[j].inode /\ r[i].inode \in Inodes => i = j
  BY <1>3, <1>4 DEF Sound
<1>7. \A i \in LiveSlots(r), j \in FreeSlots(r) :
         r[i].inode = r[j].inode /\ r[i].inode \in Inodes => i < j
  <2> SUFFICES ASSUME NEW i \in LiveSlots(r), NEW j \in FreeSlots(r),
                      r[i].inode = r[j].inode, r[i].inode \in Inodes
               PROVE  i < j
    OBVIOUS
  <2>1. i \in LiveSlots(es) /\ i # m /\ i \in Slots(es) /\ j \in Slots(es)
    BY <1>2, <1>3, <1>4
  <2>2. es[i].inode = es[j].inode /\ es[i].inode \in Inodes
    BY <1>3, <2>1
  <2>3. CASE j = m
    BY <1>2, <2>1, <2>2, <2>3 DEF Sound
  <2>4. CASE j \in FreeSlots(es)
    BY <2>1, <2>2, <2>4 DEF Sound
  <2> QED
    BY <1>4, <2>3, <2>4
<1> QED
  BY <1>3, <1>5, <1>6, <1>7 DEF Sound, r

LEMMA AddedSound ==
    ASSUME NEW es, Sound(es), NEW name \in Names, Matches(es, name) = {},
           NEW x \in Inodes \cup {Self, Parent}, x \in Inodes => x \notin Live(es)
    PROVE  Sound(Added(es, name, x))
<1> DEFINE a == Added(es, name, x)
<1>1. es \in Seq(Entry)
  BY DEF Sound
<1>2. a \in Seq(Entry)
  BY <1>1, AddedSlots
<1>3. PICK k \in Slots(a) :
         /\ k \notin LiveSlots(es)
         /\ \A j \in FreeSlots(es) : k <= j
         /\ a[k].name = name /\ a[k].inode = x
         /\ LiveSlots(a) = LiveSlots(es) \cup {k}
         /\ FreeSlots(a) = FreeSlots(es) \ {k}
         /\ \A i \in Slots(a) \ {k} : i \in Slots(es) /\ a[i] = es[i]
  BY <1>1, AddedSlots
<1>4. \A i \in LiveSlots(es) : es[i].name # name /\ (x \in Inodes => es[i].inode # x)
  BY DEF Matches, Live
<1>5. /\ LiveSlots(a) \subseteq Slots(a) /\ FreeSlots(a) \subseteq Slots(a)
      /\ LiveSlots(es) \subseteq Slots(es) /\ FreeSlots(es) \subseteq Slots(es)
  BY DEF LiveSlots, FreeSlots
<1>6. \A i \in LiveSlots(es) \cup FreeSlots(a) : i # k /\ a[i] = es[i]
  BY <1>3, <1>5
<1> HIDE DEF a
<1>7. \A i, j \in LiveSlots(a) : a[i].name = a[j].name => i = j
  BY <1>3, <1>4, <1>6 DEF Sound
<1>8. \A i, j \in LiveSlots(a) :
         a[i].inode = a[j].inode /\ a[i].inode \in Inodes => i = j
  BY <1>3, <1>4, <1>6 DEF Sound
<1>9. \A i \in LiveSlots(a), j \in FreeSlots(a) :
         a[i].inode = a[j].inode /\ a[i].inode \in Inodes => i < j
  <2> SUFFICES ASSUME NEW i \in LiveSlots(a), NEW j \in FreeSlots(a),
                      a[i].inode = a[j].inode, a[i].inode \in Inodes
               PROVE  i < j
    OBVIOUS
  <2>1. j \in FreeSlots(es) /\ j # k /\ a[j] = es[j]
    BY <1>3, <1>6
  <2>2. CASE i = k
    <3>1. k \in Nat /\ j \in Nat /\ k <= j
      BY <1>2, <1>3, <1>5, <2>1 DEF Slots
    <3> QED
      BY <2>1, <2>2, <3>1
  <2>3. CASE i \in LiveSlots(es)
    BY <1>6, <2>1, <2>3 DEF Sound
  <2> QED
    BY <1>3, <2>2, <2>3
<1> QED
  BY <1>2, <1>7, <1>8, <1>9 DEF Sound, a

LEMMA EmptySound ==
    ASSUME NEW es, Sound(es), FreeSlots(es) # {},
           NEW x \in Inodes \cup {Self, Parent}, x \in Inodes => x \notin Live(es)
    PROVE  Sound(Added(es, Empty, x))
<1> DEFINE a == Added(es, Empty, x)
<1>1. es \in Seq(Entry)
  BY DEF Sound
<1>2. /\ a \in Seq(Entry)
      /\ LiveSlots(a) = LiveSlots(es) /\ FreeSlots(a) = FreeSlots(es)
      /\ \A i \in LiveSlots(es) : a[i] = es[i]
      /\ \A i \in FreeSlots(es) : a[i].inode = x \/ a[i] = es[i]
  BY <1>1, EmptyAdded
<1>3. \A i \in LiveSlots(es) : es[i].inode = x => x \notin Inodes
  BY DEF Live
<1> HIDE DEF a
<1>4. \A i, j \in LiveSlots(a) : a[i].name = a[j].name => i = j
  BY <1>2 DEF Sound
<1>5. \A i, j \in LiveSlots(a) :
         a[i].inode = a[j].inode /\ a[i].inode \in Inodes => i = j
  BY <1>2 DEF Sound
<1>6. \A i \in LiveSlots(a), j \in FreeSlots(a) :
         a[i].inode = a[j].inode /\ a[i].inode \in Inodes => i < j
  BY <1>2, <1>3 DEF Sound
<1> QED
  BY <1>2, <1>4, <1>5, <1>6 DEF Sound, a

\* What a save writes of a sound vector is sound.
LEMMA PrefixSound ==
    ASSUME NEW es, Sound(es), NEW n \in 0 .. Len(es)
    PROVE  /\ Sound(SubSeq(es, 1, n))
           /\ Len(SubSeq(es, 1, n)) = n
           /\ \A i \in 1 .. n : SubSeq(es, 1, n)[i] = es[i]
<1> DEFINE p == SubSeq(es, 1, n)
<1>1. es \in Seq(Entry)
  BY DEF Sound
<1>2. p \in Seq(Entry) /\ Len(p) = n /\ \A i \in 1 .. n : p[i] = es[i]
  BY <1>1
<1> HIDE DEF p
<1>3. Slots(p) = 1 .. n /\ Slots(p) \subseteq Slots(es)
  BY <1>1, <1>2 DEF Slots
<1>4. LiveSlots(p) \subseteq LiveSlots(es) /\ FreeSlots(p) \subseteq FreeSlots(es)
  BY <1>2, <1>3 DEF LiveSlots, FreeSlots
<1>5. LiveSlots(p) \subseteq 1 .. n /\ FreeSlots(p) \subseteq 1 .. n
  BY <1>3 DEF LiveSlots, FreeSlots
<1>6. Sound(p)
  BY <1>2, <1>4, <1>5 DEF Sound
<1> QED
  BY <1>2, <1>6 DEF p

\* An entry's inode is its own; the removed slot precedes the one an added
\* entry takes only if that is the same slot.
LEMMA RenamedSound ==
    ASSUME NEW es, Sound(es), NEW old, NEW new \in Names \cup {Empty},
           Matches(es, old) # {}, Matches(es, new) = {}
    PROVE  LET r == Removed(es, old)
               x == Lookup(es, old)
           IN  /\ Sound(Added(r, new, x))
               /\ x \in Inodes \cup {Self, Parent}
               /\ x \in Inodes => x \notin Live(r)
<1> DEFINE m == First(Matches(es, old))
           r == Removed(es, old)
           x == Lookup(es, old)
<1>1. es \in Seq(Entry) /\ Sound(r)
  BY RemovedSound DEF Sound
<1>2. m \in LiveSlots(es) /\ es[m].inode = x
  BY <1>1, LookupFinds
<1>3. x \in Inodes \cup {Self, Parent}
  BY <1>1, <1>2, EntryFields DEF LiveSlots
<1>4. /\ Slots(r) = Slots(es)
      /\ m \in FreeSlots(r)
      /\ LiveSlots(r) = LiveSlots(es) \ {m}
      /\ \A i \in Slots(es) : r[i].name = es[i].name /\ r[i].inode = es[i].inode
  BY <1>1, RemovedSlots
<1> HIDE DEF m, r, x
<1>5. LiveSlots(es) \subseteq Slots(es)
  BY DEF LiveSlots
<1>6. Matches(r, new) = {}
  BY <1>4, <1>5 DEF Matches
<1>7. x \in Inodes => x \notin Live(r)
  BY <1>2, <1>4, <1>5 DEF Live, Sound
<1>8. CASE new \in Names
  BY <1>1, <1>3, <1>6, <1>7, <1>8, AddedSound DEF r, x
<1>9. CASE new = Empty
  BY <1>1, <1>3, <1>4, <1>7, <1>9, EmptySound DEF r, x
<1> QED
  BY <1>3, <1>7, <1>8, <1>9 DEF r, x

\* An entry made since the directory was opened may go anywhere; an older one
\* (renamed) takes a slot the file has, if it left one there.
LEMMA AddedOld ==
    ASSUME NEW es \in Seq(Entry), NEW f \in Seq(Entry), NEW new \in SUBSET Inodes,
           NEW name \in Names, NEW x \in Inodes \cup {Self, Parent},
           Len(f) <= Len(es),
           OldInFile(es, f, new),
           x \in Inodes \ new => \E m \in FreeSlots(es) : m <= Len(f)
    PROVE  LET a == Added(es, name, x)
           IN  Len(f) <= Len(a) /\ OldInFile(a, f, new)
<1> DEFINE a == Added(es, name, x)
<1>1. a \in Seq(Entry) /\ Len(es) <= Len(a)
  BY AddedSlots
<1>2. PICK k \in Slots(a) :
         /\ \A j \in FreeSlots(es) : k <= j
         /\ a[k].inode = x
         /\ LiveSlots(a) = LiveSlots(es) \cup {k}
         /\ \A i \in Slots(a) \ {k} : a[i] = es[i]
  BY AddedSlots
<1> HIDE DEF a
<1>3. Len(f) \in Nat /\ Len(es) \in Nat /\ Len(a) \in Nat
  BY <1>1
<1>4. Len(f) <= Len(a)
  BY <1>1, <1>3
<1>5. ASSUME NEW i \in LiveSlots(a), a[i].inode \in Inodes \ new
      PROVE  i <= Len(f)
  <2>1. CASE i = k
    <3>1. PICK m \in FreeSlots(es) : m <= Len(f)
      BY <1>2, <1>5, <2>1
    <3>2. k <= m /\ k \in Nat /\ m \in Nat
      BY <1>1, <1>2, <3>1 DEF Slots, FreeSlots
    <3> QED
      BY <1>3, <2>1, <3>1, <3>2
  <2>2. CASE i # k
    <3>1. i \in LiveSlots(es) /\ a[i] = es[i]
      BY <1>2, <1>5, <2>2 DEF LiveSlots
    <3> QED
      BY <1>5, <3>1 DEF OldInFile
  <2> QED
    BY <2>1, <2>2
<1> QED
  BY <1>4, <1>5 DEF OldInFile, a

-----------------------------------------------------------------------------
(* The invariant *)

LEMMA IndInvInit == Init => IndInv
<1> SUFFICES ASSUME Init PROVE IndInv
  OBVIOUS
<1>1. Record(Dot, Self) \in Entry /\ Record(DotDot, Parent) \in Entry
  BY NamesAssumption DEF Record, Entry
<1>2. entries \in Seq(Entry) /\ Len(entries) = 2
      /\ entries[1] = Record(Dot, Self) /\ entries[2] = Record(DotDot, Parent)
  BY <1>1 DEF Init, FirstEntries
<1>3. Slots(entries) = {1, 2} /\ LiveSlots(entries) = {1, 2} /\ FreeSlots(entries) = {}
  <2>1. Slots(entries) = {1, 2}
    BY <1>2 DEF Slots
  <2>2. Record(Dot, Self).live /\ Record(DotDot, Parent).live
    BY NamesAssumption DEF Record
  <2>3. \A i \in {1, 2} : entries[i].live
    BY <1>2, <2>2
  <2> QED
    BY <2>1, <2>3 DEF LiveSlots, FreeSlots
<1>4. \A i \in {1, 2} : entries[i].inode \notin Inodes
  BY <1>2, InodesAssumption DEF Record
<1>5. entries[1].name # entries[2].name
  BY <1>2, NamesAssumption DEF Record
<1>6. Sound(entries)
  BY <1>2, <1>3, <1>4, <1>5 DEF Sound
<1>7. file = << >> /\ Len(file) = 0 /\ file \in Seq(Entry)
  BY DEF Init
<1>8. LiveSlots(file) = {} /\ FreeSlots(file) = {}
  BY <1>7 DEF LiveSlots, FreeSlots, Slots
<1>9. Sound(file)
  BY <1>7, <1>8 DEF Sound
<1>10. OldInFile(entries, file, added)
  BY <1>3, <1>4 DEF OldInFile
<1> QED
  BY <1>2, <1>6, <1>7, <1>9, <1>10 DEF IndInv, Init

LEMMA CreateKeeps ==
    ASSUME IndInv, NEW name \in Names, NEW x \in Inodes, Create(name, x)
    PROVE  IndInv'
<1>1. entries \in Seq(Entry) /\ Sound(entries) /\ isOpen /\ x \notin Live(entries)
  BY DEF IndInv, Sound, Create
<1>2. Matches(entries, name) = {}
  BY <1>1, LookupFinds DEF Create
<1>3. entries' = Added(entries, name, x) /\ added' = added \cup {x}
      /\ file' = file /\ isOpen' = isOpen
  BY DEF Create
<1>4. Sound(entries')
  BY <1>1, <1>2, <1>3, AddedSound
<1>5. file \in Seq(Entry) /\ added \in SUBSET Inodes
      /\ Len(file) <= Len(entries) /\ OldInFile(entries, file, added)
  BY <1>1 DEF IndInv, Sound
<1>6. OldInFile(entries, file, added \cup {x}) /\ added \cup {x} \in SUBSET Inodes
  BY <1>5 DEF OldInFile
<1>7. Len(file) <= Len(entries') /\ OldInFile(entries', file, added \cup {x})
  BY <1>1, <1>3, <1>5, <1>6, AddedOld
<1> QED
  BY <1>1, <1>3, <1>4, <1>6, <1>7 DEF IndInv

LEMMA RemoveKeeps ==
    ASSUME IndInv, NEW name \in Names, Remove(name)
    PROVE  IndInv'
<1>1. entries \in Seq(Entry) /\ Sound(entries) /\ isOpen
  BY DEF IndInv, Sound, Remove
<1>2. Matches(entries, name) # {}
  BY <1>1, LookupFinds, InodesAssumption DEF Remove
<1> DEFINE m == First(Matches(entries, name))
           x == Lookup(entries, name)
<1>3. entries' = Removed(entries, name) /\ added' = added \ {x}
      /\ UNCHANGED <<isOpen, file>>
  BY DEF Remove
<1>4. Sound(entries')
  BY <1>1, <1>2, <1>3, RemovedSound
<1>5. /\ Len(entries') = Len(entries)
      /\ LiveSlots(entries') = LiveSlots(entries) \ {m}
      /\ \A i \in Slots(entries) : entries'[i].inode = entries[i].inode
  BY <1>1, <1>2, <1>3, RemovedSlots
<1>6. m \in LiveSlots(entries) /\ entries[m].inode = x /\ x \in Inodes
  BY <1>1, <1>2, LookupFinds DEF Remove
<1> HIDE DEF m, x
<1>7. OldInFile(entries', file', added')
  <2> SUFFICES ASSUME NEW i \in LiveSlots(entries'),
                      entries'[i].inode \in Inodes \ (added \ {x})
               PROVE  i <= Len(file)
    BY <1>3 DEF OldInFile
  <2>1. i \in LiveSlots(entries) /\ i # m /\ entries[i].inode = entries'[i].inode
    BY <1>5 DEF LiveSlots
  <2>2. entries[i].inode # x
    BY <1>1, <1>6, <2>1 DEF Sound
  <2> QED
    BY <1>1, <2>1, <2>2 DEF IndInv, OldInFile
<1> QED
  BY <1>1, <1>3, <1>4, <1>5, <1>7 DEF IndInv

LEMMA RenameKeeps ==
    ASSUME IndInv, NEW old \in Names, NEW new \in Names \cup LongNames \cup {Empty},
           Rename(old, new)
    PROVE  IndInv'
<1> DEFINE r == Removed(entries, old)
           x == Lookup(entries, old)
           m == First(Matches(entries, old))
<1>1. entries \in Seq(Entry) /\ Sound(entries) /\ isOpen
  BY DEF IndInv, Sound, Rename
<1>2. Matches(entries, old) # {} /\ Matches(entries, new) = {}
  BY <1>1, LookupFinds DEF Rename
<1>3. UNCHANGED <<isOpen, file, added>>
  BY DEF Rename
<1>4. /\ r \in Seq(Entry) /\ Sound(r)
      /\ Len(r) = Len(entries)
      /\ m \in FreeSlots(r)
      /\ LiveSlots(r) \subseteq LiveSlots(entries)
      /\ \A i \in Slots(entries) : r[i].inode = entries[i].inode
  BY <1>1, <1>2, RemovedSlots, RemovedSound
<1>5. m \in LiveSlots(entries) /\ entries[m].inode = x
  BY <1>1, <1>2, LookupFinds
<1>6. OldInFile(r, file, added)
  <2> SUFFICES ASSUME NEW i \in LiveSlots(r), r[i].inode \in Inodes \ added
               PROVE  i <= Len(file)
    BY DEF OldInFile
  <2>1. i \in LiveSlots(entries) /\ entries[i].inode = r[i].inode
    BY <1>4 DEF LiveSlots
  <2> QED
    BY <1>1, <2>1 DEF IndInv, OldInFile
<1>7. CASE new \in LongNames
  <2>1. entries' = r
    BY <1>7 DEF Rename
  <2> QED
    BY <1>1, <1>3, <1>4, <1>6, <2>1 DEF IndInv
<1>8. CASE new \notin LongNames
  <2>1. new \in Names \cup {Empty} /\ entries' = Added(r, new, x)
    BY <1>8 DEF Rename
  <2>2. Sound(entries') /\ x \in Inodes \cup {Self, Parent}
    BY <1>1, <1>2, <2>1, RenamedSound
  <2> HIDE DEF r, x, m
  <2>3. x \in Inodes \ added => m <= Len(file)
    BY <1>1, <1>5 DEF IndInv, OldInFile
  <2>4. file \in Seq(Entry) /\ added \in SUBSET Inodes /\ Len(file) <= Len(r)
    BY <1>1, <1>4 DEF IndInv, Sound
  <2>5. Len(file) <= Len(entries') /\ OldInFile(entries', file, added)
    <3>1. CASE new \in Names
      BY <1>4, <1>6, <2>1, <2>2, <2>3, <2>4, <3>1, AddedOld
    <3>2. CASE new = Empty
      <4>1. /\ Len(entries') = Len(r) /\ LiveSlots(entries') = LiveSlots(r)
            /\ \A i \in LiveSlots(r) : entries'[i] = r[i]
        BY <1>4, <2>1, <2>2, <3>2, EmptyAdded
      <4> QED
        BY <1>6, <2>4, <4>1 DEF OldInFile
    <3> QED
      BY <2>1, <3>1, <3>2
  <2> QED
    BY <1>1, <1>3, <2>2, <2>5 DEF IndInv
<1> QED
  BY <1>7, <1>8

LEMMA DestroyKeeps ==
    ASSUME IndInv, NEW n \in 0 .. Len(entries), Destroy(n)
    PROVE  IndInv'
<1>1. Sound(file') /\ isOpen' = FALSE /\ added' = {} /\ entries' = entries
  BY PrefixSound DEF IndInv, Destroy
<1> QED
  BY <1>1 DEF IndInv

LEMMA OpenKeeps ==
    ASSUME IndInv, Open
    PROVE  IndInv'
<1>1. entries' = file /\ file' = file /\ isOpen' = TRUE /\ added' = added
  BY DEF Open
<1>2. file \in Seq(Entry) /\ Len(file) \in Nat
  BY DEF IndInv, Sound
<1>3. OldInFile(file, file, added)
  BY <1>2 DEF OldInFile, LiveSlots, Slots
<1> QED
  BY <1>1, <1>2, <1>3 DEF IndInv

THEOREM Inductive == IndInv /\ [Next]_vars => IndInv'
<1> SUFFICES ASSUME IndInv, [Next]_vars PROVE IndInv'
  OBVIOUS
<1>1. CASE \E name \in Names, x \in Inodes : Create(name, x)
  BY <1>1, CreateKeeps
<1>2. CASE \E name \in Names : Remove(name)
  BY <1>2, RemoveKeeps
<1>3. CASE \E old \in Names, new \in Names \cup LongNames \cup {Empty} : Rename(old, new)
  BY <1>3, RenameKeeps
<1>4. CASE \E n \in 0 .. Len(entries) : Destroy(n)
  BY <1>4, DestroyKeeps
<1>5. CASE Open
  BY <1>5, OpenKeeps
<1>6. CASE UNCHANGED vars
  BY <1>6 DEF vars, IndInv, OldInFile
<1> QED
  BY <1>1, <1>2, <1>3, <1>4, <1>5, <1>6 DEF Next

\* The strengthened invariant holds in every reachable state.
THEOREM Invariance == Spec => []IndInv
  BY IndInvInit, Inductive, PTL DEF Spec

-----------------------------------------------------------------------------
(* The properties *)

\* Every vector of entries, in memory and in the file, has its type.
THEOREM TypeCorrect == Spec => []TypeOK
<1>1. IndInv => TypeOK
  BY DEF IndInv, Sound, TypeOK
<1> QED
  BY <1>1, Invariance, PTL

\* No name is in a directory twice, however entries were made, removed,
\* renamed, saved in part and read back.
THEOREM NamesUniqueCorrect == Spec => []NamesUnique
<1>1. IndInv => NamesUnique
  BY DEF IndInv, Sound, NamesUnique
<1> QED
  BY <1>1, Invariance, PTL

\* lookup(inode) answers with the current name of a file of the directory,
\* though it also looks at deleted entries.
THEOREM NameOfCorrect == Spec => []NameOfIsCurrent
<1>1. IndInv => NameOfIsCurrent
  <2> SUFFICES ASSUME IndInv, NEW i \in LiveSlots(entries), entries[i].inode \in Inodes
               PROVE  NameOf(entries, entries[i].inode) = entries[i].name
    BY DEF NameOfIsCurrent
  <2> DEFINE H == HasInode(entries, entries[i].inode)
             f == First(H)
  <2>1. Sound(entries) /\ Len(entries) \in Nat
    BY DEF IndInv, Sound
  <2>2. H \in SUBSET (1 .. Len(entries)) /\ i \in H
    BY DEF HasInode, LiveSlots, Slots
  <2>3. f \in H /\ f <= i
    BY <2>1, <2>2, FirstIsLeast
  <2>4. f \in Slots(entries) /\ entries[f].inode = entries[i].inode
    BY <2>3 DEF HasInode
  <2> HIDE DEF f, H
  <2>5. f \in LiveSlots(entries)
    <3> SUFFICES ASSUME f \in FreeSlots(entries) PROVE FALSE
      BY <2>4 DEF FreeSlots
    <3>1. i < f
      BY <2>1, <2>4 DEF Sound
    <3>2. i \in Nat /\ f \in Nat
      BY <2>1, <2>4 DEF LiveSlots, Slots
    <3> QED
      BY <2>3, <3>1, <3>2
  <2>6. f = i
    BY <2>1, <2>4, <2>5 DEF Sound
  <2> QED
    BY <2>6 DEF NameOf, f, H
<1> QED
  BY <1>1, Invariance, PTL

\* A save cut short by a full disk loses only names entered since the
\* directory was opened.
THEOREM SaveCorrect == Spec => SaveKeepsOldNames
<1> DEFINE Kept ==
      \A n \in 0 .. Len(entries) : Destroy(n) =>
          \A i \in LiveSlots(entries) :
              entries[i].inode \in Inodes \ added =>
                  \E j \in LiveSlots(file') : file'[j] = entries[i]
<1>1. IndInv /\ [Next]_vars => [Kept]_vars
  <2> SUFFICES ASSUME IndInv, NEW n \in 0 .. Len(entries), Destroy(n),
                      NEW i \in LiveSlots(entries),
                      entries[i].inode \in Inodes \ added
               PROVE  \E j \in LiveSlots(file') : file'[j] = entries[i]
    OBVIOUS
  <2>1. isOpen /\ Len(file) <= n /\ file' = SubSeq(entries, 1, n)
    BY DEF Destroy
  <2>2. i <= Len(file)
    BY <2>1 DEF IndInv, OldInFile
  <2>3. n \in Nat /\ i \in Nat /\ 1 <= i /\ Len(file) \in Nat /\ entries[i].live
    BY DEF LiveSlots, Slots, IndInv, Sound
  <2>4. i \in 1 .. n
    BY <2>1, <2>2, <2>3
  <2>5. Len(file') = n /\ file'[i] = entries[i]
    BY <2>1, <2>4, PrefixSound DEF IndInv
  <2>6. i \in LiveSlots(file')
    BY <2>3, <2>4, <2>5 DEF LiveSlots, Slots
  <2> QED
    BY <2>5, <2>6
<1> QED
  BY <1>1, Invariance, PTL DEF Spec, SaveKeepsOldNames

(* EntriesStay: what becomes of the live inodes *)

\* Adding an entry loses no inode.
LEMMA AddedLive ==
    ASSUME NEW es \in Seq(Entry), NEW name \in Names,
           NEW x \in Inodes \cup {Self, Parent}
    PROVE  Live(es) \cup {x} \subseteq Live(Added(es, name, x))
<1> DEFINE a == Added(es, name, x)
<1>1. PICK k \in Slots(a) :
         /\ k \notin LiveSlots(es)
         /\ \A j \in FreeSlots(es) : k <= j
         /\ a[k].name = name /\ a[k].inode = x
         /\ LiveSlots(a) = LiveSlots(es) \cup {k}
         /\ FreeSlots(a) = FreeSlots(es) \ {k}
         /\ \A i \in Slots(a) \ {k} : i \in Slots(es) /\ a[i] = es[i]
  BY AddedSlots
<1>2. LiveSlots(a) \subseteq Slots(a)
  BY DEF LiveSlots
<1> HIDE DEF a
<1>3. \A i \in LiveSlots(es) : i \in LiveSlots(a) /\ a[i].inode = es[i].inode
  BY <1>1, <1>2
<1> QED
  BY <1>1, <1>3 DEF Live, a

\* Removing a name loses the inode it had and no other.
LEMMA RemovedLive ==
    ASSUME NEW es \in Seq(Entry), NEW name, Matches(es, name) # {}
    PROVE  Live(es) \ {Lookup(es, name)} \subseteq Live(Removed(es, name))
<1> DEFINE m == First(Matches(es, name))
           r == Removed(es, name)
<1>1. /\ LiveSlots(r) = LiveSlots(es) \ {m}
      /\ \A i \in Slots(es) : r[i].inode = es[i].inode
  BY RemovedSlots
<1>2. es[m].inode = Lookup(es, name) /\ LiveSlots(es) \subseteq Slots(es)
  BY LookupFinds DEF LiveSlots
<1> HIDE DEF m, r
<1> QED
  BY <1>1, <1>2 DEF Live, r

\* Renaming to a name that is neither too long nor empty loses none.
LEMMA RenamedLive ==
    ASSUME NEW es \in Seq(Entry), NEW old, Matches(es, old) # {}, NEW new \in Names
    PROVE  Live(es) \subseteq Live(Added(Removed(es, old), new, Lookup(es, old)))
<1>1. Removed(es, old) \in Seq(Entry)
  BY RemovedSlots
<1>2. Lookup(es, old) \in Inodes \cup {Self, Parent}
  <2>1. First(Matches(es, old)) \in Slots(es)
        /\ es[First(Matches(es, old))].inode = Lookup(es, old)
    BY LookupFinds DEF LiveSlots
  <2> QED
    BY <2>1, EntryFields
<1> QED
  BY <1>1, <1>2, AddedLive, RemovedLive

\* Renaming to an empty name loses the inode it had and no other.
LEMMA EmptyLive ==
    ASSUME NEW es \in Seq(Entry), NEW old, Matches(es, old) # {}
    PROVE  Live(es) \ {Lookup(es, old)}
              \subseteq Live(Added(Removed(es, old), Empty, Lookup(es, old)))
<1> DEFINE r == Removed(es, old)
           a == Added(r, Empty, Lookup(es, old))
<1>1. r \in Seq(Entry) /\ FreeSlots(r) # {}
  BY RemovedSlots
<1>2. Lookup(es, old) \in Inodes \cup {Self, Parent}
  <2>1. First(Matches(es, old)) \in Slots(es)
        /\ es[First(Matches(es, old))].inode = Lookup(es, old)
    BY LookupFinds DEF LiveSlots
  <2> QED
    BY <2>1, EntryFields
<1>3. Live(es) \ {Lookup(es, old)} \subseteq Live(r)
  BY RemovedLive
<1> HIDE DEF r
<1>4. LiveSlots(a) = LiveSlots(r) /\ \A i \in LiveSlots(r) : a[i] = r[i]
  BY <1>1, <1>2, EmptyAdded
<1> HIDE DEF a
<1>5. Live(a) = Live(r)
  BY <1>4 DEF Live
<1> QED
  BY <1>3, <1>5 DEF a, r

\* An entry goes only when its own name is removed, or renamed to one that is
\* too long or empty, wherever the entries of others come and go.
THEOREM StayCorrect == Spec => EntriesStay
<1> DEFINE Stay ==
      isOpen /\ isOpen' => \A x \in Live(entries) \ Live(entries') :
          \E i \in LiveSlots(entries) :
              /\ entries[i].inode = x
              /\ \/ Remove(entries[i].name)
                 \/ \E new \in LongNames \cup {Empty} : Rename(entries[i].name, new)
<1>1. IndInv /\ [Next]_vars => [Stay]_vars
  <2> SUFFICES ASSUME IndInv, Next, isOpen, isOpen',
                      NEW x \in Live(entries) \ Live(entries')
               PROVE  \E i \in LiveSlots(entries) :
                          /\ entries[i].inode = x
                          /\ \/ Remove(entries[i].name)
                             \/ \E new \in LongNames \cup {Empty} : Rename(entries[i].name, new)
    BY Zenon
  <2>1. entries \in Seq(Entry)
    BY DEF IndInv, Sound
  <2>2. ASSUME NEW name, Matches(entries, name) # {}, x = Lookup(entries, name)
        PROVE  \E i \in LiveSlots(entries) : entries[i].inode = x /\ entries[i].name = name
    BY <2>1, <2>2, LookupFinds
  <2>3. CASE \E name \in Names, y \in Inodes : Create(name, y)
    BY <2>1, <2>3, AddedLive DEF Create
  <2>4. CASE \E name \in Names : Remove(name)
    <3>1. PICK name \in Names : Remove(name)
      BY <2>4
    <3>2. Matches(entries, name) # {} /\ entries' = Removed(entries, name)
      BY <2>1, <3>1, LookupFinds, InodesAssumption DEF Remove
    <3>3. x = Lookup(entries, name)
      BY <2>1, <3>2, RemovedLive
    <3>4. PICK i \in LiveSlots(entries) : entries[i].inode = x /\ entries[i].name = name
      BY <2>2, <3>2, <3>3
    <3> QED
      BY <3>1, <3>4
  <2>5. CASE \E old \in Names, new \in Names \cup LongNames \cup {Empty} : Rename(old, new)
    <3>1. PICK old \in Names, new \in Names \cup LongNames \cup {Empty} : Rename(old, new)
      BY <2>5
    <3>2. Matches(entries, old) # {}
      BY <2>1, <3>1, LookupFinds DEF Rename
    <3>3. new \in LongNames \cup {Empty}
      <4> SUFFICES ASSUME new \notin LongNames, new # Empty PROVE FALSE
        OBVIOUS
      <4>1. entries' = Added(Removed(entries, old), new, Lookup(entries, old))
        BY <3>1 DEF Rename
      <4> QED
        BY <2>1, <3>2, <4>1, RenamedLive
    <3>4. CASE new \in LongNames
      <4>1. entries' = Removed(entries, old)
        BY <3>1, <3>4 DEF Rename
      <4>2. x = Lookup(entries, old)
        BY <2>1, <3>2, <4>1, RemovedLive
      <4>3. PICK i \in LiveSlots(entries) : entries[i].inode = x /\ entries[i].name = old
        BY <2>2, <3>2, <4>2
      <4> QED
        BY <3>1, <3>3, <4>3
    <3>5. CASE new \notin LongNames
      <4>1. entries' = Added(Removed(entries, old), Empty, Lookup(entries, old))
        BY <3>1, <3>3, <3>5 DEF Rename
      <4>2. x = Lookup(entries, old)
        BY <2>1, <3>2, <4>1, EmptyLive
      <4>3. PICK i \in LiveSlots(entries) : entries[i].inode = x /\ entries[i].name = old
        BY <2>2, <3>2, <4>2
      <4> QED
        BY <3>1, <3>3, <4>3
    <3> QED
      BY <3>4, <3>5
  <2>6. CASE (\E n \in 0 .. Len(entries) : Destroy(n)) \/ Open
    BY <2>6 DEF Destroy, Open
  <2> QED
    BY <2>3, <2>4, <2>5, <2>6 DEF Next
<1>2. EntriesStay <=> [][Stay]_vars
  BY DEF EntriesStay
<1> HIDE DEF Stay
<1> QED
  BY <1>1, <1>2, Invariance, PTL DEF Spec
=============================================================================
