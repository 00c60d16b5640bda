----------------------------- MODULE NodeProofs -----------------------------
(***************************************************************************)
(* For every set of sessions and of names and every bound: when the        *)
(* operations that resolve a path, log in or out, or format run alone,     *)
(* whatever the interleaving of those on the working directory, the node   *)
(* table keeps its types, locks and references are given back and counted  *)
(* exactly, an inode has one node, which is of its type, the directory of  *)
(* a session that no format ousted is there, and the behaviour ends in the *)
(* known ways only.                                                        *)
(*                                                                         *)
(* First the steps of a request that runs alone, one lemma for each action *)
(* of NodeTable; then the first step of a request, the steps of several    *)
(* requests on working directories at a time, the first state, the sessions*)
(* that were ousted, the inductive invariant and the theorems.             *)
(***************************************************************************)
EXTENDS NodeInvariant

-----------------------------------------------------------------------------
(* Every step of a request that runs alone keeps the invariant of the node *)
(* table, one lemma for each action of NodeTable.                          *)

\* The only request at work ends.
LEMMA SoloEnds ==
    ASSUME Handled, NEW s \in Sessions, Solo(s), Done(s), World',
           Proper(tree'), formatted' => table'[Root] # 0,
           \A n \in Nodes : Live(n)' =>
              /\ node'[n].dir /\ node'[n].rw = 0
              /\ node'[n].ref = Count(n)'
                    + (IF formatted' /\ node'[n].inode = Root THEN 1 ELSE 0)
    PROVE  Sound'
<1>1. \A t \in Sessions : hd'[t] = Idle
  BY DEF Handled, Solo, Done
<1>2. Idle \in Handlers
  <2>1. << >> \in Seq(Names \cup Dots) /\ << >> \in Seq(Inodes) /\ << >> \in Seq(Nodes)  OBVIOUS
  <2> QED BY <2>1, BoundAssumption DEF Idle, Handlers, Stages
<1>3. \A t \in Sessions : IsIdle(t)' /\ ~Solo(t)'  BY <1>1 DEF IsIdle, Solo, Idle
<1>4. hd' \in [Sessions -> Handlers]  BY <1>1, <1>2 DEF Done, Handled
<1>5. Handled'  BY <1>1, <1>3, <1>4 DEF Handled
<1>6. \A n \in Nodes : Readers(n)' = {} /\ Writers(n)' = {}
  BY <1>1 DEF Readers, Writers, Idle
<1>7. Shared'
  BY <1>3, <1>6, FS_EmptySet DEF Shared
<1> QED BY <1>3, <1>5, <1>7 DEF Sound

\* The request goes to "unlock".
LEMMA Unlocks ==
    ASSUME NEW s \in Sessions, World', Handled', Solo(s)', \A t \in Sessions : Solo(t)' => t = s,
           hd'[s].pc = "unlock", hd'[s].new = 0, hd'[s].op \in PathOps,
           hd'[s].got = << >>, hd'[s].todo = << >>,
           Proper(tree'), Counts(s)', Homed(s)', Alive(Here(s))' \/ Excused(s)'
    PROVE  Sound'
<1>1. Stage(s)' = "unlock"  BY DEF Stage
<1>2. Trees(s)'  BY <1>1 DEF Trees, Sweeping
<1>3. Route(s)'  BY <1>1 DEF Route, Stages
<1>4. Fetching(s)' BY DEF Fetching, Fetches
<1>5. Sights(s)'  BY <1>1 DEF Sights
<1>6. Places(s)'  BY <1>1 DEF Places
<1>7. Walks(s)'   BY <1>1 DEF Walks, Walking, Sweeping
<1>8. Exclusive(s)'  BY <1>2, <1>3, <1>4, <1>5, <1>6, <1>7 DEF Exclusive
<1> QED BY <1>8, SoloKeeps

\* A request without a node loads the root, to enter it.
LEMMA Enters ==
    ASSUME NEW s \in Sessions, World', Handled', Solo(s)', \A t \in Sessions : Solo(t)' => t = s,
           hd'[s].pc = "load", hd'[s].then = "enter", hd'[s].want = Root, hd'[s].new = 0,
           hd'[s].op \in {"login", "format"}, ~hd'[s].ok,
           hd'[s].got = << >>, hd'[s].todo = << >>, Here(s)' = 0,
           Proper(tree'), Homed(s)', formatted' => table'[Root] # 0,
           \A m \in Nodes : Live(m)' =>
              /\ node'[m].ref = Count(m)' + (IF formatted' /\ node'[m].inode = Root THEN 1 ELSE 0)
              /\ node'[m].rw = 0 /\ node'[m].dir
    PROVE  Sound'
<1>1. /\ Stage(s)' = "enter" /\ ~Held(s)' /\ ~Taken(s)' /\ Sought(s)' = Root
  BY DEF Stage, Held, Taken, Walking, Sought
<1>2. Trees(s)'  BY <1>1 DEF Trees, Sweeping
<1>3. Counts(s)' BY <1>1, UnheldCounts
<1>4. Route(s)'  BY <1>1 DEF Route, Stages
<1>5. Fetching(s)'
  <2>1. Root \in Inodes /\ tree'[Root].kind # "free"
    BY BoundAssumption DEF Root, Inodes, Proper
  <2> QED BY <2>1 DEF Fetching, Fetches
<1>6. Sights(s)'  BY <1>1 DEF Sights
<1>7. Places(s)'
  <2>1. hd'[s].op \notin PathOps  BY DEF PathOps, Lasts
  <2> QED BY <1>1, <2>1 DEF Places, Alive
<1>8. Walks(s)'   BY <1>1 DEF Walks, Walking, Sweeping
<1>9. Exclusive(s)'
  BY <1>2, <1>3, <1>4, <1>5, <1>6, <1>7, <1>8 DEF Exclusive
<1> QED BY <1>9, SoloKeeps

\* Whether another request runs alone, as a format does.
LEMMA NoneTaken ==
    ASSUME Handled, NEW s \in Sessions, Solo(s), ~Taken(s)
    PROVE  \A t \in Sessions : ~Taken(t)
<1>1. ASSUME NEW t \in Sessions, t # s PROVE ~Taken(t)
  <2>1. hd[t] = Idle  BY <1>1 DEF Handled
  <2> QED BY <2>1 DEF Taken, Idle
<1> QED BY <1>1

\* A session whose directory is there is not ousted, but while a format is at it.
LEMMA NotOusted ==
    ASSUME Ousts, \A t \in Sessions : ~Taken(t), NEW s \in Sessions, Alive(wd[s])
    PROVE  s \notin ousted /\ Seat[s] = wd[s]
<1>1. s \notin ousted  BY DEF Ousts, Alive, Live
<1> QED BY <1>1, SeatIs

-----------------------------------------------------------------------------
(* load_node_, and the first node of a path.                               *)

\* load_node_ finds the node in the table, or has to make it.
LEMMA FindStep ==
    ASSUME Sound, NEW s \in Sessions, Solo(s), Find(s)
    PROVE  Sound'
<1>1. /\ World /\ Handled /\ Exclusive(s) /\ hd[s] \in Handlers /\ hd[s].pc = "load"
      /\ UNCHANGED <<tree, node, table, formatted, wd, ousted, Seat>>
  BY SeatSame, SoloHas DEF Find, At
<1>2. World'  BY <1>1, WorldSame
<1>3. /\ Stage(s) = hd[s].then /\ hd[s].then \in Fetches /\ hd[s].want \in Inodes
      /\ Sought(s) = hd[s].want /\ hd[s].then \notin {"load", "make"} /\ hd[s].new = 0
      /\ table[hd[s].want] \in 0 .. MaxNode
  BY <1>1 DEF Stage, Sought, Exclusive, Fetching, Fetches, World
<1>4. ASSUME NEW h \in Handlers, Goto(s, h), Carried(h, hd[s]),
             \/ /\ h.pc = hd[s].then /\ h.new = table[hd[s].want] /\ h.new # 0
             \/ /\ h.pc = "make" /\ h.new = 0 /\ table[hd[s].want] = 0
                /\ h.want = hd[s].want /\ h.then = hd[s].then
      PROVE  Sound'
  <2>1. h.pc # "idle" /\ h.new \in 0 .. MaxNode  BY <1>3, <1>4 DEF Fetches, Handlers
  <2>2. /\ Handled' /\ hd'[s] = h /\ h.op = hd[s].op
        /\ Solo(s)' /\ \A t \in Sessions : Solo(t)' => t = s
    BY <1>1, <1>4, <2>1, SoloGoes DEF Carried
  <2>3. h.new # 0 => node[h.new].inode = hd[s].want /\ hd[s].want # 0
    BY <1>1, <1>3, <1>4 DEF World, Inodes
  <2>4. /\ Stage(s)' = Stage(s) /\ Sought(s)' = Sought(s) /\ Here(s)' = Here(s)
        /\ Got(s)' = Got(s) /\ Dir(s)' = Dir(s) /\ Name(s)' = Name(s)
    BY <1>1, <1>3, <1>4, <2>2, <2>3 DEF Stage, Sought, Here, Got, Dir, Name, Fetches, Carried
  <2>5. /\ (Held(s)' <=> Held(s)) /\ (Taken(s)' <=> Taken(s)) /\ (Using(s)' <=> Using(s))
        /\ (Sweeping(s)' <=> Sweeping(s)) /\ (Walking(s)' <=> Walking(s))
        /\ (Excused(s)' <=> Excused(s)) /\ Visited(s)' = Visited(s) /\ Ahead(s)' = Ahead(s)
        /\ First(s)' = First(s) /\ Rest(s)' = Rest(s)
    BY <1>1, <1>4, <2>2, <2>4
    DEF Held, Taken, Using, Sweeping, Walking, Excused, Visited, Ahead, First, Rest, Entry,
        Carried
  <2>6. Exclusive(s)'
    <3>2. Trees(s)'  BY <1>1, <2>5 DEF Exclusive, Trees
    <3>3. Counts(s)'
      <4>1. \A m \in Nodes : m # hd[s].new  BY <1>3 DEF Nodes
      <4>2. Counts(s)  BY <1>1 DEF Exclusive
      <4> QED BY <1>1, <2>4, <2>5, <4>1, <4>2, CountsKept
    <3>4. Homed(s)'  BY <1>1, <1>4, <2>2, <2>4 DEF Exclusive, Homed, Carried
    <3>5. Route(s)'  BY <1>1, <1>4, <2>2, <2>4 DEF Exclusive, Route, Carried
    <3>6. Fetching(s)'
      <4>1. CASE h.pc = "make"
        BY <1>1, <1>3, <1>4, <2>2, <4>1 DEF Exclusive, Fetching, Fetches, Carried
      <4>2. CASE h.pc # "make"
        <5>1. h.pc \in Fetches /\ h.pc \notin {"load", "make"} /\ h.new # 0  BY <1>3, <1>4, <4>2
        <5>2. Alive(h.new)'  BY <1>1, <2>3, <5>1 DEF Alive
        <5> QED BY <2>2, <5>1, <5>2 DEF Fetching
      <4> QED BY <4>1, <4>2
    <3>7. Sights(s)'  BY <1>1, <2>4 DEF Sights, Exclusive, Entry
    <3>8. Places(s)'  BY <1>1, <1>4, <2>2, <2>4, <2>5 DEF Places, Exclusive, Alive, Carried
    <3>9. Walks(s)'
      BY <1>1, <1>4, <2>2, <2>4, <2>5
        DEF Walks, WalkOK, Exclusive, Live, Children, Alive, Carried
    <3> QED BY <3>2, <3>3, <3>4, <3>5, <3>6, <3>7, <3>8, <3>9 DEF Exclusive
  <2> QED BY <1>2, <2>2, <2>6, SoloKeeps
<1>5. CASE table[hd[s].want] # 0
  <2> DEFINE o == On(s)
             h == [o EXCEPT !.pc = hd[s].then, !.new = table[hd[s].want]]
  <2>1. h \in Handlers /\ h.pc = hd[s].then /\ h.new = table[hd[s].want] /\ Carried(h, hd[s])
    <3>1. hd[s].then \in Stages /\ table[hd[s].want] \in 0 .. MaxNode
      BY <1>3 DEF Fetches, Stages
    <3>2. o \in Handlers /\ Carried(o, hd[s])  BY <1>1, OnFields
    <3> HIDE DEF o
    <3>3. h \in Handlers  BY <3>1, <3>2 DEF Handlers
    <3> QED BY <3>1, <3>2, <3>3 DEF Handlers, Carried
  <2>2. Goto(s, h)  BY <1>5 DEF Find
  <2> HIDE DEF h
  <2> QED BY <1>4, <1>5, <2>1, <2>2
<1>6. CASE ~(table[hd[s].want] # 0)
  <2> DEFINE h == [hd[s] EXCEPT !.pc = "make"]
  <2>1. /\ h \in Handlers /\ h.pc = "make" /\ h.new = 0 /\ Carried(h, hd[s])
        /\ h.want = hd[s].want /\ h.then = hd[s].then
    BY <1>1, <1>3 DEF Handlers, Carried
  <2>2. Goto(s, h)  BY <1>6 DEF Find
  <2> HIDE DEF h
  <2> QED BY <1>4, <1>6, <2>1, <2>2
<1> QED BY <1>5, <1>6

\* load_node_ makes the node that the table does not have.
LEMMA InsertStep ==
    ASSUME Sound, NEW s \in Sessions, Solo(s), Insert(s)
    PROVE  Sound'
<1>1. /\ World /\ Handled /\ Exclusive(s) /\ hd[s] \in Handlers /\ hd[s].pc = "make"
      /\ UNCHANGED <<tree, formatted, wd, ousted, Seat>>
  BY SeatSame, SoloHas DEF Insert, At
<1>2. PICK n \in Nodes, i \in Inodes :
          /\ i = hd[s].want /\ table[i] = 0 /\ tree[i].kind # "free" /\ node[n] = Dead
          /\ \A t \in Sessions : Seat[t] # n
          /\ Here(s) # n /\ hd[s].new # n /\ n \notin Got(s)
          /\ Inserts(n, i)
          /\ Goto(s, [On(s) EXCEPT !.pc = hd[s].then, !.new = n])
  <2> DEFINE free == Unallocated(node, {})
             n == Min(free)
  <2>1. hd[s].want \in Inodes /\ tree[hd[s].want].kind # "free" /\ table[hd[s].want] = 0
    BY <1>1 DEF Exclusive, Fetching
  <2>2. free # {} /\ free \in SUBSET Nodes  BY DEF Insert, Unallocated
  <2>3. n \in free  BY <2>2, MinIsIn
  <2>4. /\ Inserts(n, hd[s].want)
        /\ Goto(s, [On(s) EXCEPT !.pc = hd[s].then, !.new = n])
    BY DEF Insert, Inserts
  <2> HIDE DEF n
  <2>5. /\ n \in Nodes /\ node[n] = Dead /\ \A t \in Sessions : Seat[t] # n
        /\ Here(s) # n /\ hd[s].new # n /\ n \notin Got(s)
    BY <2>3, Spare
  <2> QED BY <2>1, <2>4, <2>5
<1>3. /\ World' /\ \A m \in Nodes : m # n => node'[m] = node[m]
      /\ node'[n].inode = i /\ node'[n].ref = 0 /\ node'[n].rw = 0 /\ table'[i] = n
      /\ (node'[n].dir <=> tree[i].kind = "dir")
      /\ \A j \in Inodes : j # i => table'[j] = table[j]
  BY <1>1, <1>2, Inserted
<1>4. /\ Stage(s) = hd[s].then /\ hd[s].then \in Fetches /\ hd[s].then \in Stages
      /\ Sought(s) = i /\ hd[s].new = 0 /\ hd[s].then \notin {"idle", "load", "make"}
      /\ n # 0 /\ n \in 0 .. MaxNode /\ i # 0
  BY <1>1, <1>2 DEF Stage, Exclusive, Fetching, Fetches, Stages, Sought, Nodes, Inodes
<1> DEFINE o == On(s)
           h == [o EXCEPT !.pc = hd[s].then, !.new = n]
<1>5. o \in Handlers /\ Carried(o, hd[s])  BY <1>1, OnFields
<1>6. Goto(s, h)  BY <1>2
<1> HIDE DEF o
<1>7. h \in Handlers  BY <1>4, <1>5 DEF Handlers
<1>8. h.pc = hd[s].then /\ h.new = n /\ Carried(h, hd[s])  BY <1>5 DEF Handlers, Carried
<1> HIDE DEF h
<1>9. /\ Handled' /\ hd'[s] = h /\ Solo(s)' /\ \A t \in Sessions : Solo(t)' => t = s
  BY <1>1, <1>4, <1>6, <1>7, <1>8, SoloGoes DEF Carried
<1>10. /\ Stage(s)' = Stage(s) /\ Sought(s)' = Sought(s) /\ Here(s)' = Here(s)
       /\ Got(s)' = Got(s) /\ Name(s)' = Name(s)
  BY <1>3, <1>4, <1>8, <1>9 DEF Stage, Sought, Here, Got, Name, Carried
<1>11. /\ \A m \in Nodes : m # n => (Live(m)' <=> Live(m))
       /\ Live(n)' /\ ~Live(n) /\ \A m \in Nodes : Live(m) => m # n
  BY <1>2, <1>3, <1>4 DEF Live, Dead
<1>12. /\ \A m \in Nodes : (Live(m) => Live(m)' /\ node'[m] = node[m])
       /\ Alive(Here(s))' <=> Alive(Here(s))
       /\ Here(s) \in Nodes => node'[Here(s)] = node[Here(s)]
  <2>1. Here(s) \in 0 .. MaxNode  BY <1>1 DEF Handlers, Here
  <2>2. Here(s) # 0 => Here(s) \in Nodes  BY <2>1, BoundAssumption DEF Nodes
  <2> QED BY <1>2, <1>3, <1>10, <1>11, <2>2 DEF Alive, Live
<1>13. /\ (Held(s)' <=> Held(s)) /\ (Taken(s)' <=> Taken(s)) /\ (Using(s)' <=> Using(s))
       /\ (Walking(s)' <=> Walking(s)) /\ (Excused(s)' <=> Excused(s))
       /\ ~Sweeping(s)' /\ ~Sweeping(s)
  BY <1>1, <1>4, <1>8, <1>9, <1>10
  DEF Held, Taken, Using, Sweeping, Walking, Excused, Carried, Fetches
<1>14. Exclusive(s)'
  <2>1. Here(s) \in Nodes => Dir(s)' = Dir(s)  BY <1>10, <1>12 DEF Dir
  <2>2. Trees(s)'  BY <1>1, <1>13 DEF Exclusive, Trees
  <2>3. Counts(s)'
    <3>1. formatted' /\ ~Taken(s)' => table'[Root] # 0
      <4>1. formatted /\ ~Taken(s) => table[Root] # 0  BY <1>1 DEF Exclusive, Counts
      <4>2. Root \in Inodes  BY BoundAssumption DEF Root, Inodes
      <4> QED BY <1>1, <1>3, <1>4, <1>13, <4>1, <4>2
    <3>2. ASSUME NEW m \in Nodes, Live(m)'
          PROVE  /\ node'[m].ref = Count(m)' + (IF Using(s)' /\ m = Here(s)' THEN 1 ELSE 0)
                        + (IF formatted' /\ node'[m].inode = Root /\ ~Taken(s)' THEN 1 ELSE 0)
                 /\ node'[m].rw \in {-1, 0, 1}
                 /\ node'[m].rw # 0 => (Held(s)' /\ m = Here(s)') \/ m \in Got(s)'
                 /\ ~node'[m].dir => m \in {Here(s)', hd'[s].new} \cup Got(s)'
      <4>1. Count(m)' = Count(m)  BY <1>1 DEF Count
      <4>2. CASE m = n
        <5>1. Count(m) = 0  BY <1>2, <4>2, CountNobody
        <5>2. m # Here(s)'  BY <1>2, <1>10, <4>2
        <5>3. ~(formatted' /\ node'[m].inode = Root /\ ~Taken(s)')
          BY <1>1, <1>2, <1>3, <1>13, <4>2 DEF Exclusive, Counts
        <5>4. node'[m].ref = 0 /\ node'[m].rw = 0 /\ m = hd'[s].new  BY <1>3, <1>8, <1>9, <4>2
        <5> QED BY <4>1, <5>1, <5>2, <5>3, <5>4
      <4>3. CASE m # n
        <5>1. Live(m) /\ node'[m] = node[m] /\ m # hd[s].new
          BY <1>3, <1>4, <1>11, <3>2, <4>3 DEF Nodes
        <5>2. /\ node[m].ref = Count(m) + (IF Using(s) /\ m = Here(s) THEN 1 ELSE 0)
                    + (IF formatted /\ node[m].inode = Root /\ ~Taken(s) THEN 1 ELSE 0)
              /\ node[m].rw \in {-1, 0, 1}
              /\ node[m].rw # 0 => (Held(s) /\ m = Here(s)) \/ m \in Got(s)
              /\ ~node[m].dir => m \in {Here(s), hd[s].new} \cup Got(s)
          BY <1>1, <5>1 DEF Exclusive, Counts
        <5> QED BY <1>1, <1>10, <1>13, <4>1, <5>1, <5>2
      <4> QED BY <4>2, <4>3
    <3> QED BY <3>1, <3>2 DEF Counts
  <2>4. Homed(s)'  BY <1>1, <1>8, <1>9, <1>10 DEF Exclusive, Homed, Carried
  <2>5. Route(s)'  BY <1>1, <1>8, <1>9, <1>10 DEF Exclusive, Route, Carried
  <2>6. Fetching(s)'
    <3>1. Alive(hd[s].new)'  BY <1>3, <1>4, <1>8, <1>9 DEF Alive
    <3> QED BY <1>4, <1>8, <1>9, <3>1 DEF Fetching
  <2>7. Sights(s)'
    <3>1. Stage(s) \in {"check", "permit", "climbed"} => Here(s) \in Nodes
      BY <1>1, <1>4, SoloHas DEF Exclusive, Places, Route, PathOps, Lasts
    <3> QED BY <1>1, <1>10, <2>1, <3>1 DEF Sights, Exclusive, Entry
  <2>8. Places(s)'
    <3>1. Alive(Here(s)) => Here(s) \in Nodes  BY SoloHas
    <3> QED BY <1>1, <1>8, <1>9, <1>10, <1>12, <1>13, <2>1, <3>1 DEF Places, Exclusive, Carried
  <2>9. Walks(s)'
    <3>1. Stage(s) \notin {"giveup", "sweep"}  BY <1>4 DEF Fetches
    <3>2. CASE Stage(s) # "walk"  BY <1>10, <3>1, <3>2 DEF Walks, Walking, Sweeping
    <3>3. CASE Stage(s) = "walk"
      <4>1. Here(s) \in Nodes /\ hd'[s].got = hd[s].got /\ hd'[s].op = hd[s].op
            /\ hd'[s].todo = hd[s].todo
        BY <1>1, <1>8, <1>9, <3>3, SoloHas DEF Exclusive, Places, Carried
      <4>2. \A j \in DOMAIN hd[s].got : hd[s].got[j] \in Nodes /\ Live(hd[s].got[j])
            /\ node'[hd[s].got[j]] = node[hd[s].got[j]]
            /\ node'[hd[s].got[j]].inode # 0
        <5>1. \A j \in DOMAIN hd[s].got : hd[s].got[j] \in Nodes /\ Live(hd[s].got[j])
          BY <1>1, <3>3 DEF Exclusive, Walks, Walking, Handlers
        <5> QED BY <1>12, <5>1 DEF Live
      <4>3. Visited(s)' = Visited(s)
        <5>1. \A m \in Got(s) : node'[m] = node[m]  BY <4>2 DEF Got, Range
        <5> QED BY <1>10, <5>1 DEF Visited
      <4>4. Ahead(s)' = Ahead(s) /\ First(s)' = First(s)
        BY <1>1, <1>10, <2>1, <4>1 DEF Ahead, First, Entry
      <4>5. WalkOK(s)'
        BY <1>1, <1>10, <3>3, <4>1, <4>3, <4>4 DEF Walks, Exclusive, WalkOK, Children
      <4>6. \A j \in DOMAIN hd[s].got : node'[hd[s].got[j]].inode # 0  BY <4>2
      <4>7. \A j \in DOMAIN hd[s].got : node'[hd[s].got[j]].rw = -1 /\ node'[hd[s].got[j]].ref = 0
        BY <1>1, <3>3, <4>2 DEF Walks, Exclusive
      <4>8. /\ \A j, k \in DOMAIN hd[s].got : j # k => hd[s].got[j] # hd[s].got[k]
            /\ hd[s].op = "rmdir" => Here(s) \notin Got(s)
        BY <1>1, <3>3 DEF Walks, Exclusive, Walking
      <4>9. Stage(s)' = "walk" /\ Here(s)' = Here(s) /\ Got(s)' = Got(s)  BY <1>10, <3>3
      <4>10. \A j \in DOMAIN hd'[s].got : node'[hd'[s].got[j]].inode # 0
        BY <4>1, <4>6 DEF Live
      <4> QED BY <4>1, <4>5, <4>7, <4>8, <4>9, <4>10 DEF Walks, Walking, Sweeping, Live
    <3> QED BY <3>2, <3>3
  <2> QED BY <2>2, <2>3, <2>4, <2>5, <2>6, <2>7, <2>8, <2>9 DEF Exclusive
<1> QED BY <1>3, <1>9, <1>14, SoloKeeps

\* A session has its root.
LEMMA EnterStep ==
    ASSUME Sound, Ousts, NEW s \in Sessions, Solo(s), Enter(s)
    PROVE  Sound'
<1>0. s \notin ousted /\ Seat[s] = 0
  <2>1. wd[s] = 0  BY SoloHas DEF Enter, At, Exclusive, Homed, Route, Stage, Stages
  <2> QED BY <2>1, SeatIs DEF Ousts
<1>1. PICK n \in Nodes :
          /\ World /\ Handled /\ Exclusive(s) /\ hd[s] \in Handlers /\ hd[s].pc = "enter"
          /\ n = hd[s].new /\ Live(n) /\ UNCHANGED <<tree, table, formatted>> /\ Done(s)
          /\ node' = [node EXCEPT ![n].ref = @ + 1] /\ Seat' = [Seat EXCEPT ![s] = n]
  BY <1>0, SoloHas, SeatMoves DEF Enter, At, Ousts
<1>2. /\ Stage(s) = "enter" /\ hd[s].op \notin PathOps /\ ~Held(s) /\ Seat[s] = 0 /\ Here(s) = 0
      /\ node[n].inode = Root
  BY <1>0, <1>1 DEF Stage, Exclusive, Route, Places, Held, Homed, Sights, Sought, PathOps, Lasts
<1>3. /\ Proper(tree) /\ tree[Root].kind = "dir" /\ (formatted => table[Root] # 0)
      /\ formatted \in BOOLEAN /\ node \in NodeType
      /\ \A m \in Nodes : Live(m) =>
            /\ node[m].ref = Count(m) + (IF formatted /\ node[m].inode = Root THEN 1 ELSE 0)
            /\ node[m].rw = 0
            /\ ~node[m].dir => m \in {Here(s), n}
  BY <1>1, <1>2, Unheld
<1>4. node[n].dir /\ \A m \in Nodes : Live(m) => node[m].dir
  BY <1>1, <1>2, <1>3 DEF World, Nodes
<1>5. /\ Seat' \in [Sessions -> 0 .. MaxNode] /\ Seat'[s] = n
      /\ \A t \in Sessions : t # s => Seat'[t] = Seat[t]
      /\ Count(n)' = Count(n) + 1
      /\ \A m \in Nodes : m # n => Count(m)' = Count(m)
  <2>1. /\ n \in 0 .. MaxNode /\ n # 0 /\ 0 \in 0 .. MaxNode /\ 0 = Seat[s] /\ 0 \notin Nodes
        /\ Seat \in [Sessions -> 0 .. MaxNode] /\ Moves(s, n)
    BY <1>1, <1>2, BoundAssumption DEF World, Nodes, Moves
  <2> QED BY <1>1, <2>1, CountMoves
<1>6. /\ node' \in NodeType /\ \A m \in Nodes : m # n => node'[m] = node[m]
      /\ node'[n].inode = node[n].inode /\ node'[n].dir = node[n].dir
      /\ node'[n].rw = node[n].rw /\ node'[n].ref = node[n].ref + 1
  <2>1. node[n].rw \in Int /\ node[n].ref + 1 \in Int  BY <1>3 DEF NodeType
  <2>2. Counted(n, node[n].rw, node[n].ref + 1)  BY <1>1, <1>3 DEF Counted, NodeType
  <2> QED BY <1>3, <2>1, <2>2, Recount
<1>7. World' /\ \A m \in Nodes : Live(m)' <=> Live(m)
  <2>1. \A m \in Nodes : /\ node'[m].inode = node[m].inode /\ node'[m].dir = node[m].dir
                         /\ ~Live(m) => node'[m] = Dead
    BY <1>1, <1>6 DEF World
  <2>2. \A t \in Sessions : Seat'[t] # 0 => Live(Seat'[t]) /\ node[Seat'[t]].dir
    BY <1>1, <1>4, <1>5 DEF World
  <2> QED BY <1>1, <1>5, <1>6, <2>1, <2>2, Recounted
<1>8. ASSUME NEW m \in Nodes, Live(m)
      PROVE  /\ node'[m].dir /\ node'[m].rw = 0
             /\ node'[m].ref = Count(m)' + (IF formatted' /\ node'[m].inode = Root THEN 1 ELSE 0)
  <2>1. Count(m) \in Nat  BY CountIsNat
  <2>2. CASE m = n  BY <1>1, <1>3, <1>4, <1>5, <1>6, <1>8, <2>1, <2>2
  <2>3. CASE m # n  BY <1>1, <1>3, <1>4, <1>5, <1>6, <1>8, <2>1, <2>3
  <2> QED BY <2>2, <2>3
<1> QED BY <1>1, <1>3, <1>7, <1>8, SoloEnds

\* The path begins at the root.
LEMMA StartStep ==
    ASSUME Sound, NEW s \in Sessions, Solo(s), Start(s)
    PROVE  Sound'
<1>1. /\ World /\ Handled /\ Exclusive(s) /\ hd[s] \in Handlers /\ hd[s].pc = "start"
      /\ hd[s].new \in Nodes /\ Live(hd[s].new)
      /\ UNCHANGED <<tree, node, table, formatted, wd, ousted, Seat>>
  BY SeatSame, SoloHas DEF Start, At, Exclusive, Fetching, Fetches
<1>2. World'  BY <1>1, WorldSame
<1>3. /\ Stage(s) = "start" /\ hd[s].op \in PathOps /\ hd[s].got = << >> /\ hd[s].todo = << >>
      /\ ~hd[s].ok /\ Proper(tree) /\ ~Taken(s) /\ Here(s) = 0
  BY <1>1 DEF Stage, Exclusive, Route, Places, Sights, Trees, Sweeping, Taken, Walking
<1> DEFINE o == On(s)
           h == [o EXCEPT !.pc = "lookup", !.node = hd[s].new]
<1>4. o \in Handlers /\ Carried(o, hd[s]) /\ o.new = 0  BY <1>1, OnFields
<1>5. Goto(s, h)  BY DEF Start
<1>6. hd[s].new \in 0 .. MaxNode  BY <1>1 DEF Handlers
<1> HIDE DEF o
<1>7. h \in Handlers
  <2>1. "lookup" \in Stages  BY DEF Stages
  <2> QED BY <1>4, <1>6, <2>1 DEF Handlers
<1>8. /\ h.pc = "lookup" /\ h.node = hd[s].new /\ h.new = 0 /\ h.op = hd[s].op
      /\ h.rest = hd[s].rest /\ h.todo = << >> /\ h.got = << >> /\ ~h.ok
  BY <1>3, <1>4 DEF Handlers, Carried
<1> HIDE DEF h
<1>9. /\ Handled' /\ hd'[s] = h /\ Solo(s)' /\ \A t \in Sessions : Solo(t)' => t = s
  BY <1>1, <1>5, <1>7, <1>8, SoloGoes
<1>10. Exclusive(s)'
  <2>1. Stage(s)' = "lookup"  BY <1>8, <1>9 DEF Stage
  <2>2. Trees(s)'  BY <1>1, <1>3, <2>1 DEF Trees, Sweeping
  <2>3. Counts(s)' BY <1>1, <1>3, <1>8, <1>9, <2>1, BoundAssumption
    DEF Exclusive, Counts, Live, Count, Held, Using, Taken, Walking, Got, Here, Nodes
  <2>4. Homed(s)'  BY <1>1, <1>8, <1>9, <2>1 DEF Exclusive, Homed
  <2>5. Route(s)'  BY <1>3, <1>8, <1>9, <2>1 DEF Route, Stages
  <2>6. Fetching(s)' BY <1>8, <1>9 DEF Fetching, Fetches
  <2>7. Sights(s)'  BY <2>1 DEF Sights
  <2>8. Places(s)'  BY <1>1, <1>3, <1>8, <1>9, <2>1 DEF Places, Here, Alive, Live, Nodes
  <2>9. Walks(s)'   BY <2>1 DEF Walks, Walking, Sweeping
  <2> QED BY <2>2, <2>3, <2>4, <2>5, <2>6, <2>7, <2>8, <2>9 DEF Exclusive
<1> QED BY <1>2, <1>9, <1>10, SoloKeeps

-----------------------------------------------------------------------------
(* resolve_path_.                                                          *)

\* resolve_path_ comes to an end, or has an entry to load.
LEMMA LookupStep ==
    ASSUME Sound, NEW s \in Sessions, Solo(s), Lookup(s)
    PROVE  Sound'
<1>1. /\ World /\ Handled /\ Exclusive(s) /\ hd[s] \in Handlers
      /\ hd[s].pc = "lookup" /\ Alive(Here(s)) /\ Here(s) \in Nodes /\ Live(Here(s))
      /\ UNCHANGED <<tree, node, table, formatted, wd, ousted, Seat>>
  BY SeatSame, SoloHas DEF Lookup, At
<1>2. World'  BY <1>1, WorldSame
<1>3. /\ Stage(s) = "lookup" /\ hd[s].op \in PathOps /\ hd[s].got = << >> /\ hd[s].todo = << >>
      /\ ~hd[s].ok /\ hd[s].new = 0 /\ Proper(tree) /\ ~Taken(s)
  BY <1>1 DEF Stage, Exclusive, Route, Places, Fetching, Fetches, Trees, Sweeping, Taken,
              Walking
<1>4. ASSUME Handled', Solo(s)', \A t \in Sessions : Solo(t)' => t = s,
             Carried(hd'[s], hd[s]), hd'[s].new = 0,
             \/ /\ hd'[s].pc \in {"lock", "unlock"}
                /\ hd'[s].pc = "lock" /\ hd[s].rest # << >> => node[Here(s)].dir
             \/ /\ hd'[s].pc = "load" /\ hd'[s].then = "check"
                /\ hd'[s].want = Entry(Dir(s), Name(s))
                /\ hd'[s].want \in Inodes /\ tree[hd'[s].want].kind # "free"
                /\ node[Here(s)].dir /\ hd[s].rest # << >>
      PROVE  Sound'
  <2>1. Stage(s)' = IF hd'[s].pc = "load" THEN "check" ELSE hd'[s].pc
    BY <1>4 DEF Stage
  <2>2. Trees(s)'  BY <1>1, <1>3, <1>4, <2>1 DEF Trees, Sweeping
  <2>3. Counts(s)'
    <3>1. /\ (Held(s)' <=> Held(s)) /\ (Using(s)' <=> Using(s)) /\ (Taken(s)' <=> Taken(s))
          /\ Here(s)' = Here(s) /\ Got(s)' = Got(s)
      BY <1>3, <1>4, <2>1 DEF Held, Using, Taken, Walking, Here, Got, Carried
    <3>2. Counts(s) /\ \A m \in Nodes : m # hd[s].new  BY <1>1, <1>3 DEF Exclusive, Nodes
    <3> QED BY <1>1, <3>1, <3>2, CountsKept
  <2>4. Homed(s)'  BY <1>1, <1>3, <1>4 DEF Exclusive, Homed, Carried
  <2>5. Route(s)'  BY <1>1, <1>3, <1>4, <2>1 DEF Route, Stages, Carried
  <2>6. Fetching(s)'
    <3>1. "check" \in Fetches /\ {"load", "lock", "unlock"} \cap Fetches = {}
      BY DEF Fetches
    <3>2. CASE hd'[s].pc \in {"lock", "unlock"}  BY <1>4, <3>1, <3>2 DEF Fetching
    <3>3. CASE hd'[s].pc = "load"
      <4>1. hd'[s].then \in Fetches /\ hd'[s].want \in Inodes /\ tree'[hd'[s].want].kind # "free"
        BY <1>1, <1>4, <3>1, <3>3
      <4> QED BY <1>4, <3>1, <3>3, <4>1 DEF Fetching
    <3> QED BY <1>4, <3>2, <3>3
  <2>7. Sights(s)'  BY <1>1, <1>4, <2>1 DEF Sights, Sought, Entry, Dir, Name, Here, Carried
  <2>8. Places(s)'  BY <1>1, <1>3, <1>4, <2>1 DEF Places, Here, Alive, Live, Carried
  <2>9. Walks(s)'   BY <1>4, <2>1 DEF Walks, Walking, Sweeping
  <2>10. Exclusive(s)'
    BY <2>2, <2>3, <2>4, <2>5, <2>6, <2>7, <2>8, <2>9 DEF Exclusive
  <2> QED BY <1>2, <1>4, <2>10, SoloKeeps
<1>5. ASSUME NEW pc \in {"lock", "unlock"}, Step(s, pc),
             pc = "lock" /\ hd[s].rest # << >> => node[Here(s)].dir
      PROVE  Sound'
  <2>1. pc \in Stages  BY DEF Stages
  <2> QED BY <1>1, <1>4, <1>5, <2>1, SoloSteps
<1>6. CASE /\ hd[s].rest # << >> /\ node[Here(s)].dir /\ Entry(Dir(s), Name(s)) # 0
           /\ Goto(s, Load(On(s), Entry(Dir(s), Name(s)), "check"))
  <2> DEFINE i == Entry(Dir(s), Name(s))
  <2>1. Name(s) \in Names \cup Dots  BY <1>1, <1>6 DEF Name, Handlers
  <2>2. i \in Inodes /\ tree[i].kind # "free" BY <1>1, <1>3, <1>6, <2>1, EntryExists DEF Dir
  <2>3. "check" \in Stages  BY DEF Stages
  <2>4. Goto(s, Load(On(s), i, "check"))  BY <1>6
  <2>5. hd[s].rest # << >> /\ node[Here(s)].dir /\ i = Entry(Dir(s), Name(s))  BY <1>6
  <2> HIDE DEF i
  <2> QED BY <1>1, <1>4, <2>2, <2>3, <2>4, <2>5, SoloLoads
<1> QED BY <1>5, <1>6 DEF Lookup

\* resolve_path_ steps down, or is refused, or has found the last component.
LEMMA CheckStep ==
    ASSUME Sound, NEW s \in Sessions, Solo(s), Check(s)
    PROVE  Sound'
<1> DEFINE n == Here(s)
           new == hd[s].new
           stayed == hd[s].stayed \/ new = n
<1>1. /\ World /\ Handled /\ Exclusive(s) /\ hd[s] \in Handlers /\ hd[s].pc = "check"
      /\ n \in Nodes /\ Live(n) /\ new \in Nodes /\ Live(new)
      /\ new # 0 /\ UNCHANGED <<tree, formatted, wd, ousted, Seat>>
  BY SeatSame, SoloHas DEF Check, At, Alive
<1>2. /\ Stage(s) = "check" /\ hd[s].op \in PathOps /\ ~hd[s].ok /\ ~Held(s) /\ wd[s] # 0
      /\ node[n].dir /\ hd[s].rest # << >>
  BY <1>1 DEF Stage, Exclusive, Route, Places, Held, Homed, PathOps, Lasts
<1>3. hd[s].got = << >> /\ hd[s].todo = << >>  BY <1>1, <1>2, Unheld
<1>4. ASSUME NEW gone \in {n, new}, Release(node, gone)
      PROVE  /\ World' /\ Proper(tree') /\ (formatted' => table'[Root] # 0)
             /\ \A m \in Nodes : Live(m)' =>
                   /\ node'[m] = node[m]
                   /\ node'[m].ref = Count(m)'
                         + (IF formatted' /\ node'[m].inode = Root THEN 1 ELSE 0)
                   /\ node'[m].rw = 0
                   /\ ~node'[m].dir => m # gone /\ m = new
             /\ \A m \in Nodes : m # gone /\ Live(m) => Live(m)'
  <2>1. gone \in Nodes /\ Live(gone)  BY <1>1
  <2>2. /\ World' /\ Proper(tree') /\ (formatted' => table'[Root] # 0)
        /\ \A m \in Nodes : Live(m)' =>
              /\ Live(m) /\ node'[m] = node[m]
              /\ node'[m].ref = Count(m)' + (IF formatted' /\ node'[m].inode = Root THEN 1 ELSE 0)
              /\ node'[m].rw = 0
              /\ ~node'[m].dir => m # gone /\ m \in {Here(s), hd[s].new}
        /\ \A m \in Nodes : m # gone /\ Live(m) => Live(m)'
    BY <1>1, <1>2, <1>4, <2>1, UnheldLetsGo
  <2> QED BY <1>2, <2>2
<1>5. ASSUME NEW h \in Handlers, Goto(s, h), h.op = hd[s].op, h.stayed = stayed, ~h.ok,
             h.got = << >>, h.todo = << >>, h.new = 0,
             \/ /\ h.pc \in {"unlock", "lock"} /\ h.node = n /\ h.rest = hd[s].rest
                /\ Release(node, new)
             \/ h.pc = "lookup" /\ h.node = new /\ Release(node, n)
      PROVE  Sound'
  <2>1. h.pc # "idle"  BY <1>5
  <2>2. /\ Handled' /\ hd'[s] = h /\ Solo(s)' /\ \A t \in Sessions : Solo(t)' => t = s
    BY <1>1, <1>5, <2>1, SoloGoes
  <2>3. PICK gone \in {n, new} :
           Release(node, gone) /\ (h.pc = "lookup" <=> ~(h.pc \in {"unlock", "lock"}))
               /\ IF h.pc = "lookup" THEN gone = n /\ h.node = new ELSE gone = new /\ h.node = n
    BY <1>5
  <2>4. /\ World' /\ Proper(tree') /\ (formatted' => table'[Root] # 0)
        /\ \A m \in Nodes : Live(m)' =>
              /\ node'[m] = node[m]
              /\ node'[m].ref = Count(m)' + (IF formatted' /\ node'[m].inode = Root THEN 1 ELSE 0)
              /\ node'[m].rw = 0
              /\ ~node'[m].dir => m # gone /\ m = new
        /\ \A m \in Nodes : m # gone /\ Live(m) => Live(m)'
    BY <1>4, <2>3
  <2>5. Exclusive(s)'
    <3>1. /\ Stage(s)' = h.pc /\ ~Held(s)' /\ ~Taken(s)' /\ Here(s)' = h.node
          /\ h.pc \in {"unlock", "lock", "lookup"}
      BY <1>5, <2>2 DEF Stage, Held, Taken, Walking, Here
    <3>2. Trees(s)'  BY <2>4, <3>1 DEF Trees, Sweeping
    <3>3. Counts(s)'
      <4>1. \A m \in Nodes : Live(m)' =>
                /\ node'[m].ref = Count(m)' + (IF formatted' /\ node'[m].inode = Root THEN 1 ELSE 0)
                /\ node'[m].rw = 0
                /\ ~node'[m].dir => m \in {Here(s)', hd'[s].new}
        BY <2>3, <2>4, <3>1
      <4> QED BY <2>4, <3>1, <4>1, UnheldCounts
    <3>4. Homed(s)'  BY <1>1, <1>2, <1>5, <2>2 DEF Homed, Exclusive
    <3>5. Route(s)'  BY <1>2, <1>5, <2>2, <3>1 DEF Route, Stages
    <3>6. Fetching(s)' BY <1>5, <2>2, <3>1 DEF Fetching, Fetches
    <3>7. Sights(s)'  BY <3>1 DEF Sights
    <3>8. Places(s)'
      <4>1. h.node \in Nodes /\ (Live(h.node)' \/ h.stayed)
        BY <1>1, <1>5, <2>3, <2>4
      <4>2. Alive(Here(s))' \/ Excused(s)'
        <5>1. h.stayed => Excused(s)'  BY <2>2 DEF Excused
        <5>2. Live(h.node)' => Alive(Here(s))'  BY <2>2, <4>1 DEF Alive, Live, Nodes, Here
        <5> QED BY <4>1, <5>1, <5>2
      <4>3. node'[n].inode # 0 => node'[n].dir
        BY <1>1, <1>2, <2>4 DEF Live
      <4>4. h.pc = "lock" => Here(s)' = n  BY <2>3, <3>1
      <4> QED BY <1>2, <1>5, <2>2, <3>1, <4>2, <4>3, <4>4 DEF Places, Alive
    <3>9. Walks(s)'   BY <3>1 DEF Walks, Walking, Sweeping
    <3> QED BY <3>2, <3>3, <3>4, <3>5, <3>6, <3>7, <3>8, <3>9 DEF Exclusive
  <2> QED BY <2>2, <2>4, <2>5, SoloKeeps
<1>6. stayed \in BOOLEAN /\ On(s) \in Handlers /\ Carried(On(s), hd[s]) /\ On(s).new = 0
  BY <1>1, OnFields DEF Handlers
<1> DEFINE o == [On(s) EXCEPT !.stayed = stayed]
<1>7. /\ o \in Handlers /\ o.op = hd[s].op /\ o.rest = hd[s].rest /\ o.node = n
      /\ o.stayed = stayed /\ ~o.ok /\ o.got = << >> /\ o.todo = << >> /\ o.new = 0
  <2> DEFINE g == On(s)
             b == stayed
  <2>1. g \in Handlers /\ b \in BOOLEAN /\ Carried(g, hd[s]) /\ g.new = 0  BY <1>6
  <2> HIDE DEF g, b, stayed
  <2>2. o = [g EXCEPT !.stayed = b]  BY DEF g, b
  <2> HIDE DEF o
  <2>3. o \in Handlers  BY <2>1, <2>2 DEF Handlers
  <2>4. /\ o.op = g.op /\ o.rest = g.rest /\ o.node = g.node
        /\ o.stayed = b /\ o.ok = g.ok /\ o.got = g.got /\ o.todo = g.todo /\ o.new = g.new
    BY <2>1, <2>2 DEF Handlers
  <2> QED BY <1>2, <1>3, <2>1, <2>3, <2>4 DEF Carried, b, Here
<1>8. \/ Release(node, new) /\ \E pc \in {"unlock", "lock"} : Goto(s, [o EXCEPT !.pc = pc])
      \/ /\ Release(node, n)
         /\ Goto(s, [o EXCEPT !.pc = "lookup", !.node = new, !.rest = Tail(hd[s].rest)])
  <2>1. [On(s) EXCEPT !.stayed = @ \/ new = Here(s)] = o
    BY <1>6 DEF Handlers, Carried
  <2>2. o.rest = hd[s].rest  BY <1>7
  <2> QED BY <1>7, <2>1, <2>2 DEF Check
<1> HIDE DEF o
<1>9. ASSUME NEW pc \in {"unlock", "lock"}, Goto(s, [o EXCEPT !.pc = pc]), Release(node, new)
      PROVE  Sound'
  <2> DEFINE h == [o EXCEPT !.pc = pc]
  <2>1. Goto(s, h)  BY <1>9
  <2>2. h \in Handlers  BY <1>7, <1>9 DEF Handlers, Stages
  <2>3. /\ h.pc = pc /\ h.op = o.op /\ h.rest = o.rest /\ h.node = o.node /\ h.stayed = o.stayed
        /\ h.ok = o.ok /\ h.got = o.got /\ h.todo = o.todo /\ h.new = o.new
    BY <1>7 DEF Handlers
  <2> HIDE DEF h, stayed
  <2> QED BY <1>5, <1>7, <1>9, <2>1, <2>2, <2>3
<1>10. CASE /\ Release(node, n)
            /\ Goto(s, [o EXCEPT !.pc = "lookup", !.node = new, !.rest = Tail(hd[s].rest)])
  <2> DEFINE r == Tail(hd[s].rest)
             h == [o EXCEPT !.pc = "lookup", !.node = new, !.rest = r]
  <2>1. Goto(s, h)  BY <1>10
  <2>2. r \in Seq(Names \cup Dots)
    <3>1. hd[s].rest \in Seq(Names \cup Dots)  BY <1>1 DEF Handlers
    <3> QED BY <1>2, <3>1
  <2>3. new \in 0 .. MaxNode  BY <1>1 DEF Handlers
  <2> HIDE DEF r
  <2>4. h \in Handlers
    <3>1. "lookup" \in Stages  BY DEF Stages
    <3> QED BY <1>7, <2>2, <2>3, <3>1 DEF Handlers
  <2>5. /\ h.pc = "lookup" /\ h.op = o.op /\ h.node = new /\ h.stayed = o.stayed
        /\ h.ok = o.ok /\ h.got = o.got /\ h.todo = o.todo /\ h.new = o.new
    BY <1>7 DEF Handlers
  <2> HIDE DEF h, stayed
  <2> QED BY <1>5, <1>7, <1>10, <2>1, <2>4, <2>5
<1> QED BY <1>8, <1>9, <1>10

-----------------------------------------------------------------------------
(* TRYLOCK, the work, UNLOCK.                                              *)

\* The name is locked: the work begins.
LEMMA TryLockAlone ==
    ASSUME Sound, NEW s \in Sessions, Solo(s), TryLock(s)
    PROVE  Sound'
<1> DEFINE n == Here(s)
           write == Writes(hd[s].op)
<1>1. /\ World /\ Handled /\ Exclusive(s) /\ hd[s] \in Handlers /\ hd[s].pc = "lock"
      /\ n \in Nodes /\ Live(n) /\ Alive(n)
      /\ UNCHANGED <<tree, table, formatted, wd, ousted, Seat>>
  BY SeatSame, SoloHas DEF TryLock, At
<1>2. /\ Stage(s) = "lock" /\ hd[s].op \in PathOps /\ hd[s].got = << >> /\ hd[s].todo = << >>
      /\ ~hd[s].ok /\ hd[s].new = 0 /\ Proper(tree) /\ ~Taken(s) /\ ~Held(s) /\ ~Using(s)
  BY <1>1 DEF Stage, Exclusive, Route, Places, Fetching, Fetches, Trees, Sweeping, Taken,
              Walking, Held, Using
<1>3. \A m \in Nodes : Live(m) => node[m].rw = 0
  BY <1>1, <1>2 DEF Exclusive, Counts, Got, Range
<1>4. node[n].rw = 0 /\ Lockable(node[n].rw, write)  BY <1>1, <1>3 DEF Lockable
<1>5. CASE ~Suits(s)
  <2>1. node' = node /\ Step(s, "unlock")  BY <1>5 DEF TryLock
  <2>2. World'  BY <1>1, <2>1, WorldSame
  <2>3. "unlock" \in Stages  BY DEF Stages
  <2>4. /\ Handled' /\ Solo(s)' /\ \A t \in Sessions : Solo(t)' => t = s
        /\ Carried(hd'[s], hd[s]) /\ hd'[s].pc = "unlock" /\ hd'[s].new = 0
    BY <1>1, <2>1, <2>3, SoloSteps
  <2>5. Exclusive(s)'
    <3>1. Stage(s)' = "unlock"  BY <2>4 DEF Stage
    <3>2. Trees(s)'  BY <1>1, <1>2, <3>1 DEF Trees, Sweeping
    <3>3. Counts(s)'
      <4>1. (Held(s)' <=> Held(s)) /\ (Taken(s)' <=> Taken(s))
        BY <1>1, <1>2, <2>4, <3>1 DEF Held, Taken, Walking, Carried
      <4>2. Counts(s) /\ UNCHANGED <<node, table, formatted, Seat>>  BY <1>1, <2>1 DEF Exclusive
      <4> QED BY <1>2, <2>4, <4>1, <4>2, CountsCarried
    <3>4. Homed(s)'  BY <1>1, <1>2, <2>4 DEF Exclusive, Homed, Carried
    <3>5. Route(s)'  BY <1>2, <2>4, <3>1 DEF Route, Stages, Carried
    <3>6. Fetching(s)' BY <2>4 DEF Fetching, Fetches
    <3>7. Sights(s)'  BY <3>1 DEF Sights
    <3>8. Places(s)'  BY <1>1, <1>2, <2>1, <2>4, <3>1 DEF Places, Here, Alive, Live, Carried
    <3>9. Walks(s)'   BY <3>1 DEF Walks, Walking, Sweeping
    <3> QED BY <3>2, <3>3, <3>4, <3>5, <3>6, <3>7, <3>8, <3>9 DEF Exclusive
  <2> QED BY <2>2, <2>4, <2>5, SoloKeeps
<1>6. CASE Suits(s)
  <2> DEFINE o == On(s)
             h == [o EXCEPT !.pc = "work", !.ok = TRUE]
  <2>1. /\ node' = [node EXCEPT ![n].rw = Locked(@, write),
                                ![n].ref = IF Opens(hd[s].op) THEN @ + 1 ELSE @]
        /\ Goto(s, h)
    BY <1>4, <1>6 DEF TryLock
  <2>2. o \in Handlers /\ Carried(o, hd[s]) /\ o.new = 0  BY <1>1, OnFields
  <2> HIDE DEF o
  <2>3. h \in Handlers
    <3>1. "work" \in Stages  BY DEF Stages
    <3> QED BY <2>2, <3>1 DEF Handlers
  <2>4. /\ h.pc = "work" /\ h.op = hd[s].op /\ h.rest = hd[s].rest /\ h.node = hd[s].node
        /\ h.todo = << >> /\ h.got = << >> /\ h.ok /\ h.new = 0 /\ h.stayed = hd[s].stayed
    BY <1>2, <2>2 DEF Handlers, Carried
  <2> HIDE DEF h
  <2>5. /\ Handled' /\ hd'[s] = h /\ Solo(s)' /\ \A t \in Sessions : Solo(t)' => t = s
    BY <1>1, <2>1, <2>3, <2>4, SoloGoes
  <2>6. /\ node' \in NodeType /\ \A m \in Nodes : m # n => node'[m] = node[m]
        /\ node'[n].inode = node[n].inode /\ node'[n].dir = node[n].dir
        /\ node'[n].rw = (IF write THEN -1 ELSE 1)
        /\ node'[n].ref = node[n].ref + (IF Opens(hd[s].op) THEN 1 ELSE 0)
    <3> DEFINE rw == Locked(node[n].rw, write)
               ref == IF Opens(hd[s].op) THEN node[n].ref + 1 ELSE node[n].ref
    <3>1. node \in NodeType /\ node[n].ref \in Int  BY <1>1 DEF World, NodeType
    <3>2. rw = IF write THEN -1 ELSE 1  BY <1>4 DEF Locked
    <3>3. ref = node[n].ref + (IF Opens(hd[s].op) THEN 1 ELSE 0)  BY <3>1
    <3>4. Counted(n, rw, ref)  BY <1>1, <2>1, <3>1 DEF NodeType, Counted
    <3> HIDE DEF rw, ref, n, write
    <3>0. n \in Nodes  BY <1>1
    <3>5. rw \in Int /\ ref \in Int  BY <3>1, <3>2, <3>3
    <3>6. /\ node' \in NodeType /\ \A m \in Nodes : m # n => node'[m] = node[m]
          /\ node'[n].inode = node[n].inode /\ node'[n].dir = node[n].dir
          /\ node'[n].rw = rw /\ node'[n].ref = ref
      BY <3>0, <3>1, <3>4, <3>5, Recount
    <3> QED BY <3>2, <3>3, <3>6
  <2>7. World' /\ \A m \in Nodes : Live(m)' <=> Live(m)
    <3>1. \A m \in Nodes : /\ node'[m].inode = node[m].inode /\ node'[m].dir = node[m].dir
                           /\ ~Live(m) => node'[m] = Dead
      BY <1>1, <2>6 DEF World
    <3> QED BY <1>1, <2>6, <3>1, Recounted DEF World
  <2>8. Exclusive(s)'
    <3>1. Stage(s)' = "work" /\ Here(s)' = n /\ Held(s)' /\ ~Taken(s)' /\ ~Sweeping(s)'
          /\ (Using(s)' <=> Opens(hd[s].op)) /\ Got(s)' = {} /\ hd'[s].new = 0
      BY <2>4, <2>5 DEF Stage, Here, Held, Taken, Walking, Sweeping, Using, Got, Range
    <3>2. Trees(s)'  BY <1>1, <1>2, <3>1 DEF Trees
    <3>3. Counts(s)'
      <4>1. formatted' => table'[Root] # 0  BY <1>1, <1>2 DEF Exclusive, Counts
      <4>2. ASSUME NEW m \in Nodes, Live(m)
            PROVE  /\ node'[m].ref = Count(m)'
                        + (IF Using(s)' /\ m = Here(s)' THEN 1 ELSE 0)
                        + (IF formatted' /\ node'[m].inode = Root /\ ~Taken(s)' THEN 1 ELSE 0)
                   /\ node'[m].rw \in {-1, 0, 1}
                   /\ node'[m].rw # 0 => m = n
                   /\ ~node'[m].dir => m = n
        <5>1. /\ node[m].ref = Count(m)
                      + (IF formatted /\ node[m].inode = Root THEN 1 ELSE 0)
              /\ ~node[m].dir => m = n
          BY <1>1, <1>2, <4>2, CountIsNat DEF Exclusive, Counts, Got, Range, Nodes
        <5>2. Count(m) \in Nat /\ Count(m)' = Count(m)  BY <1>1, CountIsNat DEF Count
        <5>3. node[m].rw = 0  BY <1>3, <4>2
        <5>4. CASE m = n  BY <1>1, <2>6, <3>1, <5>1, <5>2, <5>4
        <5>5. CASE m # n  BY <1>1, <2>6, <3>1, <5>1, <5>2, <5>3, <5>5
        <5> QED BY <5>4, <5>5
      <4> QED BY <2>7, <3>1, <4>1, <4>2 DEF Counts
    <3>4. Homed(s)'  BY <1>1, <2>4, <2>5, <3>1 DEF Exclusive, Homed
    <3>5. Route(s)'  BY <1>2, <2>4, <2>5, <3>1 DEF Route, Stages
    <3>6. Fetching(s)' BY <2>4, <2>5 DEF Fetching, Fetches
    <3>7. Sights(s)'  BY <3>1 DEF Sights
    <3>8. Places(s)'
      <4>1. n # 0 /\ node'[n].inode # 0  BY <1>1, <2>7 DEF Alive, Live
      <4>2. hd[s].op \in {"mk", "rm", "rmdir"} => hd[s].rest # << >>  BY <1>6 DEF Suits
      <4>3. hd[s].rest # << >> \/ hd[s].op = "cd" => node[n].dir
        BY <1>1, <1>2, <1>6 DEF Exclusive, Places, Suits
      <4>4. hd[s].op = "rmdir" => node'[n].rw = -1  BY <2>6 DEF Writes
      <4> QED BY <1>2, <2>4, <2>5, <2>6, <3>1, <4>1, <4>2, <4>3, <4>4 DEF Places, Alive
    <3>9. Walks(s)'   BY <3>1 DEF Walks, Walking
    <3> QED BY <3>2, <3>3, <3>4, <3>5, <3>6, <3>7, <3>8, <3>9 DEF Exclusive
  <2> QED BY <2>5, <2>7, <2>8, SoloKeeps
<1> QED BY <1>5, <1>6

\* The work of a request that runs alone.
LEMMA WorkAlone ==
    ASSUME Sound, NEW s \in Sessions, Solo(s), Work(s)
    PROVE  Sound'
<1>1. /\ World /\ Handled /\ Exclusive(s) /\ hd[s] \in Handlers /\ hd[s].pc = "work"
      /\ Here(s) \in Nodes /\ Live(Here(s)) /\ Alive(Here(s)) /\ Step(s, "unlock")
      /\ hd[s].op # "cd"
      /\ UNCHANGED <<node, table, formatted, wd, ousted, Seat>>
  BY SeatSame, SoloHas DEF Work, Working, At
<1>2. /\ Stage(s) = "work" /\ hd[s].op \in PathOps /\ hd[s].got = << >> /\ hd[s].todo = << >>
      /\ hd[s].ok /\ hd[s].new = 0 /\ Proper(tree) /\ ~Taken(s)
  BY <1>1
    DEF Stage, Exclusive, Route, Places, Fetching, Fetches, Trees, Sweeping, Taken, Walking
<1>3. World' /\ Proper(tree')
  <2>1. CASE UNCHANGED tree  BY <1>1, <1>2, <2>1, WorldSame
  <2>2. CASE hd[s].op \in {"mk", "rm"} /\ (MakeEntry(s) \/ RemoveFile(s))
    <3>1. hd[s].rest # << >> /\ node[Here(s)].dir  BY <1>1, <1>2, <2>2 DEF Exclusive, Places
    <3>2. Name(s) \in Names \cup Dots  BY <1>1, <3>1 DEF Name, Handlers
    <3>3. \A n \in Nodes : Live(n) => node[n].dir
      BY <1>1, <1>2, <3>1 DEF Exclusive, Counts, Got, Range, Nodes
    <3> QED BY <1>1, <1>2, <2>2, <3>1, <3>2, <3>3, MadeTree, RemovedTree
  <2>3. hd[s].op # "rename"  BY <1>2 DEF PathOps, Lasts
  <2> QED BY <2>1, <2>2, <2>3 DEF Work
<1>4. "unlock" \in Stages  BY DEF Stages
<1>5. /\ Handled' /\ Solo(s)' /\ \A t \in Sessions : Solo(t)' => t = s
      /\ Carried(hd'[s], hd[s]) /\ hd'[s].pc = "unlock" /\ hd'[s].new = 0
  BY <1>1, <1>4, SoloSteps
<1>6. Counts(s)'
  <2>1. (Held(s)' <=> Held(s)) /\ (Taken(s)' <=> Taken(s))
    BY <1>1, <1>2, <1>5 DEF Held, Taken, Walking, Carried, Stage
  <2>2. Counts(s) /\ UNCHANGED <<node, table, formatted, Seat>>  BY <1>1 DEF Exclusive
  <2> QED BY <1>2, <1>5, <2>1, <2>2, CountsCarried
<1>7. Homed(s)' /\ Alive(Here(s))'  BY <1>1, <1>5 DEF Exclusive, Homed, Carried, Here, Alive
<1>8. hd'[s].op \in PathOps /\ hd'[s].got = << >> /\ hd'[s].todo = << >>
  BY <1>2, <1>5 DEF Carried
<1> QED BY <1>3, <1>5, <1>6, <1>7, <1>8, Unlocks

\* The session moves to the directory of the path.
LEMMA ChangeStep ==
    ASSUME Sound, Ousts, NEW s \in Sessions, Solo(s), Change(s)
    PROVE  Sound'
<1>1. PICK n \in Nodes, old \in Nodes :
          /\ World /\ Handled /\ Exclusive(s) /\ hd[s] \in Handlers
          /\ hd[s].pc = "work" /\ hd[s].op = "cd" /\ n = Here(s) /\ Live(n)
          /\ old = Seat[s] /\ Live(old) /\ Step(s, "unlock")
          /\ UNCHANGED <<tree, formatted, ousted>> /\ s \notin ousted
          /\ wd' = [wd EXCEPT ![s] = n] /\ Seat' = [Seat EXCEPT ![s] = n]
          /\ IF old = n THEN UNCHANGED <<node, table>>
             ELSE Release([node EXCEPT ![old].ref = @ - 1, ![old].rw = Unlocked(@),
                                       ![n].ref = @ + 1], old)
  <2>1. hd[s].op = "cd" /\ Handled  BY SoloHas DEF Change, Working
  <2>2. s \notin ousted /\ Seat[s] = wd[s]
    BY <2>1, NoneTaken, NotOusted DEF Change, Taken
  <2>3. Seat[s] \in Nodes /\ Live(Seat[s])
    BY <2>2, SoloHas DEF Change, World, Alive, Live, Nodes
  <2>4. wd' = [wd EXCEPT ![s] = Here(s)] /\ ousted' = ousted  BY DEF Change, Working
  <2>5. Seat' = [Seat EXCEPT ![s] = Here(s)]  BY <2>2, <2>4, SeatMoves DEF Ousts
  <2> QED BY <2>2, <2>3, <2>4, <2>5, SoloHas DEF Change, Working, At
<1>2. /\ Stage(s) = "work" /\ hd[s].op \in PathOps /\ hd[s].ok /\ hd[s].new = 0
      /\ hd[s].got = << >> /\ hd[s].todo = << >> /\ Proper(tree) /\ node[n].dir
      /\ Held(s) /\ ~Using(s) /\ ~Taken(s) /\ Got(s) = {}
  <2>1. /\ Stage(s) = "work" /\ hd[s].op \in PathOps /\ hd[s].new = 0
        /\ hd[s].got = << >> /\ hd[s].todo = << >> /\ Proper(tree)
    BY <1>1 DEF Stage, Exclusive, Places, Fetching, Fetches, Trees, Sweeping, PathOps
  <2>2. Alive(n)  BY <1>1 DEF Alive, Live, Nodes
  <2>3. hd[s].ok /\ node[n].dir  BY <1>1, <2>1, <2>2 DEF Exclusive, Places
  <2> QED BY <1>1, <2>1, <2>3 DEF Held, Using, Opens, Taken, Got, Range, Walking
<1>3. /\ formatted => table[Root] # 0
      /\ formatted \in BOOLEAN /\ node \in NodeType /\ Seat \in [Sessions -> 0 .. MaxNode]
      /\ \A m \in Nodes : Live(m) =>
            /\ node[m].ref = Count(m) + (IF formatted /\ node[m].inode = Root THEN 1 ELSE 0)
            /\ node[m].rw \in {-1, 0, 1} /\ (node[m].rw # 0 => m = n)
            /\ ~node[m].dir => m = n
  <2>1. (formatted => table[Root] # 0) /\ formatted \in BOOLEAN /\ node \in NodeType
        /\ Seat \in [Sessions -> 0 .. MaxNode]
    BY <1>1, <1>2 DEF Exclusive, Counts, World
  <2>2. ASSUME NEW m \in Nodes, Live(m)
        PROVE  /\ node[m].ref = Count(m) + (IF formatted /\ node[m].inode = Root THEN 1 ELSE 0)
               /\ node[m].rw \in {-1, 0, 1} /\ (node[m].rw # 0 => m = n)
               /\ ~node[m].dir => m = n
    <3>1. Count(m) \in Nat /\ m # 0  BY CountIsNat DEF Nodes
    <3> QED BY <1>1, <1>2, <2>2, <3>1 DEF Exclusive, Counts
  <2> QED BY <2>1, <2>2
<1>4. "unlock" \in Stages  BY DEF Stages
<1>5. /\ Handled' /\ Solo(s)' /\ \A t \in Sessions : Solo(t)' => t = s
      /\ Carried(hd'[s], hd[s]) /\ hd'[s].pc = "unlock" /\ hd'[s].new = 0
  BY <1>1, <1>4, SoloSteps
<1>6. /\ hd'[s].op = "cd" /\ hd'[s].op \in PathOps /\ hd'[s].got = << >> /\ hd'[s].todo = << >>
      /\ Held(s)' /\ ~Using(s)' /\ ~Taken(s)' /\ Here(s)' = n /\ Got(s)' = {}
  BY <1>1, <1>2, <1>5 DEF Carried, Held, Using, Opens, Taken, Walking, Here, Stage, Got, Range
<1>7. /\ World' /\ (formatted' => table'[Root] # 0) /\ Live(n)' /\ Seat'[s] # 0
      /\ \A m \in Nodes : Live(m)' =>
            /\ node'[m].ref = Count(m)' + (IF formatted' /\ node'[m].inode = Root THEN 1 ELSE 0)
            /\ node'[m].rw \in {-1, 0, 1} /\ (node'[m].rw # 0 => m = n)
            /\ ~node'[m].dir => m = n
  <2>1. CASE old = n
    <3>1. Seat' = Seat /\ UNCHANGED <<node, table>> /\ Seat'[s] # 0
      <4>1. Seat' = [Seat EXCEPT ![s] = Seat[s]] /\ UNCHANGED <<node, table>> /\ Seat[s] # 0
        BY <1>1, <2>1 DEF Nodes
      <4>2. Seat' = Seat  BY <1>3, <4>1
      <4> QED BY <4>1, <4>2
    <3>2. World'  BY <1>1, <3>1, WorldSame
    <3>3. \A m \in Nodes : Count(m)' = Count(m) /\ (Live(m)' <=> Live(m)) /\ node'[m] = node[m]
      BY <3>1 DEF Live, Count
    <3> QED BY <1>1, <1>3, <3>1, <3>2, <3>3
  <2>2. CASE old # n
    <3> DEFINE rwo == Unlocked(node[old].rw)
               refo == node[old].ref - 1
               rwn == node[n].rw
               refn == node[n].ref + 1
    <3>1. rwo = 0 /\ rwn \in {-1, 0, 1} /\ refo \in Int /\ refn \in Int
      BY <1>1, <1>3, <2>2 DEF Unlocked, NodeType
    <3>2. PICK mid : mid = CountsOf(node, old, rwo, refo)  OBVIOUS
    <3>3. PICK ns : ns = CountsOf(mid, n, rwn, refn)  OBVIOUS
    <3>4. [node EXCEPT ![old].ref = @ - 1, ![old].rw = Unlocked(@), ![n].ref = @ + 1] = ns
      BY <1>1, <1>3, <2>2, <3>2, <3>3 DEF CountsOf, NodeType
    <3>5. Release(ns, old)  BY <1>1, <2>2, <3>4
    <3> HIDE DEF rwo, refo, rwn, refn
    <3>6. /\ mid \in NodeType /\ \A m \in Nodes : m # old => mid[m] = node[m]
          /\ mid[old].inode = node[old].inode /\ mid[old].dir = node[old].dir
          /\ mid[old].rw = rwo /\ mid[old].ref = refo
      <4>1. node \in NodeType /\ rwo \in Int /\ refo \in Int /\ old \in Nodes  BY <1>3, <3>1
      <4>2. Anew(mid, node, old, rwo, refo)  BY <3>2, <4>1, CountsOfFields
      <4> QED BY <4>2 DEF Anew
    <3>7. /\ ns \in NodeType /\ \A m \in Nodes : m # n => ns[m] = mid[m]
          /\ ns[n].inode = mid[n].inode /\ ns[n].dir = mid[n].dir
          /\ ns[n].rw = rwn /\ ns[n].ref = refn
      <4>1. mid \in NodeType /\ rwn \in Int /\ refn \in Int /\ n \in Nodes  BY <3>1, <3>6
      <4>2. Anew(ns, mid, n, rwn, refn)  BY <3>3, <4>1, CountsOfFields
      <4> QED BY <4>2 DEF Anew
    <3>8. /\ \A m \in Nodes : m # n /\ m # old => ns[m] = node[m]
          /\ \A m \in Nodes : ns[m].inode = node[m].inode /\ ns[m].dir = node[m].dir
          /\ ns[old].rw = 0 /\ ns[old].ref = node[old].ref - 1
          /\ ns[n].rw = node[n].rw /\ ns[n].ref = node[n].ref + 1
      BY <2>2, <3>1, <3>6, <3>7 DEF refo, refn, rwn
    <3>9. /\ Seat' \in [Sessions -> 0 .. MaxNode] /\ Seat'[s] = n
          /\ \A t \in Sessions : t # s => Seat'[t] = Seat[t]
          /\ Count(n)' = Count(n) + 1 /\ Count(old)' = Count(old) - 1
          /\ \A m \in Nodes : m # n /\ m # old => Count(m)' = Count(m)
      <4>1. n \in 0 .. MaxNode /\ old \in 0 .. MaxNode /\ Moves(s, n)
        BY <1>1 DEF Nodes, Moves
      <4> QED BY <1>1, <1>3, <2>2, <4>1, CountMoves
    <3>10. ASSUME NEW m \in Nodes, Live(m)
           PROVE  /\ ns[m].ref = Count(m)' + (IF formatted' /\ ns[m].inode = Root THEN 1 ELSE 0)
                  /\ ns[m].rw \in {-1, 0, 1} /\ (ns[m].rw # 0 => m = n)
                  /\ ~ns[m].dir => m = n
      <4>1. Count(m) \in Nat  BY CountIsNat
      <4>2. CASE m = n  BY <1>1, <1>3, <3>8, <3>9, <3>10, <4>1, <4>2
      <4>3. CASE m = old
        <5>1. ns[m].ref = Count(m)' + (IF formatted' /\ ns[m].inode = Root THEN 1 ELSE 0)
          BY <1>1, <1>3, <2>2, <3>8, <3>9, <3>10, <4>1, <4>3
        <5>2. ns[m].rw = 0 /\ (~ns[m].dir => m = n)
          BY <1>1, <1>3, <2>2, <3>8, <3>10, <4>3
        <5> QED BY <5>1, <5>2
      <4>4. CASE m # n /\ m # old  BY <1>1, <1>3, <3>8, <3>9, <3>10, <4>1, <4>4
      <4> QED BY <4>2, <4>3, <4>4
    <3>11. (\E t \in Sessions : Seat'[t] = old) => Count(old)' > 0
      <4>1. Count(old)' = Cardinality({u \in Sessions : Seat'[u] = old})  BY DEF Count
      <4>2. ASSUME NEW t \in Sessions, Seat'[t] = old PROVE Count(old)' > 0
        BY <4>1, <4>2, SomeCounted
      <4> QED BY <4>2
    <3>12. ns[old].ref = Count(old)' + (IF formatted' /\ ns[old].inode = Root THEN 1 ELSE 0)
      BY <1>1, <3>10
    <3>13. /\ World'
           /\ \A m \in Nodes : m # old => node'[m] = ns[m]
           /\ ns[old].ref > 0 => node' = ns /\ table' = table
           /\ ~(ns[old].ref > 0) => /\ node'[old] = Dead
                                    /\ table' = [table EXCEPT ![node[old].inode] = 0]
      <4>1. \A m \in Nodes : /\ ns[m].inode = node[m].inode /\ ns[m].dir = node[m].dir
                             /\ ~Live(m) => ns[m] = Dead
        BY <1>1, <3>8 DEF World
      <4>2. Count(old) \in Nat /\ ns[old].ref \in Int  BY <3>7, CountIsNat DEF NodeType
      <4>3. (\E t \in Sessions : Seat'[t] = old) => ns[old].ref > 0
        BY <3>9, <3>11, <3>12, <4>2
      <4>4. \A t \in Sessions : Seat'[t] # 0 =>
                Live(Seat'[t]) /\ node[Seat'[t]].dir /\ (Seat'[t] = old => ns[old].ref > 0)
        BY <1>1, <1>2, <3>9, <4>3 DEF World
      <4> QED BY <1>1, <3>5, <3>7, <3>9, <4>1, <4>4, Released
    <3>14. formatted' => table'[Root] # 0
      <4>1. formatted /\ node[old].inode = Root => ns[old].ref > 0
        <5>1. Count(old) \in Nat /\ Count(old) > 0  BY <1>1, CountIsNat, CountAtHome
        <5> QED BY <1>1, <3>8, <3>9, <3>12, <5>1
      <4>2. table \in [Inodes -> 0 .. MaxNode] /\ Root \in Inodes
        BY <1>1, BoundAssumption DEF World, Inodes, Root
      <4> QED BY <1>1, <1>3, <3>13, <4>1, <4>2
    <3>15. ASSUME NEW m \in Nodes, Live(m)' PROVE Live(m) /\ node'[m] = ns[m]
      <4>1. CASE ns[old].ref > 0  BY <3>8, <3>13, <3>15, <4>1 DEF Live
      <4>2. CASE ~(ns[old].ref > 0)  BY <3>8, <3>13, <3>15, <4>2 DEF Live, Dead
      <4> QED BY <4>1, <4>2
    <3>16. Live(n)' /\ Seat'[s] # 0  BY <1>1, <2>2, <3>8, <3>9, <3>13 DEF Live, Nodes
    <3> QED BY <3>10, <3>13, <3>14, <3>15, <3>16
  <2> QED BY <2>1, <2>2
<1>8. Counts(s)'
  <2>1. ASSUME NEW m \in Nodes, Live(m)'
        PROVE  /\ node'[m].ref = Count(m)' + (IF Using(s)' /\ m = Here(s)' THEN 1 ELSE 0)
                       + (IF formatted' /\ node'[m].inode = Root /\ ~Taken(s)' THEN 1 ELSE 0)
               /\ node'[m].rw \in {-1, 0, 1}
               /\ node'[m].rw # 0 => (Held(s)' /\ m = Here(s)') \/ m \in Got(s)'
               /\ ~node'[m].dir => m \in {Here(s)', hd'[s].new} \cup Got(s)'
    <3>1. Count(m)' \in Nat
      <4>1. Count(m)' = Cardinality({u \in Sessions : Seat'[u] = m})  BY DEF Count
      <4> QED BY <4>1, FS_Subset, FS_CardinalityType, BoundAssumption
    <3> QED BY <1>6, <1>7, <2>1, <3>1
  <2> QED BY <1>7, <2>1 DEF Counts
<1>9. Homed(s)'
  <2>1. wd'[s] # 0  BY <1>1 DEF Ousts, Nodes
  <2> QED BY <1>1, <1>6, <2>1 DEF Homed, PathOps, Lasts
<1>10. Alive(Here(s))'  BY <1>6, <1>7 DEF Alive, Live, Nodes
<1>11. Proper(tree')  BY <1>1, <1>2
<1> QED BY <1>5, <1>6, <1>7, <1>8, <1>9, <1>10, <1>11, Unlocks

\* remove_dir has the entry to load.
LEMMA RemoveDirStep ==
    ASSUME Sound, NEW s \in Sessions, Solo(s), RemoveDir(s)
    PROVE  Sound'
<1>1. /\ World /\ Handled /\ Exclusive(s) /\ hd[s] \in Handlers
      /\ hd[s].pc = "work" /\ hd[s].op = "rmdir" /\ Here(s) \in Nodes /\ Live(Here(s))
      /\ Alive(Here(s))
      /\ UNCHANGED <<tree, node, table, formatted, wd, ousted, Seat>>
  BY SeatSame, SoloHas DEF RemoveDir, Working, At
<1>2. World'  BY <1>1, WorldSame
<1>3. /\ Stage(s) = "work" /\ hd[s].got = << >> /\ hd[s].todo = << >> /\ hd[s].new = 0
      /\ hd[s].ok /\ Proper(tree) /\ hd[s].rest # << >> /\ node[Here(s)].dir
      /\ node[Here(s)].rw = -1
  BY <1>1 DEF Stage, Exclusive, Places, Fetching, Fetches, Trees, Sweeping, PathOps, Lasts
<1> DEFINE i == Entry(Dir(s), Name(s))
<1>4. Name(s) \in Names \cup Dots  BY <1>1, <1>3 DEF Name, Handlers
<1>5. i \in Inodes /\ tree[i].kind # "free"
  BY <1>1, <1>3, <1>4, EntryExists DEF Dir, RemoveDir
<1>6. "permit" \in Stages /\ Goto(s, Load(On(s), i, "permit"))  BY DEF Stages, RemoveDir
<1>7. i = Entry(Dir(s), Name(s))  OBVIOUS
<1> HIDE DEF i
<1>8. /\ Handled' /\ Solo(s)' /\ \A t \in Sessions : Solo(t)' => t = s
      /\ Carried(hd'[s], hd[s])
      /\ hd'[s].pc = "load" /\ hd'[s].new = 0 /\ hd'[s].want = i /\ hd'[s].then = "permit"
  BY <1>1, <1>5, <1>6, SoloLoads
<1>9. Exclusive(s)'
  <2>1. Stage(s)' = "permit"  BY <1>8 DEF Stage
  <2>2. Trees(s)'  BY <1>1, <1>3, <2>1 DEF Trees, Sweeping
  <2>3. Counts(s)'
    <3>1. (Held(s)' <=> Held(s)) /\ (Taken(s)' <=> Taken(s))
      BY <1>1, <1>3, <1>8, <2>1 DEF Held, Taken, Walking, Carried
    <3>2. Counts(s) /\ UNCHANGED <<node, table, formatted, Seat>>  BY <1>1 DEF Exclusive
    <3> QED BY <1>3, <1>8, <3>1, <3>2, CountsCarried
  <2>4. Homed(s)'  BY <1>1, <1>8, <2>1 DEF Exclusive, Homed, Carried
  <2>5. Route(s)'  BY <1>1, <1>8, <2>1 DEF Route, Stages, Carried
  <2>6. Fetching(s)'
    <3>1. "permit" \in Fetches /\ "load" \notin Fetches  BY DEF Fetches
    <3> QED BY <1>1, <1>5, <1>8, <3>1 DEF Fetching
  <2>7. Sights(s)'
    BY <1>1, <1>7, <1>8, <2>1 DEF Sights, Sought, Entry, Dir, Name, Here, Carried
  <2>8. Places(s)'  BY <1>1, <1>3, <1>8, <2>1
    DEF Places, Here, Alive, Live, Carried, PathOps, Lasts
  <2>9. Walks(s)'   BY <2>1 DEF Walks, Walking, Sweeping
  <2> QED BY <2>2, <2>3, <2>4, <2>5, <2>6, <2>7, <2>8, <2>9 DEF Exclusive
<1> QED BY <1>2, <1>8, <1>9, SoloKeeps

\* The node is unlocked, and given back if a file was open.
LEMMA UnlockAlone ==
    ASSUME Sound, NEW s \in Sessions, Solo(s), Unlock(s)
    PROVE  Sound'
<1> DEFINE n == Here(s)
<1>1. /\ World /\ Handled /\ Exclusive(s) /\ hd[s] \in Handlers /\ hd[s].pc = "unlock"
      /\ n \in Nodes /\ Live(n) /\ Alive(n)
      /\ UNCHANGED <<tree, table, formatted, wd, ousted, Seat>> /\ Step(s, "release")
      /\ node' = [node EXCEPT ![n].rw = Unlocked(@),
                              ![n].ref = IF Opens(hd[s].op) /\ hd[s].ok THEN @ - 1 ELSE @]
  BY SeatSame, SoloHas DEF Unlock, At
<1>2. /\ Stage(s) = "unlock" /\ hd[s].op \in PathOps /\ hd[s].got = << >> /\ hd[s].todo = << >>
      /\ hd[s].new = 0 /\ Proper(tree) /\ ~Taken(s) /\ (Held(s) <=> hd[s].ok)
      /\ (Using(s) <=> Opens(hd[s].op) /\ hd[s].ok)
  BY <1>1 DEF Stage, Exclusive, Route, Places, Fetching, Fetches, Trees, Sweeping, Taken,
              Walking, Held, Using
<1>3. "release" \in Stages  BY DEF Stages
<1>4. /\ Handled' /\ Solo(s)' /\ \A t \in Sessions : Solo(t)' => t = s
      /\ Carried(hd'[s], hd[s]) /\ hd'[s].pc = "release" /\ hd'[s].new = 0
  BY <1>1, <1>3, SoloSteps
<1>5. \A m \in Nodes : Live(m) =>
        /\ node[m].ref = Count(m) + (IF Using(s) /\ m = n THEN 1 ELSE 0)
              + (IF formatted /\ node[m].inode = Root THEN 1 ELSE 0)
        /\ node[m].rw \in {-1, 0, 1} /\ (node[m].rw # 0 => m = n)
        /\ ~node[m].dir => m = n
  BY <1>1, <1>2 DEF Exclusive, Counts, Got, Range, Nodes
<1>6. /\ node' \in NodeType /\ \A m \in Nodes : m # n => node'[m] = node[m]
      /\ node'[n].inode = node[n].inode /\ node'[n].dir = node[n].dir /\ node'[n].rw = 0
      /\ node'[n].ref = node[n].ref - (IF Using(s) THEN 1 ELSE 0)
  <2> DEFINE rw == Unlocked(node[n].rw)
             ref == IF Opens(hd[s].op) /\ hd[s].ok THEN node[n].ref - 1 ELSE node[n].ref
  <2>1. node \in NodeType /\ node[n].ref \in Int /\ node[n].rw \in {-1, 0, 1}
    BY <1>1, <1>5 DEF World, NodeType
  <2>2. rw = 0  BY <2>1 DEF Unlocked
  <2>3. ref = node[n].ref - (IF Using(s) THEN 1 ELSE 0)  BY <1>2, <2>1
  <2>4. Counted(n, rw, ref)  BY <1>1, <2>1 DEF NodeType, Counted
  <2> HIDE DEF rw, ref, n
  <2>0. n \in Nodes /\ node \in NodeType  BY <1>1, <2>1
  <2>5. rw \in Int /\ ref \in Int
    <3>1. (IF Using(s) THEN 1 ELSE 0) \in Int  OBVIOUS
    <3> QED BY <2>1, <2>2, <2>3, <3>1
  <2>6. /\ node' \in NodeType /\ \A m \in Nodes : m # n => node'[m] = node[m]
        /\ node'[n].inode = node[n].inode /\ node'[n].dir = node[n].dir
        /\ node'[n].rw = rw /\ node'[n].ref = ref
    BY <2>0, <2>4, <2>5, Recount
  <2> QED BY <2>2, <2>3, <2>6
<1>7. World' /\ \A m \in Nodes : Live(m)' <=> Live(m)
  BY <1>1, <1>6, WorldCounted
<1>8. Exclusive(s)'
  <2>1. /\ Stage(s)' = "release" /\ Here(s)' = n /\ ~Held(s)' /\ ~Taken(s)' /\ ~Sweeping(s)'
        /\ ~Using(s)' /\ Got(s)' = {} /\ hd'[s].new = 0
    BY <1>2, <1>4 DEF Stage, Here, Held, Taken, Walking, Sweeping, Using, Got, Range, Carried
  <2>2. Trees(s)'  BY <1>1, <1>2, <2>1 DEF Trees
  <2>3. Counts(s)'
    <3>1. formatted' => table'[Root] # 0  BY <1>1, <1>2 DEF Exclusive, Counts
    <3>2. ASSUME NEW m \in Nodes, Live(m)
          PROVE  /\ node'[m].ref = Count(m)'
                      + (IF formatted' /\ node'[m].inode = Root THEN 1 ELSE 0)
                 /\ node'[m].rw = 0
                 /\ ~node'[m].dir => m = n
      <4>1. Count(m) \in Nat /\ Count(m)' = Count(m)  BY <1>1, CountIsNat DEF Count
      <4>2. CASE m = n  BY <1>1, <1>5, <1>6, <4>1, <4>2
      <4>3. CASE m # n
        <5>1. /\ node[m].ref = Count(m) + (IF formatted /\ node[m].inode = Root THEN 1 ELSE 0)
              /\ node[m].rw = 0 /\ node[m].dir
          BY <1>5, <3>2, <4>1, <4>3
        <5> QED BY <1>1, <1>6, <4>1, <4>3, <5>1
      <4> QED BY <4>2, <4>3
    <3>3. \A m \in Nodes : Count(m)' \in Nat  BY <1>1, CountIsNat DEF Count
    <3> QED BY <1>7, <2>1, <3>1, <3>2, <3>3 DEF Counts
  <2>4. Homed(s)'  BY <1>1, <1>2, <1>4 DEF Exclusive, Homed, Carried
  <2>5. Route(s)'  BY <1>2, <1>4, <2>1 DEF Route, Stages, Carried
  <2>6. Fetching(s)' BY <1>4 DEF Fetching, Fetches
  <2>7. Sights(s)'  BY <2>1 DEF Sights
  <2>8. Places(s)'
    <3>1. n # 0 /\ node'[n].inode # 0  BY <1>1, <1>7 DEF Alive, Live
    <3> QED BY <1>2, <1>4, <2>1, <3>1 DEF Places, Carried, Alive
  <2>9. Walks(s)'   BY <2>1 DEF Walks, Walking
  <2> QED BY <2>2, <2>3, <2>4, <2>5, <2>6, <2>7, <2>8, <2>9 DEF Exclusive
<1> QED BY <1>4, <1>7, <1>8, SoloKeeps

\* The request ends, or get_full_path begins.
LEMMA FinishAlone ==
    ASSUME Sound, NEW s \in Sessions, Solo(s), Finish(s)
    PROVE  Sound'
<1> DEFINE n == Here(s)
<1>1. /\ World /\ Handled /\ Exclusive(s) /\ hd[s] \in Handlers /\ hd[s].pc = "release"
      /\ n \in Nodes /\ Live(n) /\ Release(node, n)
      /\ UNCHANGED <<tree, formatted, wd, ousted, Seat>>
  BY SeatSame, SoloHas DEF Finish, At
<1>2. /\ Stage(s) = "release" /\ hd[s].op \in PathOps /\ hd[s].got = << >> /\ hd[s].todo = << >>
      /\ hd[s].new = 0 /\ ~Held(s) /\ wd[s] # 0
  BY <1>1 DEF Stage, Exclusive, Route, Places, Fetching, Fetches, Held, Homed
<1>3. /\ World' /\ Proper(tree') /\ (formatted' => table'[Root] # 0)
      /\ \A m \in Nodes : Live(m)' =>
            /\ node'[m].ref = Count(m)' + (IF formatted' /\ node'[m].inode = Root THEN 1 ELSE 0)
            /\ node'[m].rw = 0 /\ node'[m].dir
  <2> HIDE DEF n
  <2>1. /\ World' /\ Proper(tree') /\ (formatted' => table'[Root] # 0)
        /\ \A m \in Nodes : Live(m)' =>
              /\ Live(m) /\ node'[m] = node[m]
              /\ node'[m].ref = Count(m)' + (IF formatted' /\ node'[m].inode = Root THEN 1 ELSE 0)
              /\ node'[m].rw = 0
              /\ ~node'[m].dir => m # n /\ m \in {Here(s), hd[s].new}
    BY <1>1, <1>2, UnheldLetsGo
  <2>2. 0 \notin Nodes  BY DEF Nodes
  <2> QED BY <1>2, <2>1, <2>2 DEF n
<1>4. CASE ~(hd[s].op = "cd" /\ hd[s].ok)
  <2>1. Done(s)  BY <1>4 DEF Finish
  <2> QED BY <1>1, <1>3, <2>1, SoloEnds
<1>5. CASE hd[s].op = "cd" /\ hd[s].ok
  <2> DEFINE o == On(s)
             h == [o EXCEPT !.pc = "climb", !.node = Seat[s]]
  <2>0. Seat[s] = wd[s]  BY <1>1, <1>2, <1>5, SeatIs DEF Exclusive, Homed
  <2>1. Goto(s, h)  BY <1>5, <2>0 DEF Finish
  <2>2. o \in Handlers /\ Carried(o, hd[s]) /\ o.new = 0  BY <1>1, OnFields
  <2>3. Seat[s] \in 0 .. MaxNode  BY <1>1 DEF World
  <2> HIDE DEF o
  <2>4. h \in Handlers
    <3>1. "climb" \in Stages  BY DEF Stages
    <3> QED BY <2>2, <2>3, <3>1 DEF Handlers
  <2>5. /\ h.pc = "climb" /\ h.op = "cd" /\ h.rest = hd[s].rest /\ h.node = Seat[s]
        /\ h.todo = << >> /\ h.got = << >> /\ h.ok /\ h.new = 0 /\ h.stayed = hd[s].stayed
    BY <1>2, <1>5, <2>2 DEF Handlers, Carried
  <2> HIDE DEF h
  <2>6. /\ Handled' /\ hd'[s] = h /\ Solo(s)' /\ \A t \in Sessions : Solo(t)' => t = s
    BY <1>1, <1>5, <2>1, <2>4, <2>5, SoloGoes
  <2>7. Exclusive(s)'
    <3>1. Stage(s)' = "climb" /\ ~Held(s)' /\ ~Taken(s)' /\ Here(s)' = Seat[s]
      BY <2>5, <2>6 DEF Stage, Held, Taken, Walking, Here
    <3>2. Trees(s)'  BY <1>3, <3>1 DEF Trees, Sweeping
    <3>3. Counts(s)' BY <1>3, <3>1, UnheldCounts
    <3>4. Homed(s)'  BY <1>1, <1>2, <2>5, <2>6, <3>1 DEF Homed, PathOps
    <3>5. Route(s)'  BY <2>5, <2>6, <3>1 DEF Route, Stages
    <3>6. Fetching(s)' BY <2>5, <2>6 DEF Fetching, Fetches
    <3>7. Sights(s)'  BY <3>1 DEF Sights
    <3>8. Places(s)'
      <4>1. Seat'[s] # 0 /\ Live(Seat[s])' /\ node'[Seat'[s]].dir
        BY <1>1, <1>2, <1>3, <2>0 DEF World
      <4>2. Alive(Here(s))' /\ node'[Here(s)'].dir  BY <1>1, <3>1, <4>1 DEF Alive, Live
      <4> QED BY <2>5, <2>6, <3>1, <4>2 DEF Places, PathOps, Alive
    <3>9. Walks(s)'   BY <3>1 DEF Walks, Walking, Sweeping
    <3> QED BY <3>2, <3>3, <3>4, <3>5, <3>6, <3>7, <3>8, <3>9 DEF Exclusive
  <2> QED BY <1>3, <2>6, <2>7, SoloKeeps
<1> QED BY <1>4, <1>5

-----------------------------------------------------------------------------
(* get_full_path_.                                                         *)

\* get_full_path ends at the root, or has the directory above to load.
LEMMA ClimbStep ==
    ASSUME Sound, NEW s \in Sessions, Solo(s), Climb(s)
    PROVE  Sound'
<1>1. /\ World /\ Handled /\ Exclusive(s) /\ hd[s] \in Handlers
      /\ hd[s].pc = "climb" /\ Here(s) \in Nodes /\ Live(Here(s)) /\ Alive(Here(s))
      /\ UNCHANGED <<tree, node, table, formatted, wd, ousted, Seat>>
  BY SeatSame, SoloHas DEF Climb, At
<1>2. World'  BY <1>1, WorldSame
<1>3. /\ Stage(s) = "climb" /\ hd[s].got = << >> /\ hd[s].todo = << >> /\ hd[s].new = 0
      /\ hd[s].op = "cd" /\ Proper(tree) /\ node[Here(s)].dir
      /\ ~Held(s) /\ ~Using(s) /\ ~Taken(s)
  BY <1>1 DEF Stage, Exclusive, Places, Route, Fetching, Fetches, Trees, Sweeping, Held, Using,
              Taken
<1>4. Dir(s) \in Inodes /\ tree[Dir(s)].kind = "dir"
  BY <1>1, <1>3 DEF World, NodeType, Live, Dir, Inodes
<1>5. CASE Dir(s) = Root
  <2>1. Done(s)  BY <1>5 DEF Climb
  <2>2. \A n \in Nodes : Live(n)' =>
              /\ node'[n].dir /\ node'[n].rw = 0
              /\ node'[n].ref = Count(n)'
                    + (IF formatted' /\ node'[n].inode = Root THEN 1 ELSE 0)
    <3>1. ASSUME NEW n \in Nodes, Live(n)
          PROVE  /\ node[n].dir /\ node[n].rw = 0
                 /\ node[n].ref = Count(n)
                       + (IF formatted /\ node[n].inode = Root THEN 1 ELSE 0)
      BY <1>1, <1>3, <3>1, CountIsNat DEF Exclusive, Counts, Got, Range, Nodes
    <3> QED BY <1>1, <3>1 DEF Live, Count
  <2>3. Proper(tree') /\ (formatted' => table'[Root] # 0)
    BY <1>1, <1>3 DEF Exclusive, Counts
  <2> QED BY <1>1, <1>2, <2>1, <2>2, <2>3, SoloEnds
<1>6. CASE Dir(s) # Root
  <2> DEFINE i == tree[Dir(s)].up
  <2>1. i \in Inodes /\ tree[i].kind # "free"  BY <1>3, <1>4, <1>6 DEF Proper
  <2>2. "climbed" \in Stages /\ Goto(s, Load(On(s), i, "climbed"))
    BY <1>6 DEF Stages, Climb, Entry
  <2>3. i = tree[Dir(s)].up  OBVIOUS
  <2> HIDE DEF i
  <2>4. /\ Handled' /\ Solo(s)' /\ \A t \in Sessions : Solo(t)' => t = s
        /\ Carried(hd'[s], hd[s])
        /\ hd'[s].pc = "load" /\ hd'[s].new = 0 /\ hd'[s].want = i /\ hd'[s].then = "climbed"
    BY <1>1, <2>1, <2>2, SoloLoads
  <2>5. Exclusive(s)'
    <3>1. Stage(s)' = "climbed"  BY <2>4 DEF Stage
    <3>2. Trees(s)'  BY <1>1, <1>3, <3>1 DEF Trees, Sweeping
    <3>3. Counts(s)'
      <4>1. (Held(s)' <=> Held(s)) /\ (Taken(s)' <=> Taken(s))
        BY <1>1, <1>3, <2>4, <3>1 DEF Held, Taken, Walking, Carried
      <4>2. Counts(s) /\ UNCHANGED <<node, table, formatted, Seat>>  BY <1>1 DEF Exclusive
      <4> QED BY <1>3, <2>4, <4>1, <4>2, CountsCarried
    <3>4. Homed(s)'  BY <1>1, <2>4, <3>1 DEF Exclusive, Homed, Carried
    <3>5. Route(s)'  BY <1>3, <2>4, <3>1 DEF Route, Stages, Carried
    <3>6. Fetching(s)' BY <1>1, <2>1, <2>4 DEF Fetching, Fetches
    <3>7. Sights(s)'  BY <1>1, <1>6, <2>3, <2>4, <3>1 DEF Sights, Sought, Dir, Here, Carried
    <3>8. Places(s)'
      BY <1>1, <1>3, <2>4, <3>1 DEF Places, Here, Alive, Live, Carried, Exclusive
    <3>9. Walks(s)'   BY <3>1 DEF Walks, Walking, Sweeping
    <3> QED BY <3>2, <3>3, <3>4, <3>5, <3>6, <3>7, <3>8, <3>9 DEF Exclusive
  <2> QED BY <1>2, <2>4, <2>5, SoloKeeps
<1> QED BY <1>5, <1>6

\* get_full_path goes one directory up.
LEMMA ClimbedStep ==
    ASSUME Sound, NEW s \in Sessions, Solo(s), Climbed(s)
    PROVE  Sound'
<1> DEFINE n == Here(s)
           new == hd[s].new
<1>1. /\ World /\ Handled /\ Exclusive(s) /\ hd[s] \in Handlers /\ hd[s].pc = "climbed"
      /\ n \in Nodes /\ Live(n) /\ new \in Nodes /\ Live(new) /\ UNCHANGED <<tree, formatted, wd, ousted, Seat>>
  BY SeatSame, SoloHas DEF Climbed, At
<1>2. /\ Stage(s) = "climbed" /\ hd[s].op = "cd" /\ ~Held(s) /\ wd[s] # 0
      /\ node[n].dir /\ node[new].inode = tree[Dir(s)].up /\ Dir(s) # Root
  BY <1>1 DEF Stage, Exclusive, Route, Places, Held, Homed, Sights, Sought, PathOps
<1>3. Proper(tree) /\ hd[s].got = << >> /\ hd[s].todo = << >>  BY <1>1, <1>2, Unheld
<1>4. Dir(s) \in Inodes /\ tree[Dir(s)].kind = "dir"  BY <1>1, <1>2, DirIs
<1>5. new # n  BY <1>2, <1>3, <1>4, NotItsOwn DEF Dir
<1>6. node[new].dir /\ Dir(s) \in Children(node[new].inode)
  <2>1. PICK m \in Names : /\ tree[Dir(s)].up \in Inodes /\ tree[tree[Dir(s)].up].kind = "dir"
                           /\ tree[tree[Dir(s)].up].at[m] = Dir(s)
    BY <1>2, <1>3, <1>4 DEF Proper
  <2>2. Dir(s) # 0  BY <1>4 DEF Inodes
  <2> QED BY <1>1, <1>2, <2>1, <2>2 DEF Children, World
<1>7. Release(node, n) /\ Goto(s, [On(s) EXCEPT !.pc = "climb", !.node = new])
  BY DEF Climbed
<1>8. /\ World' /\ Proper(tree') /\ (formatted' => table'[Root] # 0)
      /\ \A m \in Nodes : Live(m)' =>
            /\ node'[m] = node[m]
            /\ node'[m].ref = Count(m)' + (IF formatted' /\ node'[m].inode = Root THEN 1 ELSE 0)
            /\ node'[m].rw = 0 /\ (~node'[m].dir => m = new)
      /\ \A m \in Nodes : m # n /\ Live(m) => Live(m)'
  <2> HIDE DEF n
  <2>1. /\ World' /\ Proper(tree') /\ (formatted' => table'[Root] # 0)
        /\ \A m \in Nodes : Live(m)' =>
              /\ Live(m) /\ node'[m] = node[m]
              /\ node'[m].ref = Count(m)' + (IF formatted' /\ node'[m].inode = Root THEN 1 ELSE 0)
              /\ node'[m].rw = 0
              /\ ~node'[m].dir => m # n /\ m \in {Here(s), hd[s].new}
        /\ \A m \in Nodes : m # n /\ Live(m) => Live(m)'
    BY <1>1, <1>2, <1>7, UnheldLetsGo
  <2> QED BY <2>1 DEF n
<1>9. PICK h \in Handlers :
          /\ Goto(s, h) /\ h.pc = "climb" /\ h.op = hd[s].op /\ h.node = new
          /\ h.todo = << >> /\ h.got = << >> /\ h.new = 0 /\ h.ok = hd[s].ok
  <2> DEFINE o == On(s)
             h == [o EXCEPT !.pc = "climb", !.node = new]
  <2>1. Goto(s, h)  BY <1>7
  <2>2. o \in Handlers /\ Carried(o, hd[s]) /\ o.new = 0  BY <1>1, OnFields
  <2>3. new \in 0 .. MaxNode  BY <1>1 DEF Handlers
  <2> HIDE DEF o
  <2>4. h \in Handlers
    <3>1. "climb" \in Stages  BY DEF Stages
    <3> QED BY <2>2, <2>3, <3>1 DEF Handlers
  <2>5. /\ h.pc = "climb" /\ h.op = hd[s].op /\ h.node = new
        /\ h.todo = << >> /\ h.got = << >> /\ h.new = 0 /\ h.ok = hd[s].ok
    BY <1>3, <2>2 DEF Handlers, Carried
  <2> HIDE DEF h
  <2> QED BY <2>1, <2>4, <2>5
<1>10. /\ Handled' /\ hd'[s] = h /\ Solo(s)' /\ \A t \in Sessions : Solo(t)' => t = s
  BY <1>1, <1>9, SoloGoes
<1>11. Exclusive(s)'
  <2>1. Stage(s)' = "climb" /\ ~Held(s)' /\ ~Taken(s)' /\ Here(s)' = new
    BY <1>9, <1>10 DEF Stage, Held, Taken, Walking, Here
  <2>2. Trees(s)'  BY <1>8, <2>1 DEF Trees, Sweeping
  <2>3. Counts(s)'
    <3>1. \A m \in Nodes : Live(m)' =>
              /\ node'[m].ref = Count(m)' + (IF formatted' /\ node'[m].inode = Root THEN 1 ELSE 0)
              /\ node'[m].rw = 0
              /\ ~node'[m].dir => m \in {Here(s)', hd'[s].new}
      BY <1>8, <2>1
    <3> QED BY <1>8, <2>1, <3>1, UnheldCounts
  <2>4. Homed(s)'  BY <1>1, <1>2, <1>9, <1>10, <2>1 DEF Homed, PathOps
  <2>5. Route(s)'  BY <1>2, <1>9, <1>10, <2>1 DEF Route, Stages
  <2>6. Fetching(s)' BY <1>9, <1>10 DEF Fetching, Fetches
  <2>7. Sights(s)'  BY <2>1 DEF Sights
  <2>8. Places(s)'
    <3>1. Alive(Here(s))' /\ node'[Here(s)'].dir
      BY <1>1, <1>5, <1>6, <1>8, <2>1 DEF Alive, Live, Nodes
    <3> QED BY <1>2, <1>9, <1>10, <2>1, <3>1 DEF Places, PathOps
  <2>9. Walks(s)'   BY <2>1 DEF Walks, Walking, Sweeping
  <2> QED BY <2>2, <2>3, <2>4, <2>5, <2>6, <2>7, <2>8, <2>9 DEF Exclusive
<1> QED BY <1>8, <1>10, <1>11, SoloKeeps

-----------------------------------------------------------------------------
(* remove_ and format.                                                     *)

\* The node of the entry is looked at: rmdir is refused, or the walk begins.
LEMMA PermitStep ==
    ASSUME Sound, NEW s \in Sessions, Solo(s), Permit(s)
    PROVE  Sound'
<1>1. PICK n \in Nodes, new \in Nodes :
      /\ World /\ Handled /\ Exclusive(s) /\ hd[s] \in Handlers /\ hd[s].pc = "permit"
      /\ new = hd[s].new /\ Live(new) /\ UNCHANGED <<tree, formatted, wd, ousted, Seat>>
      /\ n = Here(s) /\ Live(n) /\ hd[s].op = "rmdir"
  <2>1. /\ hd[s].pc = "permit" /\ World /\ Handled /\ Exclusive(s)
        /\ hd[s].new \in Nodes /\ Live(hd[s].new)
    BY SoloHas DEF Permit, At
  <2>2. Stage(s) = "permit" /\ hd[s].op = "rmdir"  BY <2>1 DEF Stage, Exclusive, Route
  <2>3. Here(s) \in Nodes /\ Live(Here(s))  BY <2>1, <2>2, SoloHas DEF Exclusive, Places
  <2>4. UNCHANGED <<wd, ousted, Seat>>  BY SeatSame DEF Permit
  <2> QED BY <2>1, <2>2, <2>3, <2>4, SoloHas DEF Permit
<1>2. /\ Stage(s) = "permit" /\ hd[s].op \in PathOps /\ hd[s].ok /\ wd[s] # 0
      /\ hd[s].got = << >> /\ hd[s].todo = << >> /\ Proper(tree) /\ node[n].dir
      /\ Held(s) /\ ~Using(s) /\ ~Taken(s) /\ Got(s) = {} /\ node[n].rw = -1
      /\ hd[s].rest # << >> /\ node[new].inode = Entry(Dir(s), Name(s))
  <2>1. /\ Stage(s) = "permit" /\ hd[s].op \in PathOps /\ wd[s] # 0
        /\ hd[s].got = << >> /\ hd[s].todo = << >> /\ Proper(tree)
    BY <1>1 DEF Stage, Exclusive, Places, Trees, Sweeping, PathOps, Lasts, Homed
  <2>2. Alive(n)  BY <1>1 DEF Alive, Live, Nodes
  <2>3. hd[s].ok /\ node[n].dir /\ node[n].rw = -1 /\ hd[s].rest # << >>
    BY <1>1, <2>1, <2>2 DEF Exclusive, Places
  <2>4. node[new].inode = Entry(Dir(s), Name(s))  BY <1>1, <2>1 DEF Exclusive, Sights, Sought
  <2> QED BY <1>1, <2>1, <2>3, <2>4 DEF Held, Using, Opens, Taken, Got, Range, Walking
<1>3. PICK f \in BOOLEAN : f <=> formatted
  BY <1>1 DEF World
<1>4. /\ f => table[Root] # 0
      /\ \A m \in Nodes : Live(m) =>
            /\ node[m].ref = Count(m) + (IF f /\ node[m].inode = Root THEN 1 ELSE 0)
            /\ node[m].rw \in {-1, 0, 1}
            /\ node[m].rw # 0 => m = n
            /\ ~node[m].dir => m \in {n, new}
  <2>1. f <=> formatted /\ ~Taken(s)  BY <1>2, <1>3
  <2>2. /\ f => table[Root] # 0
        /\ \A m \in Nodes : Live(m) =>
              /\ node[m].ref = Count(m) + (IF f /\ node[m].inode = Root THEN 1 ELSE 0)
              /\ node[m].rw \in {-1, 0, 1}
              /\ node[m].rw # 0 => (Held(s) /\ m = Here(s)) \/ m \in Got(s)
              /\ ~node[m].dir => m \in {Here(s), hd[s].new} \cup Got(s)
    BY <1>1, <1>2, <2>1, CountsAre
  <2> QED BY <1>1, <1>2, <2>2
<1>5. CASE Release(node, new) /\ Step(s, "unlock")
  <2>1. "unlock" \in Stages  BY DEF Stages
  <2>2. /\ Handled' /\ Solo(s)' /\ \A t \in Sessions : Solo(t)' => t = s
        /\ Carried(hd'[s], hd[s]) /\ hd'[s].pc = "unlock" /\ hd'[s].new = 0
    BY <1>1, <1>5, <2>1, SoloSteps
  <2>3. /\ hd'[s].op = "rmdir" /\ hd'[s].op \in PathOps /\ hd'[s].got = << >> /\ hd'[s].todo = << >>
        /\ Held(s)' /\ ~Using(s)' /\ ~Taken(s)' /\ Here(s)' = n
    BY <1>1, <1>2, <2>2 DEF Carried, Held, Using, Opens, Taken, Walking, Here, Stage
  <2>4. /\ World' /\ (f => table'[Root] # 0)
        /\ \A m \in Nodes : Live(m)' =>
              /\ Live(m) /\ node'[m] = node[m] /\ Count(m)' = Count(m)
              /\ m = new => node[m].dir
        /\ \A m \in Nodes : m # new /\ Live(m) => Live(m)'
    <3>1. \A m \in Nodes : /\ node[m].inode = node[m].inode /\ node[m].dir = node[m].dir
                           /\ node[m].ref = node[m].ref /\ (~Live(m) => node[m] = Dead)
      BY <1>1 DEF World
    <3>2. tree[Root].kind = "dir" /\ node \in NodeType  BY <1>1, <1>2 DEF Proper, World
    <3>3. \A m \in Nodes : Live(m) =>
              node[m].ref = Count(m) + (IF f /\ node[m].inode = Root THEN 1 ELSE 0)
      BY <1>4
    <3> QED BY <1>1, <1>4, <1>5, <3>1, <3>2, <3>3, LetGo
  <2>5. Counts(s)'
    <3>1. f <=> formatted' /\ ~Taken(s)'  BY <1>1, <1>3, <2>3
    <3>2. \A m \in Nodes : Live(m)' =>
              /\ node'[m].ref = Count(m)' + (IF f /\ node'[m].inode = Root THEN 1 ELSE 0)
              /\ node'[m].rw \in {-1, 0, 1}
              /\ node'[m].rw # 0 => (Held(s)' /\ m = Here(s)') \/ m \in Got(s)'
              /\ ~node'[m].dir => m \in {Here(s)', hd'[s].new} \cup Got(s)'
      BY <1>4, <2>3, <2>4
    <3> QED BY <2>3, <2>4, <3>1, <3>2, CountsBack
  <2>6. Homed(s)'  BY <1>1, <1>2, <2>3 DEF Homed, PathOps, Lasts
  <2>7. Proper(tree')  BY <1>1, <1>2
  <2>8. Alive(Here(s))' \/ Excused(s)'
    <3>1. CASE new # n  BY <1>1, <2>3, <2>4, <3>1 DEF Alive, Live, Nodes
    <3>2. CASE new = n
      <4>1. Name(s) \in Dots
        <5>1. Dir(s) = Entry(Dir(s), Name(s)) /\ Name(s) \in Names \cup Dots
              /\ node[n].inode = Dir(s)
          BY <1>1, <1>2, <3>2 DEF Dir, Name, Handlers
        <5>2. Name(s) \notin Dots => Dir(s) # Root /\ tree[Dir(s)].up = Dir(s)
          <6>1. SUFFICES ASSUME Name(s) \notin Dots PROVE Dir(s) # Root /\ tree[Dir(s)].up = Dir(s)
            OBVIOUS
          <6>2. Dir(s) \in Inodes  BY <1>1, <5>1 DEF World, NodeType, Live, Inodes
          <6>3. Dir(s) # 0  BY <6>2 DEF Inodes
          <6> QED BY <1>1, <1>2, <5>1, <6>1, <6>3, EntryExists
        <5>3. Dir(s) \in Inodes /\ tree[Dir(s)].kind = "dir"  BY <1>1, <1>2, DirIs
        <5> QED BY <1>2, <5>2, <5>3, NotItsOwn
      <4>2. Excused(s)'
        BY <1>1, <1>2, <2>2, <4>1 DEF Excused, Carried, Name
      <4> QED BY <4>2
    <3> QED BY <3>1, <3>2
  <2> QED BY <2>2, <2>3, <2>4, <2>5, <2>6, <2>7, <2>8, Unlocks
<1>6. CASE Goto(s, [hd[s] EXCEPT !.pc = "walk"]) /\ UNCHANGED <<node, table>>
  <2> DEFINE h == [hd[s] EXCEPT !.pc = "walk"]
  <2>1. /\ h \in Handlers /\ Carried(h, hd[s]) /\ h.pc = "walk" /\ h.new = new
    BY <1>1 DEF Handlers, Stages, Carried
  <2>2. Goto(s, h)  BY <1>6
  <2> HIDE DEF h
  <2>3. /\ Handled' /\ hd'[s] = h /\ Solo(s)' /\ \A t \in Sessions : Solo(t)' => t = s
    BY <1>1, <2>1, <2>2, SoloGoes DEF Carried
  <2>4. World'  BY <1>1, <1>6, WorldSame
  <2>5. Exclusive(s)'
    <3>1. /\ Stage(s)' = "walk" /\ Held(s)' /\ ~Using(s)' /\ ~Taken(s)' /\ Here(s)' = n
          /\ Got(s)' = {} /\ hd'[s].new = new /\ hd'[s].op = "rmdir" /\ hd'[s].ok
          /\ hd'[s].got = << >> /\ hd'[s].todo = << >> /\ hd'[s].rest = hd[s].rest
          /\ hd'[s].pc = "walk" /\ Dir(s)' = Dir(s) /\ Name(s)' = Name(s)
      BY <1>1, <1>2, <1>6, <2>1, <2>3
      DEF Stage, Held, Using, Opens, Taken, Here, Carried, Got, Range, Dir, Name
    <3>2. Trees(s)'  BY <1>1, <1>2, <3>1 DEF Trees, Sweeping
    <3>3. Counts(s)'
      <4>1. f <=> formatted' /\ ~Taken(s)'  BY <1>1, <1>3, <3>1
      <4>2. \A m \in Nodes : Live(m)' =>
              /\ node'[m].ref = Count(m)' + (IF f /\ node'[m].inode = Root THEN 1 ELSE 0)
              /\ node'[m].rw \in {-1, 0, 1}
              /\ node'[m].rw # 0 => (Held(s)' /\ m = Here(s)') \/ m \in Got(s)'
              /\ ~node'[m].dir => m \in {Here(s)', hd'[s].new} \cup Got(s)'
        BY <1>1, <1>4, <1>6, <3>1 DEF Live, Count
      <4>3. f => table'[Root] # 0  BY <1>4, <1>6
      <4> QED BY <3>1, <4>1, <4>2, <4>3, CountsBack
    <3>4. Homed(s)'  BY <1>1, <1>2, <3>1 DEF Homed
    <3>5. Route(s)'  BY <3>1 DEF Route, Stages
    <3>6. Fetching(s)' BY <1>1, <1>6, <3>1 DEF Fetching, Fetches, Alive, Live, Nodes
    <3>7. Sights(s)'  BY <3>1 DEF Sights
    <3>8. Places(s)'
      BY <1>1, <1>2, <1>6, <3>1 DEF Places, Alive, Live, Nodes
    <3>9. Walks(s)'
      <4>1. /\ Visited(s)' = {} /\ Sought(s)' = node[new].inode /\ Ahead(s)' = {node[new].inode}
            /\ First(s)' = node[new].inode
        <5>1. Visited(s)' = {}  BY <3>1 DEF Visited
        <5>2. Sought(s)' = node[new].inode  BY <1>6, <3>1 DEF Sought
        <5>3. Range(hd'[s].todo) = {}  BY <3>1 DEF Range
        <5>4. Entry(Dir(s), Name(s))' = Entry(Dir(s), Name(s))  BY <1>1, <3>1 DEF Entry
        <5>5. First(s)' = node[new].inode  BY <1>2, <3>1, <5>4 DEF First
        <5> QED BY <5>1, <5>2, <5>3, <5>5 DEF Ahead
      <4>2. node[new].inode \in Inodes /\ tree[node[new].inode].kind # "free"
        BY <1>1, LiveIs
      <4>3. WalkOK(s)'
        <5> DEFINE i == node[new].inode
        <5>1. /\ hd'[s].got = << >> /\ hd'[s].todo = << >> /\ Range(hd'[s].todo) = {}
              /\ DOMAIN hd'[s].todo = {} /\ i \in Inodes /\ tree'[i].kind # "free"
          BY <1>1, <3>1, <4>2 DEF Range
        <5>2. Visited(s)' = {} /\ Sought(s)' = i /\ Ahead(s)' = {i} /\ First(s)' = i
          BY <4>1
        <5> HIDE DEF i
        <5> QED BY <5>1, <5>2 DEF WalkOK
      <4> QED BY <3>1, <4>3 DEF Walks, Walking, Sweeping
    <3> QED BY <3>2, <3>3, <3>4, <3>5, <3>6, <3>7, <3>8, <3>9 DEF Exclusive
  <2> QED BY <2>3, <2>4, <2>5, SoloKeeps
<1> QED BY <1>1, <1>5, <1>6 DEF Permit

\* format is refused, or its walk begins at the root.
LEMMA FormattingStep ==
    ASSUME Sound, NEW s \in Sessions, Solo(s), Formatting(s)
    PROVE  Sound'
<1>1. PICK n \in Nodes :
      /\ World /\ Handled /\ Exclusive(s) /\ hd[s] \in Handlers /\ hd[s].pc = "formatting"
      /\ n = hd[s].new /\ Live(n) /\ UNCHANGED <<tree, table, formatted, wd>>
  BY SoloHas DEF Formatting, At
<1>2. /\ Stage(s) = "formatting" /\ hd[s].op = "format" /\ ~hd[s].ok /\ ~Held(s) /\ wd[s] = 0
      /\ Here(s) = 0 /\ node[n].inode = Root /\ hd[s].op \notin PathOps
  BY <1>1 DEF Stage, Exclusive, Route, Places, Held, Homed, Sights, Sought, PathOps, Lasts
<1>3. /\ Proper(tree) /\ tree[Root].kind = "dir" /\ hd[s].got = << >> /\ hd[s].todo = << >>
      /\ (formatted => table[Root] # 0)
      /\ formatted \in BOOLEAN /\ node \in NodeType
      /\ \A m \in Nodes : Live(m) =>
            /\ node[m].ref = Count(m) + (IF formatted /\ node[m].inode = Root THEN 1 ELSE 0)
            /\ node[m].rw = 0
            /\ ~node[m].dir => m \in {Here(s), hd[s].new}
  BY <1>1, <1>2, Unheld
<1>4. node[n].dir /\ \A m \in Nodes : Live(m) => node[m].dir
  <2>1. node[n].dir  BY <1>1, <1>2, <1>3, LiveIs
  <2>2. 0 \notin Nodes  BY DEF Nodes
  <2> QED BY <1>1, <1>2, <1>3, <2>1, <2>2
<1>5. CASE node[n].ref > 1
  <2>1. Goto(s, Load(On(s), Root, "enter")) /\ node' = node /\ ousted' = ousted
    BY <1>1, <1>5 DEF Formatting
  <2>8. Seat' = Seat  BY <1>1, <2>1, SeatSame
  <2>2. Root \in Inodes /\ "enter" \in Stages
    BY BoundAssumption DEF Root, Inodes, Stages
  <2>3. /\ Handled' /\ Solo(s)' /\ \A t \in Sessions : Solo(t)' => t = s
        /\ Carried(hd'[s], hd[s]) /\ hd'[s].pc = "load" /\ hd'[s].new = 0
        /\ hd'[s].want = Root /\ hd'[s].then = "enter"
    BY <1>1, <2>1, <2>2, SoloLoads
  <2>4. World'  BY <1>1, <2>1, <2>8, WorldSame
  <2>5. /\ hd'[s].op \in {"login", "format"} /\ ~hd'[s].ok
        /\ hd'[s].got = << >> /\ hd'[s].todo = << >> /\ Here(s)' = 0
    BY <1>2, <1>3, <2>3 DEF Carried, Here
  <2>6. Homed(s)' /\ Proper(tree') /\ (formatted' => table'[Root] # 0)
    BY <1>1, <1>2, <1>3, <2>3 DEF Homed, Exclusive, Carried
  <2>7. \A m \in Nodes : Live(m)' =>
              /\ node'[m].ref = Count(m)' + (IF formatted' /\ node'[m].inode = Root THEN 1 ELSE 0)
              /\ node'[m].rw = 0 /\ node'[m].dir
    BY <1>1, <1>3, <1>4, <2>1, <2>8 DEF Live, Count
  <2> QED BY <2>3, <2>4, <2>5, <2>6, <2>7, Enters
<1>6. CASE ~(node[n].ref > 1)
  <2> DEFINE h == [hd[s] EXCEPT !.pc = "walk", !.node = n]
  <2>1. /\ Goto(s, h) /\ node' = [node EXCEPT ![n].ref = 0]
        /\ ousted' = ousted \cup {t \in Sessions : ~formatted /\ wd[t] = n}
    BY <1>1, <1>6 DEF Formatting
  <2>2. n \in 0 .. MaxNode /\ n # 0  BY DEF Nodes
  <2>3. /\ h \in Handlers /\ h.pc = "walk" /\ h.new = n /\ h.node = n
        /\ h.op = "format" /\ ~h.ok /\ h.got = << >> /\ h.todo = << >>
    BY <1>1, <1>2, <1>3, <2>2 DEF Handlers, Stages
  <2> HIDE DEF h
  <2>4. /\ Handled' /\ hd'[s] = h /\ Solo(s)' /\ \A t \in Sessions : Solo(t)' => t = s
    BY <1>1, <1>2, <2>1, <2>3, SoloGoes
  <2>5. /\ node' \in NodeType /\ \A m \in Nodes : m # n => node'[m] = node[m]
        /\ node'[n].inode = Root /\ node'[n].dir = node[n].dir
        /\ node'[n].rw = 0 /\ node'[n].ref = 0
    <3>1. node[n].rw = 0 /\ Counted(n, 0, 0)  BY <1>1, <1>3, <2>1 DEF NodeType, Counted
    <3>2. 0 \in Int /\ node \in NodeType /\ node[n].inode = Root  BY <1>2, <1>3
    <3> HIDE DEF h
    <3> QED BY ONLY <3>1, <3>2, Recount
  <2>9. /\ Seat' \in [Sessions -> 0 .. MaxNode]
        /\ \A t \in Sessions : Seat'[t] # 0 => Seat'[t] = Seat[t]
        /\ \A m \in Nodes \ {n} : Count(m)' = Count(m)
        /\ Count(n)' = 0
    <3>1. \A t \in Sessions : Seat'[t] = IF ~formatted /\ wd[t] = n THEN 0 ELSE Seat[t]
      BY <1>1, <2>1 DEF Seat
    <3>2. Seat \in [Sessions -> 0 .. MaxNode] /\ Seat' = [t \in Sessions |-> Seat'[t]]
      BY <1>1 DEF World, Seat
    <3>3. Seat' \in [Sessions -> 0 .. MaxNode]  BY <3>1, <3>2, BoundAssumption
    <3>4. \A t \in Sessions : Seat[t] # 0 => Seat[t] = wd[t]  BY SeatIs
    <3>5. ASSUME NEW m \in Nodes \ {n} PROVE Count(m)' = Count(m)
      <4>1. m # 0  BY DEF Nodes
      <4>2. \A t \in Sessions : Seat'[t] = m <=> Seat[t] = m  BY <3>1, <3>4, <4>1
      <4> QED BY <4>2 DEF Count
    <3>6. Count(n)' = 0
      <4>1. CASE formatted
        <5>1. Count(n) \in Nat /\ node[n].ref = Count(n) + 1
          BY <1>1, <1>2, <1>3, <4>1, CountIsNat
        <5>2. Count(n) = 0  BY <1>6, <5>1
        <5>3. \A t \in Sessions : Seat'[t] = Seat[t]  BY <3>1, <4>1
        <5> QED BY <5>2, <5>3 DEF Count
      <4>2. CASE ~formatted
        <5>1. \A t \in Sessions : Seat'[t] # n  BY <2>2, <3>1, <3>4, <4>2
        <5>2. {t \in Sessions : Seat'[t] = n} = {}  BY <5>1
        <5> QED BY <5>2, FS_EmptySet DEF Count
      <4> QED BY <4>1, <4>2
    <3> QED BY <3>1, <3>3, <3>5, <3>6
  <2>6. World' /\ \A m \in Nodes : Live(m)' <=> Live(m)
    <3>1. \A m \in Nodes : /\ node'[m].inode = node[m].inode /\ node'[m].dir = node[m].dir
                           /\ ~Live(m) => node'[m] = Dead
      BY <1>1, <1>2, <2>5 DEF World
    <3>2. \A t \in Sessions : Seat'[t] # 0 => Live(Seat'[t]) /\ node[Seat'[t]].dir
      BY <1>1, <2>9 DEF World
    <3>3. Seat' \in [Sessions -> 0 .. MaxNode]  BY <2>9
    <3> QED BY <1>1, <2>5, <3>1, <3>2, <3>3, Recounted
  <2>8. Exclusive(s)'
    <3>1. /\ Stage(s)' = "walk" /\ ~Held(s)' /\ ~Using(s)' /\ Taken(s)' /\ Here(s)' = n
          /\ Got(s)' = {} /\ hd'[s].new = n /\ hd'[s].op = "format" /\ ~hd'[s].ok
          /\ hd'[s].got = << >> /\ hd'[s].todo = << >>
          /\ hd'[s].pc = "walk" /\ Dir(s)' = Root /\ hd'[s].op \notin PathOps
      BY <1>2, <2>3, <2>4, <2>5
      DEF Stage, Held, Using, Taken, Walking, Here, Got, Range, Dir
    <3>2. Trees(s)'  BY <1>1, <1>3, <3>1 DEF Trees, Sweeping
    <3>3. Counts(s)'
      <4>1. FALSE <=> formatted' /\ ~Taken(s)'  BY <3>1
      <4>2. ASSUME NEW m \in Nodes, Live(m)'
            PROVE  /\ node'[m].ref = Count(m)' + 0
                   /\ node'[m].rw = 0 /\ node'[m].dir
        <5>1. Count(m) \in Nat /\ (m # n => Count(m)' = Count(m))  BY <2>9, CountIsNat
        <5>2. CASE m = n
          <6>1. Count(m)' = 0 /\ node'[m].ref = 0 /\ node'[m].rw = 0 /\ node'[m].dir
            BY <1>1, <1>4, <2>5, <2>9, <5>2
          <6> QED BY <6>1
        <5>3. CASE m # n
          <6>1. Live(m) /\ node'[m] = node[m]  BY <2>5, <2>6, <4>2, <5>3
          <6>2. node[m].inode # Root
            BY <1>1, <1>2, <5>3, <6>1 DEF World
          <6> QED BY <1>3, <1>4, <5>1, <5>3, <6>1, <6>2
        <5> QED BY <5>2, <5>3
      <4>3. \A m \in Nodes : Live(m)' =>
              /\ node'[m].ref = Count(m)' + (IF FALSE /\ node'[m].inode = Root THEN 1 ELSE 0)
              /\ node'[m].rw \in {-1, 0, 1}
              /\ node'[m].rw # 0 => (Held(s)' /\ m = Here(s)') \/ m \in Got(s)'
              /\ ~node'[m].dir => m \in {Here(s)', hd'[s].new} \cup Got(s)'
        BY <4>2
      <4> QED BY <3>1, <4>1, <4>3, CountsBack
    <3>4. Homed(s)'  BY <1>1, <1>2, <3>1 DEF Homed
    <3>5. Route(s)'  BY <3>1 DEF Route, Stages
    <3>6. Fetching(s)'
      <4>1. n # 0 /\ node'[n].inode # 0  BY <1>1, <2>2, <2>6 DEF Live
      <4> QED BY <3>1, <4>1 DEF Fetching, Fetches, Alive
    <3>7. Sights(s)'  BY <3>1 DEF Sights
    <3>8. Places(s)'
      BY <1>1, <2>2, <2>5, <2>6, <3>1 DEF Places, Alive, Live
    <3>9. Walks(s)'
      <4>1. /\ Visited(s)' = {} /\ Sought(s)' = Root /\ First(s)' = Root
        BY <2>5, <3>1 DEF Visited, Sought, First
      <4>2. /\ Range(hd'[s].todo) = {} /\ DOMAIN hd'[s].todo = {}  BY <3>1 DEF Range
      <4>3. Ahead(s)' = {Root}  BY <4>1, <4>2 DEF Ahead
      <4>4. Root \in Inodes /\ tree'[Root].kind # "free"
        BY <1>1, <1>3, BoundAssumption DEF Root, Inodes
      <4>5. WalkOK(s)'  BY <3>1, <4>1, <4>2, <4>3, <4>4 DEF WalkOK
      <4> QED BY <3>1, <4>5 DEF Walks, Walking, Sweeping
    <3> QED BY <3>2, <3>3, <3>4, <3>5, <3>6, <3>7, <3>8, <3>9 DEF Exclusive
  <2> QED BY <2>4, <2>6, <2>8, SoloKeeps
<1> QED BY <1>5, <1>6

\* One node of a tree is locked, or refused.
LEMMA WalkStep ==
    ASSUME Sound, NEW s \in Sessions, Solo(s), Walk(s)
    PROVE  Sound'
<1>1. PICK n \in Nodes, d \in Nodes, i \in Inodes :
      /\ World /\ Handled /\ Exclusive(s) /\ hd[s] \in Handlers /\ hd[s].pc = "walk"
      /\ n = hd[s].new /\ Live(n) /\ i = node[n].inode
      /\ d = Here(s) /\ Live(d) /\ Alive(d)
      /\ UNCHANGED <<tree, table, formatted, wd, ousted, Seat>>
  <2>1. /\ hd[s].pc = "walk" /\ World /\ Handled /\ Exclusive(s) /\ hd[s].new \in Nodes
        /\ Live(hd[s].new)
    BY SoloHas DEF Walk, At
  <2>2. Stage(s) = "walk" /\ hd[s].op \in {"rmdir", "format"}
    BY <2>1 DEF Stage, Exclusive, Route
  <2>3. Alive(Here(s))  BY <2>1, <2>2 DEF Exclusive, Places
  <2>4. Here(s) \in Nodes /\ Live(Here(s))  BY <2>3, SoloHas
  <2>5. node[hd[s].new].inode \in Inodes  BY <2>1, LiveIs
  <2>6. UNCHANGED <<wd, ousted, Seat>>  BY SeatSame DEF Walk
  <2> QED BY <2>1, <2>3, <2>4, <2>5, <2>6, SoloHas DEF Walk
<1>2. /\ Stage(s) = "walk" /\ hd[s].op \in {"rmdir", "format"} /\ ~Using(s) /\ Proper(tree)
      /\ tree \in TreeType /\ node \in NodeType /\ Sought(s) = i
      /\ Taken(s) <=> hd[s].op = "format"
      /\ hd[s].got \in Seq(Nodes) /\ hd[s].todo \in Seq(Inodes)
      /\ hd[s].op = "rmdir" => hd[s].op \in PathOps
      /\ hd[s].op = "format" => hd[s].op \notin PathOps
  <2>1. Stage(s) = "walk" /\ hd[s].op \in {"rmdir", "format"} /\ Sought(s) = i
    BY <1>1 DEF Stage, Exclusive, Route, Sought
  <2>2. Proper(tree)  BY <1>1, <2>1 DEF Exclusive, Trees, Sweeping
  <2>3. ~Using(s) /\ (Taken(s) <=> hd[s].op = "format")
    BY <2>1 DEF Using, Opens, Taken, Walking
  <2> QED BY <1>1, <2>1, <2>2, <2>3 DEF World, Handlers, PathOps, Lasts
<1>3. /\ \A j \in DOMAIN hd[s].got : Live(hd[s].got[j])
      /\ \A j, k \in DOMAIN hd[s].got : j # k => hd[s].got[j] # hd[s].got[k]
      /\ \A j \in DOMAIN hd[s].got : node[hd[s].got[j]].rw = -1 /\ node[hd[s].got[j]].ref = 0
      /\ hd[s].op = "rmdir" => d \notin Got(s)
      /\ WalkOK(s)
  BY <1>1, <1>2 DEF Exclusive, Walks, Walking
<1>4. /\ hd[s].op = "rmdir" => /\ node[d].dir /\ node[d].rw = -1
                               /\ hd[s].rest # << >> /\ wd[s] # 0 /\ hd[s].ok
      /\ hd[s].op = "format" => Dir(s) = Root /\ node[d].ref = 0 /\ wd[s] = 0 /\ ~hd[s].ok
  BY <1>1, <1>2 DEF Exclusive, Places, Homed
<1>5. /\ i \notin Visited(s) /\ Visited(s) \subseteq Inodes
      /\ Visited(s) \cap Range(hd[s].todo) = {} /\ Ahead(s) = {i} \cup Range(hd[s].todo)
      /\ i \notin Range(hd[s].todo)
  BY <1>2, <1>3 DEF WalkOK, Ahead
<1>6. \A m \in Got(s) : m \in Nodes /\ Live(m) /\ node[m].rw = -1 /\ node[m].ref = 0
  BY <1>2, <1>3 DEF Got, Range
<1>7. n \notin Got(s)  BY <1>1, <1>5 DEF Visited
<1>8. PICK got \in Seq(Nodes) :
      /\ got = Append(hd[s].got, n) /\ got # << >> /\ Range(got) = Got(s) \cup {n}
      /\ \A j, k \in DOMAIN got : j # k => got[j] # got[k]
      /\ \A j \in DOMAIN got : got[j] \in Range(got)
  <2> DEFINE g == Append(hd[s].got, n)
  <2>1. /\ g \in Seq(Nodes) /\ g # << >> /\ Range(g) = Range(hd[s].got) \cup {n}
        /\ \A j, k \in DOMAIN g : j # k => g[j] # g[k]
    BY <1>2, <1>3, <1>7, AppendedTo DEF Got
  <2>2. g = Append(hd[s].got, n)  OBVIOUS
  <2> HIDE DEF g
  <2>3. \A j \in DOMAIN g : g[j] \in Range(g)  BY DEF Range
  <2> QED BY <2>1, <2>2, <2>3 DEF Got
<1>9. PICK f \in BOOLEAN : f <=> formatted /\ ~Taken(s)  BY <1>1 DEF World
<1>10. /\ f => table[Root] # 0
       /\ \A m \in Nodes : Live(m) =>
            /\ node[m].ref = Count(m) + (IF f /\ node[m].inode = Root THEN 1 ELSE 0)
            /\ node[m].rw \in {-1, 0, 1}
            /\ node[m].rw # 0 => (Held(s) /\ m = Here(s)) \/ m \in Got(s)
            /\ ~node[m].dir => m \in {Here(s), hd[s].new} \cup Got(s)
  BY <1>1, <1>2, <1>9, CountsAre
<1>11. PICK rw \in {-1, 0, 1} :
       /\ node' \in NodeType /\ \A m \in Nodes : m # n => node'[m] = node[m]
       /\ node'[n].inode = i /\ node'[n].dir = node[n].dir
       /\ node'[n].rw = rw /\ node'[n].ref = node[n].ref
       /\ rw = IF node[n].rw = 0 THEN -1 ELSE node[n].rw
  <2> DEFINE r == IF node[n].rw = 0 THEN -1 ELSE node[n].rw
             ref == node[n].ref
  <2>1. node[n].rw \in {-1, 0, 1}  BY <1>1, <1>10
  <2>2. r \in {-1, 0, 1}  BY <2>1
  <2>3. ref \in Int /\ r \in Int  BY <1>2, <2>2 DEF NodeType
  <2>4. node' = [node EXCEPT ![n].rw = IF @ = 0 THEN -1 ELSE @]  BY <1>1 DEF Walk
  <2>5. Counted(n, r, ref)  BY <1>2, <2>4 DEF Counted, NodeType
  <2>6. r = IF node[n].rw = 0 THEN -1 ELSE node[n].rw  OBVIOUS
  <2> HIDE DEF r
  <2>7. /\ node' \in NodeType /\ \A m \in Nodes : m # n => node'[m] = node[m]
        /\ node'[n].inode = node[n].inode /\ node'[n].dir = node[n].dir
        /\ node'[n].rw = r /\ node'[n].ref = ref
    BY <1>2, <2>3, <2>5, Recount
  <2> QED BY <1>1, <2>2, <2>6, <2>7
<1>12. \A m \in Nodes : /\ node'[m].inode = node[m].inode /\ node'[m].dir = node[m].dir
                        /\ node'[m].ref = node[m].ref
  BY <1>1, <1>11
<1>13. World' /\ \A m \in Nodes : Live(m)' <=> Live(m)
  <2>1. node'[n].inode = node[n].inode  BY <1>1, <1>11
  <2> QED BY <1>1, <1>11, <2>1, WorldCounted
<1>14. PICK g \in Handlers :
       /\ g.op = hd[s].op /\ g.rest = hd[s].rest /\ g.node = hd[s].node /\ g.todo = hd[s].todo
       /\ g.ok = hd[s].ok /\ g.stayed = hd[s].stayed /\ g.got = got /\ g.new = 0
       /\ IF Refused(node[n]) THEN Goto(s, [g EXCEPT !.pc = "giveup", !.todo = << >>])
          ELSE \E below \in SetToSeqs(Below(n)) : LET todo == below \o hd[s].todo IN
                IF todo = << >> THEN Goto(s, [g EXCEPT !.pc = "sweep"])
                ELSE Goto(s, Load([g EXCEPT !.todo = Tail(todo)], Head(todo), "walk"))
  <2> DEFINE o == On(s)
             g == [o EXCEPT !.got = Append(@, n)]
  <2>1. o \in Handlers /\ Carried(o, hd[s]) /\ o.new = 0  BY <1>1, OnFields
  <2>2. IF Refused(node[n]) THEN Goto(s, [g EXCEPT !.pc = "giveup", !.todo = << >>])
        ELSE \E below \in SetToSeqs(Below(n)) : LET todo == below \o hd[s].todo IN
                IF todo = << >> THEN Goto(s, [g EXCEPT !.pc = "sweep"])
                ELSE Goto(s, Load([g EXCEPT !.todo = Tail(todo)], Head(todo), "walk"))
    BY <1>1 DEF Walk
  <2> HIDE DEF o
  <2>3. g = [o EXCEPT !.got = got]  BY <1>8, <2>1 DEF Carried, Handlers
  <2>4. g \in Handlers  BY <2>1, <2>3 DEF Handlers
  <2>5. /\ g.op = hd[s].op /\ g.rest = hd[s].rest /\ g.node = hd[s].node /\ g.todo = hd[s].todo
        /\ g.ok = hd[s].ok /\ g.stayed = hd[s].stayed /\ g.got = got /\ g.new = 0
    BY <2>1, <2>3 DEF Handlers, Carried
  <2> HIDE DEF g
  <2> WITNESS g \in Handlers
  <2> QED BY <2>2, <2>5
<1>15. /\ d # n => node'[d] = node[d]
       /\ Alive(d)' /\ node'[d].inode = node[d].inode /\ node'[d].dir = node[d].dir
       /\ node'[d].ref = node[d].ref /\ (hd[s].op = "rmdir" => node'[d].rw = -1)
  BY <1>1, <1>4, <1>11, <1>12, <1>13 DEF Alive, Live, Nodes
<1>16. ASSUME Handled', Solo(s)', \A t \in Sessions : Solo(t)' => t = s,
              hd'[s].op = hd[s].op, hd'[s].rest = hd[s].rest, hd'[s].node = hd[s].node,
              hd'[s].ok = hd[s].ok, hd'[s].stayed = hd[s].stayed, hd'[s].got = got,
              hd'[s].new = 0, Stage(s)' \in {"walk", "giveup", "sweep"},
              Stage(s)' # "walk" => hd'[s].todo = << >>,
              \/ /\ hd'[s].pc = "load" /\ hd'[s].then = "walk"
                 /\ hd'[s].want \in Inodes /\ tree[hd'[s].want].kind # "free"
              \/ hd'[s].pc \in {"giveup", "sweep"},
              Here(s)' = d /\ Dir(s)' = Dir(s) /\ Name(s)' = Name(s) /\ Got(s)' = Got(s) \cup {n}
                 /\ Visited(s)' = Visited(s) \cup {i} /\ First(s)' = First(s)
                 /\ (Excused(s)' <=> Excused(s)) /\ (Held(s)' <=> Held(s))
              => Trees(s)' /\ Walks(s)'
       PROVE  Sound'
  <2>1. /\ Here(s)' = d /\ Dir(s)' = Dir(s) /\ Name(s)' = Name(s) /\ Got(s)' = Got(s) \cup {n}
        /\ (Excused(s)' <=> Excused(s)) /\ (Held(s)' <=> Held(s)) /\ ~Using(s)'
        /\ (Taken(s)' <=> Taken(s))
    <3>1. Here(s)' = d /\ Name(s)' = Name(s) /\ Got(s)' = Got(s) \cup {n}
      BY <1>1, <1>8, <1>16 DEF Here, Name, Got
    <3>2. Dir(s)' = Dir(s)  BY <1>1, <1>15, <3>1 DEF Dir
    <3> QED BY <1>1, <1>2, <1>16, <3>1, <3>2 DEF Excused, Held, Using, Opens, Taken, Walking
  <2>2. Visited(s)' = Visited(s) \cup {i}
    <3>1. \A m \in Got(s)' : m \in Nodes /\ node'[m].inode = node[m].inode
      BY <1>6, <1>12, <2>1
    <3> QED BY <1>1, <2>1, <3>1 DEF Visited
  <2>3. First(s)' = First(s)
    <3>1. Entry(Dir(s), Name(s))' = Entry(Dir(s), Name(s))  BY <1>1, <2>1 DEF Entry
    <3> QED BY <1>16, <3>1 DEF First
  <2>4. Trees(s)' /\ Walks(s)'  BY <1>16, <2>1, <2>2, <2>3
  <2>5. Counts(s)'
    <3>1. f <=> formatted' /\ ~Taken(s)'  BY <1>1, <1>9, <2>1
    <3>2. ASSUME NEW m \in Nodes, Live(m)'
          PROVE  /\ node'[m].ref = Count(m)' + (IF f /\ node'[m].inode = Root THEN 1 ELSE 0)
                 /\ node'[m].rw \in {-1, 0, 1}
                 /\ node'[m].rw # 0 => (Held(s)' /\ m = Here(s)') \/ m \in Got(s)'
                 /\ ~node'[m].dir => m \in {Here(s)', hd'[s].new} \cup Got(s)'
      <4>1. Live(m) /\ Count(m)' = Count(m)  BY <1>1, <1>13, <3>2 DEF Count
      <4>2. node'[m].ref = Count(m)' + (IF f /\ node'[m].inode = Root THEN 1 ELSE 0)
        BY <1>10, <1>12, <4>1
      <4>3. CASE m = n  BY <1>11, <2>1, <4>2, <4>3
      <4>4. CASE m # n
        <5>1. node'[m] = node[m]  BY <1>11, <4>4
        <5> QED BY <1>1, <1>10, <2>1, <4>1, <4>2, <4>4, <5>1
      <4> QED BY <4>3, <4>4
    <3>3. f => table'[Root] # 0  BY <1>1, <1>10
    <3> QED BY <2>1, <3>1, <3>2, <3>3, CountsBack
  <2>6. Homed(s)'  BY <1>1, <1>16 DEF Exclusive, Homed
  <2>7. Route(s)'  BY <1>2, <1>16 DEF Route, Stages
  <2>8. Fetching(s)'  BY <1>1, <1>16 DEF Fetching, Fetches
  <2>9. Sights(s)'  BY <1>16 DEF Sights
  <2>10. Places(s)'
    <3>1. Dir(s)' = Root <=> Dir(s) = Root  BY <2>1
    <3> QED BY <1>1, <1>2, <1>4, <1>15, <1>16, <2>1, <3>1 DEF Places
  <2>11. Exclusive(s)'
    BY <2>4, <2>5, <2>6, <2>7, <2>8, <2>9, <2>10 DEF Exclusive
  <2> QED BY <1>13, <1>16, <2>11, SoloKeeps
<1> DEFINE W == Visited(s) \cup Ahead(s)
           F == First(s)
<1>17. /\ W \in SUBSET Inodes /\ F \in W /\ F \in Inodes /\ i \in W
       /\ \A j \in W : tree[j].kind # "free"
       /\ \A j \in W \ {F} : j # Root /\ tree[j].up \in Visited(s)
       /\ F # Root => tree[F].up \notin W
       /\ \A j \in Visited(s) : Children(j) \subseteq W
       /\ hd[s].got = << >> => i = F /\ hd[s].todo = << >>
       /\ hd[s].got # << >> => F \in Visited(s)
       /\ \A j, k \in DOMAIN hd[s].todo : j # k => hd[s].todo[j] # hd[s].todo[k]
  <2>1. /\ \A j \in Visited(s) \cup Ahead(s) : j \in Inodes /\ tree[j].kind # "free"
        /\ First(s) \in Visited(s) \cup Ahead(s)
        /\ \A j \in (Visited(s) \cup Ahead(s)) \ {First(s)} : j # Root /\ tree[j].up \in Visited(s)
        /\ \A j \in Visited(s) : Children(j) \subseteq Visited(s) \cup Ahead(s)
        /\ hd[s].got = << >> => Sought(s) = First(s) /\ hd[s].todo = << >>
        /\ hd[s].got # << >> => First(s) \in Visited(s)
        /\ \A j, k \in DOMAIN hd[s].todo : j # k => hd[s].todo[j] # hd[s].todo[k]
    BY <1>3 DEF WalkOK
  <2>2. i \in W  BY <1>5
  <2>3. W \in SUBSET Inodes /\ F \in W /\ \A j \in W \ {F} : j # Root /\ tree[j].up \in W
    BY <2>1
  <2>4. \A j \in W : tree[j].kind # "free"  BY <2>1
  <2> HIDE DEF W, F
  <2>5. F # Root => tree[F].up \notin W  BY <1>2, <2>3, <2>4, WalkIsNew
  <2> QED BY <1>2, <2>1, <2>2, <2>3, <2>5 DEF W, F
<1>18. hd[s].op = "rmdir" =>
          /\ F = Entry(Dir(s), Name(s)) /\ Dir(s) = node[d].inode /\ Dir(s) \in Inodes
          /\ tree[Dir(s)].kind = "dir" /\ Name(s) \in Names \cup Dots
          /\ Name(s) \notin Dots => /\ Name(s) \in Names /\ F = tree[Dir(s)].at[Name(s)]
                                    /\ F # Root /\ F # 0 /\ tree[F].up = Dir(s)
  <2>1. SUFFICES ASSUME hd[s].op = "rmdir"
                 PROVE  /\ F = Entry(Dir(s), Name(s)) /\ Dir(s) = node[d].inode /\ Dir(s) \in Inodes
                        /\ tree[Dir(s)].kind = "dir" /\ Name(s) \in Names \cup Dots
                        /\ Name(s) \notin Dots =>
                              Name(s) \in Names /\ F = tree[Dir(s)].at[Name(s)]
                                                  /\ F # Root /\ F # 0 /\ tree[F].up = Dir(s)
    OBVIOUS
  <2>2. F = Entry(Dir(s), Name(s)) /\ Dir(s) = node[d].inode  BY <1>1, <2>1 DEF First, Dir
  <2>3. Dir(s) \in Inodes /\ tree[Dir(s)].kind = "dir"  BY <1>1, <1>4, <2>1, DirIs
  <2>4. Name(s) \in Names \cup Dots  BY <1>1, <1>4, <2>1 DEF Name, Handlers
  <2>5. F # 0  BY <1>17, BoundAssumption DEF Inodes
  <2>6. Name(s) \notin Dots => /\ Name(s) \in Names /\ F = tree[Dir(s)].at[Name(s)]
                               /\ F # Root /\ tree[F].up = Dir(s)
    <3> HIDE DEF F
    <3> QED BY <1>1, <1>2, <1>4, <2>1, <2>2, <2>4, <2>5, EntryExists
  <2> QED BY <2>2, <2>3, <2>4, <2>5, <2>6
<1>19. /\ hd[s].op = "format" => F = Root
       /\ \A m \in Nodes : Live(m) /\ node[m].inode = node[d].inode => m = d
  BY <1>1 DEF First, World
<1> HIDE DEF W, F
<1>20. CASE Refused(node[n])
  <2> DEFINE h == [g EXCEPT !.pc = "giveup", !.todo = << >>]
  <2>1. Goto(s, h)  BY <1>14, <1>20
  <2>2. /\ h \in Handlers /\ h.pc = "giveup" /\ h.todo = << >> /\ h.op = g.op /\ h.rest = g.rest
        /\ h.node = g.node /\ h.ok = g.ok /\ h.stayed = g.stayed /\ h.got = g.got /\ h.new = g.new
    <3> DEFINE k == [g EXCEPT !.todo = << >>]
    <3>1. << >> \in Seq(Inodes)  OBVIOUS
    <3>2. k \in Handlers  BY <3>1 DEF Handlers
    <3>3. /\ k.todo = << >> /\ k.op = g.op /\ k.rest = g.rest /\ k.node = g.node /\ k.ok = g.ok
          /\ k.stayed = g.stayed /\ k.got = g.got /\ k.new = g.new
      BY DEF Handlers
    <3>4. h = [k EXCEPT !.pc = "giveup"]  BY DEF Handlers
    <3> HIDE DEF h, k
    <3>5. h \in Handlers  BY <3>2, <3>4 DEF Handlers, Stages
    <3> QED BY <3>2, <3>3, <3>4, <3>5 DEF Handlers
  <2> HIDE DEF h
  <2>3. /\ Handled' /\ hd'[s] = h /\ Solo(s)' /\ \A t \in Sessions : Solo(t)' => t = s
    BY <1>1, <1>14, <2>1, <2>2, SoloGoes
  <2>4. Stage(s)' = "giveup"  BY <2>2, <2>3 DEF Stage
  <2>5. ASSUME Here(s)' = d, Got(s)' = Got(s) \cup {n}, Excused(s)' <=> Excused(s)
        PROVE  Trees(s)' /\ Walks(s)'
    <3>1. Trees(s)'  BY <1>1, <1>2, <2>4 DEF Trees, Sweeping
    <3>2. \A j \in DOMAIN got : node'[got[j]].inode # 0
      <4>1. \A m \in Range(got) : m \in Nodes /\ node'[m].inode # 0
        BY <1>1, <1>6, <1>8, <1>13 DEF Live
      <4> QED BY <1>8, <4>1
    <3>3. hd[s].op = "rmdir" => d \notin Got(s)' \/ Excused(s)'
      <4>1. SUFFICES ASSUME hd[s].op = "rmdir", d = n, ~Excused(s) PROVE FALSE
        BY <1>3, <2>5
      <4>2. Name(s) \notin Dots  BY <1>4, <4>1 DEF Excused
      <4>3. F # Root /\ tree[F].up = i  BY <1>1, <1>18, <4>1, <4>2
      <4> QED BY <1>17, <4>3
    <3>4. hd[s].op = "format" => d \in Got(s)' /\ node'[d].ref = 0
      <4>1. SUFFICES ASSUME hd[s].op = "format" PROVE d \in Got(s)'
        BY <1>4, <1>15
      <4>2. F = Root /\ node[d].inode = Root  BY <1>1, <1>4, <1>19, <4>1 DEF Dir
      <4>3. CASE hd[s].got = << >>
        <5>1. node[n].inode = node[d].inode  BY <1>1, <1>17, <4>2, <4>3
        <5>2. n = d  BY <1>1, <1>19, <5>1
        <5> QED BY <2>5, <5>2
      <4>4. CASE hd[s].got # << >>
        <5>1. PICK m \in Got(s) : node[m].inode = Root  BY <1>17, <4>2, <4>4 DEF Visited
        <5>2. m = d  BY <1>6, <1>19, <4>2, <5>1
        <5> QED BY <2>5, <5>2
      <4> QED BY <4>3, <4>4
    <3>5. /\ hd'[s].got = got /\ hd'[s].op = hd[s].op
      BY <1>14, <2>2, <2>3
    <3>6. Walks(s)'
      BY <1>8, <2>4, <2>5, <3>2, <3>3, <3>4, <3>5 DEF Walks, Walking, Sweeping, Live
    <3> QED BY <3>1, <3>6
  <2> QED BY <1>14, <1>16, <2>2, <2>3, <2>4, <2>5
<1>21. ASSUME ~Refused(node[n])
       PROVE  /\ node[n].rw = 0 /\ node[n].ref = 0 /\ rw = -1
              /\ \A m \in Got(s) \cup {n} : /\ m \in Nodes /\ node'[m].inode # 0
                                             /\ node'[m].rw = -1 /\ node'[m].ref = 0
              /\ \A j \in DOMAIN got : /\ node'[got[j]].inode # 0
                                       /\ node'[got[j]].rw = -1 /\ node'[got[j]].ref = 0
              /\ hd[s].op = "rmdir" => d \notin Got(s) \cup {n}
  <2>1. node[n].rw = 0 /\ ~(node[n].ref > 0)  BY <1>21 DEF Refused
  <2>2. node[n].ref = 0
    <3>1. Count(n) \in Nat  BY CountIsNat
    <3>2. node[n].ref = Count(n) + (IF f /\ node[n].inode = Root THEN 1 ELSE 0)  BY <1>1, <1>10
    <3> QED BY <2>1, <3>1, <3>2
  <2>3. rw = -1  BY <1>11, <2>1
  <2>4. \A m \in Got(s) \cup {n} : /\ m \in Nodes /\ node'[m].inode # 0
                                   /\ node'[m].rw = -1 /\ node'[m].ref = 0
    <3>1. node'[n].inode # 0 /\ node'[n].rw = -1 /\ node'[n].ref = 0
      BY <1>1, <1>11, <2>2, <2>3 DEF Live
    <3>2. \A m \in Got(s) : m \in Nodes /\ node'[m] = node[m]  BY <1>6, <1>7, <1>11
    <3> QED BY <1>6, <3>1, <3>2 DEF Live
  <2>5. hd[s].op = "rmdir" => d \notin Got(s) \cup {n}
    BY <1>3, <1>4, <2>1
  <2>6. \A j \in DOMAIN got : got[j] \in Got(s) \cup {n}  BY <1>8
  <2> QED BY <2>1, <2>2, <2>3, <2>4, <2>5, <2>6
<1>22. /\ Below(n) = Children(i) /\ Children(i) \subseteq Inodes /\ IsFiniteSet(Children(i))
       /\ \A c \in Children(i) : c \notin W /\ c # Root /\ tree[c].kind # "free" /\ tree[c].up = i
       /\ \A c \in Inodes : tree[c].kind # "free" /\ c # Root =>
                 tree[c].up \in Inodes /\ c \in Children(tree[c].up)
  <2>1. /\ Children(i) \subseteq Inodes /\ IsFiniteSet(Children(i))
        /\ tree[i].kind # "dir" => Children(i) = {}
        /\ \A c \in Children(i) : c # Root /\ tree[c].kind # "free" /\ tree[c].up = i
        /\ \A c \in Inodes : tree[c].kind # "free" /\ c # Root =>
                 tree[c].up \in Inodes /\ c \in Children(tree[c].up)
    BY <1>2, ChildrenAre
  <2>2. Below(n) = Children(i)
    <3>1. tree[i].kind = (IF node[n].dir THEN "dir" ELSE "file")  BY <1>1 DEF World
    <3> QED BY <1>1, <2>1, <3>1 DEF Below
  <2>3. ASSUME NEW c \in Children(i), c \in W PROVE FALSE
    <3>1. CASE c = F  BY <1>17, <2>1, <2>3, <3>1
    <3>2. CASE c # F
      <4>1. tree[c].up = i /\ tree[c].up \in Visited(s)  BY <1>17, <2>1, <2>3, <3>2
      <4> QED BY <1>5, <4>1
    <3> QED BY <3>1, <3>2
  <2> QED BY <2>1, <2>2, <2>3
<1>23. ASSUME ~Refused(node[n]), NEW below \in SetToSeqs(Below(n)), below \o hd[s].todo = << >>,
              Goto(s, [g EXCEPT !.pc = "sweep"])
       PROVE  Sound'
  <2> DEFINE h == [g EXCEPT !.pc = "sweep"]
             V == Visited(s) \cup {i}
  <2>1. Goto(s, h)  BY <1>23
  <2>2. /\ h \in Handlers /\ h.pc = "sweep" /\ h.op = g.op /\ h.rest = g.rest /\ h.todo = g.todo
        /\ h.node = g.node /\ h.ok = g.ok /\ h.stayed = g.stayed /\ h.got = g.got /\ h.new = g.new
    BY <1>14 DEF Handlers, Stages
  <2> HIDE DEF h
  <2>3. /\ Handled' /\ hd'[s] = h /\ Solo(s)' /\ \A t \in Sessions : Solo(t)' => t = s
    BY <1>1, <1>14, <2>1, <2>2, SoloGoes
  <2>4. Stage(s)' = "sweep"  BY <2>2, <2>3 DEF Stage
  <2>5. below = << >> /\ hd[s].todo = << >> /\ Children(i) = {}
    <3>1. below \in Seq(Inodes) /\ Range(below) = Children(i)
      <4>1. below \in Seq(Children(i)) /\ Range(below) = Children(i)
        BY <1>22, <1>23, SeqsOf
      <4>2. Seq(Children(i)) \subseteq Seq(Inodes)  BY <1>22
      <4> QED BY <4>1, <4>2
    <3>2. below = << >> /\ hd[s].todo = << >>  BY <1>2, <1>23, <3>1, ConcatEqualIffEmpty
    <3> QED BY <3>1, <3>2 DEF Range
  <2>6. /\ W = V /\ V \in SUBSET Inodes /\ F \in V /\ \A j \in V : Children(j) \subseteq V
        /\ \A j \in V \ {F} : j # Root /\ tree[j].up \in V
    <3>1. Range(hd[s].todo) = {}  BY <2>5 DEF Range
    <3>2. W = V  BY <1>5, <3>1 DEF W
    <3> QED BY <1>17, <2>5, <3>2
  <2>7. hd[s].op = "rmdir" => Dir(s) \notin V
    <3>1. SUFFICES ASSUME hd[s].op = "rmdir", Dir(s) \in V PROVE FALSE
      OBVIOUS
    <3>2. \E m \in Got(s) \cup {n} : node[m].inode = node[d].inode
      BY <1>1, <1>18, <3>1 DEF Visited
    <3>3. PICK m \in Got(s) \cup {n} : node[m].inode = node[d].inode  BY <3>2
    <3>4. m \in Nodes /\ Live(m)  BY <1>1, <1>6
    <3>5. m = d  BY <1>19, <3>3, <3>4
    <3> QED BY <1>21, <1>23, <3>1, <3>5
  <2>8. hd[s].op = "rmdir" => Name(s) \notin Dots
    <3>1. SUFFICES ASSUME hd[s].op = "rmdir", Name(s) \in Dots PROVE FALSE
      OBVIOUS
    <3>4. F = Entry(Dir(s), Name(s)) /\ F # 0 /\ Dir(s) \in Inodes
      BY <1>17, <1>18, <3>1, BoundAssumption DEF Inodes
    <3> HIDE DEF F
    <3>2. CASE Name(s) = "."
      <4>1. F = Dir(s)  BY <3>2, <3>4 DEF Entry
      <4> QED BY <2>6, <2>7, <3>1, <4>1
    <3>3. CASE Name(s) = ".."
      <4>1. F = tree[Dir(s)].up  BY <3>3, <3>4 DEF Entry
      <4>2. CASE Dir(s) = Root
        <5>1. F = Root  BY <1>2, <4>1, <4>2 DEF Proper
        <5> QED BY <2>6, <2>7, <3>1, <4>2, <5>1
      <4>3. CASE Dir(s) # Root
        <5>1. Dir(s) \in Children(F)  BY <1>18, <1>22, <3>1, <4>1, <4>3
        <5> QED BY <2>6, <2>7, <3>1, <5>1
      <4> QED BY <4>2, <4>3
    <3> QED BY <3>1, <3>2, <3>3 DEF Dots
  <2>9. hd[s].op = "format" => \A t \in Sessions : Seat[t] = 0
    <3>1. SUFFICES ASSUME hd[s].op = "format", NEW t \in Sessions, Seat[t] # 0 PROVE FALSE
      OBVIOUS
    <3>2. Seat[t] \in Nodes /\ Live(Seat[t])  BY <1>1, <3>1 DEF World, Nodes
    <3>3. /\ node[Seat[t]].inode \in Inodes /\ tree[node[Seat[t]].inode].kind # "free"
      BY <1>1, <3>2, LiveIs
    <3>4. node[Seat[t]].inode \in V
      <4> DEFINE S == {j \in Inodes : tree[j].kind # "free" /\ j \notin V}
      <4>1. \A j \in S : j # Root /\ tree[j].kind # "free" /\ tree[j].up \in S
        <5>1. ASSUME NEW j \in S PROVE j # Root /\ tree[j].kind # "free" /\ tree[j].up \in S
          <6>1. j \in Inodes /\ tree[j].kind # "free" /\ j \notin V  OBVIOUS
          <6>2. j # Root  BY <1>19, <2>6, <3>1, <6>1
          <6>3. tree[j].up \in Inodes /\ j \in Children(tree[j].up)  BY <1>22, <6>1, <6>2
          <6>4. tree[j].up \notin V  BY <2>6, <6>1, <6>3
          <6>5. tree[tree[j].up].kind # "free"
            BY <1>2, <6>1, <6>2 DEF Proper
          <6> QED BY <6>1, <6>2, <6>3, <6>4, <6>5
        <5> QED BY <5>1
      <4>2. S \in SUBSET Inodes  OBVIOUS
      <4> HIDE DEF S
      <4>3. S = {}  BY <1>2, <4>1, <4>2 DEF Proper
      <4> QED BY <3>3, <4>3 DEF S
    <3>5. \E m \in Got(s) \cup {n} : node[m].inode = node[Seat[t]].inode
      BY <1>1, <3>4 DEF Visited
    <3>6. PICK m \in Got(s) \cup {n} : node[m].inode = node[Seat[t]].inode  BY <3>5
    <3>7. m \in Nodes /\ Live(m) /\ node[m].ref = 0  BY <1>1, <1>6, <1>21, <1>23
    <3>8. m = Seat[t]  BY <1>1, <3>2, <3>6, <3>7 DEF World
    <3>9. Count(m) > 0 /\ Count(m) \in Nat  BY <3>8, CountAtHome, CountIsNat
    <3>10. node[m].ref = Count(m) + (IF f /\ node[m].inode = Root THEN 1 ELSE 0)
      BY <1>10, <3>7
    <3> QED BY <3>7, <3>9, <3>10
  <2>10. ASSUME Here(s)' = d, Dir(s)' = Dir(s), Name(s)' = Name(s), Got(s)' = Got(s) \cup {n},
                Visited(s)' = Visited(s) \cup {i}
         PROVE  Trees(s)' /\ Walks(s)'
    <3>1. hd'[s].got = got /\ hd'[s].op = hd[s].op  BY <1>14, <2>2, <2>3
    <3>2. Walks(s)'
      <4>1. \A j \in DOMAIN hd'[s].got :
               /\ node'[hd'[s].got[j]].inode # 0
               /\ node'[hd'[s].got[j]].rw = -1 /\ node'[hd'[s].got[j]].ref = 0
        BY <1>21, <1>23, <3>1
      <4>2. \A j, k \in DOMAIN hd'[s].got : j # k => hd'[s].got[j] # hd'[s].got[k]
        BY <1>8, <3>1
      <4>3. hd'[s].op = "rmdir" => Here(s)' \notin Got(s)'
        BY <1>21, <1>23, <2>10, <3>1
      <4>4. Sweeping(s)' => Name(s)' \notin Dots  BY <2>8, <2>10, <3>1 DEF Sweeping
      <4>5. hd'[s].op = "format" => \A t \in Sessions : Seat'[t] = 0  BY <1>1, <2>9, <3>1
      <4> QED BY <2>4, <4>1, <4>2, <4>3, <4>4, <4>5 DEF Walks, Walking, Live
    <3>3. CASE hd[s].op = "format"
      <4>1. ~Sweeping(s)'  BY <3>1, <3>3 DEF Sweeping
      <4>2. Proper(tree')  BY <1>1, <1>2
      <4> QED BY <3>2, <4>1, <4>2 DEF Trees
    <3>4. CASE hd[s].op = "rmdir"
      <4> DEFINE r == Dir(s)
                 name == Name(s)
                 u == Rest(s)'
      <4>1. u = [j \in Inodes |-> IF j \in V THEN Unused
                                  ELSE IF j = r THEN [tree[j] EXCEPT !.at[name] = 0] ELSE tree[j]]
        BY <1>1, <2>10 DEF Rest
      <4>2. /\ r \in Inodes /\ name \in Names /\ tree[r].at[name] = F /\ F # 0 /\ r \notin V
        BY <1>18, <2>7, <2>8, <3>4
      <4>3. 0 \in 0 .. MaxInode  BY BoundAssumption
      <4>4. Unused \in [kind : {"free", "file", "dir"}, up : 0 .. MaxInode,
                        dots : BOOLEAN, at : [Names -> 0 .. MaxInode]]
        BY BoundAssumption DEF Unused, NoEntries
      <4>5. \A j \in V : \A m \in Names : tree[j].at[m] # 0 => tree[j].at[m] \in V
        BY <2>6 DEF Children
      <4> HIDE DEF r, name, u, V
      <4>6. u \in TreeType
        <5> DEFINE at == [tree[r].at EXCEPT ![name] = 0]
                   x == [tree[r] EXCEPT !.at = at]
        <5>1. x \in [kind : {"free", "file", "dir"}, up : 0 .. MaxInode,
                     dots : BOOLEAN, at : [Names -> 0 .. MaxInode]]
          BY <1>2, <4>2, <4>3, EntrySet
        <5>2. u = [j \in Inodes |-> IF j \in V THEN Unused ELSE IF j = r THEN x ELSE tree[j]]
          BY <1>2, <4>1, <4>2 DEF TreeType
        <5> HIDE DEF x
        <5> QED BY <1>2, <4>4, <5>1, <5>2 DEF TreeType
      <4>7. /\ \A j \in V : u[j].kind = "free" /\ \A m \in Names : u[j].at[m] = 0
            /\ u[r].kind = tree[r].kind /\ u[r].up = tree[r].up /\ u[r].at[name] = 0
            /\ \A m \in Names \ {name} : u[r].at[m] = tree[r].at[m]
            /\ \A j \in Inodes \ (V \cup {r}) : u[j] = tree[j]
        <5>1. \A j \in V : u[j] = Unused  BY <2>6, <4>1
        <5>2. u[r] = [tree[r] EXCEPT !.at[name] = 0]  BY <4>1, <4>2
        <5>3. \A j \in Inodes \ (V \cup {r}) : u[j] = tree[j]  BY <4>1
        <5>4. /\ u[r].kind = tree[r].kind /\ u[r].up = tree[r].up /\ u[r].at[name] = 0
              /\ \A m \in Names \ {name} : u[r].at[m] = tree[r].at[m]
          BY <1>2, <4>2, <5>2 DEF TreeType
        <5> QED BY <5>1, <5>3, <5>4 DEF Unused, NoEntries
      <4>8. Proper(u)
        <5>1. /\ tree[r].at[name] # 0 /\ tree[r].at[name] \in V /\ V \in SUBSET Inodes
              /\ \A j \in V \ {tree[r].at[name]} : j # Root /\ tree[j].up \in V
          BY <2>6, <4>2
        <5> QED BY <1>2, <4>2, <4>5, <4>6, <4>7, <5>1, ProperCut
      <4> QED BY <2>4, <3>1, <3>2, <3>4, <4>8 DEF Trees, Sweeping, u
    <3> QED BY <1>2, <3>2, <3>3, <3>4
  <2> QED BY <1>14, <1>16, <2>2, <2>3, <2>4, <2>5, <2>10
<1>24. ASSUME ~Refused(node[n]), NEW below \in SetToSeqs(Below(n)), below \o hd[s].todo # << >>,
              Goto(s, Load([g EXCEPT !.todo = Tail(below \o hd[s].todo)],
                           Head(below \o hd[s].todo), "walk"))
       PROVE  Sound'
  <2> DEFINE q == below \o hd[s].todo
             x == Head(q)
             r == Tail(q)
             V == Visited(s) \cup {i}
             A == Children(i) \cup Range(hd[s].todo)
             k == [g EXCEPT !.todo = r]
             h == Load(k, x, "walk")
  <2>1. /\ q \in Seq(Inodes) /\ Range(q) = A
        /\ \A j, l \in DOMAIN q : j # l => q[j] # q[l]
    <3>1. /\ below \in Seq(Inodes) /\ Range(below) = Children(i)
          /\ \A j, l \in DOMAIN below : j # l => below[j] # below[l]
      <4>1. /\ below \in Seq(Children(i)) /\ Range(below) = Children(i)
            /\ \A j, l \in DOMAIN below : j # l => below[j] # below[l]
        BY <1>22, <1>24, SeqsOf
      <4>2. Seq(Children(i)) \subseteq Seq(Inodes)  BY <1>22
      <4> QED BY <4>1, <4>2
    <3>2. Range(below) \cap Range(hd[s].todo) = {}  BY <1>5, <1>22, <3>1 DEF W
    <3>3. PICK b \in Seq(Inodes), c \in Seq(Inodes) :
            /\ b = below /\ c = hd[s].todo /\ Range(b) = Children(i)
            /\ \A j, l \in DOMAIN b : j # l => b[j] # b[l]
            /\ \A j, l \in DOMAIN c : j # l => c[j] # c[l]
      BY <1>2, <1>17, <3>1
    <3>4. Range(b) \cap Range(c) = {}  BY <3>2, <3>3
    <3>5. IsJoin(q, b, c)  BY <3>3 DEF IsJoin
    <3> HIDE DEF q
    <3>6. /\ q \in Seq(Inodes) /\ Range(q) = Range(b) \cup Range(c)
          /\ \A j, l \in DOMAIN q : j # l => q[j] # q[l]
      <4>1. /\ \A j, l \in DOMAIN b : j # l => b[j] # b[l]
            /\ \A j, l \in DOMAIN c : j # l => c[j] # c[l]
        BY <3>3
      <4> QED BY <3>4, <3>5, <4>1, Joined
    <3> QED BY <3>3, <3>6
  <2>2. q # << >>  BY <1>24
  <2>3. Goto(s, h)  BY <1>24
  <2> HIDE DEF q, A
  <2>4. /\ x \in Inodes /\ r \in Seq(Inodes) /\ x \notin Range(r) /\ A = {x} \cup Range(r)
        /\ \A j, l \in DOMAIN r : j # l => r[j] # r[l]
    BY <2>1, <2>2, TailOf
  <2> HIDE DEF x, r
  <2>5. /\ k \in Handlers /\ k.op = g.op /\ k.rest = g.rest /\ k.todo = r
        /\ k.node = g.node /\ k.ok = g.ok /\ k.stayed = g.stayed /\ k.got = g.got /\ k.new = g.new
    BY <1>14, <2>4 DEF Handlers
  <2> HIDE DEF k
  <2>6. /\ h \in Handlers /\ Carried(h, k) /\ h.pc = "load" /\ h.new = k.new /\ h.want = x
        /\ h.then = "walk"
    <3>1. x \in 0 .. MaxInode /\ "walk" \in Stages  BY <2>4 DEF Inodes, Stages
    <3> QED BY <2>5, <3>1, LoadFields
  <2> HIDE DEF h
  <2>7. /\ h.op = hd[s].op /\ h.rest = hd[s].rest /\ h.todo = r
        /\ h.node = hd[s].node /\ h.ok = hd[s].ok /\ h.stayed = hd[s].stayed
        /\ h.got = got /\ h.new = 0
    BY <1>14, <2>5, <2>6 DEF Carried
  <2>8. /\ Handled' /\ hd'[s] = h /\ Solo(s)' /\ \A t \in Sessions : Solo(t)' => t = s
    BY <1>1, <2>3, <2>6, <2>7, SoloGoes
  <2>9. Stage(s)' = "walk" /\ Sought(s)' = x  BY <2>6, <2>8 DEF Stage, Sought
  <2>10. /\ \A j \in V \cup A : j \in Inodes /\ tree[j].kind # "free"
         /\ F \in V /\ V \cap A = {}
         /\ \A j \in (V \cup A) \ {F} : j # Root /\ tree[j].up \in V
         /\ \A j \in V : Children(j) \subseteq V \cup A
    <3>1. W = Visited(s) \cup {i} \cup Range(hd[s].todo)  BY <1>5 DEF W
    <3>2. V \cap A = {}  BY <1>5, <1>22, <3>1 DEF A
    <3>3. F \in V
      <4>1. CASE hd[s].got = << >>  BY <1>17, <4>1
      <4>2. CASE hd[s].got # << >>  BY <1>17, <4>2
      <4> QED BY <4>1, <4>2
    <3>4. V \cup A = W \cup Children(i)  BY <3>1 DEF A
    <3>5. \A j \in V \cup A : j \in Inodes /\ tree[j].kind # "free"  BY <1>17, <1>22, <3>4
    <3>6. \A j \in (V \cup A) \ {F} : j # Root /\ tree[j].up \in V
      <4>1. \A j \in Children(i) : j # Root /\ tree[j].up \in V  BY <1>22
      <4>2. \A j \in W \ {F} : j # Root /\ tree[j].up \in V  BY <1>17
      <4> QED BY <3>4, <4>1, <4>2
    <3>7. \A j \in V : Children(j) \subseteq V \cup A  BY <1>17, <3>4
    <3> QED BY <3>2, <3>3, <3>5, <3>6, <3>7
  <2>11. x \in Inodes /\ tree[x].kind # "free"  BY <2>4, <2>10
  <2>12. ASSUME Here(s)' = d, Got(s)' = Got(s) \cup {n},
                Visited(s)' = Visited(s) \cup {i}, First(s)' = First(s)
         PROVE  Trees(s)' /\ Walks(s)'
    <3>1. Trees(s)'  BY <1>1, <1>2, <2>9 DEF Trees, Sweeping
    <3>2. hd'[s].got = got /\ hd'[s].op = hd[s].op /\ hd'[s].todo = r  BY <2>7, <2>8
    <3>3. Ahead(s)' = A  BY <2>4, <2>9, <3>2 DEF Ahead
    <3>4. Visited(s)' = V /\ First(s)' = F  BY <2>12 DEF F
    <3>5. \A j \in Inodes : Children(j)' = Children(j)  BY <1>1 DEF Children
    <3> HIDE DEF V
    <3>6. WalkOK(s)'
      BY <1>1, <1>8, <2>4, <2>9, <2>10, <3>2, <3>3, <3>4, <3>5 DEF WalkOK
    <3>7. Walks(s)'
      <4>1. \A j \in DOMAIN hd'[s].got :
               /\ node'[hd'[s].got[j]].inode # 0
               /\ node'[hd'[s].got[j]].rw = -1 /\ node'[hd'[s].got[j]].ref = 0
        BY <1>21, <1>24, <3>2
      <4>2. \A j, l \in DOMAIN hd'[s].got : j # l => hd'[s].got[j] # hd'[s].got[l]
        BY <1>8, <3>2
      <4>3. hd'[s].op = "rmdir" => Here(s)' \notin Got(s)'
        BY <1>21, <1>24, <2>12, <3>2
      <4> QED BY <2>9, <3>6, <4>1, <4>2, <4>3 DEF Walks, Walking, Sweeping, Live
    <3> QED BY <3>1, <3>7
  <2> QED BY <1>16, <2>6, <2>7, <2>8, <2>9, <2>11, <2>12
<1>25. CASE ~Refused(node[n])
  <2>1. PICK below \in SetToSeqs(Below(n)) :
            LET todo == below \o hd[s].todo IN
                IF todo = << >> THEN Goto(s, [g EXCEPT !.pc = "sweep"])
                ELSE Goto(s, Load([g EXCEPT !.todo = Tail(todo)], Head(todo), "walk"))
    BY <1>14, <1>25
  <2>2. CASE below \o hd[s].todo = << >>  BY <1>23, <1>25, <2>1, <2>2
  <2>3. CASE below \o hd[s].todo # << >>  BY <1>24, <1>25, <2>1, <2>3
  <2> QED BY <2>2, <2>3
<1> QED BY <1>20, <1>25

\* A refused walk gives its nodes back, one by one.
LEMMA GiveUpStep ==
    ASSUME Sound, NEW s \in Sessions, Solo(s), GiveUp(s)
    PROVE  Sound'
<1>0. PICK n \in Nodes : n = Head(hd[s].got) /\ Live(n)
  <2>1. hd[s].got \in Seq(Nodes) /\ hd[s].got # << >>  BY SoloHas DEF GiveUp, Handlers
  <2>2. Head(hd[s].got) \in Nodes  BY <2>1
  <2>3. Live(Head(hd[s].got))  BY DEF GiveUp, Alive, Live
  <2> QED BY <2>2, <2>3
<1>1. PICK ns :
      /\ World /\ Handled /\ Exclusive(s) /\ hd[s] \in Handlers /\ hd[s].pc = "giveup"
      /\ hd[s].got # << >> /\ n = Head(hd[s].got) /\ Live(n)
      /\ ns = [node EXCEPT ![n].rw = Unlocked(@)] /\ Release(ns, n)
      /\ UNCHANGED <<tree, formatted, wd, ousted, Seat>>
      /\ Goto(s, [On(s) EXCEPT !.got = Tail(hd[s].got)])
  <2>1. [On(s) EXCEPT !.got = Tail(@)] = [On(s) EXCEPT !.got = Tail(hd[s].got)]
    BY SoloHas, OnFields DEF Carried, Handlers
  <2>2. UNCHANGED <<wd, ousted, Seat>>  BY SeatSame DEF GiveUp
  <2> QED BY <1>0, <2>1, <2>2, SoloHas DEF GiveUp, At
<1>2. /\ Stage(s) = "giveup" /\ hd[s].op \in {"rmdir", "format"} /\ hd[s].todo = << >>
      /\ hd[s].new = 0 /\ Proper(tree) /\ ~Using(s)
      /\ \A j, k \in DOMAIN hd[s].got : j # k => hd[s].got[j] # hd[s].got[k]
      /\ \A j \in DOMAIN hd[s].got : Live(hd[s].got[j])
  BY <1>1 DEF Stage, Exclusive, Route, Places, Fetching, Fetches, Trees, Sweeping, Using, Opens,
              Walks, Walking
<1>3. PICK f \in BOOLEAN : f <=> formatted /\ ~Taken(s)  BY <1>1 DEF World
<1>4. /\ f => table[Root] # 0
      /\ \A m \in Nodes : Live(m) =>
            /\ node[m].ref = Count(m) + (IF f /\ node[m].inode = Root THEN 1 ELSE 0)
            /\ node[m].rw \in {-1, 0, 1}
            /\ node[m].rw # 0 => (Held(s) /\ m = Here(s)) \/ m \in Got(s)
            /\ ~node[m].dir => m \in {Here(s), hd[s].new} \cup Got(s)
  BY <1>1, <1>2, <1>3, CountsAre
<1>5. /\ Handled' /\ Solo(s)' /\ \A t \in Sessions : Solo(t)' => t = s
      /\ hd'[s].pc = "giveup" /\ hd'[s].op = hd[s].op /\ hd'[s].rest = hd[s].rest
      /\ hd'[s].node = hd[s].node /\ hd'[s].todo = << >> /\ hd'[s].ok = hd[s].ok
      /\ hd'[s].stayed = hd[s].stayed /\ hd'[s].new = 0
      /\ Got(s) = {n} \cup Got(s)' /\ n \notin Got(s)'
      /\ \A j, k \in DOMAIN hd'[s].got : j # k => hd'[s].got[j] # hd'[s].got[k]
      /\ \A j \in DOMAIN hd'[s].got : hd'[s].got[j] \in Got(s)'
  BY <1>1, <1>2, GotTail
<1>6. /\ ns \in NodeType /\ \A m \in Nodes : m # n => ns[m] = node[m]
      /\ \A m \in Nodes : /\ ns[m].inode = node[m].inode /\ ns[m].dir = node[m].dir
                          /\ ns[m].ref = node[m].ref /\ (~Live(m) => ns[m] = Dead)
      /\ ns[n].rw = 0
  <2> DEFINE rw == Unlocked(node[n].rw)
             ref == node[n].ref
  <2>0. node \in NodeType  BY <1>1 DEF World
  <2>6. node[n].rw \in {-1, 0, 1}  BY <1>1, <1>4
  <2>7. rw = 0  BY <2>6 DEF Unlocked
  <2>8. ref \in Int  BY <2>0 DEF NodeType
  <2>1. node \in NodeType /\ rw = 0 /\ ref \in Int  BY <2>0, <2>7, <2>8
  <2>2. ns = CountsOf(node, n, rw, ref)  BY <1>1, <2>1 DEF CountsOf, NodeType
  <2> HIDE DEF rw
  <2>3. rw \in Int  BY <2>1
  <2>4. /\ ns \in NodeType /\ \A m \in Nodes : m # n => ns[m] = node[m]
        /\ ns[n].inode = node[n].inode /\ ns[n].dir = node[n].dir /\ ns[n].rw = rw
        /\ ns[n].ref = ref
    <3>1. Anew(ns, node, n, rw, ref)  BY <2>1, <2>2, <2>3, CountsOfFields
    <3> QED BY <3>1 DEF Anew
  <2>5. Live(n) /\ \A m \in Nodes : ~Live(m) => node[m] = Dead  BY <1>1 DEF World
  <2>9. \A m \in Nodes : /\ ns[m].inode = node[m].inode /\ ns[m].dir = node[m].dir
                         /\ ns[m].ref = node[m].ref /\ (~Live(m) => ns[m] = Dead)
    <3>1. \A m \in Nodes : m # n => ns[m] = node[m]  BY <2>4
    <3>2. ns[n].inode = node[n].inode /\ ns[n].dir = node[n].dir /\ ns[n].ref = node[n].ref
      BY <2>4
    <3> HIDE DEF ref
    <3> QED BY <2>5, <3>1, <3>2
  <2> QED BY <2>1, <2>4, <2>9
<1>7. /\ World' /\ (f => table'[Root] # 0)
      /\ \A m \in Nodes : Live(m)' =>
            /\ Live(m) /\ node'[m] = ns[m] /\ Count(m)' = Count(m)
            /\ m = n => node[m].dir
      /\ \A m \in Nodes : m # n /\ Live(m) => Live(m)'
  <2>1. tree[Root].kind = "dir"  BY <1>2 DEF Proper
  <2>2. \A m \in Nodes : Live(m) =>
            node[m].ref = Count(m) + (IF f /\ node[m].inode = Root THEN 1 ELSE 0)
    BY <1>4
  <2>3. /\ World /\ Live(n) /\ Release(ns, n) /\ UNCHANGED <<tree, formatted, Seat>>
        /\ (f => table[Root] # 0)
    BY <1>1, <1>4
  <2>4. /\ ns \in NodeType
        /\ \A m \in Nodes : /\ ns[m].inode = node[m].inode /\ ns[m].dir = node[m].dir
                            /\ ns[m].ref = node[m].ref /\ (~Live(m) => ns[m] = Dead)
    BY <1>6
  <2> QED BY <2>1, <2>2, <2>3, <2>4, LetGo
<1>8. /\ Stage(s)' = "giveup" /\ (Held(s)' <=> Held(s)) /\ (Taken(s)' <=> Taken(s)) /\ ~Using(s)'
      /\ Here(s)' = Here(s) /\ (Excused(s)' <=> Excused(s))
  BY <1>1, <1>2, <1>5 DEF Stage, Held, Taken, Walking, Using, Opens, Here, Excused, Name
<1>9. Counts(s)'
  <2>1. f <=> formatted' /\ ~Taken(s)'  BY <1>1, <1>3, <1>8
  <2>2. ASSUME NEW m \in Nodes, Live(m)'
        PROVE  /\ node'[m].ref = Count(m)' + (IF f /\ node'[m].inode = Root THEN 1 ELSE 0)
               /\ node'[m].rw \in {-1, 0, 1}
               /\ node'[m].rw # 0 => (Held(s)' /\ m = Here(s)') \/ m \in Got(s)'
               /\ ~node'[m].dir => m \in {Here(s)', hd'[s].new} \cup Got(s)'
    <3>1. Live(m) /\ node'[m] = ns[m] /\ Count(m)' = Count(m) /\ (m = n => node[m].dir)
      BY <1>7, <2>2
    <3>2. CASE m = n  BY <1>4, <1>6, <3>1, <3>2
    <3>3. CASE m # n
      <4>1. node'[m] = node[m]  BY <1>6, <3>1, <3>3
      <4> QED BY <1>2, <1>4, <1>5, <1>8, <3>1, <3>3, <4>1
    <3> QED BY <3>2, <3>3
  <2> QED BY <1>7, <1>8, <2>1, <2>2, CountsBack
<1>10. Exclusive(s)'
  <2>1. Trees(s)'  BY <1>1, <1>2, <1>8 DEF Trees, Sweeping
  <2>2. Homed(s)'  BY <1>1, <1>2, <1>5 DEF Exclusive, Homed
  <2>3. Route(s)'  BY <1>2, <1>5, <1>8 DEF Route, Stages
  <2>4. Fetching(s)' BY <1>5 DEF Fetching, Fetches
  <2>5. Sights(s)'  BY <1>8 DEF Sights
  <2>6. Here(s) \in Nodes \/ ~Alive(Here(s))  BY <1>1, SoloHas
  <2>7. Places(s)'
    <3>1. hd[s].op = "rmdir" => Alive(Here(s))' \/ Excused(s)'
      <4>1. SUFFICES ASSUME hd[s].op = "rmdir", ~Excused(s) PROVE Alive(Here(s))'
        BY <1>8
      <4>2. Alive(Here(s)) /\ Here(s) \notin Got(s)
        BY <1>1, <1>2, <4>1 DEF Exclusive, Places, Walks
      <4>3. Here(s) \in Nodes /\ Live(Here(s)) /\ Here(s) # n /\ Here(s) # 0
        BY <1>5, <2>6, <4>2 DEF Alive, Live
      <4>4. node'[Here(s)].inode # 0  BY <1>7, <4>3 DEF Live
      <4> QED BY <1>8, <4>3, <4>4 DEF Alive
    <3>2. /\ hd[s].op # "format" => hd[s].rest # << >>
          /\ hd[s].ok => hd[s].op \in PathOps
          /\ hd[s].op \in PathOps => hd[s].ok
      BY <1>1, <1>2 DEF Exclusive, Places
    <3> QED BY <1>2, <1>5, <1>8, <3>1, <3>2 DEF Places
  <2>8. Walks(s)'
    <3>1. \A j \in DOMAIN hd'[s].got : node'[hd'[s].got[j]].inode # 0
      <4>1. \A m \in Got(s) : m \in Nodes /\ Live(m)
        <5>1. hd[s].got \in Seq(Nodes)  BY <1>1 DEF Handlers
        <5>2. \A j \in DOMAIN hd[s].got : hd[s].got[j] \in Nodes  BY <5>1
        <5> QED BY <1>2, <5>2 DEF Got, Range
      <4>2. \A m \in Got(s)' : m \in Nodes /\ node'[m].inode # 0
        BY <1>5, <1>7, <4>1 DEF Live
      <4> QED BY <1>5, <4>2
    <3>2. hd[s].op = "rmdir" => Here(s) \notin Got(s)' \/ Excused(s)'
      BY <1>1, <1>2, <1>5, <1>8 DEF Exclusive, Walks
    <3>3. hd[s].op = "format" =>
            /\ Here(s) \in Nodes
            /\ Alive(Here(s))' => Here(s) \in Got(s)' /\ node'[Here(s)].ref = 0
      <4>1. SUFFICES ASSUME hd[s].op = "format", Alive(Here(s))'
            PROVE  Here(s) \in Nodes /\ Here(s) \in Got(s)' /\ node'[Here(s)].ref = 0
        BY <1>1, <1>2 DEF Exclusive, Walks
      <4>2. Here(s) \in Nodes /\ (Alive(Here(s)) => Here(s) \in Got(s) /\ node[Here(s)].ref = 0)
        BY <1>1, <1>2, <4>1 DEF Exclusive, Walks
      <4>3. Here(s) # 0 /\ node'[Here(s)].inode # 0  BY <1>8, <4>1 DEF Alive
      <4>4. /\ node[Here(s)].inode # 0 /\ node'[Here(s)] = ns[Here(s)]
        BY <1>7, <4>2, <4>3 DEF Live
      <4>5. Here(s) \in Got(s) /\ node[Here(s)].ref = 0  BY <4>2, <4>3, <4>4 DEF Alive
      <4>6. Here(s) # n
        <5>1. SUFFICES ASSUME Here(s) = n PROVE FALSE
          OBVIOUS
        <5>2. ~(ns[n].ref > 0)  BY <1>6, <4>5, <5>1
        <5>3. ns[n].ref \in Int /\ ns[n].ref <= 0  BY <1>6, <4>5, <5>1
        <5>4. node' = [ns EXCEPT ![n] = Dead]  BY <1>1, <5>3 DEF Release
        <5>5. node'[n] = Dead  BY <1>6, <5>4 DEF NodeType
        <5> QED BY <4>3, <5>1, <5>5 DEF Dead
      <4> QED BY <1>5, <1>6, <4>2, <4>4, <4>5, <4>6
    <3> QED BY <1>5, <1>8, <3>1, <3>2, <3>3 DEF Walks, Walking, Sweeping, Live
  <2> QED BY <1>9, <2>1, <2>2, <2>3, <2>4, <2>5, <2>7, <2>8 DEF Exclusive
<1> QED BY <1>5, <1>7, <1>10, SoloKeeps

\* rmdir was refused; a format whose walk was refused has lost its root.
LEMMA GaveUpStep ==
    ASSUME Sound, NEW s \in Sessions, Solo(s), GaveUp(s)
    PROVE  Sound'
<1>1. /\ World /\ Handled /\ Exclusive(s) /\ hd[s] \in Handlers /\ hd[s].pc = "giveup"
      /\ hd[s].got = << >> /\ UNCHANGED <<tree, table, formatted, wd, ousted, Seat>>
  BY SeatSame, SoloHas DEF GaveUp, At
<1>2. /\ Stage(s) = "giveup" /\ hd[s].op \in {"rmdir", "format"} /\ hd[s].todo = << >>
      /\ hd[s].new = 0 /\ Proper(tree) /\ Got(s) = {}
  BY <1>1 DEF Stage, Exclusive, Route, Places, Fetching, Fetches, Trees, Sweeping, Got, Range
<1>3. hd[s].op = "rmdir"
  BY <1>1, <1>2 DEF GaveUp, Exclusive, Walks
<1>4. Step(s, "unlock") /\ node' = node /\ "unlock" \in Stages  BY <1>1, <1>3 DEF GaveUp, Stages
<1>5. World'  BY <1>1, <1>4, WorldSame
<1>6. /\ Handled' /\ Solo(s)' /\ \A t \in Sessions : Solo(t)' => t = s
      /\ Carried(hd'[s], hd[s]) /\ hd'[s].pc = "unlock" /\ hd'[s].new = 0
  BY <1>1, <1>4, SoloSteps
<1>7. Counts(s)'
  <2>1. (Held(s)' <=> Held(s)) /\ (Taken(s)' <=> Taken(s))
    BY <1>1, <1>2, <1>3, <1>6 DEF Held, Taken, Walking, Carried, Stage
  <2>2. Counts(s) /\ UNCHANGED <<node, table, formatted, Seat>>  BY <1>1, <1>4 DEF Exclusive
  <2> QED BY <1>2, <1>6, <2>1, <2>2, CountsCarried
<1>8. Homed(s)'  BY <1>1, <1>3, <1>6 DEF Exclusive, Homed, Carried
<1>9. Alive(Here(s))' \/ Excused(s)'
  BY <1>1, <1>2, <1>3, <1>4, <1>6
  DEF Exclusive, Places, Alive, Excused, Carried, Here, Name
<1>10. /\ hd'[s].op \in PathOps /\ hd'[s].got = << >> /\ hd'[s].todo = << >> /\ Proper(tree')
  BY <1>1, <1>2, <1>3, <1>6 DEF Carried, PathOps, Lasts
<1> QED BY <1>5, <1>6, <1>7, <1>8, <1>9, <1>10, Unlocks

\* rmdir deletes the nodes of its walk, and their inodes.
LEMMA SweepStep ==
    ASSUME Sound, NEW s \in Sessions, Solo(s), Sweep(s)
    PROVE  Sound'
<1>1. PICK n \in Nodes, d \in Nodes :
      /\ World /\ Handled /\ Exclusive(s) /\ hd[s] \in Handlers /\ hd[s].pc = "sweep"
      /\ hd[s].op = "rmdir" /\ hd[s].got # << >> /\ n = Head(hd[s].got) /\ Live(n)
      /\ Erases(n) /\ UNCHANGED <<formatted, wd, ousted, Seat>>
      /\ Goto(s, [On(s) EXCEPT !.got = Tail(hd[s].got)])
      /\ d = Here(s) /\ Live(d)
  <2>1. /\ hd[s].got \in Seq(Nodes) /\ hd[s].got # << >> /\ hd[s].op = "rmdir" /\ hd[s].pc = "sweep"
    BY SoloHas DEF Sweep, Handlers, At
  <2>2. Head(hd[s].got) \in Nodes  BY <2>1
  <2>3. Live(Head(hd[s].got))  BY DEF Sweep, Alive, Live
  <2>4. [On(s) EXCEPT !.got = Tail(@)] = [On(s) EXCEPT !.got = Tail(hd[s].got)]
    BY SoloHas, OnFields DEF Carried, Handlers
  <2>5. Stage(s) = "sweep"  BY <2>1 DEF Stage
  <2>6. Here(s) \in Nodes /\ Live(Here(s))  BY <2>1, <2>5, SoloHas DEF Exclusive, Places
  <2>7. UNCHANGED <<wd, ousted, Seat>>  BY SeatSame DEF Sweep
  <2> QED BY <2>1, <2>2, <2>3, <2>4, <2>6, <2>7, SoloHas DEF Sweep, Erases
<1>2. /\ Stage(s) = "sweep" /\ Walking(s) /\ Sweeping(s) /\ ~Using(s) /\ ~Taken(s)
      /\ \A j, k \in DOMAIN hd[s].got : j # k => hd[s].got[j] # hd[s].got[k]
      /\ \A j \in DOMAIN hd[s].got : Live(hd[s].got[j])
      /\ \A j \in DOMAIN hd[s].got : node[hd[s].got[j]].rw = -1 /\ node[hd[s].got[j]].ref = 0
      /\ d \notin Got(s) /\ Name(s) \notin Dots /\ Proper(Rest(s))
      /\ hd[s].new = 0 /\ hd[s].todo = << >> /\ hd[s].ok /\ hd[s].rest # << >> /\ wd[s] # 0
      /\ node[d].dir /\ node[d].rw = -1
  <2>1. /\ Stage(s) = "sweep" /\ Walking(s) /\ Sweeping(s) /\ ~Using(s) /\ ~Taken(s)
        /\ hd[s].op \in PathOps
    BY <1>1 DEF Stage, Walking, Sweeping, Using, Opens, Taken, PathOps, Lasts
  <2>2. Alive(d)  BY <1>1 DEF Alive, Live, Nodes
  <2>3. /\ hd[s].new = 0 /\ hd[s].todo = << >> /\ hd[s].ok /\ hd[s].rest # << >>
        /\ node[d].dir /\ node[d].rw = -1 /\ wd[s] # 0
    BY <1>1, <2>1, <2>2 DEF Exclusive, Fetching, Fetches, Places, Homed
  <2> QED BY <1>1, <2>1, <2>3 DEF Exclusive, Walks, Trees
<1>3. /\ Handled' /\ Solo(s)' /\ \A t \in Sessions : Solo(t)' => t = s
      /\ hd'[s].pc = "sweep" /\ hd'[s].op = "rmdir" /\ hd'[s].rest = hd[s].rest
      /\ hd'[s].node = hd[s].node /\ hd'[s].todo = << >> /\ hd'[s].ok = hd[s].ok
      /\ hd'[s].stayed = hd[s].stayed /\ hd'[s].new = 0
      /\ Got(s) = {n} \cup Got(s)' /\ n \notin Got(s)'
      /\ \A j, k \in DOMAIN hd'[s].got : j # k => hd'[s].got[j] # hd'[s].got[k]
      /\ \A j \in DOMAIN hd'[s].got : hd'[s].got[j] \in Got(s)'
  BY <1>1, <1>2, GotTail
<1>4. PICK f \in BOOLEAN : f <=> formatted  BY <1>1 DEF World
<1>5. /\ f => table[Root] # 0
      /\ \A m \in Nodes : Live(m) =>
            /\ node[m].ref = Count(m) + (IF f /\ node[m].inode = Root THEN 1 ELSE 0)
            /\ node[m].rw \in {-1, 0, 1}
            /\ node[m].rw # 0 => (Held(s) /\ m = Here(s)) \/ m \in Got(s)
            /\ ~node[m].dir => m \in {Here(s), hd[s].new} \cup Got(s)
  <2>1. f <=> formatted /\ ~Taken(s)  BY <1>2, <1>4
  <2> QED BY <1>1, <1>2, <2>1, CountsAre
<1>6. \A m \in Got(s) : m \in Nodes /\ Live(m) /\ node[m].rw = -1 /\ node[m].ref = 0
  <2>1. hd[s].got \in Seq(Nodes)  BY <1>1 DEF Handlers
  <2>2. \A j \in DOMAIN hd[s].got : hd[s].got[j] \in Nodes  BY <2>1
  <2> QED BY <1>2, <2>2 DEF Got, Range
<1>7. /\ Count(n) = 0 /\ ~(f /\ node[n].inode = Root) /\ \A t \in Sessions : Seat[t] # n
  <2>1. node[n].ref = 0  BY <1>3, <1>6
  <2>2. node[n].ref = Count(n) + (IF f /\ node[n].inode = Root THEN 1 ELSE 0) /\ Count(n) \in Nat
    BY <1>1, <1>5, CountIsNat
  <2>3. Count(n) = 0 /\ ~(f /\ node[n].inode = Root)  BY <2>1, <2>2
  <2> QED BY <2>3, CountAtHome
<1>8. /\ World' /\ node'[n] = Dead /\ \A m \in Nodes : m # n => node'[m] = node[m]
      /\ tree'[node[n].inode] = Unused
      /\ \A i \in Inodes : i # node[n].inode => tree'[i] = tree[i] /\ table'[i] = table[i]
  BY <1>1, <1>7, Erased
<1>9. /\ Here(s)' = d /\ d # n /\ node'[d] = node[d] /\ Dir(s)' = Dir(s) /\ Name(s)' = Name(s)
      /\ Dir(s) = node[d].inode /\ Dir(s) # node[n].inode /\ Alive(d)'
  <2>1. Here(s)' = d /\ d # n /\ Dir(s) = node[d].inode /\ Name(s)' = Name(s)
    BY <1>1, <1>2, <1>3 DEF Here, Dir, Name
  <2>2. node'[d] = node[d]  BY <1>8, <2>1
  <2>3. Dir(s)' = Dir(s)  BY <2>1, <2>2 DEF Dir
  <2>4. node[d].inode # node[n].inode  BY <1>1, <2>1 DEF World
  <2>5. Alive(d)'  BY <1>1, <2>2 DEF Alive, Live, Nodes
  <2> QED BY <2>1, <2>2, <2>3, <2>4, <2>5
<1>10. Rest(s)' = Rest(s)
  <2>1. Visited(s) = {node[n].inode} \cup Visited(s)'
    <3>1. \A m \in Got(s)' : node'[m] = node[m]  BY <1>3, <1>6, <1>8
    <3> QED BY <1>3, <3>1 DEF Visited
  <2>2. ASSUME NEW i \in Inodes
        PROVE  (IF i \in Visited(s)' THEN Unused
                ELSE IF i = Dir(s)' THEN [tree'[i] EXCEPT !.at[Name(s)'] = 0] ELSE tree'[i])
               = (IF i \in Visited(s) THEN Unused
                  ELSE IF i = Dir(s) THEN [tree[i] EXCEPT !.at[Name(s)] = 0] ELSE tree[i])
    <3>1. CASE i \in Visited(s)'  BY <2>1, <3>1
    <3>2. CASE i \notin Visited(s)' /\ i = node[n].inode  BY <1>8, <1>9, <2>1, <3>2
    <3>3. CASE i \notin Visited(s)' /\ i # node[n].inode  BY <1>8, <1>9, <2>1, <3>3
    <3> QED BY <3>1, <3>2, <3>3
  <2> QED BY <2>2 DEF Rest
<1>11. /\ Stage(s)' = "sweep" /\ Held(s)' /\ ~Taken(s)' /\ ~Using(s)' /\ Sweeping(s)'
  BY <1>2, <1>3 DEF Stage, Held, Taken, Walking, Using, Opens, Sweeping
<1>12. Counts(s)'
  <2>1. f <=> formatted' /\ ~Taken(s)'  BY <1>1, <1>4, <1>11
  <2>2. f => table'[Root] # 0
    <3>1. Root \in Inodes  BY BoundAssumption DEF Root, Inodes
    <3> QED BY <1>5, <1>7, <1>8, <3>1
  <2>3. ASSUME NEW m \in Nodes, Live(m)'
        PROVE  /\ node'[m].ref = Count(m)' + (IF f /\ node'[m].inode = Root THEN 1 ELSE 0)
               /\ node'[m].rw \in {-1, 0, 1}
               /\ node'[m].rw # 0 => (Held(s)' /\ m = Here(s)') \/ m \in Got(s)'
               /\ ~node'[m].dir => m \in {Here(s)', hd'[s].new} \cup Got(s)'
    <3>1. m # n  BY <1>8, <2>3 DEF Live, Dead
    <3>2. Live(m) /\ node'[m] = node[m] /\ Count(m)' = Count(m)
      BY <1>1, <1>8, <2>3, <3>1 DEF Live, Count
    <3> QED BY <1>1, <1>2, <1>3, <1>5, <1>9, <1>11, <3>1, <3>2
  <2> QED BY <1>11, <2>1, <2>2, <2>3, CountsBack
<1>13. Exclusive(s)'
  <2>1. Trees(s)'  BY <1>2, <1>10, <1>11 DEF Trees
  <2>2. Homed(s)'  BY <1>1, <1>2, <1>3 DEF Homed
  <2>3. Route(s)'  BY <1>3, <1>11 DEF Route, Stages
  <2>4. Fetching(s)' BY <1>3 DEF Fetching, Fetches
  <2>5. Sights(s)'  BY <1>11 DEF Sights
  <2>6. Places(s)'  BY <1>1, <1>2, <1>3, <1>9, <1>11 DEF Places, PathOps, Lasts
  <2>7. Walks(s)'
    <3>1. \A m \in Got(s)' : node'[m] = node[m]  BY <1>3, <1>6, <1>8
    <3>2. \A m \in Got(s)' : node'[m].inode # 0 /\ node'[m].rw = -1 /\ node'[m].ref = 0
      BY <1>3, <1>6, <3>1 DEF Live
    <3>3. \A j \in DOMAIN hd'[s].got :
            /\ node'[hd'[s].got[j]].inode # 0
            /\ node'[hd'[s].got[j]].rw = -1 /\ node'[hd'[s].got[j]].ref = 0
      BY <1>3, <3>2
    <3>4. d \notin Got(s)'  BY <1>2, <1>3
    <3> QED BY <1>2, <1>3, <1>9, <1>11, <3>3, <3>4 DEF Walks, Walking, Live
  <2> QED BY <1>12, <2>1, <2>2, <2>3, <2>4, <2>5, <2>6, <2>7 DEF Exclusive
<1> QED BY <1>3, <1>8, <1>13, SoloKeeps

\* Then the entry goes.
LEMMA SweptStep ==
    ASSUME Sound, NEW s \in Sessions, Solo(s), Swept(s)
    PROVE  Sound'
<1>1. PICK d \in Nodes :
      /\ World /\ Handled /\ Exclusive(s) /\ hd[s] \in Handlers /\ hd[s].pc = "sweep"
      /\ hd[s].op = "rmdir" /\ hd[s].got = << >> /\ Step(s, "unlock")
      /\ UNCHANGED <<node, table, formatted, wd, ousted, Seat>>
      /\ d = Here(s) /\ Live(d) /\ Alive(d)
  <2>1. Here(s) \in Nodes /\ Live(Here(s))  BY SoloHas DEF Swept
  <2>2. UNCHANGED <<wd, ousted, Seat>>  BY SeatSame DEF Swept
  <2> QED BY <2>1, <2>2, SoloHas DEF Swept, At
<1>2. /\ Stage(s) = "sweep" /\ Sweeping(s) /\ ~Using(s) /\ ~Taken(s) /\ hd[s].op \in PathOps
      /\ Name(s) \notin Dots /\ Proper(Rest(s)) /\ Visited(s) = {} /\ Got(s) = {}
      /\ hd[s].new = 0 /\ hd[s].todo = << >> /\ hd[s].ok /\ hd[s].rest # << >> /\ wd[s] # 0
      /\ node[d].dir /\ Held(s)
  <2>1. /\ Stage(s) = "sweep" /\ Sweeping(s) /\ ~Using(s) /\ ~Taken(s) /\ hd[s].op \in PathOps
    BY <1>1 DEF Stage, Sweeping, Using, Opens, Taken, PathOps, Lasts
  <2>2. /\ hd[s].new = 0 /\ hd[s].todo = << >> /\ hd[s].ok /\ hd[s].rest # << >>
        /\ node[d].dir /\ wd[s] # 0
    BY <1>1, <2>1 DEF Exclusive, Fetching, Fetches, Places, Homed
  <2>3. Got(s) = {} /\ Visited(s) = {}  BY <1>1 DEF Got, Range, Visited
  <2>4. Name(s) \notin Dots /\ Proper(Rest(s))  BY <1>1, <2>1 DEF Exclusive, Walks, Trees
  <2> QED BY <2>1, <2>2, <2>3, <2>4 DEF Held
<1>3. /\ Name(s) \in Names /\ Dir(s) \in Inodes /\ tree \in TreeType
  BY <1>1, <1>2, DirIs DEF Name, Handlers
<1>4. tree' = [tree EXCEPT ![Dir(s)].at[Name(s)] = 0]  BY <1>3 DEF Swept
<1>5. tree' = Rest(s)
  <2> DEFINE r == Dir(s)
             name == Name(s)
  <2>1. Rest(s) = [i \in Inodes |-> IF i = r THEN [tree[i] EXCEPT !.at[name] = 0] ELSE tree[i]]
    BY <1>2 DEF Rest
  <2>2. tree' = [tree EXCEPT ![r].at[name] = 0]  BY <1>4
  <2>3. r \in Inodes /\ name \in Names  BY <1>3
  <2> HIDE DEF r, name
  <2> QED BY <1>3, <2>1, <2>2, <2>3 DEF TreeType
<1>6. World'
  <2> DEFINE r == Dir(s)
             name == Name(s)
             at == [tree[r].at EXCEPT ![name] = 0]
             x == [tree[r] EXCEPT !.at = at]
  <2>1. r \in Inodes /\ name \in Names /\ 0 \in 0 .. MaxInode  BY <1>3, BoundAssumption
  <2>2. tree' = [tree EXCEPT ![r].at[name] = 0]  BY <1>4
  <2> HIDE DEF r, name
  <2>3. x \in [kind : {"free", "file", "dir"}, up : 0 .. MaxInode, dots : BOOLEAN, at : [Names -> 0 .. MaxInode]]
    BY <1>3, <2>1, EntrySet
  <2>4. tree' = [tree EXCEPT ![r] = x]  BY <1>3, <2>1, <2>2 DEF TreeType
  <2>5. x.kind = tree[r].kind  BY <1>3, <2>1 DEF TreeType
  <2> HIDE DEF x
  <2>6. tree' \in TreeType  BY <1>3, <2>1, <2>3, <2>4 DEF TreeType
  <2>7. \A i \in Inodes : tree'[i].kind = tree[i].kind  BY <1>3, <2>1, <2>4, <2>5 DEF TreeType
  <2>8. \A n \in Nodes : Live(n) => tree'[node[n].inode].kind = tree[node[n].inode].kind
    BY <1>1, <2>7, LiveIs
  <2> QED BY <1>1, <2>6, <2>8, Grown
<1>7. "unlock" \in Stages  BY DEF Stages
<1>8. /\ Handled' /\ Solo(s)' /\ \A t \in Sessions : Solo(t)' => t = s
      /\ Carried(hd'[s], hd[s]) /\ hd'[s].pc = "unlock" /\ hd'[s].new = 0
  BY <1>1, <1>7, SoloSteps
<1>9. Counts(s)'
  <2>1. (Held(s)' <=> Held(s)) /\ (Taken(s)' <=> Taken(s))
    BY <1>1, <1>2, <1>8 DEF Held, Taken, Walking, Carried, Stage
  <2>2. Counts(s) /\ UNCHANGED <<node, table, formatted, Seat>>  BY <1>1 DEF Exclusive
  <2> QED BY <1>2, <1>8, <2>1, <2>2, CountsCarried
<1>10. Homed(s)' /\ Alive(Here(s))'  BY <1>1, <1>8 DEF Exclusive, Homed, Carried, Here, Alive
<1>11. hd'[s].op \in PathOps /\ hd'[s].got = << >> /\ hd'[s].todo = << >> /\ Proper(tree')
  BY <1>1, <1>2, <1>5, <1>8 DEF Carried
<1> QED BY <1>6, <1>8, <1>9, <1>10, <1>11, Unlocks

\* format makes the disk anew, when all that there was is locked.
LEMMA FormattedStep ==
    ASSUME Sound, NEW s \in Sessions, Solo(s), Formatted(s)
    PROVE  Sound'
<1>1. /\ World /\ Handled /\ Exclusive(s) /\ hd[s] \in Handlers /\ hd[s].pc = "sweep"
      /\ hd[s].op = "format" /\ tree' = FreshTree /\ formatted' = TRUE
      /\ UNCHANGED <<wd, ousted, Seat>>
  BY SeatSame, SoloHas DEF Formatted, At
<1>2. /\ Stage(s) = "sweep" /\ ~hd[s].ok /\ hd[s].todo = << >> /\ wd[s] = 0
      /\ \A t \in Sessions : Seat[t] = 0
  BY <1>1 DEF Stage, Exclusive, Places, Walks, Homed, PathOps, Lasts
<1> DEFINE left == [n \in Nodes |-> IF \E i \in Inodes : table[i] = n THEN Dead ELSE node[n]]
           free == Unallocated(left, {s})
<1>3. left \in NodeType /\ \A m \in Nodes : left[m] = Dead
  <2>1. \A m \in Nodes : Live(m) => \E i \in Inodes : table[i] = m  BY <1>1, LiveIs
  <2>2. \A m \in Nodes : left[m] = Dead  BY <1>1, <2>1 DEF World
  <2>3. Dead \in [inode : 0 .. MaxInode, dir : BOOLEAN, rw : Int, ref : Int]
    BY BoundAssumption DEF Dead
  <2> QED BY <2>2, <2>3 DEF NodeType
<1>4. PICK r \in Nodes, h \in Nodes :
      /\ r # h /\ node' = FreshNodes(left, r, h) /\ table' = FreshTable(r, h)
  <2> DEFINE root == Min(free)
             home == Min(free \ {root})
  <2>1. /\ node' = FreshNodes(left, root, home) /\ table' = FreshTable(root, home)
        /\ Cardinality(free) > 1
    BY DEF Formatted
  <2>2. free \in SUBSET Nodes  BY DEF Unallocated
  <2> HIDE DEF free
  <2>3. free # {}  BY <2>1, FS_EmptySet
  <2>4. root \in free  BY <2>2, <2>3, MinIsIn
  <2>5. free \ {root} # {}
    <3> HIDE DEF root
    <3>1. SUFFICES ASSUME free \ {root} = {} PROVE FALSE
      OBVIOUS
    <3>2. free = {root}  BY <2>4, <3>1
    <3>3. Cardinality({root}) = 1  BY FS_Singleton
    <3> QED BY <2>1, <3>2, <3>3
  <2>6. home \in free \ {root}  BY <2>2, <2>5, MinIsIn
  <2> HIDE DEF root, home
  <2> QED BY <2>1, <2>2, <2>4, <2>6
<1> HIDE DEF left
<1>5. /\ node' \in NodeType
      /\ node'[r].inode = Root /\ node'[r].dir /\ node'[r].rw = 0 /\ node'[r].ref = 1
      /\ node'[h].inode = 2 /\ node'[h].dir /\ node'[h].rw = 0 /\ node'[h].ref = 0
      /\ \A m \in Nodes : m # r /\ m # h => node'[m] = Dead
  BY <1>3, <1>4, FreshFields
<1>6. /\ table' \in [Inodes -> 0 .. MaxNode] /\ table'[Root] = r /\ table'[2] = h
      /\ \A i \in Inodes : i # Root /\ i # 2 => table'[i] = 0
  <2>1. r \in 0 .. MaxNode /\ h \in 0 .. MaxNode  BY DEF Nodes
  <2> QED BY <1>4, <2>1, FreshTableFields
<1>7. /\ tree' \in TreeType /\ Proper(tree') /\ tree'[Root].kind = "dir" /\ tree'[2].kind = "dir"
      /\ Root \in Inodes /\ 2 \in Inodes /\ Root # 2 /\ r # 0
  BY <1>1, FreshTreeProper DEF Nodes
<1>8. World'
  <2>1. \A m \in Nodes : Live(m)' => m \in {r, h}  BY <1>5 DEF Live, Dead
  <2>2. \A m \in Nodes : ~Live(m)' => node'[m] = Dead
    <3>1. Live(r)' /\ Live(h)'  BY <1>5 DEF Live, Root
    <3> QED BY <1>5, <3>1
  <2>3. \A m \in Nodes : Live(m)' => table'[node'[m].inode] = m  BY <1>5, <1>6, <2>1
  <2>4. \A i \in Inodes : table'[i] # 0 => node'[table'[i]].inode = i  BY <1>5, <1>6
  <2>5. \A m \in Nodes : Live(m)' =>
            tree'[node'[m].inode].kind = (IF node'[m].dir THEN "dir" ELSE "file")
    BY <1>5, <1>7, <2>1
  <2>6. \A t \in Sessions : Seat'[t] = 0 /\ Seat' \in [Sessions -> 0 .. MaxNode]
    BY <1>1, <1>2 DEF World
  <2>7. Seat' \in [Sessions -> 0 .. MaxNode]  BY <1>1 DEF World
  <2> QED BY <1>1, <1>5, <1>6, <1>7, <2>2, <2>3, <2>4, <2>5, <2>6, <2>7 DEF World
<1>9. /\ Handled' /\ Solo(s)' /\ \A t \in Sessions : Solo(t)' => t = s
      /\ hd'[s].pc = "load" /\ hd'[s].then = "enter" /\ hd'[s].want = Root /\ hd'[s].new = 0
      /\ hd'[s].op = "format" /\ ~hd'[s].ok /\ hd'[s].got = << >> /\ hd'[s].todo = << >>
      /\ Here(s)' = 0
  <2> DEFINE o == On(s)
             g == [o EXCEPT !.node = 0, !.got = << >>]
             l == Load(g, Root, "enter")
  <2>1. o \in Handlers /\ Carried(o, hd[s]) /\ o.new = 0  BY <1>1, OnFields
  <2>2. Goto(s, l)  BY DEF Formatted
  <2> HIDE DEF o
  <2>3. << >> \in Seq(Nodes) /\ 0 \in 0 .. MaxNode  BY BoundAssumption
  <2>4. g \in Handlers  BY <2>1, <2>3 DEF Handlers
  <2>5. /\ g.node = 0 /\ g.got = << >> /\ g.op = "format" /\ g.todo = << >> /\ g.ok = hd[s].ok
        /\ g.new = 0
    BY <1>1, <1>2, <2>1 DEF Handlers, Carried
  <2> HIDE DEF g
  <2>6. Root \in 0 .. MaxInode /\ "enter" \in Stages  BY BoundAssumption DEF Root, Stages
  <2>7. /\ l \in Handlers /\ Carried(l, g) /\ l.pc = "load" /\ l.new = g.new
        /\ l.want = Root /\ l.then = "enter"
    BY <2>4, <2>6, LoadFields
  <2> HIDE DEF l
  <2>8. l.op = hd[s].op  BY <1>1, <2>5, <2>7 DEF Carried
  <2>9. /\ Handled' /\ hd'[s] = l /\ Solo(s)' /\ \A t \in Sessions : Solo(t)' => t = s
    BY <1>1, <2>2, <2>7, <2>8, SoloGoes
  <2> QED BY <1>1, <1>2, <2>5, <2>7, <2>9 DEF Carried, Here
<1>10. \A m \in Nodes : Live(m)' =>
              /\ node'[m].ref = Count(m)' + (IF formatted' /\ node'[m].inode = Root THEN 1 ELSE 0)
              /\ node'[m].rw = 0 /\ node'[m].dir
  <2>1. ASSUME NEW m \in Nodes, Live(m)'
        PROVE  /\ node'[m].ref = Count(m)' + (IF formatted' /\ node'[m].inode = Root THEN 1 ELSE 0)
               /\ node'[m].rw = 0 /\ node'[m].dir
    <3>1. Count(m) = 0 /\ Count(m)' = Count(m)
      <4>1. m # 0  BY DEF Nodes
      <4> QED BY <1>1, <1>2, <4>1, CountNobody DEF Count
    <3>2. m \in {r, h}  BY <1>5, <2>1 DEF Live, Dead
    <3> QED BY <1>1, <1>5, <1>7, <3>1, <3>2
  <2> QED BY <2>1
<1>11. Homed(s)'
  <2>1. hd'[s].op \notin PathOps  BY <1>9 DEF PathOps, Lasts
  <2> QED BY <1>1, <1>2, <1>9, <2>1 DEF Homed
<1>12. formatted' => table'[Root] # 0  BY <1>6, <1>7
<1> QED BY <1>7, <1>8, <1>9, <1>10, <1>11, <1>12, Enters

\* A node that cannot be made: the request goes back, or ends.
LEMMA UnloadableStep ==
    ASSUME Sound, NEW s \in Sessions, Solo(s), Unloadable(s)
    PROVE  Sound'
<1>1. /\ World /\ Handled /\ Exclusive(s) /\ hd[s] \in Handlers /\ hd[s].pc = "make"
      /\ hd[s].then \in {"check", "permit", "climbed", "walk"}
      /\ UNCHANGED <<tree, node, table, formatted, wd, ousted, Seat>>
  BY SeatSame, SoloHas DEF Unloadable, At
<1>2. World'  BY <1>1, WorldSame
<1>3. /\ Stage(s) = hd[s].then /\ hd[s].new = 0 /\ Proper(tree) /\ ~Sweeping(s)
      /\ table[hd[s].want] = 0 /\ Sought(s) = hd[s].want
  BY <1>1 DEF Stage, Exclusive, Fetching, Fetches, Trees, Sweeping, Sought
<1>4. CASE hd[s].then \in {"check", "permit"}
  <2>1. Step(s, "unlock") /\ "unlock" \in Stages  BY <1>4 DEF Unloadable, Stages
  <2>2. /\ Handled' /\ Solo(s)' /\ \A t \in Sessions : Solo(t)' => t = s
        /\ Carried(hd'[s], hd[s]) /\ hd'[s].pc = "unlock" /\ hd'[s].new = 0
    BY <1>1, <2>1, SoloSteps
  <2>3. /\ hd[s].op \in PathOps /\ hd[s].got = << >> /\ hd[s].todo = << >> /\ Alive(Here(s))
        /\ ~Taken(s)
    BY <1>1, <1>3, <1>4 DEF Exclusive, Route, Places, Taken, Walking, PathOps, Lasts
  <2>4. Counts(s)'
    <3>1. (Held(s)' <=> Held(s)) /\ (Taken(s)' <=> Taken(s))
      BY <1>3, <1>4, <2>2, <2>3 DEF Held, Taken, Walking, Carried, Stage
    <3>2. Counts(s) /\ UNCHANGED <<node, table, formatted, Seat>>  BY <1>1 DEF Exclusive
    <3>3. Using(s)' <=> Using(s)  BY <2>2, <3>1 DEF Using, Carried
    <3> QED BY <1>1, <1>3, <2>2, <2>3, <3>1, <3>2, <3>3, CountsCarried
  <2>5. Homed(s)' /\ Alive(Here(s))'
    <3>1. ~(hd[s].op = "cd" /\ hd[s].ok)  BY <1>1, <1>3, <1>4 DEF Exclusive, Route, Places
    <3>2. Homed(s)'  BY <1>1, <2>2, <3>1 DEF Exclusive, Homed, Carried
    <3> QED BY <1>1, <2>2, <2>3, <3>2 DEF Carried, Here, Alive
  <2>6. hd'[s].op \in PathOps /\ hd'[s].got = << >> /\ hd'[s].todo = << >> /\ Proper(tree')
    BY <1>1, <1>3, <2>2, <2>3 DEF Carried
  <2> QED BY <1>2, <2>2, <2>4, <2>5, <2>6, Unlocks
<1>5. CASE hd[s].then = "climbed"
  <2>1. Done(s)  BY <1>5 DEF Unloadable
  <2>2. /\ hd[s].got = << >> /\ hd[s].todo = << >> /\ hd[s].op = "cd"
        /\ Alive(Here(s)) /\ node[Here(s)].dir /\ ~Held(s) /\ ~Using(s) /\ ~Taken(s)
    BY <1>1, <1>3, <1>5 DEF Exclusive, Route, Places, Held, Using, Taken, Walking
  <2>3. \A n \in Nodes : Live(n)' =>
              /\ node'[n].dir /\ node'[n].rw = 0
              /\ node'[n].ref = Count(n)'
                    + (IF formatted' /\ node'[n].inode = Root THEN 1 ELSE 0)
    <3>1. ASSUME NEW n \in Nodes, Live(n)
          PROVE  /\ node[n].dir /\ node[n].rw = 0
                 /\ node[n].ref = Count(n)
                       + (IF formatted /\ node[n].inode = Root THEN 1 ELSE 0)
      BY <1>1, <1>3, <2>2, <3>1, CountIsNat DEF Exclusive, Counts, Got, Range, Nodes
    <3> QED BY <1>1, <3>1 DEF Live, Count
  <2>4. Proper(tree') /\ (formatted' => table'[Root] # 0)
    BY <1>1, <1>3, <2>2 DEF Exclusive, Counts
  <2> QED BY <1>1, <1>2, <2>1, <2>3, <2>4, SoloEnds
<1>6. CASE hd[s].then = "walk"
  <2>1. PICK h \in Handlers :
        /\ Goto(s, h) /\ h.pc = "giveup" /\ h.op = hd[s].op /\ h.node = hd[s].node
        /\ h.todo = << >> /\ h.got = hd[s].got /\ h.new = 0 /\ h.ok = hd[s].ok
        /\ h.rest = hd[s].rest /\ h.stayed = hd[s].stayed
    <3> DEFINE o == On(s)
               h == [o EXCEPT !.pc = "giveup", !.todo = << >>]
    <3>1. Goto(s, h)  BY <1>6 DEF Unloadable
    <3>2. o \in Handlers /\ Carried(o, hd[s]) /\ o.new = 0  BY <1>1, OnFields
    <3> HIDE DEF o
    <3>3. "giveup" \in Stages /\ << >> \in Seq(Inodes)  BY DEF Stages
    <3>4. h \in Handlers  BY <3>2, <3>3 DEF Handlers
    <3>5. /\ h.pc = "giveup" /\ h.op = hd[s].op /\ h.node = hd[s].node
          /\ h.todo = << >> /\ h.got = hd[s].got /\ h.new = 0 /\ h.ok = hd[s].ok
          /\ h.rest = hd[s].rest /\ h.stayed = hd[s].stayed
      BY <3>2 DEF Handlers, Carried
    <3> HIDE DEF h
    <3> QED BY <3>1, <3>4, <3>5
  <2>2. /\ Handled' /\ hd'[s] = h /\ Solo(s)' /\ \A t \in Sessions : Solo(t)' => t = s
    BY <1>1, <2>1, SoloGoes
  <2>3. /\ Stage(s) = "walk" /\ hd[s].op \in {"rmdir", "format"} /\ Alive(Here(s))
        /\ ~Using(s) /\ Walking(s)
    BY <1>1, <1>3, <1>6 DEF Exclusive, Route, Places, Using, Opens, Walking
  <2>4. /\ Stage(s)' = "giveup" /\ Here(s)' = Here(s) /\ Got(s)' = Got(s) /\ Name(s)' = Name(s)
        /\ (Held(s)' <=> Held(s)) /\ (Taken(s)' <=> Taken(s)) /\ ~Using(s)'
        /\ (Excused(s)' <=> Excused(s)) /\ (Alive(Here(s))' <=> Alive(Here(s)))
    BY <1>1, <2>1, <2>2, <2>3
    DEF Stage, Here, Got, Name, Held, Taken, Using, Opens, Walking, Excused, Alive
  <2>5. Trees(s)'  BY <1>1, <1>3, <2>4 DEF Trees, Sweeping
  <2>6. Counts(s)'
    <3>1. Counts(s) /\ (\A m : (Live(m)' <=> Live(m)) /\ Count(m)' = Count(m))
      BY <1>1 DEF Exclusive, Live, Count
    <3> QED BY <1>1, <1>3, <2>1, <2>2, <2>3, <2>4, <3>1 DEF Counts
  <2>7. Homed(s)'
    <3>1. hd'[s].op # "cd"  BY <2>1, <2>2, <2>3
    <3> QED BY <1>1, <2>1, <2>2, <3>1 DEF Exclusive, Homed
  <2>8. Route(s)'  BY <2>1, <2>2, <2>3, <2>4 DEF Route, Stages
  <2>9. Fetching(s)'  BY <2>1, <2>2 DEF Fetching, Fetches
  <2>10. Sights(s)'  BY <2>4 DEF Sights
  <2>11. Places(s)'
    <3>1. hd[s].op # "format" => hd[s].rest # << >>
      BY <1>1, <2>3 DEF Exclusive, Places
    <3>2. hd[s].ok => hd[s].op \in PathOps  BY <1>1 DEF Exclusive, Places
    <3>3. hd[s].op \in PathOps => hd[s].ok  BY <1>1, <2>3 DEF Exclusive, Places
    <3> QED BY <1>1, <2>1, <2>2, <2>3, <2>4, <3>1, <3>2, <3>3 DEF Places
  <2>12. Walks(s)'
    <3>1. /\ \A j \in DOMAIN hd[s].got : Live(hd[s].got[j])
          /\ \A j, k \in DOMAIN hd[s].got : j # k => hd[s].got[j] # hd[s].got[k]
          /\ hd[s].op = "rmdir" => Here(s) \notin Got(s)
          /\ WalkOK(s)
      BY <1>1, <2>3 DEF Exclusive, Walks
    <3>2. hd[s].op = "format" => /\ Here(s) \in Nodes /\ Here(s) \in Got(s)
                                 /\ node[Here(s)].ref = 0
      <4>1. SUFFICES ASSUME hd[s].op = "format"
                     PROVE  /\ Here(s) \in Nodes /\ Here(s) \in Got(s)
                            /\ node[Here(s)].ref = 0
        OBVIOUS
      <4>2. Here(s) \in Nodes /\ Live(Here(s))  BY <2>3, SoloHas
      <4>3. Dir(s) = Root /\ node[Here(s)].ref = 0 /\ First(s) = Root
        BY <1>1, <2>3, <4>1 DEF Exclusive, Places, First
      <4>4. table[Root] = Here(s) /\ Here(s) # 0  BY <1>1, <4>2, <4>3, LiveIs DEF Dir
      <4>5. Root \in Visited(s)
        <5>1. hd[s].got # << >>  BY <1>3, <3>1, <4>3, <4>4 DEF WalkOK
        <5> QED BY <3>1, <4>3, <5>1 DEF WalkOK
      <4>6. PICK m \in Got(s) : node[m].inode = Root  BY <4>5 DEF Visited
      <4>7. m \in Nodes /\ Live(m)
        <5>1. hd[s].got \in Seq(Nodes)  BY <1>1 DEF Handlers
        <5> QED BY <3>1, <5>1, <4>6 DEF Got, Range
      <4>8. m = Here(s)  BY <1>1, <4>4, <4>6, <4>7, LiveIs
      <4> QED BY <4>2, <4>3, <4>6, <4>8
    <3>3. ~Sweeping(s)' /\ hd'[s].got = hd[s].got /\ hd'[s].op = hd[s].op
      BY <2>1, <2>2, <2>4 DEF Sweeping
    <3> QED BY <1>1, <2>4, <3>1, <3>2, <3>3 DEF Walks, Live
  <2> QED BY <2>5, <2>6, <2>7, <2>8, <2>9, <2>10, <2>11, <2>12, <2>2, <1>2, SoloKeeps DEF Exclusive
<1> QED BY <1>1, <1>4, <1>5, <1>6

\* A step that changes nothing, or only finds the behaviour undefined.
LEMMA Still ==
    ASSUME Sound, UNCHANGED <<tree, node, table, formatted, wd, ousted, hd>>
    PROVE  Sound'
<1>0. Seat' = Seat  BY SeatSame
<1>1. World' /\ Handled'
  BY <1>0, WorldSame DEF Sound, Handled, Solo, IsIdle
<1>2. ASSUME NEW s \in Sessions PROVE Solo(s)' <=> Solo(s)
  BY DEF Solo, IsIdle
<1>3. ASSUME NEW s \in Sessions, Exclusive(s) PROVE Exclusive(s)'
  <2>1. /\ Stage(s)' = Stage(s) /\ Sought(s)' = Sought(s) /\ Here(s)' = Here(s) /\ Dir(s)' = Dir(s)
        /\ Name(s)' = Name(s) /\ Got(s)' = Got(s) /\ Visited(s)' = Visited(s) /\ Rest(s)' = Rest(s)
    BY DEF Stage, Sought, Here, Dir, Name, Got, Visited, Rest
  <2>2. /\ Entry(Dir(s), Name(s))' = Entry(Dir(s), Name(s)) /\ Ahead(s)' = Ahead(s)
        /\ First(s)' = First(s) /\ (Walking(s)' <=> Walking(s)) /\ (Sweeping(s)' <=> Sweeping(s))
        /\ (Taken(s)' <=> Taken(s)) /\ (Held(s)' <=> Held(s)) /\ (Using(s)' <=> Using(s))
        /\ (Excused(s)' <=> Excused(s))
        /\ \A m : (Live(m)' <=> Live(m)) /\ Count(m)' = Count(m) /\ (Alive(m)' <=> Alive(m))
                  /\ Children(m)' = Children(m)
    BY <1>0, <2>1
      DEF Entry, Ahead, First, Walking, Sweeping, Taken, Held, Using, Excused, Live, Count,
                Alive, Children
  <2>3. Trees(s)'  BY <1>3, <2>1, <2>2 DEF Exclusive, Trees
  <2>4. Counts(s)'  BY <1>3, <2>1, <2>2 DEF Exclusive, Counts
  <2>5. Homed(s)'  BY <1>3, <2>1 DEF Exclusive, Homed
  <2>6. Route(s)'  BY <1>3, <2>1 DEF Exclusive, Route
  <2>7. Fetching(s)'  BY <1>3, <2>2 DEF Exclusive, Fetching
  <2>8. Sights(s)'  BY <1>3, <2>1, <2>2 DEF Exclusive, Sights
  <2>9. Places(s)'  BY <1>3, <2>1, <2>2 DEF Exclusive, Places
  <2>10. Walks(s)'  BY <1>0, <1>3, <2>1, <2>2 DEF Exclusive, Walks, WalkOK
  <2> QED BY <2>3, <2>4, <2>5, <2>6, <2>7, <2>8, <2>9, <2>10 DEF Exclusive
<1>4. Shared => Shared'
  <2>1. \A m \in Nodes : Readers(m)' = Readers(m) /\ Writers(m)' = Writers(m)
    BY DEF Readers, Writers, Here
  <2>2. \A s \in Sessions : Stranded(s)' <=> Stranded(s)  BY DEF Stranded, Here
  <2> QED BY <1>0, <2>1, <2>2 DEF Shared, Live, Count, IsIdle, Here
<1> QED BY <1>1, <1>2, <1>3, <1>4 DEF Sound

\* A handler's step, when its request runs alone.
LEMMA SoloNext ==
    ASSUME Sound, Ousts, NEW s \in Sessions, Solo(s), Handle(s)
    PROVE  Sound'
<1>1. CASE Find(s)  BY <1>1, FindStep
<1>2. CASE Insert(s)  BY <1>2, InsertStep
<1>3. CASE Enter(s)  BY <1>3, EnterStep
<1>4. CASE Start(s)  BY <1>4, StartStep
<1>5. CASE Lookup(s)  BY <1>5, LookupStep
<1>6. CASE Check(s)  BY <1>6, CheckStep
<1>7. CASE TryLock(s)  BY <1>7, TryLockAlone
<1>8. CASE Work(s)  BY <1>8, WorkAlone
<1>9. CASE Change(s)  BY <1>9, ChangeStep
<1>10. CASE RemoveDir(s)  BY <1>10, RemoveDirStep
<1>11. CASE Unlock(s)  BY <1>11, UnlockAlone
<1>12. CASE Finish(s)  BY <1>12, FinishAlone
<1>13. CASE Climb(s)  BY <1>13, ClimbStep
<1>14. CASE Climbed(s)  BY <1>14, ClimbedStep
<1>15. CASE Permit(s)  BY <1>15, PermitStep
<1>16. CASE Formatting(s)  BY <1>16, FormattingStep
<1>17. CASE Walk(s)  BY <1>17, WalkStep
<1>18. CASE GiveUp(s)  BY <1>18, GiveUpStep
<1>19. CASE GaveUp(s)  BY <1>19, GaveUpStep
<1>20. CASE Sweep(s)  BY <1>20, SweepStep
<1>21. CASE Swept(s)  BY <1>21, SweptStep
<1>22. CASE Formatted(s)  BY <1>22, FormattedStep
<1>23. CASE Break(s)  BY <1>23, Still DEF Break
<1>24. CASE Unloadable(s)  BY <1>24, UnloadableStep
<1> QED
  BY <1>1, <1>2, <1>3, <1>4, <1>5, <1>6, <1>7, <1>8, <1>9, <1>10, <1>11, <1>12, <1>13, <1>14,
     <1>15, <1>16, <1>17, <1>18, <1>19, <1>20, <1>21, <1>22, <1>23, <1>24 DEF Handle

-----------------------------------------------------------------------------
(* A request begins.                                                       *)

\* The first request after a time without any.
LEMMA Begins ==
    ASSUME Handled, \A t \in Sessions : IsIdle(t), NEW s \in Sessions, NEW h \in Handlers,
           h.pc # "idle", h.op \notin DirectOps, Goto(s, h)
    PROVE  /\ Handled' /\ hd'[s] = h /\ Solo(s)'
           /\ \A t \in Sessions : Solo(t)' => t = s
BY DEF Handled, Solo, Goto, IsIdle

\* When no request is at work the counts are exact.
LEMMA AllIdle ==
    ASSUME Sound, \A t \in Sessions : IsIdle(t)
    PROVE  /\ World /\ Handled /\ Proper(tree) /\ tree[Root].kind = "dir"
           /\ formatted \in BOOLEAN /\ node \in NodeType /\ Seat \in [Sessions -> 0 .. MaxNode]
           /\ formatted => table[Root] # 0
           /\ \A m \in Nodes : Live(m) =>
                 /\ node[m].ref = Count(m) + (IF formatted /\ node[m].inode = Root THEN 1 ELSE 0)
                 /\ node[m].rw = 0 /\ node[m].dir
<1>1. World /\ Handled /\ Shared  BY DEF Sound, Solo
<1>2. \A m \in Nodes : Readers(m) = {} /\ Writers(m) = {}  BY DEF Readers, Writers, IsIdle
<1>3. Cardinality({}) = 0  BY FS_EmptySet
<1>4. Proper(tree) /\ tree[Root].kind = "dir" /\ (formatted => table[Root] # 0)
  BY <1>1 DEF Shared, Proper
<1>5. ASSUME NEW m \in Nodes, Live(m)
      PROVE  /\ node[m].ref = Count(m) + (IF formatted /\ node[m].inode = Root THEN 1 ELSE 0)
             /\ node[m].rw = 0 /\ node[m].dir
  BY <1>1, <1>2, <1>3, <1>5 DEF Shared
<1> QED BY <1>1, <1>4, <1>5 DEF World

\* No request is at work after the step.
LEMMA NobodyWorks ==
    ASSUME \A t \in Sessions : hd'[t] = Idle, hd' \in [Sessions -> Handlers], World',
           Proper(tree'), formatted' => table'[Root] # 0,
           \A n \in Nodes : Live(n)' =>
              /\ node'[n].dir /\ node'[n].rw = 0
              /\ node'[n].ref = Count(n)'
                    + (IF formatted' /\ node'[n].inode = Root THEN 1 ELSE 0)
    PROVE  Sound'
<1>3. \A t \in Sessions : IsIdle(t)' /\ ~Solo(t)'  BY DEF IsIdle, Solo, Idle
<1>5. Handled'  BY <1>3 DEF Handled
<1>6. \A n \in Nodes : Readers(n)' = {} /\ Writers(n)' = {}
  BY DEF Readers, Writers, Idle
<1>7. Shared'
  BY <1>3, <1>6, FS_EmptySet DEF Shared
<1> QED BY <1>3, <1>5, <1>7 DEF Sound

\* A session whose directory is there is not ousted, when no request is at work.
LEMMA AtHome ==
    ASSUME Sound, Ousts, \A t \in Sessions : IsIdle(t), NEW s \in Sessions, Alive(wd[s])
    PROVE  s \notin ousted /\ Seat[s] = wd[s]
<1>1. \A t \in Sessions : hd[t] = Idle  BY DEF Sound, Handled
<1>2. \A t \in Sessions : ~Taken(t)  BY <1>1 DEF Taken, Idle
<1> QED BY <1>2, NotOusted

\* A session gives its directory up: all counts stay exact.
LEMMA Leaves ==
    ASSUME Sound, Ousts, \A t \in Sessions : IsIdle(t), NEW s \in Sessions, Leave(s),
           UNCHANGED <<tree, formatted, ousted>>
    PROVE  /\ World' /\ Proper(tree') /\ tree'[Root].kind = "dir"
           /\ formatted' => table'[Root] # 0
           /\ Seat'[s] = 0 /\ \A t \in Sessions : t # s => Seat'[t] = Seat[t]
           /\ \A m \in Nodes : Live(m)' =>
                 /\ node'[m].ref = Count(m)'
                       + (IF formatted' /\ node'[m].inode = Root THEN 1 ELSE 0)
                 /\ node'[m].rw = 0 /\ node'[m].dir
<1>1. /\ World /\ Handled /\ Proper(tree) /\ tree[Root].kind = "dir"
      /\ formatted \in BOOLEAN /\ node \in NodeType /\ Seat \in [Sessions -> 0 .. MaxNode]
      /\ formatted => table[Root] # 0
      /\ \A m \in Nodes : Live(m) =>
            /\ node[m].ref = Count(m) + (IF formatted /\ node[m].inode = Root THEN 1 ELSE 0)
            /\ node[m].rw = 0 /\ node[m].dir
  BY AllIdle
<1>2. PICK old \in Nodes : old = Seat[s] /\ old = wd[s] /\ Live(old) /\ old # 0 /\ s \notin ousted
  <2>1. s \notin ousted /\ Seat[s] = wd[s]  BY AtHome DEF Leave
  <2> QED BY <1>1, <2>1 DEF Leave, Alive, Live, Nodes
<1> DEFINE rw == node[old].rw
           ref == node[old].ref - 1
<1>3. PICK ns : ns = [node EXCEPT ![old].ref = ref]  OBVIOUS
<1>4. [node EXCEPT ![wd[s]].ref = @ - 1] = ns  BY <1>2, <1>3
<1>5. Release(ns, old) /\ Moves(s, 0)
  <2>1. Release(ns, old) /\ wd' = [wd EXCEPT ![s] = 0]  BY <1>2, <1>4 DEF Leave
  <2> QED BY <1>2, <2>1, SeatMoves DEF Ousts, Moves
<1>6. rw = 0 /\ rw \in Int /\ ref \in Int  BY <1>1, <1>2 DEF NodeType
<1> HIDE DEF rw, ref
<1>7. /\ ns \in NodeType /\ \A m \in Nodes : m # old => ns[m] = node[m]
      /\ ns[old].inode = node[old].inode /\ ns[old].dir = node[old].dir
      /\ ns[old].rw = 0 /\ ns[old].ref = ref
  <2>1. ns \in NodeType  BY <1>1, <1>3, <1>6 DEF NodeType
  <2>2. \A m \in Nodes : m # old => ns[m] = node[m]  BY <1>1, <1>3 DEF NodeType
  <2>3. /\ ns[old].inode = node[old].inode /\ ns[old].dir = node[old].dir
        /\ ns[old].rw = node[old].rw /\ ns[old].ref = ref
    BY <1>1, <1>3 DEF NodeType
  <2> QED BY <1>6, <2>1, <2>2, <2>3 DEF rw
<1>8. /\ Seat' \in [Sessions -> 0 .. MaxNode] /\ Seat'[s] = 0
      /\ \A t \in Sessions : t # s => Seat'[t] = Seat[t]
      /\ Count(old)' = Count(old) - 1
      /\ \A m \in Nodes : m # old => Count(m)' = Count(m)
  <2>1. 0 \in 0 .. MaxNode /\ old \in 0 .. MaxNode  BY BoundAssumption DEF Nodes
  <2>2. /\ Seat' \in [Sessions -> 0 .. MaxNode] /\ Seat'[s] = 0
        /\ \A t \in Sessions : t # s => Seat'[t] = Seat[t]
        /\ Count(0)' = Count(0) + 1 /\ Count(old)' = Count(old) - 1
        /\ \A m \in Nodes : m # 0 /\ m # old => Count(m)' = Count(m)
    BY <1>1, <1>2, <1>5, <2>1, CountMoves
  <2>3. \A m \in Nodes : m # 0  BY DEF Nodes
  <2> QED BY <2>2, <2>3
<1>9. ASSUME NEW m \in Nodes, Live(m)
      PROVE  /\ ns[m].ref = Count(m)' + (IF formatted' /\ ns[m].inode = Root THEN 1 ELSE 0)
             /\ ns[m].rw = 0 /\ ns[m].dir
  <2>1. Count(m) \in Nat  BY CountIsNat
  <2>2. CASE m = old  BY <1>1, <1>2, <1>7, <1>8, <1>9, <2>1, <2>2 DEF ref
  <2>3. CASE m # old  BY <1>1, <1>7, <1>8, <1>9, <2>1, <2>3
  <2> QED BY <2>2, <2>3
<1>10. (\E t \in Sessions : Seat'[t] = old) => Count(old)' > 0
  <2>1. Count(old)' = Cardinality({u \in Sessions : Seat'[u] = old})  BY DEF Count
  <2>2. ASSUME NEW t \in Sessions, Seat'[t] = old PROVE Count(old)' > 0
    BY <2>1, <2>2, SomeCounted
  <2> QED BY <2>2
<1>11. ns[old].ref = Count(old)' + (IF formatted' /\ ns[old].inode = Root THEN 1 ELSE 0)
       /\ Count(old)' >= 0
  <2>1. ns[old].ref = Count(old)' + (IF formatted' /\ ns[old].inode = Root THEN 1 ELSE 0)
    BY <1>2, <1>9
  <2>2. Count(old) \in Nat /\ Count(old) >= 1
    <3>1. Count(old) \in Nat  BY CountIsNat
    <3>2. Count(Seat[s]) > 0  BY CountAtHome
    <3> QED BY <1>2, <3>1, <3>2
  <2> QED BY <1>8, <2>1, <2>2
<1>12. /\ World'
       /\ \A m \in Nodes : m # old => node'[m] = ns[m]
       /\ ns[old].ref > 0 => node' = ns /\ table' = table
       /\ ~(ns[old].ref > 0) => /\ node'[old] = Dead
                                /\ table' = [table EXCEPT ![node[old].inode] = 0]
  <2>1. \A m \in Nodes : /\ ns[m].inode = node[m].inode /\ ns[m].dir = node[m].dir
                         /\ ~Live(m) => ns[m] = Dead
    BY <1>1, <1>2, <1>7 DEF World
  <2>2. ASSUME NEW t \in Sessions, Seat'[t] # 0
        PROVE  Live(Seat'[t]) /\ node[Seat'[t]].dir /\ (Seat'[t] = old => ns[old].ref > 0)
    <3>1. Seat'[t] = Seat[t]  BY <1>8, <2>2
    <3>2. Live(Seat'[t]) /\ node[Seat'[t]].dir  BY <1>1, <2>2, <3>1 DEF World
    <3>3. Seat'[t] = old => ns[old].ref > 0
      <4>1. Count(old)' \in Int  BY <1>8, CountIsNat
      <4> QED BY <1>10, <1>11, <4>1
    <3> QED BY <3>2, <3>3
  <2> QED BY <1>1, <1>2, <1>5, <1>7, <1>8, <2>1, <2>2, Released
<1>13. formatted' => table'[Root] # 0
  <2>1. CASE ns[old].ref > 0  BY <1>1, <1>12, <2>1
  <2>2. CASE ~(ns[old].ref > 0)
    <3>1. ~(formatted' /\ node[old].inode = Root)
      <4>1. Count(old)' \in Int  BY <1>8, CountIsNat
      <4> QED BY <1>7, <1>11, <2>2, <4>1
    <3>2. table \in [Inodes -> 0 .. MaxNode] /\ Root \in Inodes
      BY <1>1, BoundAssumption DEF World, Root, Inodes
    <3> QED BY <1>1, <1>12, <2>2, <3>1, <3>2
  <2> QED BY <2>1, <2>2
<1>14. ASSUME NEW m \in Nodes, Live(m)' PROVE Live(m) /\ node'[m] = ns[m]
  <2>1. CASE ns[old].ref > 0 \/ m # old
    BY <1>7, <1>12, <1>14, <2>1 DEF Live
  <2>2. CASE ~(ns[old].ref > 0) /\ m = old  BY <1>12, <1>14, <2>2 DEF Live, Dead
  <2> QED BY <2>1, <2>2
<1> QED BY <1>1, <1>8, <1>9, <1>12, <1>13, <1>14

\* A request that runs alone finds no other at work.
LEMMA AllAreIdle ==
    ASSUME Sequential, NEW s \in Sessions,
           NEW op \in PathOps \cup {"login", "logout", "format"}, MayBegin(s, op)
    PROVE  \A t \in Sessions : IsIdle(t)
BY DEF Sequential, MayBegin, At, IsIdle

\* open_working_dir loads the root.
LEMMA LoginStep ==
    ASSUME Sequential, Sound, Ousts, NEW s \in Sessions, Login(s)
    PROVE  Sound'
<1>1. /\ \A t \in Sessions : IsIdle(t)
      /\ wd[s] = 0 /\ UNCHANGED <<tree, node, table, formatted, wd, ousted, Seat>>
  <2>1. "login" \in PathOps \cup {"login", "logout", "format"}  OBVIOUS
  <2> QED BY <2>1, SeatSame, AllAreIdle DEF Login, MayBegin
<1>2. /\ World /\ Handled /\ Proper(tree) /\ (formatted => table[Root] # 0)
      /\ \A m \in Nodes : Live(m) =>
            /\ node[m].ref = Count(m) + (IF formatted /\ node[m].inode = Root THEN 1 ELSE 0)
            /\ node[m].rw = 0 /\ node[m].dir
  BY <1>1, AllIdle
<1> DEFINE g == [Idle EXCEPT !.op = "login"]
           h == Load(g, Root, "enter")
<1>3. Goto(s, h)  BY DEF Login
<1>4. /\ g \in Handlers /\ g.op = "login" /\ g.node = 0 /\ g.new = 0 /\ g.got = << >>
      /\ g.todo = << >> /\ ~g.ok
  <2>1. Idle \in Handlers /\ "login" \in Ops  BY IdleHandler DEF Ops
  <2>2. g \in Handlers  BY <2>1 DEF Handlers
  <2>3. /\ g.op = "login" /\ g.node = 0 /\ g.new = 0 /\ g.got = << >>
        /\ g.todo = << >> /\ ~g.ok
    BY DEF Idle
  <2> QED BY <2>2, <2>3
<1> HIDE DEF g
<1>5. Root \in 0 .. MaxInode /\ "enter" \in Stages  BY BoundAssumption DEF Root, Stages
<1>6. /\ h \in Handlers /\ Carried(h, g) /\ h.pc = "load" /\ h.new = g.new /\ h.want = Root
      /\ h.then = "enter"
  BY <1>4, <1>5, LoadFields
<1> HIDE DEF h
<1>7. /\ Handled' /\ hd'[s] = h /\ Solo(s)' /\ \A t \in Sessions : Solo(t)' => t = s
  BY <1>1, <1>2, <1>3, <1>4, <1>6, Begins DEF Carried, DirectOps
<1>8. World'  BY <1>1, <1>2, WorldSame
<1>9. /\ hd'[s].op \in {"login", "format"} /\ ~hd'[s].ok /\ hd'[s].got = << >>
      /\ hd'[s].todo = << >> /\ Here(s)' = 0 /\ hd'[s].new = 0
  BY <1>4, <1>6, <1>7 DEF Carried, Here
<1>10. Homed(s)'
  <2>1. hd'[s].op = "login"  BY <1>4, <1>6, <1>7 DEF Carried
  <2>2. wd'[s] = 0  BY <1>1
  <2> QED BY <2>1, <2>2 DEF Homed, PathOps, Lasts
<1>11. /\ Proper(tree') /\ (formatted' => table'[Root] # 0)
       /\ \A m \in Nodes : Live(m)' =>
              /\ node'[m].ref = Count(m)' + (IF formatted' /\ node'[m].inode = Root THEN 1 ELSE 0)
              /\ node'[m].rw = 0 /\ node'[m].dir
  BY <1>1, <1>2 DEF Live, Count
<1> QED BY <1>6, <1>7, <1>8, <1>9, <1>10, <1>11, Enters

\* close_working_dir.
LEMMA LogoutStep ==
    ASSUME Sequential, Sound, Ousts, NEW s \in Sessions, Logout(s)
    PROVE  Sound'
<1>1. /\ \A t \in Sessions : IsIdle(t)
      /\ Leave(s) /\ Done(s) /\ UNCHANGED <<tree, formatted, ousted>>
  <2>1. "logout" \in PathOps \cup {"login", "logout", "format"}  OBVIOUS
  <2> QED BY <2>1, AllAreIdle DEF Logout, MayBegin
<1>2. /\ World' /\ Proper(tree') /\ (formatted' => table'[Root] # 0)
      /\ \A m \in Nodes : Live(m)' =>
            /\ node'[m].ref = Count(m)' + (IF formatted' /\ node'[m].inode = Root THEN 1 ELSE 0)
            /\ node'[m].rw = 0 /\ node'[m].dir
  BY <1>1, Leaves
<1>3. Handled  BY DEF Sound
<1>4. \A t \in Sessions : hd'[t] = Idle  BY <1>1, <1>3 DEF Handled, Done
<1>5. hd' \in [Sessions -> Handlers]
  <2>1. hd[s] = Idle /\ hd[s] \in Handlers  BY <1>1, <1>3 DEF Handled
  <2> QED BY <1>1, <1>3, <2>1 DEF Handled, Done
<1> QED BY <1>2, <1>4, <1>5, NobodyWorks

\* format gives the session's own directory up first.
LEMMA FormatStep ==
    ASSUME Sequential, Sound, Ousts, NEW s \in Sessions, Format(s)
    PROVE  Sound'
<1>1. /\ \A t \in Sessions : IsIdle(t)
      /\ Leave(s) /\ UNCHANGED <<tree, formatted, ousted>>
  <2>1. "format" \in PathOps \cup {"login", "logout", "format"}  OBVIOUS
  <2> QED BY <2>1, AllAreIdle DEF Format, MayBegin, Sequential
<1>2. /\ World' /\ Proper(tree') /\ (formatted' => table'[Root] # 0)
      /\ tree'[Root].kind = "dir"
      /\ wd'[s] = 0
      /\ \A m \in Nodes : Live(m)' =>
            /\ node'[m].ref = Count(m)' + (IF formatted' /\ node'[m].inode = Root THEN 1 ELSE 0)
            /\ node'[m].rw = 0 /\ node'[m].dir
  BY <1>1, Leaves DEF Leave, Ousts
<1>3. Handled  BY DEF Sound
<1> DEFINE g == [Idle EXCEPT !.op = "format"]
           h == Load(g, Root, "formatting")
<1>4. Goto(s, h)  BY DEF Format
<1>5. /\ g \in Handlers /\ g.op = "format" /\ g.node = 0 /\ g.new = 0 /\ g.got = << >>
      /\ g.todo = << >> /\ ~g.ok
  <2>1. Idle \in Handlers /\ "format" \in Ops  BY IdleHandler DEF Ops
  <2>2. g \in Handlers  BY <2>1 DEF Handlers
  <2>3. /\ g.op = "format" /\ g.node = 0 /\ g.new = 0 /\ g.got = << >>
        /\ g.todo = << >> /\ ~g.ok
    BY DEF Idle
  <2> QED BY <2>2, <2>3
<1> HIDE DEF g
<1>6. Root \in 0 .. MaxInode /\ "formatting" \in Stages  BY BoundAssumption DEF Root, Stages
<1>7. /\ h \in Handlers /\ Carried(h, g) /\ h.pc = "load" /\ h.new = g.new /\ h.want = Root
      /\ h.then = "formatting"
  BY <1>5, <1>6, LoadFields
<1> HIDE DEF h
<1>8. /\ Handled' /\ hd'[s] = h /\ Solo(s)' /\ \A t \in Sessions : Solo(t)' => t = s
  BY <1>1, <1>3, <1>4, <1>5, <1>7, Begins DEF Carried, DirectOps
<1>9. /\ hd'[s].pc = "load" /\ hd'[s].then = "formatting" /\ hd'[s].want = Root
      /\ hd'[s].op = "format" /\ ~hd'[s].ok /\ hd'[s].got = << >>
      /\ hd'[s].todo = << >> /\ Here(s)' = 0 /\ hd'[s].new = 0
  BY <1>5, <1>7, <1>8 DEF Carried, Here
<1>10. Homed(s)'
  BY <1>2, <1>9 DEF Homed, PathOps, Lasts
<1>11. Stage(s)' = "formatting" /\ ~Held(s)' /\ ~Taken(s)' /\ Sought(s)' = Root
  BY <1>9 DEF Stage, Held, Taken, Walking, Sought
<1>12. Trees(s)'  BY <1>2, <1>9 DEF Trees, Sweeping
<1>13. Counts(s)'  BY <1>2, <1>11, UnheldCounts
<1>14. Route(s)'  BY <1>9, <1>11 DEF Route, Stages
<1>15. Fetching(s)'
  <2>1. Root \in Inodes /\ tree'[Root].kind # "free"  BY <1>2, BoundAssumption DEF Root, Inodes
  <2> QED BY <1>9, <2>1 DEF Fetching, Fetches
<1>16. Sights(s)'  BY <1>9, <1>11 DEF Sights
<1>17. Places(s)'  BY <1>9, <1>11 DEF Places, Alive, PathOps, Lasts
<1>18. Walks(s)'  BY <1>9, <1>11 DEF Walks, Walking, Sweeping
<1>19. Exclusive(s)'
  BY <1>10, <1>12, <1>13, <1>14, <1>15, <1>16, <1>17, <1>18 DEF Exclusive
<1> QED BY <1>2, <1>8, <1>19, SoloKeeps

\* A path is a sequence of names.
LEMMA PathIsSeq ==
    ASSUME NEW path \in Paths
    PROVE  path \in Seq(Names \cup Dots)
<1>1. PICK m \in 0 .. MaxPath : path \in [1 .. m -> Names \cup Dots]
  BY DEF Paths, SeqOf, Dots
<1>2. m \in Nat  BY BoundAssumption
<1> QED BY <1>1, <1>2

\* A request with a path begins: at the root, or at the session's directory.
LEMMA FollowStep ==
    ASSUME Sequential, Sound, Ousts, NEW s \in Sessions, NEW op \in PathOps, Follow(s, op)
    PROVE  Sound'
<1>1. /\ \A t \in Sessions : IsIdle(t)
      /\ wd[s] # 0 /\ UNCHANGED <<tree, node, table, formatted, wd, ousted, Seat>>
  BY SeatSame, AllAreIdle DEF Follow, MayBegin
<1>2. /\ World /\ Handled /\ Proper(tree) /\ tree[Root].kind = "dir"
      /\ (formatted => table[Root] # 0) /\ Seat \in [Sessions -> 0 .. MaxNode]
      /\ \A m \in Nodes : Live(m) =>
            /\ node[m].ref = Count(m) + (IF formatted /\ node[m].inode = Root THEN 1 ELSE 0)
            /\ node[m].rw = 0 /\ node[m].dir
  BY <1>1, AllIdle
<1>3. wd[s] \in 0 .. MaxNode /\ (Alive(wd[s]) \/ s \in ousted)
  <2>1. s \notin ousted => Live(wd[s])  BY <1>1, <1>2, SeatIs DEF World
  <2> QED BY <1>1, <2>1 DEF Ousts, Alive, Live
<1>4. PICK path \in Seq(Names \cup Dots) :
      LET h == [Idle EXCEPT !.op = op, !.rest = path] IN
      \/ Goto(s, Load(h, Root, "start"))
      \/ path # << >> /\ Goto(s, [h EXCEPT !.pc = "lookup", !.node = wd[s]])
  BY PathIsSeq DEF Follow
<1> DEFINE g == [Idle EXCEPT !.op = op, !.rest = path]
<1>5. /\ g \in Handlers /\ g.op = op /\ g.node = 0 /\ g.new = 0 /\ g.got = << >>
      /\ g.todo = << >> /\ ~g.ok /\ ~g.stayed
  <2>1. Idle \in Handlers /\ op \in Ops  BY IdleHandler DEF Ops
  <2>2. g \in Handlers  BY <2>1 DEF Handlers
  <2>3. /\ g.op = op /\ g.node = 0 /\ g.new = 0 /\ g.got = << >>
        /\ g.todo = << >> /\ ~g.ok /\ ~g.stayed
    BY DEF Idle
  <2> QED BY <2>2, <2>3
<1>6. op \notin DirectOps /\ op \notin {"login", "format"}  BY DEF PathOps, Lasts, DirectOps
<1>7. PICK h \in Handlers :
      /\ Goto(s, h) /\ h.op = op /\ h.new = 0 /\ h.got = << >> /\ h.todo = << >> /\ ~h.ok
      /\ \/ h.pc = "load" /\ h.then = "start" /\ h.want = Root /\ h.node = 0
         \/ h.pc = "lookup" /\ h.node = wd[s]
  <2>1. CASE Goto(s, Load(g, Root, "start"))
    <3> DEFINE h == Load(g, Root, "start")
    <3>1. Root \in 0 .. MaxInode /\ "start" \in Stages  BY BoundAssumption DEF Root, Stages
    <3> HIDE DEF g
    <3>2. /\ h \in Handlers /\ Carried(h, g) /\ h.pc = "load" /\ h.new = g.new
          /\ h.want = Root /\ h.then = "start"
      BY <1>5, <3>1, LoadFields
    <3> HIDE DEF h
    <3>3. Goto(s, h)  BY <2>1 DEF h
    <3> QED BY <1>5, <3>2, <3>3 DEF Carried
  <2>2. CASE Goto(s, [g EXCEPT !.pc = "lookup", !.node = wd[s]])
    <3> DEFINE h == [g EXCEPT !.pc = "lookup", !.node = wd[s]]
    <3> HIDE DEF g
    <3>1. h \in Handlers
      <4>1. wd[s] \in 0 .. MaxNode /\ "lookup" \in Stages  BY <1>3 DEF Stages
      <4> QED BY <1>5, <4>1 DEF Handlers
    <3>2. /\ h.op = op /\ h.new = 0 /\ h.got = << >> /\ h.todo = << >> /\ ~h.ok
          /\ h.pc = "lookup" /\ h.node = wd[s]
      BY <1>5 DEF Handlers
    <3> HIDE DEF h
    <3>3. Goto(s, h)  BY <2>2 DEF h
    <3> QED BY <3>1, <3>2, <3>3
  <2> QED BY <1>4, <2>1, <2>2
<1> HIDE DEF g
<1>8. /\ Handled' /\ hd'[s] = h /\ Solo(s)' /\ \A t \in Sessions : Solo(t)' => t = s
  BY <1>1, <1>2, <1>6, <1>7, Begins
<1>9. World'  BY <1>1, <1>2, WorldSame
<1>10. Homed(s)'  BY <1>1, <1>6, <1>7, <1>8 DEF Homed
<1>11. /\ ~Held(s)' /\ ~Taken(s)' /\ Stage(s)' \in {"start", "lookup"}
       /\ Stage(s)' = "start" => Here(s)' = 0 /\ Sought(s)' = Root
       /\ Stage(s)' = "lookup" => Here(s)' = wd[s]
  BY <1>7, <1>8 DEF Stage, Held, Taken, Walking, Sought, Here
<1>12. Trees(s)'  BY <1>1, <1>2, <1>11 DEF Trees, Sweeping
<1>13. Counts(s)'
  <2>1. \A m \in Nodes : Live(m)' =>
              /\ node'[m].ref = Count(m)' + (IF formatted' /\ node'[m].inode = Root THEN 1 ELSE 0)
              /\ node'[m].rw = 0 /\ node'[m].dir
    BY <1>1, <1>2 DEF Live, Count
  <2> QED BY <1>1, <1>2, <1>11, <2>1, UnheldCounts
<1>14. Route(s)'  BY <1>7, <1>8, <1>11 DEF Route, Stages
<1>15. Fetching(s)'
  <2>1. Root \in Inodes /\ tree'[Root].kind # "free"
    BY <1>1, <1>2, BoundAssumption DEF Root, Inodes
  <2> QED BY <1>7, <1>8, <2>1 DEF Fetching, Fetches
<1>16. Sights(s)'  BY <1>11 DEF Sights
<1>17. Places(s)'
  <2>1. Stage(s)' = "lookup" => Alive(Here(s))' \/ Excused(s)'
    BY <1>1, <1>3, <1>11 DEF Alive, Excused
  <2> QED BY <1>6, <1>7, <1>8, <1>11, <2>1 DEF Places
<1>18. Walks(s)'  BY <1>11 DEF Walks, Walking, Sweeping
<1>19. Exclusive(s)'
  BY <1>10, <1>12, <1>13, <1>14, <1>15, <1>16, <1>17, <1>18 DEF Exclusive
<1> QED BY <1>8, <1>9, <1>19, SoloKeeps

-----------------------------------------------------------------------------
(* Requests on the working directory, several at a time.                   *)

\* The requests on the working directory, which run at any time.
\* What holds when one of them is at work.
LEMMA SharedIs ==
    ASSUME Sound, Ousts, NEW s \in Sessions, ~IsIdle(s), ~Solo(s), Alive(Here(s))
    PROVE  /\ World /\ Handled /\ Shared /\ \A t \in Sessions : ~Solo(t)
           /\ hd[s] \in Handlers /\ hd[s].op \in DirectOps
           /\ hd[s].pc \in {"lock", "work", "unlock", "release"}
           /\ Seat[s] # 0 /\ Here(s) = Seat[s] /\ Seat[s] \in Nodes /\ Live(Seat[s])
           /\ node[Seat[s]].dir
<1>1. World /\ Handled /\ \A t \in Sessions : ~Solo(t)  BY DEF Sound, Handled, Solo
<1>2. Shared  BY <1>1 DEF Sound
<1>3. \A t \in Sessions : ~Taken(t)
  <2>1. \A t \in Sessions : hd[t] = Idle \/ hd[t].op \in DirectOps  BY <1>1 DEF Handled, Solo
  <2> QED BY <2>1 DEF Taken, Idle, DirectOps
<1>4. ~Stranded(s)  BY <1>3, NotOusted DEF Stranded
<1> QED BY <1>1, <1>2, <1>4 DEF Shared, World, Handled, Solo, Nodes

\* A handler goes from one point of such a request to another.
LEMMA SharedGoes ==
    ASSUME Handled, NEW s \in Sessions, \A t \in Sessions : ~Solo(t),
           hd[s].op \in DirectOps, NEW h \in Handlers, h.pc # "idle", h.op = hd[s].op,
           h.node = hd[s].node, Goto(s, h)
    PROVE  /\ Handled' /\ \A t \in Sessions : ~Solo(t)'
           /\ hd'[s].pc = h.pc /\ hd'[s].op = hd[s].op /\ Here(s)' = Here(s)
           /\ \A t \in Sessions : t # s => hd'[t] = hd[t]
<1>1. /\ hd' \in [Sessions -> Handlers] /\ hd'[s] = h
      /\ \A t \in Sessions : t # s => hd'[t] = hd[t]
  BY DEF Handled, Goto
<1>2. \A t \in Sessions : ~Solo(t)'  BY <1>1 DEF Solo, IsIdle
<1>3. Handled'
  <2>1. \A t \in Sessions : IsIdle(t)' => hd'[t] = Idle  BY <1>1 DEF Handled, IsIdle
  <2> QED BY <1>1, <1>2, <2>1 DEF Handled
<1> QED BY <1>1, <1>2, <1>3 DEF Here

\* It goes to another stage.
LEMMA SharedSteps ==
    ASSUME Handled, NEW s \in Sessions, \A t \in Sessions : ~Solo(t),
           hd[s].op \in DirectOps, NEW pc \in Stages, Step(s, pc)
    PROVE  /\ Handled' /\ \A t \in Sessions : ~Solo(t)'
           /\ hd'[s].pc = pc /\ hd'[s].op = hd[s].op /\ Here(s)' = Here(s)
           /\ \A t \in Sessions : t # s => hd'[t] = hd[t]
<1> DEFINE o == On(s)
           h == [o EXCEPT !.pc = pc]
<1>1. o \in Handlers /\ Carried(o, hd[s])  BY OnFields DEF Handled
<1>2. Goto(s, h)  BY DEF Step
<1> HIDE DEF o
<1>3. h \in Handlers  BY <1>1 DEF Handlers
<1>4. h.pc = pc /\ h.op = hd[s].op /\ h.node = hd[s].node  BY <1>1 DEF Handlers, Carried
<1>5. pc # "idle"  BY DEF Stages
<1> HIDE DEF h
<1> QED BY <1>2, <1>3, <1>4, <1>5, SharedGoes

\* A request on the working directory begins.
LEMMA DirectStep ==
    ASSUME Sequential, Sound, Ousts, NEW s \in Sessions, NEW op \in DirectOps, Direct(s, op)
    PROVE  Sound'
<1>1. /\ World /\ Handled /\ IsIdle(s) /\ wd[s] # 0 /\ MayBegin(s, op)
      /\ UNCHANGED <<tree, node, table, formatted, wd, ousted, Seat>>
  BY SeatSame DEF Sound, Direct, MayBegin, At, IsIdle
<1>2. \A t \in Sessions : ~Solo(t)
  <2>1. SUFFICES ASSUME NEW t \in Sessions, Solo(t) PROVE FALSE
    OBVIOUS
  <2>2. hd[t].op \in PathOps \cup {"login", "format"}
    BY <2>1 DEF Sound, Exclusive, Route, Stages, PathOps, Lasts
  <2>3. t # s /\ ~IsIdle(t)  BY <1>1, <2>1 DEF Solo
  <2> QED BY <1>1, <2>2, <2>3 DEF MayBegin, Sequential
<1>3. Shared  BY <1>2 DEF Sound
<1> DEFINE h == [Idle EXCEPT !.op = op, !.pc = "lock", !.node = wd[s]]
<1>4. /\ h \in Handlers /\ h.op = op /\ h.pc = "lock" /\ h.node = wd[s]
  <2>1. Idle \in Handlers /\ op \in Ops /\ wd[s] \in 0 .. MaxNode /\ "lock" \in Stages
    BY <1>1, IdleHandler DEF Ops, Stages, Ousts
  <2>2. h \in Handlers  BY <2>1 DEF Handlers
  <2>3. h.op = op /\ h.pc = "lock" /\ h.node = wd[s]  BY DEF Idle
  <2> QED BY <2>2, <2>3
<1>5. Goto(s, h)  BY DEF Direct
<1> HIDE DEF h
<1>6. /\ hd' \in [Sessions -> Handlers] /\ hd'[s] = h
      /\ \A t \in Sessions : t # s => hd'[t] = hd[t]
  BY <1>1, <1>4, <1>5 DEF Goto, Handled
<1>7. \A t \in Sessions : ~Solo(t)'  BY <1>2, <1>4, <1>6 DEF Solo, IsIdle
<1>8. Handled'  BY <1>1, <1>4, <1>6, <1>7 DEF Handled, IsIdle
<1>9. World'  BY <1>1, WorldSame
<1>10. \A m \in Nodes : Readers(m)' = Readers(m) /\ Writers(m)' = Writers(m)
  BY <1>1, <1>4, <1>6 DEF Readers, Writers, Here, IsIdle
<1>11. Shared'
  <2>1. ASSUME NEW t \in Sessions, ~IsIdle(t)'
        PROVE  \/ Stranded(t)'
               \/ /\ Seat'[t] # 0 /\ Here(t)' = Seat'[t]
                  /\ hd'[t].pc \in {"lock", "work", "unlock", "release"}
    <3>1. CASE t = s
      <4>1. hd'[t].pc = "lock" /\ Here(t)' = wd[t]  BY <1>4, <1>6, <3>1 DEF Here
      <4>2. s \notin ousted => Seat[s] = wd[s]  BY SeatIs
      <4> QED BY <1>1, <3>1, <4>1, <4>2 DEF Stranded
    <3>2. CASE t # s
      <4>1. hd'[t] = hd[t] /\ ~IsIdle(t)  BY <1>6, <2>1, <3>2 DEF IsIdle
      <4>2. Stranded(t) => Stranded(t)'  BY <1>1, <4>1 DEF Stranded, Here
      <4> QED BY <1>1, <1>3, <4>1, <4>2 DEF Shared, Here
    <3> QED BY <3>1, <3>2
  <2>2. \A n \in Nodes : Live(n)' =>
          /\ node'[n].dir
          /\ node'[n].ref = Count(n)' + (IF formatted' /\ node'[n].inode = Root THEN 1 ELSE 0)
          /\ \/ Writers(n)' = {} /\ node'[n].rw = Cardinality(Readers(n)')
             \/ \E w \in Sessions : Writers(n)' = {w} /\ Readers(n)' = {} /\ node'[n].rw = -1
    BY <1>1, <1>3, <1>10 DEF Shared, Live, Count
  <2> QED BY <1>1, <1>3, <2>1, <2>2 DEF Shared
<1> QED BY <1>7, <1>8, <1>9, <1>11 DEF Sound

\* What is to be shown of a step of such a request.
LEMMA SharedKeeps ==
    ASSUME NEW s \in Sessions, Shared, World', Handled', \A t \in Sessions : ~Solo(t)',
           UNCHANGED <<table, formatted, wd, ousted, Seat>>, Proper(tree'),
           \A m \in Nodes : /\ node'[m].inode = node[m].inode /\ node'[m].dir = node[m].dir
                            /\ node'[m].ref = node[m].ref,
           \A t \in Sessions : t # s => hd'[t] = hd[t],
           IsIdle(s)' \/ (Seat'[s] # 0 /\ Here(s)' = Seat'[s]
                          /\ hd'[s].pc \in {"lock", "work", "unlock", "release"}),
           \A m \in Nodes : Live(m) =>
              \/ Writers(m)' = {} /\ node'[m].rw = Cardinality(Readers(m)')
              \/ \E w \in Sessions : Writers(m)' = {w} /\ Readers(m)' = {} /\ node'[m].rw = -1
    PROVE  Sound'
<1>1. ASSUME NEW t \in Sessions, ~IsIdle(t)'
      PROVE  \/ Stranded(t)'
             \/ /\ Seat'[t] # 0 /\ Here(t)' = Seat'[t]
                /\ hd'[t].pc \in {"lock", "work", "unlock", "release"}
  <2>1. CASE t = s  BY <1>1, <2>1
  <2>2. CASE t # s
    <3>1. hd'[t] = hd[t] /\ ~IsIdle(t)  BY <1>1, <2>2 DEF IsIdle
    <3>2. Stranded(t) => Stranded(t)'  BY <3>1 DEF Stranded, Here
    <3> QED BY <3>1, <3>2 DEF Shared, Here
  <2> QED BY <2>1, <2>2
<1>2. \A m \in Nodes : Live(m)' =>
          /\ node'[m].dir
          /\ node'[m].ref = Count(m)' + (IF formatted' /\ node'[m].inode = Root THEN 1 ELSE 0)
          /\ \/ Writers(m)' = {} /\ node'[m].rw = Cardinality(Readers(m)')
             \/ \E w \in Sessions : Writers(m)' = {w} /\ Readers(m)' = {} /\ node'[m].rw = -1
  BY DEF Shared, Live, Count
<1>3. Shared'  BY <1>1, <1>2 DEF Shared
<1> QED BY <1>3 DEF Sound

\* Those who have not locked a node are not among its readers and writers.
LEMMA UsersSame ==
    ASSUME NEW s \in Sessions, \A t \in Sessions : t # s => hd'[t] = hd[t],
           hd'[s].op = hd[s].op, Here(s)' = Here(s),
           hd[s].pc \in {"work", "unlock"} <=> hd'[s].pc \in {"work", "unlock"}
    PROVE  \A m \in Nodes : Readers(m)' = Readers(m) /\ Writers(m)' = Writers(m)
BY DEF Readers, Writers, Here

\* The readers and writers when a handler has locked its node.
LEMMA UserComes ==
    ASSUME NEW s \in Sessions, \A t \in Sessions : t # s => hd'[t] = hd[t],
           hd'[s].op = hd[s].op, NEW n \in Nodes, n = Here(s), Here(s)' = n,
           hd[s].pc \notin {"work", "unlock"}, hd'[s].pc \in {"work", "unlock"}
    PROVE  /\ \A m \in Nodes : m # n => Readers(m)' = Readers(m) /\ Writers(m)' = Writers(m)
           /\ s \notin Readers(n) \cup Writers(n)
           /\ Writes(hd[s].op) => Writers(n)' = Writers(n) \cup {s} /\ Readers(n)' = Readers(n)
           /\ ~Writes(hd[s].op) => Readers(n)' = Readers(n) \cup {s} /\ Writers(n)' = Writers(n)
BY DEF Readers, Writers, Here

\* The readers and writers when a handler has unlocked its node.
LEMMA UserGoes ==
    ASSUME NEW s \in Sessions, \A t \in Sessions : t # s => hd'[t] = hd[t],
           hd'[s].op = hd[s].op, NEW n \in Nodes, n = Here(s), Here(s)' = n,
           hd[s].pc \in {"work", "unlock"}, hd'[s].pc \notin {"work", "unlock"}
    PROVE  /\ \A m \in Nodes : m # n => Readers(m)' = Readers(m) /\ Writers(m)' = Writers(m)
           /\ Writes(hd[s].op) => s \in Writers(n) /\ Writers(n)' = Writers(n) \ {s}
                                  /\ Readers(n)' = Readers(n)
           /\ ~Writes(hd[s].op) => s \in Readers(n) /\ Readers(n)' = Readers(n) \ {s}
                                   /\ Writers(n)' = Writers(n)
BY DEF Readers, Writers, Here

\* The readers of a node are finitely many.
LEMMA ReadersAre ==
    ASSUME NEW n
    PROVE  /\ IsFiniteSet(Readers(n)) /\ Cardinality(Readers(n)) \in Nat
           /\ Readers(n) \subseteq Sessions /\ Cardinality(Readers(n)) <= Cardinality(Sessions)
           /\ Cardinality(Readers(n)) = 0 <=> Readers(n) = {}
<1>1. Readers(n) \subseteq Sessions /\ IsFiniteSet(Sessions)
  BY BoundAssumption DEF Readers
<1> HIDE DEF Readers
<1>2. IsFiniteSet(Readers(n)) /\ Cardinality(Readers(n)) <= Cardinality(Sessions)
  BY <1>1, FS_Subset
<1> QED BY <1>1, <1>2, FS_CardinalityType, FS_EmptySet

\* TRYLOCK of the working directory, by one of several requests: a reader
\* comes to readers, a writer to nobody.
LEMMA TryLockShared ==
    ASSUME Sound, Ousts, NEW s \in Sessions, ~Solo(s), ~IsIdle(s), TryLock(s)
    PROVE  Sound'
<1>1. PICK n \in Nodes :
      /\ World /\ Handled /\ Shared /\ (\A t \in Sessions : ~Solo(t))
      /\ hd[s] \in Handlers /\ hd[s].op \in DirectOps /\ hd[s].pc = "lock"
      /\ Seat[s] # 0 /\ Seat[s] = n /\ Here(s) = n /\ Live(n)
      /\ UNCHANGED <<tree, table, formatted, wd, ousted, Seat>>
  BY SeatSame, SharedIs DEF TryLock, At
<1>2. Suits(s) /\ ~Opens(hd[s].op)  BY <1>1 DEF Suits, Opens, DirectOps
<1>3. /\ node \in NodeType /\ node[n].rw \in Int /\ node[n].ref \in Int /\ Proper(tree)
      /\ Seat \in [Sessions -> 0 .. MaxNode]
  BY <1>1 DEF World, NodeType, Shared
<1>4. {"work", "release"} \subseteq Stages  BY DEF Stages
<1>5. CASE Lockable(node[n].rw, Writes(hd[s].op))
  <2> DEFINE o == On(s)
             h == [o EXCEPT !.pc = "work", !.ok = TRUE]
             rw == Locked(node[n].rw, Writes(hd[s].op))
             ref == node[n].ref
  <2>1. Goto(s, h)  BY <1>1, <1>2, <1>5 DEF TryLock
  <2>2. Counted(n, rw, ref)
    <3>1. node' = [node EXCEPT ![n].rw = Locked(@, Writes(hd[s].op)),
                               ![n].ref = IF Opens(hd[s].op) THEN @ + 1 ELSE @]
      BY <1>1, <1>2, <1>5 DEF TryLock
    <3> QED BY <1>2, <3>1 DEF Counted
  <2>3. o \in Handlers /\ Carried(o, hd[s])  BY <1>1, OnFields
  <2> HIDE DEF o
  <2>4. h \in Handlers  BY <1>4, <2>3 DEF Handlers
  <2>5. h.pc = "work" /\ h.op = hd[s].op /\ h.node = hd[s].node
    BY <2>3 DEF Handlers, Carried
  <2> HIDE DEF h
  <2>6. /\ Handled' /\ (\A t \in Sessions : ~Solo(t)')
        /\ hd'[s].pc = "work" /\ hd'[s].op = hd[s].op /\ Here(s)' = Here(s)
        /\ \A t \in Sessions : t # s => hd'[t] = hd[t]
    BY <1>1, <2>1, <2>4, <2>5, SharedGoes
  <2>7. rw \in Int  BY <1>3 DEF Locked
  <2>8. /\ node' \in NodeType /\ \A m \in Nodes : m # n => node'[m] = node[m]
        /\ node'[n].inode = node[n].inode /\ node'[n].dir = node[n].dir
        /\ node'[n].rw = rw /\ node'[n].ref = ref
    <3> HIDE DEF rw, ref
    <3>1. ref \in Int  BY <1>3 DEF ref
    <3> QED BY <1>3, <2>2, <2>7, <3>1, Recount
  <2>9. \A m \in Nodes : /\ node'[m].inode = node[m].inode /\ node'[m].dir = node[m].dir
                         /\ node'[m].ref = node[m].ref /\ (~Live(m) => node'[m] = Dead)
    BY <1>1, <2>8 DEF World
  <2>10. World'
    <3>1. \A t \in Sessions : Seat'[t] # 0 => Live(Seat'[t]) /\ node[Seat'[t]].dir
      BY <1>1 DEF World
    <3>2. Seat' \in [Sessions -> 0 .. MaxNode]  BY <1>1, <1>3
    <3>3. UNCHANGED <<tree, table, formatted>>  BY <1>1
    <3>4. \A m \in Nodes : /\ node'[m].inode = node[m].inode /\ node'[m].dir = node[m].dir
                           /\ ~Live(m) => node'[m] = Dead
      BY <2>9
    <3> QED BY <1>1, <2>8, <3>1, <3>2, <3>3, <3>4, Recounted
  <2>11. /\ \A m \in Nodes : m # n => Readers(m)' = Readers(m) /\ Writers(m)' = Writers(m)
         /\ s \notin Readers(n) \cup Writers(n)
         /\ Writes(hd[s].op) => Writers(n)' = Writers(n) \cup {s} /\ Readers(n)' = Readers(n)
         /\ ~Writes(hd[s].op) => Readers(n)' = Readers(n) \cup {s} /\ Writers(n)' = Writers(n)
    BY <1>1, <2>6, UserComes
  <2>12. /\ Cardinality(Readers(n)) \in Nat /\ IsFiniteSet(Readers(n))
         /\ Cardinality(Readers(n)) = 0 <=> Readers(n) = {}
    BY ReadersAre
  <2>13. \/ Writers(n) = {} /\ node[n].rw = Cardinality(Readers(n))
         \/ \E w \in Sessions : Writers(n) = {w} /\ Readers(n) = {} /\ node[n].rw = -1
    BY <1>1 DEF Shared
  <2>14. Writers(n) = {} /\ node[n].rw = Cardinality(Readers(n))
    BY <1>5, <2>12, <2>13 DEF Lockable
  <2>15. \/ Writers(n)' = {} /\ node'[n].rw = Cardinality(Readers(n)')
         \/ \E w \in Sessions : Writers(n)' = {w} /\ Readers(n)' = {} /\ node'[n].rw = -1
    <3>1. CASE Writes(hd[s].op)
      <4>1. rw = -1 /\ Readers(n) = {}  BY <1>5, <2>12, <2>14, <3>1 DEF Lockable, Locked
      <4> QED BY <2>8, <2>11, <2>14, <3>1, <4>1
    <3>2. CASE ~Writes(hd[s].op)
      <4>1. rw = Cardinality(Readers(n)) + 1  BY <2>14, <3>2 DEF Locked
      <4>2. Readers(n)' = Readers(n) \cup {s} /\ s \notin Readers(n)  BY <2>11, <3>2
      <4>3. Cardinality(Readers(n)') = Cardinality(Readers(n)) + 1
        <5>1. Cardinality(Readers(n) \cup {s}) = Cardinality(Readers(n)) + 1
          BY <2>12, <4>2, FS_AddElement
        <5> QED BY <4>2, <5>1
      <4> QED BY <2>8, <2>11, <2>14, <3>2, <4>1, <4>3
    <3> QED BY <3>1, <3>2
  <2>16. \A m \in Nodes : Live(m) =>
              \/ Writers(m)' = {} /\ node'[m].rw = Cardinality(Readers(m)')
              \/ \E w \in Sessions : Writers(m)' = {w} /\ Readers(m)' = {} /\ node'[m].rw = -1
    <3>1. ASSUME NEW m \in Nodes, Live(m), m # n
          PROVE  \/ Writers(m)' = {} /\ node'[m].rw = Cardinality(Readers(m)')
                 \/ \E w \in Sessions : Writers(m)' = {w} /\ Readers(m)' = {} /\ node'[m].rw = -1
      BY <1>1, <2>8, <2>11, <3>1 DEF Shared
    <3> QED BY <2>15, <3>1
  <2>17. Seat'[s] # 0 /\ Here(s)' = Seat'[s] /\ hd'[s].pc \in {"lock", "work", "unlock", "release"}
    BY <1>1, <2>6
  <2> QED BY <1>1, <1>3, <2>6, <2>9, <2>10, <2>16, <2>17, SharedKeeps
<1>6. CASE ~Lockable(node[n].rw, Writes(hd[s].op))
  <2>1. Step(s, "release") /\ node' = node  BY <1>1, <1>2, <1>6 DEF TryLock
  <2>2. /\ Handled' /\ (\A t \in Sessions : ~Solo(t)')
        /\ hd'[s].pc = "release" /\ hd'[s].op = hd[s].op /\ Here(s)' = Here(s)
        /\ \A t \in Sessions : t # s => hd'[t] = hd[t]
    BY <1>1, <1>4, <2>1, SharedSteps
  <2>3. World'  BY <1>1, <2>1, WorldSame
  <2>4. \A m \in Nodes : Readers(m)' = Readers(m) /\ Writers(m)' = Writers(m)
    BY <1>1, <2>2, UsersSame
  <2>5. \A m \in Nodes : Live(m) =>
              \/ Writers(m)' = {} /\ node'[m].rw = Cardinality(Readers(m)')
              \/ \E w \in Sessions : Writers(m)' = {w} /\ Readers(m)' = {} /\ node'[m].rw = -1
    BY <1>1, <2>1, <2>4 DEF Shared
  <2> QED BY <1>1, <1>3, <2>1, <2>2, <2>3, <2>5, SharedKeeps
<1> QED BY <1>5, <1>6

\* The work of one of several requests on the working directory.
LEMMA WorkShared ==
    ASSUME Sound, Ousts, NEW s \in Sessions, ~Solo(s), ~IsIdle(s), Work(s)
    PROVE  Sound'
<1>1. PICK n \in Nodes :
      /\ World /\ Handled /\ Shared /\ (\A t \in Sessions : ~Solo(t))
      /\ hd[s].op \in DirectOps /\ hd[s].pc = "work"
      /\ Seat[s] # 0 /\ Seat[s] = n /\ Here(s) = n /\ Live(n) /\ node[n].dir
      /\ UNCHANGED <<node, table, formatted, wd, ousted, Seat>> /\ Step(s, "unlock")
  BY SeatSame, SharedIs DEF Work, Working, At
<1>2. Proper(tree) /\ "unlock" \in Stages  BY <1>1 DEF Shared, Stages
<1>3. /\ Handled' /\ (\A t \in Sessions : ~Solo(t)')
      /\ hd'[s].pc = "unlock" /\ hd'[s].op = hd[s].op /\ Here(s)' = Here(s)
      /\ \A t \in Sessions : t # s => hd'[t] = hd[t]
  BY <1>1, <1>2, SharedSteps
<1>4. tree' = tree \/ Rename(s)  BY <1>1 DEF Work, DirectOps
<1>5. World' /\ Proper(tree')
  <2>1. CASE tree' = tree  BY <1>1, <1>2, <2>1, WorldSame
  <2>2. CASE Rename(s)  BY <1>1, <1>2, <2>2, RenamedTree
  <2> QED BY <1>4, <2>1, <2>2
<1>6. \A m \in Nodes : Readers(m)' = Readers(m) /\ Writers(m)' = Writers(m)
  BY <1>1, <1>3, UsersSame
<1>7. \A m \in Nodes : Live(m) =>
            \/ Writers(m)' = {} /\ node'[m].rw = Cardinality(Readers(m)')
            \/ \E w \in Sessions : Writers(m)' = {w} /\ Readers(m)' = {} /\ node'[m].rw = -1
  BY <1>1, <1>6 DEF Shared
<1>8. Seat'[s] # 0 /\ Here(s)' = Seat'[s] /\ hd'[s].pc \in {"lock", "work", "unlock", "release"}
  BY <1>1, <1>3
<1>9. \A m \in Nodes : /\ node'[m].inode = node[m].inode /\ node'[m].dir = node[m].dir
                       /\ node'[m].ref = node[m].ref
  BY <1>1
<1> QED BY <1>1, <1>3, <1>5, <1>7, <1>8, <1>9, SharedKeeps

\* UNLOCK by one of them.
LEMMA UnlockShared ==
    ASSUME Sound, Ousts, NEW s \in Sessions, ~Solo(s), ~IsIdle(s), Unlock(s)
    PROVE  Sound'
<1>1. PICK n \in Nodes :
      /\ World /\ Handled /\ Shared /\ (\A t \in Sessions : ~Solo(t))
      /\ hd[s].op \in DirectOps /\ hd[s].pc = "unlock"
      /\ Seat[s] # 0 /\ Seat[s] = n /\ Here(s) = n /\ Live(n)
      /\ UNCHANGED <<tree, table, formatted, wd, ousted, Seat>> /\ Step(s, "release")
  BY SeatSame, SharedIs DEF Unlock, At
<1>2. /\ Proper(tree) /\ "release" \in Stages /\ ~Opens(hd[s].op)
      /\ node \in NodeType /\ node[n].rw \in Int /\ node[n].ref \in Int
      /\ Seat \in [Sessions -> 0 .. MaxNode]
  BY <1>1 DEF Shared, Stages, Opens, DirectOps, World, NodeType
<1>3. /\ Handled' /\ (\A t \in Sessions : ~Solo(t)')
      /\ hd'[s].pc = "release" /\ hd'[s].op = hd[s].op /\ Here(s)' = Here(s)
      /\ \A t \in Sessions : t # s => hd'[t] = hd[t]
  BY <1>1, <1>2, SharedSteps
<1> DEFINE rw == Unlocked(node[n].rw)
           ref == node[n].ref
<1>4. Counted(n, rw, ref)
  <2>1. node' = [node EXCEPT ![n].rw = Unlocked(@),
                             ![n].ref = IF Opens(hd[s].op) /\ hd[s].ok THEN @ - 1 ELSE @]
    BY <1>1 DEF Unlock
  <2> QED BY <1>2, <2>1 DEF Counted
<1>5. /\ node' \in NodeType /\ \A m \in Nodes : m # n => node'[m] = node[m]
      /\ node'[n].inode = node[n].inode /\ node'[n].dir = node[n].dir
      /\ node'[n].rw = rw /\ node'[n].ref = ref
  <2>1. rw \in Int /\ ref \in Int  BY <1>2 DEF Unlocked
  <2> HIDE DEF rw, ref
  <2> QED BY <1>2, <1>4, <2>1, Recount
<1>6. \A m \in Nodes : /\ node'[m].inode = node[m].inode /\ node'[m].dir = node[m].dir
                       /\ node'[m].ref = node[m].ref /\ (~Live(m) => node'[m] = Dead)
  BY <1>1, <1>5 DEF World
<1>7. World'
  <2>1. \A t \in Sessions : Seat'[t] # 0 => Live(Seat'[t]) /\ node[Seat'[t]].dir
    BY <1>1 DEF World
  <2>2. \A m \in Nodes : /\ node'[m].inode = node[m].inode /\ node'[m].dir = node[m].dir
                         /\ ~Live(m) => node'[m] = Dead
    BY <1>6
  <2>3. Seat' \in [Sessions -> 0 .. MaxNode] /\ UNCHANGED <<tree, table, formatted>>
    BY <1>1, <1>2
  <2> QED BY <1>1, <1>5, <2>1, <2>2, <2>3, Recounted
<1>8. /\ \A m \in Nodes : m # n => Readers(m)' = Readers(m) /\ Writers(m)' = Writers(m)
      /\ Writes(hd[s].op) => s \in Writers(n) /\ Writers(n)' = Writers(n) \ {s}
                             /\ Readers(n)' = Readers(n)
      /\ ~Writes(hd[s].op) => s \in Readers(n) /\ Readers(n)' = Readers(n) \ {s}
                              /\ Writers(n)' = Writers(n)
  BY <1>1, <1>3, UserGoes
<1>9. /\ Cardinality(Readers(n)) \in Nat /\ IsFiniteSet(Readers(n))
      /\ Cardinality(Readers(n)) = 0 <=> Readers(n) = {}
  BY ReadersAre
<1>10. \/ Writers(n) = {} /\ node[n].rw = Cardinality(Readers(n))
       \/ \E w \in Sessions : Writers(n) = {w} /\ Readers(n) = {} /\ node[n].rw = -1
  BY <1>1 DEF Shared
<1>11. \/ Writers(n)' = {} /\ node'[n].rw = Cardinality(Readers(n)')
       \/ \E w \in Sessions : Writers(n)' = {w} /\ Readers(n)' = {} /\ node'[n].rw = -1
  <2>1. CASE Writes(hd[s].op)
    <3>1. /\ s \in Writers(n) /\ Writers(n)' = Writers(n) \ {s} /\ Readers(n)' = Readers(n)
      BY <1>8, <2>1
    <3>2. Writers(n) = {s} /\ Readers(n) = {} /\ node[n].rw = -1  BY <1>10, <3>1
    <3>3. rw = 0  BY <3>2 DEF Unlocked
    <3>4. Writers(n)' = {} /\ Cardinality(Readers(n)') = 0
      BY <3>1, <3>2, FS_EmptySet
    <3> QED BY <1>5, <3>3, <3>4
  <2>2. CASE ~Writes(hd[s].op)
    <3>1. s \in Readers(n) /\ Readers(n)' = Readers(n) \ {s} /\ Writers(n)' = Writers(n)
      BY <1>8, <2>2
    <3>2. Writers(n) = {} /\ node[n].rw = Cardinality(Readers(n))  BY <1>10, <3>1
    <3>3. Cardinality(Readers(n)) > 0  BY <1>9, <3>1
    <3>4. rw = Cardinality(Readers(n)) - 1  BY <1>9, <3>2, <3>3 DEF Unlocked
    <3>5. Cardinality(Readers(n) \ {s}) = Cardinality(Readers(n)) - 1
      BY <1>9, <3>1, FS_RemoveElement
    <3>6. Cardinality(Readers(n)') = Cardinality(Readers(n)) - 1  BY <3>1, <3>5
    <3> QED BY <1>5, <3>1, <3>2, <3>4, <3>6
  <2> QED BY <2>1, <2>2
<1>12. \A m \in Nodes : Live(m) =>
            \/ Writers(m)' = {} /\ node'[m].rw = Cardinality(Readers(m)')
            \/ \E w \in Sessions : Writers(m)' = {w} /\ Readers(m)' = {} /\ node'[m].rw = -1
  <2>1. ASSUME NEW m \in Nodes, Live(m), m # n
        PROVE  \/ Writers(m)' = {} /\ node'[m].rw = Cardinality(Readers(m)')
               \/ \E w \in Sessions : Writers(m)' = {w} /\ Readers(m)' = {} /\ node'[m].rw = -1
    BY <1>1, <1>5, <1>8, <2>1 DEF Shared
  <2> QED BY <1>11, <2>1
<1>13. Seat'[s] # 0 /\ Here(s)' = Seat'[s] /\ hd'[s].pc \in {"lock", "work", "unlock", "release"}
  BY <1>1, <1>3
<1>14. Proper(tree') /\ UNCHANGED <<table, formatted, wd, ousted, Seat>>  BY <1>1, <1>2
<1>15. \A m \in Nodes : /\ node'[m].inode = node[m].inode /\ node'[m].dir = node[m].dir
                        /\ node'[m].ref = node[m].ref
  BY <1>6
<1> QED BY <1>1, <1>3, <1>7, <1>12, <1>13, <1>14, <1>15, SharedKeeps

\* One of them ends: the session keeps its directory, so the node stays.
LEMMA FinishShared ==
    ASSUME Sound, Ousts, NEW s \in Sessions, ~Solo(s), ~IsIdle(s), Finish(s)
    PROVE  Sound'
<1>1. PICK n \in Nodes :
      /\ World /\ Handled /\ Shared /\ (\A t \in Sessions : ~Solo(t))
      /\ hd[s].op \in DirectOps /\ hd[s].pc = "release"
      /\ Seat[s] # 0 /\ Seat[s] = n /\ Here(s) = n /\ Live(n)
      /\ UNCHANGED <<tree, formatted, wd, ousted, Seat>> /\ Release(node, n) /\ Done(s)
  BY SeatSame, SharedIs DEF Finish, At, DirectOps
<1>2. Proper(tree)  BY <1>1 DEF Shared
<1>3. node[n].ref > 0
  <2>1. Count(n) > 0 /\ Count(n) \in Nat  BY <1>1, CountAtHome, CountIsNat
  <2>2. node[n].ref = Count(n) + (IF formatted /\ node[n].inode = Root THEN 1 ELSE 0)
    BY <1>1 DEF Shared
  <2> QED BY <2>1, <2>2
<1>4. UNCHANGED <<node, table>>
  <2>1. node[n].ref \in Int  BY <1>1 DEF World, NodeType
  <2> QED BY <1>1, <1>3, <2>1 DEF Release
<1>5. World'  BY <1>1, <1>4, WorldSame
<1>6. /\ hd' \in [Sessions -> Handlers] /\ hd'[s] = Idle
      /\ \A t \in Sessions : t # s => hd'[t] = hd[t]
  BY <1>1, IdleHandler DEF Done, Handled
<1>7. \A t \in Sessions : ~Solo(t)'  BY <1>1, <1>6 DEF Solo, IsIdle, Idle
<1>8. Handled'  BY <1>1, <1>6, <1>7 DEF Handled, IsIdle
<1>9. \A m \in Nodes : Readers(m)' = Readers(m) /\ Writers(m)' = Writers(m)
  BY <1>1, <1>6 DEF Readers, Writers, Here, Idle
<1>10. \A m \in Nodes : Live(m) =>
            \/ Writers(m)' = {} /\ node'[m].rw = Cardinality(Readers(m)')
            \/ \E w \in Sessions : Writers(m)' = {w} /\ Readers(m)' = {} /\ node'[m].rw = -1
  BY <1>1, <1>4, <1>9 DEF Shared
<1>11. IsIdle(s)'  BY <1>6 DEF IsIdle, Idle
<1>12. Proper(tree') /\ UNCHANGED <<table, formatted, wd, ousted, Seat>>  BY <1>1, <1>2, <1>4
<1>13. \A m \in Nodes : /\ node'[m].inode = node[m].inode /\ node'[m].dir = node[m].dir
                        /\ node'[m].ref = node[m].ref
  BY <1>4
<1> QED BY <1>1, <1>5, <1>6, <1>7, <1>8, <1>10, <1>11, <1>12, <1>13, SharedKeeps

\* Where a handler is when it takes a step, unless its behaviour is undefined.
LEMMA HandleAt ==
    ASSUME NEW s \in Sessions, Handle(s), ~Break(s)
    PROVE  /\ broken = None /\ broken' = None /\ ~IsIdle(s)
           /\ \/ TryLock(s) \/ Work(s) \/ Unlock(s) \/ Finish(s)
              \/ hd[s].pc \notin {"lock", "work", "unlock", "release"}
              \/ hd[s].op \in {"cd", "rmdir"}
<1>1. CASE Find(s) \/ Insert(s) \/ Unloadable(s) \/ Enter(s) \/ Start(s)
  BY <1>1 DEF Find, Insert, Unloadable, Enter, Start, At, IsIdle
<1>2. CASE Lookup(s) \/ Check(s) \/ Climb(s) \/ Climbed(s)
  BY <1>2 DEF Lookup, Check, Climb, Climbed, At, IsIdle
<1>3. CASE TryLock(s) \/ Unlock(s) \/ Finish(s)
  BY <1>3 DEF TryLock, Unlock, Finish, At, IsIdle
<1>4. CASE Work(s) \/ Change(s) \/ RemoveDir(s)
  BY <1>4 DEF Work, Change, RemoveDir, Working, At, IsIdle
<1>5. CASE Permit(s) \/ Formatting(s) \/ Walk(s)
  BY <1>5 DEF Permit, Formatting, Walk, At, IsIdle
<1>6. CASE GiveUp(s) \/ GaveUp(s)
  BY <1>6 DEF GiveUp, GaveUp, At, IsIdle
<1>7. CASE Sweep(s) \/ Swept(s) \/ Formatted(s)
  BY <1>7 DEF Sweep, Swept, Formatted, At, IsIdle
<1> QED BY <1>1, <1>2, <1>3, <1>4, <1>5, <1>6, <1>7 DEF Handle

\* And when it is on the working directory.
LEMMA SharedNext ==
    ASSUME Sound, Ousts, NEW s \in Sessions, ~Solo(s), Handle(s)
    PROVE  Sound'
<1>1. CASE Break(s)  BY <1>1, Still DEF Break
<1>2. CASE ~Break(s)
  <2>1. ~IsIdle(s)  BY <1>2, HandleAt
  <2>2. hd[s].op \in DirectOps /\ hd[s].pc \in {"lock", "work", "unlock", "release"}
    <3>1. Shared /\ hd[s].op \in DirectOps  BY <2>1 DEF Sound, Handled, Solo
    <3> QED BY <2>1, <3>1 DEF Shared, Stranded
  <2>3. TryLock(s) \/ Work(s) \/ Unlock(s) \/ Finish(s)
    <3>1. hd[s].op \notin {"cd", "rmdir"}  BY <2>2 DEF DirectOps
    <3> QED BY <1>2, <2>2, <3>1, HandleAt
  <2> QED BY <2>1, <2>3, TryLockShared, WorkShared, UnlockShared, FinishShared
<1> QED BY <1>1, <1>2

-----------------------------------------------------------------------------
(* The first state.                                                        *)

\* The first state, of a new disk or of one that was formatted before.
LEMMA InitSound ==
    ASSUME Init
    PROVE  Sound
<1>1. /\ tree = FreshTree /\ formatted \in BOOLEAN /\ Seat = [s \in Sessions |-> 0]
      /\ hd = [s \in Sessions |-> Idle]
  BY DEF Init, Seat
<1>2. /\ tree \in TreeType /\ Proper(tree) /\ tree[Root].kind = "dir" /\ tree[2].kind = "dir"
      /\ Root \in Inodes /\ 2 \in Inodes /\ Root # 2
  BY <1>1, FreshTreeProper
<1>3. /\ 1 \in Nodes /\ 2 \in Nodes /\ 0 \in 0 .. MaxNode /\ 1 \in 0 .. MaxNode
      /\ 2 \in 0 .. MaxNode /\ 0 \notin Nodes
  BY BoundAssumption DEF Nodes
<1>4. NoNodes \in NodeType /\ \A m \in Nodes : NoNodes[m] = Dead
  <2>1. Dead \in [inode : 0 .. MaxInode, dir : BOOLEAN, rw : Int, ref : Int]
    BY BoundAssumption DEF Dead
  <2> QED BY <2>1 DEF NoNodes, NodeType
<1>5. /\ node \in NodeType /\ table \in [Inodes -> 0 .. MaxNode]
      /\ node[1].inode = Root /\ node[1].dir /\ node[1].rw = 0
      /\ node[1].ref = (IF formatted THEN 1 ELSE 0) /\ table[Root] = 1
      /\ \A i \in Inodes : i # Root /\ i # 2 => table[i] = 0
      /\ \A m \in Nodes : m # 1 /\ m # 2 => node[m] = Dead
      /\ \/ table[2] = 0 /\ node[2] = Dead
         \/ /\ table[2] = 2 /\ node[2].inode = 2 /\ node[2].dir /\ node[2].rw = 0
            /\ node[2].ref = 0
  <2>1. CASE formatted
    <3>1. node = FreshNodes(NoNodes, 1, 2) /\ table = FreshTable(1, 2)  BY <2>1 DEF Init
    <3>2. /\ node \in NodeType
          /\ node[1].inode = Root /\ node[1].dir /\ node[1].rw = 0 /\ node[1].ref = 1
          /\ node[2].inode = 2 /\ node[2].dir /\ node[2].rw = 0 /\ node[2].ref = 0
          /\ \A m \in Nodes : m # 1 /\ m # 2 => node[m] = Dead
      BY <1>3, <1>4, <3>1, FreshFields
    <3>3. /\ table \in [Inodes -> 0 .. MaxNode] /\ table[Root] = 1 /\ table[2] = 2
          /\ \A i \in Inodes : i # Root /\ i # 2 => table[i] = 0
      <4>1. 1 \in 0 .. MaxNode /\ 2 \in 0 .. MaxNode /\ table = FreshTable(1, 2)  BY <1>3, <3>1
      <4> QED BY <4>1, FreshTableFields
    <3> QED BY <2>1, <3>2, <3>3
  <2>2. CASE ~formatted
    <3> DEFINE r == NodeOf(Root, TRUE, 0)
    <3>1. node = [NoNodes EXCEPT ![1] = r] /\ table = FreshTable(1, 0)  BY <2>2 DEF Init
    <3>2. /\ r \in [inode : 0 .. MaxInode, dir : BOOLEAN, rw : Int, ref : Int]
          /\ r.inode = Root /\ r.dir /\ r.rw = 0 /\ r.ref = 0
      BY BoundAssumption DEF NodeOf, Root
    <3> HIDE DEF r
    <3>3. node \in NodeType  BY <1>4, <3>1, <3>2 DEF NodeType
    <3>4. node[1] = r /\ \A m \in Nodes : m # 1 => node[m] = Dead
      BY <1>3, <1>4, <3>1 DEF NodeType
    <3>5. /\ table \in [Inodes -> 0 .. MaxNode] /\ table[Root] = 1 /\ table[2] = 0
          /\ \A i \in Inodes : i # Root /\ i # 2 => table[i] = 0
      BY <1>3, <3>1, FreshTableFields
    <3> QED BY <1>3, <2>2, <3>2, <3>3, <3>4, <3>5
  <2> QED BY <1>1, <2>1, <2>2
<1>6. /\ ~Live(2) \/ (table[2] = 2 /\ node[2].inode = 2)
      /\ Live(1) /\ \A m \in Nodes : Live(m) => m = 1 \/ (m = 2 /\ node[2].inode = 2)
  BY <1>5 DEF Live, Dead, Root
<1>7. World
  <2>1. \A n \in Nodes : ~Live(n) => node[n] = Dead  BY <1>5, <1>6 DEF Live
  <2>2. \A n \in Nodes : Live(n) => table[node[n].inode] = n  BY <1>3, <1>5, <1>6
  <2>3. \A i \in Inodes : table[i] # 0 => node[table[i]].inode = i  BY <1>5
  <2>4. \A n \in Nodes : Live(n) =>
          tree[node[n].inode].kind = (IF node[n].dir THEN "dir" ELSE "file")
    BY <1>2, <1>5, <1>6 DEF Live, Dead
  <2> QED BY <1>1, <1>2, <1>3, <1>5, <2>1, <2>2, <2>3, <2>4 DEF World
<1>8. \A s \in Sessions : hd[s] = Idle /\ IsIdle(s) /\ ~Solo(s)
  BY <1>1 DEF IsIdle, Solo, Idle
<1>9. Handled
  <2>1. hd \in [Sessions -> Handlers]  BY <1>1, IdleHandler
  <2> QED BY <1>8, <2>1 DEF Handled
<1>10. Shared
  <2>1. \A n \in Nodes : Count(n) = 0  BY <1>1, <1>3, CountNobody
  <2>2. \A n \in Nodes : Readers(n) = {} /\ Writers(n) = {} /\ Cardinality({}) = 0
    BY <1>8, FS_EmptySet DEF Readers, Writers, Idle
  <2>3. ASSUME NEW n \in Nodes, Live(n)
        PROVE  /\ node[n].dir /\ node[n].rw = 0
               /\ node[n].ref = Count(n) + (IF formatted /\ node[n].inode = Root THEN 1 ELSE 0)
    BY <1>2, <1>5, <1>6, <2>1, <2>3 DEF Live, Dead
  <2> QED BY <1>2, <1>3, <1>5, <1>8, <2>2, <2>3 DEF Shared
<1> QED BY <1>7, <1>8, <1>9, <1>10 DEF Sound

-----------------------------------------------------------------------------
(* The sessions that were ousted.                                          *)

\* A step makes no node where the directory of a session was.
Settles == \A n \in Nodes : node'[n].inode # 0 => Live(n) \/ \A t \in Sessions : wd[t] # n

\* Only the request of s goes on.
Others(s) == \A t \in Sessions : t # s => hd'[t] = hd[t]

\* The nodes that a step keeps, counts or deletes.
Lasting(ns) == /\ DOMAIN ns = Nodes
               /\ \A n \in Nodes : ns[n].inode # 0 => Live(n)

LEMMA LastingSettles ==
    ASSUME Lasting(node')
    PROVE  Settles
BY DEF Lasting, Settles

LEMMA ReleaseSettles ==
    ASSUME NEW ns, NEW n, Lasting(ns), Release(ns, n)
    PROVE  Settles
<1>1. node' = ns \/ node' = [ns EXCEPT ![n] = Dead]  BY DEF Release
<1>2. Lasting(node')  BY <1>1 DEF Lasting, Dead
<1> QED BY <1>2, LastingSettles

LEMMA CountedLasts ==
    ASSUME World, NEW n, NEW rw, NEW ref
    PROVE  /\ Lasting(node)
           /\ Lasting([node EXCEPT ![n].rw = rw]) /\ Lasting([node EXCEPT ![n].ref = ref])
           /\ Lasting([node EXCEPT ![n].rw = rw, ![n].ref = ref])
<1>1. node \in NodeType  BY DEF World
<1> QED BY <1>1 DEF Lasting, Live, NodeType

LEMMA HdOthers ==
    ASSUME NEW s, \E h : hd' = [hd EXCEPT ![s] = h], hd \in [Sessions -> Handlers]
    PROVE  Others(s)
BY DEF Others

\* A step that changes nobody's directory.
LEMMA OustsKept ==
    ASSUME Ousts, NEW s \in Sessions, UNCHANGED <<wd, ousted>>, Settles, Others(s),
           Taken(s) => Taken(s)' /\ Here(s)' = Here(s)
    PROVE  Ousts'
<1>1. ASSUME NEW t \in ousted
      PROVE  /\ wd[t] # 0
             /\ node'[wd[t]].inode # 0 => \E u \in Sessions : Taken(u)' /\ Here(u)' = wd[t]
  <2>1. t \in Sessions /\ wd[t] \in Nodes /\ wd[t] # 0
    BY DEF Ousts, Nodes
  <2>2. SUFFICES ASSUME node'[wd[t]].inode # 0
                 PROVE  \E u \in Sessions : Taken(u)' /\ Here(u)' = wd[t]
    BY <2>1
  <2>3. Live(wd[t])  BY <2>1, <2>2 DEF Settles
  <2>4. PICK u \in Sessions : Taken(u) /\ Here(u) = wd[t]  BY <2>3 DEF Ousts
  <2>5. CASE u = s  BY <2>4, <2>5
  <2>6. CASE u # s
    <3>1. hd'[u] = hd[u]  BY <2>6 DEF Others
    <3>2. Taken(u)' /\ Here(u)' = wd[t]
      BY <2>4, <3>1 DEF Taken, Walking, Stage, Here
    <3> QED BY <3>2
  <2> QED BY <2>5, <2>6
<1> QED BY <1>1 DEF Ousts, Live

\* A step that changes the directory of one that was not ousted.
LEMMA OustsMoved ==
    ASSUME Ousts, NEW s \in Sessions, s \notin ousted, NEW n \in 0 .. MaxNode,
           wd' = [wd EXCEPT ![s] = n], ousted' = ousted, Settles, Others(s), ~Taken(s)
    PROVE  Ousts'
<1>1. ASSUME NEW t \in ousted
      PROVE  /\ wd'[t] # 0
             /\ node'[wd'[t]].inode # 0 => \E u \in Sessions : Taken(u)' /\ Here(u)' = wd'[t]
  <2>1. t \in Sessions /\ wd[t] \in Nodes /\ wd[t] # 0 /\ wd'[t] = wd[t]
    BY DEF Ousts, Nodes
  <2>2. SUFFICES ASSUME node'[wd[t]].inode # 0
                 PROVE  \E u \in Sessions : Taken(u)' /\ Here(u)' = wd[t]
    BY <2>1
  <2>3. Live(wd[t])  BY <2>1, <2>2 DEF Settles
  <2>4. PICK u \in Sessions : Taken(u) /\ Here(u) = wd[t]  BY <2>3 DEF Ousts
  <2>5. hd'[u] = hd[u]  BY <2>4 DEF Others
  <2>6. Taken(u)' /\ Here(u)' = wd[t]
    BY <2>4, <2>5 DEF Taken, Walking, Stage, Here
  <2> QED BY <2>6
<1>2. wd' \in [Sessions -> 0 .. MaxNode]  BY DEF Ousts
<1> QED BY <1>1, <1>2 DEF Ousts, Live

\* The first state has none.
LEMMA InitOusts ==
    ASSUME Init PROVE Ousts
BY BoundAssumption DEF Init, Ousts

\* A request begins.
LEMMA RequestOusts ==
    ASSUME Sound, Ousts, Sequential, NEW s \in Sessions, Request(s)
    PROVE  Ousts'
<1>1. /\ World /\ hd \in [Sessions -> Handlers] /\ Lasting(node)
      /\ hd[s].pc = "idle" /\ ~Taken(s) /\ ousted' = ousted
  <2>1. hd[s].pc = "idle" /\ ousted' = ousted
    BY DEF Request, At, Login, Logout, Format, Follow, Direct, MayBegin
  <2>2. ~Taken(s)  BY <2>1 DEF Taken, Walking, Stage
  <2> QED BY <2>1, <2>2, CountedLasts DEF Sound, Handled
<1>2. CASE Login(s) \/ (\E op \in PathOps : Follow(s, op)) \/ (\E op \in DirectOps : Direct(s, op))
  <2>1. UNCHANGED <<wd, node>>  BY <1>2 DEF Login, Follow, Direct
  <2>2. \E h : hd' = [hd EXCEPT ![s] = h]  BY <1>2 DEF Login, Follow, Direct, Goto
  <2> QED BY <1>1, <2>1, <2>2, HdOthers, LastingSettles, OustsKept
<1>3. CASE Logout(s) \/ Format(s)
  <2>1. /\ Leave(s) /\ \A t \in Sessions : IsIdle(t)
    <3>1. Leave(s) /\ (MayBegin(s, "logout") \/ MayBegin(s, "format"))  BY <1>3 DEF Logout, Format
    <3> QED BY <3>1, AllAreIdle
  <2>2. \E h : hd' = [hd EXCEPT ![s] = h]  BY <1>3 DEF Logout, Format, Goto, Done
  <2>3. s \notin ousted  BY <2>1, AtHome DEF Leave
  <2>4. PICK ref : ref = node[wd[s]].ref - 1  OBVIOUS
  <2>5. Release([node EXCEPT ![wd[s]].ref = ref], wd[s])  BY <2>1, <2>4 DEF Leave
  <2>6. Settles  BY <1>1, <2>5, CountedLasts, ReleaseSettles
  <2>7. wd' = [wd EXCEPT ![s] = 0] /\ 0 \in 0 .. MaxNode  BY <2>1, BoundAssumption DEF Leave
  <2> QED BY <1>1, <2>2, <2>3, <2>6, <2>7, HdOthers, OustsMoved
<1> QED BY <1>2, <1>3 DEF Request

\* What format has taken, it keeps as it goes on.
LEMMA NotTaken ==
    ASSUME NEW s \in Sessions,
           hd[s].pc \notin {"load", "make", "walk", "giveup", "sweep"} \/ hd[s].op # "format"
    PROVE  ~Taken(s)
BY DEF Taken, Walking, Stage

\* A step of a handler that changes no node.
LEMMA NodesSame ==
    ASSUME World, hd \in [Sessions -> Handlers], Ousts, NEW s \in Sessions,
           UNCHANGED <<node, wd, ousted>>, \E h : hd' = [hd EXCEPT ![s] = h],
           Taken(s) => Taken(s)' /\ Here(s)' = Here(s)
    PROVE  Ousts'
<1>1. Lasting(node')
  <2>1. Lasting(node)  BY CountedLasts
  <2> QED BY <2>1
<1> QED BY <1>1, HdOthers, LastingSettles, OustsKept

\* load_node_.
LEMMA LoadOusts ==
    ASSUME World, hd \in [Sessions -> Handlers], Ousts, NEW s \in Sessions,
           Find(s) \/ Insert(s) \/ Unloadable(s)
    PROVE  Ousts'
<1>1. /\ UNCHANGED <<wd, ousted>> /\ hd[s].pc \in {"load", "make"} /\ hd[s] \in Handlers
      /\ \E h : hd' = [hd EXCEPT ![s] = h]
  BY DEF Find, Insert, Unloadable, At, Goto, Step, Done
<1>2. Taken(s) => hd[s].op = "format" /\ hd[s].then \in {"walk", "giveup", "sweep"}
  BY <1>1 DEF Taken, Walking, Stage
<1> DEFINE o == On(s)
<1>3. o \in Handlers /\ o.op = hd[s].op /\ o.node = hd[s].node
  BY <1>1, OnFields DEF Carried
<1>4. ASSUME NEW h, hd' = [hd EXCEPT ![s] = h], h.op = hd[s].op, h.node = hd[s].node,
             \/ h.pc = hd[s].then \/ (h.pc = "make" /\ h.then = hd[s].then) \/ h.pc = "giveup"
      PROVE  Taken(s) => Taken(s)' /\ Here(s)' = Here(s)
  <2>1. hd'[s] = h  BY <1>4
  <2>2. Taken(s) => Stage(s)' \in {"walk", "giveup", "sweep"}
    BY <1>2, <1>4, <2>1 DEF Stage
  <2> QED BY <1>2, <1>4, <2>1, <2>2 DEF Taken, Walking, Here
<1>5. CASE Find(s)
  <2>1. node' = node  BY <1>5 DEF Find
  <2>2. CASE table[hd[s].want] # 0
    <3> DEFINE h == [o EXCEPT !.pc = hd[s].then, !.new = table[hd[s].want]]
    <3>1. hd' = [hd EXCEPT ![s] = h]  BY <1>5, <2>2 DEF Find, Goto
    <3> HIDE DEF o
    <3>2. h.op = hd[s].op /\ h.node = hd[s].node /\ h.pc = hd[s].then  BY <1>3 DEF Handlers
    <3> HIDE DEF h
    <3> QED BY <1>1, <1>4, <2>1, <3>1, <3>2, NodesSame
  <2>3. CASE table[hd[s].want] = 0
    <3> DEFINE h == [hd[s] EXCEPT !.pc = "make"]
    <3>1. hd' = [hd EXCEPT ![s] = h]  BY <1>5, <2>3 DEF Find, Goto
    <3>2. h.op = hd[s].op /\ h.node = hd[s].node /\ h.pc = "make" /\ h.then = hd[s].then
      BY <1>1 DEF Handlers
    <3> HIDE DEF h
    <3> QED BY <1>1, <1>4, <2>1, <3>1, <3>2, NodesSame
  <2> QED BY <2>2, <2>3
<1>6. CASE Insert(s)
  <2> DEFINE free == Unallocated(node, {})
             n == Min(free)
             g == NodeOf(hd[s].want, tree[hd[s].want].kind = "dir", 0)
             h == [o EXCEPT !.pc = hd[s].then, !.new = n]
  <2>1. free # {} /\ free \in SUBSET Nodes  BY <1>6 DEF Insert, Unallocated
  <2>2. n \in free  BY <2>1, MinIsIn
  <2>3. \A t \in Sessions : wd[t] # n  BY <2>2, Spare
  <2>4. node' = [node EXCEPT ![n] = g] /\ hd' = [hd EXCEPT ![s] = h]
    BY <1>6 DEF Insert, Goto
  <2> HIDE DEF n, g, free, o
  <2>5. Settles  BY <2>3, <2>4 DEF Settles, World, NodeType, Live
  <2>6. h.op = hd[s].op /\ h.node = hd[s].node /\ h.pc = hd[s].then  BY <1>3 DEF Handlers
  <2> HIDE DEF h
  <2> QED BY <1>1, <1>4, <2>4, <2>5, <2>6, HdOthers, OustsKept
<1>7. CASE Unloadable(s)
  <2>1. node' = node  BY <1>7 DEF Unloadable
  <2>2. CASE hd[s].then \in {"check", "permit", "climbed"}
    <3>1. ~Taken(s)  BY <1>2, <2>2
    <3> QED BY <1>1, <2>1, <3>1, NodesSame
  <2>3. CASE hd[s].then \notin {"check", "permit", "climbed"}
    <3> DEFINE h == [o EXCEPT !.pc = "giveup", !.todo = << >>]
    <3>1. hd' = [hd EXCEPT ![s] = h]  BY <1>7, <2>3 DEF Unloadable, Goto
    <3> HIDE DEF o
    <3>2. h.op = hd[s].op /\ h.node = hd[s].node /\ h.pc = "giveup"  BY <1>3 DEF Handlers
    <3> HIDE DEF h
    <3> QED BY <1>1, <1>4, <2>1, <3>1, <3>2, NodesSame
  <2> QED BY <2>2, <2>3
<1> QED BY <1>5, <1>6, <1>7

\* A path, the work and the end of a request, but for the change of a directory.
LEMMA PathOusts ==
    ASSUME World, hd \in [Sessions -> Handlers], Ousts, NEW s \in Sessions,
           \/ Start(s) \/ Lookup(s) \/ Check(s) \/ TryLock(s) \/ Work(s) \/ RemoveDir(s)
           \/ Unlock(s) \/ Finish(s) \/ Climb(s) \/ Climbed(s) \/ Permit(s)
    PROVE  Ousts'
<1>1. UNCHANGED <<wd, ousted>>
  BY DEF Start, Lookup, Check, TryLock, Work, RemoveDir, Working, Unlock, Finish, Climb, Climbed,
         Permit
<1>2. ~Taken(s)
  <2>1. hd[s].pc \in {"start", "lookup", "check", "lock", "work", "unlock", "release", "climb",
                      "climbed", "permit"}
    BY DEF Start, Lookup, Check, TryLock, Work, RemoveDir, Working, Unlock, Finish, Climb,
           Climbed, Permit, At
  <2> QED BY <2>1, NotTaken
<1>3. \E h : hd' = [hd EXCEPT ![s] = h]
  <2>1. CASE Start(s) \/ Lookup(s) \/ Check(s) \/ TryLock(s) \/ Work(s) \/ RemoveDir(s)
    BY <2>1 DEF Start, Lookup, Check, TryLock, Work, RemoveDir, Goto, Step
  <2>2. CASE Unlock(s) \/ Finish(s) \/ Climb(s) \/ Climbed(s) \/ Permit(s)
    BY <2>2 DEF Unlock, Finish, Climb, Climbed, Permit, Goto, Step, Done
  <2> QED BY <2>1, <2>2
<1>4. Settles
  <2>1. CASE Start(s) \/ Lookup(s) \/ Work(s) \/ RemoveDir(s) \/ Climb(s)
    <3>1. node' = node  BY <2>1 DEF Start, Lookup, Work, RemoveDir, Climb
    <3> QED BY <3>1 DEF Settles, Live
  <2>2. CASE Check(s) \/ Finish(s) \/ Climbed(s) \/ Permit(s)
    <3>1. node' = node \/ \E n : Release(node, n)
      BY <2>2 DEF Check, Finish, Climbed, Permit
    <3>2. Lasting(node)  BY CountedLasts
    <3>3. CASE node' = node  BY <3>3 DEF Settles, Live
    <3> QED BY <3>1, <3>2, <3>3, ReleaseSettles
  <2>3. CASE TryLock(s)
    <3>1. \A m \in Nodes : node'[m].inode = node[m].inode
      BY <2>3 DEF TryLock, World, NodeType
    <3> QED BY <3>1 DEF Settles, Live
  <2>4. CASE Unlock(s)
    <3>1. \A m \in Nodes : node'[m].inode = node[m].inode
      BY <2>4 DEF Unlock, World, NodeType
    <3> QED BY <3>1 DEF Settles, Live
  <2> QED BY <2>1, <2>2, <2>3, <2>4
<1> QED BY <1>1, <1>2, <1>3, <1>4, HdOthers, OustsKept

\* A session gets a directory, or another one.
LEMMA MoveOusts ==
    ASSUME Sound, Ousts, NEW s \in Sessions, Solo(s), Enter(s) \/ Change(s)
    PROVE  Ousts'
<1>1. /\ World /\ Handled /\ Exclusive(s) /\ hd \in [Sessions -> Handlers]
      /\ ousted' = ousted /\ \E h : hd' = [hd EXCEPT ![s] = h]
  BY SoloHas DEF Handled, Enter, Change, Working, Step, Goto, Done
<1>2. ~Taken(s)
  <2>1. hd[s].pc \in {"enter", "work"}  BY DEF Enter, Change, Working, At
  <2> QED BY <2>1, NotTaken
<1>3. CASE Enter(s)
  <2>1. Stage(s) = "enter" /\ hd[s].op \in {"login", "format"} /\ wd[s] = 0
    BY <1>1, <1>3 DEF Enter, At, Stage, Exclusive, Route, Homed
  <2>2. s \notin ousted  BY <2>1 DEF Ousts
  <2>3. PICK n \in 0 .. MaxNode : wd' = [wd EXCEPT ![s] = n]
    BY <1>1, <1>3 DEF Enter, Handlers
  <2>4. Settles
    <3>1. \A m \in Nodes : node'[m].inode = node[m].inode
      BY <1>1, <1>3 DEF Enter, World, NodeType
    <3> QED BY <3>1 DEF Settles, Live
  <2> QED BY <1>1, <1>2, <2>2, <2>3, <2>4, HdOthers, OustsMoved
<1>4. CASE Change(s)
  <2>1. s \notin ousted  BY <1>1, <1>2, <1>4, NoneTaken, NotOusted DEF Change
  <2>2. PICK n \in 0 .. MaxNode : wd' = [wd EXCEPT ![s] = n]
    BY <1>1, <1>4 DEF Change, Handlers, Here
  <2>3. Settles
    <3>1. CASE wd[s] = Here(s)
      <4>1. node' = node  BY <1>4, <3>1 DEF Change
      <4> QED BY <4>1 DEF Settles, Live
    <3>2. CASE wd[s] # Here(s)
      <4> DEFINE m == wd[s]
                 ns == [node EXCEPT ![m].ref = @ - 1, ![m].rw = Unlocked(@),
                                    ![Here(s)].ref = @ + 1]
      <4>1. Release(ns, m)  BY <1>4, <3>2 DEF Change
      <4>2. node \in NodeType  BY <1>1 DEF World
      <4>3. Lasting(ns)
        <5>1. DOMAIN ns = Nodes /\ \A k \in Nodes : ns[k].inode = node[k].inode
          BY <3>2, <4>2 DEF NodeType
        <5> QED BY <5>1 DEF Lasting, Live
      <4> HIDE DEF ns, m
      <4> QED BY <4>1, <4>3, ReleaseSettles
    <3> QED BY <3>1, <3>2
  <2> QED BY <1>1, <1>2, <2>1, <2>2, <2>3, HdOthers, OustsMoved
<1> QED BY <1>3, <1>4

\* A format begins: the sessions in a root that was loaded are ousted.
LEMMA FormattingOusts ==
    ASSUME Sound, Ousts, NEW s \in Sessions, Solo(s), Formatting(s)
    PROVE  Ousts'
<1>1. /\ World /\ Handled /\ Exclusive(s) /\ hd \in [Sessions -> Handlers] /\ hd[s] \in Handlers
      /\ wd' = wd /\ \E h : hd' = [hd EXCEPT ![s] = h]
  BY SoloHas DEF Handled, Formatting, Goto
<1>2. ~Taken(s) /\ hd[s].pc = "formatting" /\ hd[s].op = "format"
  <2>1. hd[s].pc = "formatting" /\ Stage(s) = "formatting"  BY DEF Formatting, At, Stage
  <2> QED BY <1>1, <2>1, NotTaken DEF Exclusive, Route
<1> DEFINE root == hd[s].new
<1>3. CASE node[root].ref > 1
  <2>1. node' = node /\ ousted' = ousted  BY <1>3 DEF Formatting
  <2> QED BY <1>1, <1>2, <2>1, NodesSame
<1>4. CASE ~(node[root].ref > 1)
  <2> DEFINE h == [hd[s] EXCEPT !.pc = "walk", !.node = root]
  <2>1. /\ node' = [node EXCEPT ![root].ref = 0] /\ root # 0
        /\ ousted' = ousted \cup {t \in Sessions : ~formatted /\ wd[t] = root}
        /\ hd' = [hd EXCEPT ![s] = h]
    BY <1>4 DEF Formatting, Goto, Alive
  <2>2. h.pc = "walk" /\ h.node = root /\ h.op = "format"  BY <1>1, <1>2 DEF Handlers
  <2> HIDE DEF h
  <2>3. hd'[s] = h  BY <1>1, <2>1
  <2>4. Taken(s)' /\ Here(s)' = root
    BY <2>2, <2>3 DEF Taken, Walking, Stage, Here
  <2>5. ASSUME NEW t \in ousted'
        PROVE  wd[t] # 0 /\ (node'[wd[t]].inode # 0 => wd[t] = root)
    <3>1. CASE t \in ousted
      <4>1. wd[t] \in Nodes /\ wd[t] # 0  BY <3>1 DEF Ousts, Nodes
      <4>2. ~Live(wd[t])  BY <1>1, <1>2, <3>1, NoneTaken DEF Ousts
      <4>3. node'[wd[t]].inode = node[wd[t]].inode
        BY <1>1, <2>1, <4>1 DEF World, NodeType
      <4> QED BY <4>1, <4>2, <4>3 DEF Live
    <3>2. CASE t \notin ousted  BY <2>1, <2>5, <3>2
    <3> QED BY <3>1, <3>2
  <2>6. ousted' \in SUBSET Sessions  BY <2>1 DEF Ousts
  <2> QED BY <1>1, <2>4, <2>5, <2>6 DEF Ousts, Live
<1> QED BY <1>3, <1>4

\* The walk, the way back and the sweep.
LEMMA WalkOusts ==
    ASSUME Sound, Ousts, NEW s \in Sessions, Solo(s),
           Walk(s) \/ GiveUp(s) \/ GaveUp(s) \/ Sweep(s) \/ Swept(s)
    PROVE  Ousts'
<1>1. /\ World /\ Handled /\ Exclusive(s) /\ hd \in [Sessions -> Handlers] /\ hd[s] \in Handlers
      /\ node \in NodeType /\ UNCHANGED <<wd, ousted>>
  BY SoloHas DEF World, Handled, Walk, GiveUp, GaveUp, Sweep, Swept
<1>2. \E h : hd' = [hd EXCEPT ![s] = h]
  <2>1. CASE Walk(s)  BY <2>1 DEF Walk, Goto
  <2>2. CASE GiveUp(s) \/ GaveUp(s) \/ Sweep(s) \/ Swept(s)
    BY <2>2 DEF GiveUp, GaveUp, Sweep, Swept, Goto, Step
  <2> QED BY <2>1, <2>2
<1> DEFINE o == On(s)
<1>3. o \in Handlers /\ o.op = hd[s].op /\ o.node = hd[s].node /\ o.pc = hd[s].pc
  BY <1>1, OnFields DEF Carried
<1>4. ASSUME NEW h, hd' = [hd EXCEPT ![s] = h], h.op = hd[s].op, h.node = hd[s].node,
             h.pc \in {"giveup", "sweep"} \/ (h.pc = "load" /\ h.then = "walk")
      PROVE  Taken(s) => Taken(s)' /\ Here(s)' = Here(s)
  <2>1. hd'[s] = h  BY <1>1, <1>4
  <2> QED BY <1>4, <2>1 DEF Taken, Walking, Stage, Here
<1>5. CASE Walk(s)
  <2> DEFINE n == hd[s].new
             h == [o EXCEPT !.got = Append(@, n)]
  <2>1. Settles
    <3> DEFINE rw == IF node[n].rw = 0 THEN -1 ELSE node[n].rw
    <3>1. node' = [node EXCEPT ![n].rw = rw]  BY <1>5 DEF Walk
    <3> HIDE DEF rw
    <3>2. \A m \in Nodes : node'[m].inode = node[m].inode  BY <1>1, <3>1 DEF NodeType
    <3> QED BY <3>2 DEF Settles, Live
  <2>2. \/ Goto(s, [h EXCEPT !.pc = "giveup", !.todo = << >>])
        \/ Goto(s, [h EXCEPT !.pc = "sweep"])
        \/ \E todo : Goto(s, Load([h EXCEPT !.todo = Tail(todo)], Head(todo), "walk"))
    BY <1>5 DEF Walk
  <2> HIDE DEF o
  <2>3. h.op = hd[s].op /\ h.node = hd[s].node /\ DOMAIN h = DOMAIN o  BY <1>3 DEF Handlers
  <2>4. DOMAIN h = {"pc", "op", "rest", "node", "new", "want", "then", "todo", "got", "ok", "stayed"}
    BY <1>3, <2>3 DEF Handlers
  <2> HIDE DEF h
  <2>5. CASE Goto(s, [h EXCEPT !.pc = "giveup", !.todo = << >>])
    <3> DEFINE k == [h EXCEPT !.pc = "giveup", !.todo = << >>]
    <3>1. k.op = hd[s].op /\ k.node = hd[s].node /\ k.pc = "giveup"  BY <2>3, <2>4
    <3>2. hd' = [hd EXCEPT ![s] = k]  BY <2>5 DEF Goto
    <3> HIDE DEF k
    <3> QED BY <1>1, <1>4, <2>1, <3>1, <3>2, HdOthers, OustsKept
  <2>6. CASE Goto(s, [h EXCEPT !.pc = "sweep"])
    <3> DEFINE k == [h EXCEPT !.pc = "sweep"]
    <3>1. k.op = hd[s].op /\ k.node = hd[s].node /\ k.pc = "sweep"  BY <2>3, <2>4
    <3>2. hd' = [hd EXCEPT ![s] = k]  BY <2>6 DEF Goto
    <3> HIDE DEF k
    <3> QED BY <1>1, <1>4, <2>1, <3>1, <3>2, HdOthers, OustsKept
  <2>7. ASSUME NEW todo, Goto(s, Load([h EXCEPT !.todo = Tail(todo)], Head(todo), "walk"))
        PROVE  Ousts'
    <3> DEFINE k == Load([h EXCEPT !.todo = Tail(todo)], Head(todo), "walk")
    <3>1. k.op = hd[s].op /\ k.node = hd[s].node /\ k.pc = "load" /\ k.then = "walk"
      BY <2>3, <2>4 DEF Load
    <3>2. hd' = [hd EXCEPT ![s] = k]  BY <2>7 DEF Goto
    <3> HIDE DEF k
    <3> QED BY <1>1, <1>4, <2>1, <3>1, <3>2, HdOthers, OustsKept
  <2> QED BY <2>2, <2>5, <2>6, <2>7
<1>6. CASE GiveUp(s)
  <2> DEFINE n == Head(hd[s].got)
             h == [o EXCEPT !.got = Tail(@)]
  <2>1. Settles
    <3>1. \E rw : Release([node EXCEPT ![n].rw = rw], n)  BY <1>6 DEF GiveUp
    <3> QED BY <1>1, <3>1, CountedLasts, ReleaseSettles
  <2>2. hd' = [hd EXCEPT ![s] = h] /\ hd[s].pc = "giveup"  BY <1>6 DEF GiveUp, Goto, At
  <2> HIDE DEF o
  <2>3. h.op = hd[s].op /\ h.node = hd[s].node /\ h.pc = "giveup"  BY <1>3, <2>2 DEF Handlers
  <2> HIDE DEF h
  <2> QED BY <1>1, <1>4, <2>1, <2>2, <2>3, HdOthers, OustsKept
<1>7. CASE GaveUp(s)
  <2>1. hd[s].op = "rmdir"
    <3>1. hd[s].pc = "giveup" /\ Stage(s) = "giveup" /\ Got(s) = {}
          /\ (hd[s].op = "rmdir" \/ Alive(Here(s)))
      BY <1>7 DEF GaveUp, At, Stage, Got, Range
    <3> QED BY <1>1, <3>1 DEF Exclusive, Route, Walks
  <2>2. node' = node /\ ~Taken(s)  BY <1>7, <2>1, NotTaken DEF GaveUp
  <2> QED BY <1>1, <1>2, <2>2, NodesSame
<1>8. CASE Sweep(s) \/ Swept(s)
  <2>1. ~Taken(s)  BY <1>8, NotTaken DEF Sweep, Swept
  <2>2. Settles
    <3>1. node' = node \/ \E n : node' = [node EXCEPT ![n] = Dead]  BY <1>8 DEF Sweep, Swept
    <3> QED BY <1>1, <3>1 DEF Settles, Live, Dead, NodeType
  <2> QED BY <1>1, <1>2, <2>1, <2>2, HdOthers, OustsKept
<1> QED BY <1>5, <1>6, <1>7, <1>8

\* A format deletes every node of the table, and makes none where a directory was.
LEMMA FormattedOusts ==
    ASSUME Sound, Ousts, NEW s \in Sessions, Solo(s), Formatted(s)
    PROVE  Ousts'
<1>1. World /\ UNCHANGED <<wd, ousted>>  BY SoloHas DEF Formatted
<1> DEFINE left == [n \in Nodes |-> IF \E i \in Inodes : table[i] = n THEN Dead ELSE node[n]]
           free == Unallocated(left, {s})
           root == Min(free)
           home == Min(free \ {root})
<1>2. node' = FreshNodes(left, root, home) /\ Cardinality(free) > 1  BY DEF Formatted
<1>3. \A m \in Nodes : left[m] = Dead
  <2>1. \A m \in Nodes : Live(m) => \E i \in Inodes : table[i] = m  BY <1>1, LiveIs
  <2> QED BY <1>1, <2>1 DEF World
<1>4. free \in SUBSET Nodes  BY DEF Unallocated
<1>5. \A m \in free : \A t \in Sessions : wd[t] # m  BY Spare
<1>6. left \in [Nodes -> {Dead}]  BY <1>3
<1> HIDE DEF left, free
<1>7. root \in free
  <2>1. free # {}  BY <1>2, FS_EmptySet
  <2> QED BY <1>4, <2>1, MinIsIn
<1> HIDE DEF root
<1>8. home \in free
  <2>1. free \ {root} # {}
    <3>1. SUFFICES ASSUME free \ {root} = {} PROVE FALSE
      OBVIOUS
    <3>2. free = {root}  BY <1>7, <3>1
    <3>3. Cardinality({root}) = 1  BY FS_Singleton
    <3> QED BY <1>2, <3>2, <3>3
  <2>2. home \in free \ {root}  BY <1>4, <2>1, MinIsIn
  <2> QED BY <2>2
<1> HIDE DEF home
<1>9. ASSUME NEW t \in ousted PROVE wd[t] # 0 /\ node'[wd[t]].inode = 0
  <2>1. t \in Sessions /\ wd[t] \in Nodes /\ wd[t] # 0  BY DEF Ousts, Nodes
  <2>2. wd[t] # root /\ wd[t] # home  BY <1>5, <1>7, <1>8, <2>1
  <2>3. node'[wd[t]] = Dead  BY <1>2, <1>6, <2>1, <2>2 DEF FreshNodes
  <2> QED BY <2>1, <2>3 DEF Dead
<1> QED BY <1>1, <1>9 DEF Ousts, Live

\* A request goes on.
LEMMA HandleOusts ==
    ASSUME Sound, Ousts, NEW s \in Sessions, Handle(s)
    PROVE  Ousts'
<1>1. World /\ hd \in [Sessions -> Handlers]  BY DEF Sound, Handled
<1>2. CASE Break(s)
  <2>1. UNCHANGED <<node, wd, hd, ousted>>  BY <1>2 DEF Break
  <2> QED BY <2>1 DEF Ousts, Live, Taken, Walking, Stage, Here
<1>3. CASE Find(s) \/ Insert(s) \/ Unloadable(s)  BY <1>1, <1>3, LoadOusts
<1>4. CASE \/ Start(s) \/ Lookup(s) \/ Check(s) \/ TryLock(s) \/ Work(s) \/ RemoveDir(s)
           \/ Unlock(s) \/ Finish(s) \/ Climb(s) \/ Climbed(s) \/ Permit(s)
  BY <1>1, <1>4, PathOusts
<1>5. CASE \/ Enter(s) \/ Change(s) \/ Formatting(s) \/ Walk(s) \/ GiveUp(s) \/ GaveUp(s)
           \/ Sweep(s) \/ Swept(s) \/ Formatted(s)
  <2>1. \/ hd[s].pc \in {"enter", "formatting", "walk", "giveup", "sweep"}
        \/ hd[s].pc = "work" /\ hd[s].op = "cd"
    BY <1>5 DEF Enter, Change, Working, Formatting, Walk, GiveUp, GaveUp, Sweep, Swept, Formatted, At
  <2>2. ~IsIdle(s)  BY <2>1 DEF IsIdle
  <2>3. Solo(s)
    <3>1. SUFFICES ASSUME ~Solo(s) PROVE FALSE
      OBVIOUS
    <3>2. Shared /\ hd[s].op \in DirectOps  BY <2>2, <3>1 DEF Sound, Handled, Solo
    <3>3. hd[s].pc \in {"lock", "work", "unlock", "release"}  BY <2>2, <3>2 DEF Shared, Stranded
    <3> QED BY <2>1, <3>2, <3>3 DEF DirectOps
  <2> QED BY <1>5, <2>3, MoveOusts, FormattingOusts, WalkOusts, FormattedOusts
<1> QED BY <1>2, <1>3, <1>4, <1>5 DEF Handle

-----------------------------------------------------------------------------
(* The inductive invariant.                                                *)

\* What the nodes, the requests and the tree are, which sessions were ousted,
\* and that a handler with which the behaviour ended was one that does not know
\* what to do, or leaves no tree.
IInv ==
    /\ Sound /\ Ousts
    /\ broken \in Sessions \cup {None}
    /\ broken # None => Undefined(broken) \/ Tangles(broken)

\* It holds at first.
LEMMA Initially ==
    ASSUME Init PROVE IInv
BY InitSound, InitOusts DEF Init, IInv

\* What is undefined is so in the next state too, when nothing else changes.
LEMMA StillUndefined ==
    ASSUME UNCHANGED <<tree, node, table, formatted, wd, hd>>, NEW s,
           Undefined(s) \/ Tangles(s)
    PROVE  broken' = s => Undefined(broken)' \/ Tangles(broken)'
<1>1. SUFFICES ASSUME broken' = s PROVE Undefined(broken)' \/ Tangles(broken)'
  OBVIOUS
<1>2. /\ Here(broken)' = Here(s) /\ Dir(broken)' = Dir(s) /\ Name(broken)' = Name(s)
      /\ \A n : Alive(n)' <=> Alive(n)
  BY <1>1 DEF Here, Dir, Name, Alive
<1>3. Uses(broken)' = Uses(s)  BY <1>1, <1>2 DEF Uses
<1>4. /\ Entry(Dir(broken), Name(broken))' = Entry(Dir(s), Name(s))
      /\ Entry(Dir(broken), "..")' = Entry(Dir(s), "..")
  BY <1>2 DEF Entry
<1>5. Children(node[hd[broken].new].inode)' = Children(node[hd[s].new].inode)
  BY <1>1 DEF Children
<1>6. CASE Undefined(s)  BY <1>1, <1>2, <1>3, <1>4, <1>5, <1>6 DEF Undefined
<1>7. CASE Tangles(s)  BY <1>1, <1>2, <1>4, <1>7 DEF Tangles
<1> QED BY <1>6, <1>7

\* Every step keeps it, the one with which the behaviour ends included.
LEMMA Inductive ==
    ASSUME Sequential, IInv, [Next]_vars
    PROVE  IInv'
<1>1. CASE UNCHANGED vars
  <2>1. UNCHANGED <<tree, node, table, formatted, wd, ousted, hd, broken>>  BY <1>1 DEF vars
  <2>2. Sound'  BY <2>1, Still DEF IInv
  <2>3. Ousts'  BY <2>1 DEF IInv, Ousts, Live, Taken, Walking, Stage, Here
  <2>4. broken # None => Undefined(broken)' \/ Tangles(broken)'
    BY <2>1, StillUndefined DEF IInv
  <2> QED BY <2>1, <2>2, <2>3, <2>4 DEF IInv
<1>2. ASSUME NEW s \in Sessions, Request(s) PROVE IInv'
  <2>1. broken' = None
    BY <1>2 DEF Request, At, Login, Logout, Format, Follow, Direct, MayBegin
  <2>2. Sound'
    <3>1. Sound /\ Ousts  BY DEF IInv
    <3>2. CASE Login(s) \/ Logout(s) \/ Format(s)
      BY <3>1, <3>2, LoginStep, LogoutStep, FormatStep
    <3>3. CASE \E op \in PathOps : Follow(s, op)  BY <3>1, <3>3, FollowStep
    <3>4. CASE \E op \in DirectOps : Direct(s, op)  BY <3>1, <3>4, DirectStep
    <3> QED BY <1>2, <3>2, <3>3, <3>4 DEF Request
  <2>3. Ousts'  BY <1>2, RequestOusts DEF IInv
  <2> QED BY <2>1, <2>2, <2>3 DEF IInv
<1>3. ASSUME NEW s \in Sessions, Handle(s) PROVE IInv'
  <2>1. Sound' /\ Ousts'  BY <1>3, SoloNext, SharedNext, HandleOusts DEF IInv
  <2>2. CASE Break(s)
    <3>1. /\ Undefined(s) \/ Tangles(s)
          /\ broken' = s /\ UNCHANGED <<tree, node, table, formatted, wd, hd>>
      BY <2>2 DEF Break
    <3>2. Undefined(broken)' \/ Tangles(broken)'  BY <3>1, StillUndefined
    <3> QED BY <2>1, <3>1, <3>2 DEF IInv
  <2>3. CASE ~Break(s)
    <3>1. broken' = None  BY <1>3, <2>3, HandleAt
    <3> QED BY <2>1, <3>1 DEF IInv
  <2> QED BY <2>2, <2>3
<1> QED BY <1>1, <1>2, <1>3 DEF Next

\* The nodes, the table, the tree, the counts and the requests stay as the
\* inductive invariant has them, whatever requests come
\* (step2/filesystem.cc), if those of a path run alone.
THEOREM Invariant ==
    ASSUME Sequential PROVE Spec => []IInv
<1>1. Init => IInv  BY Initially
<1>2. IInv /\ [Next]_vars => IInv'  BY Inductive
<1> QED BY <1>1, <1>2, PTL DEF Spec

-----------------------------------------------------------------------------
(* What follows from it.                                                   *)

\* A session counts.
LEMMA SomeSessions ==
    ASSUME NEW s \in Sessions
    PROVE  Cardinality(Sessions) \in Nat /\ Cardinality(Sessions) >= 1
<1>1. IsFiniteSet(Sessions)  BY BoundAssumption
<1> QED BY <1>1, FS_CardinalityType, FS_EmptySet

\* The state keeps its types: no lock count gets below -1 or above the number
\* of sessions, and no reference count below 0 or above twice that number and
\* one (node_t in filesystem.h).
THEOREM TypeCorrect ==
    ASSUME Sequential PROVE Spec => []TypeOK
<1> DEFINE C == Cardinality(Sessions)
<1>1. ASSUME IInv PROVE TypeOK
  <2>1. World /\ Handled /\ C \in Nat  BY <1>1, BoundAssumption, FS_CardinalityType DEF IInv, Sound
  <2>2. ASSUME NEW n \in Nodes
        PROVE  node[n].rw \in -1 .. C /\ node[n].ref \in 0 .. 2 * C + 1
    <3>1. CASE ~Live(n)
      <4>1. node[n].rw = 0 /\ node[n].ref = 0  BY <2>1, <3>1 DEF World, Dead
      <4> QED BY <2>1, <4>1
    <3>2. CASE Live(n) /\ \E s \in Sessions : Solo(s)
      <4>1. PICK s \in Sessions : Solo(s)  BY <3>2
      <4>2. /\ node[n].ref = Count(n) + (IF Using(s) /\ n = Here(s) THEN 1 ELSE 0)
                 + (IF formatted /\ node[n].inode = Root /\ ~Taken(s) THEN 1 ELSE 0)
            /\ node[n].rw \in {-1, 0, 1}
        BY <1>1, <3>2, <4>1 DEF IInv, Sound, Exclusive, Counts
      <4>3. Count(n) \in Nat /\ Count(n) <= C /\ C >= 1  BY <4>1, CountIsNat, SomeSessions
      <4> QED BY <2>1, <4>2, <4>3
    <3>3. CASE Live(n) /\ \A s \in Sessions : ~Solo(s)
      <4>1. Shared  BY <1>1, <3>3 DEF IInv, Sound
      <4>2. /\ node[n].ref = Count(n) + (IF formatted /\ node[n].inode = Root THEN 1 ELSE 0)
            /\ \/ node[n].rw = Cardinality(Readers(n))
               \/ node[n].rw = -1
        BY <3>3, <4>1 DEF Shared
      <4>3. Count(n) \in Nat /\ Count(n) <= C  BY CountIsNat
      <4>4. Cardinality(Readers(n)) \in Nat /\ Cardinality(Readers(n)) <= C  BY ReadersAre
      <4>5. node[n].ref <= 2 * C + 1
        <5>1. CASE C = 0 /\ Count(n) = 0  BY <4>2, <5>1
        <5>2. CASE C >= 1  BY <2>1, <4>2, <4>3, <5>2
        <5> QED BY <2>1, <4>3, <5>1, <5>2
      <4> QED BY <2>1, <4>2, <4>3, <4>4, <4>5
    <3> QED BY <3>1, <3>2, <3>3
  <2>3. node \in [Nodes -> [inode : 0 .. MaxInode, dir : BOOLEAN, rw : -1 .. C,
                            ref : 0 .. 2 * C + 1]]
    BY <2>1, <2>2 DEF World, NodeType
  <2> QED BY <1>1, <2>1, <2>3 DEF TypeOK, World, IInv, Ousts, TreeType
<1> QED BY <1>1, Invariant, PTL

\* When no request is at work no node is locked: UNLOCK comes on every way
\* out of an operation of filesystem.cc.
THEOREM GivenBack ==
    ASSUME Sequential PROVE Spec => []LocksGivenBack
<1>1. ASSUME IInv PROVE LocksGivenBack
  <2>1. SUFFICES ASSUME Quiet, NEW n \in Nodes, Alive(n) PROVE node[n].rw = 0
    BY DEF LocksGivenBack
  <2> QED BY <1>1, <2>1, AllIdle DEF IInv, Quiet, Alive, Live
<1> QED BY <1>1, Invariant, PTL

\* When no request is at work a node's refcnt is the number of sessions whose
\* directory it is, and one for a formatted root: change_working_dir_,
\* acquire_file, format and close_working_dir give back what they take.
THEOREM CountsExact ==
    ASSUME Sequential PROVE Spec => []RefcntExact
<1>1. ASSUME IInv PROVE RefcntExact
  <2>1. SUFFICES ASSUME Quiet, NEW n \in Nodes, Alive(n)
                 PROVE  node[n].ref = Cardinality({s \in Sessions : wd[s] = n})
                           + (IF formatted /\ node[n].inode = Root THEN 1 ELSE 0)
    BY DEF RefcntExact
  <2>2. node[n].ref = Count(n) + (IF formatted /\ node[n].inode = Root THEN 1 ELSE 0)
    BY <1>1, <2>1, AllIdle DEF IInv, Quiet, Alive, Live
  <2>3. {s \in Sessions : Seat[s] = n} = {s \in Sessions : wd[s] = n}
    <3>1. ASSUME NEW s \in Sessions PROVE Seat[s] = n <=> wd[s] = n
      <4>1. CASE wd[s] = n
        <5>1. s \notin ousted  BY <1>1, <2>1, <4>1, AtHome DEF IInv, Quiet
        <5> QED BY <4>1, <5>1, SeatIs
      <4>2. CASE Seat[s] = n
        <5>1. n # 0  BY <2>1 DEF Alive
        <5> QED BY <4>2, <5>1, SeatIs
      <4> QED BY <4>1, <4>2
    <3> QED BY <3>1
  <2> QED BY <2>2, <2>3 DEF Count
<1> QED BY <1>1, Invariant, PTL

\* nodes_ has every node that is there, so there is one for an inode:
\* load_node_ makes none that the table has, and release_node_ and remove_
\* take it out of the table when they delete it.
THEOREM NodesUnique ==
    ASSUME Sequential PROVE Spec => []OneNode
<1>1. ASSUME IInv PROVE OneNode
  BY <1>1 DEF IInv, Sound, World, OneNode, Alive, Live
<1> QED BY <1>1, Invariant, PTL

\* When no request is at work a node stands for an inode that exists, and of
\* its type: remove_ deletes the nodes of what it frees.
THEOREM NodesReal ==
    ASSUME Sequential PROVE Spec => []NodesExist
<1>1. ASSUME IInv PROVE NodesExist
  BY <1>1 DEF IInv, Sound, World, NodesExist, Alive, Live
<1> QED BY <1>1, Invariant, PTL

\* A session's directory is there as long as the session is: rmdir and format
\* refuse a tree in which a node is referenced, and release_node_ keeps it, but
\* for a session in the root of a disk that was loaded, which format ousts.
THEOREM DirectoriesKept ==
    ASSUME Sequential PROVE Spec => []SessionsKeepDirectory
<1>1. ASSUME IInv PROVE SessionsKeepDirectory
  <2>1. World  BY <1>1 DEF IInv, Sound
  <2>2. ASSUME NEW s \in Sessions \ ousted, wd[s] # 0
        PROVE  Alive(wd[s]) /\ tree[node[wd[s]].inode].kind = "dir"
    <3>1. Seat[s] = wd[s]  BY <2>2, SeatIs
    <3>2. wd[s] \in Nodes /\ Live(wd[s]) /\ node[wd[s]].dir
      BY <2>1, <2>2, <3>1 DEF World, Nodes
    <3> QED BY <2>1, <3>2 DEF World, Alive, Live, Nodes
  <2> QED BY <2>2 DEF SessionsKeepDirectory
<1> QED BY <1>1, Invariant, PTL

\* The behaviour of requests that run alone ends in no other ways than those
\* that KnownDefects names: the pointers that resolve_path_, remove_, format
\* and get_full_path_ of filesystem.cc follow are good otherwise.
THEOREM DefectsKnown ==
    ASSUME Sequential PROVE Spec => []KnownDefects
<1>1. ASSUME IInv PROVE KnownDefects
  <2> SUFFICES ASSUME broken # None, broken \notin ousted, ~Tangles(broken) PROVE KnownDefects
    BY DEF KnownDefects, Defined
  <2> DEFINE s == broken
  <2>1. Sound /\ Ousts /\ s \in Sessions /\ Undefined(s) /\ s \notin ousted
    BY <1>1 DEF IInv
  <2> HIDE DEF s
  <2>2. /\ World /\ Handled /\ node \in NodeType
        /\ Seat[s] = wd[s] /\ (Seat[s] # 0 => Alive(Seat[s]) /\ Seat[s] \in Nodes)
    <3>1. Seat[s] = wd[s]  BY <2>1, SeatIs
    <3> QED BY <2>1, <3>1 DEF Sound, World, Alive, Live, Nodes
  <2>3. CASE IsIdle(s)
    BY <2>1, <2>2, <2>3 DEF Undefined, Uses, IsIdle
  <2>4. CASE ~IsIdle(s) /\ ~Solo(s)
    <3>1. hd[s].op \in DirectOps /\ Shared  BY <2>1, <2>4 DEF Sound, Handled, Solo
    <3>2. Alive(Here(s)) /\ hd[s].pc \in {"lock", "work", "unlock", "release"}
      BY <2>1, <2>2, <2>4, <3>1 DEF Shared, Stranded
    <3> QED BY <2>1, <3>1, <3>2 DEF Undefined, Uses, DirectOps
  <2>5. CASE Solo(s)
    <3>1. Exclusive(s)  BY <2>1, <2>5 DEF Sound
    <3>2. /\ Route(s) /\ Fetching(s) /\ Sights(s) /\ Places(s) /\ Walks(s) /\ Homed(s)
          /\ Trees(s) /\ hd[s] \in Handlers /\ ~IsIdle(s)
      BY <2>1, <2>2, <2>5, <3>1 DEF Exclusive, Handled, Solo
    <3>3. CASE hd[s].pc \in {"load", "make"}
      <4>1. Uses(s) = {}  BY <3>3 DEF Uses
      <4>2. hd[s].pc = "make" => tree[hd[s].want].kind # "free"  BY <3>2 DEF Fetching
      <4>3. hd[s].pc = "make" /\ hd[s].then \in Unchecked
        BY <2>1, <3>3, <4>1, <4>2 DEF Undefined
      <4> QED BY <4>3 DEF KnownDefects, s
    <3>4. CASE hd[s].pc \notin {"load", "make"}
      <4>1. Stage(s) = hd[s].pc /\ hd[s].pc \in Stages  BY <3>2, <3>4 DEF Stage, Route
      <4>2. CASE hd[s].pc \in {"enter", "permit", "formatting", "walk", "start"}
        <5>1. Alive(hd[s].new)  BY <3>2, <4>2 DEF Fetching, Fetches
        <5> QED BY <2>1, <4>2, <5>1 DEF Undefined, Uses
      <4>3. CASE hd[s].pc \in {"check", "climbed", "climb"}
        <5>1. hd[s].op # "format"  BY <3>2, <4>1, <4>3 DEF Route, PathOps, Lasts
        <5>2. Alive(Here(s)) /\ (hd[s].pc # "climb" => Alive(hd[s].new))
          BY <3>2, <4>1, <4>3, <5>1 DEF Fetching, Fetches, Places
        <5>3. Proper(tree)  BY <3>2, <4>1, <4>3 DEF Trees, Sweeping
        <5>4. Dir(s) \in Inodes /\ tree[Dir(s)].kind # "free"
          <6>1. Here(s) \in Nodes /\ Live(Here(s))
            BY <3>2, <5>2 DEF Handlers, Here, Alive, Live, Nodes
          <6> QED BY <2>2, <6>1 DEF World, Dir, Live, NodeType, Inodes
        <5>5. Dir(s) # Root => /\ tree[Dir(s)].up \in Inodes
                               /\ Dir(s) \in Children(tree[Dir(s)].up)
          BY <5>3, <5>4 DEF Proper, Children, Inodes
        <5>6. CASE hd[s].pc = "check"  BY <2>1, <5>2, <5>6 DEF Undefined, Uses
        <5>7. CASE hd[s].pc = "climbed"
          <6>1. Dir(s) \in Children(node[hd[s].new].inode)
            BY <3>2, <4>1, <5>5, <5>7 DEF Sights, Sought
          <6> QED BY <2>1, <5>2, <5>7, <6>1 DEF Undefined, Uses
        <5>8. CASE hd[s].pc = "climb"
          <6>1. Dir(s) # Root /\ Entry(Dir(s), "..") = 0
            BY <2>1, <5>2, <5>8 DEF Undefined, Uses
          <6>2. ~tree[Dir(s)].dots  BY <5>5, <6>1 DEF Entry, Inodes
          <6> QED BY <5>8, <6>2 DEF KnownDefects, Dir, Here, s
        <5> QED BY <4>3, <5>6, <5>7, <5>8
      <4>4. CASE hd[s].pc \in {"lookup", "lock", "work", "unlock", "release"}
        <5>1. hd[s].op \in PathOps /\ hd[s].op # "format"
          BY <3>2, <4>1, <4>4 DEF Route, PathOps, Lasts
        <5>2. Alive(Here(s)) \/ Excused(s)  BY <3>2, <4>1, <4>4, <5>1 DEF Places
        <5>3. Alive(wd[s])  BY <2>1, <2>2, <3>2, <5>1 DEF Homed
        <5>4. CASE Excused(s)
          BY <2>1, <5>4 DEF Excused, KnownDefects, Dots, s
        <5>5. CASE Alive(Here(s))
          <6>1. \A n \in Uses(s) : Alive(n)  BY <4>4, <5>3, <5>5 DEF Uses
          <6>2. \/ hd[s].pc = "lookup" /\ ~node[Here(s)].dir
                \/ hd[s].pc = "work" /\ hd[s].op = "rmdir"
            BY <2>1, <4>4, <6>1 DEF Undefined
          <6>3. hd[s].pc = "work" /\ hd[s].op = "rmdir" => hd[s].rest # << >>
            BY <3>2, <4>1 DEF Places
          <6> QED BY <6>2, <6>3 DEF KnownDefects, Here, s
        <5> QED BY <5>2, <5>4, <5>5
      <4>5. CASE hd[s].pc \in {"giveup", "sweep"}
        <5>1. CASE hd[s].got # << >>
          <6>1. hd[s].got \in Seq(Nodes)  BY <3>2 DEF Handlers
          <6>2. 1 \in DOMAIN hd[s].got /\ Head(hd[s].got) = hd[s].got[1]
                /\ hd[s].got[1] \in Nodes
            BY <5>1, <6>1
          <6>3. Live(hd[s].got[1])  BY <3>2, <4>1, <4>5, <6>2 DEF Walks, Walking
          <6>4. Alive(Head(hd[s].got))  BY <6>2, <6>3 DEF Alive, Live, Nodes
          <6> QED BY <2>1, <4>5, <5>1, <6>4 DEF Undefined, Uses
        <5>2. CASE hd[s].got = << >>
          <6>1. hd[s].op \in {"rmdir", "format"}  BY <3>2, <4>1, <4>5 DEF Route
          <6>2. CASE hd[s].op = "format" /\ hd[s].pc = "giveup"
            BY <6>2 DEF KnownDefects, s
          <6>3. CASE hd[s].op = "rmdir" \/ hd[s].pc = "sweep"
            <7>1. Alive(Here(s)) \/ Excused(s)  BY <3>2, <4>1, <4>5, <6>1, <6>3 DEF Places
            <7>2. CASE Excused(s)  BY <2>1, <7>2 DEF Excused, KnownDefects, Dots, s
            <7>3. CASE Alive(Here(s))  BY <2>1, <4>5, <5>2, <7>3 DEF Undefined, Uses
            <7> QED BY <7>1, <7>2, <7>3
          <6> QED BY <4>5, <6>1, <6>2, <6>3
        <5> QED BY <5>1, <5>2
      <4> QED BY <4>1, <4>2, <4>3, <4>4, <4>5 DEF Stages
    <3> QED BY <3>3, <3>4
  <2> QED BY <2>3, <2>4, <2>5 DEF Solo
<1> QED BY <1>1, Invariant, PTL

=============================================================================
