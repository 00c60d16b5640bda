---------------------------- MODULE NodeInvariant ---------------------------
(***************************************************************************)
(* The invariant of the node table, for every set of sessions and of names *)
(* and every bound on inodes, nodes and paths, and what the operators of   *)
(* NodeTable do to it.                                                     *)
(*                                                                         *)
(* The operations that resolve a path, log in or out, or format are taken  *)
(* to run alone (Sequential): those on the working directory run with each *)
(* other in any interleaving. Without it some of the properties are false, *)
(* as resolve_path_ and the walks look at nodes that they have neither     *)
(* locked nor counted.                                                     *)
(*                                                                         *)
(* The invariant has two forms. While a request runs alone (Exclusive) it  *)
(* says where the request is and which nodes it has: every count is that   *)
(* of the sessions, and what this request added. While none does (Shared)  *)
(* every count is that of the sessions and of those at work on their own   *)
(* directory. Both need that the nodes are those of the table (World) and  *)
(* that the directories are a tree (Proper): a walk meets no inode twice,  *)
(* so that it does not refuse what it locked itself.                       *)
(***************************************************************************)
EXTENDS NodeTable, FiniteSetTheorems, SequenceTheorems, WellFoundedInduction, TLAPS

\* What the operations that resolve a path, log in or out, or format are
\* asked to do: each runs while no other handler is at work.
Sequential == PathOps \cup {"login", "logout", "format"} \subseteq Alone

\* The names that are no entry of their own.
Dots == {".", ".."}

\* Where a request is, but for the two steps of load_node_.
Stages == {"enter", "start", "lookup", "check", "lock", "work", "permit", "formatting",
           "walk", "giveup", "sweep", "unlock", "release", "climb", "climbed"}

\* Where the result of load_node_ is used.
Fetches == {"enter", "start", "check", "climbed", "permit", "formatting", "walk"}

\* The types of a handler's record.
Handlers == [pc : Stages \cup {"idle", "load", "make"}, op : Ops \cup {"none"},
             rest : Seq(Names \cup Dots), node : 0 .. MaxNode, new : 0 .. MaxNode,
             want : 0 .. MaxInode, then : Stages \cup {"none"}, todo : Seq(Inodes),
             got : Seq(Nodes), ok : BOOLEAN, stayed : BOOLEAN]

-----------------------------------------------------------------------------
(* The nodes, the handlers and the tree.                                   *)

\* A node that is there.
Live(n) == node[n].inode # 0

\* The directory of each session. One that a format ousted has none: its
\* reference is not counted any more.
Seat == [s \in Sessions |-> IF s \in ousted THEN 0 ELSE wd[s]]

\* The sessions whose directory is node n.
Count(n) == Cardinality({s \in Sessions : Seat[s] = n})

\* A request that runs alone.
Solo(s) == ~IsIdle(s) /\ hd[s].op \notin DirectOps

\* Where a request is, or will be when load_node_ returns.
Stage(s) == IF hd[s].pc \in {"load", "make"} THEN hd[s].then ELSE hd[s].pc

\* The inode whose node load_node_ gives, or gave.
Sought(s) == IF hd[s].pc \in {"load", "make"} THEN hd[s].want ELSE node[hd[s].new].inode

\* The types of the tree and of the nodes, whose counts are not bounded yet.
TreeType == [Inodes -> [kind : {"free", "file", "dir"}, up : 0 .. MaxInode,
                        dots : BOOLEAN, at : [Names -> 0 .. MaxInode]]]
NodeType == [Nodes -> [inode : 0 .. MaxInode, dir : BOOLEAN, rw : Int, ref : Int]]

\* The table has the nodes that are there, one for an inode; a node has the
\* type of its inode; a session's directory is one of them.
World ==
    /\ tree \in TreeType /\ node \in NodeType /\ table \in [Inodes -> 0 .. MaxNode]
    /\ formatted \in BOOLEAN /\ Seat \in [Sessions -> 0 .. MaxNode]
    /\ \A n \in Nodes : ~Live(n) => node[n] = Dead
    /\ \A n \in Nodes : Live(n) => table[node[n].inode] = n
    /\ \A i \in Inodes : table[i] # 0 => node[table[i]].inode = i
    /\ \A n \in Nodes : Live(n) =>
          tree[node[n].inode].kind = (IF node[n].dir THEN "dir" ELSE "file")
    /\ \A s \in Sessions : Seat[s] # 0 => Live(Seat[s]) /\ node[Seat[s]].dir

\* A request that runs alone is the only one.
Handled ==
    /\ hd \in [Sessions -> Handlers]
    /\ \A s \in Sessions : IsIdle(s) => hd[s] = Idle
    /\ \A s, t \in Sessions : Solo(s) /\ s # t => IsIdle(t)

\* The tree: an entry is the only one of its inode, which knows its
\* directory, and every inode but the root's has an entry and is below the
\* root, as no set of them has all its directories in itself.
Proper(t) ==
    /\ t[Root].kind = "dir" /\ t[Root].up = Root
    /\ \A d \in Inodes : \A n \in Names : t[d].at[n] # 0 =>
          /\ t[d].kind = "dir" /\ t[d].at[n] # Root
          /\ t[t[d].at[n]].kind # "free" /\ t[t[d].at[n]].up = d
          /\ \A m \in Names : t[d].at[m] = t[d].at[n] => m = n
    /\ \A i \in Inodes : t[i].kind # "free" /\ i # Root =>
          /\ t[i].up \in Inodes /\ t[t[i].up].kind = "dir"
          /\ \E n \in Names : t[t[i].up].at[n] = i
    /\ \A S \in SUBSET Inodes :
          (\A i \in S : i # Root /\ t[i].kind # "free" /\ t[i].up \in S) => S = {}

-----------------------------------------------------------------------------
(* While no request runs alone.                                            *)

\* The requests on the working directory that have locked node n.
Readers(n) == {s \in Sessions : hd[s].pc \in {"work", "unlock"} /\ Here(s) = n /\ ~Writes(hd[s].op)}
Writers(n) == {s \in Sessions : hd[s].pc \in {"work", "unlock"} /\ Here(s) = n /\ Writes(hd[s].op)}

\* A session that was ousted asks for something in the directory it had.
Stranded(s) == s \in ousted /\ hd[s].pc = "lock" /\ Here(s) = wd[s]

\* The state while no request runs alone: the tree is proper, there are nodes
\* of directories only, their counts are those of the sessions and of the
\* locks, and whoever is at work is at its own directory.
Shared ==
    /\ Proper(tree)
    /\ formatted => table[Root] # 0
    /\ \A n \in Nodes : Live(n) =>
          /\ node[n].dir
          /\ node[n].ref = Count(n) + (IF formatted /\ node[n].inode = Root THEN 1 ELSE 0)
          /\ \/ Writers(n) = {} /\ node[n].rw = Cardinality(Readers(n))
             \/ \E w \in Sessions : Writers(n) = {w} /\ Readers(n) = {} /\ node[n].rw = -1
    /\ \A s \in Sessions : ~IsIdle(s) => Stranded(s) \/
          (Seat[s] # 0 /\ Here(s) = Seat[s] /\ hd[s].pc \in {"lock", "work", "unlock", "release"})

-----------------------------------------------------------------------------
(* While one does.                                                         *)

\* The request has locked the node of its path, and has not released it.
Held(s) == hd[s].ok /\ Stage(s) \notin {"release", "climb", "climbed"}

\* It has a file open.
Using(s) == Opens(hd[s].op) /\ Held(s)

\* A tree is locked for rmdir or format.
Walking(s) == Stage(s) \in {"walk", "giveup", "sweep"}

\* format has taken the root's reference.
Taken(s) == hd[s].op = "format" /\ Walking(s)

\* What the known defects leave out: a path that names a directory again
\* where it is, an rmdir of "." or "..", and what an ousted session asks for.
Excused(s) ==
    \/ hd[s].stayed
    \/ hd[s].op = "rmdir" /\ hd[s].rest # << >> /\ Name(s) \in Dots
    \/ s \in ousted

\* The nodes that a walk has, their inodes, and those it still has to visit.
Got(s) == Range(hd[s].got)
Visited(s) == {node[n].inode : n \in Got(s)}
Ahead(s) == {Sought(s)} \cup Range(hd[s].todo)

\* The inode that a walk begins at.
First(s) == IF hd[s].op = "format" THEN Root ELSE Entry(Dir(s), Name(s))

\* rmdir deletes nodes and inodes: the tree is proper again when what is left
\* of the walk is gone, and the entry with it (Rest).
Sweeping(s) == hd[s].op = "rmdir" /\ Stage(s) = "sweep"
Rest(s) == [i \in Inodes |->
    IF i \in Visited(s) THEN Unused
    ELSE IF i = Dir(s) THEN [tree[i] EXCEPT !.at[Name(s)] = 0] ELSE tree[i]]

\* Which operations come to a stage.
Route(s) ==
    LET op == hd[s].op  st == Stage(s) IN
    /\ st \in Stages
    /\ st = "enter" => op \in {"login", "format"}
    /\ st = "formatting" => op = "format"
    /\ st \in {"start", "lookup", "check", "lock", "work", "unlock", "release"} => op \in PathOps
    /\ st = "permit" => op = "rmdir"
    /\ st \in {"walk", "giveup", "sweep"} => op \in {"rmdir", "format"}
    /\ st \in {"climb", "climbed"} => op = "cd"

\* What load_node_ is asked for exists, and what it gave is there.
Fetching(s) ==
    LET h == hd[s] IN
    /\ h.pc \in {"load", "make"} =>
          /\ h.then \in Fetches /\ h.want \in Inodes /\ tree[h.want].kind # "free"
    /\ h.pc = "make" => table[h.want] = 0
    /\ h.pc \in Fetches => Alive(h.new)
    /\ h.pc \notin Fetches => h.new = 0

\* Which inode that is: the root, the entry of the name, or the directory
\* above.
Sights(s) ==
    LET st == Stage(s) IN
    /\ st \in {"enter", "start", "formatting"} => Here(s) = 0 /\ Sought(s) = Root
    /\ st \in {"check", "permit"} => Sought(s) = Entry(Dir(s), Name(s))
    /\ st = "climbed" => Sought(s) = tree[Dir(s)].up /\ Dir(s) # Root

\* The node that a request is at: it is there, and a directory where one is
\* needed, or the request is excused.
Places(s) ==
    LET st == Stage(s)  op == hd[s].op  n == Here(s) IN
    /\ op # "format" /\ st \in {"check", "permit", "walk", "sweep", "climb", "climbed"} =>
          Alive(n) /\ node[n].dir
    /\ op = "format" /\ st \in {"walk", "sweep"} => Alive(n) /\ Dir(s) = Root /\ node[n].ref = 0
    /\ op # "format" /\ st \in {"lookup", "lock", "work", "unlock", "release", "giveup"} =>
          Alive(n) \/ Excused(s)
    /\ op # "format" /\ st \in {"check", "permit", "walk", "sweep", "giveup"} => hd[s].rest # << >>
    /\ st = "work" /\ op \in {"mk", "rm", "rmdir"} => hd[s].rest # << >>
    /\ Alive(n) /\ st \in {"lock", "work"} /\ (hd[s].rest # << >> \/ (op = "cd" /\ st = "work")) =>
          node[n].dir
    /\ op = "rmdir" /\ st \in {"work", "permit", "walk", "sweep"} /\ Alive(n) => node[n].rw = -1
    /\ st \notin {"walk", "giveup", "sweep"} => hd[s].got = << >>
    /\ st # "walk" => hd[s].todo = << >>
    /\ hd[s].ok => op \in PathOps /\ st \in {"work", "permit", "walk", "giveup", "sweep", "unlock",
                                           "release", "climb", "climbed"}
    /\ op \in PathOps /\ st \in {"work", "permit", "walk", "giveup", "sweep"} => hd[s].ok

\* A walk in the tree: no inode is met twice, each is below one that was
\* visited, and the entries of those that were are visited or ahead.
WalkOK(s) ==
    LET got == hd[s].got  todo == hd[s].todo IN
    /\ \A i \in Visited(s) \cup Ahead(s) : i \in Inodes /\ tree[i].kind # "free"
    /\ First(s) \in Visited(s) \cup Ahead(s)
    /\ Visited(s) \cap Ahead(s) = {}
    /\ Sought(s) \notin Range(todo)
    /\ \A j, k \in DOMAIN todo : j # k => todo[j] # todo[k]
    /\ \A i \in (Visited(s) \cup Ahead(s)) \ {First(s)} :
          i # Root /\ tree[i].up \in Visited(s)
    /\ \A i \in Visited(s) : Children(i) \subseteq Visited(s) \cup Ahead(s)
    /\ got = << >> => Sought(s) = First(s) /\ todo = << >>
    /\ got # << >> => First(s) \in Visited(s)

\* The nodes of a walk: they are there, different, locked and not referenced.
Walks(s) ==
    LET got == hd[s].got IN
    /\ Walking(s) =>
          /\ \A j \in DOMAIN got : Live(got[j])
          /\ \A j, k \in DOMAIN got : j # k => got[j] # got[k]
    /\ Stage(s) \in {"walk", "sweep"} =>
          /\ \A j \in DOMAIN got : node[got[j]].rw = -1 /\ node[got[j]].ref = 0
          /\ hd[s].op = "rmdir" => Here(s) \notin Got(s)
    /\ Stage(s) = "walk" => WalkOK(s)
    /\ Stage(s) = "giveup" =>
          /\ hd[s].op = "rmdir" => Here(s) \notin Got(s) \/ Excused(s)
          /\ hd[s].op = "format" =>
                /\ Here(s) \in Nodes
                /\ Alive(Here(s)) => Here(s) \in Got(s) /\ node[Here(s)].ref = 0
    /\ Sweeping(s) => Name(s) \notin Dots
    /\ Stage(s) = "sweep" /\ hd[s].op = "format" => \A t \in Sessions : Seat[t] = 0

\* Whether the session of the request has a directory. One that has changed it
\* is not ousted.
Homed(s) ==
    /\ hd[s].op \in PathOps => wd[s] # 0
    /\ hd[s].op \in {"login", "format"} => wd[s] = 0
    /\ hd[s].op = "cd" /\ hd[s].ok /\ Stage(s) \in {"unlock", "release"} => s \notin ousted

\* The counts of the nodes while one request runs alone: the sessions, the
\* open file and the root's own reference; a node of a file is one that the
\* request has.
Counts(s) ==
    /\ formatted /\ ~Taken(s) => table[Root] # 0
    /\ \A n \in Nodes : Live(n) =>
          /\ node[n].ref = Count(n) + (IF Using(s) /\ n = Here(s) THEN 1 ELSE 0)
                 + (IF formatted /\ node[n].inode = Root /\ ~Taken(s) THEN 1 ELSE 0)
          /\ node[n].rw \in {-1, 0, 1}
          /\ node[n].rw # 0 => (Held(s) /\ n = Here(s)) \/ n \in Got(s)
          /\ ~node[n].dir => n \in {Here(s), hd[s].new} \cup Got(s)

\* The tree, as it is or as it will be after the sweep.
Trees(s) == IF Sweeping(s) THEN Proper(Rest(s)) ELSE Proper(tree)

\* The state while the request of s runs alone.
Exclusive(s) ==
    /\ Trees(s) /\ Counts(s) /\ Homed(s)
    /\ Route(s) /\ Fetching(s) /\ Sights(s) /\ Places(s) /\ Walks(s)

\* The state, but for the sessions that were ousted.
Sound ==
    /\ World /\ Handled
    /\ \A s \in Sessions : Solo(s) => Exclusive(s)
    /\ (\A s \in Sessions : ~Solo(s)) => Shared

\* The sessions that a format ousted: the node of their directory is there no
\* more, or it is the root that the format has.
Ousts ==
    /\ wd \in [Sessions -> 0 .. MaxNode] /\ ousted \in SUBSET Sessions
    /\ \A t \in ousted : wd[t] # 0 /\
          (Live(wd[t]) => \E s \in Sessions : Taken(s) /\ Here(s) = wd[t])

-----------------------------------------------------------------------------
(* The records of requests.                                                *)

\* Two records of a request that differ in what load_node_ is for only.
Carried(h, g) ==
    /\ h.op = g.op /\ h.rest = g.rest /\ h.node = g.node /\ h.todo = g.todo
    /\ h.got = g.got /\ h.ok = g.ok /\ h.stayed = g.stayed

\* The fields of a request that goes on.
LEMMA OnFields ==
    ASSUME NEW s \in Sessions, hd[s] \in Handlers
    PROVE  /\ On(s) \in Handlers /\ Carried(On(s), hd[s]) /\ On(s).pc = hd[s].pc
           /\ On(s).new = 0 /\ On(s).want = 0 /\ On(s).then = "none"
<1>1. 0 \in 0 .. MaxNode /\ 0 \in 0 .. MaxInode  BY BoundAssumption
<1>2. On(s) \in Handlers  BY <1>1 DEF On, Handlers
<1>3. On(s).pc = hd[s].pc /\ Carried(On(s), hd[s])  BY DEF On, Handlers, Carried
<1>4. On(s).new = 0 /\ On(s).want = 0 /\ On(s).then = "none"  BY DEF On, Handlers
<1> QED BY <1>2, <1>3, <1>4

\* The fields of a request that has a node to load.
LEMMA LoadFields ==
    ASSUME NEW h \in Handlers, NEW i \in 0 .. MaxInode, NEW then \in Stages
    PROVE  LET l == Load(h, i, then) IN
           /\ l \in Handlers /\ Carried(l, h)
           /\ l.pc = "load" /\ l.new = h.new /\ l.want = i /\ l.then = then
BY DEF Load, Handlers, Carried

\* The only request at work goes on.
LEMMA SoloGoes ==
    ASSUME Handled, NEW s \in Sessions, Solo(s), NEW h \in Handlers,
           h.pc # "idle", h.op = hd[s].op, Goto(s, h)
    PROVE  /\ Handled' /\ hd'[s] = h /\ Solo(s)'
           /\ \A t \in Sessions : Solo(t)' => t = s
BY DEF Handled, Solo, Goto, IsIdle

\* It goes to another stage.
LEMMA SoloSteps ==
    ASSUME Handled, NEW s \in Sessions, Solo(s), NEW pc \in Stages, Step(s, pc)
    PROVE  /\ Handled' /\ Solo(s)' /\ \A t \in Sessions : Solo(t)' => t = s
           /\ hd'[s] \in Handlers /\ Carried(hd'[s], hd[s])
           /\ hd'[s].pc = pc /\ hd'[s].new = 0
<1> DEFINE o == On(s)
           h == [o EXCEPT !.pc = pc]
<1>1. o \in Handlers /\ Carried(o, hd[s]) /\ o.new = 0  BY OnFields DEF Handled
<1>2. Goto(s, h)  BY DEF Step
<1> HIDE DEF o
<1>3. h \in Handlers  BY <1>1 DEF Handlers
<1>4. Carried(h, hd[s]) /\ h.pc = pc /\ h.new = 0  BY <1>1 DEF Handlers, Carried
<1>5. pc # "idle"  BY DEF Stages
<1> HIDE DEF h
<1> QED BY <1>2, <1>3, <1>4, <1>5, SoloGoes DEF Carried

\* It loads a node.
LEMMA SoloLoads ==
    ASSUME Handled, NEW s \in Sessions, Solo(s), NEW i \in Inodes, NEW then \in Stages,
           Goto(s, Load(On(s), i, then))
    PROVE  /\ Handled' /\ Solo(s)' /\ \A t \in Sessions : Solo(t)' => t = s
           /\ hd'[s] \in Handlers /\ Carried(hd'[s], hd[s])
           /\ hd'[s].pc = "load" /\ hd'[s].new = 0 /\ hd'[s].want = i /\ hd'[s].then = then
<1> DEFINE o == On(s)
           h == Load(o, i, then)
<1>1. o \in Handlers /\ Carried(o, hd[s]) /\ o.new = 0  BY OnFields DEF Handled
<1>2. Goto(s, h)  OBVIOUS
<1> HIDE DEF o
<1>3. i \in 0 .. MaxInode  BY DEF Inodes
<1>4. /\ h \in Handlers /\ Carried(h, o) /\ h.pc = "load" /\ h.new = o.new
      /\ h.want = i /\ h.then = then
  BY <1>1, <1>3, LoadFields
<1> HIDE DEF h
<1> QED BY <1>1, <1>2, <1>4, SoloGoes DEF Carried

\* What is to be shown of a step of the only request at work, if it goes on.
LEMMA SoloKeeps ==
    ASSUME NEW s \in Sessions, Handled', World', Exclusive(s)',
           Solo(s)', \A t \in Sessions : Solo(t)' => t = s
    PROVE  Sound'
BY DEF Sound

\* What the invariant says of the request that runs alone.
LEMMA SoloHas ==
    ASSUME Sound, NEW s \in Sessions, Solo(s)
    PROVE  /\ World /\ Handled /\ Exclusive(s) /\ hd[s] \in Handlers
           /\ Here(s) \in 0 .. MaxNode /\ hd[s].new \in 0 .. MaxNode
           /\ (Alive(Here(s)) <=> Here(s) \in Nodes /\ Live(Here(s)))
           /\ (Alive(hd[s].new) <=> hd[s].new \in Nodes /\ Live(hd[s].new))
<1>1. hd[s] \in Handlers  BY DEF Sound, Handled
<1>2. Here(s) \in 0 .. MaxNode /\ hd[s].new \in 0 .. MaxNode  BY <1>1 DEF Handlers, Here
<1> QED BY <1>1, <1>2, BoundAssumption DEF Sound, Alive, Live, Nodes

\* A handler that waits for a request.
LEMMA IdleHandler ==
    Idle \in Handlers
<1>1. /\ << >> \in Seq(Names \cup Dots) /\ << >> \in Seq(Inodes) /\ << >> \in Seq(Nodes)
      /\ 0 \in 0 .. MaxNode /\ 0 \in 0 .. MaxInode
  BY BoundAssumption
<1> QED BY <1>1 DEF Idle, Handlers

-----------------------------------------------------------------------------
(* How many sessions are at a node.                                        *)

\* The sessions at a node are finitely many.
LEMMA CountIsNat ==
    ASSUME NEW n
    PROVE  Count(n) \in Nat /\ Count(n) <= Cardinality(Sessions)
BY FS_Subset, FS_CardinalityType, BoundAssumption DEF Count

\* Somebody is at the node of a session.
LEMMA CountAtHome ==
    ASSUME NEW s \in Sessions
    PROVE  Count(Seat[s]) > 0
<1> DEFINE S == {t \in Sessions : Seat[t] = Seat[s]}
<1>1. IsFiniteSet(S) /\ Cardinality(S) \in Nat /\ s \in S
  BY FS_Subset, FS_CardinalityType, BoundAssumption
<1>2. Cardinality(S) # 0  BY <1>1, FS_EmptySet
<1> QED BY <1>1, <1>2 DEF Count

\* A node without sessions counts none.
LEMMA CountNobody ==
    ASSUME NEW n, \A s \in Sessions : Seat[s] # n
    PROVE  Count(n) = 0
<1>1. {s \in Sessions : Seat[s] = n} = {}  OBVIOUS
<1> QED BY <1>1, FS_EmptySet DEF Count

\* Somebody at home.
LEMMA SomeCounted ==
    ASSUME NEW w, NEW t \in Sessions
    PROVE  Cardinality({u \in Sessions : w[u] = w[t]}) > 0
<1> DEFINE S == {u \in Sessions : w[u] = w[t]}
<1>1. IsFiniteSet(S) /\ Cardinality(S) \in Nat /\ t \in S
  BY FS_Subset, FS_CardinalityType, BoundAssumption
<1>2. Cardinality(S) # 0  BY <1>1, FS_EmptySet
<1> QED BY <1>1, <1>2

\* The directory of a session is that of the model, but for one that was ousted.
LEMMA SeatIs ==
    ASSUME NEW s \in Sessions
    PROVE  /\ s \notin ousted => Seat[s] = wd[s]
           /\ s \in ousted => Seat[s] = 0
           /\ Seat[s] # 0 => s \notin ousted /\ Seat[s] = wd[s]
BY DEF Seat

\* A step that changes no directory.
LEMMA SeatSame ==
    ASSUME UNCHANGED <<wd, ousted>>
    PROVE  Seat' = Seat
BY DEF Seat

\* A step that changes one.
LEMMA SeatMoves ==
    ASSUME NEW s \in Sessions, s \notin ousted, wd \in [Sessions -> 0 .. MaxNode], NEW n,
           wd' = [wd EXCEPT ![s] = n], ousted' = ousted
    PROVE  Seat' = [Seat EXCEPT ![s] = n]
BY DEF Seat

\* A session moves to another node.
Moves(s, n) == Seat' = [Seat EXCEPT ![s] = n]

\* How the counts change when a session moves.
LEMMA CountMoves ==
    ASSUME NEW s \in Sessions, Seat \in [Sessions -> 0 .. MaxNode], NEW n \in 0 .. MaxNode,
           NEW old \in 0 .. MaxNode, old = Seat[s], n # old, Moves(s, n)
    PROVE  /\ Seat' \in [Sessions -> 0 .. MaxNode] /\ Seat'[s] = n
           /\ \A t \in Sessions : t # s => Seat'[t] = Seat[t]
           /\ Count(n)' = Count(n) + 1 /\ Count(old)' = Count(old) - 1
           /\ \A m \in Nodes : m # n /\ m # old => Count(m)' = Count(m)
<1>1. /\ Seat' \in [Sessions -> 0 .. MaxNode] /\ Seat'[s] = n
      /\ \A t \in Sessions : t # s => Seat'[t] = Seat[t]
  BY DEF Moves
<1> DEFINE A(m) == {t \in Sessions : Seat[t] = m}
           B(m) == {t \in Sessions : Seat'[t] = m}
<1>2. \A m : IsFiniteSet(A(m)) /\ IsFiniteSet(B(m))  BY FS_Subset, BoundAssumption
<1>3. B(n) = A(n) \cup {s} /\ s \notin A(n)  BY <1>1
<1>4. B(old) = A(old) \ {s} /\ s \in A(old)  BY <1>1
<1>5. \A m \in Nodes : m # n /\ m # old => B(m) = A(m)  BY <1>1
<1>6. \A m : Cardinality(A(m)) = Count(m) /\ Count(m)' = Cardinality(B(m))  BY DEF Count
<1> HIDE DEF A, B
<1>7. Cardinality(B(n)) = Cardinality(A(n)) + 1  BY <1>2, <1>3, FS_AddElement
<1>8. Cardinality(B(old)) = Cardinality(A(old)) - 1  BY <1>2, <1>4, FS_RemoveElement
<1>9. \A m \in Nodes : m # n /\ m # old => Count(m)' = Count(m)  BY <1>5, <1>6
<1> QED BY <1>1, <1>6, <1>7, <1>8, <1>9

-----------------------------------------------------------------------------
(* Nodes and the table: counted, released, made and erased.                *)

\* A step that leaves the nodes, the table and the directories alone.
LEMMA WorldSame ==
    ASSUME World, UNCHANGED <<tree, node, table, formatted, Seat>>
    PROVE  World'
BY DEF World, Live

\* A node that is there stands for an inode that is there.
LEMMA LiveIs ==
    ASSUME World, NEW n \in Nodes, Live(n)
    PROVE  /\ node[n].inode \in Inodes /\ node[n].inode # 0 /\ n # 0
           /\ tree[node[n].inode].kind = (IF node[n].dir THEN "dir" ELSE "file")
           /\ tree[node[n].inode].kind # "free" /\ table[node[n].inode] = n
<1>1. node[n].inode \in 0 .. MaxInode /\ node[n].inode # 0  BY DEF World, NodeType, Live
<1>2. node[n].inode \in Inodes  BY <1>1, BoundAssumption DEF Inodes
<1>3. tree[node[n].inode].kind = (IF node[n].dir THEN "dir" ELSE "file")  BY DEF World
<1>4. table[node[n].inode] = n /\ n # 0  BY DEF World, Nodes
<1>5. tree[node[n].inode].kind # "free"  BY <1>3
<1> QED BY <1>1, <1>2, <1>3, <1>4, <1>5

\* A step that only counts locks and references, and moves sessions.
LEMMA Recounted ==
    ASSUME World, node' \in NodeType,
           \A m \in Nodes : /\ node'[m].inode = node[m].inode /\ node'[m].dir = node[m].dir
                            /\ ~Live(m) => node'[m] = Dead,
           UNCHANGED <<tree, table, formatted>>,
           Seat' \in [Sessions -> 0 .. MaxNode],
           \A s \in Sessions : Seat'[s] # 0 => Live(Seat'[s]) /\ node[Seat'[s]].dir
    PROVE  World' /\ \A m \in Nodes : Live(m)' <=> Live(m)
<1>2. /\ \A m \in Nodes : Live(m)' <=> Live(m)
      /\ \A m \in Nodes : node'[m].inode = node[m].inode /\ node'[m].dir = node[m].dir
  BY DEF Live
<1>3. \A m \in Nodes : ~Live(m)' => node'[m] = Dead  BY <1>2
<1>4. \A m \in Nodes : Live(m)' => table'[node'[m].inode] = m
  BY <1>2 DEF World
<1>5. \A i \in Inodes : table'[i] # 0 => node'[table'[i]].inode = i
  <2>1. \A i \in Inodes : table[i] # 0 => table[i] \in Nodes /\ node[table[i]].inode = i
    BY DEF World, Nodes
  <2> QED BY <1>2, <2>1
<1>6. \A m \in Nodes : Live(m)' =>
          tree'[node'[m].inode].kind = (IF node'[m].dir THEN "dir" ELSE "file")
  BY <1>2 DEF World
<1>7. ASSUME NEW s \in Sessions, Seat'[s] # 0 PROVE Live(Seat[s])' /\ node'[Seat'[s]].dir
  <2>1. Seat'[s] \in Nodes  BY <1>7 DEF Nodes
  <2>2. Live(Seat'[s]) /\ node[Seat'[s]].dir  BY <1>7
  <2>3. node'[Seat'[s]].inode = node[Seat'[s]].inode /\ node'[Seat'[s]].dir = node[Seat'[s]].dir
    BY <1>2, <2>1
  <2> QED BY <2>2, <2>3 DEF Live
<1>8. World'  BY <1>2, <1>3, <1>4, <1>5, <1>6, <1>7 DEF World
<1> QED BY <1>2, <1>8

\* The counts of one node are changed.
Counted(n, rw, ref) == node' = [node EXCEPT ![n].rw = rw, ![n].ref = ref]

\* The fields of a node that was counted anew, in a step.
LEMMA Recount ==
    ASSUME node \in NodeType, NEW n \in Nodes, NEW rw \in Int, NEW ref \in Int,
           Counted(n, rw, ref)
    PROVE  /\ node' \in NodeType /\ \A m \in Nodes : m # n => node'[m] = node[m]
           /\ node'[n].inode = node[n].inode /\ node'[n].dir = node[n].dir
           /\ node'[n].rw = rw /\ node'[n].ref = ref
<1>1. node' \in NodeType  BY DEF NodeType, Counted
<1>2. \A m \in Nodes : m # n => node'[m] = node[m]  BY DEF NodeType, Counted
<1>3. /\ node'[n].inode = node[n].inode /\ node'[n].dir = node[n].dir
      /\ node'[n].rw = rw /\ node'[n].ref = ref
  BY DEF NodeType, Counted
<1> QED BY <1>1, <1>2, <1>3
CountsOf(g, n, rw, ref) == [g EXCEPT ![n].rw = rw, ![n].ref = ref]

\* A node is counted anew, and nothing else.
Anew(h, g, n, rw, ref) ==
    /\ h \in NodeType /\ \A m \in Nodes : m # n => h[m] = g[m]
    /\ h[n].inode = g[n].inode /\ h[n].dir = g[n].dir /\ h[n].rw = rw /\ h[n].ref = ref

\* These counts change no more than that.
LEMMA CountsOfFields ==
    ASSUME NEW g, g \in NodeType, NEW n, n \in Nodes, NEW rw, rw \in Int, NEW ref, ref \in Int
    PROVE  Anew(CountsOf(g, n, rw, ref), g, n, rw, ref)
<1> DEFINE h == CountsOf(g, n, rw, ref)
<1>1. h \in NodeType  BY DEF NodeType, CountsOf
<1>2. \A m \in Nodes : m # n => h[m] = g[m]  BY DEF NodeType, CountsOf
<1>3. h[n].inode = g[n].inode /\ h[n].dir = g[n].dir /\ h[n].rw = rw /\ h[n].ref = ref
  BY DEF NodeType, CountsOf
<1> HIDE DEF h
<1>4. Anew(h, g, n, rw, ref)  BY <1>1, <1>2, <1>3 DEF Anew
<1> QED BY <1>4 DEF h

\* A step that changes the counts of one node.
LEMMA WorldCounted ==
    ASSUME World, NEW n \in Nodes, Live(n), node' \in NodeType,
           \A m \in Nodes : m # n => node'[m] = node[m],
           node'[n].inode = node[n].inode, node'[n].dir = node[n].dir,
           UNCHANGED <<tree, table, formatted, Seat>>
    PROVE  World' /\ \A m \in Nodes : Live(m)' <=> Live(m)
<1>1. \A m \in Nodes : /\ node'[m].inode = node[m].inode /\ node'[m].dir = node[m].dir
                       /\ ~Live(m) => node'[m] = Dead
  BY DEF World
<1>2. Seat' \in [Sessions -> 0 .. MaxNode]  BY DEF World
<1>3. \A s \in Sessions : Seat'[s] # 0 => Live(Seat'[s]) /\ node[Seat'[s]].dir  BY DEF World
<1>4. UNCHANGED <<tree, table, formatted>>  OBVIOUS
<1> QED BY <1>1, <1>2, <1>3, <1>4, Recounted

\* release_node_: the table, the nodes and the directories stay as they must be.
LEMMA Released ==
    ASSUME World, NEW ns \in NodeType, NEW n \in Nodes, Live(n),
           \A m \in Nodes : /\ ns[m].inode = node[m].inode /\ ns[m].dir = node[m].dir
                            /\ ~Live(m) => ns[m] = Dead,
           Release(ns, n), UNCHANGED <<tree, formatted>>,
           Seat' \in [Sessions -> 0 .. MaxNode],
           \A s \in Sessions : Seat'[s] # 0 =>
              Live(Seat'[s]) /\ node[Seat'[s]].dir /\ (Seat'[s] = n => ns[n].ref > 0)
    PROVE  /\ World'
           /\ \A m \in Nodes : m # n => node'[m] = ns[m]
           /\ ns[n].ref > 0 => node' = ns /\ table' = table
           /\ ~(ns[n].ref > 0) => /\ node'[n] = Dead
                                  /\ table' = [table EXCEPT ![node[n].inode] = 0]
<1>1. /\ node[n].inode \in Inodes /\ ns[n].ref \in Int
      /\ tree \in TreeType /\ table \in [Inodes -> 0 .. MaxNode] /\ formatted \in BOOLEAN
  BY DEF World, NodeType, Live, Inodes
<1>2. Dead \in [inode : 0 .. MaxInode, dir : BOOLEAN, rw : Int, ref : Int]
  BY BoundAssumption DEF Dead
<1>3. CASE ns[n].ref > 0
  <2>1. node' = ns /\ table' = table  BY <1>1, <1>3 DEF Release
  <2>2. World'
    <3>1. \A m \in Nodes : /\ node'[m].inode = node[m].inode /\ node'[m].dir = node[m].dir
                           /\ ~Live(m) => node'[m] = Dead
      BY <2>1
    <3>2. \A s \in Sessions : Seat'[s] # 0 => Live(Seat'[s]) /\ node[Seat'[s]].dir  OBVIOUS
    <3> QED BY <2>1, <3>1, <3>2, Recounted
  <2> QED BY <1>3, <2>1, <2>2
<1>4. CASE ~(ns[n].ref > 0)
  <2>1. /\ node' = [ns EXCEPT ![n] = Dead]
        /\ table' = [table EXCEPT ![node[n].inode] = 0]
    BY <1>1, <1>4 DEF Release
  <2>2. node' \in NodeType /\ table' \in [Inodes -> 0 .. MaxNode]
    BY <1>1, <1>2, <2>1, BoundAssumption DEF NodeType
  <2>3. node'[n] = Dead /\ \A m \in Nodes : m # n => node'[m] = ns[m]
    BY <2>1 DEF NodeType
  <2>4. ~Live(n)' /\ \A m \in Nodes : m # n => (Live(m)' <=> Live(m))
    BY <2>3 DEF Live, Dead
  <2>5. \A m \in Nodes : Live(m)' => m # n /\ table'[node'[m].inode] = m
    <3>1. ASSUME NEW m \in Nodes, Live(m)' PROVE m # n /\ table'[node'[m].inode] = m
      <4>1. m # n /\ Live(m) /\ node'[m].inode = node[m].inode  BY <2>3, <2>4, <3>1
      <4>2. table[node[m].inode] = m /\ table[node[n].inode] = n  BY <4>1 DEF World
      <4>3. node[m].inode # node[n].inode  BY <4>1, <4>2
      <4>4. node[m].inode \in Inodes  BY <4>1 DEF World, NodeType, Live, Inodes
      <4> QED BY <1>1, <2>1, <4>1, <4>2, <4>3, <4>4
    <3> QED BY <3>1
  <2>6. \A i \in Inodes : table'[i] # 0 => node'[table'[i]].inode = i
    <3>1. ASSUME NEW i \in Inodes, table'[i] # 0 PROVE node'[table'[i]].inode = i
      <4>1. i # node[n].inode /\ table'[i] = table[i]  BY <1>1, <2>1, <3>1
      <4>2. node[table[i]].inode = i /\ table[i] \in Nodes
        BY <1>1, <3>1, <4>1 DEF World, Nodes
      <4>3. table[i] # n  BY <4>1, <4>2
      <4> QED BY <2>3, <4>1, <4>2, <4>3
    <3> QED BY <3>1
  <2>7. \A m \in Nodes : ~Live(m)' => node'[m] = Dead  BY <2>3, <2>4
  <2>8. \A m \in Nodes : Live(m)' =>
            tree'[node'[m].inode].kind = (IF node'[m].dir THEN "dir" ELSE "file")
    <3>1. ASSUME NEW m \in Nodes, Live(m)'
          PROVE  tree'[node'[m].inode].kind = (IF node'[m].dir THEN "dir" ELSE "file")
      <4>1. /\ Live(m) /\ node'[m].inode = node[m].inode /\ node'[m].dir = node[m].dir
        BY <2>3, <2>4, <3>1
      <4> QED BY <4>1 DEF World
    <3> QED BY <3>1
  <2>9. \A s \in Sessions : Seat'[s] # 0 => Live(Seat[s])' /\ node'[Seat'[s]].dir
    <3>1. ASSUME NEW s \in Sessions, Seat'[s] # 0 PROVE Live(Seat[s])' /\ node'[Seat'[s]].dir
      <4>1. Seat'[s] \in Nodes /\ Seat'[s] # n  BY <1>4, <3>1 DEF Nodes
      <4>2. Live(Seat'[s]) /\ node[Seat'[s]].dir  BY <3>1
      <4>3. node'[Seat'[s]].inode = node[Seat'[s]].inode /\ node'[Seat'[s]].dir = node[Seat'[s]].dir
        BY <2>3, <4>1
      <4> QED BY <4>2, <4>3 DEF Live
    <3> QED BY <3>1
  <2>10. World'  BY <1>1, <2>2, <2>5, <2>6, <2>7, <2>8, <2>9 DEF World
  <2> QED BY <1>4, <2>1, <2>3, <2>10
<1> QED BY <1>3, <1>4

\* Min takes a member.
LEMMA MinIsIn ==
    ASSUME NEW S \in SUBSET Nodes, S # {}
    PROVE  Min(S) \in S
<1> DEFINE Less == OpToRel(<, Nat)
<1>1. S \subseteq Nat  BY BoundAssumption DEF Nodes
<1>2. \E i \in S : \A j \in S : <<j, i>> \notin Less
  BY <1>1, NatLessThanWellFounded, WFMin, Zenon
<1>3. \A i, j \in Nat : j < i => <<j, i>> \in Less  BY Zenon DEF OpToRel
<1> HIDE DEF Less
<1>4. PICK i \in S : \A j \in S : ~ (j < i)  BY <1>1, <1>2, <1>3
<1>5. \A j \in S : i <= j  BY <1>1, <1>4
<1> QED BY <1>5, Zenon DEF Min

\* A node to be allocated is in no use.
LEMMA Spare ==
    ASSUME NEW ns, NEW ss, NEW n \in Unallocated(ns, ss)
    PROVE  /\ n \in Nodes /\ ns[n] = Dead
           /\ \A t \in Sessions : wd[t] # n /\ Seat[t] # n
           /\ \A t \in Sessions \ ss : Here(t) # n /\ hd[t].new # n /\ n \notin Got(t)
<1>1. n \in Nodes /\ ns[n] = Dead /\ n \notin PointedTo(ss)  BY DEF Unallocated
<1>2. ASSUME NEW t \in Sessions
      PROVE  ({wd[t]} \cup (IF t \in ss THEN {} ELSE {Here(t), hd[t].new} \cup Range(hd[t].got)))
             \subseteq PointedTo(ss)
  BY DEF PointedTo
<1>3. \A t \in Sessions : wd[t] # n /\ Seat[t] # n  BY <1>1, <1>2 DEF Seat, Nodes
<1>4. ASSUME NEW t \in Sessions \ ss PROVE Here(t) # n /\ hd[t].new # n /\ n \notin Got(t)
  BY <1>1, <1>2 DEF Got
<1> QED BY <1>1, <1>3, <1>4

\* A new node is entered in the table.
Inserts(n, i) ==
    /\ node' = [node EXCEPT ![n] = NodeOf(i, tree[i].kind = "dir", 0)]
    /\ table' = [table EXCEPT ![i] = n]

\* What is in the table, then, and that it stays as it must be.
LEMMA Inserted ==
    ASSUME World, NEW n \in Nodes, node[n] = Dead, \A t \in Sessions : Seat[t] # n,
           NEW i \in Inodes, table[i] = 0, tree[i].kind # "free",
           Inserts(n, i), UNCHANGED <<tree, formatted, Seat>>
    PROVE  /\ World' /\ \A m \in Nodes : m # n => node'[m] = node[m]
           /\ node'[n].inode = i /\ node'[n].ref = 0 /\ node'[n].rw = 0 /\ table'[i] = n
           /\ (node'[n].dir <=> tree[i].kind = "dir")
           /\ \A j \in Inodes : j # i => table'[j] = table[j]
<1>1. /\ i \in 0 .. MaxInode /\ i # 0 /\ n \in 0 .. MaxNode /\ n # 0
      /\ tree[i].kind \in {"file", "dir"}
  BY DEF Inodes, Nodes, World, TreeType
<1> DEFINE d == tree[i].kind = "dir"
           new == NodeOf(i, d, 0)
<1>2. d \in BOOLEAN /\ (d <=> tree[i].kind = "dir")  OBVIOUS
<1> HIDE DEF d
<1>3. /\ new \in [inode : 0 .. MaxInode, dir : BOOLEAN, rw : Int, ref : Int]
      /\ new.inode = i /\ new.ref = 0 /\ new.rw = 0 /\ new.dir = d
  BY <1>1, <1>2 DEF NodeOf
<1>4. node' = [node EXCEPT ![n] = new] /\ table' = [table EXCEPT ![i] = n]
  BY DEF d, Inserts
<1> HIDE DEF new
<1>5. node \in NodeType /\ table \in [Inodes -> 0 .. MaxNode] /\ Seat \in [Sessions -> 0 .. MaxNode]
      /\ tree \in TreeType /\ formatted \in BOOLEAN
  BY DEF World
<1>6. /\ node' \in NodeType /\ table' \in [Inodes -> 0 .. MaxNode]
      /\ node'[n] = new /\ \A m \in Nodes : m # n => node'[m] = node[m]
      /\ table'[i] = n /\ \A j \in Inodes : j # i => table'[j] = table[j]
  BY <1>1, <1>3, <1>4, <1>5 DEF NodeType
<1>7. ASSUME NEW m \in Nodes, Live(m)'
      PROVE  /\ table'[node'[m].inode] = m
             /\ tree'[node'[m].inode].kind = (IF node'[m].dir THEN "dir" ELSE "file")
  <2>1. CASE m = n  BY <1>1, <1>2, <1>3, <1>6, <2>1
  <2>2. CASE m # n
    <3>1. Live(m) /\ node'[m] = node[m]  BY <1>6, <1>7, <2>2 DEF Live
    <3>2. /\ node[m].inode \in Inodes /\ table[node[m].inode] = m /\ m # 0
          /\ tree[node[m].inode].kind = (IF node[m].dir THEN "dir" ELSE "file")
      BY <3>1, LiveIs
    <3>3. node[m].inode # i  BY <3>2
    <3> QED BY <1>6, <3>1, <3>2, <3>3
  <2> QED BY <2>1, <2>2
<1>8. \A m \in Nodes : ~Live(m)' => node'[m] = Dead
  BY <1>1, <1>3, <1>6 DEF World, Live
<1>9. ASSUME NEW j \in Inodes, table'[j] # 0 PROVE node'[table'[j]].inode = j
  <2>1. CASE j = i  BY <1>3, <1>6, <2>1
  <2>2. CASE j # i
    <3>1. table[j] # 0 /\ table'[j] = table[j] /\ table[j] \in Nodes /\ j # 0
      BY <1>5, <1>6, <1>9, <2>2 DEF Nodes, Inodes
    <3>2. node[table[j]].inode = j  BY <3>1 DEF World
    <3>3. table[j] # n  BY <3>1, <3>2 DEF Dead
    <3> QED BY <1>6, <3>1, <3>2, <3>3
  <2> QED BY <2>1, <2>2
<1>10. ASSUME NEW t \in Sessions, Seat'[t] # 0 PROVE Live(Seat[t])' /\ node'[Seat'[t]].dir
  <2>1. Seat[t] # 0 /\ Seat[t] # n /\ Seat[t] \in Nodes  BY <1>5, <1>10 DEF Nodes
  <2>2. Live(Seat[t]) /\ node[Seat[t]].dir  BY <2>1 DEF World
  <2>3. node'[Seat[t]] = node[Seat[t]] /\ Seat'[t] = Seat[t]  BY <1>6, <2>1
  <2> QED BY <2>2, <2>3 DEF Live
<1>11. World'  BY <1>5, <1>6, <1>7, <1>8, <1>9, <1>10 DEF World
<1> QED BY <1>2, <1>3, <1>6, <1>11

\* A node and its inode go.
Erases(n) ==
    /\ node' = [node EXCEPT ![n] = Dead]
    /\ table' = [table EXCEPT ![node[n].inode] = 0]
    /\ tree' = [tree EXCEPT ![node[n].inode] = Unused]

\* What is in the table, then, and that it stays as it must be.
LEMMA Erased ==
    ASSUME World, NEW n \in Nodes, Live(n), \A t \in Sessions : Seat[t] # n,
           Erases(n), UNCHANGED <<formatted, Seat>>
    PROVE  /\ World' /\ node'[n] = Dead /\ \A m \in Nodes : m # n => node'[m] = node[m]
           /\ tree'[node[n].inode] = Unused
           /\ \A i \in Inodes : i # node[n].inode => tree'[i] = tree[i] /\ table'[i] = table[i]
<1> DEFINE i == node[n].inode
<1>1. /\ i \in Inodes /\ i # 0 /\ n # 0 /\ node \in NodeType /\ tree \in TreeType
      /\ table \in [Inodes -> 0 .. MaxNode] /\ formatted \in BOOLEAN
      /\ Seat \in [Sessions -> 0 .. MaxNode]
  BY LiveIs DEF World
<1>2. Dead \in [inode : 0 .. MaxInode, dir : BOOLEAN, rw : Int, ref : Int]
  BY BoundAssumption DEF Dead
<1>3. Unused \in [kind : {"free", "file", "dir"}, up : 0 .. MaxInode, dots : BOOLEAN, at : [Names -> 0 .. MaxInode]]
  BY BoundAssumption DEF Unused, NoEntries
<1>4. /\ node' = [node EXCEPT ![n] = Dead] /\ table' = [table EXCEPT ![i] = 0]
      /\ tree' = [tree EXCEPT ![i] = Unused]
  BY DEF Erases
<1>5. \A m \in Nodes : m # n /\ Live(m) => node[m].inode # i /\ node[m].inode \in Inodes
  <2>1. \A m \in Nodes : Live(m) => table[node[m].inode] = m  BY DEF World
  <2> QED BY <2>1, LiveIs
<1> HIDE DEF i
<1>6. /\ node' \in NodeType /\ table' \in [Inodes -> 0 .. MaxNode] /\ tree' \in TreeType
  BY <1>1, <1>2, <1>3, <1>4, BoundAssumption DEF NodeType, TreeType
<1>7. /\ node'[n] = Dead /\ \A m \in Nodes : m # n => node'[m] = node[m]
      /\ tree'[i] = Unused
      /\ \A j \in Inodes : j # i => tree'[j] = tree[j] /\ table'[j] = table[j]
      /\ table'[i] = 0
  BY <1>1, <1>4 DEF NodeType, TreeType
<1>8. ASSUME NEW m \in Nodes, Live(m)'
      PROVE  /\ table'[node'[m].inode] = m
             /\ tree'[node'[m].inode].kind = (IF node'[m].dir THEN "dir" ELSE "file")
  <2>1. m # n  BY <1>7, <1>8 DEF Live, Dead
  <2>2. Live(m) /\ node'[m] = node[m]  BY <1>7, <1>8, <2>1 DEF Live
  <2>3. node[m].inode # i /\ node[m].inode \in Inodes  BY <1>5, <2>1, <2>2
  <2>4. /\ table[node[m].inode] = m
        /\ tree[node[m].inode].kind = (IF node[m].dir THEN "dir" ELSE "file")
    BY <2>2, LiveIs
  <2> QED BY <1>7, <2>2, <2>3, <2>4
<1>9. \A m \in Nodes : ~Live(m)' => node'[m] = Dead  BY <1>7 DEF World, Live
<1>10. ASSUME NEW j \in Inodes, table'[j] # 0 PROVE node'[table'[j]].inode = j
  <2>1. j # i /\ table'[j] = table[j] /\ table[j] \in Nodes
    BY <1>1, <1>7, <1>10 DEF Nodes
  <2>2. node[table[j]].inode = j  BY <1>10, <2>1 DEF World
  <2>3. table[j] # n  BY <2>1, <2>2 DEF i
  <2> QED BY <1>7, <2>1, <2>2, <2>3
<1>11. ASSUME NEW t \in Sessions, Seat'[t] # 0 PROVE Live(Seat[t])' /\ node'[Seat'[t]].dir
  <2>1. Seat[t] # 0 /\ Seat[t] # n /\ Seat[t] \in Nodes  BY <1>1, <1>11 DEF Nodes
  <2>2. Live(Seat[t]) /\ node[Seat[t]].dir  BY <2>1 DEF World
  <2>3. node'[Seat[t]] = node[Seat[t]] /\ Seat'[t] = Seat[t]  BY <1>7, <2>1
  <2> QED BY <2>2, <2>3 DEF Live
<1>12. World'  BY <1>1, <1>6, <1>8, <1>9, <1>10, <1>11 DEF World
<1> QED BY <1>7, <1>12 DEF i

-----------------------------------------------------------------------------
(* The counts while one request runs alone.                                *)

\* A step that changes what a request is at, and neither counts nor locks.
LEMMA CountsKept ==
    ASSUME NEW s, Counts(s), UNCHANGED <<node, table, formatted, Seat>>,
           Held(s)' <=> Held(s), Using(s)' <=> Using(s), Taken(s)' <=> Taken(s),
           Here(s)' = Here(s), Got(s)' = Got(s),
           \A n \in Nodes : n = hd[s].new => n \in {Here(s), hd'[s].new} \cup Got(s)
    PROVE  Counts(s)'
<1>1. formatted' /\ ~Taken(s)' => table'[Root] # 0  BY DEF Counts
<1>2. ASSUME NEW n \in Nodes, Live(n)'
      PROVE  /\ node'[n].ref = Count(n)' + (IF Using(s)' /\ n = Here(s)' THEN 1 ELSE 0)
                 + (IF formatted' /\ node'[n].inode = Root /\ ~Taken(s)' THEN 1 ELSE 0)
             /\ node'[n].rw \in {-1, 0, 1}
             /\ node'[n].rw # 0 => (Held(s)' /\ n = Here(s)') \/ n \in Got(s)'
             /\ ~node'[n].dir => n \in {Here(s)', hd'[s].new} \cup Got(s)'
  <2>1. Live(n) /\ Count(n)' = Count(n)  BY <1>2 DEF Live, Count
  <2> QED BY <2>1 DEF Counts
<1> QED BY <1>1, <1>2 DEF Counts

\* The same when the request has no node loaded, and keeps what it is at.
LEMMA CountsCarried ==
    ASSUME NEW s, Counts(s), UNCHANGED <<node, table, formatted, Seat>>,
           Carried(hd'[s], hd[s]), hd[s].new = 0,
           Held(s)' <=> Held(s), Taken(s)' <=> Taken(s)
    PROVE  Counts(s)'
<1>1. Here(s)' = Here(s) /\ Got(s)' = Got(s) /\ hd'[s].op = hd[s].op
  BY DEF Carried, Here, Got
<1>2. Using(s)' <=> Using(s)  BY <1>1 DEF Using
<1>3. \A n \in Nodes : n = hd[s].new => n \in {Here(s), hd'[s].new} \cup Got(s)
  BY DEF Nodes
<1> QED BY <1>1, <1>2, <1>3, CountsKept

\* The counts, for a request that has no file open.
LEMMA CountsAre ==
    ASSUME World, NEW s \in Sessions, Exclusive(s), ~Using(s),
           NEW f \in BOOLEAN, f <=> formatted /\ ~Taken(s)
    PROVE  /\ f => table[Root] # 0
           /\ \A m \in Nodes : Live(m) =>
                 /\ node[m].ref = Count(m) + (IF f /\ node[m].inode = Root THEN 1 ELSE 0)
                 /\ node[m].rw \in {-1, 0, 1}
                 /\ node[m].rw # 0 => (Held(s) /\ m = Here(s)) \/ m \in Got(s)
                 /\ ~node[m].dir => m \in {Here(s), hd[s].new} \cup Got(s)
<1>1. ASSUME NEW m \in Nodes, Live(m)
      PROVE  node[m].ref = Count(m) + (IF f /\ node[m].inode = Root THEN 1 ELSE 0)
  <2>1. Count(m) \in Nat  BY CountIsNat
  <2>2. node[m].ref = Count(m) + 0
              + (IF formatted /\ node[m].inode = Root /\ ~Taken(s) THEN 1 ELSE 0)
    BY <1>1 DEF Exclusive, Counts
  <2> QED BY <2>1, <2>2
<1> QED BY <1>1 DEF Exclusive, Counts

\* Counts, from what it is with or without the root's reference.
LEMMA CountsBack ==
    ASSUME NEW s \in Sessions, ~Using(s)',
           NEW f \in BOOLEAN, f <=> formatted' /\ ~Taken(s)',
           f => table'[Root] # 0,
           \A m \in Nodes : Live(m)' =>
                 /\ node'[m].ref = Count(m)' + (IF f /\ node'[m].inode = Root THEN 1 ELSE 0)
                 /\ node'[m].rw \in {-1, 0, 1}
                 /\ node'[m].rw # 0 => (Held(s)' /\ m = Here(s)') \/ m \in Got(s)'
                 /\ ~node'[m].dir => m \in {Here(s)', hd'[s].new} \cup Got(s)'
    PROVE  Counts(s)'
<1>1. \A m : Count(m)' + 0 = Count(m)'
  <2>1. \A m : Count(m)' \in Nat
    <3>1. \A m : Cardinality({t \in Sessions : Seat'[t] = m}) \in Nat
      BY FS_Subset, FS_CardinalityType, BoundAssumption
    <3> QED BY <3>1 DEF Count
  <2> QED BY <2>1
<1>2. ASSUME NEW m \in Nodes, Live(m)'
      PROVE  node'[m].ref = Count(m)' + (IF Using(s)' /\ m = Here(s)' THEN 1 ELSE 0)
                     + (IF formatted' /\ node'[m].inode = Root /\ ~Taken(s)' THEN 1 ELSE 0)
  BY <1>1, <1>2
<1> QED BY <1>2 DEF Counts

\* A node is given back by one who had not counted it.
LEMMA LetGo ==
    ASSUME World, NEW n \in Nodes, Live(n), NEW ns \in NodeType,
           \A m \in Nodes : /\ ns[m].inode = node[m].inode /\ ns[m].dir = node[m].dir
                            /\ ns[m].ref = node[m].ref /\ (~Live(m) => ns[m] = Dead),
           Release(ns, n), UNCHANGED <<tree, formatted, Seat>>,
           tree[Root].kind = "dir", NEW f \in BOOLEAN, f => table[Root] # 0,
           \A m \in Nodes : Live(m) =>
              node[m].ref = Count(m) + (IF f /\ node[m].inode = Root THEN 1 ELSE 0)
    PROVE  /\ World' /\ (f => table'[Root] # 0)
           /\ \A m \in Nodes : Live(m)' =>
                 /\ Live(m) /\ node'[m] = ns[m] /\ Count(m)' = Count(m)
                 /\ m = n => node[m].dir
           /\ \A m \in Nodes : m # n /\ Live(m) => Live(m)'
<1>1. \A m \in Nodes : ns[m].inode = node[m].inode /\ ns[m].dir = node[m].dir
                       /\ ns[m].ref = node[m].ref
  OBVIOUS
<1>2. \A m \in Nodes : Count(m)' = Count(m) /\ Count(m) \in Nat
  BY CountIsNat DEF Count
<1>3. \A t \in Sessions : Seat[t] # 0 => Seat[t] \in Nodes /\ Live(Seat[t]) /\ node[Seat[t]].dir
  BY DEF World, Nodes
<1>4. \A t \in Sessions : Seat[t] # 0 => ns[Seat[t]].ref > 0
  <2>1. ASSUME NEW t \in Sessions, Seat[t] # 0 PROVE ns[Seat[t]].ref > 0
    <3>1. Seat[t] \in Nodes /\ Live(Seat[t]) /\ ns[Seat[t]].ref = node[Seat[t]].ref
      BY <1>1, <1>3, <2>1
    <3>2. Count(Seat[t]) > 0 /\ Count(Seat[t]) \in Nat  BY <1>2, <3>1, CountAtHome
    <3> QED BY <3>1, <3>2
  <2> QED BY <2>1
<1>5. /\ World'
      /\ \A m \in Nodes : m # n => node'[m] = ns[m]
      /\ ns[n].ref > 0 => node' = ns /\ table' = table
      /\ ~(ns[n].ref > 0) => /\ node'[n] = Dead
                             /\ table' = [table EXCEPT ![node[n].inode] = 0]
  <2>1. \A m \in Nodes : /\ ns[m].inode = node[m].inode /\ ns[m].dir = node[m].dir
                         /\ ~Live(m) => ns[m] = Dead
    OBVIOUS
  <2>2. Seat' \in [Sessions -> 0 .. MaxNode]  BY DEF World
  <2>3. \A t \in Sessions : Seat'[t] # 0 =>
              Live(Seat'[t]) /\ node[Seat'[t]].dir /\ (Seat'[t] = n => ns[n].ref > 0)
    BY <1>3, <1>4
  <2> QED BY <2>1, <2>2, <2>3, Released
<1>6. ns[n].ref > 0 => node[n].dir
  <2>1. SUFFICES ASSUME ~node[n].dir PROVE ~(ns[n].ref > 0)
    OBVIOUS
  <2>2. Count(n) = 0  BY <1>3, <2>1, CountNobody DEF Nodes
  <2>3. node[n].inode # Root  BY <2>1 DEF World
  <2> QED BY <1>1, <2>2, <2>3
<1>7. f => table'[Root] # 0
  <2>1. CASE ns[n].ref > 0  BY <1>5, <2>1
  <2>2. CASE ~(ns[n].ref > 0)
    <3>1. ~(f /\ node[n].inode = Root)
      <4>1. node[n].ref = Count(n) + (IF f /\ node[n].inode = Root THEN 1 ELSE 0)  OBVIOUS
      <4> QED BY <1>1, <1>2, <2>2, <4>1
    <3>2. table \in [Inodes -> 0 .. MaxNode]  BY DEF World
    <3>3. Root \in Inodes  BY BoundAssumption DEF Root, Inodes
    <3> QED BY <1>5, <2>2, <3>1, <3>2, <3>3
  <2> QED BY <2>1, <2>2
<1>8. ASSUME NEW m \in Nodes, Live(m)'
      PROVE  Live(m) /\ node'[m] = ns[m] /\ (m = n => node[m].dir)
  <2>1. CASE ns[n].ref > 0  BY <1>1, <1>5, <1>6, <1>8, <2>1 DEF Live
  <2>2. CASE ~(ns[n].ref > 0)
    <3>1. m # n  BY <1>5, <1>8, <2>2 DEF Live, Dead
    <3> QED BY <1>1, <1>5, <1>8, <2>2, <3>1 DEF Live
  <2> QED BY <2>1, <2>2
<1>9. ASSUME NEW m \in Nodes, m # n, Live(m) PROVE Live(m)'
  BY <1>1, <1>5, <1>9 DEF Live
<1> QED BY <1>2, <1>5, <1>7, <1>8, <1>9

\* The nodes as a request finds them that holds none and sweeps none.
LEMMA Unheld ==
    ASSUME World, NEW s \in Sessions, Exclusive(s), ~Held(s),
           Stage(s) \notin {"walk", "giveup", "sweep"}
    PROVE  /\ Proper(tree) /\ tree[Root].kind = "dir" /\ hd[s].got = << >> /\ hd[s].todo = << >>
           /\ formatted => table[Root] # 0
           /\ formatted \in BOOLEAN /\ node \in NodeType
           /\ \A m \in Nodes : Live(m) =>
                 /\ node[m].ref = Count(m) + (IF formatted /\ node[m].inode = Root THEN 1 ELSE 0)
                 /\ node[m].rw = 0
                 /\ ~node[m].dir => m \in {Here(s), hd[s].new}
<1>1. Proper(tree) /\ hd[s].got = << >> /\ hd[s].todo = << >>
  BY DEF Exclusive, Trees, Sweeping, Places
<1>2. ~Using(s) /\ ~Taken(s) /\ Got(s) = {}  BY <1>1 DEF Using, Taken, Walking, Got, Range
<1>3. formatted => table[Root] # 0  BY <1>2 DEF Exclusive, Counts
<1>4. tree[Root].kind = "dir"  BY <1>1 DEF Proper
<1>5. formatted \in BOOLEAN /\ node \in NodeType  BY DEF World
<1>6. ASSUME NEW m \in Nodes, Live(m)
      PROVE  /\ node[m].ref = Count(m) + (IF formatted /\ node[m].inode = Root THEN 1 ELSE 0)
             /\ node[m].rw = 0
             /\ ~node[m].dir => m \in {Here(s), hd[s].new}
  <2>1. /\ node[m].ref = Count(m) + 0
                 + (IF formatted /\ node[m].inode = Root /\ TRUE THEN 1 ELSE 0)
        /\ node[m].rw # 0 => FALSE
        /\ ~node[m].dir => m \in {Here(s), hd[s].new}
    BY <1>2, <1>6 DEF Exclusive, Counts
  <2> QED BY <1>5, <2>1, CountIsNat
<1> QED BY <1>1, <1>3, <1>4, <1>5, <1>6

\* It gives one node back.
LEMMA UnheldLetsGo ==
    ASSUME World, NEW s \in Sessions, Exclusive(s), ~Held(s),
           Stage(s) \notin {"walk", "giveup", "sweep"},
           NEW n \in Nodes, Live(n), Release(node, n), UNCHANGED <<tree, formatted, Seat>>
    PROVE  /\ World' /\ Proper(tree') /\ (formatted' => table'[Root] # 0)
           /\ \A m \in Nodes : Live(m)' =>
                 /\ Live(m) /\ node'[m] = node[m]
                 /\ node'[m].ref = Count(m)'
                       + (IF formatted' /\ node'[m].inode = Root THEN 1 ELSE 0)
                 /\ node'[m].rw = 0
                 /\ ~node'[m].dir => m # n /\ m \in {Here(s), hd[s].new}
           /\ \A m \in Nodes : m # n /\ Live(m) => Live(m)'
<1>1. /\ Proper(tree) /\ tree[Root].kind = "dir" /\ (formatted => table[Root] # 0)
      /\ formatted \in BOOLEAN /\ node \in NodeType
      /\ \A m \in Nodes : Live(m) =>
            /\ node[m].ref = Count(m) + (IF formatted /\ node[m].inode = Root THEN 1 ELSE 0)
            /\ node[m].rw = 0
            /\ ~node[m].dir => m \in {Here(s), hd[s].new}
  BY Unheld
<1>2. \A m \in Nodes : /\ node[m].inode = node[m].inode /\ node[m].dir = node[m].dir
                       /\ node[m].ref = node[m].ref /\ (~Live(m) => node[m] = Dead)
  BY DEF World
<1>3. \A m \in Nodes : Live(m) =>
         node[m].ref = Count(m) + (IF formatted /\ node[m].inode = Root THEN 1 ELSE 0)
  BY <1>1
<1>4. /\ World' /\ (formatted => table'[Root] # 0)
      /\ \A m \in Nodes : Live(m)' =>
            /\ Live(m) /\ node'[m] = node[m] /\ Count(m)' = Count(m)
            /\ m = n => node[m].dir
      /\ \A m \in Nodes : m # n /\ Live(m) => Live(m)'
  BY <1>1, <1>2, <1>3, LetGo
<1>5. ASSUME NEW m \in Nodes, Live(m)'
      PROVE  /\ Live(m) /\ node'[m] = node[m]
             /\ node'[m].ref = Count(m)' + (IF formatted' /\ node'[m].inode = Root THEN 1 ELSE 0)
             /\ node'[m].rw = 0
             /\ ~node'[m].dir => m # n /\ m \in {Here(s), hd[s].new}
  BY <1>1, <1>4, <1>5
<1> QED BY <1>1, <1>4, <1>5

\* What is left of Counts for a request that holds no node.
LEMMA UnheldCounts ==
    ASSUME NEW s \in Sessions, ~Held(s)', ~Taken(s)', formatted' => table'[Root] # 0,
           \A m \in Nodes : Live(m)' =>
              /\ node'[m].ref = Count(m)' + (IF formatted' /\ node'[m].inode = Root THEN 1 ELSE 0)
              /\ node'[m].rw = 0
              /\ ~node'[m].dir => m \in {Here(s)', hd'[s].new}
    PROVE  Counts(s)'
<1>1. \A m : Count(m)' + 0 = Count(m)'
  <2>1. \A m : Count(m)' \in Nat
    <3>1. \A m : Cardinality({t \in Sessions : Seat'[t] = m}) \in Nat
      BY FS_Subset, FS_CardinalityType, BoundAssumption
    <3> QED BY <3>1 DEF Count
  <2> QED BY <2>1
<1>2. ~Using(s)'  BY DEF Using
<1>3. ASSUME NEW m \in Nodes, Live(m)'
      PROVE  /\ node'[m].ref = Count(m)' + (IF Using(s)' /\ m = Here(s)' THEN 1 ELSE 0)
                     + (IF formatted' /\ node'[m].inode = Root /\ ~Taken(s)' THEN 1 ELSE 0)
             /\ node'[m].rw \in {-1, 0, 1}
             /\ node'[m].rw # 0 => (Held(s)' /\ m = Here(s)') \/ m \in Got(s)'
             /\ ~node'[m].dir => m \in {Here(s)', hd'[s].new} \cup Got(s)'
  BY <1>1, <1>2, <1>3
<1> QED BY <1>3 DEF Counts

-----------------------------------------------------------------------------
(* The tree.                                                               *)

\* Entry gives an inode that exists.
LEMMA EntryExists ==
    ASSUME World, Proper(tree), NEW n \in Nodes, Live(n), node[n].dir,
           NEW name \in Names \cup Dots
    PROVE  LET d == node[n].inode  i == Entry(d, name) IN
           /\ d \in Inodes
           /\ i # 0 => i \in Inodes /\ tree[i].kind # "free"
           /\ i = 0 => name \in Names \/ ~tree[d].dots
           /\ name \notin Dots /\ i # 0 =>
                name \in Names /\ i = tree[d].at[name] /\ i # Root /\ tree[i].up = d
<1> DEFINE d == node[n].inode
<1>1. d \in Inodes /\ tree[d].kind = "dir"
  BY DEF World, Live, NodeType, Inodes
<1>2. CASE name = "."  BY <1>1, <1>2, BoundAssumption DEF Entry, Dots, Inodes
<1>3. CASE name = ".."
  <2>1. tree[d].up \in Inodes /\ tree[tree[d].up].kind # "free"
    BY <1>1 DEF Proper, Inodes, Root, BoundAssumption
  <2> QED BY <1>1, <1>3, <2>1, BoundAssumption DEF Entry, Dots, Inodes
<1>4. CASE name \notin Dots
  <2>1. name \in Names /\ Entry(d, name) = tree[d].at[name]  BY <1>4 DEF Entry, Dots
  <2>2. tree[d].at[name] \in 0 .. MaxInode  BY <1>1, <2>1 DEF World, TreeType
  <2>3. tree[d].at[name] # 0 =>
          /\ tree[d].at[name] # Root /\ tree[tree[d].at[name]].kind # "free"
          /\ tree[tree[d].at[name]].up = d
    BY <1>1, <2>1 DEF Proper
  <2> QED BY <1>1, <1>4, <2>1, <2>2, <2>3 DEF Inodes
<1> QED BY <1>2, <1>3, <1>4 DEF Dots

\* One entry of a directory is set.
LEMMA EntrySet ==
    ASSUME NEW t \in TreeType, NEW d \in Inodes, NEW name \in Names, NEW i \in 0 .. MaxInode
    PROVE  [t[d] EXCEPT !.at = [t[d].at EXCEPT ![name] = i]]
              \in [kind : {"free", "file", "dir"}, up : 0 .. MaxInode,
                   dots : BOOLEAN, at : [Names -> 0 .. MaxInode]]
BY DEF TreeType

\* A step that changes the tree only.
LEMMA Grown ==
    ASSUME World, UNCHANGED <<node, table, formatted, Seat>>, tree' \in TreeType,
           \A n \in Nodes : Live(n) => tree'[node[n].inode].kind = tree[node[n].inode].kind
    PROVE  World'
BY DEF World, Live

\* The inode of a node that is a directory.
LEMMA DirIs ==
    ASSUME World, NEW s \in Sessions, Here(s) \in Nodes, Live(Here(s)), node[Here(s)].dir
    PROVE  Dir(s) \in Inodes /\ tree[Dir(s)].kind = "dir" /\ tree \in TreeType
BY DEF World, Dir, NodeType, Live, Inodes

\* A directory is not its own entry's directory.
LEMMA NotItsOwn ==
    ASSUME NEW t, Proper(t), NEW i \in Inodes, i # Root, t[i].kind # "free"
    PROVE  t[i].up # i
<1>1. SUFFICES ASSUME t[i].up = i PROVE FALSE
  OBVIOUS
<1>2. {i} \in SUBSET Inodes /\ \A j \in {i} : j # Root /\ t[j].kind # "free" /\ t[j].up \in {i}
  BY <1>1
<1>3. {i} = {}  BY <1>2 DEF Proper
<1> QED BY <1>3

\* The entries of a directory.
LEMMA ChildrenAre ==
    ASSUME NEW i \in Inodes, tree \in TreeType, Proper(tree)
    PROVE  /\ Children(i) \subseteq Inodes /\ IsFiniteSet(Children(i))
           /\ tree[i].kind # "dir" => Children(i) = {}
           /\ \A c \in Children(i) : c # Root /\ tree[c].kind # "free" /\ tree[c].up = i
           /\ \A c \in Inodes : tree[c].kind # "free" /\ c # Root =>
                 tree[c].up \in Inodes /\ c \in Children(tree[c].up)
<1>1. Children(i) \subseteq Inodes  BY DEF Children, TreeType, Inodes
<1>2. IsFiniteSet(Inodes)  BY FS_Interval, BoundAssumption DEF Inodes
<1>3. IsFiniteSet(Children(i))  BY <1>1, <1>2, FS_Subset
<1>4. tree[i].kind # "dir" => Children(i) = {}  BY DEF Children, Proper
<1>5. \A c \in Children(i) : c # Root /\ tree[c].kind # "free" /\ tree[c].up = i
  BY DEF Children, Proper
<1>6. \A c \in Inodes : tree[c].kind # "free" /\ c # Root =>
                 tree[c].up \in Inodes /\ c \in Children(tree[c].up)
  BY BoundAssumption DEF Children, Proper, Inodes
<1> QED BY <1>1, <1>3, <1>4, <1>5, <1>6

\* No entry of the inode that a walk is at was met before, and the directory
\* that rmdir removes a plain name from is not met.
LEMMA WalkIsNew ==
    ASSUME Proper(tree), NEW W \in SUBSET Inodes, NEW first \in W,
           \A i \in W : tree[i].kind # "free",
           \A i \in W \ {first} : i # Root /\ tree[i].up \in W
    PROVE  first # Root => tree[first].up \notin W
<1>1. SUFFICES ASSUME first # Root, tree[first].up \in W PROVE FALSE
  OBVIOUS
<1>2. \A i \in W : i # Root /\ tree[i].kind # "free" /\ tree[i].up \in W  BY <1>1
<1>3. W = {}  BY <1>2 DEF Proper
<1> QED BY <1>3

\* An entry is made, for an inode that was free.
LEMMA ProperMade ==
    ASSUME NEW t \in TreeType, NEW u \in TreeType, Proper(t),
           NEW d \in Inodes, t[d].kind = "dir", NEW name \in Names, t[d].at[name] = 0,
           NEW i \in Inodes, t[i].kind = "free",
           u[i].kind \in {"file", "dir"}, u[i].up = d, \A m \in Names : u[i].at[m] = 0,
           u[d].kind = "dir", u[d].up = t[d].up, u[d].at[name] = i,
           \A m \in Names \ {name} : u[d].at[m] = t[d].at[m],
           \A j \in Inodes \ {i, d} : u[j] = t[j]
    PROVE  Proper(u)
<1>0. i # d /\ i # Root /\ 0 \notin Inodes /\ Root \in Inodes
  BY BoundAssumption DEF Proper, Inodes, Root
<1>1. /\ \A j \in Inodes \ {i} : u[j].kind = t[j].kind /\ u[j].up = t[j].up
      /\ \A j \in Inodes \ {i, d} : \A m \in Names : u[j].at[m] = t[j].at[m]
  OBVIOUS
<1>2. u[Root].kind = "dir" /\ u[Root].up = Root  BY <1>0, <1>1 DEF Proper
<1>3. ASSUME NEW e \in Inodes, NEW n \in Names, u[e].at[n] # 0
      PROVE  /\ u[e].kind = "dir" /\ u[e].at[n] # Root
             /\ u[u[e].at[n]].kind # "free" /\ u[u[e].at[n]].up = e
             /\ \A m \in Names : u[e].at[m] = u[e].at[n] => m = n
  <2>1. CASE e = d /\ n = name
    <3>1. \A m \in Names : t[d].at[m] # i  BY <1>0 DEF Proper
    <3> QED BY <1>0, <2>1, <3>1
  <2>2. CASE ~(e = d /\ n = name)
    <3> DEFINE j == t[e].at[n]
    <3>1. u[e].at[n] = j /\ j # 0 /\ e # i  BY <1>1, <1>3, <2>2
    <3>2. /\ t[e].kind = "dir" /\ j # Root /\ t[j].kind # "free" /\ t[j].up = e
          /\ \A m \in Names : t[e].at[m] = j => m = n
      BY <3>1 DEF Proper
    <3>3. j # i /\ j \in Inodes
      <4>1. j \in 0 .. MaxInode  BY DEF TreeType
      <4>2. j \in Inodes  BY <3>1, <4>1, BoundAssumption DEF Inodes
      <4> QED BY <3>2, <4>2
    <3>4. \A m \in Names : u[e].at[m] = j => m = n  BY <1>1, <3>2, <3>3
    <3> QED BY <1>1, <3>1, <3>2, <3>3, <3>4
  <2> QED BY <2>1, <2>2
<1>4. ASSUME NEW j \in Inodes, u[j].kind # "free", j # Root
      PROVE  /\ u[j].up \in Inodes /\ u[u[j].up].kind = "dir"
             /\ \E n \in Names : u[u[j].up].at[n] = j
  <2>1. CASE j = i  BY <1>0, <2>1
  <2>2. CASE j # i
    <3>1. PICK n \in Names : /\ t[j].up \in Inodes /\ t[t[j].up].kind = "dir"
                             /\ t[t[j].up].at[n] = j
      BY <1>1, <1>4, <2>2 DEF Proper
    <3>2. t[j].up # i /\ j # 0  BY <1>0, <3>1
    <3>3. u[t[j].up].at[n] = j  BY <1>1, <3>1, <3>2
    <3> QED BY <1>1, <2>2, <3>1, <3>2, <3>3
  <2> QED BY <2>1, <2>2
<1>5. ASSUME NEW S \in SUBSET Inodes,
             \A j \in S : j # Root /\ u[j].kind # "free" /\ u[j].up \in S
      PROVE  S = {}
  <2> DEFINE T == S \ {i}
  <2>1. \A j \in T : j # Root /\ t[j].kind # "free" /\ t[j].up \in S  BY <1>1, <1>5
  <2>2. \A j \in T : t[j].up # i  BY <1>0, <2>1 DEF Proper
  <2>3. T = {}
    <3>1. T \in SUBSET Inodes /\ \A j \in T : j # Root /\ t[j].kind # "free" /\ t[j].up \in T
      BY <2>1, <2>2
    <3> HIDE DEF T
    <3> QED BY <3>1 DEF Proper
  <2> QED BY <1>0, <1>5, <2>3
<1> QED BY <1>2, <1>3, <1>4, <1>5 DEF Proper

\* An entry goes, and the inodes below it: those of V, which has its inode,
\* all that its directories have, and nothing else.
LEMMA ProperCut ==
    ASSUME NEW t \in TreeType, NEW u \in TreeType, Proper(t),
           NEW d \in Inodes, NEW name \in Names, t[d].at[name] # 0,
           NEW V \in SUBSET Inodes, d \notin V, t[d].at[name] \in V,
           \A i \in V : \A m \in Names : t[i].at[m] # 0 => t[i].at[m] \in V,
           \A i \in V \ {t[d].at[name]} : i # Root /\ t[i].up \in V,
           \A i \in V : u[i].kind = "free" /\ \A m \in Names : u[i].at[m] = 0,
           u[d].kind = t[d].kind, u[d].up = t[d].up, u[d].at[name] = 0,
           \A m \in Names \ {name} : u[d].at[m] = t[d].at[m],
           \A j \in Inodes \ (V \cup {d}) : u[j] = t[j]
    PROVE  Proper(u)
<1> DEFINE i == t[d].at[name]
<1>0. 0 \notin Inodes /\ Root \in Inodes  BY BoundAssumption DEF Inodes, Root
<1>1. /\ \A j \in Inodes \ V : u[j].kind = t[j].kind /\ u[j].up = t[j].up
      /\ \A j \in Inodes \ V : \A m \in Names :
            ~(j = d /\ m = name) => u[j].at[m] = t[j].at[m]
  OBVIOUS
<1>2. /\ i # Root /\ t[i].up = d
      /\ \A e \in Inodes : \A n \in Names : t[e].at[n] = i => e = d /\ n = name
  BY DEF Proper, Inodes
<1>3. Root \notin V  BY <1>2
<1>4. u[Root].kind = "dir" /\ u[Root].up = Root  BY <1>0, <1>1, <1>3 DEF Proper
<1>5. ASSUME NEW e \in Inodes, NEW n \in Names, u[e].at[n] # 0
      PROVE  /\ u[e].kind = "dir" /\ u[e].at[n] # Root
             /\ u[u[e].at[n]].kind # "free" /\ u[u[e].at[n]].up = e
             /\ \A m \in Names : u[e].at[m] = u[e].at[n] => m = n
  <2> DEFINE j == t[e].at[n]
  <2>1. e \notin V /\ ~(e = d /\ n = name) /\ u[e].at[n] = j /\ j # 0  BY <1>1, <1>5
  <2>2. /\ t[e].kind = "dir" /\ j # Root /\ t[j].kind # "free" /\ t[j].up = e
        /\ \A m \in Names : t[e].at[m] = j => m = n
    BY <2>1 DEF Proper
  <2>3. j \in Inodes  BY <2>1 DEF TreeType, Inodes
  <2>4. j \notin V  BY <1>2, <2>1, <2>2
  <2>5. \A m \in Names : u[e].at[m] = j => m = n  BY <1>1, <2>1, <2>2
  <2> QED BY <1>1, <2>1, <2>2, <2>3, <2>4, <2>5
<1>6. ASSUME NEW j \in Inodes, u[j].kind # "free", j # Root
      PROVE  /\ u[j].up \in Inodes /\ u[u[j].up].kind = "dir"
             /\ \E n \in Names : u[u[j].up].at[n] = j
  <2>1. j \notin V /\ t[j].kind # "free" /\ j # 0  BY <1>0, <1>1, <1>6
  <2>2. PICK n \in Names : /\ t[j].up \in Inodes /\ t[t[j].up].kind = "dir"
                           /\ t[t[j].up].at[n] = j
    BY <1>6, <2>1 DEF Proper
  <2>3. t[j].up \notin V  BY <2>1, <2>2
  <2>4. ~(t[j].up = d /\ n = name)  BY <2>1, <2>2
  <2> QED BY <1>1, <2>1, <2>2, <2>3, <2>4
<1>7. ASSUME NEW S \in SUBSET Inodes,
             \A j \in S : j # Root /\ u[j].kind # "free" /\ u[j].up \in S
      PROVE  S = {}
  <2>1. \A j \in S : j # Root /\ t[j].kind # "free" /\ t[j].up \in S  BY <1>1, <1>7
  <2> QED BY <2>1 DEF Proper
<1> QED BY <1>4, <1>5, <1>6, <1>7 DEF Proper

\* An entry has another name.
LEMMA ProperRenamed ==
    ASSUME NEW t \in TreeType, NEW u \in TreeType, Proper(t), NEW d \in Inodes,
           NEW old \in Names, NEW new \in Names, t[d].at[old] # 0, t[d].at[new] = 0,
           u[d].kind = t[d].kind, u[d].up = t[d].up,
           u[d].at[new] = t[d].at[old], u[d].at[old] = 0,
           \A m \in Names \ {old, new} : u[d].at[m] = t[d].at[m],
           \A j \in Inodes \ {d} : u[j] = t[j]
    PROVE  Proper(u)
<1>0. 0 \notin Inodes /\ Root \in Inodes  BY BoundAssumption DEF Inodes, Root
<1>1. \A j \in Inodes : u[j].kind = t[j].kind /\ u[j].up = t[j].up  OBVIOUS
<1> DEFINE was(j, m) == IF j = d /\ m = new THEN old ELSE m
<1>2. \A j \in Inodes : \A m \in Names :
         u[j].at[m] # 0 => was(j, m) \in Names /\ u[j].at[m] = t[j].at[was(j, m)]
  OBVIOUS
<1>3. \A j \in Inodes : \A m, n \in Names :
         u[j].at[m] # 0 /\ u[j].at[n] # 0 /\ was(j, m) = was(j, n) => m = n
  OBVIOUS
<1>4. ASSUME NEW e \in Inodes, NEW n \in Names, u[e].at[n] # 0
      PROVE  /\ u[e].kind = "dir" /\ u[e].at[n] # Root
             /\ u[u[e].at[n]].kind # "free" /\ u[u[e].at[n]].up = e
             /\ \A m \in Names : u[e].at[m] = u[e].at[n] => m = n
  <2> DEFINE j == u[e].at[n]
             w == was(e, n)
  <2>1. w \in Names /\ j = t[e].at[w] /\ j # 0  BY <1>2, <1>4
  <2>2. /\ t[e].kind = "dir" /\ j # Root /\ t[j].kind # "free" /\ t[j].up = e
        /\ \A m \in Names : t[e].at[m] = j => m = w
    BY <2>1 DEF Proper
  <2>3. j \in Inodes  BY <2>1 DEF TreeType, Inodes
  <2>4. \A m \in Names : u[e].at[m] = j => m = n
    <3>1. ASSUME NEW m \in Names, u[e].at[m] = j PROVE m = n
      <4>1. was(e, m) \in Names /\ t[e].at[was(e, m)] = j  BY <1>2, <2>1, <3>1
      <4>2. was(e, m) = w  BY <2>2, <4>1
      <4> HIDE DEF was
      <4> QED BY <1>3, <2>1, <3>1, <4>2
    <3> QED BY <3>1
  <2> QED BY <1>1, <2>1, <2>2, <2>3, <2>4
<1>5. ASSUME NEW j \in Inodes, u[j].kind # "free", j # Root
      PROVE  /\ u[j].up \in Inodes /\ u[u[j].up].kind = "dir"
             /\ \E n \in Names : u[u[j].up].at[n] = j
  <2>1. PICK n \in Names : /\ t[j].up \in Inodes /\ t[t[j].up].kind = "dir"
                           /\ t[t[j].up].at[n] = j
    BY <1>1, <1>5 DEF Proper
  <2>2. \E m \in Names : u[t[j].up].at[m] = j
    <3>1. CASE t[j].up = d /\ n = old  BY <2>1, <3>1
    <3>2. CASE ~(t[j].up = d /\ n = old)  BY <1>0, <2>1, <3>2
    <3> QED BY <3>1, <3>2
  <2> QED BY <1>1, <2>1, <2>2
<1>6. ASSUME NEW S \in SUBSET Inodes,
             \A j \in S : j # Root /\ u[j].kind # "free" /\ u[j].up \in S
      PROVE  S = {}
  <2>1. \A j \in S : j # Root /\ t[j].kind # "free" /\ t[j].up \in S  BY <1>1, <1>6
  <2> QED BY <2>1 DEF Proper
<1>7. u[Root].kind = "dir" /\ u[Root].up = Root  BY <1>0, <1>1 DEF Proper
<1> QED BY <1>4, <1>5, <1>6, <1>7 DEF Proper

\* create_file and create_dir keep the tree proper and the nodes true to it.
LEMMA MadeTree ==
    ASSUME World, Proper(tree), NEW s \in Sessions, Here(s) \in Nodes, Live(Here(s)),
           node[Here(s)].dir, Name(s) \in Names \cup Dots, MakeEntry(s),
           UNCHANGED <<node, table, formatted, Seat>>
    PROVE  World' /\ Proper(tree')
<1> DEFINE d == Dir(s)
           name == Name(s)
<1>1. d \in Inodes /\ tree[d].kind = "dir" /\ tree \in TreeType  BY DirIs
<1>2. name \in Names /\ tree[d].at[name] = 0
  <2>1. name \in Names /\ Entry(d, name) = 0  BY DEF MakeEntry
  <2>2. name \notin Dots  BY <2>1, NameAssumption DEF Dots
  <2> QED BY <2>1, <2>2 DEF Entry, Dots
<1>3. PICK i \in Inodes, k \in {"file", "dir"}, saved \in BOOLEAN :
          /\ tree[i].kind = "free"
          /\ tree' = [tree EXCEPT ![i] = [Made(k, d) EXCEPT !.dots = saved],
                                  ![d].at[name] = i]
  BY DEF MakeEntry
<1> DEFINE new == [Made(k, d) EXCEPT !.dots = saved]
<1>4. i # d /\ tree' = [tree EXCEPT ![i] = new, ![d].at[name] = i]  BY <1>1, <1>3
<1>5. new \in [kind : {"free", "file", "dir"}, up : 0 .. MaxInode,
                      dots : BOOLEAN, at : [Names -> 0 .. MaxInode]]
  BY <1>1, BoundAssumption DEF Made, NoEntries, Inodes
<1>11. /\ new.kind = k /\ new.up = d /\ \A m \in Names : new.at[m] = 0
  BY DEF Made, NoEntries
<1> HIDE DEF d, name, new
<1>6. tree' \in TreeType
  <2> DEFINE at == [tree[d].at EXCEPT ![name] = i]
             r == [tree[d] EXCEPT !.at = at]
             x == new
  <2>1. i \in 0 .. MaxInode  BY DEF Inodes
  <2>2. r \in [kind : {"free", "file", "dir"}, up : 0 .. MaxInode, dots : BOOLEAN, at : [Names -> 0 .. MaxInode]]
    BY <1>1, <1>2, <2>1, EntrySet
  <2>3. tree' = [tree EXCEPT ![i] = x, ![d] = r]  BY <1>1, <1>4 DEF TreeType
  <2> HIDE DEF r, x, new
  <2> QED BY <1>1, <2>2, <2>3, <1>5 DEF TreeType, x
<1>7. /\ tree'[i].kind = k /\ tree'[i].up = d /\ \A m \in Names : tree'[i].at[m] = 0
      /\ tree'[d].kind = "dir" /\ tree'[d].up = tree[d].up
      /\ tree'[d].at[name] = i /\ \A m \in Names \ {name} : tree'[d].at[m] = tree[d].at[m]
  BY <1>1, <1>2, <1>4, <1>11 DEF TreeType
<1>8. \A j \in Inodes \ {i, d} : tree'[j] = tree[j]  BY <1>1, <1>4 DEF TreeType
<1>9. Proper(tree')
  <2>1. tree[i].kind = "free" /\ tree'[i].kind \in {"file", "dir"}  BY <1>3, <1>7
  <2> QED BY <1>1, <1>2, <1>6, <1>7, <1>8, <2>1, ProperMade
<1>10. World'
  <2>1. ASSUME NEW n \in Nodes, Live(n)
        PROVE  tree'[node[n].inode].kind = tree[node[n].inode].kind
    <3>1. node[n].inode \in Inodes /\ tree[node[n].inode].kind # "free"
      BY <2>1 DEF World, NodeType, Live, Inodes
    <3> QED BY <1>1, <1>3, <1>7, <1>8, <3>1
  <2> QED BY <1>6, <2>1, Grown
<1> QED BY <1>9, <1>10

\* remove of a file keeps the tree proper and the nodes true to it.
LEMMA RemovedTree ==
    ASSUME World, Proper(tree), NEW s \in Sessions, Here(s) \in Nodes, Live(Here(s)),
           node[Here(s)].dir, Name(s) \in Names \cup Dots, RemoveFile(s),
           \A n \in Nodes : Live(n) => node[n].dir,
           UNCHANGED <<node, table, formatted, Seat>>
    PROVE  World' /\ Proper(tree')
<1> DEFINE d == Dir(s)
           name == Name(s)
           i == Entry(d, name)
<1>1. d \in Inodes /\ tree[d].kind = "dir" /\ tree \in TreeType  BY DirIs
<1>2. /\ i \in Inodes /\ i # 0 /\ tree[i].kind = "file" /\ i # d
      /\ tree' = [tree EXCEPT ![i] = Unused, ![d].at[name] = 0]
  BY <1>1, EntryExists DEF RemoveFile, Dir
<1>3. name \in Names /\ tree[d].at[name] = i
  <2>1. name \notin Dots
    BY <1>1, <1>2 DEF Entry, Dots, Proper, Root
  <2> QED BY <1>1, <1>2, <2>1, EntryExists DEF Dir
<1>4. Unused \in [kind : {"free", "file", "dir"}, up : 0 .. MaxInode, dots : BOOLEAN, at : [Names -> 0 .. MaxInode]]
  BY <1>1, BoundAssumption DEF Unused, NoEntries, Inodes
<1> HIDE DEF d, name, i
<1>5. tree' \in TreeType
  <2> DEFINE at == [tree[d].at EXCEPT ![name] = 0]
             r == [tree[d] EXCEPT !.at = at]
  <2>1. 0 \in 0 .. MaxInode  BY BoundAssumption
  <2>2. r \in [kind : {"free", "file", "dir"}, up : 0 .. MaxInode, dots : BOOLEAN, at : [Names -> 0 .. MaxInode]]
    BY <1>1, <1>3, <2>1, EntrySet
  <2>3. tree' = [tree EXCEPT ![i] = Unused, ![d] = r]  BY <1>1, <1>2 DEF TreeType
  <2> HIDE DEF r
  <2> QED BY <1>1, <2>2, <2>3, <1>4 DEF TreeType
<1>6. /\ tree'[i].kind = "free" /\ \A m \in Names : tree'[i].at[m] = 0
      /\ tree'[d].kind = "dir" /\ tree'[d].up = tree[d].up
      /\ tree'[d].at[name] = 0 /\ \A m \in Names \ {name} : tree'[d].at[m] = tree[d].at[m]
  BY <1>1, <1>2, <1>3 DEF TreeType, Unused, NoEntries
<1>7. \A j \in Inodes \ {i, d} : tree'[j] = tree[j]  BY <1>1, <1>2 DEF TreeType
<1>8. Proper(tree')
  <2> DEFINE V == {i}
  <2>1. \A m \in Names : tree[i].at[m] = 0  BY <1>2 DEF Proper
  <2>2. /\ V \in SUBSET Inodes /\ d \notin V /\ tree[d].at[name] \in V /\ tree[d].at[name] # 0
        /\ \A j \in V : \A m \in Names : tree[j].at[m] # 0 => tree[j].at[m] \in V
        /\ \A j \in V \ {tree[d].at[name]} : j # Root /\ tree[j].up \in V
        /\ \A j \in V : tree'[j].kind = "free" /\ \A m \in Names : tree'[j].at[m] = 0
        /\ \A j \in Inodes \ (V \cup {d}) : tree'[j] = tree[j]
    <3>1. /\ V \in SUBSET Inodes /\ d \notin V
          /\ tree[d].at[name] \in V /\ tree[d].at[name] # 0
      BY <1>2, <1>3
    <3>2. \A j \in V : \A m \in Names : tree[j].at[m] # 0 => tree[j].at[m] \in V  BY <2>1
    <3>3. \A j \in V \ {tree[d].at[name]} : j # Root /\ tree[j].up \in V  BY <1>3
    <3>4. \A j \in V : tree'[j].kind = "free" /\ \A m \in Names : tree'[j].at[m] = 0  BY <1>6
    <3>5. \A j \in Inodes \ (V \cup {d}) : tree'[j] = tree[j]  BY <1>7
    <3> QED BY <3>1, <3>2, <3>3, <3>4, <3>5
  <2> HIDE DEF V
  <2>3. tree'[d].kind = tree[d].kind  BY <1>1, <1>6
  <2> QED BY <1>1, <1>3, <1>5, <1>6, <2>2, <2>3, ProperCut
<1>9. World'
  <2>1. ASSUME NEW n \in Nodes, Live(n)
        PROVE  tree'[node[n].inode].kind = tree[node[n].inode].kind
    <3>1. node[n].inode \in Inodes /\ tree[node[n].inode].kind = "dir"
      BY <2>1 DEF World, NodeType, Live, Inodes
    <3> QED BY <1>1, <1>2, <1>6, <1>7, <3>1
  <2> QED BY <1>5, <2>1, Grown
<1> QED BY <1>8, <1>9

\* rename does.
LEMMA RenamedTree ==
    ASSUME World, Proper(tree), NEW s \in Sessions, Here(s) \in Nodes, Live(Here(s)),
           node[Here(s)].dir, Rename(s), UNCHANGED <<node, table, formatted, Seat>>
    PROVE  World' /\ Proper(tree')
<1> DEFINE d == Dir(s)
<1>1. d \in Inodes /\ tree[d].kind = "dir" /\ tree \in TreeType  BY DirIs
<1>2. PICK old \in Names, new \in Names :
          /\ tree[d].at[old] # 0 /\ tree[d].at[new] = 0
          /\ tree' = [tree EXCEPT ![d].at =
                         [tree[d].at EXCEPT ![new] = tree[d].at[old], ![old] = 0]]
  BY DEF Rename
<1> HIDE DEF d
<1>3. tree' \in TreeType
  <2> DEFINE at == [tree[d].at EXCEPT ![new] = tree[d].at[old], ![old] = 0]
             r == [tree[d] EXCEPT !.at = at]
  <2>1. tree[d].at \in [Names -> 0 .. MaxInode] /\ 0 \in 0 .. MaxInode
    BY <1>1, BoundAssumption DEF TreeType
  <2>2. at \in [Names -> 0 .. MaxInode]  BY <2>1
  <2> HIDE DEF at
  <2>3. r \in [kind : {"free", "file", "dir"}, up : 0 .. MaxInode, dots : BOOLEAN, at : [Names -> 0 .. MaxInode]]
    BY <1>1, <2>2 DEF TreeType
  <2>4. tree' = [tree EXCEPT ![d] = r]  BY <1>1, <1>2 DEF TreeType, at
  <2> HIDE DEF r
  <2> QED BY <1>1, <2>3, <2>4 DEF TreeType
<1>4. tree'[d].kind = tree[d].kind /\ tree'[d].up = tree[d].up
  BY <1>1, <1>2 DEF TreeType
<1>5. /\ tree'[d].at[new] = tree[d].at[old] /\ tree'[d].at[old] = 0
      /\ \A m \in Names \ {old, new} : tree'[d].at[m] = tree[d].at[m]
  BY <1>1, <1>2 DEF TreeType
<1>6. \A j \in Inodes \ {d} : tree'[j] = tree[j]  BY <1>1, <1>2 DEF TreeType
<1>7. Proper(tree')
  <2>1. tree[d].at[old] # 0 /\ tree[d].at[new] = 0  BY <1>2
  <2> QED BY <1>1, <1>3, <1>4, <1>5, <1>6, <2>1, ProperRenamed
<1>8. World'
  <2>1. ASSUME NEW n \in Nodes, Live(n)
        PROVE  tree'[node[n].inode].kind = tree[node[n].inode].kind
    <3>1. node[n].inode \in Inodes  BY <2>1 DEF World, NodeType, Live, Inodes
    <3> QED BY <1>1, <1>4, <1>6, <3>1
  <2> QED BY <1>3, <2>1, Grown
<1> QED BY <1>7, <1>8

\* What format_ writes.
LEMMA FreshTreeProper ==
    /\ FreshTree \in TreeType /\ Proper(FreshTree)
    /\ FreshTree[Root].kind = "dir" /\ FreshTree[2].kind = "dir"
    /\ Root \in Inodes /\ 2 \in Inodes /\ Root # 2
<1> DEFINE t == FreshTree
           R == [kind : {"free", "file", "dir"}, up : 0 .. MaxInode, dots : BOOLEAN, at : [Names -> 0 .. MaxInode]]
           at == [NoEntries EXCEPT ![Home] = 2]
           root == [Made("dir", Root) EXCEPT !.at[Home] = 2]
           home == Made("dir", Root)
<1>1. /\ Root \in Inodes /\ 2 \in Inodes /\ Root # 2 /\ 0 \notin Inodes
      /\ Root \in 0 .. MaxInode /\ 2 \in 0 .. MaxInode /\ 0 \in 0 .. MaxInode /\ Home \in Names
  BY BoundAssumption DEF Inodes, Root
<1>2. NoEntries \in [Names -> 0 .. MaxInode] /\ \A n \in Names : NoEntries[n] = 0
  BY <1>1 DEF NoEntries
<1>3. /\ at \in [Names -> 0 .. MaxInode] /\ at[Home] = 2
      /\ \A n \in Names : n # Home => at[n] = 0
  BY <1>1, <1>2
<1>4. root \in R /\ root.kind = "dir" /\ root.up = Root /\ root.at = at
  BY <1>1, <1>2, <1>3 DEF Made
<1>5. home = [kind |-> "dir", up |-> Root, dots |-> TRUE, at |-> NoEntries]  BY DEF Made
<1>6. Unused = [kind |-> "free", up |-> 0, dots |-> FALSE, at |-> NoEntries]  BY DEF Unused
<1> HIDE DEF at, root, home
<1>7. root \in R /\ home \in R /\ Unused \in R  BY <1>1, <1>2, <1>3, <1>4, <1>5, <1>6
<1>8. t = [i \in Inodes |-> IF i = Root THEN root ELSE IF i = 2 THEN home ELSE Unused]
  BY DEF FreshTree, root, home
<1> HIDE DEF t
<1>9. t \in TreeType  BY <1>7, <1>8 DEF TreeType
<1>10. /\ t[Root] = root /\ t[2] = home
       /\ \A i \in Inodes : i # Root /\ i # 2 => t[i] = Unused
  BY <1>1, <1>8
<1>11. /\ t[Root].kind = "dir" /\ t[Root].up = Root /\ t[2].kind = "dir" /\ t[2].up = Root
       /\ \A i \in Inodes : i # Root /\ i # 2 => t[i].kind = "free"
       /\ t[Root].at[Home] = 2
       /\ \A i \in Inodes : \A n \in Names : t[i].at[n] # 0 => i = Root /\ n = Home
  BY <1>2, <1>3, <1>4, <1>5, <1>6, <1>10
<1>12. Proper(t)
  <2>1. ASSUME NEW d \in Inodes, NEW n \in Names, t[d].at[n] # 0
        PROVE  /\ t[d].kind = "dir" /\ t[d].at[n] # Root
               /\ t[t[d].at[n]].kind # "free" /\ t[t[d].at[n]].up = d
               /\ \A m \in Names : t[d].at[m] = t[d].at[n] => m = n
    <3>1. d = Root /\ n = Home /\ t[d].at[n] = 2  BY <1>11, <2>1
    <3> QED BY <1>1, <1>11, <2>1, <3>1
  <2>2. ASSUME NEW i \in Inodes, t[i].kind # "free", i # Root
        PROVE  /\ t[i].up \in Inodes /\ t[t[i].up].kind = "dir"
               /\ \E n \in Names : t[t[i].up].at[n] = i
    BY <1>1, <1>11, <2>2
  <2>3. ASSUME NEW S \in SUBSET Inodes,
               \A i \in S : i # Root /\ t[i].kind # "free" /\ t[i].up \in S
        PROVE  S = {}
    BY <1>1, <1>11, <2>3
  <2> QED BY <1>11, <2>1, <2>2, <2>3 DEF Proper
<1> QED BY <1>1, <1>9, <1>11, <1>12 DEF t

\* The nodes that format_ writes.
LEMMA FreshFields ==
    ASSUME NEW ns \in NodeType, \A m \in Nodes : ns[m] = Dead,
           NEW r \in Nodes, NEW h \in Nodes, r # h, NEW g, g = FreshNodes(ns, r, h)
    PROVE  /\ g \in NodeType
           /\ g[r].inode = Root /\ g[r].dir /\ g[r].rw = 0 /\ g[r].ref = 1
           /\ g[h].inode = 2 /\ g[h].dir /\ g[h].rw = 0 /\ g[h].ref = 0
           /\ \A m \in Nodes : m # r /\ m # h => g[m] = Dead
<1> DEFINE N == [inode : 0 .. MaxInode, dir : BOOLEAN, rw : Int, ref : Int]
           x == NodeOf(Root, TRUE, 1)
           y == NodeOf(2, TRUE, 0)
<1>1. /\ x \in N /\ x.inode = Root /\ x.dir /\ x.rw = 0 /\ x.ref = 1
      /\ y \in N /\ y.inode = 2 /\ y.dir /\ y.rw = 0 /\ y.ref = 0
  BY BoundAssumption DEF NodeOf, Root
<1>2. g = [ns EXCEPT ![r] = x, ![h] = y]  BY DEF FreshNodes
<1> HIDE DEF x, y
<1>3. g \in NodeType  BY <1>1, <1>2 DEF NodeType
<1>4. g[r] = x /\ g[h] = y /\ \A m \in Nodes : m # r /\ m # h => g[m] = ns[m]
  BY <1>2 DEF NodeType
<1> QED BY <1>1, <1>3, <1>4

\* The table that format_ writes.
LEMMA FreshTableFields ==
    ASSUME NEW r \in 0 .. MaxNode, NEW h \in 0 .. MaxNode
    PROVE  LET g == FreshTable(r, h) IN
           /\ g \in [Inodes -> 0 .. MaxNode] /\ g[Root] = r /\ g[2] = h
           /\ \A i \in Inodes : i # Root /\ i # 2 => g[i] = 0
<1>1. Root \in Inodes /\ 2 \in Inodes /\ Root # 2 /\ 0 \in 0 .. MaxNode
  BY BoundAssumption DEF Inodes, Root
<1> QED BY <1>1 DEF FreshTable

-----------------------------------------------------------------------------
(* Sequences of different elements.                                        *)

\* The head and the tail of a sequence of different elements.
LEMMA TailOf ==
    ASSUME NEW S, NEW q \in Seq(S), q # << >>,
           \A j, k \in DOMAIN q : j # k => q[j] # q[k]
    PROVE  /\ Head(q) \in S /\ Tail(q) \in Seq(S) /\ Head(q) \notin Range(Tail(q))
           /\ Range(q) = {Head(q)} \cup Range(Tail(q))
           /\ Head(q) = q[1] /\ 1 \in DOMAIN q
           /\ \A j, k \in DOMAIN Tail(q) : j # k => Tail(q)[j] # Tail(q)[k]
           /\ \A j \in DOMAIN Tail(q) : j + 1 \in DOMAIN q /\ Tail(q)[j] = q[j + 1] /\ j + 1 # 1
<1> DEFINE h == Head(q)
           r == Tail(q)
<1>1. /\ Len(q) \in Nat \ {0} /\ DOMAIN q = 1 .. Len(q) /\ h = q[1] /\ h \in S
  OBVIOUS
<1>2. /\ r \in Seq(S) /\ Len(r) = Len(q) - 1 /\ \A i \in 1 .. Len(r) : r[i] = q[i + 1]
  BY HeadTailProperties
<1>3. DOMAIN r = 1 .. Len(r) /\ Len(r) \in Nat  BY <1>2, LenProperties
<1> HIDE DEF h, r
<1>4. \A j \in DOMAIN r : j \in Nat /\ j + 1 \in DOMAIN q /\ r[j] = q[j + 1] /\ j + 1 # 1
  BY <1>1, <1>2, <1>3
<1>5. \A j \in DOMAIN q : j = 1 \/ (j - 1 \in DOMAIN r /\ q[j] = r[j - 1])
  BY <1>1, <1>2, <1>3
<1>6. Range(q) = {h} \cup Range(r)
  <2>1. Range(q) \subseteq {h} \cup Range(r)  BY <1>1, <1>5 DEF Range
  <2>2. {h} \cup Range(r) \subseteq Range(q)  BY <1>1, <1>4 DEF Range
  <2> QED BY <2>1, <2>2
<1>7. h \notin Range(r)  BY <1>1, <1>4 DEF Range
<1>8. \A j, k \in DOMAIN r : j # k => r[j] # r[k]
  <2>1. ASSUME NEW j \in DOMAIN r, NEW k \in DOMAIN r, j # k PROVE r[j] # r[k]
    <3>1. j + 1 # k + 1  BY <1>4, <2>1
    <3> QED BY <1>4, <3>1
  <2> QED BY <2>1
<1> QED BY <1>1, <1>2, <1>4, <1>6, <1>7, <1>8 DEF h, r

\* The request goes on with its other nodes.
LEMMA GotTail ==
    ASSUME Handled, NEW s \in Sessions, Solo(s), hd[s].got # << >>,
           \A j, k \in DOMAIN hd[s].got : j # k => hd[s].got[j] # hd[s].got[k],
           Goto(s, [On(s) EXCEPT !.got = Tail(hd[s].got)])
    PROVE  /\ Handled' /\ Solo(s)' /\ \A t \in Sessions : Solo(t)' => t = s
           /\ hd'[s].pc = hd[s].pc /\ hd'[s].op = hd[s].op /\ hd'[s].rest = hd[s].rest
           /\ hd'[s].node = hd[s].node /\ hd'[s].todo = hd[s].todo /\ hd'[s].ok = hd[s].ok
           /\ hd'[s].stayed = hd[s].stayed /\ hd'[s].new = 0
           /\ hd'[s].got = Tail(hd[s].got) /\ hd'[s] \in Handlers
           /\ Head(hd[s].got) \in Nodes /\ Got(s) = {Head(hd[s].got)} \cup Got(s)'
           /\ Head(hd[s].got) \notin Got(s)'
           /\ \A j, k \in DOMAIN hd'[s].got : j # k => hd'[s].got[j] # hd'[s].got[k]
           /\ \A j \in DOMAIN hd'[s].got : hd'[s].got[j] \in Got(s)'
<1> DEFINE o == On(s)
           r == Tail(hd[s].got)
           h == [o EXCEPT !.got = r]
<1>1. hd[s] \in Handlers /\ hd[s].got \in Seq(Nodes)  BY DEF Handled, Handlers
<1>2. /\ Head(hd[s].got) \in Nodes /\ r \in Seq(Nodes) /\ Head(hd[s].got) \notin Range(r)
      /\ Range(hd[s].got) = {Head(hd[s].got)} \cup Range(r)
      /\ \A j, k \in DOMAIN r : j # k => r[j] # r[k]
  BY <1>1, TailOf
<1>3. o \in Handlers /\ Carried(o, hd[s]) /\ o.new = 0 /\ o.pc = hd[s].pc  BY <1>1, OnFields
<1>4. Goto(s, h)  OBVIOUS
<1>5. r = Tail(hd[s].got)  OBVIOUS
<1> HIDE DEF o, r
<1>6. h \in Handlers  BY <1>2, <1>3 DEF Handlers
<1>7. /\ h.pc = hd[s].pc /\ h.op = hd[s].op /\ h.rest = hd[s].rest
      /\ h.node = hd[s].node /\ h.todo = hd[s].todo /\ h.ok = hd[s].ok
      /\ h.stayed = hd[s].stayed /\ h.new = 0 /\ h.got = r
  BY <1>3 DEF Handlers, Carried
<1>8. h.pc # "idle"  BY <1>7 DEF Solo, IsIdle
<1> HIDE DEF h
<1>9. /\ Handled' /\ hd'[s] = h /\ Solo(s)' /\ \A t \in Sessions : Solo(t)' => t = s
  BY <1>4, <1>6, <1>7, <1>8, SoloGoes
<1>10. Got(s) = Range(hd[s].got) /\ Got(s)' = Range(r)  BY <1>7, <1>9 DEF Got
<1>11. \A j \in DOMAIN r : r[j] \in Range(r)  BY DEF Range
<1> QED BY <1>2, <1>5, <1>6, <1>7, <1>9, <1>10, <1>11

\* A set written as a sequence.
LEMMA SeqsOf ==
    ASSUME NEW S, IsFiniteSet(S), NEW q \in SetToSeqs(S)
    PROVE  /\ q \in Seq(S) /\ Range(q) = S
           /\ \A j, k \in DOMAIN q : j # k => q[j] # q[k]
<1> DEFINE D == 1 .. Cardinality(S)
<1>1. Cardinality(S) \in Nat  BY FS_CardinalityType
<1>2. q \in [D -> S] /\ \A j, k \in D : j # k => q[j] # q[k]  BY DEF SetToSeqs
<1>3. IsFiniteSet(D) /\ Cardinality(D) = Cardinality(S)
  <2>1. /\ IsFiniteSet(1 .. Cardinality(S))
        /\ Cardinality(1 .. Cardinality(S)) =
              IF 1 > Cardinality(S) THEN 0 ELSE Cardinality(S) - 1 + 1
    BY <1>1, FS_Interval
  <2> QED BY <1>1, <2>1
<1>4. q \in Injection(D, S)  BY <1>2 DEF Injection, IsInjective
<1> HIDE DEF D
<1>5. q \in Surjection(D, S)  BY <1>3, <1>4, FS_Injection
<1>6. Range(q) = S  BY <1>2, <1>5 DEF Surjection, Range
<1>7. q \in Seq(S)  BY <1>1, <1>2 DEF D
<1> QED BY <1>2, <1>6, <1>7

\* Two sequences of different elements, joined.
IsJoin(p, q, r) == p = q \o r

\* Their elements are different if those of the two are, and not shared.
LEMMA Joined ==
    ASSUME NEW S, NEW q \in Seq(S), NEW r \in Seq(S),
           \A j, k \in DOMAIN q : j # k => q[j] # q[k],
           \A j, k \in DOMAIN r : j # k => r[j] # r[k],
           Range(q) \cap Range(r) = {}, NEW p, IsJoin(p, q, r)
    PROVE  /\ p \in Seq(S) /\ Range(p) = Range(q) \cup Range(r)
           /\ \A j, k \in DOMAIN p : j # k => p[j] # p[k]
<1>1. /\ p \in Seq(S) /\ Len(p) = Len(q) + Len(r)
      /\ \A i \in 1 .. Len(q) + Len(r) : p[i] = IF i <= Len(q) THEN q[i] ELSE r[i - Len(q)]
  <2>1. p = q \o r  BY DEF IsJoin
  <2> QED BY <2>1, ConcatProperties
<1>2. /\ DOMAIN q = 1 .. Len(q) /\ DOMAIN r = 1 .. Len(r) /\ Len(q) \in Nat /\ Len(r) \in Nat
  BY LenProperties
<1>3. DOMAIN p = 1 .. Len(q) + Len(r)  BY <1>1, LenProperties
<1>4. /\ \A i \in DOMAIN p : \/ i \in DOMAIN q /\ p[i] = q[i]
                             \/ i \notin DOMAIN q /\ i - Len(q) \in DOMAIN r /\ p[i] = r[i - Len(q)]
      /\ \A i \in DOMAIN q : i \in DOMAIN p /\ p[i] = q[i]
      /\ \A i \in DOMAIN r : i + Len(q) \in DOMAIN p /\ p[i + Len(q)] = r[i]
  BY <1>1, <1>2, <1>3
<1>5. Range(p) = Range(q) \cup Range(r)
  <2>1. Range(p) \subseteq Range(q) \cup Range(r)  BY <1>4 DEF Range
  <2>2. Range(q) \subseteq Range(p)  BY <1>4 DEF Range
  <2>3. Range(r) \subseteq Range(p)  BY <1>4 DEF Range
  <2> QED BY <2>1, <2>2, <2>3
<1>6. ASSUME NEW j \in DOMAIN p, NEW k \in DOMAIN p, j # k PROVE p[j] # p[k]
  <2>1. \A i \in DOMAIN q : q[i] \in Range(q)  BY DEF Range
  <2>2. \A i \in DOMAIN r : r[i] \in Range(r)  BY DEF Range
  <2>3. CASE j \in DOMAIN q /\ k \in DOMAIN q  BY <1>4, <1>6, <2>3
  <2>4. CASE j \in DOMAIN q /\ k \notin DOMAIN q
    <3>1. p[j] \in Range(q) /\ p[k] \in Range(r)  BY <1>4, <2>1, <2>2, <2>4
    <3> QED BY <3>1
  <2>5. CASE j \notin DOMAIN q /\ k \in DOMAIN q
    <3>1. p[k] \in Range(q) /\ p[j] \in Range(r)  BY <1>4, <2>1, <2>2, <2>5
    <3> QED BY <3>1
  <2>6. CASE j \notin DOMAIN q /\ k \notin DOMAIN q
    <3>1. /\ j - Len(q) \in DOMAIN r /\ p[j] = r[j - Len(q)]
          /\ k - Len(q) \in DOMAIN r /\ p[k] = r[k - Len(q)]
      BY <1>4, <2>6
    <3>2. j - Len(q) # k - Len(q)  BY <1>2, <1>3, <1>6
    <3> QED BY <3>1, <3>2
  <2> QED BY <2>3, <2>4, <2>5, <2>6
<1> QED BY <1>1, <1>5, <1>6

\* One more element at the end.
LEMMA AppendedTo ==
    ASSUME NEW S, NEW q \in Seq(S), NEW n \in S, n \notin Range(q),
           \A j, k \in DOMAIN q : j # k => q[j] # q[k]
    PROVE  /\ Append(q, n) \in Seq(S) /\ Append(q, n) # << >>
           /\ Range(Append(q, n)) = Range(q) \cup {n}
           /\ \A j, k \in DOMAIN Append(q, n) : j # k => Append(q, n)[j] # Append(q, n)[k]
<1> DEFINE u == <<n>>
           p == Append(q, n)
<1>1. u \in Seq(S) /\ DOMAIN u = {1} /\ u[1] = n  OBVIOUS
<1>2. IsJoin(p, q, u)  BY AppendIsConcat DEF IsJoin
<1>3. p # << >>  BY AppendProperties
<1> HIDE DEF u, p
<1>4. Range(u) = {n} /\ Range(q) \cap Range(u) = {}  BY <1>1 DEF Range
<1>5. \A j, k \in DOMAIN u : j # k => u[j] # u[k]  BY <1>1
<1>6. /\ p \in Seq(S) /\ Range(p) = Range(q) \cup Range(u)
      /\ \A j, k \in DOMAIN p : j # k => p[j] # p[k]
  BY <1>1, <1>2, <1>4, <1>5, Joined
<1> QED BY <1>3, <1>4, <1>6 DEF p

=============================================================================
