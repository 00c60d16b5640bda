----------------------------- MODULE NodeTable -----------------------------
(***************************************************************************)
(* The nodes of step2/filesystem.cc: node_t with its reader/writer count   *)
(* and its reference count, the table nodes_ from inodes to nodes, and the *)
(* operations of WorkingDir, FileSystem::format and the working            *)
(* directories, as the handler threads of server.cc run them.              *)
(*                                                                         *)
(* A handler is a thread with a program counter; an action is one access   *)
(* to a shared node, to the table or to a directory.  Nodes have an        *)
(* identity of their own, as two of them can stand for one inode, and a    *)
(* deleted one can still be pointed to.  A handler that uses a deleted     *)
(* node, or a null pointer, has undefined behaviour: `broken' names it and *)
(* the behaviour ends.  It also ends where the directories are made into   *)
(* something else than a tree.                                             *)
(***************************************************************************)
EXTENDS Integers, Sequences, FiniteSets, SequencesExt

CONSTANTS
    Sessions,   \* the handlers, each with at most one WorkingDir
    Names,      \* names other than "." and ".."
    Home,       \* the name of the directory that format_ makes
    MaxInode,   \* bound on the inodes: 1 .. MaxInode
    MaxNode,    \* bound on the nodes that exist or are pointed to
    MaxPath,    \* bound on the components of a path
    Alone,      \* operations that run while no other handler does
    None        \* no handler

Root == 1                       \* ROOT_INODE
Inodes == 1 .. MaxInode
Nodes == 1 .. MaxNode           \* 0 is the null pointer

ASSUME BoundAssumption ==
    /\ MaxInode \in Nat /\ MaxInode > 1 /\ MaxNode \in Nat /\ MaxNode > 1
    /\ MaxPath \in Nat /\ Home \in Names /\ IsFiniteSet(Sessions)

ASSUME NameAssumption == Names \cap {".", ".."} = {}

\* Operations on a path, and on a name in the working directory.  "mk" is
\* create_file and create_dir, "chmod" also chown; "read" and "write" stand
\* for the requests that acquire a file, work on it and release it.
Lasts == {"rm", "rmdir"}                       \* need_last
PathOps == {"mk", "cd", "read", "write"} \cup Lasts
DirectOps == {"ls", "chmod", "rename"}
Ops == PathOps \cup DirectOps \cup {"login", "logout", "format"}
Writes(op) == op \in {"mk", "rm", "rmdir", "write", "rename"}
Opens(op) == op \in {"read", "write"}

VARIABLES
    tree,        \* what each inode is, and the entries of a directory
    node,        \* node_t: its inode, dir, rwcnt and refcnt
    table,       \* nodes_
    formatted,   \* the root has the reference that format_ gives it
    wd,          \* WorkingDir::node_ of each session, 0 without one
    hd,          \* the request each handler works on
    broken,      \* the handler with which the behaviour ends
    ousted       \* history: the sessions whose reference to the root a format
                 \* took for the one that format_ gives it

vars == <<tree, node, table, formatted, wd, hd, broken, ousted>>

-----------------------------------------------------------------------------
NoEntries == [n \in Names |-> 0]
Unused == [kind |-> "free", up |-> 0, dots |-> FALSE, at |-> NoEntries]
Made(k, d) == [kind |-> k, up |-> d, dots |-> TRUE, at |-> NoEntries]

\* Directory::lookup, with 0 for a name that is not there.  A directory made
\* on a full disk has neither "." nor "..", as both are saved or none.
Entry(d, name) == IF name \in {".", ".."} /\ ~tree[d].dots THEN 0
                  ELSE IF name = "." THEN d
                  ELSE IF name = ".." THEN tree[d].up
                  ELSE tree[d].at[name]
Children(d) == {tree[d].at[n] : n \in Names} \ {0}

\* node_t: dir is null for a file, whatever becomes of the inode later.
Dead == [inode |-> 0, dir |-> FALSE, rw |-> 0, ref |-> 0]
NodeOf(i, d, r) == [inode |-> i, dir |-> d, rw |-> 0, ref |-> r]
Alive(n) == n # 0 /\ node[n].inode # 0

Idle == [pc |-> "idle", op |-> "none", rest |-> << >>, node |-> 0, new |-> 0,
         want |-> 0, then |-> "none", todo |-> << >>, got |-> << >>,
         ok |-> FALSE, stayed |-> FALSE]
IsIdle(s) == hd[s].pc = "idle"

\* A handler goes on; what load_node_ gave it is used in its next step only.
On(s) == [hd[s] EXCEPT !.new = 0, !.want = 0, !.then = "none"]
Load(h, i, then) == [h EXCEPT !.pc = "load", !.want = i, !.then = then]
Goto(s, h) == hd' = [hd EXCEPT ![s] = h]
Step(s, pc) == Goto(s, [On(s) EXCEPT !.pc = pc])
Done(s) == hd' = [hd EXCEPT ![s] = Idle]
At(s, pc) == broken = None /\ hd[s].pc = pc

\* The node the handler is at, and its inode.
Here(s) == hd[s].node
Dir(s) == node[Here(s)].inode
Name(s) == Head(hd[s].rest)

\* release_node_ of node n, in nodes ns: an unreferenced node is erased from
\* the table and deleted.
ReleaseLeaks(ns, n) ==    \* mutant: erased, but not deleted
    /\ node' = ns
    /\ table' = IF ns[n].ref <= 0 THEN [table EXCEPT ![ns[n].inode] = 0] ELSE table
ReleaseAlways(ns, n) ==   \* mutant: the test of refcnt left out
    /\ node' = [ns EXCEPT ![n] = Dead]
    /\ table' = [table EXCEPT ![ns[n].inode] = 0]

Release(ns, n) ==
    IF ns[n].ref <= 0
    THEN /\ node' = [ns EXCEPT ![n] = Dead]
         /\ table' = [table EXCEPT ![ns[n].inode] = 0]
    ELSE node' = ns /\ UNCHANGED table

\* try_lock and unlock, on the count.
LockableForAny(rw, write) == write => rw = 0   \* mutant: readers not kept out
Lockable(rw, write) == IF write THEN rw = 0 ELSE rw >= 0
Locked(rw, write) == IF write THEN -1 ELSE rw + 1
UnlockedBelow(rw) == rw - 1                    \* mutant: no test for a writer
UnlockedReader(rw) == IF rw > 0 THEN rw - 1 ELSE rw   \* mutant: the writer stays
Unlocked(rw) == IF rw > 0 THEN rw - 1 ELSE 0

-----------------------------------------------------------------------------
\* format_: the root with a reference, the home directory without.
FreshTree == [i \in Inodes |-> IF i = Root THEN [Made("dir", Root) EXCEPT !.at[Home] = 2]
                               ELSE IF i = 2 THEN Made("dir", Root) ELSE Unused]
FreshNodes(ns, r, h) == [ns EXCEPT ![r] = NodeOf(Root, TRUE, 1), ![h] = NodeOf(2, TRUE, 0)]
FreshTable(r, h) == [i \in Inodes |-> IF i = Root THEN r ELSE IF i = 2 THEN h ELSE 0]
NoNodes == [n \in Nodes |-> Dead]

\* FileSystem(disk, create): format_, or load_ of a disk formatted before,
\* which loads the root and gives it no reference.
Init ==
    /\ tree = FreshTree
    /\ formatted \in BOOLEAN
    /\ node = IF formatted THEN FreshNodes(NoNodes, 1, 2)
              ELSE [NoNodes EXCEPT ![1] = NodeOf(Root, TRUE, 0)]
    /\ table = IF formatted THEN FreshTable(1, 2) ELSE FreshTable(1, 0)
    /\ wd = [s \in Sessions |-> 0]
    /\ hd = [s \in Sessions |-> Idle]
    /\ broken = None
    /\ ousted = {}

-----------------------------------------------------------------------------
(* The requests.                                                            *)

\* A request begins; those in Alone wait until no other handler is at work.
MayBegin(s, op) ==
    /\ At(s, "idle")
    /\ \A t \in Sessions \ {s} : IsIdle(t) \/ {op, hd[t].op} \cap Alone = {}
    /\ UNCHANGED <<tree, formatted, broken, ousted>>

\* open_working_dir
Login(s) ==
    /\ MayBegin(s, "login") /\ wd[s] = 0
    /\ Goto(s, Load([Idle EXCEPT !.op = "login"], Root, "enter"))
    /\ UNCHANGED <<node, table, wd>>

\* close_working_dir; format does the same first, and goes on.
Leave(s) ==
    /\ Alive(wd[s])
    /\ Release([node EXCEPT ![wd[s]].ref = @ - 1], wd[s])
    /\ wd' = [wd EXCEPT ![s] = 0]

Logout(s) == MayBegin(s, "logout") /\ Leave(s) /\ Done(s)

Format(s) ==
    /\ MayBegin(s, "format") /\ Leave(s)
    /\ Goto(s, Load([Idle EXCEPT !.op = "format"], Root, "formatting"))

Paths == SeqOf(Names \cup {".", ".."}, MaxPath)

\* resolve_path_ begins at the root, loaded first, or at node_.
Follow(s, op) ==
    /\ MayBegin(s, op) /\ wd[s] # 0
    /\ \E path \in Paths : LET h == [Idle EXCEPT !.op = op, !.rest = path] IN
          \/ Goto(s, Load(h, Root, "start"))
          \/ path # << >> /\ Goto(s, [h EXCEPT !.pc = "lookup", !.node = wd[s]])
    /\ UNCHANGED <<node, table, wd>>

\* list_dir, chmod, chown and rename take the working directory as it is.
Direct(s, op) ==
    /\ MayBegin(s, op) /\ wd[s] # 0
    /\ Goto(s, [Idle EXCEPT !.op = op, !.pc = "lock", !.node = wd[s]])
    /\ UNCHANGED <<node, table, wd>>

-----------------------------------------------------------------------------
(* load_node_, and where its result is used.                                *)

\* The table is searched without the lock.
Find(s) ==
    /\ At(s, "load")
    /\ IF table[hd[s].want] # 0
       THEN Goto(s, [On(s) EXCEPT !.pc = hd[s].then, !.new = table[hd[s].want]])
       ELSE Goto(s, [hd[s] EXCEPT !.pc = "make"])
    /\ UNCHANGED <<tree, node, table, formatted, wd, broken, ousted>>

\* The nodes in no use in ns, and not pointed to but by the handlers in ss.
PointedTo(ss) == UNION {{wd[s]} \cup
    (IF s \in ss THEN {} ELSE {Here(s), hd[s].new} \cup Range(hd[s].got)) : s \in Sessions}
Unallocated(ns, ss) == {n \in Nodes \ PointedTo(ss) : ns[n] = Dead}

\* A new node is entered, over whatever the table has by then.
Insert(s) ==
    LET free == Unallocated(node, {})
        n == Min(free)
    IN  /\ At(s, "make")
        /\ tree[hd[s].want].kind # "free" /\ free # {}
        /\ node' = [node EXCEPT ![n] = NodeOf(hd[s].want, tree[hd[s].want].kind = "dir", 0)]
        /\ table' = [table EXCEPT ![hd[s].want] = n]
        /\ Goto(s, [On(s) EXCEPT !.pc = hd[s].then, !.new = n])
        /\ UNCHANGED <<tree, formatted, wd, broken, ousted>>

\* The file cannot be opened (load_entries_), as close could not save it, and
\* load_node_ returns null: what the callers that look at it do.  A walk has
\* not taken the node; get_full_path_ keeps the one it is at.
Unloadable(s) ==
    /\ At(s, "make") /\ tree[hd[s].want].kind # "free"
    /\ \/ hd[s].then \in {"check", "permit"} /\ Step(s, "unlock")
       \/ hd[s].then = "climbed" /\ Done(s)
       \/ hd[s].then = "walk" /\ Goto(s, [On(s) EXCEPT !.pc = "giveup", !.todo = << >>])
    /\ UNCHANGED <<tree, node, table, formatted, wd, broken, ousted>>

\* open_working_dir, when the root is loaded; also at the end of a format.
Enter(s) ==
    /\ At(s, "enter") /\ Alive(hd[s].new)
    /\ node' = [node EXCEPT ![hd[s].new].ref = @ + 1]
    /\ wd' = [wd EXCEPT ![s] = hd[s].new]
    /\ Done(s)
    /\ UNCHANGED <<tree, table, formatted, broken, ousted>>

Start(s) ==
    /\ At(s, "start")
    /\ Goto(s, [On(s) EXCEPT !.pc = "lookup", !.node = hd[s].new])
    /\ UNCHANGED <<tree, node, table, formatted, wd, broken, ousted>>

-----------------------------------------------------------------------------
(* resolve_path_.  It ends at "lock" with the rest of the path, no          *)
(* component or the last one, or with an error at "unlock" (CHKRET).        *)

Lookup(s) ==
    /\ At(s, "lookup") /\ Alive(Here(s))
    /\ \/ hd[s].rest = << >> /\ Step(s, "lock")
       \/ /\ hd[s].rest # << >> /\ node[Here(s)].dir
          /\ LET i == Entry(Dir(s), Name(s)) IN
             IF i # 0 THEN Goto(s, Load(On(s), i, "check"))
             ELSE Step(s, IF Len(hd[s].rest) = 1 THEN "lock" ELSE "unlock")
    /\ UNCHANGED <<tree, node, table, formatted, wd, broken, ousted>>

\* The permissions, which may forbid anything; then a step down.
Check(s) ==
    LET new == hd[s].new
        h == [On(s) EXCEPT !.stayed = @ \/ new = Here(s)]
    IN  /\ At(s, "check") /\ Alive(new) /\ Alive(Here(s))
        /\ \/ /\ Release(node, new)
              /\ Goto(s, [h EXCEPT !.pc = "unlock"])
           \/ IF hd[s].op \in Lasts /\ Len(hd[s].rest) = 1
              THEN /\ Release(node, new)
                   /\ Goto(s, [h EXCEPT !.pc = "lock"])
              ELSE /\ Release(node, Here(s))
                   /\ Goto(s, [h EXCEPT !.pc = "lookup", !.node = new, !.rest = Tail(@)])
        /\ UNCHANGED <<tree, formatted, wd, broken, ousted>>

-----------------------------------------------------------------------------
(* TRYLOCK, the work, UNLOCK.                                               *)

\* What is required of the resolved path before TRYLOCK.
Suits(s) ==
    /\ hd[s].op \in {"mk", "rm", "rmdir"} => hd[s].rest # << >>
    /\ hd[s].op = "cd" => hd[s].rest = << >> /\ node[Here(s)].dir
    /\ Opens(hd[s].op) => hd[s].rest = << >>

\* acquire_file takes its reference right after the lock.
TryLock(s) ==
    LET n == Here(s)
        write == Writes(hd[s].op)
    IN  /\ At(s, "lock") /\ Alive(n)
        /\ IF ~Suits(s)
           THEN Step(s, "unlock") /\ UNCHANGED node
           ELSE IF Lockable(node[n].rw, write)
           THEN /\ node' = [node EXCEPT ![n].rw = Locked(@, write),
                                        ![n].ref = IF Opens(hd[s].op) THEN @ + 1 ELSE @]
                /\ Goto(s, [On(s) EXCEPT !.pc = "work", !.ok = TRUE])
           ELSE Step(s, "release") /\ UNCHANGED node
        /\ UNCHANGED <<tree, table, formatted, wd, broken, ousted>>

Working(s, ops) ==
    /\ At(s, "work") /\ hd[s].op \in ops /\ Alive(Here(s))
    /\ UNCHANGED <<formatted, broken, ousted>>

\* create_file, create_dir: a new inode for a name that lookup does not find.
\* On a full disk the destructor of Directory saves no entry of the new one.
MakeEntry(s) ==
    /\ Name(s) \in Names /\ Entry(Dir(s), Name(s)) = 0
    /\ \E i \in Inodes, k \in {"file", "dir"}, saved \in BOOLEAN :
          /\ tree[i].kind = "free" /\ (k = "file" => saved)
          /\ tree' = [tree EXCEPT ![i] = [Made(k, Dir(s)) EXCEPT !.dots = saved],
                                  ![Dir(s)].at[Name(s)] = i]

\* remove: the entry and the inode of a file, whoever else has it open.
RemoveFile(s) ==
    LET i == Entry(Dir(s), Name(s)) IN
    /\ i # 0 /\ tree[i].kind = "file"
    /\ tree' = [tree EXCEPT ![i] = Unused, ![Dir(s)].at[Name(s)] = 0]

\* rename, of and to a name that makes an entry.
Rename(s) == \E old, new \in Names :
    LET at == tree[Dir(s)].at IN
    /\ at[old] # 0 /\ at[new] = 0
    /\ tree' = [tree EXCEPT ![Dir(s)].at = [at EXCEPT ![new] = at[old], ![old] = 0]]

\* The operations that only work in the locked node; any of them may find
\* that it may not, or fail for want of space.
Work(s) ==
    /\ Working(s, Ops \ {"cd", "rmdir"})
    /\ \/ UNCHANGED tree
       \/ hd[s].op = "mk" /\ MakeEntry(s)
       \/ hd[s].op = "rm" /\ RemoveFile(s)
       \/ hd[s].op = "rename" /\ Rename(s)
    /\ Step(s, "unlock")
    /\ UNCHANGED <<node, table, wd>>

\* change_working_dir_: the old node is unlocked, although change_dir locked
\* the new one, which it unlocks itself when this returns.
ChangeKeepsOld(s) ==   \* mutant: the old node keeps its reference
    /\ Working(s, {"cd"})
    /\ node' = [node EXCEPT ![Here(s)].ref = IF wd[s] = Here(s) THEN @ ELSE @ + 1]
    /\ wd' = [wd EXCEPT ![s] = Here(s)]
    /\ Step(s, "unlock")
    /\ UNCHANGED <<tree, table>>

Change(s) ==
    LET old == wd[s] IN
    /\ Working(s, {"cd"}) /\ Alive(old)
    /\ IF old = Here(s) THEN UNCHANGED <<node, table>>
       ELSE Release([node EXCEPT ![old].ref = @ - 1, ![old].rw = Unlocked(@),
                                 ![Here(s)].ref = @ + 1], old)
    /\ wd' = [wd EXCEPT ![s] = Here(s)]
    /\ Step(s, "unlock")
    /\ UNCHANGED tree

\* remove_dir: remove_ loads the node of the name, which must be there.
RemoveDir(s) ==
    /\ Working(s, {"rmdir"})
    /\ Entry(Dir(s), Name(s)) # 0
    /\ Goto(s, Load(On(s), Entry(Dir(s), Name(s)), "permit"))
    /\ UNCHANGED <<tree, node, table, wd>>

\* UNLOCK, whether the node was locked or not; release_file gives the
\* reference back first.
Unlock(s) ==
    LET n == Here(s) IN
    /\ At(s, "unlock") /\ Alive(n)
    /\ node' = [node EXCEPT ![n].rw = Unlocked(@),
                            ![n].ref = IF Opens(hd[s].op) /\ hd[s].ok THEN @ - 1 ELSE @]
    /\ Step(s, "release")
    /\ UNCHANGED <<tree, table, formatted, wd, broken, ousted>>

\* The request ends; after a successful "cd" the server asks for the path.
Finish(s) ==
    /\ At(s, "release") /\ Alive(Here(s))
    /\ Release(node, Here(s))
    /\ IF hd[s].op = "cd" /\ hd[s].ok
       THEN Goto(s, [On(s) EXCEPT !.pc = "climb", !.node = wd[s]])
       ELSE Done(s)
    /\ UNCHANGED <<tree, formatted, wd, broken, ousted>>

-----------------------------------------------------------------------------
(* get_full_path_                                                           *)

Climb(s) ==
    /\ At(s, "climb") /\ Alive(Here(s))
    /\ \/ Dir(s) = Root /\ Done(s)
       \/ /\ Dir(s) # Root /\ Entry(Dir(s), "..") # 0
          /\ Goto(s, Load(On(s), Entry(Dir(s), ".."), "climbed"))
    /\ UNCHANGED <<tree, node, table, formatted, wd, broken, ousted>>

\* lookup(inode) in the parent may also find the name in a deleted slot.
Climbed(s) ==
    LET new == hd[s].new IN
    /\ At(s, "climbed") /\ Alive(new) /\ Alive(Here(s))
    /\ Release(node, Here(s))
    /\ Goto(s, [On(s) EXCEPT !.pc = "climb", !.node = new])
    /\ UNCHANGED <<tree, formatted, wd, broken, ousted>>

-----------------------------------------------------------------------------
(* remove_ and format: a node is locked with all below it, or none.         *)

\* The permission on the directory to remove.
Permit(s) ==
    /\ At(s, "permit") /\ Alive(hd[s].new)
    /\ \/ Release(node, hd[s].new) /\ Step(s, "unlock")
       \/ Goto(s, [hd[s] EXCEPT !.pc = "walk"]) /\ UNCHANGED <<node, table>>
    /\ UNCHANGED <<tree, formatted, wd, broken, ousted>>

\* The head of format: refused while the root has a reference beside the one
\* of format_.  A root that was loaded has none of its own: there it is the
\* one session in the root whose reference format takes.
Formatting(s) ==
    LET root == hd[s].new IN
    /\ At(s, "formatting") /\ Alive(root)
    /\ IF node[root].ref > 1
       THEN Goto(s, Load(On(s), Root, "enter")) /\ UNCHANGED <<node, ousted>>
       ELSE /\ node' = [node EXCEPT ![root].ref = 0]
            /\ ousted' = ousted \cup {t \in Sessions : ~formatted /\ wd[t] = root}
            /\ Goto(s, [hd[s] EXCEPT !.pc = "walk", !.node = root])
    /\ UNCHANGED <<tree, table, formatted, wd, broken>>

\* A node of the tree that walk_and_acquire_ may not have.
RefusedIfLocked(nd) == nd.rw # 0     \* mutant: the references are not looked at
Refused(nd) == nd.rw # 0 \/ nd.ref > 0

\* walk_and_acquire_, one node; those below it are visited next, in the order
\* of the directory's slots, whatever it is.
Below(n) == IF node[n].dir THEN Children(node[n].inode) ELSE {}

Walk(s) ==
    LET n == hd[s].new
        h == [On(s) EXCEPT !.got = Append(@, n)]
    IN  /\ At(s, "walk") /\ Alive(n)
        /\ node' = [node EXCEPT ![n].rw = IF @ = 0 THEN -1 ELSE @]
        /\ IF Refused(node[n]) THEN Goto(s, [h EXCEPT !.pc = "giveup", !.todo = << >>])
           ELSE \E below \in SetToSeqs(Below(n)) : LET todo == below \o hd[s].todo IN
                IF todo = << >> THEN Goto(s, [h EXCEPT !.pc = "sweep"])
                ELSE Goto(s, Load([h EXCEPT !.todo = Tail(todo)], Head(todo), "walk"))
        /\ UNCHANGED <<tree, table, formatted, wd, broken, ousted>>

\* "release all nodes": each is unlocked, the last one too, whose lock may
\* have been refused.
GiveUp(s) ==
    LET n == Head(hd[s].got) IN
    /\ At(s, "giveup") /\ hd[s].got # << >> /\ Alive(n)
    /\ Release([node EXCEPT ![n].rw = Unlocked(@)], n)
    /\ Goto(s, [On(s) EXCEPT !.got = Tail(@)])
    /\ UNCHANGED <<tree, formatted, wd, broken, ousted>>

\* A refused format gives the root the reference back that it took.
GaveUp(s) ==
    /\ At(s, "giveup") /\ hd[s].got = << >>
    /\ IF hd[s].op = "rmdir" THEN Step(s, "unlock") /\ UNCHANGED node
       ELSE /\ Alive(Here(s))
            /\ node' = [node EXCEPT ![Here(s)].ref = 1]
            /\ Goto(s, Load(On(s), Root, "enter"))
    /\ UNCHANGED <<tree, table, formatted, wd, broken, ousted>>

\* remove_: the nodes and their inodes go.
SweepKeepsNode(s) ==   \* mutant: the node stays in the table
    LET n == Head(hd[s].got) IN
    /\ At(s, "sweep") /\ hd[s].op = "rmdir" /\ hd[s].got # << >> /\ Alive(n)
    /\ node' = [node EXCEPT ![n].rw = 0]
    /\ tree' = [tree EXCEPT ![node[n].inode] = Unused]
    /\ Goto(s, [On(s) EXCEPT !.got = Tail(@)])
    /\ UNCHANGED <<table, formatted, wd, broken, ousted>>

Sweep(s) ==
    LET n == Head(hd[s].got) IN
    /\ At(s, "sweep") /\ hd[s].op = "rmdir" /\ hd[s].got # << >> /\ Alive(n)
    /\ node' = [node EXCEPT ![n] = Dead]
    /\ table' = [table EXCEPT ![node[n].inode] = 0]
    /\ tree' = [tree EXCEPT ![node[n].inode] = Unused]
    /\ Goto(s, [On(s) EXCEPT !.got = Tail(@)])
    /\ UNCHANGED <<formatted, wd, broken, ousted>>

\* Then the entry in the parent.
Swept(s) ==
    /\ At(s, "sweep") /\ hd[s].op = "rmdir" /\ hd[s].got = << >> /\ Alive(Here(s))
    /\ tree' = IF Name(s) \in Names THEN [tree EXCEPT ![Dir(s)].at[Name(s)] = 0] ELSE tree
    /\ Step(s, "unlock")
    /\ UNCHANGED <<node, table, formatted, wd, broken, ousted>>

\* format_: close_ deletes every node of the table.
Formatted(s) ==
    LET left == [n \in Nodes |-> IF \E i \in Inodes : table[i] = n THEN Dead ELSE node[n]]
        free == Unallocated(left, {s})
        root == Min(free)
        home == Min(free \ {root})
    IN  /\ At(s, "sweep") /\ hd[s].op = "format" /\ Cardinality(free) > 1
        /\ tree' = FreshTree /\ formatted' = TRUE
        /\ node' = FreshNodes(left, root, home) /\ table' = FreshTable(root, home)
        /\ Goto(s, Load([On(s) EXCEPT !.node = 0, !.got = << >>], Root, "enter"))
        /\ UNCHANGED <<wd, broken, ousted>>

-----------------------------------------------------------------------------
(* Where the program's behaviour ends.                                      *)

\* The nodes that the next step of a handler dereferences.
Uses(s) ==
    LET pc == hd[s].pc IN
    CASE pc = "idle" -> {wd[s]} \ {0}
      [] pc \in {"lookup", "lock", "unlock", "release", "climb"} -> {Here(s)}
      [] pc = "work" -> {Here(s)} \cup (IF hd[s].op = "cd" THEN {wd[s]} ELSE {})
      [] pc \in {"check", "climbed"} -> {Here(s), hd[s].new}
      [] pc \in {"enter", "permit", "formatting", "walk"} -> {hd[s].new}
      [] pc \in {"giveup", "sweep"} -> {IF hd[s].got = << >> THEN Here(s) ELSE Head(hd[s].got)}
      [] OTHER -> {}

\* The callers of load_node_ that do not look whether it returned null.
Unchecked == {"enter", "start", "formatting"}

\* A dead node; a name looked up in a file; rmdir of a name, or a step up to a
\* "..", that is not there, whose inode 0 is opened; a node made of a block that
\* is no inode; a root that cannot be opened; no name for an inode.
Undefined(s) ==
    \/ \E n \in Uses(s) : ~Alive(n)
    \/ hd[s].pc = "lookup" /\ hd[s].rest # << >> /\ ~node[Here(s)].dir
    \/ hd[s].pc = "work" /\ hd[s].op = "rmdir" /\ Entry(Dir(s), Name(s)) = 0
    \/ hd[s].pc = "climb" /\ Dir(s) # Root /\ Entry(Dir(s), "..") = 0
    \/ hd[s].pc = "make" /\ (tree[hd[s].want].kind = "free" \/ hd[s].then \in Unchecked)
    \/ hd[s].pc = "climbed" /\ Dir(s) \notin Children(node[hd[s].new].inode)

\* What is no tree any more: after a rename of "." or "..", or one to a name
\* that add_entry does not keep, and after an entry "." or ".." is created in a
\* directory without them.
Tangles(s) ==
    /\ hd[s].pc = "work"
    /\ \/ hd[s].op = "rename"
       \/ hd[s].op = "mk" /\ Name(s) \in {".", ".."} /\ Entry(Dir(s), Name(s)) = 0

Break(s) ==
    /\ broken = None /\ (Undefined(s) \/ Tangles(s))
    /\ broken' = s
    /\ UNCHANGED <<tree, node, table, formatted, wd, hd, ousted>>

Request(s) ==
    /\ At(s, "idle")
    /\ \/ Login(s) \/ Logout(s) \/ Format(s)
       \/ \E op \in PathOps : Follow(s, op)
       \/ \E op \in DirectOps : Direct(s, op)

Handle(s) ==
    \/ Find(s) \/ Insert(s) \/ Unloadable(s) \/ Enter(s) \/ Start(s) \/ Lookup(s) \/ Check(s)
    \/ TryLock(s) \/ Work(s) \/ Change(s) \/ RemoveDir(s) \/ Unlock(s) \/ Finish(s)
    \/ Climb(s) \/ Climbed(s) \/ Permit(s) \/ Formatting(s) \/ Walk(s)
    \/ GiveUp(s) \/ GaveUp(s) \/ Sweep(s) \/ Swept(s) \/ Formatted(s) \/ Break(s)

Next == \E s \in Sessions : Request(s) \/ Handle(s)

Spec == Init /\ [][Next]_vars

-----------------------------------------------------------------------------
\* The types of the state.
TypeOK ==
    /\ tree \in [Inodes -> [kind : {"free", "file", "dir"}, up : 0 .. MaxInode,
                            dots : BOOLEAN, at : [Names -> 0 .. MaxInode]]]
    /\ node \in [Nodes -> [inode : 0 .. MaxInode, dir : BOOLEAN, rw : -1 .. Cardinality(Sessions),
                       ref : 0 .. 2 * Cardinality(Sessions) + 1]]
    /\ table \in [Inodes -> 0 .. MaxNode]
    /\ formatted \in BOOLEAN
    /\ wd \in [Sessions -> 0 .. MaxNode]
    /\ broken \in Sessions \cup {None}
    /\ ousted \in SUBSET Sessions

\* What the program does is defined; and no request is at work.
Defined == broken = None
Quiet == Defined /\ \A s \in Sessions : IsIdle(s)
InWork(s) == hd[s].pc = "work" /\ hd[s].op \in PathOps \cup DirectOps

\* No two handlers work in one inode when one of them changes it
\* (filesystem.h:19: rwcnt is positive for readers, negative for a writer).
Exclusion ==
    Defined => \A s, t \in Sessions :
        (s # t /\ InWork(s) /\ InWork(t) /\ Dir(s) = Dir(t))
        => ~Writes(hd[s].op) /\ ~Writes(hd[t].op)

\* When no request is at work no node is locked.
LocksGivenBack == Quiet => \A n \in Nodes : Alive(n) => node[n].rw = 0

\* When no request is at work the reference count of a node is the number
\* of sessions whose directory it is, and one for a root that was formatted.
RefcntExact ==
    Quiet => \A n \in Nodes : Alive(n) =>
        node[n].ref = Cardinality({s \in Sessions : wd[s] = n})
                      + (IF formatted /\ node[n].inode = Root THEN 1 ELSE 0)

\* The table has every node, and one for an inode.
OneNode ==
    Defined => \A n \in Nodes : Alive(n) => table[node[n].inode] = n

\* A node stands for an inode that exists, and of its type.
NodesExist ==
    Quiet => \A n \in Nodes : Alive(n) =>
        tree[node[n].inode].kind = (IF node[n].dir THEN "dir" ELSE "file")

\* A session's directory is there as long as the session is, but for a session
\* in the root of a disk that was loaded, whose reference a format took.
SessionsKeepDirectory ==
    Quiet => \A s \in Sessions \ ousted : wd[s] # 0 =>
        Alive(wd[s]) /\ tree[node[wd[s]].inode].kind = "dir"

\* Requests that run alone end the behaviour in the known ways only: a path that
\* goes through a file, or names a directory again where it is ("."), rmdir of a
\* missing name or of "." or "..", a format that is refused below the root, what
\* a session does that a format ousted, cd to a directory that a full disk left
\* without "..", a root that cannot be opened, and what leaves no tree (Tangles).
KnownDefects ==
    ~Defined =>
        LET h == hd[broken] IN
        \/ h.stayed
        \/ h.pc = "lookup" /\ ~node[h.node].dir
        \/ h.op = "rmdir" /\ h.rest # << >> /\ (Name(broken) \in {".", ".."} \/ h.pc = "work")
        \/ h.op = "format" /\ h.pc = "giveup"
        \/ broken \in ousted
        \/ h.pc = "climb" /\ ~tree[node[h.node].inode].dots
        \/ h.pc = "make" /\ h.then \in Unchecked
        \/ Tangles(broken)
=============================================================================
