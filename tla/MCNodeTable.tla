---------------------------- MODULE MCNodeTable ----------------------------
\* Instances of NodeTable.
EXTENDS NodeTable

\* Every request runs alone but those on names in the session's directory,
\* ls, chmod, chown and rename.
AllButDirect == PathOps \cup {"login", "logout", "format"}

SessionSymmetry == Permutations(Sessions)

\* Once a request is to unlock and end, all that matters of it is whether it
\* opened a file or changes the directory; for rmdir, KnownDefects looks at
\* the name.  Where the behaviour is undefined it has ended.
Ending(h) ==
    IF h.pc \in {"unlock", "release"} /\ h.op \in PathOps \ {"rmdir"}
    THEN [h EXCEPT !.rest = << >>,
                   !.op = IF ~h.ok THEN "mk" ELSE IF Opens(h.op) THEN "read" ELSE h.op]
    ELSE h

\* Nodes are as good as the inodes they are in the table for, as long as each
\* is there (OneNode), and nothing distinguishes two deleted ones.
Place(n) == IF Alive(n) THEN node[n].inode ELSE IF n = 0 THEN 0 ELSE -1
Handled(h) == [h EXCEPT !.node = Place(@), !.new = Place(@),
                        !.got = [i \in DOMAIN @ |-> Place(@[i])]]
ByInode == <<tree, [i \in Inodes |-> IF table[i] = 0 THEN Dead ELSE node[table[i]]], formatted,
             [s \in Sessions |-> Place(wd[s])], [s \in Sessions |-> Handled(Ending(hd[s]))],
             ousted>>

Looked == IF ~Defined THEN <<KnownDefects>>
          ELSE IF OneNode THEN ByInode ELSE vars
=============================================================================
