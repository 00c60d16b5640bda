--------------------------- MODULE MCInodeBlocks ---------------------------
(* Instances of InodeBlocks for TLC. *)
EXTENDS InodeBlocks, FiniteSets, TLC

FileSymmetry == Permutations(Files)

\* The ids of blocks are only compared with each other and with 0, so states
\* that differ by a renaming of the blocks behave alike.  The view renames
\* each block to its first place in this listing of the state, which puts the
\* blocks of a file in front of the children of its entry blocks, and leaves
\* out the roots of an open file, which close() overwrites unread.
Heads(f) == IF ~Exists(f) THEN << >>
            ELSE <<inode[f].id>> \o inode[f].direct
                 \o (IF IsOpen(f) THEN file[f].ids \o file[f].entries
                                  ELSE inode[f].roots \o stored[f])
FileSeq == SetToSeq(Files)
RECURSIVE Named(_), Children(_)
Named(k) == IF k = 0 THEN << >> ELSE Named(k - 1) \o Heads(FileSeq[k])

\* The entry blocks of an open file are written before they are read again.
Stale == UNION {ToSet(file[f].entries) : f \in {g \in Files : IsOpen(g)}}
Known(b) == IF b = Null \/ b \in Stale THEN << >> ELSE children[b]
Children(list) == IF list = << >> THEN << >> ELSE Known(Head(list)) \o Children(Tail(list))

ByPlace ==
    LET heads == Named(Len(FileSeq))
        one == Children(heads)
        listing == heads \o one \o Children(one) \o Reverse(free)
        listed == ToSet(listing) \ {Null}
        place == [b \in Blocks \cup {Null} |->
                     IF b \notin listed THEN 0
                     ELSE CHOOSE k \in DOMAIN listing : listing[k] = b]
        Name(s) == [k \in DOMAIN s |-> place[s[k]]]
    IN  <<Name(free), Name(heads),
          {<<place[b], Name(Known(b)), refs[b]>> : b \in listed},
          {refs[b] : b \in Blocks \ listed},
          [f \in Files |-> IF ~Exists(f) THEN << >>
                           ELSE IF IsOpen(f)
                           THEN <<inode[f].need, Len(file[f].ids), Len(file[f].entries),
                                  {place[b] : b \in file[f].cached}>>
                           ELSE <<inode[f].need, Len(stored[f])>>],
          lost, leaky, dangling>>

\* Nothing is claimed of a state in which pointers may dangle.
NoneDangling == ~dangling

-----------------------------------------------------------------------------
(* The trees alone: one file, open with any number of data blocks, loaded   *)
(* from entry blocks for any other number, on a disk with any number of     *)
(* free blocks, is closed and opened again and again.                       *)

UpTo(n, m) == IF n < m THEN n ELSE m
Over(n, m) == IF n < m THEN 0 ELSE n - m
Quotient(n, m) == (n + m - 1) \div m

\* The number of entry blocks that n data blocks take.
EntriesFor(n) ==
    LET one == UpTo(Over(n, Direct), E)
        two == UpTo(Over(n, Direct + E), E * E)
        three == Over(n, Direct + E + E * E)
    IN  Quotient(one, E) + Quotient(two, E) + Quotient(two, E * E)
        + Quotient(three, E) + Quotient(three, E * E) + Quotient(three, E * E * E)

TreeInit ==
    \E f \in Files, n, old \in 0 .. MaxData :
        LET k == EntriesFor(old) IN
        \E room \in 0 .. N - 1 - n - k :
            /\ free = [j \in 1 .. room |-> 1 + n + k + j]
            /\ children = [b \in Blocks |-> IF b \in n + 2 .. n + 1 + k THEN <<1>> ELSE << >>]
            /\ inode = [g \in Files |->
                   IF g # f THEN NoInode
                   ELSE [id |-> 1, need |-> n, roots |-> <<Null, Null, Null>>,
                         direct |-> [j \in 1 .. Direct |-> Null]]]
            /\ file = [g \in Files |->
                   IF g # f THEN Closed
                   ELSE [ids |-> [j \in 1 .. n |-> 1 + j],
                         entries |-> [j \in 1 .. k |-> 1 + n + j], cached |-> {}]]
            /\ refs = [b \in Blocks |-> IF b = 1 THEN 1 ELSE 0]
            /\ stored = [g \in Files |-> << >>]
            /\ lost = {}
            /\ leaky = (room < N - 1 - n - k)
            /\ dangling = FALSE

TreeSpec == TreeInit /\ [][\E f \in Files : Close(f) \/ Open(f)]_vars
=============================================================================
