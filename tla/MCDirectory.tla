---------------------------- MODULE MCDirectory ----------------------------
(* Instances of Directory for TLC. *)
EXTENDS Directory, TLC

\* Names and inodes are interchangeable, except "." and "..".
NameSymmetry == Permutations(Names \ {Dot, DotDot}) \cup Permutations(Inodes)

\* Nothing looks at the name of a deleted entry unless for the inode of a file,
\* at the vector of a directory that is closed, or at the file of one that is
\* open, but for its length.
Known(es) == [i \in Slots(es) |->
    IF es[i].live \/ es[i].inode \in Inodes THEN es[i] ELSE "deleted"]
Looked == IF isOpen THEN <<Known(entries), Len(file), added>> ELSE <<Known(file)>>
=============================================================================
