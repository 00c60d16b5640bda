--------------------------- MODULE MCBlockManager ---------------------------
(* The instance of BlockManager, with the history of BlockBuffers, for TLC. *)
EXTENDS BlockBuffers, TLC

ClientSymmetry == Permutations(Clients)

\* A bound: callers hold two references at a time, of one block or of two.
References == {<<c, b>> \in Clients \X Blocks : c \in holders[b]}
AtMostTwo == Cardinality(References) <= 2

\* What the disk has in a block that nobody owns or has freed is never looked
\* at before it is written again, nor, when a restart is impossible (~intact),
\* what it has under a dirty entry, or as the superblock.
OnDisk == [b \in Blocks |->
    IF b \in live \cup FreedSet /\ (intact \/ b \notin Dirty) THEN disk[b] ELSE "any"]
Looked == <<mgrVars, OnDisk, IF intact THEN diskSb ELSE NoSuper, callerVars, ownerVars, peak>>
=============================================================================
