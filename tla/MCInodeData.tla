---------------------------- MODULE MCInodeData ----------------------------
(* Instances of InodeData for TLC. *)
EXTENDS InodeData, TLC

\* Every sequence of at most two bytes.
ShortStrings == {<< >>} \cup {<<x>> : x \in Bytes} \cup {<<x, y>> : x, y \in Bytes}

ByteSymmetry == Permutations(Bytes \ {Zero})
=============================================================================
