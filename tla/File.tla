-------------------------------- MODULE File --------------------------------
(***************************************************************************)
(* What an inode file of step2 is to its users: a sequence of bytes that   *)
(* can be overwritten, extended, cut and shifted, and that is still there  *)
(* when the file is opened again.  InodeData implements it.                *)
(*                                                                         *)
(* The disk may be full: an operation may then have no effect, a write may *)
(* stop early, and a file that needed more blocks to be closed is lost.    *)
(***************************************************************************)
EXTENDS Naturals, Sequences

CONSTANTS
    Strings,   \* the byte sequences that can be written
    D,         \* InodeDataSize: the bytes in a data block
    MaxSize    \* bound on the size of the file

VARIABLES
    bytes,   \* the content
    usable   \* the file can be opened

fvars == <<bytes, usable>>

FInit == bytes = << >> /\ usable = TRUE

Longer(m, n) == IF m < n THEN n ELSE m

\* s over the first limit bytes of the content, from offset on.
Overwritten(offset, s, limit) ==
    [k \in 1 .. limit |->
        IF offset < k /\ k <= offset + Len(s) THEN s[k - offset] ELSE bytes[k]]

FWrite(offset, s) ==
    /\ offset <= Len(bytes)
    /\ bytes' = Overwritten(offset, s, Longer(Len(bytes), offset + Len(s)))
    /\ UNCHANGED usable

\* A write that ran out of blocks has changed what the file already had.
FWriteShort(offset, s) ==
    /\ offset <= Len(bytes)
    /\ offset + Len(s) > Len(bytes)
    /\ bytes' = Overwritten(offset, s, Len(bytes))
    /\ UNCHANGED usable

\* The rest of the content moves up.  That it stays the same is promised only
\* where it lies in one block of the file.
FInsert(offset, s) ==
    /\ offset <= Len(bytes)
    /\ Len(bytes') = Len(bytes) + Len(s)
    /\ SubSeq(bytes', 1, offset + Len(s)) = SubSeq(bytes, 1, offset) \o s
    /\ offset < Len(bytes) /\ (Len(bytes) - 1) \div D = offset \div D =>
          SubSeq(bytes', offset + Len(s) + 1, Len(bytes')) =
          SubSeq(bytes, offset + 1, Len(bytes))
    /\ UNCHANGED usable

FRemove(offset, n) ==
    /\ offset < Len(bytes)
    /\ bytes' = SubSeq(bytes, 1, offset) \o SubSeq(bytes, offset + n + 1, Len(bytes))
    /\ UNCHANGED usable

\* What the bytes added by a truncation are is not promised.
FTruncate(n) ==
    /\ Len(bytes') = n
    /\ \A k \in 1 .. n : k <= Len(bytes) => bytes'[k] = bytes[k]
    /\ UNCHANGED usable

FLose == usable' = FALSE /\ bytes' = << >>

FNext ==
    \/ \E offset \in 0 .. MaxSize, s \in Strings :
          FWrite(offset, s) \/ FWriteShort(offset, s) \/ FInsert(offset, s)
    \/ \E offset, n \in 0 .. MaxSize : FRemove(offset, n) \/ FTruncate(n)
    \/ FLose

FSpec == FInit /\ [][FNext]_fvars
=============================================================================
