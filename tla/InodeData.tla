----------------------------- MODULE InodeData -----------------------------
(***************************************************************************)
(* The bytes of one inode file of step2 (inodefile.h, inodefile.cc): its   *)
(* size and the content of its data blocks, changed by write, insert,      *)
(* remove, truncate and removeall on a disk that may fill up in the middle *)
(* of any of them, and kept over close and open.                           *)
(*                                                                         *)
(* A file is used by one handler at a time for writing, so an operation is *)
(* one action.  room is the number of blocks the block manager can still   *)
(* give; other files use the disk too, so it is chosen at each operation.  *)
(* The ids of the blocks, and the entry blocks that hold them, are left    *)
(* out: allocate always returns a zeroed block that nobody else has.       *)
(***************************************************************************)
EXTENDS Integers, Sequences

CONSTANTS
    Bytes,     \* byte values
    Zero,      \* the byte 0
    Strings,   \* the byte sequences that can be written
    D,         \* InodeDataSize: the bytes in a data block
    Direct,    \* INODE_DIRECT_BLOCK: the blocks listed in the inode itself
    Room,      \* bound on the free blocks of the disk
    MaxSize    \* bound on the size of the file

ASSUME BytesAssumption == Zero \in Bytes /\ Strings \subseteq Seq(Bytes)
ASSUME SizesAssumption ==
    D \in Nat \ {0} /\ Direct \in Nat /\ Room \in Nat /\ MaxSize \in Nat

VARIABLES
    isOpen,   \* an InodeFile has the file open
    size,     \* inode_->size
    blocks    \* the data blocks in the order of data_ids_ (or of the entries)

vars == <<isOpen, size, blocks>>

-----------------------------------------------------------------------------
Block == [0 .. D - 1 -> Bytes]
ZeroBlock == [j \in 0 .. D - 1 |-> Zero]

Smaller(m, n) == IF m < n THEN m ELSE n
Larger(m, n) == IF m < n THEN n ELSE m

\* The number of blocks that n bytes take.
BlocksFor(n) == (n + D - 1) \div D

\* The n bytes that a loop over the blocks of bs copies from position p on.
Copied(bs, p, n) ==
    [k \in 1 .. n |-> bs[(p + k - 1) \div D + 1][(p + k - 1) % D]]

\* read, readall
ReadAll == Copied(blocks, 0, size)

\* load_data_(i, true) for i up to n - 1.
Extended(n) == [i \in 1 .. n |-> IF i <= Len(blocks) THEN blocks[i] ELSE ZeroBlock]

\* The blocks TempData::write fills with the bytes s.
Packed(s) ==
    [i \in 1 .. BlocksFor(Len(s)) |->
        [j \in 0 .. D - 1 |->
            LET k == (i - 1) * D + j + 1
            IN  IF k <= Len(s) THEN s[k] ELSE Zero]]

\* The bytes of s put at position p of the blocks of bs.
Patched(bs, p, s) ==
    [i \in 1 .. Len(bs) |->
        [j \in 0 .. D - 1 |->
            LET k == (i - 1) * D + j + 1 - p
            IN  IF 1 <= k /\ k <= Len(s) THEN s[k] ELSE bs[i][j]]]

-----------------------------------------------------------------------------
\* create
Init ==
    /\ isOpen = TRUE
    /\ size = 0
    /\ blocks = << >>

\* The blocks a write of s at p touches or allocates, and those it gets.
Wanted(p, s) ==
    IF s = << >> THEN Len(blocks) ELSE Larger(Len(blocks), BlocksFor(p + Len(s)))
Obtained(n, room) == Smaller(n, Len(blocks) + room)

WriteShortGrows(offset, s, room) ==   \* mutant: the size grows in any case
    /\ isOpen
    /\ offset <= size
    /\ offset + Len(s) <= MaxSize
    /\ blocks' = Patched(Extended(Obtained(Wanted(offset, s), room)), offset, s)
    /\ size' = Larger(size, offset + Len(s))
    /\ UNCHANGED isOpen

\* write: the size grows only if everything was written.
Write(offset, s, room) ==
    /\ isOpen
    /\ offset <= size
    /\ offset + Len(s) <= MaxSize
    /\ LET want == Wanted(offset, s)
           got == Obtained(want, room)
       IN  /\ blocks' = Patched(Extended(got), offset, s)
           /\ size' = IF got = want THEN Larger(size, offset + Len(s)) ELSE size
    /\ UNCHANGED isOpen

\* TempData::move_to, or the early return when a block is missing: the
\* blocks of base from index on are replaced by those packed from temp.
Moved(base, index, temp, room, newSize) ==
    IF BlocksFor(Len(temp)) <= room
    THEN /\ blocks' = SubSeq(base, 1, index) \o Packed(temp)
         /\ size' = newSize
    ELSE blocks' = base /\ UNCHANGED size

\* What insert packs for the blocks of base from that at offset on.  The
\* rest of the file is read from this one block, again and again: i stays
\* at index.
Inserted(base, offset, s) ==
    LET index == offset \div D
        head == Copied(base, index * D, offset % D)
        rest == [k \in 1 .. size - offset |-> base[index + 1][(offset + k - 1) % D]]
    IN  head \o s \o rest

\* insert: the block at offset is allocated if there is none yet.
Insert(offset, s, room) ==
    /\ isOpen
    /\ offset <= size
    /\ size + Len(s) <= MaxSize
    /\ LET index == offset \div D
           base == Extended(Obtained(Larger(Len(blocks), index + 1), room))
       IN  Moved(base, index, Inserted(base, offset, s),
                 room - (Len(base) - Len(blocks)), size + Len(s))
    /\ UNCHANGED isOpen

\* The loop of remove that skips n bytes from block i, position o on: the
\* block and the position where the rest of the file starts.
SkippedWholeBlocks(index, oib, n) ==   \* mutant: the first block counted whole
    LET skip[p \in (0 .. Len(blocks)) \X (0 .. D - 1) \X (-D .. MaxSize)] ==
            LET i == p[1]  o == p[2]  d == p[3]
            IN  IF o + d < D THEN <<i, o + d>>
                ELSE IF i + 1 < Len(blocks) THEN skip[<<i + 1, 0, d - D>>]
                ELSE <<i + 1, 0>>
    IN  skip[<<index, oib, n>>]

Skipped(index, oib, n) ==
    LET skip[p \in (0 .. Len(blocks)) \X (0 .. D - 1) \X (0 .. MaxSize)] ==
            LET i == p[1]  o == p[2]  d == p[3]
            IN  IF o + d < D THEN <<i, o + d>>
                ELSE IF i + 1 < Len(blocks) THEN skip[<<i + 1, 0, d - (D - o)>>]
                ELSE <<i + 1, 0>>
    IN  skip[<<index, oib, n>>]

\* remove, of the length bytes at offset.
Cut(offset, length, room) ==
    /\ isOpen
    /\ offset < size
    /\ LET index == offset \div D
           from == Skipped(index, offset % D, length)
           head == Copied(blocks, index * D, offset % D)
           rest == Copied(blocks, from[1] * D + from[2], size - offset - length)
       IN  Moved(blocks, index, head \o rest, room, size - length)
    /\ UNCHANGED isOpen

RemoveUnclamped(offset, n, room) == Cut(offset, n, room)   \* mutant: no min
Remove(offset, n, room) == Cut(offset, Smaller(n, size - offset), room)

\* removeall
RemoveAll ==
    /\ isOpen
    /\ size' = 0
    /\ blocks' = << >>
    /\ UNCHANGED isOpen

\* truncate, to a size not below the present one: blocks are added, and
\* stay when they are too few.
Grow(n, room) ==
    /\ isOpen
    /\ size <= n
    /\ LET want == Larger(Len(blocks), BlocksFor(n))
           got == Obtained(want, room)
       IN  /\ blocks' = Extended(got)
           /\ size' = IF got = want THEN n ELSE size
    /\ UNCHANGED isOpen

\* truncate, to a smaller size.
Shrink(n) ==
    /\ isOpen
    /\ n < size
    /\ blocks' = SubSeq(blocks, 1, BlocksFor(n))
    /\ size' = n
    /\ UNCHANGED isOpen

\* close: when the entry blocks for the ids beyond the direct ones cannot all
\* be allocated, some of these ids are not saved.
Close(saved) ==
    /\ isOpen
    /\ Smaller(Direct, Len(blocks)) <= saved
    /\ isOpen' = FALSE
    /\ blocks' = SubSeq(blocks, 1, saved)
    /\ UNCHANGED size

\* open: as many ids are loaded as the size takes; it fails if there are less.
Loadable == BlocksFor(size) <= Len(blocks)
Open ==
    /\ ~isOpen
    /\ isOpen' = Loadable
    /\ blocks' = IF Loadable THEN SubSeq(blocks, 1, BlocksFor(size)) ELSE blocks
    /\ UNCHANGED size

Next ==
    \/ \E offset \in 0 .. MaxSize, s \in Strings, room \in 0 .. Room :
          Write(offset, s, room) \/ Insert(offset, s, room)
    \/ \E offset, n \in 0 .. MaxSize, room \in 0 .. Room : Remove(offset, n, room)
    \/ \E n \in 0 .. MaxSize, room \in 0 .. Room : Grow(n, room)
    \/ \E n \in 0 .. MaxSize : Shrink(n)
    \/ RemoveAll
    \/ \E saved \in 0 .. Len(blocks) : Close(saved)
    \/ Open

Spec == Init /\ [][Next]_vars

-----------------------------------------------------------------------------
TypeOK ==
    /\ isOpen \in BOOLEAN
    /\ size \in 0 .. MaxSize
    /\ blocks \in Seq(Block)

\* Whatever failed for lack of blocks before, an open file has a block for
\* each of its bytes: no read or remove in range meets a missing block (the
\* unchecked data->data of remove, the short return of read).
Backed == isOpen => Loadable

\* An inode file is a sequence of bytes: every operation has the effect that
\* File gives it, or none, and close and open keep the content unless
\* the entry blocks could not be saved.
Content == INSTANCE File WITH
    bytes <- IF Loadable THEN ReadAll ELSE << >>,
    usable <- Loadable
ImplementsFile == Content!FSpec

\* The client's help: "i <filename> <offset> <data>: insert".  The bytes
\* before offset in its block, s, and all the bytes from offset on.
InsertShifts ==
    isOpen => \A offset \in 0 .. size - 1, s \in Strings :
        Inserted(blocks, offset, s) =
            LET start == offset - (offset % D)
            IN  SubSeq(ReadAll, start + 1, offset) \o s \o SubSeq(ReadAll, offset + 1, size)
=============================================================================
