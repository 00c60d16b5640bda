-------------------------- MODULE InodeDataProofs --------------------------
(***************************************************************************)
(* For every block size, every disk and every set of strings: an open file *)
(* has a block for each of its bytes (Backed), every block holds D bytes   *)
(* (TypeOK), and the file is the sequence of bytes of File                 *)
(* (ImplementsFile).                                                       *)
(*                                                                         *)
(* Only the number of blocks and the size matter for Backed, so its        *)
(* inductive invariant says of blocks that it is a sequence and nothing    *)
(* about what the blocks hold.  The content is followed byte by byte: what *)
(* is at a position q of the file is in block q \div D, at q % D (ByteAt). *)
(***************************************************************************)
EXTENDS InodeData, SequenceTheorems, WellFoundedInduction, TLAPS

IsSeq(s) == \E X : s \in Seq(X)

IndInv ==
    /\ isOpen \in BOOLEAN
    /\ size \in 0 .. MaxSize
    /\ IsSeq(blocks)
    /\ Backed

-----------------------------------------------------------------------------
(* Arithmetic *)

\* n bytes fit in m blocks iff BlocksFor(n) is at most m.
LEMMA DivMod ==
    ASSUME NEW n \in Nat
    PROVE  /\ n \div D \in Nat
           /\ n % D \in 0 .. D - 1
           /\ n = (n \div D) * D + (n % D)
  <1> DEFINE q == n \div D
  <1>1. D \in Nat /\ D > 0  BY SizesAssumption
  <1>2. q \in Int  BY <1>1
  <1>3. n % D \in 0 .. D - 1 BY <1>1
  <1>4. n = D * (n \div D) + (n % D) BY <1>1, Z3
  <1> QED BY <1>1, <1>2, <1>3, <1>4

LEMMA Fits ==
    ASSUME NEW n \in Nat, NEW m \in Nat
    PROVE  /\ BlocksFor(n) \in Nat
           /\ BlocksFor(n) <= m <=> n <= m * D
  <1> DEFINE t == n + D - 1
  <1>1. D \in Nat /\ D > 0  BY SizesAssumption
  <1>2. t \in Nat  BY <1>1
  <1>3. /\ t \div D \in Nat
        /\ t % D \in 0 .. D - 1
        /\ t = (t \div D) * D + (t % D)
    BY <1>2, DivMod
  <1> QED BY <1>1, <1>2, <1>3 DEF BlocksFor

-----------------------------------------------------------------------------
(* Sequences of blocks *)

LEMMA FunctionIsSeq ==
    ASSUME NEW n \in Nat, NEW s, s = [i \in 1 .. n |-> s[i]]
    PROVE  IsSeq(s) /\ Len(s) = n
  <1> DEFINE X == {s[i] : i \in 1 .. n}
  <1>1. s \in [1 .. n -> X]  OBVIOUS
  <1>2. s \in Seq(X)  BY <1>1
  <1>3. DOMAIN s = 1 .. n  BY <1>1
  <1>4. Len(s) = n  BY <1>2, <1>3
  <1> QED BY <1>2, <1>4 DEF IsSeq

LEMMA EmptyIsSeq == IsSeq(<< >>) /\ Len(<< >>) = 0
BY DEF IsSeq

LEMMA LenIsNat == ASSUME NEW s, IsSeq(s) PROVE Len(s) \in Nat
BY DEF IsSeq

LEMMA PrefixIsSeq ==
    ASSUME NEW s, IsSeq(s), NEW m \in 0 .. Len(s)
    PROVE  IsSeq(SubSeq(s, 1, m)) /\ Len(SubSeq(s, 1, m)) = m
  <1>1. PICK X : s \in Seq(X)  BY DEF IsSeq
  <1>2. SubSeq(s, 1, m) \in Seq(X)  BY <1>1
  <1>3. Len(SubSeq(s, 1, m)) = m  BY <1>1
  <1> QED BY <1>2, <1>3 DEF IsSeq

LEMMA JoinIsSeq ==
    ASSUME NEW s, NEW t, IsSeq(s), IsSeq(t)
    PROVE  IsSeq(s \o t) /\ Len(s \o t) = Len(s) + Len(t)
  <1>1. PICK X : s \in Seq(X)  BY DEF IsSeq
  <1>2. PICK Y : t \in Seq(Y)  BY DEF IsSeq
  <1>3. s \in Seq(X \cup Y) /\ t \in Seq(X \cup Y)  BY <1>1, <1>2
  <1>4. s \o t \in Seq(X \cup Y)  BY <1>3
  <1>5. Len(s \o t) = Len(s) + Len(t)  BY <1>3
  <1> QED BY <1>4, <1>5 DEF IsSeq

LEMMA CopiedIsSeq ==
    ASSUME NEW bs, NEW p, NEW n \in Nat
    PROVE  IsSeq(Copied(bs, p, n)) /\ Len(Copied(bs, p, n)) = n
  <1> DEFINE c == Copied(bs, p, n)
  <1>1. c = [k \in 1 .. n |-> c[k]]  BY DEF Copied
  <1> QED BY <1>1, FunctionIsSeq

LEMMA ExtendedIsSeq ==
    ASSUME NEW n \in Nat
    PROVE  IsSeq(Extended(n)) /\ Len(Extended(n)) = n
  <1> DEFINE c == Extended(n)
  <1>1. c = [k \in 1 .. n |-> c[k]]  BY DEF Extended
  <1> QED BY <1>1, FunctionIsSeq

LEMMA PackedIsSeq ==
    ASSUME NEW s, IsSeq(s)
    PROVE  IsSeq(Packed(s)) /\ Len(Packed(s)) = BlocksFor(Len(s))
  <1> DEFINE c == Packed(s)  n == BlocksFor(Len(s))
  <1>1. n \in Nat  BY LenIsNat, Fits
  <1>2. c = [k \in 1 .. n |-> c[k]]  BY DEF Packed
  <1> HIDE DEF c, n
  <1>3. IsSeq(c) /\ Len(c) = n  BY <1>1, <1>2, FunctionIsSeq
  <1> QED BY <1>3 DEF c, n

LEMMA PatchedIsSeq ==
    ASSUME NEW bs, NEW p, NEW s, IsSeq(bs)
    PROVE  IsSeq(Patched(bs, p, s)) /\ Len(Patched(bs, p, s)) = Len(bs)
  <1> DEFINE c == Patched(bs, p, s)  n == Len(bs)
  <1>1. n \in Nat  BY LenIsNat
  <1>2. c = [k \in 1 .. n |-> c[k]]  BY DEF Patched
  <1> HIDE DEF c, n
  <1>3. IsSeq(c) /\ Len(c) = n  BY <1>1, <1>2, FunctionIsSeq
  <1> QED BY <1>3 DEF c, n

LEMMA StringIsSeq ==
    ASSUME NEW s \in Strings
    PROVE  IsSeq(s) /\ Len(s) \in Nat /\ (s = << >> => Len(s) = 0)
BY BytesAssumption DEF IsSeq

-----------------------------------------------------------------------------
(* Operations *)

\* A new list of blocks, long enough for a new size.
LEMMA Enough ==
    ASSUME IsSeq(blocks'), size' \in 0 .. MaxSize, size' <= Len(blocks') * D,
           isOpen' \in BOOLEAN
    PROVE  IndInv'
  <1>1. size' \in Nat  BY SizesAssumption
  <1>2. Len(blocks') \in Nat  BY LenIsNat
  <1>3. BlocksFor(size') <= Len(blocks')  BY <1>1, <1>2, Fits
  <1> QED BY <1>3 DEF IndInv, Backed, Loadable, BlocksFor

LEMMA OpenFacts ==
    ASSUME IndInv, isOpen
    PROVE  /\ size \in Nat /\ size <= MaxSize
           /\ IsSeq(blocks) /\ Len(blocks) \in Nat
           /\ size <= Len(blocks) * D
           /\ D \in Nat \ {0} /\ MaxSize \in Nat
  <1>1. size \in Nat /\ size <= MaxSize  BY SizesAssumption DEF IndInv
  <1>2. IsSeq(blocks) /\ Len(blocks) \in Nat  BY LenIsNat DEF IndInv
  <1>3. BlocksFor(size) <= Len(blocks)  BY DEF IndInv, Backed, Loadable
  <1> QED BY <1>1, <1>2, <1>3, Fits, SizesAssumption

\* load_data_ never takes blocks away.
LEMMA ObtainedFacts ==
    ASSUME Len(blocks) \in Nat, NEW n \in Nat, n >= Len(blocks), NEW room \in Nat
    PROVE  /\ Obtained(n, room) \in Nat
           /\ Len(blocks) <= Obtained(n, room)
           /\ Obtained(n, room) <= n
BY DEF Obtained, Smaller

LEMMA WriteKeeps ==
    ASSUME IndInv, NEW offset \in 0 .. MaxSize, NEW s \in Strings,
           NEW room \in 0 .. Room, Write(offset, s, room)
    PROVE  IndInv'
  <1> DEFINE want == Wanted(offset, s)
             got == Obtained(want, room)
             end == offset + Len(s)
  <1>1. isOpen /\ isOpen' \in BOOLEAN /\ offset <= size /\ end <= MaxSize
    BY DEF Write, IndInv
  <1>2. /\ size \in Nat /\ size <= MaxSize /\ Len(blocks) \in Nat
        /\ size <= Len(blocks) * D /\ D \in Nat \ {0} /\ MaxSize \in Nat
        /\ room \in Nat /\ offset \in Nat
    BY <1>1, OpenFacts, SizesAssumption
  <1>3. Len(s) \in Nat /\ end \in Nat /\ (s = << >> => Len(s) = 0)
    BY <1>2, StringIsSeq
  <1>4. /\ want \in Nat /\ Len(blocks) <= want
        /\ s # << >> => BlocksFor(end) <= want
    <2>1. BlocksFor(end) \in Nat  BY <1>3, Fits
    <2> QED BY <1>2, <2>1 DEF Wanted, Larger
  <1>5. got \in Nat /\ Len(blocks) <= got
    BY <1>2, <1>4, ObtainedFacts
  <1>6. IsSeq(blocks') /\ Len(blocks') = got
    BY <1>5, ExtendedIsSeq, PatchedIsSeq DEF Write
  <1>7. size' = IF got = want THEN Larger(size, end) ELSE size
    BY DEF Write
  <1> HIDE DEF want, got, end
  <1>8. size <= got * D
    BY <1>2, <1>5
  <1>9. end <= want * D \/ end <= size
    <2>1. CASE s = << >>  BY <2>1, <1>1, <1>2, <1>3 DEF end
    <2>2. CASE s # << >>  BY <2>2, <1>3, <1>4, Fits
    <2> QED BY <2>1, <2>2
  <1>10. size' \in 0 .. MaxSize /\ size' <= got * D
    BY <1>1, <1>2, <1>3, <1>4, <1>5, <1>7, <1>8, <1>9 DEF Larger
  <1> QED BY <1>1, <1>6, <1>10, Enough

\* A list of blocks that is replaced from index on, or only extended.
LEMMA MovedKeeps ==
    ASSUME IndInv, isOpen, isOpen' \in BOOLEAN,
           NEW base, IsSeq(base), Len(blocks) <= Len(base),
           NEW index \in 0 .. Len(base), NEW temp, IsSeq(temp), NEW room,
           NEW newSize \in 0 .. MaxSize, newSize <= index * D + Len(temp),
           Moved(base, index, temp, room, newSize)
    PROVE  IndInv'
  <1> DEFINE m == BlocksFor(Len(temp))
  <1>0. /\ size \in Nat /\ Len(blocks) \in Nat /\ size <= Len(blocks) * D
        /\ D \in Nat \ {0} /\ MaxSize \in Nat
    BY OpenFacts
  <1>1. Len(base) \in Nat /\ Len(temp) \in Nat /\ index \in Nat
    <2>1. Len(base) \in Nat /\ Len(temp) \in Nat  BY LenIsNat
    <2> QED BY <2>1
  <1>2. m \in Nat /\ Len(temp) <= m * D  BY <1>1, Fits
  <1>3. CASE m <= room
    <2>1. /\ blocks' = SubSeq(base, 1, index) \o Packed(temp)
          /\ size' = newSize
      BY <1>3 DEF Moved
    <2>2. IsSeq(blocks') /\ Len(blocks') = index + m
      <3>1. IsSeq(SubSeq(base, 1, index)) /\ Len(SubSeq(base, 1, index)) = index
        BY PrefixIsSeq
      <3>2. IsSeq(Packed(temp)) /\ Len(Packed(temp)) = m
        BY PackedIsSeq
      <3> QED BY <2>1, <3>1, <3>2, JoinIsSeq
    <2> HIDE DEF m
    <2>3. newSize <= index * D + m * D  BY <1>0, <1>1, <1>2
    <2>4. (index + m) * D = index * D + m * D  BY <1>0, <1>1, <1>2
    <2> QED BY <2>1, <2>2, <2>3, <2>4, Enough
  <1>4. CASE ~(m <= room)
    <2>1. blocks' = base /\ size' = size  BY <1>4 DEF Moved
    <2>2. size <= Len(base) * D  BY <1>0, <1>1
    <2> QED BY <2>1, <2>2, Enough DEF IndInv
  <1> QED BY <1>3, <1>4

\* Where a position lies.
LEMMA Position ==
    ASSUME NEW p \in Nat
    PROVE  /\ p \div D \in Nat /\ p % D \in 0 .. D - 1
           /\ p = (p \div D) * D + (p % D)
           /\ \A n \in Nat : p <= n * D => p \div D <= n
           /\ \A n \in Nat : p < n * D => p \div D < n
  <1> DEFINE q == p \div D  r == p % D
  <1>1. q \in Nat /\ r \in 0 .. D - 1 /\ p = q * D + r  BY DivMod
  <1>2. D \in Nat \ {0}  BY SizesAssumption
  <1> HIDE DEF q, r
  <1>3. ASSUME NEW n \in Nat, p <= n * D PROVE q <= n
    BY <1>1, <1>2, <1>3
  <1>4. ASSUME NEW n \in Nat, p < n * D PROVE q < n
    BY <1>1, <1>2, <1>4
  <1> QED BY <1>1, <1>3, <1>4 DEF q, r

LEMMA InsertKeeps ==
    ASSUME IndInv, NEW offset \in 0 .. MaxSize, NEW s \in Strings,
           NEW room \in 0 .. Room, Insert(offset, s, room)
    PROVE  IndInv'
  <1> DEFINE index == offset \div D
             oib == offset % D
             want == Larger(Len(blocks), index + 1)
             base == Extended(Obtained(want, room))
             head == Copied(base, index * D, oib)
             rest == [k \in 1 .. size - offset |->
                         base[index + 1][(offset + k - 1) % D]]
             temp == Inserted(base, offset, s)
  <1>1. /\ isOpen /\ isOpen' \in BOOLEAN /\ offset <= size
        /\ size + Len(s) <= MaxSize
    BY DEF Insert, IndInv
  <1>2. /\ size \in Nat /\ Len(blocks) \in Nat /\ size <= Len(blocks) * D
        /\ D \in Nat \ {0} /\ MaxSize \in Nat /\ room \in Nat /\ offset \in Nat
    BY <1>1, OpenFacts, SizesAssumption
  <1>3. IsSeq(s) /\ Len(s) \in Nat  BY StringIsSeq
  <1>4. /\ index \in Nat /\ oib \in Nat /\ offset = index * D + oib
        /\ index <= Len(blocks)
    <2>1. offset <= Len(blocks) * D  BY <1>1, <1>2
    <2>2. offset \div D <= Len(blocks)  BY <2>1, <1>2, Position
    <2>3. /\ offset \div D \in Nat /\ offset % D \in 0 .. D - 1
          /\ offset = (offset \div D) * D + (offset % D)
      BY <1>2, Position
    <2>4. offset % D \in Nat
      <3> DEFINE r == offset % D
      <3> HIDE DEF r
      <3>1. r \in 0 .. D - 1  BY <2>3 DEF r
      <3>2. r \in Nat  BY <3>1, <1>2
      <3> QED BY <3>2 DEF r
    <2> QED BY <2>2, <2>3, <2>4
  <1>5. want \in Nat /\ Len(blocks) <= want
    <2> HIDE DEF index
    <2> QED BY <1>2, <1>4 DEF Larger
  <1>6. IsSeq(base) /\ Len(blocks) <= Len(base) /\ Len(base) \in Nat
    BY <1>2, <1>5, ObtainedFacts, ExtendedIsSeq
  <1>7. IsSeq(head) /\ Len(head) = oib  BY <1>4, CopiedIsSeq
  <1>8. IsSeq(rest) /\ Len(rest) = size - offset
    <2>1. size - offset \in Nat  BY <1>1, <1>2
    <2>2. rest = [k \in 1 .. size - offset |-> rest[k]]  OBVIOUS
    <2> HIDE DEF rest
    <2> QED BY <2>1, <2>2, FunctionIsSeq
  <1>9. temp = head \o s \o rest  BY DEF Inserted
  <1>10. Moved(base, index, temp, room - (Len(base) - Len(blocks)), size + Len(s))
    BY DEF Insert
  <1> HIDE DEF head, rest, base, temp, index, oib, want
  <1>11. IsSeq(temp) /\ Len(temp) = oib + Len(s) + (size - offset)
    <2>1. IsSeq(head \o s) /\ Len(head \o s) = oib + Len(s)
      BY <1>3, <1>7, JoinIsSeq
    <2> QED BY <2>1, <1>8, <1>9, JoinIsSeq
  <1>12. size + Len(s) <= index * D + Len(temp)
    BY <1>2, <1>3, <1>4, <1>11
  <1>13. size + Len(s) \in 0 .. MaxSize /\ index \in 0 .. Len(base)
    BY <1>1, <1>2, <1>3, <1>4, <1>6
  <1> QED BY <1>1, <1>6, <1>10, <1>11, <1>12, <1>13, MovedKeeps

LEMMA RemoveKeeps ==
    ASSUME IndInv, NEW offset \in 0 .. MaxSize, NEW n \in 0 .. MaxSize,
           NEW room \in 0 .. Room, Remove(offset, n, room)
    PROVE  IndInv'
  <1> DEFINE length == Smaller(n, size - offset)
             index == offset \div D
             oib == offset % D
             from == Skipped(index, oib, length)
             head == Copied(blocks, index * D, oib)
             rest == Copied(blocks, from[1] * D + from[2], size - offset - length)
  <1>1. isOpen /\ isOpen' \in BOOLEAN /\ offset < size
    BY DEF Remove, Cut, IndInv
  <1>2. /\ size \in Nat /\ Len(blocks) \in Nat /\ size <= Len(blocks) * D
        /\ size <= MaxSize /\ IsSeq(blocks)
        /\ D \in Nat \ {0} /\ MaxSize \in Nat /\ offset \in Nat /\ n \in Nat
    BY <1>1, OpenFacts, SizesAssumption
  <1>3. length \in Nat /\ length <= size - offset  BY <1>1, <1>2 DEF Smaller
  <1>4. /\ index \in Nat /\ oib \in Nat /\ offset = index * D + oib
        /\ index <= Len(blocks)
    <2>1. offset <= Len(blocks) * D  BY <1>1, <1>2
    <2>2. offset \div D <= Len(blocks)  BY <2>1, <1>2, Position
    <2>3. /\ offset \div D \in Nat /\ offset % D \in 0 .. D - 1
          /\ offset = (offset \div D) * D + (offset % D)
      BY <1>2, Position
    <2>4. offset % D \in Nat
      <3> DEFINE r == offset % D
      <3> HIDE DEF r
      <3>1. r \in 0 .. D - 1  BY <2>3 DEF r
      <3>2. r \in Nat  BY <3>1, <1>2
      <3> QED BY <3>2 DEF r
    <2> QED BY <2>2, <2>3, <2>4
  <1>5. IsSeq(head) /\ Len(head) = oib  BY <1>4, CopiedIsSeq
  <1>6. size - offset - length \in Nat
    <2> HIDE DEF length
    <2> QED BY <1>1, <1>2, <1>3
  <1>7. IsSeq(rest) /\ Len(rest) = size - offset - length  BY <1>6, CopiedIsSeq
  <1>8. Moved(blocks, index, head \o rest, room, size - length)
    BY DEF Remove, Cut
  <1> HIDE DEF length, index, oib, from, head, rest
  <1>9. IsSeq(head \o rest) /\ Len(head \o rest) = oib + (size - offset - length)
    BY <1>5, <1>7, JoinIsSeq
  <1>10. size - length <= index * D + Len(head \o rest)
    BY <1>2, <1>3, <1>4, <1>9
  <1>11. size - length \in 0 .. MaxSize /\ index \in 0 .. Len(blocks)
    BY <1>1, <1>2, <1>3, <1>4
  <1>12. IsSeq(blocks) /\ Len(blocks) <= Len(blocks)  BY <1>2
  <1> QED BY <1>1, <1>8, <1>9, <1>10, <1>11, <1>12, MovedKeeps

LEMMA RemoveAllKeeps == IndInv /\ RemoveAll => IndInv'
  <1> SUFFICES ASSUME IndInv, RemoveAll PROVE IndInv'  OBVIOUS
  <1>1. blocks' = << >> /\ size' = 0 /\ isOpen' \in BOOLEAN  BY DEF RemoveAll, IndInv
  <1>2. IsSeq(blocks') /\ Len(blocks') = 0  BY <1>1, EmptyIsSeq
  <1>3. 0 \in 0 .. MaxSize /\ 0 <= 0 * D  BY SizesAssumption
  <1> QED BY <1>1, <1>2, <1>3, Enough

LEMMA GrowKeeps ==
    ASSUME IndInv, NEW n \in 0 .. MaxSize, NEW room \in 0 .. Room, Grow(n, room)
    PROVE  IndInv'
  <1> DEFINE want == Larger(Len(blocks), BlocksFor(n))
             got == Obtained(want, room)
  <1>1. isOpen /\ isOpen' \in BOOLEAN /\ size <= n  BY DEF Grow, IndInv
  <1>2. /\ size \in Nat /\ Len(blocks) \in Nat /\ size <= Len(blocks) * D
        /\ size <= MaxSize /\ D \in Nat \ {0} /\ MaxSize \in Nat
        /\ room \in Nat /\ n \in Nat
    BY <1>1, OpenFacts, SizesAssumption
  <1>3. want \in Nat /\ Len(blocks) <= want /\ BlocksFor(n) <= want
    <2>1. BlocksFor(n) \in Nat  BY <1>2, Fits
    <2> QED BY <2>1, <1>2 DEF Larger
  <1>4. got \in Nat /\ Len(blocks) <= got  BY <1>2, <1>3, ObtainedFacts
  <1>5. blocks' = Extended(got) /\ size' = IF got = want THEN n ELSE size
    BY DEF Grow
  <1> HIDE DEF want, got
  <1>6. IsSeq(blocks') /\ Len(blocks') = got  BY <1>4, <1>5, ExtendedIsSeq
  <1>7. n <= want * D  BY <1>2, <1>3, Fits
  <1>8. size <= got * D  BY <1>2, <1>4
  <1>9. size' \in 0 .. MaxSize /\ size' <= got * D
    BY <1>2, <1>5, <1>7, <1>8
  <1> QED BY <1>1, <1>6, <1>9, Enough

LEMMA ShrinkKeeps ==
    ASSUME IndInv, NEW n \in 0 .. MaxSize, Shrink(n)
    PROVE  IndInv'
  <1> DEFINE m == BlocksFor(n)
  <1>1. isOpen /\ isOpen' \in BOOLEAN /\ n < size  BY DEF Shrink, IndInv
  <1>2. /\ size \in Nat /\ Len(blocks) \in Nat /\ size <= Len(blocks) * D
        /\ IsSeq(blocks) /\ D \in Nat \ {0} /\ n \in Nat
    BY <1>1, OpenFacts, SizesAssumption
  <1>3. m \in Nat /\ n <= m * D  BY <1>2, Fits
  <1>4. m <= Len(blocks)
    <2>1. n <= Len(blocks) * D  BY <1>1, <1>2
    <2> QED BY <2>1, <1>2, Fits
  <1>5. blocks' = SubSeq(blocks, 1, m) /\ size' = n  BY DEF Shrink
  <1> HIDE DEF m
  <1>6. m \in 0 .. Len(blocks)  BY <1>2, <1>3, <1>4
  <1>7. IsSeq(blocks') /\ Len(blocks') = m  BY <1>2, <1>5, <1>6, PrefixIsSeq
  <1> QED BY <1>1, <1>3, <1>5, <1>7, Enough

LEMMA CloseKeeps ==
    ASSUME IndInv, NEW saved \in 0 .. Len(blocks), Close(saved)
    PROVE  IndInv'
  <1>1. IsSeq(SubSeq(blocks, 1, saved))  BY PrefixIsSeq DEF IndInv
  <1>2. isOpen' = FALSE /\ size' = size /\ IsSeq(blocks')
    BY <1>1 DEF Close
  <1> QED BY <1>2 DEF IndInv, Backed

LEMMA OpenKeeps == IndInv /\ Open => IndInv'
  <1> SUFFICES ASSUME IndInv, Open PROVE IndInv'  OBVIOUS
  <1> DEFINE m == BlocksFor(size)
  <1>1. size \in Nat /\ size \in 0 .. MaxSize /\ IsSeq(blocks) /\ Len(blocks) \in Nat
    BY SizesAssumption, LenIsNat DEF IndInv
  <1>2. m \in Nat /\ size <= m * D  BY <1>1, Fits
  <1>3. isOpen' = Loadable /\ size' = size /\ Loadable = (m <= Len(blocks))
    BY DEF Open, Loadable
  <1>4. CASE Loadable
    <2>1. m \in 0 .. Len(blocks) /\ blocks' = SubSeq(blocks, 1, m)
      <3>1. blocks' = SubSeq(blocks, 1, m)  BY <1>4 DEF Open
      <3>2. m <= Len(blocks)  BY <1>4 DEF Loadable
      <3> HIDE DEF m
      <3> QED BY <1>1, <1>2, <3>1, <3>2
    <2> HIDE DEF m
    <2>2. IsSeq(blocks') /\ Len(blocks') = m  BY <1>1, <2>1, PrefixIsSeq
    <2>3. isOpen' \in BOOLEAN  BY <1>3, <1>4
    <2> QED BY <1>1, <1>2, <1>3, <2>2, <2>3, Enough
  <1>5. CASE ~Loadable
    <2>1. blocks' = blocks /\ isOpen' = FALSE  BY <1>3, <1>5 DEF Open
    <2> QED BY <2>1, <1>1, <1>3 DEF IndInv, Backed
  <1> QED BY <1>4, <1>5

LEMMA InitKeeps == Init => IndInv
  <1> SUFFICES ASSUME Init PROVE IndInv  OBVIOUS
  <1>1. IsSeq(blocks) /\ Len(blocks) = 0 /\ size = 0 /\ isOpen \in BOOLEAN
    BY EmptyIsSeq DEF Init
  <1>2. 0 \in 0 .. MaxSize /\ 0 \in Nat /\ 0 <= 0 * D  BY SizesAssumption
  <1>3. BlocksFor(0) <= 0  BY <1>2, Fits
  <1> QED BY <1>1, <1>2, <1>3 DEF IndInv, Backed, Loadable

-----------------------------------------------------------------------------
\* The invariant is inductive.
THEOREM Inductive == IndInv /\ [Next]_vars => IndInv'
  <1> SUFFICES ASSUME IndInv, [Next]_vars PROVE IndInv'  OBVIOUS
  <1>1. ASSUME NEW offset \in 0 .. MaxSize, NEW s \in Strings, NEW room \in 0 .. Room,
               Write(offset, s, room) \/ Insert(offset, s, room)
        PROVE  IndInv'
    BY <1>1, WriteKeeps, InsertKeeps
  <1>2. ASSUME NEW offset \in 0 .. MaxSize, NEW n \in 0 .. MaxSize,
               NEW room \in 0 .. Room, Remove(offset, n, room)
        PROVE  IndInv'
    BY <1>2, RemoveKeeps
  <1>3. ASSUME NEW n \in 0 .. MaxSize, NEW room \in 0 .. Room, Grow(n, room)
        PROVE  IndInv'
    BY <1>3, GrowKeeps
  <1>4. ASSUME NEW n \in 0 .. MaxSize, Shrink(n) PROVE IndInv'
    BY <1>4, ShrinkKeeps
  <1>5. ASSUME NEW saved \in 0 .. Len(blocks), Close(saved) PROVE IndInv'
    BY <1>5, CloseKeeps
  <1>6. CASE UNCHANGED vars
    BY <1>6 DEF vars, IndInv, Backed, Loadable, BlocksFor
  <1> QED
    BY <1>1, <1>2, <1>3, <1>4, <1>5, <1>6, RemoveAllKeeps, OpenKeeps DEF Next

\* It holds in every state.
THEOREM Invariance == Spec => []IndInv
BY InitKeeps, Inductive, PTL DEF Spec

\* An open file has a block for each of its bytes, after any sequence of
\* operations on a disk that fills up at any moment (load_data_, write,
\* insert, remove, truncate, close, open).
THEOREM BackedCorrect == Spec => []Backed
  <1>1. IndInv => Backed  BY DEF IndInv
  <1> QED BY <1>1, Invariance, PTL

-----------------------------------------------------------------------------
(* Bytes by their position in a list of blocks. *)

\* The byte at position q of the blocks of bs.
ByteAt(bs, q) == bs[q \div D + 1][q % D]

LEMMA Divided ==
    ASSUME NEW i \in Nat, NEW r \in 0 .. D - 1
    PROVE  /\ i * D + r \in Nat
           /\ (i * D + r) \div D = i
           /\ (i * D + r) % D = r
  <1> DEFINE t == i * D + r  q == t \div D  o == t % D
  <1>1. D \in Nat \ {0} /\ r \in Nat /\ r < D  BY SizesAssumption
  <1>2. t \in Nat  BY <1>1
  <1>3. q \in Nat /\ o \in 0 .. D - 1 /\ t = q * D + o  BY <1>2, DivMod
  <1>4. q * D + o = i * D + r  BY <1>3
  <1> HIDE DEF q, o
  <1>5. ~(q < i)
    <2>1. SUFFICES ASSUME q < i PROVE FALSE  OBVIOUS
    <2>2. (q + 1) * D <= i * D  BY <1>1, <1>3, <2>1
    <2> QED BY <1>1, <1>3, <1>4, <2>2
  <1>6. ~(i < q)
    <2>1. SUFFICES ASSUME i < q PROVE FALSE  OBVIOUS
    <2>2. (i + 1) * D <= q * D  BY <1>1, <1>3, <2>1
    <2> QED BY <1>1, <1>3, <1>4, <2>2
  <1>7. q = i /\ o = r  BY <1>1, <1>3, <1>4, <1>5, <1>6
  <1> QED BY <1>2, <1>7 DEF q, o

\* Positions m blocks further lie in the block m further, at the same place.
LEMMA Shifted ==
    ASSUME NEW m \in Nat, NEW q \in Nat
    PROVE  /\ (m * D + q) \div D = m + q \div D
           /\ (m * D + q) % D = q % D
  <1> DEFINE i == q \div D  r == q % D
  <1>1. i \in Nat /\ r \in 0 .. D - 1 /\ q = i * D + r  BY DivMod
  <1>2. D \in Nat \ {0}  BY SizesAssumption
  <1> HIDE DEF i, r
  <1>3. m * D + q = (m + i) * D + r  BY <1>1, <1>2
  <1>4. m + i \in Nat  BY <1>1
  <1>5. (m * D + q) \div D = m + i /\ (m * D + q) % D = r
    BY <1>1, <1>3, <1>4, Divided
  <1> QED BY <1>5 DEF i, r

LEMMA Within ==
    ASSUME NEW q \in Nat, NEW m \in Nat
    PROVE  q < m * D <=> q \div D + 1 <= m
  <1> DEFINE i == q \div D  r == q % D
  <1>1. i \in Nat /\ r \in 0 .. D - 1 /\ q = i * D + r  BY DivMod
  <1>2. D \in Nat \ {0}  BY SizesAssumption
  <1> HIDE DEF i, r
  <1>3. ASSUME i + 1 <= m PROVE q < m * D
    <2>1. (i + 1) * D <= m * D  BY <1>1, <1>2, <1>3
    <2> QED BY <1>1, <1>2, <2>1
  <1>4. ASSUME q < m * D PROVE i + 1 <= m
    <2>1. i < m  BY <1>4, Position DEF i
    <2> QED BY <2>1, <1>1
  <1> QED BY <1>3, <1>4 DEF i

LEMMA IndexOf ==
    ASSUME NEW q \in Nat, NEW m \in Nat, q < m * D
    PROVE  q \div D + 1 \in 1 .. m /\ q % D \in 0 .. D - 1
  <1> DEFINE i == q \div D
  <1>1. i \in Nat /\ q % D \in 0 .. D - 1  BY DivMod
  <1>2. i + 1 <= m  BY Within
  <1> HIDE DEF i
  <1>3. i + 1 \in 1 .. m  BY <1>1, <1>2
  <1> QED BY <1>1, <1>3 DEF i

LEMMA ByteAtType ==
    ASSUME NEW bs \in Seq(Block), NEW q \in Nat, q < Len(bs) * D
    PROVE  ByteAt(bs, q) \in Bytes
  <1>1. q \div D + 1 \in 1 .. Len(bs) /\ q % D \in 0 .. D - 1  BY IndexOf
  <1>2. bs[q \div D + 1] \in Block  BY <1>1
  <1> QED BY <1>1, <1>2 DEF Block, ByteAt

LEMMA CopiedAt ==
    ASSUME NEW bs, NEW p \in Nat, NEW n \in Nat
    PROVE  \A k \in 1 .. n : Copied(bs, p, n)[k] = ByteAt(bs, p + k - 1)
BY DEF Copied, ByteAt

LEMMA CopiedType ==
    ASSUME NEW bs \in Seq(Block), NEW p \in Nat, NEW n \in Nat, p + n <= Len(bs) * D
    PROVE  Copied(bs, p, n) \in Seq(Bytes)
  <1> DEFINE c == Copied(bs, p, n)
  <1>1. ASSUME NEW k \in 1 .. n PROVE c[k] \in Bytes
    <2> DEFINE m == Len(bs) * D
    <2>0. m \in Nat  BY SizesAssumption
    <2>1. p + k - 1 \in Nat /\ p + k - 1 < m  BY <2>0
    <2> QED BY <2>1, CopiedAt, ByteAtType
  <1>2. c = [k \in 1 .. n |-> c[k]]  BY DEF Copied
  <1> HIDE DEF c
  <1>3. c \in [1 .. n -> Bytes]  BY <1>1, <1>2
  <1> QED BY <1>3 DEF c

LEMMA ExtendedType ==
    ASSUME blocks \in Seq(Block), NEW n \in Nat
    PROVE  Extended(n) \in Seq(Block)
  <1>1. ZeroBlock \in Block  BY BytesAssumption DEF Block, ZeroBlock
  <1>2. Extended(n) \in [1 .. n -> Block]
    BY <1>1 DEF Extended
  <1> QED BY <1>2

LEMMA PatchedType ==
    ASSUME NEW bs \in Seq(Block), NEW p \in Nat, NEW s \in Seq(Bytes)
    PROVE  Patched(bs, p, s) \in Seq(Block)
  <1> DEFINE at(i, j) == (i - 1) * D + j + 1 - p
             new(i, j) == IF 1 <= at(i, j) /\ at(i, j) <= Len(s) THEN s[at(i, j)] ELSE bs[i][j]
  <1>1. Len(bs) \in Nat  OBVIOUS
  <1>2. ASSUME NEW i \in 1 .. Len(bs), NEW j \in 0 .. D - 1 PROVE new(i, j) \in Bytes
    <2>1. at(i, j) \in Int  BY SizesAssumption
    <2>2. bs[i] \in Block  BY <1>1
    <2>3. bs[i][j] \in Bytes  BY <2>2 DEF Block
    <2> HIDE DEF at
    <2> QED BY <2>1, <2>3
  <1>3. Patched(bs, p, s) = [i \in 1 .. Len(bs) |-> [j \in 0 .. D - 1 |-> new(i, j)]]
    BY DEF Patched
  <1> HIDE DEF new
  <1>4. Patched(bs, p, s) \in [1 .. Len(bs) -> Block]
    BY <1>2, <1>3 DEF Block
  <1> QED BY <1>1, <1>4

LEMMA PackedType ==
    ASSUME NEW s \in Seq(Bytes)
    PROVE  Packed(s) \in Seq(Block)
  <1> DEFINE m == BlocksFor(Len(s))
             at(i, j) == (i - 1) * D + j + 1
             new(i, j) == IF at(i, j) <= Len(s) THEN s[at(i, j)] ELSE Zero
  <1>1. m \in Nat  BY Fits
  <1>2. ASSUME NEW i \in 1 .. m, NEW j \in 0 .. D - 1 PROVE new(i, j) \in Bytes
    <2>0. i - 1 \in Nat /\ j \in Nat /\ D \in Nat  BY <1>1, SizesAssumption
    <2>1. at(i, j) \in Nat /\ 1 <= at(i, j)  BY <2>0
    <2> HIDE DEF at
    <2> QED BY <2>1, BytesAssumption
  <1>3. Packed(s) = [i \in 1 .. m |-> [j \in 0 .. D - 1 |-> new(i, j)]]
    BY DEF Packed
  <1> HIDE DEF new, m
  <1>4. Packed(s) \in [1 .. m -> Block]
    BY <1>2, <1>3 DEF Block
  <1> QED BY <1>1, <1>4

-----------------------------------------------------------------------------
(* The loop of remove that skips bytes. *)

\* Where a loop that skips d bytes from block i, position o on ends.
SkipEnd(i, o, d) ==
    LET t == i * D + o + d
        last == Larger(Len(blocks), i + 1)
    IN  IF t < last * D THEN <<t \div D, t % D>> ELSE <<last, 0>>

\* The equation of the loop has a solution.
LEMMA SkipEndStep ==
    ASSUME Len(blocks) \in Nat,
           NEW i \in 0 .. Len(blocks), NEW o \in 0 .. D - 1, NEW d \in 0 .. MaxSize
    PROVE  /\ SkipEnd(i, o, d) =
                IF o + d < D THEN <<i, o + d>>
                ELSE IF i + 1 < Len(blocks) THEN SkipEnd(i + 1, 0, d - (D - o))
                ELSE <<i + 1, 0>>
           /\ o + d >= D => d - (D - o) \in 0 .. MaxSize
  <1> DEFINE t == i * D + o + d
             last == Larger(Len(blocks), i + 1)
             n == Len(blocks)
  <1>1. /\ D \in Nat \ {0} /\ MaxSize \in Nat /\ i \in Nat /\ o \in Nat /\ o < D
        /\ d \in Nat /\ d <= MaxSize /\ n \in Nat /\ i <= n
    BY SizesAssumption
  <1>2. last \in Nat /\ n <= last /\ i + 1 <= last /\ (last = n \/ last = i + 1)
    BY <1>1 DEF Larger
  <1>3. t \in Nat  BY <1>1
  <1>4. SkipEnd(i, o, d) = IF t < last * D THEN <<t \div D, t % D>> ELSE <<last, 0>>
    BY DEF SkipEnd
  <1>5. CASE o + d < D
    <2>1. o + d \in 0 .. D - 1  BY <1>1, <1>5
    <2>2. t = i * D + (o + d)  BY <1>1
    <2>3. t \div D = i /\ t % D = o + d
      <3> HIDE DEF t
      <3> QED BY <1>1, <2>1, <2>2, Divided
    <2>4. t < last * D
      <3> HIDE DEF t, last
      <3>1. (i + 1) * D <= last * D  BY <1>1, <1>2
      <3>2. (i + 1) * D = i * D + D  BY <1>1
      <3>3. o + d < D  BY <1>5
      <3>4. i * D \in Nat /\ last * D \in Nat  BY <1>1, <1>2
      <3> QED BY <1>1, <2>2, <3>1, <3>2, <3>3, <3>4
    <2> HIDE DEF t, last
    <2> QED BY <1>1, <1>4, <1>5, <2>3, <2>4
  <1>6. CASE o + d >= D
    <2>1. d - (D - o) \in 0 .. MaxSize  BY <1>1, <1>6
    <2>2. CASE i + 1 < n
      <3>1. Larger(n, (i + 1) + 1) = last  BY <1>1, <2>2 DEF Larger
      <3>2. (i + 1) * D + 0 + (d - (D - o)) = t  BY <1>1
      <3>3. SkipEnd(i + 1, 0, d - (D - o)) =
              IF t < last * D THEN <<t \div D, t % D>> ELSE <<last, 0>>
        BY <3>1, <3>2 DEF SkipEnd
      <3>4. ~(o + d < D)  BY <1>1, <1>6
      <3> HIDE DEF t, last
      <3> QED BY <1>4, <2>1, <2>2, <3>3, <3>4
    <2>3. CASE ~(i + 1 < n)
      <3>1. last = i + 1  BY <1>1, <2>3 DEF Larger
      <3>2. ~(t < last * D)
        <4> HIDE DEF last
        <4>1. last * D = i * D + D  BY <1>1, <3>1
        <4> QED BY <1>1, <1>6, <4>1
      <3>3. ~(o + d < D)  BY <1>1, <1>6
      <3> HIDE DEF t, last
      <3> QED BY <1>4, <2>1, <2>3, <3>1, <3>2, <3>3
    <2> QED BY <2>2, <2>3
  <1> QED BY <1>1, <1>5, <1>6

\* The arguments of the loop.
Turns == (0 .. Len(blocks)) \X (0 .. D - 1) \X (0 .. MaxSize)

\* One turn of the loop, if f is where the following ones end.
SkipStep(f, i, o, d) ==
    IF o + d < D THEN <<i, o + d>>
    ELSE IF i + 1 < Len(blocks) THEN f[<<i + 1, 0, d - (D - o)>>]
    ELSE <<i + 1, 0>>

\* f is where the loop ends (Skipped).
IsSkip(f) == f = [p \in Turns |-> SkipStep(f, p[1], p[2], p[3])]

Skip == CHOOSE f : IsSkip(f)

LEMMA SkippedIsSkip == ASSUME NEW i, NEW o, NEW d PROVE Skipped(i, o, d) = Skip[<<i, o, d>>]
BY Zenon DEF Skipped, Skip, IsSkip, SkipStep, Turns

LEMMA SkipEquation ==
    ASSUME NEW f, IsSkip(f),
           NEW i \in 0 .. Len(blocks), NEW o \in 0 .. D - 1, NEW d \in 0 .. MaxSize
    PROVE  f[<<i, o, d>>] = SkipStep(f, i, o, d)
  <1>1. <<i, o, d>> \in Turns  BY DEF Turns
  <1> QED BY <1>1 DEF IsSkip

LEMMA SkipExists ==
    ASSUME Len(blocks) \in Nat
    PROVE  IsSkip(Skip)
  <1> DEFINE f == [p \in Turns |-> SkipEnd(p[1], p[2], p[3])]
  <1>1. ASSUME NEW i \in 0 .. Len(blocks), NEW o \in 0 .. D - 1, NEW d \in 0 .. MaxSize
        PROVE  SkipEnd(i, o, d) = SkipStep(f, i, o, d)
    <2>1. CASE o + d < D
      BY <2>1, SkipEndStep DEF SkipStep
    <2>2. CASE ~(o + d < D)
      <3>1. CASE i + 1 < Len(blocks)
        <4>1. /\ i + 1 \in 0 .. Len(blocks) /\ 0 \in 0 .. D - 1
              /\ d - (D - o) \in 0 .. MaxSize
          <5>1. o + d >= D  BY <2>2, SizesAssumption
          <5> QED BY <5>1, <3>1, SkipEndStep, SizesAssumption
        <4>2. <<i + 1, 0, d - (D - o)>> \in Turns  BY <4>1 DEF Turns
        <4>3. f[<<i + 1, 0, d - (D - o)>>] = SkipEnd(i + 1, 0, d - (D - o))
          BY <4>2
        <4>4. SkipEnd(i, o, d) = SkipEnd(i + 1, 0, d - (D - o))
          BY <2>2, <3>1, SkipEndStep
        <4> HIDE DEF f
        <4> QED BY <2>2, <3>1, <4>3, <4>4 DEF SkipStep
      <3>2. CASE ~(i + 1 < Len(blocks))
        BY <2>2, <3>2, SkipEndStep DEF SkipStep
      <3> QED BY <3>1, <3>2
    <2> QED BY <2>1, <2>2
  <1> HIDE DEF f
  <1>2. ASSUME NEW p \in Turns PROVE SkipEnd(p[1], p[2], p[3]) = SkipStep(f, p[1], p[2], p[3])
    <2>1. p[1] \in 0 .. Len(blocks) /\ p[2] \in 0 .. D - 1 /\ p[3] \in 0 .. MaxSize
      BY DEF Turns
    <2> QED BY <2>1, <1>1
  <1>3. f = [p \in Turns |-> SkipStep(f, p[1], p[2], p[3])]
    BY <1>2 DEF f
  <1>4. IsSkip(f)  BY <1>3 DEF IsSkip
  <1> QED BY <1>4, Zenon DEF Skip

\* Only one: the loop ends as the number of blocks still ahead gets smaller.
LEMMA SkipUnique ==
    ASSUME Len(blocks) \in Nat, NEW f, IsSkip(f),
           NEW i \in 0 .. Len(blocks), NEW o \in 0 .. D - 1, NEW d \in 0 .. MaxSize
    PROVE  f[<<i, o, d>>] = SkipEnd(i, o, d)
  <1> DEFINE n == Len(blocks)
             Wrong == {m \in 0 .. n : \E x \in 0 .. D - 1, y \in 0 .. MaxSize :
                          f[<<n - m, x, y>>] # SkipEnd(n - m, x, y)}
  <1>1. SUFFICES Wrong = {}
    <2>1. n - i \in 0 .. n /\ n - (n - i) = i  OBVIOUS
    <2> HIDE DEF n
    <2> QED BY <2>1
  <1>2. SUFFICES ASSUME Wrong # {} PROVE FALSE  OBVIOUS
  <1>3. Wrong \subseteq Nat  OBVIOUS
  <1>4. \E m \in Wrong : \A k \in Wrong : ~ (<<k, m>> \in OpToRel(<, Nat))
    <2> HIDE DEF Wrong
    <2> QED BY <1>2, <1>3, WFMin, NatLessThanWellFounded
  <1>5. PICK m \in Wrong : \A k \in Wrong : ~ (<<k, m>> \in OpToRel(<, Nat))
    BY <1>4
  <1>6. PICK x \in 0 .. D - 1, y \in 0 .. MaxSize :
            f[<<n - m, x, y>>] # SkipEnd(n - m, x, y)
    OBVIOUS
  <1> DEFINE j == n - m
  <1>7. m \in 0 .. n /\ j \in 0 .. n
    <2>1. n \in Nat /\ m \in 0 .. n  OBVIOUS
    <2> HIDE DEF n
    <2> QED BY <2>1
  <1>8. f[<<j, x, y>>] = SkipStep(f, j, x, y)  BY <1>7, SkipEquation
  <1>9. CASE x + y < D
    BY <1>6, <1>7, <1>8, <1>9, SkipEndStep DEF SkipStep
  <1>10. CASE ~(x + y < D) /\ ~(j + 1 < n)
    BY <1>6, <1>7, <1>8, <1>10, SkipEndStep DEF SkipStep
  <1>11. CASE ~(x + y < D) /\ j + 1 < n
    <2>1. m - 1 \in 0 .. n /\ n - (m - 1) = j + 1 /\ <<m - 1, m>> \in OpToRel(<, Nat)
      BY <1>7, <1>11 DEF OpToRel
    <2>2. m - 1 \notin Wrong  BY <1>5, <2>1
    <2>3. 0 \in 0 .. D - 1 /\ y - (D - x) \in 0 .. MaxSize
      <3>1. x + y >= D  BY <1>11, SizesAssumption
      <3> QED BY <3>1, <1>7, SkipEndStep, SizesAssumption
    <2>4. f[<<j + 1, 0, y - (D - x)>>] = SkipEnd(j + 1, 0, y - (D - x))
      BY <2>1, <2>2, <2>3
    <2> HIDE DEF j
    <2> QED BY <1>6, <1>7, <1>8, <1>11, <2>4, SkipEndStep DEF SkipStep, j
  <1> QED BY <1>9, <1>10, <1>11

\* Where the rest of the file starts.
LEMMA SkippedPlace ==
    ASSUME Len(blocks) \in Nat,
           NEW i \in 0 .. Len(blocks), NEW o \in 0 .. D - 1, NEW n \in 0 .. MaxSize,
           i * D + o + n <= Len(blocks) * D
    PROVE  LET from == Skipped(i, o, n)
           IN  from[1] * D + from[2] = i * D + o + n
  <1> DEFINE t == i * D + o + n
             last == Larger(Len(blocks), i + 1)
             from == Skipped(i, o, n)
  <1>0. SUFFICES from[1] * D + from[2] = t  OBVIOUS
  <1>1. from = IF t < last * D THEN <<t \div D, t % D>> ELSE <<last, 0>>
    <2>1. from = SkipEnd(i, o, n)  BY SkippedIsSkip, SkipExists, SkipUnique
    <2> QED BY <2>1 DEF SkipEnd
  <1>2. t \in Nat /\ t = (t \div D) * D + (t % D)
    <2>1. t \in Nat  BY SizesAssumption
    <2> QED BY <2>1, DivMod
  <1>3. last \in Nat /\ Len(blocks) <= last  BY DEF Larger
  <1>4. CASE t < last * D
    <2>1. from[1] = t \div D /\ from[2] = t % D
      <3> HIDE DEF t, last, from
      <3> QED BY <1>1, <1>4
    <2> HIDE DEF t, from
    <2> QED BY <1>2, <2>1
  <1>5. CASE ~(t < last * D)
    <2>1. from[1] = last /\ from[2] = 0
      <3> HIDE DEF t, last, from
      <3> QED BY <1>1, <1>5
    <2>2. t <= Len(blocks) * D  OBVIOUS
    <2> HIDE DEF t, from, last
    <2>3. Len(blocks) * D <= last * D /\ last * D \in Nat  BY <1>3, SizesAssumption
    <2>4. Len(blocks) * D \in Nat  BY SizesAssumption
    <2>5. t = last * D  BY <1>2, <1>5, <2>2, <2>3, <2>4
    <2>6. from[1] * D + from[2] = t  BY <2>1, <2>3, <2>5
    <2> QED BY <2>6
  <1> QED BY <1>4, <1>5

-----------------------------------------------------------------------------
(* The bytes of the blocks that an operation makes. *)

LEMMA ExtendedAt ==
    ASSUME Len(blocks) \in Nat, NEW n \in Nat, Len(blocks) <= n,
           NEW q \in Nat, q < Len(blocks) * D
    PROVE  ByteAt(Extended(n), q) = ByteAt(blocks, q)
  <1> DEFINE i == q \div D + 1
  <1>1. i \in 1 .. Len(blocks)  BY IndexOf
  <1> HIDE DEF i
  <1>2. Extended(n)[i] = blocks[i]  BY <1>1 DEF Extended
  <1> QED BY <1>2 DEF ByteAt, i

LEMMA PatchedAt ==
    ASSUME NEW bs, Len(bs) \in Nat, NEW p \in Nat, NEW s, Len(s) \in Nat,
           NEW q \in Nat, q < Len(bs) * D
    PROVE  ByteAt(Patched(bs, p, s), q) =
              IF p <= q /\ q < p + Len(s) THEN s[q + 1 - p] ELSE ByteAt(bs, q)
  <1> DEFINE i == q \div D  j == q % D
             at(x, y) == (x - 1) * D + y + 1 - p
             new(x, y) == IF 1 <= at(x, y) /\ at(x, y) <= Len(s) THEN s[at(x, y)] ELSE bs[x][y]
  <1>1. i + 1 \in 1 .. Len(bs) /\ j \in 0 .. D - 1  BY IndexOf
  <1>2. i \in Nat /\ q = i * D + j  BY DivMod
  <1>3. Patched(bs, p, s) = [x \in 1 .. Len(bs) |-> [y \in 0 .. D - 1 |-> new(x, y)]]
    BY DEF Patched
  <1>4. ByteAt(bs, q) = bs[i + 1][j]
        /\ ByteAt(Patched(bs, p, s), q) = Patched(bs, p, s)[i + 1][j]
    BY DEF ByteAt
  <1>5. at(i + 1, j) = q + 1 - p
    <2> HIDE DEF i, j
    <2>1. (i + 1 - 1) * D = i * D  BY <1>2
    <2> QED BY <1>2, <2>1
  <1> HIDE DEF i, j, new
  <1>6. Patched(bs, p, s)[i + 1][j] = new(i + 1, j)  BY <1>1, <1>3
  <1>7. new(i + 1, j) = IF 1 <= q + 1 - p /\ q + 1 - p <= Len(s) THEN s[q + 1 - p] ELSE bs[i + 1][j]
    BY <1>5 DEF new
  <1>8. 1 <= q + 1 - p /\ q + 1 - p <= Len(s) <=> p <= q /\ q < p + Len(s)
    OBVIOUS
  <1> QED BY <1>4, <1>6, <1>7, <1>8

LEMMA PackedAt ==
    ASSUME NEW s, Len(s) \in Nat, NEW q \in Nat, q < Len(s)
    PROVE  ByteAt(Packed(s), q) = s[q + 1]
  <1> DEFINE m == BlocksFor(Len(s))  i == q \div D  j == q % D
             at(x, y) == (x - 1) * D + y + 1
             new(x, y) == IF at(x, y) <= Len(s) THEN s[at(x, y)] ELSE Zero
  <1>1. m \in Nat /\ Len(s) <= m * D  BY Fits
  <1>2. q < m * D
    <2> HIDE DEF m
    <2>1. m * D \in Nat  BY <1>1, SizesAssumption
    <2> QED BY <1>1, <2>1
  <1>3. i + 1 \in 1 .. m /\ j \in 0 .. D - 1
    <2> HIDE DEF m
    <2> QED BY <1>1, <1>2, IndexOf
  <1>4. i \in Nat /\ q = i * D + j  BY DivMod
  <1>5. Packed(s) = [x \in 1 .. m |-> [y \in 0 .. D - 1 |-> new(x, y)]]  BY DEF Packed
  <1>6. at(i + 1, j) = q + 1
    <2> HIDE DEF i, j
    <2>1. (i + 1 - 1) * D = i * D  BY <1>4
    <2> QED BY <1>4, <2>1
  <1>7. ByteAt(Packed(s), q) = Packed(s)[i + 1][j]  BY DEF ByteAt
  <1> HIDE DEF i, j, m, new
  <1>8. Packed(s)[i + 1][j] = new(i + 1, j)  BY <1>3, <1>5
  <1> QED BY <1>6, <1>7, <1>8 DEF new

\* Blocks from index on replaced by those packed from temp.
LEMMA ReplacedAt ==
    ASSUME NEW base \in Seq(Block), NEW index \in 0 .. Len(base),
           NEW temp \in Seq(Bytes), NEW q \in Nat
    PROVE  LET bs == SubSeq(base, 1, index) \o Packed(temp)
           IN  /\ q < index * D => ByteAt(bs, q) = ByteAt(base, q)
               /\ \A k \in Nat : q = index * D + k /\ k < Len(temp) =>
                     ByteAt(bs, q) = temp[k + 1]
  <1> DEFINE head == SubSeq(base, 1, index)  tail == Packed(temp)  bs == head \o tail
             i == q \div D  j == q % D
  <1>1. /\ head \in Seq(Block) /\ Len(head) = index
        /\ tail \in Seq(Block) /\ Len(tail) = BlocksFor(Len(temp))
    <2>1. IsSeq(temp)  BY DEF IsSeq
    <2> QED BY <2>1, PackedType, PackedIsSeq
  <1>2. ASSUME q < index * D PROVE ByteAt(bs, q) = ByteAt(base, q)
    <2>1. i + 1 \in 1 .. index  BY <1>2, IndexOf
    <2> HIDE DEF i, tail
    <2>2. head[i + 1] = base[i + 1]  BY <2>1
    <2> HIDE DEF head
    <2>3. bs[i + 1] = head[i + 1]  BY <1>1, <2>1
    <2> QED BY <2>2, <2>3 DEF ByteAt, i
  <1>3. ASSUME NEW k \in Nat, q = index * D + k, k < Len(temp)
        PROVE  ByteAt(bs, q) = temp[k + 1]
    <2> DEFINE m == BlocksFor(Len(temp))  h == k \div D
    <2>1. m \in Nat /\ Len(temp) <= m * D  BY Fits
    <2>2. k < m * D
      <3> HIDE DEF m
      <3>1. m * D \in Nat  BY <2>1, SizesAssumption
      <3> QED BY <1>3, <2>1, <3>1
    <2>3. h + 1 \in 1 .. m /\ h \in Nat
      <3>1. h \in Nat  BY DivMod
      <3> HIDE DEF m, h
      <3>2. k \div D + 1 \in 1 .. m  BY <2>1, <2>2, IndexOf
      <3> QED BY <3>1, <3>2 DEF h
    <2>4. i = index + h /\ j = k % D  BY <1>3, Shifted
    <2>5. ByteAt(tail, k) = tail[h + 1][k % D] /\ ByteAt(bs, q) = bs[i + 1][j]
      BY DEF ByteAt
    <2>6. ByteAt(tail, k) = temp[k + 1]  BY <1>3, PackedAt
    <2> HIDE DEF m, h, i, j, tail, head
    <2>7. bs[i + 1] = tail[h + 1]
      <3>1. i + 1 = Len(head) + (h + 1) /\ Len(tail) = m  BY <1>1, <2>3, <2>4 DEF m
      <3> QED BY <1>1, <2>3, <3>1
    <2> QED BY <2>4, <2>5, <2>6, <2>7
  <1> QED BY <1>2, <1>3

-----------------------------------------------------------------------------
(* TypeOK *)

LEMMA IndTyped == ASSUME IndInv, blocks \in Seq(Block) PROVE TypeOK
BY DEF IndInv, TypeOK

\* What insert packs.
LEMMA InsertedType ==
    ASSUME IndInv, isOpen, blocks \in Seq(Block),
           NEW offset \in Nat, offset <= size, NEW s \in Strings,
           NEW n \in Nat, Len(blocks) <= n
    PROVE  LET base == Extended(n)
               index == offset \div D
           IN  /\ Inserted(base, offset, s) \in Seq(Bytes)
               /\ Copied(base, index * D, offset % D) \in Seq(Bytes)
               /\ Len(Copied(base, index * D, offset % D)) = offset % D
               /\ [k \in 1 .. size - offset |-> base[index + 1][(offset + k - 1) % D]]
                     \in Seq(Bytes)
  <1> DEFINE base == Extended(n)
             index == offset \div D
             oib == offset % D
             head == Copied(base, index * D, oib)
             rest == [k \in 1 .. size - offset |-> base[index + 1][(offset + k - 1) % D]]
  <1>1. /\ size \in Nat /\ Len(blocks) \in Nat /\ size <= Len(blocks) * D
        /\ D \in Nat \ {0}
    BY OpenFacts
  <1>2. base \in Seq(Block) /\ Len(base) = n  BY ExtendedType, ExtendedIsSeq
  <1>3. index \in Nat /\ oib \in 0 .. D - 1 /\ oib \in Nat /\ offset = index * D + oib
    <2>1. index \in Nat /\ oib \in 0 .. D - 1 /\ offset = index * D + oib  BY DivMod
    <2> HIDE DEF oib
    <2> QED BY <1>1, <2>1
  <1>4. size <= n * D
    <2>1. Len(blocks) * D <= n * D /\ n * D \in Nat /\ Len(blocks) * D \in Nat  BY <1>1
    <2> QED BY <1>1, <2>1
  <1>5. head \in Seq(Bytes) /\ Len(head) = oib
    <2>1. index * D \in Nat  BY <1>1, <1>3
    <2>2. index * D + oib <= Len(base) * D
      <3> HIDE DEF index, oib, base
      <3>1. n * D \in Nat /\ size \in Nat  BY <1>1
      <3> QED BY <1>2, <1>3, <1>4, <3>1
    <2> HIDE DEF base, index, oib
    <2> QED BY <1>2, <1>3, <2>1, <2>2, CopiedType, CopiedIsSeq
  <1>6. rest \in Seq(Bytes)
    <2>1. ASSUME NEW k \in 1 .. size - offset
          PROVE  base[index + 1][(offset + k - 1) % D] \in Bytes
      <3>1. offset < size  BY <1>1
      <3>2. offset < n * D
        <4>1. n * D \in Nat  BY <1>1
        <4> QED BY <1>1, <1>4, <3>1, <4>1
      <3>3. index + 1 \in 1 .. n  BY <3>2, IndexOf
      <3>4. offset + k - 1 \in Nat  BY <1>1
      <3>5. (offset + k - 1) % D \in 0 .. D - 1  BY <3>4, DivMod
      <3> HIDE DEF base, index
      <3>6. base[index + 1] \in Block  BY <1>2, <3>3
      <3> QED BY <3>5, <3>6 DEF Block
    <2>2. size - offset \in Nat  BY <1>1
    <2>3. rest \in [1 .. size - offset -> Bytes]  BY <2>1
    <2> HIDE DEF rest
    <2> QED BY <2>2, <2>3
  <1>7. s \in Seq(Bytes)  BY BytesAssumption
  <1>8. Inserted(base, offset, s) = head \o s \o rest  BY DEF Inserted
  <1> HIDE DEF head, rest
  <1>9. head \o s \o rest \in Seq(Bytes)  BY <1>5, <1>6, <1>7
  <1> QED BY <1>5, <1>6, <1>8, <1>9 DEF head, rest

LEMMA MovedType ==
    ASSUME NEW base \in Seq(Block), NEW index \in 0 .. Len(base),
           NEW temp \in Seq(Bytes), NEW room, NEW n, Moved(base, index, temp, room, n)
    PROVE  blocks' \in Seq(Block)
  <1>1. Packed(temp) \in Seq(Block)  BY PackedType
  <1>2. SubSeq(base, 1, index) \in Seq(Block)  OBVIOUS
  <1>3. SubSeq(base, 1, index) \o Packed(temp) \in Seq(Block)
    BY <1>1, <1>2
  <1> QED BY <1>3 DEF Moved

\* The pieces that remove packs: what lies before the removed bytes in their
\* block, and what lies after them.
LEMMA RemovedPieces ==
    ASSUME IndInv, isOpen, blocks \in Seq(Block),
           NEW offset \in Nat, offset < size, NEW n \in Nat, n <= size - offset
    PROVE  LET index == offset \div D
               oib == offset % D
               from == Skipped(index, oib, n)
               p == from[1] * D + from[2]
           IN  /\ index \in 0 .. Len(blocks) /\ oib \in Nat /\ offset = index * D + oib
               /\ p = offset + n
               /\ Copied(blocks, index * D, oib) \in Seq(Bytes)
               /\ Len(Copied(blocks, index * D, oib)) = oib
               /\ Copied(blocks, p, size - offset - n) \in Seq(Bytes)
               /\ Len(Copied(blocks, p, size - offset - n)) = size - offset - n
  <1> DEFINE index == offset \div D
             oib == offset % D
             from == Skipped(index, oib, n)
             p == from[1] * D + from[2]
             m == size - offset - n
  <1>1. /\ size \in Nat /\ size <= MaxSize /\ Len(blocks) \in Nat
        /\ size <= Len(blocks) * D /\ D \in Nat \ {0} /\ MaxSize \in Nat
    BY OpenFacts
  <1>2. /\ index \in Nat /\ oib \in 0 .. D - 1 /\ oib \in Nat
        /\ offset = index * D + oib
    <2>1. index \in Nat /\ oib \in 0 .. D - 1 /\ offset = index * D + oib  BY DivMod
    <2> HIDE DEF oib
    <2> QED BY <1>1, <2>1
  <1>3. index \in 0 .. Len(blocks)
    <2>1. offset <= Len(blocks) * D
      <3>1. Len(blocks) * D \in Nat  BY <1>1
      <3> QED BY <1>1, <3>1
    <2>2. index <= Len(blocks)  BY <1>1, <2>1, Position
    <2> HIDE DEF index
    <2> QED BY <1>1, <1>2, <2>2
  <1>4. Len(blocks) * D \in Nat /\ index * D \in Nat
    <2> HIDE DEF index
    <2> QED BY <1>1, <1>2
  <1>5. n \in 0 .. MaxSize /\ m \in Nat  BY <1>1
  <1> HIDE DEF index, oib
  <1>6. index * D + oib + n <= Len(blocks) * D  BY <1>1, <1>2, <1>4
  <1>7. p = offset + n  BY <1>1, <1>2, <1>3, <1>5, <1>6, SkippedPlace
  <1>8. /\ Copied(blocks, index * D, oib) \in Seq(Bytes)
        /\ Len(Copied(blocks, index * D, oib)) = oib
    <2>1. index * D + oib <= Len(blocks) * D  BY <1>1, <1>2, <1>4, <1>6
    <2> QED BY <1>2, <1>4, <2>1, CopiedType, CopiedIsSeq
  <1> HIDE DEF p
  <1>9. Copied(blocks, p, m) \in Seq(Bytes) /\ Len(Copied(blocks, p, m)) = m
    <2>1. p + m <= Len(blocks) * D /\ p \in Nat  BY <1>1, <1>4, <1>7
    <2> HIDE DEF m
    <2> QED BY <1>5, <2>1, CopiedType, CopiedIsSeq
  <1> QED BY <1>2, <1>3, <1>7, <1>8, <1>9 DEF index, oib, p, m

LEMMA WriteTyped ==
    ASSUME IndInv, TypeOK, NEW offset \in 0 .. MaxSize, NEW s \in Strings,
           NEW room \in 0 .. Room, Write(offset, s, room)
    PROVE  blocks' \in Seq(Block)
  <1> DEFINE got == Obtained(Wanted(offset, s), room)
  <1>1. isOpen /\ blocks \in Seq(Block)  BY DEF Write, TypeOK
  <1>2. Len(blocks) \in Nat /\ D \in Nat \ {0} /\ room \in Nat /\ offset \in Nat
    BY <1>1, OpenFacts, SizesAssumption
  <1>3. s \in Seq(Bytes)  BY BytesAssumption
  <1>4. got \in Nat
    <2>1. BlocksFor(offset + Len(s)) \in Nat  BY <1>2, <1>3, Fits
    <2>2. Wanted(offset, s) \in Nat /\ Len(blocks) <= Wanted(offset, s)
      BY <1>2, <2>1 DEF Wanted, Larger
    <2> QED BY <1>2, <2>2, ObtainedFacts
  <1>5. blocks' = Patched(Extended(got), offset, s)  BY DEF Write
  <1> HIDE DEF got
  <1> QED BY <1>1, <1>2, <1>3, <1>4, <1>5, ExtendedType, PatchedType

\* The blocks that insert works on: those there are, and the one at offset.
LEMMA InsertBase ==
    ASSUME IndInv, isOpen, NEW offset \in Nat, offset <= size, NEW room \in Nat
    PROVE  LET index == offset \div D
               n == Obtained(Larger(Len(blocks), index + 1), room)
           IN  /\ n \in Nat /\ Len(blocks) <= n
               /\ index \in 0 .. Len(blocks) /\ index \in 0 .. n
  <1> DEFINE index == offset \div D
             n == Obtained(Larger(Len(blocks), index + 1), room)
  <1>1. Len(blocks) \in Nat /\ size \in Nat /\ size <= Len(blocks) * D /\ D \in Nat \ {0}
    BY OpenFacts
  <1>2. offset <= Len(blocks) * D
    <2>1. Len(blocks) * D \in Nat  BY <1>1
    <2> QED BY <1>1, <2>1
  <1>3. index \in Nat /\ index <= Len(blocks)  BY <1>1, <1>2, Position
  <1> HIDE DEF index
  <1>4. Larger(Len(blocks), index + 1) \in Nat /\ Len(blocks) <= Larger(Len(blocks), index + 1)
    BY <1>1, <1>3 DEF Larger
  <1>5. n \in Nat /\ Len(blocks) <= n  BY <1>1, <1>4, ObtainedFacts
  <1> HIDE DEF n
  <1>6. index \in 0 .. Len(blocks) /\ index \in 0 .. n  BY <1>1, <1>3, <1>5
  <1> QED BY <1>5, <1>6 DEF index, n

LEMMA InsertTyped ==
    ASSUME IndInv, TypeOK, NEW offset \in 0 .. MaxSize, NEW s \in Strings,
           NEW room \in 0 .. Room, Insert(offset, s, room)
    PROVE  blocks' \in Seq(Block)
  <1> DEFINE index == offset \div D
             n == Obtained(Larger(Len(blocks), index + 1), room)
             base == Extended(n)
             temp == Inserted(base, offset, s)
  <1>1. isOpen /\ blocks \in Seq(Block) /\ offset <= size  BY DEF Insert, TypeOK
  <1>2. room \in Nat /\ offset \in Nat  BY SizesAssumption
  <1>3. n \in Nat /\ Len(blocks) <= n /\ index \in 0 .. n
    BY <1>1, <1>2, InsertBase
  <1>4. Moved(base, index, temp, room - (Len(base) - Len(blocks)), size + Len(s))
    BY DEF Insert
  <1> HIDE DEF n
  <1>5. temp \in Seq(Bytes)  BY <1>1, <1>2, <1>3, InsertedType
  <1>6. base \in Seq(Block) /\ Len(base) = n  BY <1>1, <1>3, ExtendedType, ExtendedIsSeq
  <1> HIDE DEF index, base, temp
  <1> QED BY <1>3, <1>4, <1>5, <1>6, MovedType

LEMMA RemoveFacts ==
    ASSUME IndInv, NEW offset \in 0 .. MaxSize, NEW n \in 0 .. MaxSize,
           NEW room, Remove(offset, n, room)
    PROVE  LET length == Smaller(n, size - offset)
           IN  /\ isOpen /\ offset \in Nat /\ offset < size
               /\ length \in Nat /\ length <= size - offset /\ length \in 0 .. MaxSize
  <1>1. isOpen /\ offset < size  BY DEF Remove, Cut
  <1>2. size \in Nat /\ size <= MaxSize /\ MaxSize \in Nat  BY <1>1, OpenFacts
  <1> QED BY <1>1, <1>2 DEF Smaller

LEMMA RemoveTyped ==
    ASSUME IndInv, TypeOK, NEW offset \in 0 .. MaxSize, NEW n \in 0 .. MaxSize,
           NEW room \in 0 .. Room, Remove(offset, n, room)
    PROVE  blocks' \in Seq(Block)
  <1> DEFINE length == Smaller(n, size - offset)
             index == offset \div D
             oib == offset % D
             from == Skipped(index, oib, length)
             p == from[1] * D + from[2]
             head == Copied(blocks, index * D, oib)
             rest == Copied(blocks, p, size - offset - length)
  <1>1. Moved(blocks, index, head \o rest, room, size - length)  BY DEF Remove, Cut
  <1>2. /\ isOpen /\ offset \in Nat /\ offset < size
        /\ length \in Nat /\ length <= size - offset
    BY RemoveFacts
  <1>3. blocks \in Seq(Block)  BY DEF TypeOK
  <1> HIDE DEF length
  <1>4. index \in 0 .. Len(blocks) /\ head \in Seq(Bytes) /\ rest \in Seq(Bytes)
    BY <1>2, <1>3, RemovedPieces
  <1> HIDE DEF index, oib, p, head, rest
  <1>5. head \o rest \in Seq(Bytes)  BY <1>4
  <1> QED BY <1>1, <1>3, <1>4, <1>5, MovedType

LEMMA OthersTyped ==
    ASSUME IndInv, TypeOK,
           \/ RemoveAll
           \/ \E n \in 0 .. MaxSize, room \in 0 .. Room : Grow(n, room)
           \/ \E n \in 0 .. MaxSize : Shrink(n)
           \/ \E saved \in 0 .. Len(blocks) : Close(saved)
           \/ Open
    PROVE  blocks' \in Seq(Block)
  <1>1. blocks \in Seq(Block) /\ Len(blocks) \in Nat  BY DEF TypeOK
  <1>2. CASE RemoveAll  BY <1>2 DEF RemoveAll
  <1>3. ASSUME NEW n \in 0 .. MaxSize, NEW room \in 0 .. Room, Grow(n, room)
        PROVE  blocks' \in Seq(Block)
    <2> DEFINE got == Obtained(Larger(Len(blocks), BlocksFor(n)), room)
    <2>1. got \in Nat
      <3>1. BlocksFor(n) \in Nat /\ room \in Nat  BY Fits, SizesAssumption
      <3>2. /\ Larger(Len(blocks), BlocksFor(n)) \in Nat
            /\ Len(blocks) <= Larger(Len(blocks), BlocksFor(n))
        BY <1>1, <3>1 DEF Larger
      <3> QED BY <1>1, <3>1, <3>2, ObtainedFacts
    <2>2. blocks' = Extended(got)  BY <1>3 DEF Grow
    <2> HIDE DEF got
    <2> QED BY <1>1, <2>1, <2>2, ExtendedType
  <1>4. ASSUME NEW n \in 0 .. MaxSize, Shrink(n) PROVE blocks' \in Seq(Block)
    <2> DEFINE m == BlocksFor(n)
    <2>1. blocks' = SubSeq(blocks, 1, m) /\ n < size /\ isOpen  BY <1>4 DEF Shrink
    <2>2. size \in Nat /\ size <= Len(blocks) * D /\ n \in Nat /\ D \in Nat
      BY <2>1, OpenFacts, SizesAssumption
    <2>3. n <= Len(blocks) * D
      <3>1. Len(blocks) * D \in Nat  BY <1>1, <2>2
      <3> QED BY <2>1, <2>2, <3>1
    <2>4. m \in Nat /\ m <= Len(blocks)  BY <1>1, <2>2, <2>3, Fits
    <2> HIDE DEF m
    <2> QED BY <1>1, <2>1, <2>4
  <1>5. ASSUME NEW saved \in 0 .. Len(blocks), Close(saved) PROVE blocks' \in Seq(Block)
    BY <1>1, <1>5 DEF Close
  <1>6. CASE Open
    <2> DEFINE m == BlocksFor(size)
    <2>1. blocks' = IF m <= Len(blocks) THEN SubSeq(blocks, 1, m) ELSE blocks
      BY <1>6 DEF Open, Loadable
    <2>2. m \in Nat
      <3>1. size \in Nat  BY SizesAssumption DEF IndInv
      <3> QED BY <3>1, Fits
    <2> HIDE DEF m
    <2> QED BY <1>1, <2>1, <2>2
  <1> QED BY <1>2, <1>3, <1>4, <1>5, <1>6

\* The types, kept together with the invariant above.
THEOREM TypesInductive == IndInv /\ TypeOK /\ [Next]_vars => TypeOK'
  <1> SUFFICES ASSUME IndInv, TypeOK, [Next]_vars PROVE TypeOK'  OBVIOUS
  <1>1. IndInv'  BY Inductive
  <1>2. blocks' \in Seq(Block)
    <2>1. CASE UNCHANGED vars  BY <2>1 DEF vars, TypeOK
    <2>2. CASE Next
      <3>1. ASSUME NEW offset \in 0 .. MaxSize, NEW s \in Strings, NEW room \in 0 .. Room,
                   Write(offset, s, room) \/ Insert(offset, s, room)
            PROVE  blocks' \in Seq(Block)
        BY <3>1, WriteTyped, InsertTyped
      <3>2. ASSUME NEW offset \in 0 .. MaxSize, NEW n \in 0 .. MaxSize,
                   NEW room \in 0 .. Room, Remove(offset, n, room)
            PROVE  blocks' \in Seq(Block)
        BY <3>2, RemoveTyped
      <3> QED BY <2>2, <3>1, <3>2, OthersTyped DEF Next
    <2> QED BY <2>1, <2>2
  <1> QED BY <1>1, <1>2 DEF IndInv, TypeOK

\* Every block holds D bytes, after any operation (isOpen, size, blocks).
THEOREM TypeCorrect == Spec => []TypeOK
  <1>1. Init => TypeOK
    BY SizesAssumption DEF Init, TypeOK
  <1> QED BY <1>1, Invariance, TypesInductive, PTL DEF Spec

-----------------------------------------------------------------------------
(* The abstract file (File). *)

\* What the user of the file sees (bytes of File).
Seen == IF Loadable THEN ReadAll ELSE << >>

LEMMA OpenSeen ==
    IndInv /\ isOpen =>
        /\ Loadable /\ size \in Nat
        /\ Seen = [k \in 1 .. size |-> ByteAt(blocks, k - 1)]
        /\ Len(Seen) = size
  <1> SUFFICES ASSUME IndInv, isOpen
               PROVE  /\ Loadable /\ size \in Nat
                      /\ Seen = [k \in 1 .. size |-> ByteAt(blocks, k - 1)]
                      /\ Len(Seen) = size
    OBVIOUS
  <1>1. Loadable /\ size \in Nat  BY OpenFacts DEF IndInv, Backed
  <1>2. Seen = Copied(blocks, 0, size)  BY <1>1 DEF Seen, ReadAll
  <1>3. ASSUME NEW k \in 1 .. size PROVE 0 + k - 1 = k - 1  BY <1>1
  <1>4. Seen = [k \in 1 .. size |-> ByteAt(blocks, k - 1)]
    BY <1>2, <1>3 DEF Copied, ByteAt
  <1>5. Len(Seen) = size  BY <1>1, <1>2, CopiedIsSeq
  <1> QED BY <1>1, <1>4, <1>5

\* A step of an open file, seen from outside.
LEMMA StepSeen ==
    ASSUME IndInv, IndInv', isOpen, isOpen'
    PROVE  /\ Loadable /\ Loadable' /\ size \in Nat /\ size' \in Nat
           /\ Seen = [k \in 1 .. size |-> ByteAt(blocks, k - 1)]
           /\ Seen' = [k \in 1 .. size' |-> ByteAt(blocks', k - 1)]
           /\ Len(Seen) = size /\ Len(Seen') = size'
  <1>1. /\ Loadable' /\ size' \in Nat
        /\ Seen' = [k \in 1 .. size' |-> ByteAt(blocks', k - 1)]
        /\ Len(Seen') = size'
    <2>1. (IndInv /\ isOpen)'  OBVIOUS
    <2>2. (/\ Loadable /\ size \in Nat
           /\ Seen = [k \in 1 .. size |-> ByteAt(blocks, k - 1)]
           /\ Len(Seen) = size)'
      BY <2>1, OpenSeen, PTL
    <2> QED BY <2>2 DEF ByteAt
  <1> QED BY <1>1, OpenSeen

\* The bytes below the size do not change when only blocks are added.
LEMMA SameSeen ==
    ASSUME IndInv, IndInv', isOpen, isOpen', size' = size,
           \A q \in Nat : q < size => ByteAt(blocks', q) = ByteAt(blocks, q)
    PROVE  Seen' = Seen /\ Loadable' = Loadable
  <1>1. /\ Loadable /\ Loadable' /\ size \in Nat
        /\ Seen = [k \in 1 .. size |-> ByteAt(blocks, k - 1)]
        /\ Seen' = [k \in 1 .. size |-> ByteAt(blocks', k - 1)]
    BY StepSeen
  <1>2. ASSUME NEW k \in 1 .. size PROVE ByteAt(blocks', k - 1) = ByteAt(blocks, k - 1)
    BY <1>1
  <1> QED BY <1>1, <1>2

LEMMA ExtendedSeen ==
    ASSUME IndInv, IndInv', isOpen, isOpen', size' = size,
           NEW n \in Nat, Len(blocks) <= n, blocks' = Extended(n)
    PROVE  Seen' = Seen /\ Loadable' = Loadable
  <1>1. Len(blocks) \in Nat /\ size \in Nat /\ size <= Len(blocks) * D /\ D \in Nat
    BY OpenFacts
  <1>2. ASSUME NEW q \in Nat, q < size PROVE ByteAt(blocks', q) = ByteAt(blocks, q)
    <2>1. q < Len(blocks) * D
      <3>1. Len(blocks) * D \in Nat  BY <1>1
      <3> QED BY <1>1, <1>2, <3>1
    <2> QED BY <1>1, <2>1, ExtendedAt
  <1> QED BY <1>2, SameSeen

LEMMA WriteView ==
    ASSUME IndInv, IndInv', NEW offset \in 0 .. MaxSize, NEW s \in Strings,
           NEW room \in 0 .. Room, Write(offset, s, room)
    PROVE  Content!FWrite(offset, s) \/ Content!FWriteShort(offset, s)
  <1> DEFINE want == Wanted(offset, s)
             got == Obtained(want, room)
             end == offset + Len(s)
  <1>1. isOpen /\ isOpen' /\ offset <= size  BY DEF Write
  <1>2. /\ Loadable /\ Loadable' /\ size \in Nat /\ size' \in Nat
        /\ Seen = [k \in 1 .. size |-> ByteAt(blocks, k - 1)]
        /\ Seen' = [k \in 1 .. size' |-> ByteAt(blocks', k - 1)]
        /\ Len(Seen) = size /\ Len(Seen') = size'
    BY <1>1, StepSeen
  <1>3. /\ Len(blocks) \in Nat /\ size <= Len(blocks) * D /\ D \in Nat \ {0}
        /\ room \in Nat /\ offset \in Nat /\ Len(s) \in Nat /\ end \in Nat
        /\ (s = << >> => Len(s) = 0)
    BY <1>1, OpenFacts, StringIsSeq, SizesAssumption
  <1>4. /\ want \in Nat /\ Len(blocks) <= want
        /\ want = Len(blocks) \/ (BlocksFor(end) = want /\ Len(blocks) < want)
    <2>1. BlocksFor(end) \in Nat  BY <1>3, Fits
    <2> QED BY <1>3, <2>1 DEF Wanted, Larger
  <1>5. got \in Nat /\ Len(blocks) <= got /\ got <= want  BY <1>3, <1>4, ObtainedFacts
  <1>6. blocks' = Patched(Extended(got), offset, s)
        /\ size' = IF got = want THEN Larger(size, end) ELSE size
    BY DEF Write
  <1> HIDE DEF want, got, end
  <1>7. Len(blocks') = got /\ IsSeq(blocks') /\ IsSeq(Extended(got)) /\ Len(Extended(got)) = got
    BY <1>5, <1>6, ExtendedIsSeq, PatchedIsSeq
  <1>8. size' <= got * D
    <2>1. BlocksFor(size') <= Len(blocks')  BY <1>2 DEF Loadable, BlocksFor
    <2>2. BlocksFor(size') <= got  BY <1>7, <2>1
    <2> QED BY <1>2, <1>5, <2>2, Fits
  <1>9. ASSUME NEW q \in Nat, q < size'
        PROVE  ByteAt(blocks', q) = IF offset <= q /\ q < end THEN s[q + 1 - offset]
                                    ELSE ByteAt(Extended(got), q)
    <2>1. q < got * D
      <3> DEFINE m == size'
      <3>1. got * D \in Nat /\ m \in Nat /\ m <= got * D  BY <1>2, <1>3, <1>5, <1>8
      <3> HIDE DEF m
      <3>2. q < m  BY <1>9 DEF m
      <3> QED BY <3>1, <3>2
    <2>2. q < Len(Extended(got)) * D  BY <1>7, <2>1
    <2> DEFINE ext == Extended(got)
    <2>3. Len(ext) \in Nat /\ q < Len(ext) * D  BY <1>5, <1>7, <2>2
    <2>4. blocks' = Patched(ext, offset, s)  BY <1>6
    <2> HIDE DEF ext
    <2>5. ByteAt(Patched(ext, offset, s), q) =
            IF offset <= q /\ q < offset + Len(s) THEN s[q + 1 - offset] ELSE ByteAt(ext, q)
      BY <1>3, <2>3, PatchedAt
    <2> QED BY <2>4, <2>5 DEF ext, end
  <1>10. ASSUME NEW q \in Nat, q < size
         PROVE  ByteAt(Extended(got), q) = ByteAt(blocks, q)
    <2>1. q < Len(blocks) * D
      <3>1. Len(blocks) * D \in Nat  BY <1>3
      <3> QED BY <1>2, <1>3, <1>10, <3>1
    <2> QED BY <1>3, <1>5, <2>1, ExtendedAt
  <1>11. size' = Larger(size, end) \/ (size' = size /\ size < end)
    <2>1. CASE got = want  BY <1>6, <2>1
    <2>2. CASE got # want
      <3>1. BlocksFor(end) = want /\ Len(blocks) < want  BY <1>3, <1>4, <1>5, <2>2
      <3>2. ~(BlocksFor(end) <= Len(blocks))  BY <1>3, <1>4, <3>1
      <3>3. ~(end <= Len(blocks) * D)  BY <1>3, <3>2, Fits DEF end
      <3>4. Len(blocks) * D \in Nat /\ end \in Nat  BY <1>3
      <3>5. size < end  BY <1>2, <1>3, <3>3, <3>4
      <3> QED BY <1>6, <2>2, <3>5
    <2> QED BY <2>1, <2>2
  <1>12. ASSUME NEW k \in 1 .. size'
         PROVE  Seen'[k] = IF offset < k /\ k <= end THEN s[k - offset] ELSE Seen[k]
    <2> DEFINE m == size'
    <2>1. k - 1 \in Nat /\ k - 1 < m /\ k \in Nat
      <3>1. m \in Nat /\ k \in 1 .. m  BY <1>2
      <3> HIDE DEF m
      <3> QED BY <3>1
    <2>2. Seen'[k] = ByteAt(blocks', k - 1)  BY <1>2
    <2>3. ByteAt(blocks', k - 1) = IF offset <= k - 1 /\ k - 1 < end THEN s[k - 1 + 1 - offset]
                                   ELSE ByteAt(Extended(got), k - 1)
      BY <1>9, <2>1
    <2>4. /\ offset <= k - 1 <=> offset < k
          /\ k - 1 < end <=> k <= end
          /\ k - 1 + 1 - offset = k - offset
      BY <1>3, <2>1
    <2>5. CASE offset < k /\ k <= end  BY <2>2, <2>3, <2>4, <2>5
    <2>6. CASE ~(offset < k /\ k <= end)
      <3>1. k - 1 < size
        <4>1. m \in Nat /\ (m = Larger(size, end) \/ m = size)  BY <1>2, <1>11
        <4> HIDE DEF m
        <4> QED BY <1>1, <1>2, <1>3, <2>1, <2>6, <4>1 DEF Larger
      <3>2. k \in 1 .. size  BY <1>2, <2>1, <3>1
      <3>3. Seen[k] = ByteAt(blocks, k - 1)  BY <1>2, <3>2
      <3>4. ByteAt(Extended(got), k - 1) = ByteAt(blocks, k - 1)  BY <1>10, <2>1, <3>1
      <3> QED BY <2>2, <2>3, <2>4, <2>6, <3>3, <3>4
    <2> QED BY <2>5, <2>6
  <1>13. Seen' = [k \in 1 .. size' |-> IF offset < k /\ k <= offset + Len(s) THEN s[k - offset] ELSE Seen[k]]
    BY <1>2, <1>12 DEF end
  <1>14. offset <= Len(Seen) /\ Loadable' = Loadable  BY <1>1, <1>2
  <1>15. CASE size' = Larger(size, end)
    <2>1. Larger(size, end) = Content!Longer(Len(Seen), offset + Len(s))
      BY <1>2 DEF Larger, Content!Longer, end
    <2>2. Seen' = Content!Overwritten(offset, s, Content!Longer(Len(Seen), offset + Len(s)))
      BY <1>13, <1>15, <2>1 DEF Content!Overwritten, Seen
    <2> QED BY <1>14, <2>2 DEF Content!FWrite, Seen
  <1>16. CASE size' = size /\ size < end
    <2>1. Seen' = Content!Overwritten(offset, s, Len(Seen))
      BY <1>2, <1>13, <1>16 DEF Content!Overwritten, Seen
    <2>2. offset + Len(s) > Len(Seen)  BY <1>2, <1>3, <1>16 DEF end
    <2> QED BY <1>14, <2>1, <2>2 DEF Content!FWriteShort, Seen
  <1> QED BY <1>11, <1>15, <1>16

LEMMA SeenType == IndInv /\ TypeOK /\ isOpen => Seen \in Seq(Bytes)
  <1> SUFFICES ASSUME IndInv, TypeOK, isOpen PROVE Seen \in Seq(Bytes)  OBVIOUS
  <1>1. /\ size \in Nat /\ Len(blocks) \in Nat /\ size <= Len(blocks) * D
        /\ blocks \in Seq(Block)
    BY OpenFacts DEF TypeOK
  <1>2. Seen = Copied(blocks, 0, size)  BY OpenSeen DEF Seen, ReadAll
  <1> QED BY <1>1, <1>2, CopiedType

\* Three sequences in a row.
LEMMA JoinedAt ==
    ASSUME NEW S, NEW a \in Seq(S), NEW b \in Seq(S), NEW c \in Seq(S),
           NEW t, t = a \o b \o c
    PROVE  /\ Len(t) = Len(a) + Len(b) + Len(c)
           /\ \A k \in 1 .. Len(a) : t[k] = a[k]
           /\ \A k \in 1 .. Len(b) : t[Len(a) + k] = b[k]
           /\ \A k \in 1 .. Len(c) : t[Len(a) + Len(b) + k] = c[k]
  <1> DEFINE ab == a \o b  abc == ab \o c
  <1>1. /\ ab \in Seq(S) /\ Len(ab) = Len(a) + Len(b)
        /\ \A i \in 1 .. Len(a) + Len(b) : ab[i] = IF i <= Len(a) THEN a[i] ELSE b[i - Len(a)]
    BY ConcatProperties
  <1> HIDE DEF ab
  <1>2. /\ Len(abc) = Len(ab) + Len(c)
        /\ \A i \in 1 .. Len(ab) + Len(c) : abc[i] = IF i <= Len(ab) THEN ab[i] ELSE c[i - Len(ab)]
    <2>1. ab \in Seq(S)  BY <1>1
    <2> QED BY <2>1, ConcatProperties, Zenon
  <1> HIDE DEF abc
  <1>3. Len(a) \in Nat /\ Len(b) \in Nat /\ Len(c) \in Nat  OBVIOUS
  <1>4. ASSUME NEW k \in 1 .. Len(a) PROVE abc[k] = a[k]
    BY <1>1, <1>2, <1>3
  <1>5. ASSUME NEW k \in 1 .. Len(b) PROVE abc[Len(a) + k] = b[k]
    <2>1. Len(a) + k \in 1 .. Len(ab) + Len(c) /\ Len(a) + k \in 1 .. Len(a) + Len(b)
          /\ Len(a) + k <= Len(ab) /\ ~(Len(a) + k <= Len(a)) /\ Len(a) + k - Len(a) = k
      BY <1>1, <1>3
    <2> QED BY <1>1, <1>2, <2>1
  <1>6. ASSUME NEW k \in 1 .. Len(c) PROVE abc[Len(a) + Len(b) + k] = c[k]
    <2>1. /\ Len(a) + Len(b) + k \in 1 .. Len(ab) + Len(c)
          /\ ~(Len(a) + Len(b) + k <= Len(ab)) /\ Len(a) + Len(b) + k - Len(ab) = k
      BY <1>1, <1>3
    <2> QED BY <1>2, <2>1
  <1>7. Len(abc) = Len(a) + Len(b) + Len(c)  BY <1>1, <1>2
  <1>8. t = abc  BY DEF abc, ab
  <1> QED BY <1>4, <1>5, <1>6, <1>7, <1>8

LEMMA SameStart ==
    ASSUME NEW S, NEW x \in Seq(S), NEW y \in Seq(S), NEW s \in Seq(S),
           NEW p \in 0 .. Len(x), p + Len(s) <= Len(y),
           \A k \in 1 .. p : y[k] = x[k],
           \A k \in 1 .. Len(s) : y[p + k] = s[k]
    PROVE  SubSeq(y, 1, p + Len(s)) = SubSeq(x, 1, p) \o s
  <1> DEFINE l == SubSeq(y, 1, p + Len(s))  h == SubSeq(x, 1, p)  r == h \o s
  <1>0. Len(s) \in Nat /\ Len(x) \in Nat /\ Len(y) \in Nat /\ p \in Nat  OBVIOUS
  <1>1. /\ l \in Seq(S) /\ Len(l) = p + Len(s)
        /\ \A i \in 1 .. p + Len(s) : l[i] = y[i]
    BY <1>0
  <1>2. h \in Seq(S) /\ Len(h) = p /\ \A i \in 1 .. p : h[i] = x[i]
    BY <1>0
  <1> HIDE DEF l, h
  <1>3. /\ r \in Seq(S) /\ Len(r) = p + Len(s)
        /\ \A i \in 1 .. p + Len(s) : r[i] = IF i <= p THEN h[i] ELSE s[i - p]
    BY <1>2, ConcatProperties
  <1> HIDE DEF r
  <1>4. ASSUME NEW i \in 1 .. p + Len(s) PROVE l[i] = r[i]
    <2>1. CASE i <= p
      <3>1. i \in 1 .. p  BY <1>0, <2>1
      <3> QED BY <1>1, <1>2, <1>3, <2>1, <3>1
    <2>2. CASE ~(i <= p)
      <3>1. i - p \in 1 .. Len(s) /\ p + (i - p) = i  BY <1>0, <2>2
      <3> QED BY <1>1, <1>3, <2>2, <3>1
    <2> QED BY <2>1, <2>2
  <1>5. l = r  BY <1>1, <1>3, <1>4, SeqEqual
  <1> QED BY <1>5 DEF l, r, h

LEMMA EndOf ==
    ASSUME NEW S, NEW x \in Seq(S), NEW p \in Nat, NEW n \in Nat, Len(x) = p + n
    PROVE  LET r == SubSeq(x, p + 1, Len(x))
           IN  r \in Seq(S) /\ Len(r) = n /\ \A i \in 1 .. n : r[i] = x[p + i]
  <1> DEFINE m == Len(x)  r == SubSeq(x, p + 1, m)
  <1>1. \A i \in p + 1 .. m : x[i] \in S  OBVIOUS
  <1>2. p + 1 \in Int /\ m \in Int  OBVIOUS
  <1> HIDE DEF m
  <1>3. /\ r \in Seq(S) /\ Len(r) = IF p + 1 <= m THEN m - (p + 1) + 1 ELSE 0
        /\ \A i \in 1 .. m - (p + 1) + 1 : r[i] = x[p + 1 + i - 1]
    BY <1>1, <1>2, SubSeqProperties
  <1> HIDE DEF r
  <1>4. m = p + n  BY DEF m
  <1>5. Len(r) = n  BY <1>3, <1>4
  <1>6. ASSUME NEW i \in 1 .. n PROVE r[i] = x[p + i]
    <2>1. i \in 1 .. m - (p + 1) + 1 /\ p + 1 + i - 1 = p + i  BY <1>4
    <2> QED BY <1>3, <2>1
  <1> QED BY <1>3, <1>5, <1>6 DEF r, m

LEMMA SameEnd ==
    ASSUME NEW S, NEW x \in Seq(S), NEW y \in Seq(S), NEW p \in Nat, NEW q \in Nat,
           p <= Len(x), Len(y) - q = Len(x) - p,
           \A k \in 1 .. Len(x) - p : y[q + k] = x[p + k]
    PROVE  SubSeq(y, q + 1, Len(y)) = SubSeq(x, p + 1, Len(x))
  <1> DEFINE l == SubSeq(y, q + 1, Len(y))  r == SubSeq(x, p + 1, Len(x))  n == Len(x) - p
  <1>0. Len(x) \in Nat /\ Len(y) \in Nat /\ n \in Nat /\ Len(y) = q + n /\ Len(x) = p + n
    OBVIOUS
  <1>1. l \in Seq(S) /\ Len(l) = n /\ \A i \in 1 .. n : l[i] = y[q + i]
    BY <1>0, EndOf
  <1>2. r \in Seq(S) /\ Len(r) = n /\ \A i \in 1 .. n : r[i] = x[p + i]
    BY <1>0, EndOf
  <1>3. \A k \in 1 .. n : y[q + k] = x[p + k]  OBVIOUS
  <1> HIDE DEF l, r, n
  <1>4. l = r  BY <1>1, <1>2, <1>3, SeqEqual
  <1> QED BY <1>4 DEF l, r

\* Blocks from index on replaced: the bytes seen afterwards.
LEMMA ReplacedSeen ==
    ASSUME IndInv, IndInv', isOpen, isOpen', blocks \in Seq(Block),
           NEW base \in Seq(Block), Len(blocks) <= Len(base),
           \A q \in Nat : q < size => ByteAt(base, q) = ByteAt(blocks, q),
           NEW index \in 0 .. Len(base), NEW temp \in Seq(Bytes),
           index * D <= size,
           blocks' = SubSeq(base, 1, index) \o Packed(temp),
           size' = index * D + Len(temp)
    PROVE  \A k \in 1 .. size' :
              /\ k <= index * D => Seen'[k] = Seen[k]
              /\ k > index * D => Seen'[k] = temp[k - index * D]
  <1>1. /\ size \in Nat /\ size' \in Nat
        /\ Seen = [k \in 1 .. size |-> ByteAt(blocks, k - 1)]
        /\ Seen' = [k \in 1 .. size' |-> ByteAt(blocks', k - 1)]
    BY StepSeen
  <1> DEFINE m == size'  w == index * D
  <1>2. m \in Nat /\ m = w + Len(temp) /\ w \in Nat /\ w <= size /\ Len(temp) \in Nat
    BY <1>1, SizesAssumption
  <1> SUFFICES ASSUME NEW k \in 1 .. m
               PROVE  /\ k <= w => Seen'[k] = Seen[k]
                      /\ k > w => Seen'[k] = temp[k - w]
    OBVIOUS
  <1>3. Seen'[k] = ByteAt(blocks', k - 1)  BY <1>1
  <1> HIDE DEF m, w
  <1>4. k \in Nat /\ k - 1 \in Nat /\ k <= m  BY <1>2
  <1>5. ASSUME k <= w PROVE Seen'[k] = Seen[k]
    <2>1. k - 1 < index * D  BY <1>2, <1>4, <1>5 DEF w
    <2>2. ByteAt(blocks', k - 1) = ByteAt(base, k - 1)  BY <1>4, <2>1, ReplacedAt
    <2>3. k - 1 < size /\ k \in 1 .. size  BY <1>1, <1>2, <1>4, <1>5
    <2>4. ByteAt(base, k - 1) = ByteAt(blocks, k - 1)  BY <1>4, <2>3
    <2>5. Seen[k] = ByteAt(blocks, k - 1)  BY <1>1, <2>3
    <2> QED BY <1>3, <2>2, <2>4, <2>5
  <1>6. ASSUME k > w PROVE Seen'[k] = temp[k - w]
    <2> DEFINE j == k - 1 - w
    <2>1. j \in Nat /\ j < Len(temp) /\ k - 1 = w + j /\ j + 1 = k - w
      BY <1>2, <1>4, <1>6
    <2> HIDE DEF j
    <2>2. ByteAt(blocks', k - 1) = temp[j + 1]  BY <1>4, <2>1, ReplacedAt DEF w
    <2> QED BY <1>3, <2>1, <2>2
  <1> QED BY <1>5, <1>6

LEMMA InsertView ==
    ASSUME IndInv, IndInv', TypeOK, TypeOK', NEW offset \in 0 .. MaxSize, NEW s \in Strings,
           NEW room \in 0 .. Room, Insert(offset, s, room)
    PROVE  Content!FInsert(offset, s) \/ (Seen' = Seen /\ Loadable' = Loadable)
  <1> DEFINE index == offset \div D
             oib == offset % D
             n == Obtained(Larger(Len(blocks), index + 1), room)
             base == Extended(n)
             head == Copied(base, index * D, oib)
             rest == [k \in 1 .. size - offset |->
                         base[index + 1][(offset + k - 1) % D]]
             temp == Inserted(base, offset, s)
             left == room - (Len(base) - Len(blocks))
  <1>1. isOpen /\ isOpen' /\ blocks \in Seq(Block) /\ offset <= size
    BY DEF Insert, TypeOK
  <1>2. /\ size \in Nat /\ Len(blocks) \in Nat /\ size <= Len(blocks) * D
        /\ D \in Nat \ {0} /\ room \in Nat /\ offset \in Nat
        /\ Len(s) \in Nat /\ s \in Seq(Bytes)
    BY <1>1, OpenFacts, StringIsSeq, SizesAssumption, BytesAssumption
  <1>3. n \in Nat /\ Len(blocks) <= n /\ index \in 0 .. n
    BY <1>1, <1>2, InsertBase
  <1>4. Moved(base, index, temp, left, size + Len(s))  BY DEF Insert
  <1>5. /\ index \in Nat /\ oib \in Nat /\ offset = index * D + oib /\ index * D \in Nat
    <2>1. index \in Nat /\ oib \in 0 .. D - 1 /\ offset = index * D + oib  BY <1>2, DivMod
    <2> HIDE DEF oib, index
    <2> QED BY <1>2, <2>1
  <1> HIDE DEF n
  <1>6. temp \in Seq(Bytes) /\ head \in Seq(Bytes) /\ rest \in Seq(Bytes) /\ Len(head) = oib
    BY <1>1, <1>2, <1>3, InsertedType
  <1>7. base \in Seq(Block) /\ Len(base) = n  BY <1>1, <1>3, ExtendedType, ExtendedIsSeq
  <1>8. temp = head \o s \o rest  BY DEF Inserted
  <1>9. ASSUME NEW q \in Nat, q < size PROVE ByteAt(base, q) = ByteAt(blocks, q)
    <2>1. q < Len(blocks) * D
      <3>1. Len(blocks) * D \in Nat  BY <1>2
      <3> QED BY <1>2, <1>9, <3>1
    <2> QED BY <1>2, <1>3, <2>1, ExtendedAt
  <1>10. Len(rest) = size - offset
    <2>1. size - offset \in Nat  BY <1>1, <1>2
    <2>2. rest = [k \in 1 .. size - offset |-> rest[k]]  OBVIOUS
    <2> HIDE DEF rest
    <2> QED BY <2>1, <2>2, FunctionIsSeq
  <1>11. ASSUME NEW k \in 1 .. oib PROVE head[k] = ByteAt(blocks, index * D + k - 1)
    <2>1. head[k] = ByteAt(base, index * D + k - 1)  BY <1>5, <1>11, CopiedAt
    <2> HIDE DEF index, oib, base, head
    <2>2. index * D + k - 1 \in Nat /\ index * D + k - 1 < size  BY <1>1, <1>2, <1>5
    <2> QED BY <1>9, <2>1, <2>2
  <1>12. ASSUME NEW k \in 1 .. size - offset, (size - 1) \div D = index
         PROVE  rest[k] = ByteAt(blocks, offset + k - 1)
    <2>1. offset + k - 1 \in Nat /\ offset + k - 1 < size /\ size - 1 \in Nat
          /\ offset + k - 1 <= size - 1
      BY <1>1, <1>2
    <2>2. (offset + k - 1) \div D = index
      <3> DEFINE x == offset + k - 1  y == size - 1
                 dx == x \div D  dy == y \div D  rx == x % D  ry == y % D
      <3>1. /\ dx \in Nat /\ rx \in 0 .. D - 1 /\ x = dx * D + rx
            /\ dy \in Nat /\ ry \in 0 .. D - 1 /\ y = dy * D + ry
        BY <2>1, DivMod
      <3>2. x <= y /\ offset <= x /\ x \in Nat /\ y \in Nat /\ dy = index
        BY <1>2, <1>12, <2>1
      <3> HIDE DEF x, y, dx, dy, rx, ry, index, oib
      <3>3. ~(index < dx)
        <4>1. SUFFICES ASSUME index < dx PROVE FALSE  OBVIOUS
        <4>2. (dy + 1) * D <= dx * D  BY <1>2, <1>5, <3>1, <3>2, <4>1
        <4>3. (dy + 1) * D = dy * D + D /\ dy * D \in Nat /\ dx * D \in Nat  BY <1>2, <3>1
        <4> QED BY <1>2, <3>1, <3>2, <4>2, <4>3
      <3>4. ~(dx < index)
        <4>1. SUFFICES ASSUME dx < index PROVE FALSE  OBVIOUS
        <4>2. (dx + 1) * D <= index * D  BY <1>2, <1>5, <3>1, <4>1
        <4>3. (dx + 1) * D = dx * D + D /\ dx * D \in Nat  BY <1>2, <3>1
        <4> QED BY <1>2, <1>5, <3>1, <3>2, <4>2, <4>3
      <3>5. dx = index  BY <1>5, <3>1, <3>3, <3>4
      <3> QED BY <3>5 DEF dx, x
    <2>3. rest[k] = base[index + 1][(offset + k - 1) % D]  OBVIOUS
    <2>4. rest[k] = ByteAt(base, offset + k - 1)  BY <2>2, <2>3 DEF ByteAt
    <2> HIDE DEF rest, base, index
    <2> QED BY <1>9, <2>1, <2>4
  <1>parts. /\ Len(temp) = Len(head) + Len(s) + Len(rest)
            /\ \A k \in 1 .. Len(head) : temp[k] = head[k]
            /\ \A k \in 1 .. Len(s) : temp[Len(head) + k] = s[k]
            /\ \A k \in 1 .. Len(rest) : temp[Len(head) + Len(s) + k] = rest[k]
    <2>1. rest \in Seq(Bytes) /\ s \in Seq(Bytes) /\ head \in Seq(Bytes)  BY <1>2, <1>6
    <2> HIDE DEF head, rest, temp
    <2> QED BY <1>8, <2>1, JoinedAt
  <1> HIDE DEF index, oib, base, head, rest, temp, left
  <1>13. /\ Loadable /\ Loadable' /\ size' \in Nat
         /\ Seen = [k \in 1 .. size |-> ByteAt(blocks, k - 1)]
         /\ Len(Seen) = size /\ Len(Seen') = size'
    BY <1>1, StepSeen
  <1>14. CASE BlocksFor(Len(temp)) <= left
    <2>1. /\ blocks' = SubSeq(base, 1, index) \o Packed(temp)
          /\ size' = size + Len(s)
      BY <1>4, <1>14 DEF Moved
    <2>2. Len(temp) = oib + Len(s) + (size - offset)
      BY <1>6, <1>10, <1>parts
    <2>3. size' = index * D + Len(temp)  BY <1>2, <1>5, <2>1, <2>2
    <2>4. index \in 0 .. Len(base) /\ index * D <= size /\ Len(blocks) <= Len(base)
      BY <1>1, <1>2, <1>3, <1>5, <1>7
    <2>5. ASSUME NEW k \in 1 .. size + Len(s)
          PROVE  /\ k <= index * D => Seen'[k] = Seen[k]
                 /\ k > index * D => Seen'[k] = temp[k - index * D]
      <3>1. \A j \in 1 .. size' :
              /\ j <= index * D => Seen'[j] = Seen[j]
              /\ j > index * D => Seen'[j] = temp[j - index * D]
        BY <1>1, <1>6, <1>7, <1>9, <2>1, <2>3, <2>4, ReplacedSeen
      <3> QED BY <2>1, <3>1
    <2>6. ASSUME NEW k \in 1 .. offset PROVE Seen'[k] = Seen[k]
      <3>1. k \in 1 .. size /\ k \in 1 .. size + Len(s)  BY <1>1, <1>2
      <3>2. CASE k <= index * D  BY <2>5, <3>1, <3>2
      <3>3. CASE ~(k <= index * D)
        <4>1. k - index * D \in 1 .. oib /\ k > index * D  BY <1>2, <1>5, <3>3
        <4>2. temp[k - index * D] = head[k - index * D]  BY <1>6, <1>parts, <4>1
        <4>3. index * D + (k - index * D) - 1 = k - 1  BY <1>5
        <4>4. head[k - index * D] = ByteAt(blocks, k - 1)  BY <1>11, <4>1, <4>3
        <4>5. Seen[k] = ByteAt(blocks, k - 1)  BY <1>13, <3>1
        <4> QED BY <2>5, <3>1, <4>1, <4>2, <4>4, <4>5
      <3> QED BY <3>2, <3>3
    <2>7. ASSUME NEW k \in 1 .. Len(s) PROVE Seen'[offset + k] = s[k]
      <3>1. /\ offset + k \in 1 .. size + Len(s) /\ offset + k > index * D
            /\ offset + k - index * D = oib + k
        BY <1>1, <1>2, <1>5
      <3>2. temp[oib + k] = s[k]  BY <1>6, <1>parts
      <3> DEFINE j == offset + k
      <3>3. Seen'[j] = temp[j - index * D]
        <4>1. j \in 1 .. size + Len(s) /\ j > index * D  BY <3>1
        <4> HIDE DEF j
        <4> QED BY <2>5, <4>1
      <3>4. j - index * D = oib + k  BY <1>2, <1>5
      <3> HIDE DEF j
      <3>5. Seen'[j] = s[k]  BY <3>2, <3>3, <3>4
      <3> QED BY <3>5 DEF j
    <2>8. ASSUME NEW k \in 1 .. size - offset, (size - 1) \div D = index
          PROVE  Seen'[offset + Len(s) + k] = Seen[offset + k]
      <3>1. /\ offset + Len(s) + k \in 1 .. size + Len(s)
            /\ offset + Len(s) + k > index * D
            /\ offset + Len(s) + k - index * D = oib + Len(s) + k
            /\ offset + k \in 1 .. size
        BY <1>1, <1>2, <1>5
      <3>3. temp[oib + Len(s) + k] = rest[k]  BY <1>6, <1>10, <1>parts
      <3>4. rest[k] = ByteAt(blocks, offset + k - 1)  BY <1>12, <2>8
      <3>5. Seen[offset + k] = ByteAt(blocks, offset + k - 1)  BY <1>13, <3>1
      <3> DEFINE j == offset + Len(s) + k
      <3>6. Seen'[j] = temp[j - index * D]
        <4>1. j \in 1 .. size + Len(s) /\ j > index * D  BY <3>1
        <4> HIDE DEF j
        <4> QED BY <2>5, <4>1
      <3>7. j - index * D = oib + Len(s) + k  BY <1>2, <1>5
      <3> HIDE DEF j
      <3>8. Seen'[j] = Seen[offset + k]  BY <3>3, <3>4, <3>5, <3>6, <3>7
      <3> QED BY <3>8 DEF j
    <2>9. Seen \in Seq(Bytes) /\ Seen' \in Seq(Bytes)  
      <3>1. (IndInv /\ TypeOK /\ isOpen)'  BY <1>1
      <3>2. (Seen \in Seq(Bytes))'  BY <3>1, SeenType, PTL
      <3> QED BY <1>1, <3>2, SeenType
    <2> DEFINE y == Seen'
    <2>10. Len(y) = Len(Seen) + Len(s)  BY <1>13, <2>1
    <2>11. SubSeq(y, 1, offset + Len(s)) = SubSeq(Seen, 1, offset) \o s
      <3>1. y \in Seq(Bytes) /\ \A k \in 1 .. offset : y[k] = Seen[k]  BY <2>6, <2>9
      <3>2. \A k \in 1 .. Len(s) : y[offset + k] = s[k]  BY <2>7
      <3> HIDE DEF y
      <3>3. offset \in 0 .. Len(Seen) /\ offset + Len(s) <= Len(y)
        BY <1>1, <1>2, <1>13, <2>10
      <3> QED BY <1>2, <2>9, <3>1, <3>2, <3>3, SameStart
    <2>12. ASSUME (Len(Seen) - 1) \div D = offset \div D
           PROVE  SubSeq(y, offset + Len(s) + 1, Len(y)) = SubSeq(Seen, offset + 1, Len(Seen))
      <3>1. \A k \in 1 .. Len(Seen) - offset : y[offset + Len(s) + k] = Seen[offset + k]
        BY <1>13, <2>8, <2>12 DEF index
      <3>2. y \in Seq(Bytes)  BY <2>9
      <3> HIDE DEF y
      <3>3. /\ offset \in Nat /\ offset + Len(s) \in Nat /\ offset <= Len(Seen)
            /\ Len(y) - (offset + Len(s)) = Len(Seen) - offset
        BY <1>1, <1>2, <1>13, <2>10
      <3> QED BY <2>9, <3>1, <3>2, <3>3, SameEnd
    <2>13. offset <= Len(Seen) /\ Loadable' = Loadable  BY <1>1, <1>13
    <2> QED BY <2>10, <2>11, <2>12, <2>13 DEF Content!FInsert, Seen
  <1>15. CASE ~(BlocksFor(Len(temp)) <= left)
    <2>1. blocks' = base /\ size' = size  BY <1>4, <1>15 DEF Moved
    <2> QED BY <1>1, <1>3, <2>1, ExtendedSeen DEF base
  <1> QED BY <1>14, <1>15

LEMMA RemoveView ==
    ASSUME IndInv, IndInv', TypeOK, TypeOK', NEW offset \in 0 .. MaxSize,
           NEW n \in 0 .. MaxSize, NEW room \in 0 .. Room, Remove(offset, n, room)
    PROVE  \/ \E m \in 0 .. MaxSize : Content!FRemove(offset, m)
           \/ Seen' = Seen /\ Loadable' = Loadable
  <1> DEFINE length == Smaller(n, size - offset)
             index == offset \div D
             oib == offset % D
             from == Skipped(index, oib, length)
             p == from[1] * D + from[2]
             head == Copied(blocks, index * D, oib)
             rest == Copied(blocks, p, size - offset - length)
             temp == head \o rest
  <1>1. Moved(blocks, index, temp, room, size - length)  BY DEF Remove, Cut
  <1>2. /\ isOpen /\ isOpen' /\ offset \in Nat /\ offset < size
        /\ length \in Nat /\ length <= size - offset /\ length \in 0 .. MaxSize
    BY RemoveFacts DEF Remove, Cut
  <1>3. blocks \in Seq(Block)  BY DEF TypeOK
  <1> HIDE DEF length
  <1>4. /\ index \in 0 .. Len(blocks) /\ oib \in Nat /\ offset = index * D + oib
        /\ p = offset + length
        /\ head \in Seq(Bytes) /\ Len(head) = oib
        /\ rest \in Seq(Bytes) /\ Len(rest) = size - offset - length
    BY <1>2, <1>3, RemovedPieces
  <1>5. /\ Loadable /\ Loadable' /\ size \in Nat /\ size' \in Nat
        /\ Seen = [k \in 1 .. size |-> ByteAt(blocks, k - 1)]
        /\ Len(Seen) = size /\ Len(Seen') = size'
    BY <1>2, StepSeen
  <1>6. index * D \in Nat /\ D \in Nat  BY <1>4, SizesAssumption
  <1>7. ASSUME NEW k \in 1 .. oib PROVE head[k] = Seen[index * D + k]
    <2> HIDE DEF index, oib
    <2> DEFINE j == index * D + k
    <2>1. head[k] = ByteAt(blocks, index * D + k - 1)  BY <1>4, <1>6, <1>7, CopiedAt
    <2>2. j \in 1 .. size
      <3> DEFINE w == index * D
      <3>1. w \in Nat /\ offset = w + oib  BY <1>4, <1>6
      <3> HIDE DEF w
      <3>2. w + k \in 1 .. size  BY <1>2, <1>4, <1>5, <3>1
      <3> QED BY <3>2 DEF w
    <2>4. j - 1 = index * D + k - 1  BY <1>4, <1>6
    <2> HIDE DEF j
    <2>3. Seen[j] = ByteAt(blocks, j - 1)  BY <1>5, <2>2
    <2> QED BY <2>1, <2>3, <2>4 DEF j
  <1>8. ASSUME NEW k \in 1 .. size - offset - length
        PROVE  rest[k] = Seen[offset + length + k]
    <2> DEFINE j == offset + length + k
    <2> HIDE DEF p, oib, j
    <2>0. p \in Nat /\ size - offset - length \in Nat
      <3>1. p = offset + length  BY <1>4
      <3> QED BY <1>2, <1>5, <3>1
    <2>1. rest[k] = ByteAt(blocks, p + k - 1)  BY <2>0, CopiedAt
    <2>2. j \in 1 .. size /\ j - 1 = p + k - 1
      <3>1. p = offset + length  BY <1>4
      <3> QED BY <1>2, <1>5, <3>1 DEF j
    <2>3. Seen[j] = ByteAt(blocks, j - 1)  BY <1>5, <2>2
    <2> QED BY <2>1, <2>2, <2>3 DEF j
  <1> HIDE DEF index, oib, head, rest, p
  <1>9. /\ temp \in Seq(Bytes) /\ Len(temp) = oib + (size - offset - length)
        /\ \A k \in 1 .. Len(head) + Len(rest) : temp[k] =
              IF k <= Len(head) THEN head[k] ELSE rest[k - Len(head)]
    <2>1. /\ temp \in Seq(Bytes) /\ Len(temp) = Len(head) + Len(rest)
          /\ \A k \in 1 .. Len(head) + Len(rest) : temp[k] =
                IF k <= Len(head) THEN head[k] ELSE rest[k - Len(head)]
      BY <1>4, ConcatProperties
    <2> QED BY <1>4, <2>1
  <1> HIDE DEF temp
  <1>10. CASE BlocksFor(Len(temp)) <= room
    <2>1. /\ blocks' = SubSeq(blocks, 1, index) \o Packed(temp)
          /\ size' = size - length
      BY <1>1, <1>10 DEF Moved
    <2>2. size' = index * D + Len(temp)  BY <1>2, <1>4, <1>5, <1>6, <1>9, <2>1
    <2>3. index * D <= size  BY <1>2, <1>4, <1>5, <1>6
    <2>4. \A j \in 1 .. size - length :
            /\ j <= index * D => Seen'[j] = Seen[j]
            /\ j > index * D => Seen'[j] = temp[j - index * D]
      <3>1. Len(blocks) <= Len(blocks)  BY <1>3
      <3>2. \A j \in 1 .. size' :
              /\ j <= index * D => Seen'[j] = Seen[j]
              /\ j > index * D => Seen'[j] = temp[j - index * D]
        BY <1>2, <1>3, <1>4, <1>9, <2>1, <2>2, <2>3, <3>1, ReplacedSeen
      <3> QED BY <2>1, <3>2
    <2>5. ASSUME NEW j \in 1 .. size - length
          PROVE  Seen'[j] = IF j <= offset THEN Seen[j] ELSE Seen[j + length]
      <3> DEFINE w == index * D  k == j - w
      <3>0. w \in Nat /\ offset = w + oib  BY <1>4, <1>6
      <3>1. CASE j <= w
        <4> HIDE DEF w
        <4> QED BY <1>2, <1>4, <2>4, <3>0, <3>1 DEF w
      <3>2. CASE j > w
        <4>1. Seen'[j] = temp[k]  BY <2>4, <3>2
        <4>2. CASE j <= offset
          <5>1. k \in 1 .. oib /\ w + k = j
            <6> HIDE DEF w
            <6> QED BY <1>2, <1>4, <3>0, <3>2, <4>2
          <5> HIDE DEF k
          <5>2. head[k] = Seen[w + k]  BY <1>7, <5>1
          <5> HIDE DEF w
          <5>3. k \in 1 .. Len(head) + Len(rest) /\ k <= Len(head)
            <6>1. Len(head) = oib /\ Len(rest) \in Nat  BY <1>4
            <6> QED BY <1>4, <5>1, <6>1
          <5>4. temp[k] = head[k]  BY <1>9, <5>3
          <5> QED BY <4>1, <4>2, <5>1, <5>2, <5>4
        <4>3. CASE ~(j <= offset)
          <5> DEFINE i == k - oib
          <5>1. /\ i \in 1 .. size - offset - length
                /\ offset + length + i = j + length
                /\ k \in 1 .. Len(head) + Len(rest) /\ ~(k <= Len(head)) /\ k - Len(head) = i
            <6>1. Len(head) = oib /\ Len(rest) = size - offset - length /\ oib \in Nat
              BY <1>4
            <6>2. j \in Nat /\ j <= size - length /\ size - length \in Nat  BY <1>2, <1>5
            <6> HIDE DEF w
            <6>3. k = j - w /\ i = k - oib  OBVIOUS
            <6> HIDE DEF k, i
            <6>4. k \in Nat /\ i \in Nat /\ k > oib  BY <1>2, <3>0, <3>2, <4>3, <6>1, <6>2, <6>3
            <6>5. i = j - offset  BY <1>2, <3>0, <6>1, <6>2, <6>3
            <6>6. i \in 1 .. size - offset - length /\ offset + length + i = j + length
              BY <1>2, <1>5, <4>3, <6>2, <6>5
            <6>7. k \in 1 .. oib + (size - offset - length)
              <7> DEFINE x == size - offset - length
              <7>1. x \in Nat /\ i \in 1 .. x /\ k = oib + i
                BY <1>2, <1>5, <6>1, <6>3, <6>4, <6>6
              <7> HIDE DEF x
              <7>2. k \in 1 .. oib + x  BY <6>1, <7>1
              <7> QED BY <7>2 DEF x
            <6> QED BY <6>1, <6>3, <6>4, <6>6, <6>7
          <5> HIDE DEF i, k, w
          <5>2. temp[k] = rest[i]  BY <1>9, <5>1
          <5>3. rest[i] = Seen[offset + length + i]  BY <1>8, <5>1
          <5> QED BY <4>1, <4>3, <5>1, <5>2, <5>3
        <4> QED BY <4>2, <4>3
      <3>3. j <= w \/ j > w
        <4> HIDE DEF w
        <4> QED BY <3>0
      <3> QED BY <3>1, <3>2, <3>3
    <2>6. Seen \in Seq(Bytes) /\ Seen' \in Seq(Bytes)
      <3>1. (IndInv /\ TypeOK /\ isOpen)'  BY <1>2
      <3>2. (Seen \in Seq(Bytes))'  BY <3>1, SeenType, PTL
      <3> QED BY <1>2, <3>2, SeenType
    <2>7. Seen' = SubSeq(Seen, 1, offset) \o SubSeq(Seen, offset + length + 1, Len(Seen))
      <3> DEFINE y == Seen'  x == Seen  h == SubSeq(x, 1, offset)
                 e == SubSeq(x, offset + length + 1, Len(x))  m == size - offset - length
      <3>1. m \in Nat /\ Len(x) = (offset + length) + m /\ offset + length \in Nat
            /\ offset <= Len(x)
        BY <1>2, <1>5
      <3>2. h \in Seq(Bytes) /\ Len(h) = offset /\ \A k \in 1 .. offset : h[k] = x[k]
        <4> HIDE DEF x
        <4>1. x \in Seq(Bytes)  BY <2>6 DEF x
        <4> QED BY <1>2, <3>1, <4>1
      <3>3. e \in Seq(Bytes) /\ Len(e) = m /\ \A k \in 1 .. m : e[k] = x[offset + length + k]
        BY <2>6, <3>1, EndOf
      <3>4. y \in Seq(Bytes) /\ Len(y) = size - length
            /\ \A j \in 1 .. size - length : y[j] = IF j <= offset THEN x[j] ELSE x[j + length]
        BY <1>5, <2>1, <2>5, <2>6
      <3> HIDE DEF y, x, h, e
      <3>5. /\ h \o e \in Seq(Bytes) /\ Len(h \o e) = offset + m
            /\ \A i \in 1 .. offset + m : (h \o e)[i] = IF i <= offset THEN h[i] ELSE e[i - offset]
        <4>1. /\ h \o e \in Seq(Bytes) /\ Len(h \o e) = Len(h) + Len(e)
              /\ \A i \in 1 .. Len(h) + Len(e) : (h \o e)[i] = IF i <= Len(h) THEN h[i] ELSE e[i - Len(h)]
          BY <3>2, <3>3, ConcatProperties
        <4> QED BY <3>2, <3>3, <4>1
      <3>6. size - length = offset + m  BY <1>2, <1>5
      <3>7. ASSUME NEW i \in 1 .. offset + m PROVE y[i] = (h \o e)[i]
        <4>1. CASE i <= offset
          <5>1. i \in 1 .. offset  BY <1>2, <3>1, <4>1
          <5> QED BY <3>2, <3>4, <3>5, <3>6, <4>1, <5>1
        <4>2. CASE ~(i <= offset)
          <5>1. i - offset \in 1 .. m /\ offset + length + (i - offset) = i + length
            BY <1>2, <1>5, <4>2
          <5>2. e[i - offset] = x[i + length]  BY <3>3, <5>1
          <5> QED BY <3>4, <3>5, <3>6, <4>2, <5>2
        <4> QED BY <4>1, <4>2
      <3>8. y = h \o e  BY <3>4, <3>5, <3>6, <3>7, SeqEqual
      <3> QED BY <3>8 DEF y, h, e, x
    <2>8. offset < Len(Seen) /\ Loadable' = Loadable  BY <1>2, <1>5
    <2>9. Content!FRemove(offset, length)  BY <2>7, <2>8 DEF Content!FRemove, Seen
    <2> QED BY <1>2, <2>9
  <1>11. CASE ~(BlocksFor(Len(temp)) <= room)
    <2>1. blocks' = blocks /\ size' = size  BY <1>1, <1>11 DEF Moved
    <2> QED BY <1>2, <2>1, SameSeen
  <1> QED BY <1>10, <1>11

\* The steps that only change the size, and those around close and open.
LEMMA TruncateView ==
    ASSUME IndInv, IndInv', isOpen, isOpen', NEW n \in 0 .. MaxSize, size' = n,
           \A q \in Nat : q < n /\ q < size => ByteAt(blocks', q) = ByteAt(blocks, q)
    PROVE  Content!FTruncate(n)
  <1>1. /\ Loadable /\ Loadable' /\ size \in Nat
        /\ Seen = [k \in 1 .. size |-> ByteAt(blocks, k - 1)]
        /\ Seen' = [k \in 1 .. n |-> ByteAt(blocks', k - 1)]
        /\ Len(Seen) = size /\ Len(Seen') = n
    BY StepSeen
  <1>2. ASSUME NEW k \in 1 .. n, k <= Len(Seen) PROVE Seen'[k] = Seen[k]
    <2>1. k - 1 \in Nat /\ k - 1 < n /\ k - 1 < size /\ k \in 1 .. size
      BY <1>1, <1>2, SizesAssumption
    <2>2. Seen'[k] = ByteAt(blocks', k - 1) /\ Seen[k] = ByteAt(blocks, k - 1)
      BY <1>1, <2>1
    <2> QED BY <2>1, <2>2
  <1> QED BY <1>1, <1>2 DEF Content!FTruncate, Seen

LEMMA RemoveAllView == IndInv /\ IndInv' /\ RemoveAll => Content!FTruncate(0)
  <1> SUFFICES ASSUME IndInv, IndInv', RemoveAll PROVE Content!FTruncate(0)  OBVIOUS
  <1>1. isOpen /\ isOpen' /\ size' = 0 /\ 0 \in 0 .. MaxSize
    BY SizesAssumption DEF RemoveAll
  <1>2. \A q \in Nat : q < 0 /\ q < size => ByteAt(blocks', q) = ByteAt(blocks, q)
    OBVIOUS
  <1> QED BY <1>1, <1>2, TruncateView

LEMMA GrowView ==
    ASSUME IndInv, IndInv', NEW n \in 0 .. MaxSize, NEW room \in 0 .. Room, Grow(n, room)
    PROVE  Content!FTruncate(n) \/ (Seen' = Seen /\ Loadable' = Loadable)
  <1> DEFINE want == Larger(Len(blocks), BlocksFor(n))
             got == Obtained(want, room)
  <1>1. isOpen /\ isOpen' /\ size <= n /\ blocks' = Extended(got)
        /\ size' = IF got = want THEN n ELSE size
    BY DEF Grow
  <1>2. /\ Len(blocks) \in Nat /\ size \in Nat /\ size <= Len(blocks) * D
        /\ D \in Nat /\ n \in Nat /\ room \in Nat
    BY <1>1, OpenFacts, SizesAssumption
  <1>3. got \in Nat /\ Len(blocks) <= got
    <2>1. BlocksFor(n) \in Nat  BY <1>2, Fits
    <2>2. want \in Nat /\ Len(blocks) <= want  BY <1>2, <2>1 DEF Larger
    <2> QED BY <1>2, <2>2, ObtainedFacts
  <1> HIDE DEF want, got
  <1>4. CASE got = want
    <2>1. ASSUME NEW q \in Nat, q < n, q < size PROVE ByteAt(blocks', q) = ByteAt(blocks, q)
      <3>1. q < Len(blocks) * D
        <4>1. Len(blocks) * D \in Nat  BY <1>2
        <4> QED BY <1>2, <2>1, <4>1
      <3> QED BY <1>1, <1>2, <1>3, <3>1, ExtendedAt
    <2> QED BY <1>1, <1>4, <2>1, TruncateView
  <1>5. CASE got # want
    BY <1>1, <1>3, <1>5, ExtendedSeen
  <1> QED BY <1>4, <1>5

\* A list of blocks cut at its end.
LEMMA PrefixAt ==
    ASSUME NEW bs, IsSeq(bs), NEW m \in 0 .. Len(bs), NEW q \in Nat, q < m * D
    PROVE  ByteAt(SubSeq(bs, 1, m), q) = ByteAt(bs, q)
  <1> DEFINE i == q \div D + 1
  <1>1. Len(bs) \in Nat  BY LenIsNat
  <1>2. i \in 1 .. m  BY <1>1, IndexOf
  <1> HIDE DEF i
  <1>3. SubSeq(bs, 1, m)[i] = bs[i]
    <2>1. PICK X : bs \in Seq(X)  BY DEF IsSeq
    <2> QED BY <1>1, <1>2, <2>1
  <1> QED BY <1>3 DEF ByteAt, i

LEMMA ShrinkView ==
    ASSUME IndInv, IndInv', NEW n \in 0 .. MaxSize, Shrink(n)
    PROVE  Content!FTruncate(n)
  <1> DEFINE m == BlocksFor(n)
  <1>1. isOpen /\ isOpen' /\ n < size /\ blocks' = SubSeq(blocks, 1, m) /\ size' = n
    BY DEF Shrink
  <1>2. /\ Len(blocks) \in Nat /\ size \in Nat /\ size <= Len(blocks) * D
        /\ D \in Nat /\ n \in Nat /\ IsSeq(blocks)
    BY <1>1, OpenFacts, SizesAssumption
  <1>3. m \in Nat /\ m <= Len(blocks) /\ n <= m * D
    <2>1. n <= Len(blocks) * D
      <3>1. Len(blocks) * D \in Nat  BY <1>2
      <3> QED BY <1>1, <1>2, <3>1
    <2> QED BY <1>2, <2>1, Fits
  <1> HIDE DEF m
  <1>4. ASSUME NEW q \in Nat, q < n, q < size PROVE ByteAt(blocks', q) = ByteAt(blocks, q)
    <2>1. q < m * D
      <3>1. m * D \in Nat  BY <1>2, <1>3
      <3> QED BY <1>2, <1>3, <1>4, <3>1
    <2>2. m \in 0 .. Len(blocks)  BY <1>2, <1>3
    <2> QED BY <1>1, <1>2, <2>1, <2>2, PrefixAt
  <1> QED BY <1>1, <1>4, TruncateView

\* The content of a closed file that can be opened is the one it had.
LEMMA PrefixSeen ==
    ASSUME IndInv, NEW m \in 0 .. Len(blocks), BlocksFor(size) <= m,
           blocks' = SubSeq(blocks, 1, m), size' = size
    PROVE  Seen' = Seen /\ Loadable' = Loadable
  <1>1. size \in Nat /\ IsSeq(blocks) /\ Len(blocks) \in Nat
    BY SizesAssumption, LenIsNat DEF IndInv
  <1>2. BlocksFor(size) \in Nat /\ size <= m * D  BY <1>1, Fits
  <1>3. Loadable  BY <1>1, <1>2 DEF Loadable
  <1>4. Len(blocks') = m  BY <1>1, PrefixIsSeq
  <1>5. Loadable' = TRUE
    <2>1. BlocksFor(size') <= Len(blocks')  BY <1>4 DEF BlocksFor
    <2> QED BY <2>1 DEF Loadable, BlocksFor
  <1>6. ASSUME NEW k \in 1 .. size PROVE ByteAt(blocks', 0 + k - 1) = ByteAt(blocks, 0 + k - 1)
    <2>1. 0 + k - 1 \in Nat /\ 0 + k - 1 < m * D
      <3>1. m * D \in Nat  BY <1>1, SizesAssumption
      <3> QED BY <1>1, <1>2, <3>1
    <2> QED BY <1>1, <2>1, PrefixAt
  <1>7. ReadAll' = ReadAll
    BY <1>6 DEF ReadAll, Copied, ByteAt
  <1> QED BY <1>3, <1>5, <1>7 DEF Seen

LEMMA CloseView ==
    ASSUME IndInv, NEW saved \in 0 .. Len(blocks), Close(saved)
    PROVE  Content!FLose \/ (Seen' = Seen /\ Loadable' = Loadable)
  <1>1. blocks' = SubSeq(blocks, 1, saved) /\ size' = size  BY DEF Close
  <1>2. size \in Nat /\ IsSeq(blocks) /\ Len(blocks) \in Nat
    BY SizesAssumption, LenIsNat DEF IndInv
  <1>3. BlocksFor(size) \in Nat  BY <1>2, Fits
  <1>4. CASE BlocksFor(size) <= saved  BY <1>1, <1>4, PrefixSeen
  <1>5. CASE ~(BlocksFor(size) <= saved)
    <2>1. Len(blocks') = saved  BY <1>1, <1>2, PrefixIsSeq
    <2>2. ~(BlocksFor(size') <= Len(blocks'))  BY <1>1, <1>5, <2>1 DEF BlocksFor
    <2>3. Loadable' = FALSE  BY <2>2 DEF Loadable, BlocksFor
    <2> QED BY <2>3 DEF Content!FLose
  <1> QED BY <1>4, <1>5

LEMMA OpenView == IndInv /\ Open => Seen' = Seen /\ Loadable' = Loadable
  <1> SUFFICES ASSUME IndInv, Open PROVE Seen' = Seen /\ Loadable' = Loadable  OBVIOUS
  <1> DEFINE m == BlocksFor(size)
  <1>1. size' = size /\ blocks' = IF Loadable THEN SubSeq(blocks, 1, m) ELSE blocks
    BY DEF Open
  <1>2. size \in Nat /\ Len(blocks) \in Nat
    BY SizesAssumption, LenIsNat DEF IndInv
  <1>3. m \in Nat  BY <1>2, Fits
  <1>4. CASE Loadable
    <2>1. m <= Len(blocks)  BY <1>4 DEF Loadable
    <2>2. m <= m  BY <1>3
    <2>3. m \in 0 .. Len(blocks)
      <3> HIDE DEF m
      <3> QED BY <1>2, <1>3, <2>1
    <2> QED BY <1>1, <1>4, <2>2, <2>3, PrefixSeen
  <1>5. CASE ~Loadable
    BY <1>1, <1>5 DEF Seen, Loadable, ReadAll, Copied, BlocksFor
  <1> QED BY <1>4, <1>5

LEMMA NoStepView == UNCHANGED vars => Seen' = Seen /\ Loadable' = Loadable
BY DEF vars, Seen, Loadable, ReadAll, Copied, BlocksFor

LEMMA SameIsStutter ==
    Seen' = Seen /\ Loadable' = Loadable => [Content!FNext]_(Content!fvars)
BY DEF Content!fvars, Seen

\* Every step is one of the abstract file, or does not change what is seen.
LEMMA StepView ==
    IndInv /\ TypeOK /\ IndInv' /\ TypeOK' /\ [Next]_vars
    => [Content!FNext]_(Content!fvars)
  <1> SUFFICES ASSUME IndInv, TypeOK, IndInv', TypeOK', [Next]_vars
               PROVE  [Content!FNext]_(Content!fvars)
    OBVIOUS
  <1>1. ASSUME NEW offset \in 0 .. MaxSize, NEW s \in Strings, NEW room \in 0 .. Room,
               Write(offset, s, room)
        PROVE  Content!FNext
    BY <1>1, WriteView DEF Content!FNext
  <1>2. ASSUME NEW offset \in 0 .. MaxSize, NEW s \in Strings, NEW room \in 0 .. Room,
               Insert(offset, s, room)
        PROVE  [Content!FNext]_(Content!fvars)
    BY <1>2, InsertView, SameIsStutter DEF Content!FNext
  <1>3. ASSUME NEW offset \in 0 .. MaxSize, NEW n \in 0 .. MaxSize,
               NEW room \in 0 .. Room, Remove(offset, n, room)
        PROVE  [Content!FNext]_(Content!fvars)
    BY <1>3, RemoveView, SameIsStutter DEF Content!FNext
  <1>4. ASSUME NEW n \in 0 .. MaxSize, Content!FTruncate(n) PROVE Content!FNext
    <2>1. 0 \in 0 .. MaxSize  BY SizesAssumption
    <2> QED BY <1>4, <2>1 DEF Content!FNext
  <1>5. ASSUME NEW n \in 0 .. MaxSize, NEW room \in 0 .. Room, Grow(n, room)
        PROVE  [Content!FNext]_(Content!fvars)
    BY <1>4, <1>5, GrowView, SameIsStutter
  <1>6. ASSUME NEW n \in 0 .. MaxSize, Shrink(n) PROVE Content!FNext
    BY <1>4, <1>6, ShrinkView
  <1>7. CASE RemoveAll
    <2>1. 0 \in 0 .. MaxSize  BY SizesAssumption
    <2> QED BY <1>4, <1>7, <2>1, RemoveAllView
  <1>8. ASSUME NEW saved \in 0 .. Len(blocks), Close(saved)
        PROVE  [Content!FNext]_(Content!fvars)
    BY <1>8, CloseView, SameIsStutter DEF Content!FNext
  <1>9. CASE Open  BY <1>9, OpenView, SameIsStutter
  <1>10. CASE UNCHANGED vars  BY <1>10, NoStepView, SameIsStutter
  <1> QED BY <1>1, <1>2, <1>3, <1>5, <1>6, <1>7, <1>8, <1>9, <1>10 DEF Next

LEMMA FirstView == Init => Content!FInit
  <1> SUFFICES ASSUME Init PROVE Content!FInit  OBVIOUS
  <1>1. IndInv /\ isOpen /\ size = 0  BY InitKeeps DEF Init
  <1>2. Loadable /\ Seen = [k \in 1 .. 0 |-> ByteAt(blocks, k - 1)]  BY <1>1, OpenSeen
  <1>3. Seen = << >>  BY <1>2
  <1> QED BY <1>2, <1>3 DEF Content!FInit, Seen

\* An inode file is a sequence of bytes, for every size of blocks, every disk
\* and every string: write, insert, remove, truncate, removeall, close and open
\* have the effect that File gives them, or none.
THEOREM FileImplemented == Spec => ImplementsFile
  <1>1. ImplementsFile <=> Content!FInit /\ [][Content!FNext]_(Content!fvars)
    BY DEF ImplementsFile, Content!FSpec
  <1> QED BY <1>1, FirstView, StepView, Invariance, TypeCorrect, PTL DEF Spec
=============================================================================
