------------------------- MODULE InodeBlocksProofs -------------------------
(***************************************************************************)
(* For every disk, tree width and set of files: no block has two owners,   *)
(* none is lost, a closed file opens again with its blocks in order, and   *)
(* the reference counters are the pointers that open files hold.           *)
(*                                                                         *)
(* The first half is about load_entries_ and save_entries_ alone.  A load  *)
(* depends on the entry blocks that it visits and on nothing else          *)
(* (IsLoader); a save takes its entry blocks from those of its own tree    *)
(* and from the free list, and what it writes the load of the same level   *)
(* finds again (IsSaver).  Both are shown for a leaf and, given a level,   *)
(* for the level above, so that the three trees of an inode follow.        *)
(*                                                                         *)
(* The second half is the invariant (IInv): the properties themselves, and *)
(* for each file how much of it open() would find (FileOK).  A step of one *)
(* file moves blocks between it and the free list; what the others have is *)
(* not among them, so the trees of closed files stay as they were.         *)
(***************************************************************************)
EXTENDS InodeBlocks, SequenceTheorems, WellFoundedInduction, TLAPS

-----------------------------------------------------------------------------
(* Sequences *)

\* Two injective sequences without a common element are injective together.
LEMMA JoinFacts ==
    ASSUME NEW S, NEW s \in Seq(S), NEW t \in Seq(S)
    PROVE  /\ s \o t \in Seq(S)
           /\ ToSet(s \o t) = ToSet(s) \cup ToSet(t)
           /\ IsInjective(s \o t) <=>
                 IsInjective(s) /\ IsInjective(t) /\ ToSet(s) \cap ToSet(t) = {}
<1> DEFINE st == s \o t
<1>1. /\ st \in Seq(S) /\ Len(st) = Len(s) + Len(t)
      /\ \A i \in 1 .. Len(s) + Len(t) : st[i] = IF i <= Len(s) THEN s[i] ELSE t[i - Len(s)]
  BY ConcatProperties
<1>2. Len(s) \in Nat /\ Len(t) \in Nat
  OBVIOUS
<1>3. DOMAIN s = 1 .. Len(s) /\ DOMAIN t = 1 .. Len(t) /\ DOMAIN st = 1 .. Len(s) + Len(t)
  BY <1>1
<1> HIDE DEF st
<1>4. \A i \in 1 .. Len(s) : i \in 1 .. Len(s) + Len(t) /\ st[i] = s[i]
  BY <1>1, <1>2
<1>5. \A i \in 1 .. Len(t) : Len(s) + i \in 1 .. Len(s) + Len(t) /\ st[Len(s) + i] = t[i]
  <2> TAKE i \in 1 .. Len(t)
  <2>1. Len(s) + i \in 1 .. Len(s) + Len(t) /\ ~(Len(s) + i <= Len(s))
        /\ (Len(s) + i) - Len(s) = i
    BY <1>2
  <2> QED BY <2>1, <1>1
<1>6. \A i \in 1 .. Len(s) + Len(t) :
         i \in 1 .. Len(s) \/ \E j \in 1 .. Len(t) : i = Len(s) + j
  <2> TAKE i \in 1 .. Len(s) + Len(t)
  <2>1. CASE ~(i <= Len(s))
    <3>1. i - Len(s) \in 1 .. Len(t) /\ i = Len(s) + (i - Len(s))  BY <2>1, <1>2
    <3> QED BY <3>1
  <2> QED BY <2>1, <1>2
<1>7. ToSet(st) = ToSet(s) \cup ToSet(t)
  <2>1. ToSet(s) \subseteq ToSet(st)  BY <1>3, <1>4 DEF ToSet
  <2>2. ToSet(t) \subseteq ToSet(st)  BY <1>3, <1>5 DEF ToSet
  <2>3. ToSet(st) \subseteq ToSet(s) \cup ToSet(t)
    <3> SUFFICES ASSUME NEW i \in 1 .. Len(s) + Len(t) PROVE st[i] \in ToSet(s) \cup ToSet(t)
      BY <1>3 DEF ToSet
    <3>1. CASE i \in 1 .. Len(s)  BY <3>1, <1>3, <1>4 DEF ToSet
    <3>2. ASSUME NEW j \in 1 .. Len(t), i = Len(s) + j PROVE st[i] \in ToSet(t)
      BY <3>2, <1>3, <1>5 DEF ToSet
    <3> QED BY <3>1, <3>2, <1>6
  <2> QED BY <2>1, <2>2, <2>3
<1>8. ASSUME IsInjective(st)
      PROVE  IsInjective(s) /\ IsInjective(t) /\ ToSet(s) \cap ToSet(t) = {}
  <2>1. \A i, j \in 1 .. Len(s) + Len(t) : st[i] = st[j] => i = j
    BY <1>8, <1>3 DEF IsInjective
  <2>2. \A i, j \in 1 .. Len(s) : s[i] = s[j] => i = j
    BY <2>1, <1>4
  <2>3. \A i, j \in 1 .. Len(t) : t[i] = t[j] => i = j
    <3> TAKE i, j \in 1 .. Len(t)
    <3> HAVE t[i] = t[j]
    <3>1. Len(s) + i = Len(s) + j  BY <2>1, <1>5
    <3> QED BY <3>1, <1>2
  <2>4. \A i \in 1 .. Len(s), j \in 1 .. Len(t) : s[i] # t[j]
    <3> TAKE i \in 1 .. Len(s), j \in 1 .. Len(t)
    <3> SUFFICES ASSUME s[i] = t[j] PROVE FALSE  OBVIOUS
    <3>1. i = Len(s) + j  BY <2>1, <1>4, <1>5
    <3> QED BY <3>1, <1>2
  <2> QED BY <2>2, <2>3, <2>4, <1>3 DEF IsInjective, ToSet
<1>9. ASSUME IsInjective(s), IsInjective(t), ToSet(s) \cap ToSet(t) = {}
      PROVE  IsInjective(st)
  <2>1. \A i, j \in 1 .. Len(s) : s[i] = s[j] => i = j  BY <1>9, <1>3 DEF IsInjective
  <2>2. \A i, j \in 1 .. Len(t) : t[i] = t[j] => i = j  BY <1>9, <1>3 DEF IsInjective
  <2>3. \A i \in 1 .. Len(s), j \in 1 .. Len(t) : s[i] # t[j]  BY <1>9, <1>3 DEF ToSet
  <2>4. \A i, j \in 1 .. Len(s) + Len(t) : st[i] = st[j] => i = j
    <3> TAKE i, j \in 1 .. Len(s) + Len(t)
    <3>1. CASE i \in 1 .. Len(s) /\ j \in 1 .. Len(s)  BY <3>1, <2>1, <1>4
    <3>2. CASE i \in 1 .. Len(s) /\ j \notin 1 .. Len(s)
      <4>1. PICK x \in 1 .. Len(t) : j = Len(s) + x  BY <3>2, <1>6
      <4>2. st[i] = s[i] /\ st[j] = t[x]  BY <3>2, <4>1, <1>4, <1>5
      <4> QED BY <3>2, <4>2, <2>3
    <3>3. CASE i \notin 1 .. Len(s) /\ j \in 1 .. Len(s)
      <4>1. PICK x \in 1 .. Len(t) : i = Len(s) + x  BY <3>3, <1>6
      <4>2. st[j] = s[j] /\ st[i] = t[x]  BY <3>3, <4>1, <1>4, <1>5
      <4> QED BY <3>3, <4>2, <2>3
    <3>4. CASE i \notin 1 .. Len(s) /\ j \notin 1 .. Len(s)
      <4>1. PICK x \in 1 .. Len(t) : i = Len(s) + x  BY <3>4, <1>6
      <4>2. PICK y \in 1 .. Len(t) : j = Len(s) + y  BY <3>4, <1>6
      <4> QED BY <4>1, <4>2, <1>5, <2>2
    <3> QED BY <3>1, <3>2, <3>3, <3>4
  <2> QED BY <2>4, <1>3 DEF IsInjective
<1> QED BY <1>1, <1>7, <1>8, <1>9 DEF st

\* The empty sequence.
LEMMA EmptyFacts ==
    /\ ToSet(<< >>) = {} /\ IsInjective(<< >>)
    /\ \A S : << >> \in Seq(S)
BY DEF ToSet, IsInjective

\* A sequence of one element.
LEMMA OneFacts ==
    ASSUME NEW S, NEW x \in S
    PROVE  <<x>> \in Seq(S) /\ Len(<<x>>) = 1 /\ ToSet(<<x>>) = {x} /\ IsInjective(<<x>>)
<1>1. <<x>> \in Seq(S) /\ Len(<<x>>) = 1 /\ DOMAIN <<x>> = 1 .. 1 /\ <<x>>[1] = x
  OBVIOUS
<1>2. 1 .. 1 = {1}
  OBVIOUS
<1>3. DOMAIN <<x>> = {1}
  BY <1>1, <1>2
<1>4. ToSet(<<x>>) = {x}
  BY <1>1, <1>3 DEF ToSet
<1>5. IsInjective(<<x>>)
  BY <1>3 DEF IsInjective
<1> QED BY <1>1, <1>4, <1>5

\* The elements of a sequence.
LEMMA ToSetType ==
    ASSUME NEW S, NEW s \in Seq(S)
    PROVE  /\ ToSet(s) \subseteq S
           /\ \A i \in 1 .. Len(s) : s[i] \in ToSet(s)
           /\ \A x \in ToSet(s) : \E i \in 1 .. Len(s) : x = s[i]
           /\ s # << >> <=> ToSet(s) # {}
<1>1. DOMAIN s = 1 .. Len(s) /\ Len(s) \in Nat /\ \A i \in 1 .. Len(s) : s[i] \in S
  OBVIOUS
<1>2. s # << >> => Len(s) > 0
  OBVIOUS
<1>3. s # << >> => 1 \in DOMAIN s
  BY <1>1, <1>2
<1> QED BY <1>1, <1>3, EmptyFacts DEF ToSet

\* A sequence cut in two.
LEMMA CutFacts ==
    ASSUME NEW S, NEW s \in Seq(S), NEW k \in 0 .. Len(s)
    PROVE  /\ SubSeq(s, 1, k) \in Seq(S) /\ Len(SubSeq(s, 1, k)) = k
           /\ SubSeq(s, k + 1, Len(s)) \in Seq(S)
           /\ Len(SubSeq(s, k + 1, Len(s))) = Len(s) - k
           /\ s = SubSeq(s, 1, k) \o SubSeq(s, k + 1, Len(s))
<1>1. Len(s) \in Nat /\ k \in Nat /\ k <= Len(s) /\ \A i \in 1 .. Len(s) : s[i] \in S
  OBVIOUS
<1>2. SubSeq(s, 1, k) \in Seq(S) /\ Len(SubSeq(s, 1, k)) = k
  <2>1. \A i \in 1 .. k : s[i] \in S  BY <1>1
  <2>2. 1 \in Int /\ k \in Int  BY <1>1
  <2>3. /\ SubSeq(s, 1, k) \in Seq(S)
        /\ Len(SubSeq(s, 1, k)) = IF 1 <= k THEN k - 1 + 1 ELSE 0
    BY <2>1, <2>2, SubSeqProperties
  <2> QED BY <2>3, <1>1
<1>3. SubSeq(s, k + 1, Len(s)) \in Seq(S) /\ Len(SubSeq(s, k + 1, Len(s))) = Len(s) - k
  <2>1. \A i \in k + 1 .. Len(s) : s[i] \in S  BY <1>1
  <2>2. k + 1 \in Int /\ Len(s) \in Int  BY <1>1
  <2>3. /\ SubSeq(s, k + 1, Len(s)) \in Seq(S)
        /\ Len(SubSeq(s, k + 1, Len(s))) =
              IF k + 1 <= Len(s) THEN Len(s) - (k + 1) + 1 ELSE 0
    BY <2>1, <2>2, SubSeqProperties
  <2> QED BY <2>3, <1>1
<1>4. s = SubSeq(s, 1, k) \o SubSeq(s, k + 1, Len(s))
  <2>1. 1 \in 1 .. Len(s) + 1 /\ k \in 1 - 1 .. Len(s) /\ Len(s) \in k .. Len(s)
    BY <1>1
  <2>2. SubSeq(s, 1, k) \o SubSeq(s, k + 1, Len(s)) = SubSeq(s, 1, Len(s))
    BY <2>1, ConcatAdjacentSubSeq
  <2> QED BY <2>2, SubSeqFull
<1> QED BY <1>2, <1>3, <1>4

\* Reversing a sequence keeps its length and its elements.
LEMMA ReverseFacts ==
    ASSUME NEW S, NEW s \in Seq(S)
    PROVE  /\ Reverse(s) \in Seq(S) /\ Len(Reverse(s)) = Len(s)
           /\ ToSet(Reverse(s)) = ToSet(s)
           /\ IsInjective(Reverse(s)) <=> IsInjective(s)
<1> DEFINE r == Reverse(s)  n == Len(s)
<1>1. n \in Nat /\ DOMAIN s = 1 .. n /\ \A i \in 1 .. n : s[i] \in S
  OBVIOUS
<1>2. r = [i \in 1 .. n |-> s[(n - i) + 1]]
  BY DEF Reverse
<1> HIDE DEF r, n
<1>3. \A i \in 1 .. n : (n - i) + 1 \in 1 .. n /\ r[i] = s[(n - i) + 1]
  BY <1>1, <1>2
<1>4. r \in [1 .. n -> S] /\ DOMAIN r = 1 .. n
  BY <1>1, <1>2, <1>3
<1>5. r \in Seq(S)
  BY <1>1, <1>4
<1>6. Len(r) = n
  BY <1>1, <1>4, <1>5
<1>7. \A i \in 1 .. n : s[i] = r[(n - i) + 1]
  BY <1>1, <1>3
<1>8. ToSet(r) = ToSet(s)
  BY <1>1, <1>3, <1>4, <1>7, SMTT(30) DEF ToSet
<1>9. IsInjective(r) <=> IsInjective(s)
  <2>1. ASSUME IsInjective(s), NEW i \in 1 .. n, NEW j \in 1 .. n, r[i] = r[j] PROVE i = j
    <3>1. (n - i) + 1 = (n - j) + 1
      BY <2>1, <1>1, <1>3 DEF IsInjective
    <3> QED BY <3>1, <1>1
  <2>2. ASSUME IsInjective(r), NEW i \in 1 .. n, NEW j \in 1 .. n, s[i] = s[j] PROVE i = j
    <3>1. (n - i) + 1 \in 1 .. n /\ (n - j) + 1 \in 1 .. n  BY <1>3
    <3>2. (n - i) + 1 = (n - j) + 1
      BY <2>2, <1>4, <1>7, <3>1 DEF IsInjective
    <3> QED BY <3>2, <1>1
  <2> QED BY <2>1, <2>2, <1>1, <1>4 DEF IsInjective
<1> QED BY <1>5, <1>6, <1>8, <1>9 DEF r, n

\* The last element and what is before it.
LEMMA LastFacts ==
    ASSUME NEW S, NEW s \in Seq(S), s # << >>
    PROVE  /\ Last(s) \in S /\ Front(s) \in Seq(S) /\ s = Front(s) \o <<Last(s)>>
           /\ Len(Front(s)) = Len(s) - 1 /\ Len(s) \in Nat \ {0}
<1>1. Len(s) \in Nat \ {0}
  OBVIOUS
<1> DEFINE k == Len(s) - 1
<1>2. k \in 0 .. Len(s) /\ k + 1 = Len(s) /\ Len(s) \in 1 .. Len(s)
  BY <1>1
<1>3. s[Len(s)] \in S
  BY <1>2
<1>4. Front(s) \in Seq(S) /\ Len(Front(s)) = k
  BY <1>2, CutFacts DEF Front
<1>5. s = Front(s) \o <<Last(s)>>
  <2>1. 1 \in 1 .. Len(s) /\ Len(s) \in 1 .. Len(s)  BY <1>1
  <2>2. SubSeq(s, 1, Len(s)) = SubSeq(s, 1, Len(s) - 1) \o <<s[Len(s)]>>
    BY <2>1, SubSeqRecursiveSecond
  <2> QED BY <2>2, SubSeqFull DEF Front, Last
<1> QED BY <1>1, <1>3, <1>4, <1>5 DEF Last

\* allocate takes n blocks from the end of the free list.
LEMMA TakenFacts ==
    ASSUME NEW S, NEW s \in Seq(S), NEW n \in 0 .. Len(s)
    PROVE  /\ Rest(s, n) \in Seq(S) /\ Taken(s, n) \in Seq(S) /\ Len(Taken(s, n)) = n
           /\ Len(Rest(s, n)) = Len(s) - n
           /\ ToSet(s) = ToSet(Rest(s, n)) \cup ToSet(Taken(s, n))
           /\ IsInjective(s) => /\ IsInjective(Rest(s, n)) /\ IsInjective(Taken(s, n))
                                /\ ToSet(Rest(s, n)) \cap ToSet(Taken(s, n)) = {}
<1> DEFINE k == Len(s) - n  a == SubSeq(s, 1, k)  b == SubSeq(s, k + 1, Len(s))
<1>1. Len(s) \in Nat /\ n \in Nat /\ k \in 0 .. Len(s)
  OBVIOUS
<1>2. /\ a \in Seq(S) /\ Len(a) = k /\ b \in Seq(S) /\ Len(b) = Len(s) - k /\ s = a \o b
  BY <1>1, CutFacts, ZenonT(30)
<1>3. Rest(s, n) = a /\ Taken(s, n) = Reverse(b)
  BY DEF Rest, Taken
<1>4. Len(b) = n
  BY <1>1, <1>2
<1> HIDE DEF a, b
<1>5. /\ Reverse(b) \in Seq(S) /\ Len(Reverse(b)) = Len(b) /\ ToSet(Reverse(b)) = ToSet(b)
      /\ IsInjective(Reverse(b)) <=> IsInjective(b)
  BY <1>2, ReverseFacts
<1>6. /\ ToSet(s) = ToSet(a) \cup ToSet(b)
      /\ IsInjective(s) <=> IsInjective(a) /\ IsInjective(b) /\ ToSet(a) \cap ToSet(b) = {}
  BY <1>2, JoinFacts
<1> QED BY <1>2, <1>3, <1>4, <1>5, <1>6

-----------------------------------------------------------------------------
(* Induction and iteration up to a bound *)

\* What holds of 0 and goes from each number to the next holds up to n.
LEMMA UpTo ==
    ASSUME NEW n \in Nat, NEW K, 0 \in K, \A k \in 0 .. n : k \in K /\ k < n => k + 1 \in K
    PROVE  \A k \in 0 .. n : k \in K
<1> DEFINE Less == OpToRel(<, Nat)
           Wrong == {k \in 0 .. n : k \notin K}
<1>1. SUFFICES ASSUME Wrong # {} PROVE FALSE
  OBVIOUS
<1>2. \E i \in Wrong : \A j \in Wrong : <<j, i>> \notin Less
  <2>1. Wrong \subseteq Nat  OBVIOUS
  <2> HIDE DEF Wrong
  <2> QED BY <1>1, <2>1, NatLessThanWellFounded, WFMin, Zenon
<1>3. \A i, j \in Nat : j < i => <<j, i>> \in Less
  BY Zenon DEF OpToRel
<1> HIDE DEF Less
<1>4. PICK i \in Wrong : \A j \in Wrong : <<j, i>> \notin Less
  BY <1>2
<1>5. i \in Nat /\ i # 0 /\ i - 1 \in Nat /\ i - 1 \in 0 .. n /\ i - 1 < i /\ i - 1 < n /\ (i - 1) + 1 = i
  OBVIOUS
<1>6. i - 1 \notin Wrong
  BY <1>3, <1>4, <1>5
<1> QED BY <1>5, <1>6

\* g leads from S to S; r iterates it from x on.
StepsIn(g, n, S) == \A k \in 1 .. n : \A y \in S : g[<<k, y>>] \in S
Iterates(r, g, n, x) == r[0] = x /\ \A k \in 1 .. n : r[k] = g[<<k, r[k - 1]>>]

\* A step function on S can be iterated n times.
LEMMA Iteration ==
    ASSUME NEW n \in Nat, NEW S, NEW x \in S, NEW g, StepsIn(g, n, S)
    PROVE  \E r \in [0 .. n -> S] : Iterates(r, g, n, x)
<1> DEFINE Good(k, r) == r[0] = x /\ \A j \in 1 .. k : r[j] = g[<<j, r[j - 1]>>]
           K == {k \in 0 .. n : \E r \in [0 .. k -> S] : Good(k, r)}
<1>1. 0 \in K
  <2> DEFINE r == [k \in 0 .. 0 |-> x]
  <2>1. r \in [0 .. 0 -> S] /\ Good(0, r) /\ 0 \in 0 .. n  OBVIOUS
  <2> QED BY <2>1
<1>2. ASSUME NEW k \in 0 .. n, k \in K, k < n PROVE k + 1 \in K
  <2>1. PICK r \in [0 .. k -> S] : Good(k, r)  BY <1>2
  <2>2. k \in Nat /\ k + 1 \in 1 .. n /\ k + 1 \in 0 .. n /\ (k + 1) - 1 = k /\ k \in 0 .. k
    BY <1>2
  <2>3. r[k] \in S /\ g[<<k + 1, r[k]>>] \in S
    <3>1. r[k] \in S  BY <2>1, <2>2
    <3> QED BY <3>1, <2>2 DEF StepsIn
  <2> DEFINE q == [j \in 0 .. k + 1 |-> IF j = k + 1 THEN g[<<k + 1, r[k]>>] ELSE r[j]]
  <2>4. \A j \in 0 .. k + 1 : j = k + 1 \/ j \in 0 .. k  BY <2>2
  <2>5. q \in [0 .. k + 1 -> S]  BY <2>1, <2>3, <2>4
  <2>6. q[k + 1] = g[<<k + 1, r[k]>>] /\ \A j \in 0 .. k : q[j] = r[j]
    BY <2>2
  <2> HIDE DEF q
  <2>7. q[0] = x  BY <2>1, <2>2, <2>6
  <2>8. ASSUME NEW j \in 1 .. k + 1 PROVE q[j] = g[<<j, q[j - 1]>>]
    <3>1. CASE j = k + 1
      BY <3>1, <2>2, <2>6
    <3>2. CASE j # k + 1
      <4>1. j \in 1 .. k /\ j \in 0 .. k /\ j - 1 \in 0 .. k  BY <3>2, <2>2
      <4> QED BY <4>1, <2>1, <2>6
    <3> QED BY <3>1, <3>2
  <2>9. Good(k + 1, q)  BY <2>7, <2>8
  <2> HIDE DEF Good
  <2> QED BY <2>2, <2>5, <2>9
<1>3. n \in K
  <2>1. n \in 0 .. n  OBVIOUS
  <2> HIDE DEF K
  <2>2. \A k \in 0 .. n : k \in K /\ k < n => k + 1 \in K  BY <1>2
  <2> QED BY <1>1, <2>2, <2>1, UpTo, Zenon
<1> QED BY <1>3 DEF Iterates

-----------------------------------------------------------------------------
(* Loaders: load_entries_ at one level *)

Maps == [Blocks -> Seq(Blocks)]
Walks == [ok : BOOLEAN, left : Nat, ids : Seq(Blocks), entries : Seq(Blocks)]
Calls == Maps \X Walks \X (0 .. N)

\* A walk that has come to an entry block, and one that misses a block.
Entered(ch, walk, b) == [walk EXCEPT !.ok = ch[b] # << >>, !.entries = Append(@, b)]
Missed(walk) == [walk EXCEPT !.ok = FALSE]
Stopped(walk) == walk.left = 0 \/ ~walk.ok

\* r follows from w: it has visited more.
Later(w, r) ==
    /\ Len(w.entries) <= Len(r.entries)
    /\ \A p \in 1 .. Len(w.entries) : r.entries[p] = w.entries[p]
    /\ r.left <= w.left /\ r.left + Len(r.ids) = w.left + Len(w.ids)

\* The maps c and d have the same in the blocks visited from w to r.
Agree(c, d, w, r) ==
    \A p \in Len(w.entries) + 1 .. Len(r.entries) : d[r.entries[p]] = c[r.entries[p]]

IsLoader(ld) ==
    /\ ld \in [Calls -> Walks]
    /\ \A c \in Maps, w \in Walks, b \in 0 .. N :
          /\ Stopped(w) => ld[<<c, w, b>>] = w
          /\ ~Stopped(w) /\ b = Null => ld[<<c, w, b>>] = Missed(w)
          /\ Later(w, ld[<<c, w, b>>])
          /\ \A d \in Maps :
                Agree(c, d, w, ld[<<c, w, b>>]) => ld[<<d, w, b>>] = ld[<<c, w, b>>]

\* The walk over a list of blocks.
IsRun(ld, c, kids, a) == \A k \in 1 .. Len(kids) : a[k] = ld[<<c, a[k - 1], kids[k]>>]

\* nd is ld one level higher.
NodeOf(nd, ld) ==
    /\ nd \in [Calls -> Walks]
    /\ \A c \in Maps, w \in Walks, b \in 0 .. N :
          /\ Stopped(w) => nd[<<c, w, b>>] = w
          /\ ~Stopped(w) /\ b = Null => nd[<<c, w, b>>] = Missed(w)
          /\ ~Stopped(w) /\ b # Null =>
                \E a \in [0 .. Len(c[b]) -> Walks] :
                   /\ a[0] = Entered(c, w, b)
                   /\ IsRun(ld, c, c[b], a)
                   /\ nd[<<c, w, b>>] = a[Len(c[b])]

LoadLeaves == [t \in Calls |-> LoadLeaf(t[1], t[2], t[3])]
LoadDoubles == [t \in Calls |-> LoadDouble(t[1], t[2], t[3])]
LoadTriples == [t \in Calls |-> LoadTriple(t[1], t[2], t[3])]

\* Every map, walk and block id are arguments of a loader.
LEMMA Call ==
    ASSUME NEW c \in Maps, NEW w \in Walks, NEW b \in 0 .. N
    PROVE  <<c, w, b>> \in Calls
BY DEF Calls

\* The types of the fields of a walk.
LEMMA WalkFields ==
    ASSUME NEW w \in Walks
    PROVE  /\ w.ok \in BOOLEAN /\ w.left \in Nat
           /\ w.ids \in Seq(Blocks) /\ Len(w.ids) \in Nat
           /\ w.entries \in Seq(Blocks) /\ Len(w.entries) \in Nat
BY DEF Walks

\* An entry block has blocks as children.
LEMMA MapFacts ==
    ASSUME NEW c \in Maps, NEW b \in 0 .. N, b # Null
    PROVE  /\ b \in Blocks /\ c[b] \in Seq(Blocks) /\ Len(c[b]) \in Nat
           /\ \A k \in 1 .. Len(c[b]) : c[b][k] \in Blocks /\ c[b][k] \in 0 .. N
<1>1. b \in Blocks
  BY SizesAssumption DEF Null, Blocks
<1>2. c[b] \in Seq(Blocks)
  BY <1>1 DEF Maps
<1>3. Blocks \subseteq 0 .. N
  BY SizesAssumption DEF Blocks
<1>4. Len(c[b]) \in Nat /\ \A k \in 1 .. Len(c[b]) : c[b][k] \in Blocks
  BY <1>2
<1> QED BY <1>1, <1>2, <1>3, <1>4

\* An entry block visited is the last of entry_ids_.
LEMMA EntryAdded ==
    ASSUME NEW w \in Walks, NEW b \in Blocks
    PROVE  /\ Append(w.entries, b) = w.entries \o <<b>>
           /\ Len(Append(w.entries, b)) = Len(w.entries) + 1
           /\ Append(w.entries, b)[Len(w.entries) + 1] = b
<1>1. w.entries \in Seq(Blocks)
  BY WalkFields
<1> QED BY <1>1, AppendProperties, AppendIsConcat

\* Entering an entry block changes ok and entry_ids_, nothing else.
LEMMA EnteredFacts ==
    ASSUME NEW c \in Maps, NEW w \in Walks, NEW b \in Blocks
    PROVE  /\ Entered(c, w, b) \in Walks
           /\ Entered(c, w, b).ok <=> c[b] # << >>
           /\ Entered(c, w, b).left = w.left
           /\ Entered(c, w, b).ids = w.ids
           /\ Entered(c, w, b).entries = Append(w.entries, b)
           /\ Later(w, Entered(c, w, b))
<1>1. w.entries \in Seq(Blocks) /\ Len(w.entries) \in Nat /\ w.left \in Nat /\ Len(w.ids) \in Nat
  BY WalkFields
<1>2. /\ Append(w.entries, b) \in Seq(Blocks)
      /\ Len(Append(w.entries, b)) = Len(w.entries) + 1
      /\ \A i \in 1 .. Len(w.entries) : Append(w.entries, b)[i] = w.entries[i]
      /\ Append(w.entries, b)[Len(w.entries) + 1] = b
  BY <1>1, AppendProperties
<1>4. /\ Entered(c, w, b).ok = (c[b] # << >>) /\ Entered(c, w, b).left = w.left
      /\ Entered(c, w, b).ids = w.ids /\ Entered(c, w, b).entries = Append(w.entries, b)
  BY DEF Entered, Walks
<1>5. Entered(c, w, b) \in Walks
  BY <1>2 DEF Entered, Walks
<1>6. Later(w, Entered(c, w, b))
  BY <1>1, <1>2, <1>4 DEF Later
<1> QED BY <1>4, <1>5, <1>6

\* A missing block only makes load_entries_ fail.
LEMMA MissedFacts ==
    ASSUME NEW w \in Walks
    PROVE  /\ Missed(w) \in Walks /\ ~Missed(w).ok /\ Missed(w).left = w.left
           /\ Missed(w).ids = w.ids /\ Missed(w).entries = w.entries
           /\ Later(w, Missed(w))
<1>1. Missed(w) \in Walks
  BY DEF Missed, Walks
<1>2. /\ ~Missed(w).ok /\ Missed(w).left = w.left
      /\ Missed(w).ids = w.ids /\ Missed(w).entries = w.entries
  BY DEF Missed, Walks
<1> QED BY <1>1, <1>2, WalkFields DEF Later

\* Every walk follows from itself.
LEMMA LaterReflexive == ASSUME NEW w \in Walks PROVE Later(w, w)
BY WalkFields DEF Later

\* The blocks visited on the way are among those visited in the end.
LEMMA LaterTransitive ==
    ASSUME NEW u \in Walks, NEW v \in Walks, NEW w \in Walks, Later(u, v), Later(v, w)
    PROVE  /\ Later(u, w)
           /\ \A c, d : Agree(c, d, u, w) => Agree(c, d, u, v) /\ Agree(c, d, v, w)
<1>1. /\ Len(u.entries) \in Nat /\ Len(v.entries) \in Nat /\ Len(w.entries) \in Nat
      /\ u.left \in Nat /\ v.left \in Nat /\ w.left \in Nat
      /\ Len(u.ids) \in Nat /\ Len(v.ids) \in Nat /\ Len(w.ids) \in Nat
  BY WalkFields
<1>2. /\ Len(u.entries) <= Len(v.entries) /\ Len(v.entries) <= Len(w.entries)
      /\ v.left <= u.left /\ w.left <= v.left
      /\ v.left + Len(v.ids) = u.left + Len(u.ids) /\ w.left + Len(w.ids) = v.left + Len(v.ids)
  BY DEF Later
<1>3. /\ \A p \in 1 .. Len(u.entries) : v.entries[p] = u.entries[p]
      /\ \A p \in 1 .. Len(v.entries) : w.entries[p] = v.entries[p]
  BY DEF Later
<1>4. Later(u, w)
  <2>1. Len(u.entries) <= Len(w.entries) /\ w.left <= u.left
        /\ w.left + Len(w.ids) = u.left + Len(u.ids)
    BY ONLY <1>1, <1>2, SMTT(30)
  <2>2. ASSUME NEW p \in 1 .. Len(u.entries) PROVE w.entries[p] = u.entries[p]
    <3>1. p \in 1 .. Len(v.entries)  BY <1>1, <1>2, SMTT(30)
    <3> QED BY <3>1, <1>3
  <2> QED BY <2>1, <2>2 DEF Later
<1>5. ASSUME NEW c, NEW d, Agree(c, d, u, w) PROVE Agree(c, d, u, v) /\ Agree(c, d, v, w)
  <2>1. ASSUME NEW p \in Len(u.entries) + 1 .. Len(v.entries)
        PROVE  d[v.entries[p]] = c[v.entries[p]]
    <3>1. p \in Len(u.entries) + 1 .. Len(w.entries) /\ p \in 1 .. Len(v.entries)
      BY <1>1, <1>2, SMTT(30)
    <3>2. w.entries[p] = v.entries[p]  BY <3>1, <1>3
    <3> QED BY <3>1, <3>2, <1>5 DEF Agree
  <2>2. ASSUME NEW p \in Len(v.entries) + 1 .. Len(w.entries)
        PROVE  d[w.entries[p]] = c[w.entries[p]]
    <3>1. p \in Len(u.entries) + 1 .. Len(w.entries)
      BY <1>1, <1>2, SMTT(30)
    <3> QED BY <3>1, <1>5 DEF Agree
  <2> QED BY <2>1, <2>2 DEF Agree
<1> QED BY <1>4, <1>5

\* The smaller of two numbers.
LEMMA SmallerFacts ==
    ASSUME NEW m \in Nat, NEW n \in Nat
    PROVE  /\ Smaller(m, n) \in Nat /\ Smaller(m, n) <= m /\ Smaller(m, n) <= n
           /\ Smaller(m, n) = m \/ Smaller(m, n) = n
           /\ m <= n => Smaller(m, n) = m
           /\ n <= m => Smaller(m, n) = n
BY DEF Smaller

\* What is said of a loader, for one call of it.
LEMMA LoaderAt ==
    ASSUME NEW ld, IsLoader(ld), NEW c \in Maps, NEW w \in Walks, NEW b \in 0 .. N
    PROVE  /\ ld[<<c, w, b>>] \in Walks
           /\ Stopped(w) => ld[<<c, w, b>>] = w
           /\ ~Stopped(w) /\ b = Null => ld[<<c, w, b>>] = Missed(w)
           /\ Later(w, ld[<<c, w, b>>])
           /\ \A d \in Maps :
                Agree(c, d, w, ld[<<c, w, b>>]) => ld[<<d, w, b>>] = ld[<<c, w, b>>]
<1>1. <<c, w, b>> \in Calls
  BY Call
<1> QED BY <1>1 DEF IsLoader

\* What a leaf adds to a walk.
LEMMA LeafAdds ==
    ASSUME NEW c \in Maps, NEW w \in Walks, NEW b \in Blocks, ~Stopped(w)
    PROVE  LET n == Smaller(w.left, Len(c[b])) IN
           /\ LoadLeaf(c, w, b) =
                [ok |-> c[b] # << >>, left |-> w.left - n, ids |-> w.ids \o SubSeq(c[b], 1, n),
                 entries |-> Append(w.entries, b)]
           /\ n \in 0 .. Len(c[b]) /\ n \in 0 .. w.left
           /\ LoadLeaf(c, w, b) \in Walks
           /\ Later(w, LoadLeaf(c, w, b))
<1> DEFINE n == Smaller(w.left, Len(c[b]))
           r == [ok |-> c[b] # << >>, left |-> w.left - n, ids |-> w.ids \o SubSeq(c[b], 1, n),
                 entries |-> Append(w.entries, b)]
<1>1. b \in 0 .. N /\ b # Null
  BY SizesAssumption DEF Blocks, Null
<1>2. c[b] \in Seq(Blocks) /\ Len(c[b]) \in Nat
  BY <1>1, MapFacts
<1>3. w.left \in Nat /\ w.ids \in Seq(Blocks) /\ w.entries \in Seq(Blocks)
      /\ Len(w.ids) \in Nat /\ Len(w.entries) \in Nat
  BY WalkFields
<1>4. n \in 0 .. Len(c[b]) /\ n \in 0 .. w.left
  <2>1. n \in Nat /\ n <= w.left /\ n <= Len(c[b])  BY <1>2, <1>3, SmallerFacts
  <2> QED BY <2>1, <1>2, <1>3
<1>5. LoadLeaf(c, w, b) = r
  BY <1>1 DEF LoadLeaf, Stopped
<1> HIDE DEF n
<1>6. SubSeq(c[b], 1, n) \in Seq(Blocks) /\ Len(SubSeq(c[b], 1, n)) = n
  BY <1>2, <1>4, CutFacts
<1>7. /\ w.ids \o SubSeq(c[b], 1, n) \in Seq(Blocks)
      /\ Len(w.ids \o SubSeq(c[b], 1, n)) = Len(w.ids) + n
  BY <1>3, <1>6, ConcatProperties
<1>8. /\ Append(w.entries, b) \in Seq(Blocks)
      /\ Len(Append(w.entries, b)) = Len(w.entries) + 1
      /\ \A i \in 1 .. Len(w.entries) : Append(w.entries, b)[i] = w.entries[i]
  BY <1>3, AppendProperties
<1>9. w.left - n \in Nat
  BY <1>3, <1>4
<1>10. r \in Walks
  BY <1>7, <1>8, <1>9 DEF Walks
<1>11. (w.left - n) + Len(w.ids \o SubSeq(c[b], 1, n)) = w.left + Len(w.ids)
  <2> DEFINE l == w.left  m == Len(w.ids)
  <2>1. l \in Nat /\ m \in Nat /\ n \in Nat  BY <1>3, <1>4
  <2> HIDE DEF l, m
  <2>2. (l - n) + (m + n) = l + m  BY <2>1
  <2> QED BY <2>2, <1>7 DEF l, m
<1>12. w.left - n <= w.left
  BY <1>3, <1>4
<1>13. /\ r.left = w.left - n /\ r.ids = w.ids \o SubSeq(c[b], 1, n)
       /\ r.entries = Append(w.entries, b)
  OBVIOUS
<1> HIDE DEF r
<1>14. Len(w.entries) <= Len(r.entries)
  BY <1>3, <1>8, <1>13
<1>15. Later(w, r)
  BY <1>8, <1>11, <1>12, <1>13, <1>14 DEF Later
<1> QED BY <1>4, <1>5, <1>10, <1>15 DEF n, r

\* The load of one leaf is a loader: it reads only the blocks it visits.
LEMMA LeavesLoader == IsLoader(LoadLeaves)
<1>1. ASSUME NEW c \in Maps, NEW w \in Walks, NEW b \in 0 .. N
      PROVE  /\ LoadLeaves[<<c, w, b>>] = LoadLeaf(c, w, b)
             /\ LoadLeaf(c, w, b) \in Walks
             /\ Stopped(w) => LoadLeaf(c, w, b) = w
             /\ ~Stopped(w) /\ b = Null => LoadLeaf(c, w, b) = Missed(w)
             /\ Later(w, LoadLeaf(c, w, b))
             /\ \A d \in Maps : Agree(c, d, w, LoadLeaf(c, w, b)) =>
                                   LoadLeaf(d, w, b) = LoadLeaf(c, w, b)
  <2>1. LoadLeaves[<<c, w, b>>] = LoadLeaf(c, w, b)
    BY Call DEF LoadLeaves
  <2>2. CASE Stopped(w)
    <3>1. \A d : LoadLeaf(d, w, b) = w  BY <2>2 DEF LoadLeaf, Stopped
    <3> QED BY <2>1, <2>2, <3>1, LaterReflexive
  <2>3. CASE ~Stopped(w) /\ b = Null
    <3>1. \A d : LoadLeaf(d, w, b) = Missed(w)  BY <2>3 DEF LoadLeaf, Stopped, Missed
    <3> QED BY <2>1, <2>3, <3>1, MissedFacts
  <2>4. CASE ~Stopped(w) /\ b # Null
    <3>1. b \in Blocks  BY <2>4 DEF Blocks, Null
    <3>2. LoadLeaf(c, w, b) \in Walks /\ Later(w, LoadLeaf(c, w, b))
      BY <2>4, <3>1, LeafAdds
    <3>3. LoadLeaf(c, w, b).entries = Append(w.entries, b)
      BY <2>4, <3>1, LeafAdds
    <3>4. ASSUME NEW d \in Maps, Agree(c, d, w, LoadLeaf(c, w, b))
          PROVE  LoadLeaf(d, w, b) = LoadLeaf(c, w, b)
      <4>1. w.entries \in Seq(Blocks) /\ Len(w.entries) \in Nat  BY WalkFields
      <4>2. /\ Len(Append(w.entries, b)) = Len(w.entries) + 1
            /\ Append(w.entries, b)[Len(w.entries) + 1] = b
        BY <4>1, <3>1, AppendProperties
      <4>3. Len(w.entries) + 1 \in Len(w.entries) + 1 .. Len(w.entries) + 1
        BY <4>1
      <4>4. d[b] = c[b]  BY <3>3, <3>4, <4>2, <4>3 DEF Agree
      <4> QED BY <4>4 DEF LoadLeaf
    <3> QED BY <2>1, <2>4, <3>2, <3>4
  <2> QED BY <2>2, <2>3, <2>4
<1>2. LoadLeaves \in [Calls -> Walks]
  <2>1. ASSUME NEW t \in Calls PROVE LoadLeaf(t[1], t[2], t[3]) \in Walks
    BY <1>1 DEF Calls
  <2> QED BY <2>1 DEF LoadLeaves
<1> QED BY <1>1, <1>2 DEF IsLoader

\* Two walks over one list that see the same blocks are the same.
LEMMA RunsAgree ==
    ASSUME NEW ld, IsLoader(ld), NEW c \in Maps, NEW d \in Maps, NEW kids \in Seq(Blocks),
           NEW a \in [0 .. Len(kids) -> Walks], NEW e \in [0 .. Len(kids) -> Walks],
           IsRun(ld, c, kids, a), IsRun(ld, d, kids, e), a[0] = e[0]
    PROVE  /\ Later(a[0], a[Len(kids)])
           /\ Agree(c, d, a[0], a[Len(kids)]) => a[Len(kids)] = e[Len(kids)]
<1> DEFINE n == Len(kids)
<1>1. n \in Nat /\ \A k \in 1 .. n : kids[k] \in Blocks
  OBVIOUS
<1>2. \A k \in 1 .. n : kids[k] \in 0 .. N
  BY <1>1 DEF Blocks
<1>3. \A k \in 0 .. n : a[k] \in Walks
  OBVIOUS
<1>4. \A k \in 0 .. n : k < n => /\ k + 1 \in 1 .. n /\ k + 1 \in 0 .. n /\ (k + 1) - 1 = k
  BY <1>1
<1> DEFINE K == {k \in 0 .. n : /\ Later(a[0], a[k])
                                /\ Agree(c, d, a[0], a[k]) => a[k] = e[k]}
<1>5. 0 \in K
  <2>1. 0 \in 0 .. n  BY <1>1
  <2> QED BY <2>1, <1>3, LaterReflexive
<1>6. ASSUME NEW k \in 0 .. n, k \in K, k < n PROVE k + 1 \in K
  <2>1. k + 1 \in 1 .. n /\ k + 1 \in 0 .. n /\ (k + 1) - 1 = k /\ 0 \in 0 .. n
    BY <1>4, <1>6, <1>1
  <2>2. a[k] \in Walks /\ a[k + 1] \in Walks /\ a[0] \in Walks /\ kids[k + 1] \in 0 .. N
    BY <2>1, <1>2, <1>3
  <2>3. a[k + 1] = ld[<<c, a[k], kids[k + 1]>>] /\ e[k + 1] = ld[<<d, e[k], kids[k + 1]>>]
    BY <2>1 DEF IsRun
  <2>4. /\ Later(a[k], a[k + 1])
        /\ Agree(c, d, a[k], a[k + 1]) => ld[<<d, a[k], kids[k + 1]>>] = a[k + 1]
    BY <2>2, <2>3, LoaderAt
  <2>5. Later(a[0], a[k])  BY <1>6
  <2>6. Later(a[0], a[k + 1])  BY <2>2, <2>4, <2>5, LaterTransitive
  <2>7. ASSUME Agree(c, d, a[0], a[k + 1]) PROVE a[k + 1] = e[k + 1]
    <3>1. Agree(c, d, a[0], a[k]) /\ Agree(c, d, a[k], a[k + 1])
      BY <2>2, <2>4, <2>5, <2>7, LaterTransitive
    <3>2. a[k] = e[k]  BY <3>1, <1>6
    <3> QED BY <3>1, <3>2, <2>3, <2>4
  <2> QED BY <2>1, <2>6, <2>7
<1>7. n \in K
  <2>1. n \in 0 .. n  BY <1>1
  <2> HIDE DEF K, n
  <2>2. \A k \in 0 .. n : k \in K /\ k < n => k + 1 \in K  BY <1>6
  <2> QED BY <1>1, <1>5, <2>1, <2>2, UpTo, Zenon
<1> QED BY <1>7

\* A loader of entry blocks of a level, from a loader of the level below.
LEMMA NodeIsLoader ==
    ASSUME NEW ld, NEW nd, IsLoader(ld), NodeOf(nd, ld)
    PROVE  IsLoader(nd)
<1>1. ASSUME NEW c \in Maps, NEW w \in Walks, NEW b \in 0 .. N
      PROVE  /\ Stopped(w) => nd[<<c, w, b>>] = w
             /\ ~Stopped(w) /\ b = Null => nd[<<c, w, b>>] = Missed(w)
             /\ Later(w, nd[<<c, w, b>>])
             /\ \A d \in Maps :
                   Agree(c, d, w, nd[<<c, w, b>>]) => nd[<<d, w, b>>] = nd[<<c, w, b>>]
  <2>1. CASE Stopped(w)
    <3>1. \A d \in Maps : nd[<<d, w, b>>] = w  BY <2>1 DEF NodeOf
    <3> QED BY <2>1, <3>1, LaterReflexive
  <2>2. CASE ~Stopped(w) /\ b = Null
    <3>1. \A d \in Maps : nd[<<d, w, b>>] = Missed(w)  BY <2>2 DEF NodeOf
    <3> QED BY <2>2, <3>1, MissedFacts
  <2>3. CASE ~Stopped(w) /\ b # Null
    <3>1. b \in Blocks /\ c[b] \in Seq(Blocks) /\ Len(c[b]) \in Nat
      BY <2>3, MapFacts
    <3>2. PICK a \in [0 .. Len(c[b]) -> Walks] :
             /\ a[0] = Entered(c, w, b)
             /\ IsRun(ld, c, c[b], a)
             /\ nd[<<c, w, b>>] = a[Len(c[b])]
      BY <2>3 DEF NodeOf
    <3> DEFINE n == Len(c[b])
    <3>3. 0 \in 0 .. n /\ n \in 0 .. n  BY <3>1
    <3>4. a[0] \in Walks /\ a[n] \in Walks  BY <3>3
    <3>5. Later(w, a[0])
      <4>1. Later(w, Entered(c, w, b))  BY <3>1, EnteredFacts
      <4> QED BY <4>1, <3>2
    <3>6. Later(a[0], a[n])  BY <3>1, <3>2, RunsAgree
    <3>7. Later(w, a[n])  BY <3>4, <3>5, <3>6, LaterTransitive
    <3>8. ASSUME NEW d \in Maps, Agree(c, d, w, a[n]) PROVE nd[<<d, w, b>>] = a[n]
      <4>1. Agree(c, d, w, a[0]) /\ Agree(c, d, a[0], a[n])
        BY <3>4, <3>5, <3>6, <3>8, LaterTransitive
      <4>2. d[b] = c[b]
        <5>0. /\ Entered(c, w, b).entries = Append(w.entries, b)
              /\ Len(Append(w.entries, b)) = Len(w.entries) + 1
              /\ Append(w.entries, b)[Len(w.entries) + 1] = b
          BY <3>1, EnteredFacts, EntryAdded
        <5>1. a[0].entries = Append(w.entries, b)  BY <5>0, <3>2
        <5>2. Len(w.entries) \in Nat  BY WalkFields
        <5>3. Len(w.entries) + 1 \in Len(w.entries) + 1 .. Len(w.entries) + 1  BY <5>2
        <5> QED BY <4>1, <5>0, <5>1, <5>3 DEF Agree
      <4>3. PICK e \in [0 .. Len(d[b]) -> Walks] :
               /\ e[0] = Entered(d, w, b)
               /\ IsRun(ld, d, d[b], e)
               /\ nd[<<d, w, b>>] = e[Len(d[b])]
        BY <2>3 DEF NodeOf
      <4>4. e[0] = a[0]  BY <3>2, <4>2, <4>3 DEF Entered
      <4>5. e \in [0 .. Len(c[b]) -> Walks] /\ IsRun(ld, d, c[b], e)
        BY <4>2, <4>3
      <4>6. a[n] = e[n]  BY <3>1, <3>2, <4>1, <4>4, <4>5, RunsAgree
      <4> QED BY <4>2, <4>3, <4>6
    <3> QED BY <2>3, <3>2, <3>7, <3>8
  <2> QED BY <2>1, <2>2, <2>3
<1> QED BY <1>1 DEF IsLoader, NodeOf

\* A loader can walk over a list.
LEMMA RunExists ==
    ASSUME NEW ld \in [Calls -> Walks], NEW c \in Maps, NEW kids \in Seq(Blocks), NEW x \in Walks
    PROVE  \E r \in [0 .. Len(kids) -> Walks] : r[0] = x /\ IsRun(ld, c, kids, r)
<1> DEFINE n == Len(kids)
           g == [t \in (1 .. n) \X Walks |-> ld[<<c, t[2], kids[t[1]]>>]]
<1>1. n \in Nat /\ \A k \in 1 .. n : kids[k] \in 0 .. N
  <2>1. \A k \in 1 .. n : kids[k] \in Blocks  OBVIOUS
  <2> QED BY <2>1 DEF Blocks
<1> HIDE DEF n
<1>2. \A k \in 1 .. n, w \in Walks : ld[<<c, w, kids[k]>>] \in Walks
  BY <1>1, Call
<1>4. \A k \in 1 .. n, w \in Walks : g[<<k, w>>] = ld[<<c, w, kids[k]>>]
  <2> TAKE k \in 1 .. n, w \in Walks
  <2>1. <<k, w>> \in (1 .. n) \X Walks /\ <<k, w>>[1] = k /\ <<k, w>>[2] = w  OBVIOUS
  <2> QED BY <2>1
<1> HIDE DEF g
<1>3. StepsIn(g, n, Walks)
  BY <1>2, <1>4 DEF StepsIn
<1>5. PICK r \in [0 .. n -> Walks] : Iterates(r, g, n, x)
  BY <1>1, <1>3, Iteration
<1>6. ASSUME NEW k \in 1 .. n
      PROVE  r[k] = ld[<<c, r[k - 1], kids[k]>>]
  <2>1. k - 1 \in 0 .. n  BY <1>1
  <2>2. r[k - 1] \in Walks  BY <2>1
  <2> QED BY <2>2, <1>4, <1>5 DEF Iterates
<1> QED BY <1>5, <1>6 DEF Iterates, IsRun, n

\* The loop of load_entries_ over the children of a block whose children are
\* leaves.
IsLeafRun(a, c, w, b) ==
    a = [k \in 0 .. Len(c[b]) |-> IF k = 0 THEN Entered(c, w, b)
                                 ELSE LoadLeaf(c, a[k - 1], c[b][k])]
LeafRun(c, w, b) == CHOOSE a : IsLeafRun(a, c, w, b)

\* The load of a block of leaves, by the loop over its children.
LEMMA LoadDoubleUnfold ==
    ASSUME NEW c, NEW w, NEW b
    PROVE  LoadDouble(c, w, b) =
              IF w.left = 0 \/ ~w.ok THEN w
              ELSE IF b = Null THEN [w EXCEPT !.ok = FALSE]
              ELSE LeafRun(c, w, b)[Len(c[b])]
BY Zenon DEF LoadDouble, LoadNode, LeafRun, IsLeafRun, Entered

\* The loop over the leaves is a run of their loader.
LEMMA LeafRunFacts ==
    ASSUME NEW c \in Maps, NEW w \in Walks, NEW b \in Blocks
    PROVE  LET a == LeafRun(c, w, b) IN
           /\ a \in [0 .. Len(c[b]) -> Walks]
           /\ a[0] = Entered(c, w, b)
           /\ IsRun(LoadLeaves, c, c[b], a)
<1> DEFINE kids == c[b]  n == Len(kids)  x == Entered(c, w, b)
<1>1. kids \in Seq(Blocks) /\ n \in Nat /\ \A k \in 1 .. n : kids[k] \in 0 .. N
  <2>1. kids \in Seq(Blocks)  BY DEF Maps
  <2>2. \A k \in 1 .. n : kids[k] \in Blocks  BY <2>1
  <2> QED BY <2>1, <2>2 DEF Blocks
<1>2. x \in Walks
  BY EnteredFacts
<1>3. LoadLeaves \in [Calls -> Walks]
  BY LeavesLoader DEF IsLoader
<1>4. \A v \in Walks, k \in 1 .. n :
         /\ LoadLeaves[<<c, v, kids[k]>>] = LoadLeaf(c, v, kids[k])
         /\ LoadLeaf(c, v, kids[k]) \in Walks
  <2> TAKE v \in Walks, k \in 1 .. n
  <2>1. kids[k] \in 0 .. N  BY <1>1
  <2>2. <<c, v, kids[k]>> \in Calls  BY <2>1, Call
  <2>3. LoadLeaves[<<c, v, kids[k]>>] = LoadLeaf(c, v, kids[k])  BY <2>2 DEF LoadLeaves
  <2>4. LoadLeaves[<<c, v, kids[k]>>] \in Walks  BY <1>3, <2>2
  <2> QED BY <2>3, <2>4
<1> DEFINE Step(r, k) == IF k = 0 THEN x ELSE LoadLeaf(c, r[k - 1], kids[k])
<1> HIDE DEF kids, n, x
<1>5. PICK r \in [0 .. n -> Walks] : r[0] = x /\ IsRun(LoadLeaves, c, kids, r)
  BY <1>1, <1>2, <1>3, RunExists DEF n
<1>6. ASSUME NEW k \in 0 .. n PROVE r[k] = Step(r, k)
  <2>1. CASE k = 0  BY <2>1, <1>5
  <2>2. CASE k # 0
    <3>1. k \in 1 .. n /\ k - 1 \in 0 .. n  BY <2>2, <1>1
    <3>2. r[k - 1] \in Walks  BY <3>1
    <3>3. r[k] = LoadLeaves[<<c, r[k - 1], kids[k]>>]  BY <3>1, <1>5 DEF IsRun, n
    <3>4. r[k] = LoadLeaf(c, r[k - 1], kids[k])  BY <3>1, <3>2, <3>3, <1>4
    <3> QED BY <2>2, <3>4
  <2> QED BY <2>1, <2>2
<1>7. r = [k \in 0 .. n |-> Step(r, k)]
  <2>1. r = [k \in 0 .. n |-> r[k]]  OBVIOUS
  <2> HIDE DEF Step
  <2> QED BY <2>1, <1>6
<1>8. IsLeafRun(r, c, w, b)
  BY <1>7 DEF IsLeafRun, n, kids, x
<1> DEFINE a == LeafRun(c, w, b)
<1>9. IsLeafRun(a, c, w, b)
  BY <1>8, Zenon DEF LeafRun
<1> HIDE DEF a
<1>10. a = [k \in 0 .. n |-> Step(a, k)]
  BY <1>9 DEF IsLeafRun, n, kids, x
<1>11. DOMAIN a = 0 .. n /\ \A k \in 0 .. n : a[k] = Step(a, k)
  <2> HIDE DEF Step
  <2> QED BY <1>10
<1>12. a[0] = x /\ \A k \in 1 .. n : a[k] = LoadLeaf(c, a[k - 1], kids[k])
  <2>1. 0 \in 0 .. n  BY <1>1
  <2>2. \A k \in 1 .. n : k \in 0 .. n /\ k # 0  OBVIOUS
  <2> QED BY <1>11, <2>1, <2>2
<1> HIDE DEF Step
<1> DEFINE K == {k \in 0 .. n : a[k] \in Walks}
<1>13. 0 \in K
  BY <1>1, <1>2, <1>12
<1>14. ASSUME NEW k \in 0 .. n, k \in K, k < n PROVE k + 1 \in K
  <2>1. k + 1 \in 1 .. n /\ k + 1 \in 0 .. n /\ (k + 1) - 1 = k  BY <1>1, <1>14
  <2>2. a[k + 1] = LoadLeaf(c, a[k], kids[k + 1])  BY <1>12, <2>1
  <2>3. a[k + 1] \in Walks  BY <1>4, <1>14, <2>1, <2>2
  <2> QED BY <2>1, <2>3
<1>15. \A k \in 0 .. n : a[k] \in Walks
  <2> HIDE DEF K
  <2>1. \A k \in 0 .. n : k \in K /\ k < n => k + 1 \in K  BY <1>14
  <2>2. \A k \in 0 .. n : k \in K  BY <1>1, <1>13, <2>1, UpTo, Zenon
  <2> QED BY <2>2 DEF K
<1>16. a \in [0 .. n -> Walks]
  <2>1. a = [k \in 0 .. n |-> a[k]]  BY <1>10, <1>11
  <2> QED BY <2>1, <1>15
<1>17. \A k \in 1 .. n : a[k] = LoadLeaves[<<c, a[k - 1], kids[k]>>]
  <2> TAKE k \in 1 .. n
  <2>1. k - 1 \in 0 .. n  BY <1>1
  <2> QED BY <2>1, <1>4, <1>12, <1>15
<1> QED BY <1>12, <1>16, <1>17 DEF IsRun, a, n, kids, x

\* The second tree is loaded as nodes of leaves.
LEMMA LoadDoubleOf == NodeOf(LoadDoubles, LoadLeaves)
<1>1. ASSUME NEW c \in Maps, NEW w \in Walks, NEW b \in 0 .. N
      PROVE  /\ LoadDoubles[<<c, w, b>>] \in Walks
             /\ Stopped(w) => LoadDoubles[<<c, w, b>>] = w
             /\ ~Stopped(w) /\ b = Null => LoadDoubles[<<c, w, b>>] = Missed(w)
             /\ ~Stopped(w) /\ b # Null =>
                  \E a \in [0 .. Len(c[b]) -> Walks] :
                   /\ a[0] = Entered(c, w, b)
                   /\ IsRun(LoadLeaves, c, c[b], a)
                   /\ LoadDoubles[<<c, w, b>>] = a[Len(c[b])]
  <2>1. LoadDoubles[<<c, w, b>>] = LoadDouble(c, w, b)
    BY Call DEF LoadDoubles
  <2>2. CASE Stopped(w)
    <3>1. LoadDouble(c, w, b) = w  BY <2>2, LoadDoubleUnfold DEF Stopped
    <3> QED BY <2>1, <2>2, <3>1
  <2>3. CASE ~Stopped(w) /\ b = Null
    <3>1. LoadDouble(c, w, b) = Missed(w)  BY <2>3, LoadDoubleUnfold, Zenon DEF Stopped, Missed
    <3> QED BY <2>1, <2>3, <3>1, MissedFacts
  <2>4. CASE ~Stopped(w) /\ b # Null
    <3>1. b \in Blocks /\ Len(c[b]) \in Nat  BY <2>4, MapFacts
    <3>2. LoadDouble(c, w, b) = LeafRun(c, w, b)[Len(c[b])]
      BY <2>4, LoadDoubleUnfold DEF Stopped
    <3> DEFINE a == LeafRun(c, w, b)
    <3>3. /\ a \in [0 .. Len(c[b]) -> Walks]
          /\ a[0] = Entered(c, w, b)
          /\ IsRun(LoadLeaves, c, c[b], a)
      BY <3>1, LeafRunFacts
    <3> HIDE DEF a
    <3>4. LoadDoubles[<<c, w, b>>] = a[Len(c[b])]  BY <2>1, <3>2 DEF a
    <3>5. Len(c[b]) \in 0 .. Len(c[b])  BY <3>1
    <3>6. a[Len(c[b])] \in Walks  BY <3>3, <3>5
    <3> QED BY <2>4, <3>3, <3>4, <3>6
  <2> QED BY <2>2, <2>3, <2>4
<1>2. LoadDoubles \in [Calls -> Walks]
  <2>1. ASSUME NEW t \in Calls PROVE LoadDouble(t[1], t[2], t[3]) \in Walks
    <3>1. t[1] \in Maps /\ t[2] \in Walks /\ t[3] \in 0 .. N /\ t = <<t[1], t[2], t[3]>>
      BY DEF Calls
    <3>2. LoadDoubles[t] \in Walks  BY <3>1, <1>1
    <3> QED BY <3>2 DEF LoadDoubles
  <2> QED BY <2>1 DEF LoadDoubles
<1> QED BY <1>1, <1>2 DEF NodeOf

\* The load of a block of leaves is a loader.
LEMMA DoublesLoader == IsLoader(LoadDoubles)
BY LeavesLoader, LoadDoubleOf, NodeIsLoader

\* The loop of load_entries_ over the children of a block whose children are
\* blocks of leaves.
IsDoubleRun(a, c, w, b) ==
    a = [k \in 0 .. Len(c[b]) |-> IF k = 0 THEN Entered(c, w, b)
                                 ELSE LoadDouble(c, a[k - 1], c[b][k])]
DoubleRun(c, w, b) == CHOOSE a : IsDoubleRun(a, c, w, b)

\* The load of the third tree, by the loop over its children.
LEMMA LoadTripleUnfold ==
    ASSUME NEW c, NEW w, NEW b
    PROVE  LoadTriple(c, w, b) =
              IF w.left = 0 \/ ~w.ok THEN w
              ELSE IF b = Null THEN [w EXCEPT !.ok = FALSE]
              ELSE DoubleRun(c, w, b)[Len(c[b])]
BY Zenon DEF LoadTriple, LoadNode, DoubleRun, IsDoubleRun, Entered

\* The loop over the subtrees is a run of their loader.
LEMMA DoubleRunFacts ==
    ASSUME NEW c \in Maps, NEW w \in Walks, NEW b \in Blocks
    PROVE  LET a == DoubleRun(c, w, b) IN
           /\ a \in [0 .. Len(c[b]) -> Walks]
           /\ a[0] = Entered(c, w, b)
           /\ IsRun(LoadDoubles, c, c[b], a)
<1> DEFINE kids == c[b]  n == Len(kids)  x == Entered(c, w, b)
<1>1. kids \in Seq(Blocks) /\ n \in Nat /\ \A k \in 1 .. n : kids[k] \in 0 .. N
  <2>1. kids \in Seq(Blocks)  BY DEF Maps
  <2>2. \A k \in 1 .. n : kids[k] \in Blocks  BY <2>1
  <2> QED BY <2>1, <2>2 DEF Blocks
<1>2. x \in Walks
  BY EnteredFacts
<1>3. LoadDoubles \in [Calls -> Walks]
  BY DoublesLoader DEF IsLoader
<1>4. \A v \in Walks, k \in 1 .. n :
         /\ LoadDoubles[<<c, v, kids[k]>>] = LoadDouble(c, v, kids[k])
         /\ LoadDouble(c, v, kids[k]) \in Walks
  <2> TAKE v \in Walks, k \in 1 .. n
  <2>1. kids[k] \in 0 .. N  BY <1>1
  <2>2. <<c, v, kids[k]>> \in Calls  BY <2>1, Call
  <2>3. LoadDoubles[<<c, v, kids[k]>>] = LoadDouble(c, v, kids[k])  BY <2>2 DEF LoadDoubles
  <2>4. LoadDoubles[<<c, v, kids[k]>>] \in Walks  BY <1>3, <2>2
  <2> QED BY <2>3, <2>4
<1> DEFINE Step(r, k) == IF k = 0 THEN x ELSE LoadDouble(c, r[k - 1], kids[k])
<1> HIDE DEF kids, n, x
<1>5. PICK r \in [0 .. n -> Walks] : r[0] = x /\ IsRun(LoadDoubles, c, kids, r)
  BY <1>1, <1>2, <1>3, RunExists DEF n
<1>6. ASSUME NEW k \in 0 .. n PROVE r[k] = Step(r, k)
  <2>1. CASE k = 0  BY <2>1, <1>5
  <2>2. CASE k # 0
    <3>1. k \in 1 .. n /\ k - 1 \in 0 .. n  BY <2>2, <1>1
    <3>2. r[k - 1] \in Walks  BY <3>1
    <3>3. r[k] = LoadDoubles[<<c, r[k - 1], kids[k]>>]  BY <3>1, <1>5 DEF IsRun, n
    <3>4. r[k] = LoadDouble(c, r[k - 1], kids[k])  BY <3>1, <3>2, <3>3, <1>4
    <3> QED BY <2>2, <3>4
  <2> QED BY <2>1, <2>2
<1>7. r = [k \in 0 .. n |-> Step(r, k)]
  <2>1. r = [k \in 0 .. n |-> r[k]]  OBVIOUS
  <2> HIDE DEF Step
  <2> QED BY <2>1, <1>6
<1>8. IsDoubleRun(r, c, w, b)
  BY <1>7 DEF IsDoubleRun, n, kids, x
<1> DEFINE a == DoubleRun(c, w, b)
<1>9. IsDoubleRun(a, c, w, b)
  BY <1>8, Zenon DEF DoubleRun
<1> HIDE DEF a
<1>10. a = [k \in 0 .. n |-> Step(a, k)]
  BY <1>9 DEF IsDoubleRun, n, kids, x
<1>11. DOMAIN a = 0 .. n /\ \A k \in 0 .. n : a[k] = Step(a, k)
  <2> HIDE DEF Step
  <2> QED BY <1>10
<1>12. a[0] = x /\ \A k \in 1 .. n : a[k] = LoadDouble(c, a[k - 1], kids[k])
  <2>1. 0 \in 0 .. n  BY <1>1
  <2>2. \A k \in 1 .. n : k \in 0 .. n /\ k # 0  OBVIOUS
  <2> QED BY <1>11, <2>1, <2>2
<1> HIDE DEF Step
<1> DEFINE K == {k \in 0 .. n : a[k] \in Walks}
<1>13. 0 \in K
  BY <1>1, <1>2, <1>12
<1>14. ASSUME NEW k \in 0 .. n, k \in K, k < n PROVE k + 1 \in K
  <2>1. k + 1 \in 1 .. n /\ k + 1 \in 0 .. n /\ (k + 1) - 1 = k  BY <1>1, <1>14
  <2>2. a[k + 1] = LoadDouble(c, a[k], kids[k + 1])  BY <1>12, <2>1
  <2>3. a[k + 1] \in Walks  BY <1>4, <1>14, <2>1, <2>2
  <2> QED BY <2>1, <2>3
<1>15. \A k \in 0 .. n : a[k] \in Walks
  <2> HIDE DEF K
  <2>1. \A k \in 0 .. n : k \in K /\ k < n => k + 1 \in K  BY <1>14
  <2>2. \A k \in 0 .. n : k \in K  BY <1>1, <1>13, <2>1, UpTo, Zenon
  <2> QED BY <2>2 DEF K
<1>16. a \in [0 .. n -> Walks]
  <2>1. a = [k \in 0 .. n |-> a[k]]  BY <1>10, <1>11
  <2> QED BY <2>1, <1>15
<1>17. \A k \in 1 .. n : a[k] = LoadDoubles[<<c, a[k - 1], kids[k]>>]
  <2> TAKE k \in 1 .. n
  <2>1. k - 1 \in 0 .. n  BY <1>1
  <2> QED BY <2>1, <1>4, <1>12, <1>15
<1> QED BY <1>12, <1>16, <1>17 DEF IsRun, a, n, kids, x

\* The third tree is loaded as nodes of such blocks.
LEMMA LoadTripleOf == NodeOf(LoadTriples, LoadDoubles)
<1>1. ASSUME NEW c \in Maps, NEW w \in Walks, NEW b \in 0 .. N
      PROVE  /\ LoadTriples[<<c, w, b>>] \in Walks
             /\ Stopped(w) => LoadTriples[<<c, w, b>>] = w
             /\ ~Stopped(w) /\ b = Null => LoadTriples[<<c, w, b>>] = Missed(w)
             /\ ~Stopped(w) /\ b # Null =>
                  \E a \in [0 .. Len(c[b]) -> Walks] :
                   /\ a[0] = Entered(c, w, b)
                   /\ IsRun(LoadDoubles, c, c[b], a)
                   /\ LoadTriples[<<c, w, b>>] = a[Len(c[b])]
  <2>1. LoadTriples[<<c, w, b>>] = LoadTriple(c, w, b)
    BY Call DEF LoadTriples
  <2>2. CASE Stopped(w)
    <3>1. LoadTriple(c, w, b) = w  BY <2>2, LoadTripleUnfold DEF Stopped
    <3> QED BY <2>1, <2>2, <3>1
  <2>3. CASE ~Stopped(w) /\ b = Null
    <3>1. LoadTriple(c, w, b) = Missed(w)  BY <2>3, LoadTripleUnfold, Zenon DEF Stopped, Missed
    <3> QED BY <2>1, <2>3, <3>1, MissedFacts
  <2>4. CASE ~Stopped(w) /\ b # Null
    <3>1. b \in Blocks /\ Len(c[b]) \in Nat  BY <2>4, MapFacts
    <3>2. LoadTriple(c, w, b) = DoubleRun(c, w, b)[Len(c[b])]
      BY <2>4, LoadTripleUnfold DEF Stopped
    <3> DEFINE a == DoubleRun(c, w, b)
    <3>3. /\ a \in [0 .. Len(c[b]) -> Walks]
          /\ a[0] = Entered(c, w, b)
          /\ IsRun(LoadDoubles, c, c[b], a)
      BY <3>1, DoubleRunFacts
    <3> HIDE DEF a
    <3>4. LoadTriples[<<c, w, b>>] = a[Len(c[b])]  BY <2>1, <3>2 DEF a
    <3>5. Len(c[b]) \in 0 .. Len(c[b])  BY <3>1
    <3>6. a[Len(c[b])] \in Walks  BY <3>3, <3>5
    <3> QED BY <2>4, <3>3, <3>4, <3>6
  <2> QED BY <2>2, <2>3, <2>4
<1>2. LoadTriples \in [Calls -> Walks]
  <2>1. ASSUME NEW t \in Calls PROVE LoadTriple(t[1], t[2], t[3]) \in Walks
    <3>1. t[1] \in Maps /\ t[2] \in Walks /\ t[3] \in 0 .. N /\ t = <<t[1], t[2], t[3]>>
      BY DEF Calls
    <3>2. LoadTriples[t] \in Walks  BY <3>1, <1>1
    <3> QED BY <3>2 DEF LoadTriples
  <2> QED BY <2>1 DEF LoadTriples
<1> QED BY <1>1, <1>2 DEF NodeOf

\* The load of the third tree is a loader.
LEMMA TriplesLoader == IsLoader(LoadTriples)
BY DoublesLoader, LoadTripleOf, NodeIsLoader

-----------------------------------------------------------------------------
(* Entry blocks that list a part of data_ids_ *)

Same(c, d, U) == \A x \in U : d[x] = c[x]

\* The walk w once it has found the n ids behind the i-th, in the blocks e.
Onward(w, ids, i, n, e) ==
    [ok |-> TRUE, left |-> w.left - n, ids |-> w.ids \o SubSeq(ids, i + 1, i + n),
     entries |-> w.entries \o e]

\* r comes after w, if the ids from the i-th to the j-th are in the blocks U.
Fetched(r, w, ids, i, j, U) ==
    \E e \in Seq(Blocks) :
       /\ IsInjective(e) /\ ToSet(e) \subseteq U
       /\ j - i <= w.left => ToSet(e) = U
       /\ r = Onward(w, ids, i, Smaller(w.left, j - i), e)

\* The block b, and a list of blocks, through which ld finds these ids.
Reads(ld, c, b, ids, i, j, U) ==
    \A d \in Maps : Same(c, d, U) =>
       \A w \in Walks : ~Stopped(w) => Fetched(ld[<<d, w, b>>], w, ids, i, j, U)

ReadsAll(ld, c, kids, ids, i, j, U) ==
    \A d \in Maps : Same(c, d, U) =>
       \A w \in Walks : ~Stopped(w) =>
          \A a \in [0 .. Len(kids) -> Walks] :
             a[0] = w /\ IsRun(ld, d, kids, a) => Fetched(a[Len(kids)], w, ids, i, j, U)

\* What is elsewhere does not matter.
LEMMA ReadsKept ==
    ASSUME NEW ld, NEW c, NEW d, NEW U, Same(c, d, U), NEW ids, NEW i, NEW j
    PROVE  /\ \A b : Reads(ld, c, b, ids, i, j, U) => Reads(ld, d, b, ids, i, j, U)
           /\ \A kids : ReadsAll(ld, c, kids, ids, i, j, U) => ReadsAll(ld, d, kids, ids, i, j, U)
<1>1. \A m : Same(d, m, U) => Same(c, m, U)
  BY DEF Same
<1>2. ASSUME NEW b, Reads(ld, c, b, ids, i, j, U) PROVE Reads(ld, d, b, ids, i, j, U)
  BY <1>1, <1>2, Zenon DEF Reads
<1>3. ASSUME NEW kids, ReadsAll(ld, c, kids, ids, i, j, U) PROVE ReadsAll(ld, d, kids, ids, i, j, U)
  BY <1>1, <1>3, Zenon DEF ReadsAll
<1> QED BY <1>2, <1>3, Zenon

\* A walk is the record of its fields.
LEMMA WalkRecord ==
    ASSUME NEW w \in Walks
    PROVE  w = [ok |-> w.ok, left |-> w.left, ids |-> w.ids, entries |-> w.entries]
BY DEF Walks

\* Adjacent parts of the ids.
LEMMA Adjacent ==
    ASSUME NEW ids \in Seq(Blocks), NEW i \in 0 .. Len(ids), NEW j \in i .. Len(ids)
    PROVE  /\ SubSeq(ids, i + 1, j) \in Seq(Blocks) /\ Len(SubSeq(ids, i + 1, j)) = j - i
           /\ \A l \in j .. Len(ids) :
                 SubSeq(ids, i + 1, j) \o SubSeq(ids, j + 1, l) = SubSeq(ids, i + 1, l)
<1>1. Len(ids) \in Nat /\ i \in Nat /\ j \in Nat /\ i <= j /\ j <= Len(ids)
  OBVIOUS
<1>2. \A k \in i + 1 .. j : ids[k] \in Blocks
  <2> TAKE k \in i + 1 .. j
  <2>1. k \in 1 .. Len(ids)  BY <1>1
  <2> QED BY <2>1
<1>3. i + 1 \in Int /\ j \in Int
  BY <1>1
<1>4. /\ SubSeq(ids, i + 1, j) \in Seq(Blocks)
      /\ Len(SubSeq(ids, i + 1, j)) = IF i + 1 <= j THEN j - (i + 1) + 1 ELSE 0
  BY <1>2, <1>3, SubSeqProperties
<1>5. Len(SubSeq(ids, i + 1, j)) = j - i
  BY <1>1, <1>4
<1>6. ASSUME NEW l \in j .. Len(ids)
      PROVE  SubSeq(ids, i + 1, j) \o SubSeq(ids, j + 1, l) = SubSeq(ids, i + 1, l)
  <2>1. i + 1 \in 1 .. Len(ids) + 1 /\ j \in (i + 1) - 1 .. Len(ids) /\ l \in j .. Len(ids)
    BY <1>1
  <2> QED BY <2>1, ConcatAdjacentSubSeq
<1> QED BY <1>4, <1>5, <1>6

\* Concatenation is associative.
LEMMA Regrouped ==
    ASSUME NEW s \in Seq(Blocks), NEW t \in Seq(Blocks), NEW u \in Seq(Blocks)
    PROVE  (s \o t) \o u = s \o (t \o u)
BY ConcatAssociative

\* The fields of a walk that has found more.
LEMMA OnwardFields ==
    ASSUME NEW w, NEW ids, NEW i, NEW n, NEW e
    PROVE  /\ Onward(w, ids, i, n, e).ok
           /\ Onward(w, ids, i, n, e).left = w.left - n
           /\ Onward(w, ids, i, n, e).ids = w.ids \o SubSeq(ids, i + 1, i + n)
           /\ Onward(w, ids, i, n, e).entries = w.entries \o e
BY DEF Onward

\* The ids from the i-th to the j-th and then those to the l-th.
LEMMA FetchedTwice ==
    ASSUME NEW ids \in Seq(Blocks), NEW i \in 0 .. Len(ids), NEW j \in i .. Len(ids),
           NEW l \in j .. Len(ids), j < l, NEW U, NEW V, U \cap V = {},
           NEW w \in Walks, NEW r \in Walks, NEW v, Fetched(r, w, ids, i, j, U),
           Stopped(r) => v = r, ~Stopped(r) => Fetched(v, r, ids, j, l, V)
    PROVE  Fetched(v, w, ids, i, l, U \cup V)
<1>1. /\ Len(ids) \in Nat /\ i \in Nat /\ j \in Nat /\ l \in Nat
      /\ i <= j /\ j < l /\ l <= Len(ids) /\ w.left \in Nat
  BY WalkFields
<1>2. PICK e \in Seq(Blocks) :
         /\ IsInjective(e) /\ ToSet(e) \subseteq U
         /\ j - i <= w.left => ToSet(e) = U
         /\ r = Onward(w, ids, i, Smaller(w.left, j - i), e)
  BY DEF Fetched
<1>3. CASE w.left <= j - i
  <2>1. Smaller(w.left, j - i) = w.left /\ Smaller(w.left, l - i) = w.left /\ ~(l - i <= w.left)
    BY <1>1, <1>3 DEF Smaller
  <2>2. r.left = 0  BY <1>1, <1>2, <2>1, OnwardFields
  <2>3. v = r  BY <2>2 DEF Stopped
  <2>4. v = Onward(w, ids, i, Smaller(w.left, l - i), e)  BY <1>2, <2>1, <2>3
  <2>5. ToSet(e) \subseteq U \cup V  BY <1>2
  <2> QED BY <1>2, <2>1, <2>4, <2>5 DEF Fetched
<1>4. CASE ~(w.left <= j - i)
  <2>1. Smaller(w.left, j - i) = j - i /\ w.left - (j - i) \in Nat /\ w.left - (j - i) # 0
        /\ i + (j - i) = j /\ l - j \in Nat /\ j - i <= w.left
    BY <1>1, <1>4 DEF Smaller
  <2>2. /\ r = Onward(w, ids, i, j - i, e) /\ ToSet(e) = U
    BY <1>2, <2>1
  <2>3. /\ r.ok /\ r.left = w.left - (j - i) /\ r.ids = w.ids \o SubSeq(ids, i + 1, j)
        /\ r.entries = w.entries \o e
    <3> DEFINE o == Onward(w, ids, i, j - i, e)
    <3>1. /\ o.ok /\ o.left = w.left - (j - i) /\ o.ids = w.ids \o SubSeq(ids, i + 1, i + (j - i))
          /\ o.entries = w.entries \o e
      BY DEF Onward
    <3> HIDE DEF o
    <3> QED BY <3>1, <2>1, <2>2 DEF o
  <2>4. ~Stopped(r)  BY <2>1, <2>3 DEF Stopped
  <2> DEFINE m == Smaller(r.left, l - j)
  <2>5. PICK f \in Seq(Blocks) :
           /\ IsInjective(f) /\ ToSet(f) \subseteq V
           /\ l - j <= r.left => ToSet(f) = V
           /\ v = Onward(r, ids, j, m, f)
    BY <2>4 DEF Fetched
  <2>6. m \in Nat /\ m <= l - j /\ m <= r.left
    <3>1. r.left \in Nat  BY <2>1, <2>3
    <3> QED BY <2>1, <3>1, SmallerFacts
  <2>7. Smaller(w.left, l - i) = (j - i) + m
    BY <1>1, <2>1, <2>3, SMTT(30) DEF Smaller
  <2>8. l - i <= w.left => l - j <= r.left
    BY <1>1, <2>3
  <2> HIDE DEF m
  <2>9. e \o f \in Seq(Blocks) /\ IsInjective(e \o f) /\ ToSet(e \o f) = ToSet(e) \cup ToSet(f)
    BY <1>2, <2>2, <2>5, JoinFacts
  <2>10. ToSet(e \o f) \subseteq U \cup V /\ (l - i <= w.left => ToSet(e \o f) = U \cup V)
    BY <2>2, <2>5, <2>8, <2>9
  <2>11. r.left - m = w.left - ((j - i) + m)
    BY <1>1, <2>1, <2>3, <2>6
  <2>12. w.ids \in Seq(Blocks) /\ w.entries \in Seq(Blocks)
    BY WalkFields
  <2>13. r.ids \o SubSeq(ids, j + 1, j + m) = w.ids \o SubSeq(ids, i + 1, i + ((j - i) + m))
    <3>1. j + m \in j .. Len(ids) /\ i + ((j - i) + m) = j + m /\ j \in 0 .. Len(ids)
          /\ j + m \in i .. Len(ids)
      BY <1>1, <2>6
    <3>2. /\ SubSeq(ids, i + 1, j) \in Seq(Blocks) /\ SubSeq(ids, j + 1, j + m) \in Seq(Blocks)
          /\ SubSeq(ids, i + 1, j) \o SubSeq(ids, j + 1, j + m) = SubSeq(ids, i + 1, j + m)
      BY <3>1, Adjacent, ZenonT(30)
    <3> DEFINE x == w.ids  y == SubSeq(ids, i + 1, j)  z == SubSeq(ids, j + 1, j + m)
    <3>3. (x \o y) \o z = x \o (y \o z)
      <4>1. x \in Seq(Blocks)  BY <2>12
      <4>2. y \in Seq(Blocks) /\ z \in Seq(Blocks)  BY <3>2
      <4> HIDE DEF x, y, z
      <4> QED BY ONLY <4>1, <4>2, Regrouped, ZenonT(30)
    <3> QED BY <2>3, <3>1, <3>2, <3>3
  <2>14. r.entries \o f = w.entries \o (e \o f)
    <3> DEFINE x == w.entries
    <3>1. x \in Seq(Blocks) /\ r.entries = x \o e  BY <2>3, <2>12
    <3> HIDE DEF x
    <3>2. (x \o e) \o f = x \o (e \o f)  BY <1>2, <2>5, <3>1, Regrouped, ZenonT(30)
    <3> QED BY <3>1, <3>2 DEF x
  <2>15. v = Onward(w, ids, i, (j - i) + m, e \o f)
    BY <2>5, <2>11, <2>13, <2>14 DEF Onward
  <2> QED BY <2>7, <2>9, <2>10, <2>15 DEF Fetched
<1> QED BY <1>3, <1>4

\* No blocks list no ids.
LEMMA ReadsNone ==
    ASSUME NEW ld, NEW c, NEW ids, NEW i \in Nat
    PROVE  ReadsAll(ld, c, << >>, ids, i, i, {})
<1> SUFFICES ASSUME NEW w \in Walks, ~Stopped(w) PROVE Fetched(w, w, ids, i, i, {})
  <2>1. Len(<< >>) = 0  OBVIOUS
  <2> QED BY <2>1 DEF ReadsAll
<1>1. w.left \in Nat /\ w.ids \in Seq(Blocks) /\ w.entries \in Seq(Blocks) /\ w.ok = TRUE
  BY WalkFields DEF Stopped
<1>2. Smaller(w.left, i - i) = 0 /\ i + 0 < i + 1 /\ w.left - 0 = w.left
  BY <1>1 DEF Smaller
<1>3. SubSeq(ids, i + 1, i + 0) = << >>
  BY <1>2, SubSeqEmpty
<1>4. w.ids \o << >> = w.ids /\ w.entries \o << >> = w.entries
  BY <1>1, ConcatEmptySeq
<1>5. Onward(w, ids, i, 0, << >>) = w
  BY <1>1, <1>2, <1>3, <1>4, WalkRecord DEF Onward
<1>6. << >> \in Seq(Blocks) /\ IsInjective(<< >>) /\ ToSet(<< >>) = {}
  BY EmptyFacts
<1> QED BY <1>2, <1>5, <1>6 DEF Fetched

\* A list with one more block.
LEMMA ReadsMore ==
    ASSUME NEW ld, IsLoader(ld), NEW c \in Maps, NEW kids \in Seq(Blocks), NEW b \in Blocks,
           NEW ids \in Seq(Blocks), NEW i \in 0 .. Len(ids), NEW j \in i .. Len(ids),
           NEW l \in j .. Len(ids), j < l, NEW U, NEW V, U \cap V = {},
           ReadsAll(ld, c, kids, ids, i, j, U), Reads(ld, c, b, ids, j, l, V)
    PROVE  ReadsAll(ld, c, Append(kids, b), ids, i, l, U \cup V)
<1> DEFINE n == Len(kids)
<1>1. /\ n \in Nat /\ Len(Append(kids, b)) = n + 1
      /\ \A k \in 1 .. n : Append(kids, b)[k] = kids[k]
      /\ Append(kids, b)[n + 1] = b
  BY AppendProperties
<1> HIDE DEF n
<1> SUFFICES ASSUME NEW d \in Maps, Same(c, d, U \cup V), NEW w \in Walks, ~Stopped(w),
                    NEW a \in [0 .. n + 1 -> Walks], a[0] = w,
                    IsRun(ld, d, Append(kids, b), a)
             PROVE  Fetched(a[n + 1], w, ids, i, l, U \cup V)
  BY <1>1 DEF ReadsAll
<1>2. Same(c, d, U) /\ Same(c, d, V)
  BY DEF Same
<1> DEFINE r == [k \in 0 .. n |-> a[k]]
<1>3. \A k \in 0 .. n : k \in 0 .. n + 1
  BY <1>1
<1>4. r \in [0 .. n -> Walks] /\ \A k \in 0 .. n : r[k] = a[k]
  BY <1>3
<1> HIDE DEF r
<1>5. IsRun(ld, d, kids, r)
  <2>1. ASSUME NEW k \in 1 .. n PROVE r[k] = ld[<<d, r[k - 1], kids[k]>>]
    <3>1. k \in 1 .. n + 1 /\ k \in 0 .. n /\ k - 1 \in 0 .. n  BY <1>1
    <3>2. a[k] = ld[<<d, a[k - 1], Append(kids, b)[k]>>]  BY <3>1, <1>1 DEF IsRun
    <3> QED BY <3>1, <3>2, <1>1, <1>4
  <2> QED BY <2>1 DEF IsRun, n
<1>6. r[0] = w /\ r[n] = a[n] /\ n \in 0 .. n /\ n + 1 \in 1 .. n + 1 /\ (n + 1) - 1 = n
  BY <1>1, <1>4
<1>7. Fetched(a[n], w, ids, i, j, U)
  <2>1. Fetched(r[n], w, ids, i, j, U)
    BY <1>2, <1>4, <1>5, <1>6, Zenon DEF ReadsAll, n
  <2> QED BY <2>1, <1>6
<1>8. a[n] \in Walks
  BY <1>3, <1>6
<1>9. a[n + 1] = ld[<<d, a[n], b>>]
  BY <1>1, <1>6 DEF IsRun
<1>10. b \in 0 .. N
  BY DEF Blocks
<1>11. Stopped(a[n]) => a[n + 1] = a[n]
  BY <1>8, <1>9, <1>10, LoaderAt
<1>12. ~Stopped(a[n]) => Fetched(a[n + 1], a[n], ids, j, l, V)
  BY <1>2, <1>8, <1>9, Zenon DEF Reads
<1> DEFINE u == a[n]  v == a[n + 1]
<1> HIDE DEF u, v
<1>13. /\ u \in Walks /\ Fetched(u, w, ids, i, j, U) /\ (Stopped(u) => v = u)
       /\ (~Stopped(u) => Fetched(v, u, ids, j, l, V))
  BY <1>7, <1>8, <1>11, <1>12 DEF u, v
<1>14. Fetched(v, w, ids, i, l, U \cup V)
  BY <1>13, FetchedTwice
<1> QED BY <1>14 DEF v

\* The ids of the children of a block are those of the block.
LEMMA NodeReads ==
    ASSUME NEW ld, NEW nd, NodeOf(nd, ld), NEW c \in Maps, NEW b \in Blocks, c[b] # << >>,
           NEW ids \in Seq(Blocks), NEW i \in 0 .. Len(ids), NEW j \in i .. Len(ids),
           NEW U, b \notin U, ReadsAll(ld, c, c[b], ids, i, j, U)
    PROVE  Reads(nd, c, b, ids, i, j, U \cup {b})
<1> SUFFICES ASSUME NEW d \in Maps, Same(c, d, U \cup {b}), NEW w \in Walks, ~Stopped(w)
             PROVE  Fetched(nd[<<d, w, b>>], w, ids, i, j, U \cup {b})
  BY DEF Reads
<1>1. Same(c, d, U) /\ d[b] = c[b]
  BY DEF Same
<1>2. b \in 0 .. N /\ b # Null
  BY SizesAssumption DEF Blocks, Null
<1> DEFINE u == Entered(d, w, b)  n == Len(c[b])
<1>3. PICK a \in [0 .. n -> Walks] :
         a[0] = u /\ IsRun(ld, d, c[b], a) /\ nd[<<d, w, b>>] = a[n]
  BY <1>1, <1>2 DEF NodeOf
<1>4. /\ u \in Walks /\ (u.ok <=> d[b] # << >>) /\ u.left = w.left /\ u.ids = w.ids
      /\ u.entries = w.entries \o <<b>>
  <2>1. u \in Walks /\ u.left = w.left /\ u.ids = w.ids  BY EnteredFacts
  <2>2. u.entries = Append(w.entries, b) /\ Append(w.entries, b) = w.entries \o <<b>>
    BY EnteredFacts, EntryAdded
  <2>3. u.ok <=> d[b] # << >>  BY EnteredFacts
  <2> HIDE DEF u
  <2> QED BY <2>1, <2>2, <2>3
<1> HIDE DEF u
<1>5. ~Stopped(u)
  BY <1>1, <1>4 DEF Stopped
<1>6. Fetched(a[n], u, ids, i, j, U)
  BY <1>1, <1>3, <1>4, <1>5, Zenon DEF ReadsAll
<1>7. PICK e \in Seq(Blocks) :
         /\ IsInjective(e) /\ ToSet(e) \subseteq U
         /\ j - i <= w.left => ToSet(e) = U
         /\ a[n] = Onward(u, ids, i, Smaller(w.left, j - i), e)
  BY <1>4, <1>6 DEF Fetched
<1>8. <<b>> \in Seq(Blocks) /\ IsInjective(<<b>>) /\ ToSet(<<b>>) = {b} /\ w.entries \in Seq(Blocks)
  BY OneFacts, WalkFields
<1> DEFINE o == <<b>>  x == w.entries
<1> HIDE DEF o, x
<1>9. o \o e \in Seq(Blocks) /\ IsInjective(o \o e) /\ ToSet(o \o e) = {b} \cup ToSet(e)
  <2>1. o \in Seq(Blocks) /\ IsInjective(o) /\ ToSet(o) = {b}  BY <1>8 DEF o
  <2> QED BY <1>7, <2>1, JoinFacts
<1>10. u.entries \o e = x \o (o \o e)
  <2>1. o \in Seq(Blocks) /\ x \in Seq(Blocks)  BY <1>8 DEF o, x
  <2>2. u.entries = x \o o  BY <1>4 DEF o, x
  <2>3. (x \o o) \o e = x \o (o \o e)  BY ONLY <1>7, <2>1, Regrouped, ZenonT(30)
  <2> QED BY <2>2, <2>3
<1>11. a[n] = Onward(w, ids, i, Smaller(w.left, j - i), o \o e)
  BY <1>4, <1>7, <1>10 DEF Onward, x
<1>12. ToSet(o \o e) \subseteq U \cup {b} /\ (j - i <= w.left => ToSet(o \o e) = U \cup {b})
  BY <1>7, <1>9
<1> DEFINE f == o \o e
<1>13. /\ f \in Seq(Blocks) /\ IsInjective(f) /\ ToSet(f) \subseteq U \cup {b}
       /\ j - i <= w.left => ToSet(f) = U \cup {b}
       /\ a[n] = Onward(w, ids, i, Smaller(w.left, j - i), f)
  BY <1>9, <1>11, <1>12
<1> HIDE DEF f
<1> QED BY <1>3, <1>13 DEF Fetched

\* A leaf lists the ids it holds.
LEMMA LeafReads ==
    ASSUME NEW c \in Maps, NEW b \in Blocks, NEW ids \in Seq(Blocks),
           NEW i \in 0 .. Len(ids), NEW j \in i .. Len(ids), i < j,
           c[b] = SubSeq(ids, i + 1, j)
    PROVE  Reads(LoadLeaves, c, b, ids, i, j, {b})
<1> SUFFICES ASSUME NEW d \in Maps, Same(c, d, {b}), NEW w \in Walks, ~Stopped(w)
             PROVE  Fetched(LoadLeaves[<<d, w, b>>], w, ids, i, j, {b})
  BY DEF Reads
<1> DEFINE n == Smaller(w.left, j - i)
<1>1. b \in 0 .. N
  BY DEF Blocks
<1>2. LoadLeaves[<<d, w, b>>] = LoadLeaf(d, w, b)
  BY <1>1, Call DEF LoadLeaves
<1>3. d[b] = SubSeq(ids, i + 1, j)
  BY DEF Same
<1>4. Len(ids) \in Nat /\ i \in Nat /\ j \in Nat /\ i < j /\ j <= Len(ids)
      /\ w.left \in Nat /\ w.left # 0
  BY WalkFields DEF Stopped
<1>5. SubSeq(ids, i + 1, j) \in Seq(Blocks) /\ Len(SubSeq(ids, i + 1, j)) = j - i
  BY Adjacent
<1>6. d[b] # << >>
  <2>1. Len(d[b]) # 0  BY <1>3, <1>4, <1>5
  <2>2. Len(<< >>) = 0  OBVIOUS
  <2> QED BY <2>1, <2>2
<1>7. n \in Nat /\ n # 0 /\ n <= j - i /\ n <= w.left
  BY <1>4 DEF Smaller
<1>8. LoadLeaf(d, w, b) =
         [ok |-> d[b] # << >>, left |-> w.left - n, ids |-> w.ids \o SubSeq(d[b], 1, n),
          entries |-> Append(w.entries, b)]
  <2>1. Len(d[b]) = j - i  BY <1>3, <1>5
  <2> DEFINE m == Smaller(w.left, Len(d[b]))
  <2>2. LoadLeaf(d, w, b) =
           [ok |-> d[b] # << >>, left |-> w.left - m, ids |-> w.ids \o SubSeq(d[b], 1, m),
            entries |-> Append(w.entries, b)]
    BY LeafAdds
  <2>3. m = n  BY <2>1
  <2> HIDE DEF m, n
  <2> QED BY <2>2, <2>3
<1> HIDE DEF n
<1>9. SubSeq(SubSeq(ids, i + 1, j), 1, n) = SubSeq(ids, i + 1, i + n)
  <2>1. /\ i + 1 \in 1 .. Len(ids) /\ j \in 1 .. Len(ids)
        /\ 1 \in 1 .. j - (i + 1) + 1 /\ n \in 1 .. j - (i + 1) + 1
    BY <1>4, <1>7
  <2>2. SubSeq(SubSeq(ids, i + 1, j), 1, n) = SubSeq(ids, (i + 1) + 1 - 1, (i + 1) + n - 1)
    BY <2>1, SubSeqOfSubSeq
  <2>3. (i + 1) + 1 - 1 = i + 1 /\ (i + 1) + n - 1 = i + n  BY <1>4, <1>7
  <2> QED BY <2>2, <2>3
<1>10. Append(w.entries, b) = w.entries \o <<b>>
  BY WalkFields, AppendIsConcat
<1>11. LoadLeaf(d, w, b) = Onward(w, ids, i, n, <<b>>)
  BY <1>3, <1>6, <1>8, <1>9, <1>10 DEF Onward
<1>12. <<b>> \in Seq(Blocks) /\ IsInjective(<<b>>) /\ ToSet(<<b>>) = {b}
  BY OneFacts
<1> QED BY <1>2, <1>11, <1>12 DEF Fetched, n

-----------------------------------------------------------------------------
(* Savers: save_entries_ at one level *)

Saves(ids) == [i : 0 .. Len(ids), id : 0 .. N, entries : Seq(Blocks), free : Seq(Blocks),
               children : Maps, granted : SUBSET Blocks]

\* The blocks a save may write, how many they are, and that none is there twice.
Avail(s) == ToSet(s.entries) \cup ToSet(s.free)
Room(s) == Len(s.entries) + Len(s.free)
Tidy(s) == IsInjective(s.entries \o s.free)

\* The types of the fields of a save.
LEMMA SaveFields ==
    ASSUME NEW ids \in Seq(Blocks), NEW s \in Saves(ids)
    PROVE  /\ s.i \in 0 .. Len(ids) /\ s.i \in Nat /\ s.i <= Len(ids) /\ Len(ids) \in Nat
           /\ s.id \in 0 .. N /\ s.children \in Maps /\ s.granted \in SUBSET Blocks
           /\ s.entries \in Seq(Blocks) /\ s.free \in Seq(Blocks)
           /\ Len(s.entries) \in Nat /\ Len(s.free) \in Nat /\ Room(s) \in Nat
           /\ Avail(s) \subseteq Blocks
<1>1. /\ s.i \in 0 .. Len(ids) /\ s.id \in 0 .. N /\ s.children \in Maps
      /\ s.granted \in SUBSET Blocks /\ s.entries \in Seq(Blocks) /\ s.free \in Seq(Blocks)
  BY DEF Saves
<1>2. ToSet(s.entries) \subseteq Blocks /\ ToSet(s.free) \subseteq Blocks
  BY <1>1, ToSetType
<1>3. Len(s.entries) \in Nat /\ Len(s.free) \in Nat /\ Len(ids) \in Nat
  BY <1>1
<1>4. Room(s) \in Nat
  <2> DEFINE m == Len(s.entries)  n == Len(s.free)
  <2>1. m \in Nat /\ n \in Nat  BY <1>3
  <2> HIDE DEF m, n
  <2>2. m + n \in Nat  BY <2>1
  <2> QED BY <2>2 DEF Room, m, n
<1>5. Avail(s) \subseteq Blocks
  BY <1>2 DEF Avail
<1> QED BY <1>1, <1>3, <1>4, <1>5

\* No block is twice among the entry blocks left and the free blocks.
LEMMA TidyFacts ==
    ASSUME NEW ids \in Seq(Blocks), NEW s \in Saves(ids)
    PROVE  Tidy(s) <=> /\ IsInjective(s.entries) /\ IsInjective(s.free)
                       /\ ToSet(s.entries) \cap ToSet(s.free) = {}
BY SaveFields, JoinFacts DEF Tidy

\* The last block of a list.
LEMMA LastOut ==
    ASSUME NEW s \in Seq(Blocks), s # << >>
    PROVE  /\ Last(s) \in Blocks /\ Front(s) \in Seq(Blocks)
           /\ Len(s) \in Nat \ {0} /\ Len(Front(s)) = Len(s) - 1
           /\ ToSet(s) = ToSet(Front(s)) \cup {Last(s)}
           /\ IsInjective(s) => IsInjective(Front(s)) /\ Last(s) \notin ToSet(Front(s))
<1> DEFINE x == Last(s)  f == Front(s)  o == <<x>>
<1>1. /\ x \in Blocks /\ f \in Seq(Blocks) /\ s = f \o o
      /\ Len(f) = Len(s) - 1 /\ Len(s) \in Nat \ {0}
  BY LastFacts
<1>2. o \in Seq(Blocks) /\ ToSet(o) = {x} /\ IsInjective(o)
  BY <1>1, OneFacts
<1> HIDE DEF x, f, o
<1>3. /\ ToSet(f \o o) = ToSet(f) \cup ToSet(o)
      /\ IsInjective(f \o o) <=> IsInjective(f) /\ IsInjective(o) /\ ToSet(f) \cap ToSet(o) = {}
  BY <1>1, <1>2, JoinFacts
<1>4. ToSet(s) = ToSet(f) \cup {x} /\ (IsInjective(s) => IsInjective(f) /\ x \notin ToSet(f))
  BY <1>1, <1>2, <1>3
<1> QED BY <1>1, <1>4 DEF x, f

\* The block that a save fills is one of those it may write, and not one of
\* those left.
LEMMA GetEntryFacts ==
    ASSUME NEW ids \in Seq(Blocks), NEW s \in Saves(ids)
    PROVE  LET g == GetEntry(s) IN
           /\ g \in Saves(ids) /\ g.i = s.i /\ g.children = s.children
           /\ g.id = Null => Room(s) = 0 /\ g.entries = s.entries /\ g.free = s.free
                             /\ g.granted = s.granted
           /\ g.id # Null => /\ g.id \in Blocks /\ Room(g) + 1 = Room(s)
                             /\ Avail(s) = Avail(g) \cup {g.id}
                             /\ g.granted \subseteq s.granted \cup Avail(s)
           /\ g.id # Null /\ Tidy(s) => Tidy(g) /\ g.id \notin Avail(g)
<1> DEFINE g == GetEntry(s)
<1>0. /\ s.entries \in Seq(Blocks) /\ s.free \in Seq(Blocks) /\ s.granted \in SUBSET Blocks
      /\ Len(s.entries) \in Nat /\ Len(s.free) \in Nat
  BY SaveFields
<1>00. Blocks \subseteq 0 .. N /\ 0 \notin Blocks /\ Null \in 0 .. N
  BY SizesAssumption DEF Blocks, Null
<1>1. CASE s.entries # << >>
  <2> DEFINE x == Last(s.entries)  f == Front(s.entries)
  <2>1. /\ x \in Blocks /\ f \in Seq(Blocks)
        /\ Len(s.entries) \in Nat \ {0} /\ Len(f) = Len(s.entries) - 1
        /\ ToSet(s.entries) = ToSet(f) \cup {x}
        /\ IsInjective(s.entries) => IsInjective(f) /\ x \notin ToSet(f)
    BY <1>0, <1>1, LastOut
  <2>2. g = [s EXCEPT !.id = x, !.entries = f]
    BY <1>1 DEF GetEntry
  <2> HIDE DEF x, f, g
  <2>3. g \in Saves(ids)
    <3>1. x \in 0 .. N  BY <1>00, <2>1
    <3> QED BY <2>1, <2>2, <3>1 DEF Saves
  <2>4. /\ g.i = s.i /\ g.children = s.children /\ g.id = x /\ g.entries = f
        /\ g.free = s.free /\ g.granted = s.granted
    BY <2>2 DEF Saves
  <2>5. g.id # Null  BY <1>00, <2>1, <2>4 DEF Null
  <2>6. Room(g) + 1 = Room(s)
    <3>1. Len(g.entries) = Len(s.entries) - 1 /\ Len(g.free) = Len(s.free)  BY <2>1, <2>4
    <3> QED BY <1>0, <3>1 DEF Room
  <2>7. Avail(s) = Avail(g) \cup {g.id}  BY <2>1, <2>4 DEF Avail
  <2>8. ASSUME Tidy(s) PROVE Tidy(g) /\ g.id \notin Avail(g)
    <3>1. /\ IsInjective(s.entries) /\ IsInjective(s.free)
          /\ ToSet(s.entries) \cap ToSet(s.free) = {}
      BY <2>8, TidyFacts
    <3>2. /\ IsInjective(g.entries) /\ IsInjective(g.free)
          /\ ToSet(g.entries) \cap ToSet(g.free) = {}
      BY <2>1, <2>4, <3>1
    <3>3. Tidy(g)  BY <2>3, <3>2, TidyFacts
    <3>4. g.id \notin Avail(g)  BY <2>1, <2>4, <3>1 DEF Avail
    <3> QED BY <3>3, <3>4
  <2> QED BY <2>1, <2>3, <2>4, <2>5, <2>6, <2>7, <2>8 DEF g
<1>2. CASE s.entries = << >> /\ s.free # << >>
  <2> DEFINE x == Last(s.free)  f == Front(s.free)
  <2>1. /\ x \in Blocks /\ f \in Seq(Blocks)
        /\ Len(s.free) \in Nat \ {0} /\ Len(f) = Len(s.free) - 1
        /\ ToSet(s.free) = ToSet(f) \cup {x}
        /\ IsInjective(s.free) => IsInjective(f) /\ x \notin ToSet(f)
    BY <1>0, <1>2, LastOut
  <2>2. g = [s EXCEPT !.id = x, !.free = f, !.granted = @ \cup {x}]
    BY <1>2 DEF GetEntry
  <2> HIDE DEF x, f, g
  <2>3. g \in Saves(ids)
    <3>1. x \in 0 .. N  BY <1>00, <2>1
    <3>2. s.granted \cup {x} \in SUBSET Blocks  BY <1>0, <2>1
    <3> QED BY <2>1, <2>2, <3>1, <3>2 DEF Saves
  <2>4. /\ g.i = s.i /\ g.children = s.children /\ g.id = x /\ g.entries = s.entries
        /\ g.free = f /\ g.granted = s.granted \cup {x}
    BY <2>2 DEF Saves
  <2>5. g.id # Null  BY <1>00, <2>1, <2>4 DEF Null
  <2>6. Room(g) + 1 = Room(s)
    <3>1. Len(g.free) = Len(s.free) - 1 /\ Len(g.entries) = Len(s.entries)  BY <2>1, <2>4
    <3> QED BY <1>0, <3>1 DEF Room
  <2>7. Avail(s) = Avail(g) \cup {g.id}  BY <2>1, <2>4 DEF Avail
  <2>8. ASSUME Tidy(s) PROVE Tidy(g) /\ g.id \notin Avail(g)
    <3>1. /\ IsInjective(s.entries) /\ IsInjective(s.free)
          /\ ToSet(s.entries) \cap ToSet(s.free) = {}
      BY <2>8, TidyFacts
    <3>2. /\ IsInjective(g.entries) /\ IsInjective(g.free)
          /\ ToSet(g.entries) \cap ToSet(g.free) = {}
      BY <2>1, <2>4, <3>1
    <3>3. Tidy(g)  BY <2>3, <3>2, TidyFacts
    <3>4. g.id \notin Avail(g)  BY <2>1, <2>4, <3>1 DEF Avail
    <3> QED BY <3>3, <3>4
  <2>9. g.granted \subseteq s.granted \cup Avail(s)  BY <2>1, <2>4 DEF Avail
  <2> QED BY <2>1, <2>3, <2>4, <2>5, <2>6, <2>7, <2>8, <2>9 DEF g
<1>3. CASE s.entries = << >> /\ s.free = << >>
  <2>1. g = [s EXCEPT !.id = Null]
    BY <1>3 DEF GetEntry
  <2> HIDE DEF g
  <2>2. g \in Saves(ids)  BY <1>00, <2>1 DEF Saves
  <2>3. /\ g.i = s.i /\ g.children = s.children /\ g.id = Null /\ g.entries = s.entries
        /\ g.free = s.free /\ g.granted = s.granted
    BY <1>00, <2>1 DEF Saves
  <2>4. Len(<< >>) = 0  OBVIOUS
  <2>5. Room(s) = 0  BY <1>3, <2>4 DEF Room
  <2> QED BY <2>2, <2>3, <2>5 DEF g
<1> QED BY <1>1, <1>2, <1>3

-----------------------------------------------------------------------------
(* What a saver of blocks that hold cap ids each, in trees of height h, does *)

\* It writes only blocks it may write, and keeps what it does not use.
Kept(s, t) ==
    /\ Tidy(t) /\ Avail(t) \subseteq Avail(s)
    /\ \A x \in Blocks \ Avail(s) : t.children[x] = s.children[x]
    /\ t.granted \subseteq s.granted \cup Avail(s)

\* The next ids are in a tree of blocks that were available and are not anymore.
Written(s, t, ids, ld, cap) ==
    /\ t.i = Smaller(s.i + cap, Len(ids))
    /\ \E U \in SUBSET Blocks :
          /\ U \cap Avail(t) = {} /\ U \cup Avail(t) = Avail(s)
          /\ Reads(ld, t.children, t.id, ids, s.i, t.i, U)

Unneeded(s) == [s EXCEPT !.id = Null]

\* Without room for a tree it fails, and when it fails there is no room left.
IsSaver(sv, ids, ld, cap, h) ==
    /\ sv \in [Saves(ids) -> Saves(ids)]
    /\ \A s \in Saves(ids) :
          /\ s.i = Len(ids) => sv[s] = Unneeded(s)
          /\ s.i # Len(ids) /\ Tidy(s) =>
                /\ Kept(s, sv[s])
                /\ sv[s].id # Null => Written(s, sv[s], ids, ld, cap)
                /\ sv[s].id = Null => sv[s].i # Len(ids) /\ Room(sv[s]) < h
                /\ Room(s) < h => sv[s].id = Null

\* A tree that is not needed changes nothing and has no root.
LEMMA UnneededFacts ==
    ASSUME NEW ids \in Seq(Blocks), NEW s \in Saves(ids)
    PROVE  LET t == Unneeded(s) IN
           /\ t \in Saves(ids) /\ t.id = Null /\ t.i = s.i /\ t.children = s.children
           /\ t.entries = s.entries /\ t.free = s.free /\ t.granted = s.granted
<1>1. Null \in 0 .. N
  BY SizesAssumption DEF Null
<1> QED BY <1>1 DEF Unneeded, Saves

\* A saver's result is a save.
SaveLeaves(ids) == [s \in Saves(ids) |-> SaveLeaf(s, ids)]

\* A leaf takes one block and writes the next E ids, or those that are left.
LEMMA LeafWrites ==
    ASSUME NEW ids \in Seq(Blocks), NEW s \in Saves(ids), s.i # Len(ids),
           GetEntry(s).id # Null
    PROVE  LET g == GetEntry(s)
               t == SaveLeaf(s, ids)
               j == Smaller(s.i + E, Len(ids))
           IN  /\ t \in Saves(ids) /\ t.i = j /\ t.id = g.id /\ t.entries = g.entries
               /\ t.free = g.free /\ t.granted = g.granted
               /\ t.children = [g.children EXCEPT ![g.id] = SubSeq(ids, s.i + 1, j)]
               /\ j \in s.i .. Len(ids) /\ s.i < j
<1> DEFINE g == GetEntry(s)  t == SaveLeaf(s, ids)
           n == Smaller(E, Len(ids) - s.i)  j == Smaller(s.i + E, Len(ids))
<1>1. s.i \in 0 .. Len(ids) /\ s.i \in Nat /\ s.i <= Len(ids) /\ Len(ids) \in Nat
  BY SaveFields
<1>2. E \in Nat /\ E # 0
  BY SizesAssumption
<1>3. n \in Nat /\ s.i + n = j /\ j \in s.i .. Len(ids) /\ j \in 0 .. Len(ids) /\ s.i < j
  BY <1>1, <1>2 DEF Smaller
<1>4. g \in Saves(ids) /\ g.id \in Blocks
  BY GetEntryFacts
<1>5. t = [g EXCEPT !.children[g.id] = SubSeq(ids, s.i + 1, s.i + n), !.i = s.i + n]
  BY DEF SaveLeaf
<1>6. SubSeq(ids, s.i + 1, j) \in Seq(Blocks)
  BY <1>1, <1>3, Adjacent
<1> HIDE DEF g, t, n, j
<1> DEFINE c == [g.children EXCEPT ![g.id] = SubSeq(ids, s.i + 1, j)]
<1>7. t = [g EXCEPT !.children = c, !.i = j]
  BY <1>3, <1>4, <1>5 DEF Saves
<1>8. c \in Maps
  BY <1>4, <1>6 DEF Saves, Maps
<1> HIDE DEF c
<1>9. t \in Saves(ids)
  BY <1>3, <1>4, <1>7, <1>8 DEF Saves
<1>10. /\ t.i = j /\ t.id = g.id /\ t.entries = g.entries
       /\ t.free = g.free /\ t.granted = g.granted /\ t.children = c
  BY <1>4, <1>7 DEF Saves
<1> QED BY <1>3, <1>9, <1>10 DEF c, g, t, j

\* The save of a leaf is a saver of at most E ids, whose load finds them.
LEMMA LeafSaver ==
    ASSUME NEW ids \in Seq(Blocks)
    PROVE  IsSaver(SaveLeaves(ids), ids, LoadLeaves, E, 1)
<1>1. ASSUME NEW s \in Saves(ids)
      PROVE  /\ SaveLeaf(s, ids) \in Saves(ids)
             /\ s.i = Len(ids) => SaveLeaf(s, ids) = Unneeded(s)
             /\ s.i # Len(ids) /\ Tidy(s) =>
                   /\ Kept(s, SaveLeaf(s, ids))
                   /\ SaveLeaf(s, ids).id # Null => Written(s, SaveLeaf(s, ids), ids, LoadLeaves, E)
                   /\ SaveLeaf(s, ids).id = Null =>
                        SaveLeaf(s, ids).i # Len(ids) /\ Room(SaveLeaf(s, ids)) < 1
                   /\ Room(s) < 1 => SaveLeaf(s, ids).id = Null
  <2> DEFINE g == GetEntry(s)  t == SaveLeaf(s, ids)
  <2>1. CASE s.i = Len(ids)
    <3>1. t = Unneeded(s)  BY <2>1 DEF SaveLeaf, Unneeded
    <3>2. Unneeded(s) \in Saves(ids)  BY UnneededFacts
    <3> QED BY <2>1, <3>1, <3>2
  <2>2. CASE s.i # Len(ids) /\ g.id = Null
    <3>1. t = g  BY <2>2 DEF SaveLeaf
    <3>2. /\ g \in Saves(ids) /\ g.i = s.i /\ g.children = s.children /\ Room(s) = 0
          /\ g.entries = s.entries /\ g.free = s.free /\ g.granted = s.granted
      BY <2>2, GetEntryFacts
    <3> HIDE DEF g
    <3>3. Room(g) = 0 /\ (Tidy(s) => Tidy(g)) /\ Avail(g) = Avail(s)
      BY <3>2 DEF Room, Tidy, Avail
    <3>4. Tidy(s) => Kept(s, g)  BY <3>2, <3>3 DEF Kept
    <3> HIDE DEF t
    <3> QED BY <2>2, <3>1, <3>2, <3>3, <3>4 DEF t
  <2>3. CASE s.i # Len(ids) /\ g.id # Null
    <3> DEFINE j == Smaller(s.i + E, Len(ids))
    <3>1. /\ t \in Saves(ids) /\ t.i = j /\ t.id = g.id /\ t.entries = g.entries
          /\ t.free = g.free /\ t.granted = g.granted
          /\ t.children = [g.children EXCEPT ![g.id] = SubSeq(ids, s.i + 1, j)]
          /\ j \in s.i .. Len(ids) /\ s.i < j
      BY <2>3, LeafWrites
    <3>2. /\ g \in Saves(ids) /\ g.children = s.children /\ g.id \in Blocks /\ Room(g) + 1 = Room(s)
          /\ Avail(s) = Avail(g) \cup {g.id} /\ g.granted \subseteq s.granted \cup Avail(s)
          /\ Tidy(s) => Tidy(g) /\ g.id \notin Avail(g)
      BY <2>3, GetEntryFacts
    <3> HIDE DEF g, t, j
    <3>3. Avail(t) = Avail(g) /\ (Tidy(t) <=> Tidy(g))  BY <3>1 DEF Avail, Tidy
    <3>4. t.children[g.id] = SubSeq(ids, s.i + 1, j)
          /\ \A x \in Blocks \ {g.id} : t.children[x] = s.children[x]
      <4>1. g.children \in [Blocks -> Seq(Blocks)]  BY <3>2, SaveFields DEF Maps
      <4> QED BY <3>1, <3>2, <4>1
    <3>5. ASSUME Tidy(s) PROVE Kept(s, t)
      BY <3>1, <3>2, <3>3, <3>4, <3>5 DEF Kept
    <3>6. ASSUME Tidy(s) PROVE Written(s, t, ids, LoadLeaves, E)
      <4>1. t.children \in Maps /\ s.i \in 0 .. Len(ids)  BY <3>1, SaveFields
      <4>2. Reads(LoadLeaves, t.children, g.id, ids, s.i, j, {g.id})
        BY <3>1, <3>2, <3>4, <4>1, LeafReads
      <4>3. {g.id} \in SUBSET Blocks /\ {g.id} \cap Avail(t) = {} /\ {g.id} \cup Avail(t) = Avail(s)
        BY <3>2, <3>3, <3>6
      <4> QED BY <3>1, <4>2, <4>3 DEF Written, j
    <3>7. ~(Room(s) < 1)
      <4>1. Room(g) \in Nat  BY <3>2, SaveFields
      <4> QED BY <3>2, <4>1
    <3> QED BY <2>3, <3>1, <3>5, <3>6, <3>7 DEF t
  <2> QED BY <2>1, <2>2, <2>3
<1>2. SaveLeaves(ids) \in [Saves(ids) -> Saves(ids)]
      /\ \A s \in Saves(ids) : SaveLeaves(ids)[s] = SaveLeaf(s, ids)
  BY <1>1 DEF SaveLeaves
<1> QED BY <1>1, <1>2 DEF IsSaver

-----------------------------------------------------------------------------
(* Savers of a block and its children: the loop of save_entries_ *)

Loops(ids) ==
    {L \in [save : Saves(ids), failed : BOOLEAN, kids : Seq(0 .. N)] :
        L.failed \/ L.kids \in Seq(Blocks)}

LoopStart(s) == [save |-> GetEntry(s), failed |-> FALSE, kids |-> << >>]
LoopStep(sv, ids, L) ==
    IF L.failed \/ L.save.i = Len(ids) THEN L
    ELSE [save |-> sv[L.save], failed |-> sv[L.save].id = Null,
          kids |-> Append(L.kids, sv[L.save].id)]

IsLoop(sv, ids, s, a) ==
    a[0] = LoopStart(s) /\ \A k \in 1 .. E : a[k] = LoopStep(sv, ids, a[k - 1])

\* The loop ended, with a child that could not be saved or without.
GivenUp(s, L) == [L.save EXCEPT !.id = Null, !.free = Append(@, GetEntry(s).id),
                                !.children[GetEntry(s).id] = << >>]
Linked(s, L) == [L.save EXCEPT !.id = GetEntry(s).id, !.children[GetEntry(s).id] = L.kids]
Finished(s, L) == IF L.failed THEN GivenUp(s, L) ELSE Linked(s, L)

\* nv is sv one level higher.
SaverOf(nv, sv, ids) ==
    /\ nv \in [Saves(ids) -> Saves(ids)]
    /\ \A s \in Saves(ids) :
          /\ s.i = Len(ids) => nv[s] = Unneeded(s)
          /\ s.i # Len(ids) /\ GetEntry(s).id = Null => nv[s] = GetEntry(s)
          /\ s.i # Len(ids) /\ GetEntry(s).id # Null =>
                \E a \in [0 .. E -> Loops(ids)] :
                   IsLoop(sv, ids, s, a) /\ nv[s] = Finished(s, a[E])

\* The types of the fields of the loop over the children.
LEMMA LoopFields ==
    ASSUME NEW ids \in Seq(Blocks), NEW L \in Loops(ids)
    PROVE  /\ L.save \in Saves(ids) /\ L.failed \in BOOLEAN /\ L.kids \in Seq(0 .. N)
           /\ ~L.failed => L.kids \in Seq(Blocks)
BY DEF Loops

\* The loop starts with a save and no children.
LEMMA LoopStartType ==
    ASSUME NEW ids \in Seq(Blocks), NEW s \in Saves(ids)
    PROVE  LoopStart(s) \in Loops(ids)
<1>1. GetEntry(s) \in Saves(ids)
  BY GetEntryFacts
<1>2. << >> \in Seq(0 .. N) /\ << >> \in Seq(Blocks)
  OBVIOUS
<1> QED BY <1>1, <1>2 DEF LoopStart, Loops

\* A step of the loop gives such a state again.
LEMMA LoopStepType ==
    ASSUME NEW ids \in Seq(Blocks), NEW sv \in [Saves(ids) -> Saves(ids)], NEW L \in Loops(ids)
    PROVE  LoopStep(sv, ids, L) \in Loops(ids)
<1>1. CASE L.failed \/ L.save.i = Len(ids)
  BY <1>1 DEF LoopStep
<1>2. CASE ~L.failed /\ L.save.i # Len(ids)
  <2> DEFINE t == sv[L.save]  kids == Append(L.kids, t.id)
  <2>1. L.save \in Saves(ids) /\ L.kids \in Seq(0 .. N) /\ L.kids \in Seq(Blocks)
    BY <1>2, LoopFields
  <2>2. t \in Saves(ids)  BY <2>1
  <2>3. t.id \in 0 .. N  BY <2>2, SaveFields
  <2>4. kids \in Seq(0 .. N)
    <3> DEFINE b == t.id  l == L.kids
    <3>1. b \in 0 .. N /\ l \in Seq(0 .. N)  BY <2>1, <2>3
    <3> HIDE DEF b, l
    <3>2. Append(l, b) \in Seq(0 .. N)  BY <3>1
    <3> QED BY <3>2 DEF b, l
  <2>5. t.id # Null => kids \in Seq(Blocks)
    <3>1. t.id # Null => t.id \in Blocks  BY <2>3, SizesAssumption DEF Blocks, Null
    <3> DEFINE b == t.id  l == L.kids
    <3>2. (b # Null => b \in Blocks) /\ l \in Seq(Blocks)  BY <2>1, <3>1
    <3> HIDE DEF b, l
    <3>3. b # Null => Append(l, b) \in Seq(Blocks)  BY <3>2
    <3> QED BY <3>3 DEF b, l
  <2>6. LoopStep(sv, ids, L) = [save |-> t, failed |-> t.id = Null, kids |-> kids]
    BY <1>2 DEF LoopStep
  <2> HIDE DEF t, kids
  <2>7. [save |-> t, failed |-> t.id = Null, kids |-> kids] \in Loops(ids)
    BY <2>2, <2>4, <2>5 DEF Loops
  <2> QED BY <2>6, <2>7
<1> QED BY <1>1, <1>2

\* The loop over the children has a run.
LEMMA LoopExists ==
    ASSUME NEW ids \in Seq(Blocks), NEW sv \in [Saves(ids) -> Saves(ids)], NEW s \in Saves(ids)
    PROVE  \E r \in [0 .. E -> Loops(ids)] : IsLoop(sv, ids, s, r)
<1> DEFINE S == Loops(ids)
           g == [t \in (1 .. E) \X S |-> LoopStep(sv, ids, t[2])]
<1>1. \A k \in 1 .. E, L \in S : g[<<k, L>>] = LoopStep(sv, ids, L)
  <2> TAKE k \in 1 .. E, L \in S
  <2>1. <<k, L>> \in (1 .. E) \X S /\ <<k, L>>[2] = L  OBVIOUS
  <2> HIDE DEF S
  <2> QED BY <2>1
<1>2. \A L \in S : LoopStep(sv, ids, L) \in S
  BY LoopStepType
<1>3. LoopStart(s) \in S
  BY LoopStartType
<1> HIDE DEF g, S
<1>4. StepsIn(g, E, S)
  BY <1>1, <1>2 DEF StepsIn
<1>5. PICK r \in [0 .. E -> S] : Iterates(r, g, E, LoopStart(s))
  BY <1>3, <1>4, Iteration, SizesAssumption
<1>6. ASSUME NEW k \in 1 .. E PROVE r[k] = LoopStep(sv, ids, r[k - 1])
  <2>1. k - 1 \in 0 .. E  BY SizesAssumption
  <2>2. r[k - 1] \in S  BY <2>1
  <2> QED BY <2>2, <1>1, <1>5 DEF Iterates
<1> QED BY <1>5, <1>6 DEF Iterates, IsLoop, S

\* What a finished loop leaves is a save.
LEMMA FinishedFacts ==
    ASSUME NEW ids \in Seq(Blocks), NEW s \in Saves(ids), NEW L \in Loops(ids),
           GetEntry(s).id # Null
    PROVE  LET t == Finished(s, L)
               b == GetEntry(s).id
           IN  /\ t \in Saves(ids) /\ t.i = L.save.i /\ t.entries = L.save.entries
               /\ t.granted = L.save.granted /\ b \in Blocks
               /\ \A x \in Blocks \ {b} : t.children[x] = L.save.children[x]
               /\ L.failed => t.id = Null /\ t.free = Append(L.save.free, b)
               /\ ~L.failed => t.id = b /\ t.free = L.save.free /\ t.children[b] = L.kids
<1> DEFINE b == GetEntry(s).id  t == Finished(s, L)  m == L.save
<1>1. b \in Blocks /\ b \in 0 .. N /\ Null \in 0 .. N
  BY GetEntryFacts, SizesAssumption DEF Blocks, Null
<1>2. m \in Saves(ids) /\ (~L.failed => L.kids \in Seq(Blocks))
  BY LoopFields
<1>3. m.children \in [Blocks -> Seq(Blocks)] /\ m.free \in Seq(Blocks)
  BY <1>2, SaveFields DEF Maps
<1>4. CASE L.failed
  <2> DEFINE c == [m.children EXCEPT ![b] = << >>]  f == Append(m.free, b)
  <2>1. t = [m EXCEPT !.id = Null, !.free = f, !.children = c]
    <3>1. t = [m EXCEPT !.id = Null, !.free = Append(@, b), !.children[b] = << >>]
      BY <1>4 DEF Finished, GivenUp
    <3> HIDE DEF b, t, m
    <3> QED BY <1>2, <3>1 DEF Saves
  <2> HIDE DEF m, b, t
  <2>2. c \in Maps /\ f \in Seq(Blocks) /\ \A x \in Blocks \ {b} : c[x] = m.children[x]
    BY <1>1, <1>3 DEF Maps
  <2> HIDE DEF c
  <2> DEFINE g == f
  <2> HIDE DEF g
  <2>3. t = [m EXCEPT !.id = Null, !.free = g, !.children = c] /\ g \in Seq(Blocks)
    BY <2>1, <2>2 DEF g
  <2>4. t \in Saves(ids)  BY <1>1, <1>2, <2>2, <2>3 DEF Saves
  <2>5. /\ t.i = m.i /\ t.entries = m.entries /\ t.granted = m.granted /\ t.children = c
        /\ t.id = Null /\ t.free = g
    BY <1>2, <2>3 DEF Saves
  <2> QED BY <1>1, <1>4, <2>2, <2>4, <2>5 DEF m, b, t, g
<1>5. CASE ~L.failed
  <2> DEFINE c == [m.children EXCEPT ![b] = L.kids]
  <2>1. t = [m EXCEPT !.id = b, !.children = c]
    <3>1. t = [m EXCEPT !.id = b, !.children[b] = L.kids]
      BY <1>5 DEF Finished, Linked
    <3> HIDE DEF b, t, m
    <3> QED BY <1>2, <3>1 DEF Saves
  <2> HIDE DEF m, b, t
  <2>2. c \in Maps /\ c[b] = L.kids /\ \A x \in Blocks \ {b} : c[x] = m.children[x]
    BY <1>1, <1>2, <1>3, <1>5 DEF Maps
  <2> HIDE DEF c
  <2>3. t \in Saves(ids)  BY <1>1, <1>2, <2>1, <2>2 DEF Saves
  <2>4. /\ t.i = m.i /\ t.entries = m.entries /\ t.granted = m.granted /\ t.children = c
        /\ t.id = b /\ t.free = m.free
    BY <1>2, <2>1 DEF Saves
  <2> QED BY <1>1, <1>5, <2>2, <2>3, <2>4 DEF m, b, t
<1> QED BY <1>4, <1>5

\* The loop of save_entries_ over the children of a block whose children are
\* leaves.
IsLeafLoop(a, s, ids) ==
    a = [k \in 0 .. E |->
            IF k = 0 THEN [save |-> GetEntry(s), failed |-> FALSE, kids |-> << >>]
            ELSE LET last == a[k - 1]
                     child == SaveLeaf(last.save, ids)
                 IN  IF last.failed \/ last.save.i = Len(ids) THEN last
                     ELSE [save |-> child, failed |-> child.id = Null,
                           kids |-> Append(last.kids, child.id)]]
LeafLoop(s, ids) == CHOOSE a : IsLeafLoop(a, s, ids)

\* The save of a block of leaves, by the loop over its children.
LEMMA SaveDoubleUnfold ==
    ASSUME NEW s, NEW ids
    PROVE  SaveDouble(s, ids) =
              IF s.i = Len(ids) THEN Unneeded(s)
              ELSE IF GetEntry(s).id = Null THEN GetEntry(s)
              ELSE Finished(s, LeafLoop(s, ids)[E])
BY Zenon DEF SaveDouble, SaveNode, LeafLoop, IsLeafLoop, Unneeded, Finished, GivenUp, Linked

SaveDoubles(ids) == [s \in Saves(ids) |-> SaveDouble(s, ids)]

\* The recursive function of the model is a run of that loop.
LEMMA LeafLoopFacts ==
    ASSUME NEW ids \in Seq(Blocks), NEW s \in Saves(ids),
           SaveLeaves(ids) \in [Saves(ids) -> Saves(ids)]
    PROVE  LET a == LeafLoop(s, ids) IN
           /\ a \in [0 .. E -> Loops(ids)]
           /\ IsLoop(SaveLeaves(ids), ids, s, a)
<1> DEFINE sv == SaveLeaves(ids)  S == Loops(ids)  x == LoopStart(s)
           Step(r, k) == IF k = 0 THEN x ELSE LoopStep(sv, ids, r[k - 1])
           Coded(r, k) == IF k = 0 THEN x
                          ELSE LET last == r[k - 1]
                                   child == SaveLeaf(last.save, ids)
                               IN  IF last.failed \/ last.save.i = Len(ids) THEN last
                                   ELSE [save |-> child, failed |-> child.id = Null,
                                         kids |-> Append(last.kids, child.id)]
<1>1. \A t \in Saves(ids) : sv[t] = SaveLeaf(t, ids)
  BY DEF SaveLeaves
<1>2. \A L \in S : L.save \in Saves(ids) /\ LoopStep(sv, ids, L) \in S
  BY LoopFields, LoopStepType
<1>3. x \in S
  BY LoopStartType
<1>4. E \in Nat
  BY SizesAssumption
<1>5. ASSUME NEW r, NEW k, k # 0 => r[k - 1] \in S PROVE Coded(r, k) = Step(r, k)
  <2>1. CASE k = 0  BY <2>1
  <2>2. CASE k # 0
    <3> DEFINE last == r[k - 1]
    <3>1. last.save \in Saves(ids)  BY <1>2, <1>5, <2>2
    <3> HIDE DEF sv
    <3>2. sv[last.save] = SaveLeaf(last.save, ids)  BY <1>1, <3>1
    <3> HIDE DEF last
    <3>3. Coded(r, k) = IF last.failed \/ last.save.i = Len(ids) THEN last
                        ELSE [save |-> sv[last.save], failed |-> sv[last.save].id = Null,
                              kids |-> Append(last.kids, sv[last.save].id)]
      BY <2>2, <3>2, Zenon DEF last
    <3> QED BY <2>2, <3>3, Zenon DEF LoopStep, last
  <2> QED BY <2>1, <2>2
<1>6. PICK r \in [0 .. E -> S] : IsLoop(sv, ids, s, r)
  BY LoopExists
<1>7. ASSUME NEW k \in 0 .. E PROVE r[k] = Coded(r, k)
  <2> HIDE DEF Coded, sv, S
  <2>1. CASE k = 0
    <3>1. r[k] = Step(r, k)  BY <2>1, <1>6 DEF IsLoop
    <3> QED BY <2>1, <3>1, <1>5, Zenon
  <2>2. CASE k # 0
    <3>1. k \in 1 .. E /\ k - 1 \in 0 .. E  BY <2>2, <1>4
    <3>2. r[k - 1] \in S  BY <3>1, <1>6
    <3>3. r[k] = Step(r, k)  BY <2>2, <3>1, <1>6 DEF IsLoop
    <3> QED BY <3>2, <3>3, <1>5
  <2> QED BY <2>1, <2>2
<1>8. IsLeafLoop(r, s, ids)
  <2>1. r = [k \in 0 .. E |-> r[k]]  BY <1>6
  <2>2. r = [k \in 0 .. E |-> Coded(r, k)]
    <3> HIDE DEF Coded
    <3> QED BY <2>1, <1>7
  <2> QED BY <2>2, Zenon DEF IsLeafLoop, LoopStart
<1> DEFINE a == LeafLoop(s, ids)
<1>9. IsLeafLoop(a, s, ids)
  BY <1>8, Zenon DEF LeafLoop
<1> HIDE DEF a
<1>10. a = [k \in 0 .. E |-> Coded(a, k)]
  BY <1>9, Zenon DEF IsLeafLoop, LoopStart
<1>11. DOMAIN a = 0 .. E /\ \A k \in 0 .. E : a[k] = Coded(a, k)
  <2> HIDE DEF Coded
  <2> QED BY <1>10
<1> DEFINE K == {k \in 0 .. E : a[k] \in S}
<1>12. a[0] = x /\ 0 \in K
  <2>1. 0 \in 0 .. E  BY <1>4
  <2>2. a[0] = Coded(a, 0)  BY <1>11, <2>1
  <2>3. Coded(a, 0) = x  OBVIOUS
  <2> QED BY <1>3, <2>1, <2>2, <2>3
<1> HIDE DEF Coded, sv, S, x
<1>13. ASSUME NEW k \in 0 .. E, k \in K, k < E
       PROVE  k + 1 \in K /\ a[k + 1] = LoopStep(sv, ids, a[k])
  <2>1. k + 1 \in 0 .. E /\ (k + 1) - 1 = k /\ k + 1 # 0  BY <1>4, <1>13
  <2>2. a[k] \in S  BY <1>13
  <2>3. a[k + 1] = Step(a, k + 1)  BY <1>5, <1>11, <2>1, <2>2
  <2>4. a[k + 1] = LoopStep(sv, ids, a[k])  BY <2>1, <2>3
  <2> QED BY <1>2, <2>1, <2>2, <2>4
<1>14. \A k \in 0 .. E : a[k] \in S
  <2> HIDE DEF K
  <2>1. \A k \in 0 .. E : k \in K /\ k < E => k + 1 \in K  BY <1>13
  <2>2. \A k \in 0 .. E : k \in K  BY <1>4, <1>12, <2>1, UpTo, Zenon
  <2> QED BY <2>2 DEF K
<1>15. a \in [0 .. E -> S]
  <2>1. a = [k \in 0 .. E |-> a[k]]  BY <1>10, <1>11
  <2> QED BY <2>1, <1>14
<1>16. \A k \in 1 .. E : a[k] = LoopStep(sv, ids, a[k - 1])
  <2> TAKE k \in 1 .. E
  <2>1. k - 1 \in 0 .. E /\ k - 1 < E /\ (k - 1) + 1 = k  BY <1>4
  <2>2. k - 1 \in K  BY <2>1, <1>14
  <2> QED BY <1>13, <2>1, <2>2
<1> QED BY <1>12, <1>15, <1>16 DEF IsLoop, a, sv, S, x

\* The second tree is saved as nodes of leaves.
LEMMA SaveDoubleOf ==
    ASSUME NEW ids \in Seq(Blocks), SaveLeaves(ids) \in [Saves(ids) -> Saves(ids)]
    PROVE  SaverOf(SaveDoubles(ids), SaveLeaves(ids), ids)
<1>1. ASSUME NEW s \in Saves(ids)
      PROVE  /\ SaveDouble(s, ids) \in Saves(ids)
             /\ s.i = Len(ids) => SaveDouble(s, ids) = Unneeded(s)
             /\ s.i # Len(ids) /\ GetEntry(s).id = Null => SaveDouble(s, ids) = GetEntry(s)
             /\ s.i # Len(ids) /\ GetEntry(s).id # Null =>
                  \E a \in [0 .. E -> Loops(ids)] :
                     IsLoop(SaveLeaves(ids), ids, s, a) /\ SaveDouble(s, ids) = Finished(s, a[E])
  <2>1. CASE s.i = Len(ids)
    <3>1. SaveDouble(s, ids) = Unneeded(s)  BY <2>1, SaveDoubleUnfold
    <3> QED BY <2>1, <3>1, UnneededFacts
  <2>2. CASE s.i # Len(ids) /\ GetEntry(s).id = Null
    <3>1. SaveDouble(s, ids) = GetEntry(s)  BY <2>2, SaveDoubleUnfold
    <3> QED BY <2>2, <3>1, GetEntryFacts
  <2>3. CASE s.i # Len(ids) /\ GetEntry(s).id # Null
    <3> DEFINE a == LeafLoop(s, ids)
    <3>1. SaveDouble(s, ids) = Finished(s, a[E])  BY <2>3, SaveDoubleUnfold
    <3>2. a \in [0 .. E -> Loops(ids)] /\ IsLoop(SaveLeaves(ids), ids, s, a)
      BY LeafLoopFacts
    <3> HIDE DEF a
    <3>3. E \in 0 .. E  BY SizesAssumption
    <3>4. a[E] \in Loops(ids)  BY <3>2, <3>3
    <3>5. Finished(s, a[E]) \in Saves(ids)  BY <2>3, <3>4, FinishedFacts
    <3> QED BY <2>3, <3>1, <3>2, <3>5
  <2> QED BY <2>1, <2>2, <2>3
<1>2. SaveDoubles(ids) \in [Saves(ids) -> Saves(ids)]
      /\ \A s \in Saves(ids) : SaveDoubles(ids)[s] = SaveDouble(s, ids)
  BY <1>1 DEF SaveDoubles
<1> QED BY <1>1, <1>2 DEF SaverOf

\* The loop of save_entries_ over the children of a block whose children are
\* blocks of leaves.
IsDoubleLoop(a, s, ids) ==
    a = [k \in 0 .. E |->
            IF k = 0 THEN [save |-> GetEntry(s), failed |-> FALSE, kids |-> << >>]
            ELSE LET last == a[k - 1]
                     child == SaveDouble(last.save, ids)
                 IN  IF last.failed \/ last.save.i = Len(ids) THEN last
                     ELSE [save |-> child, failed |-> child.id = Null,
                           kids |-> Append(last.kids, child.id)]]
DoubleLoop(s, ids) == CHOOSE a : IsDoubleLoop(a, s, ids)

\* The save of the third tree, by the loop over its children.
LEMMA SaveTripleUnfold ==
    ASSUME NEW s, NEW ids
    PROVE  SaveTriple(s, ids) =
              IF s.i = Len(ids) THEN Unneeded(s)
              ELSE IF GetEntry(s).id = Null THEN GetEntry(s)
              ELSE Finished(s, DoubleLoop(s, ids)[E])
BY Zenon DEF SaveTriple, SaveNode, DoubleLoop, IsDoubleLoop, Unneeded, Finished, GivenUp, Linked

SaveTriples(ids) == [s \in Saves(ids) |-> SaveTriple(s, ids)]

\* The recursive function of the model is a run of that loop.
LEMMA DoubleLoopFacts ==
    ASSUME NEW ids \in Seq(Blocks), NEW s \in Saves(ids),
           SaveDoubles(ids) \in [Saves(ids) -> Saves(ids)]
    PROVE  LET a == DoubleLoop(s, ids) IN
           /\ a \in [0 .. E -> Loops(ids)]
           /\ IsLoop(SaveDoubles(ids), ids, s, a)
<1> DEFINE sv == SaveDoubles(ids)  S == Loops(ids)  x == LoopStart(s)
           Step(r, k) == IF k = 0 THEN x ELSE LoopStep(sv, ids, r[k - 1])
           Coded(r, k) == IF k = 0 THEN x
                          ELSE LET last == r[k - 1]
                                   child == SaveDouble(last.save, ids)
                               IN  IF last.failed \/ last.save.i = Len(ids) THEN last
                                   ELSE [save |-> child, failed |-> child.id = Null,
                                         kids |-> Append(last.kids, child.id)]
<1>1. \A t \in Saves(ids) : sv[t] = SaveDouble(t, ids)
  BY DEF SaveDoubles
<1>2. \A L \in S : L.save \in Saves(ids) /\ LoopStep(sv, ids, L) \in S
  BY LoopFields, LoopStepType
<1>3. x \in S
  BY LoopStartType
<1>4. E \in Nat
  BY SizesAssumption
<1>5. ASSUME NEW r, NEW k, k # 0 => r[k - 1] \in S PROVE Coded(r, k) = Step(r, k)
  <2>1. CASE k = 0  BY <2>1
  <2>2. CASE k # 0
    <3> DEFINE last == r[k - 1]
    <3>1. last.save \in Saves(ids)  BY <1>2, <1>5, <2>2
    <3> HIDE DEF sv
    <3>2. sv[last.save] = SaveDouble(last.save, ids)  BY <1>1, <3>1
    <3> HIDE DEF last
    <3>3. Coded(r, k) = IF last.failed \/ last.save.i = Len(ids) THEN last
                        ELSE [save |-> sv[last.save], failed |-> sv[last.save].id = Null,
                              kids |-> Append(last.kids, sv[last.save].id)]
      BY <2>2, <3>2, Zenon DEF last
    <3> QED BY <2>2, <3>3, Zenon DEF LoopStep, last
  <2> QED BY <2>1, <2>2
<1>6. PICK r \in [0 .. E -> S] : IsLoop(sv, ids, s, r)
  BY LoopExists
<1>7. ASSUME NEW k \in 0 .. E PROVE r[k] = Coded(r, k)
  <2> HIDE DEF Coded, sv, S
  <2>1. CASE k = 0
    <3>1. r[k] = Step(r, k)  BY <2>1, <1>6 DEF IsLoop
    <3> QED BY <2>1, <3>1, <1>5, Zenon
  <2>2. CASE k # 0
    <3>1. k \in 1 .. E /\ k - 1 \in 0 .. E  BY <2>2, <1>4
    <3>2. r[k - 1] \in S  BY <3>1, <1>6
    <3>3. r[k] = Step(r, k)  BY <2>2, <3>1, <1>6 DEF IsLoop
    <3> QED BY <3>2, <3>3, <1>5
  <2> QED BY <2>1, <2>2
<1>8. IsDoubleLoop(r, s, ids)
  <2>1. r = [k \in 0 .. E |-> r[k]]  BY <1>6
  <2>2. r = [k \in 0 .. E |-> Coded(r, k)]
    <3> HIDE DEF Coded
    <3> QED BY <2>1, <1>7
  <2> QED BY <2>2, Zenon DEF IsDoubleLoop, LoopStart
<1> DEFINE a == DoubleLoop(s, ids)
<1>9. IsDoubleLoop(a, s, ids)
  BY <1>8, Zenon DEF DoubleLoop
<1> HIDE DEF a
<1>10. a = [k \in 0 .. E |-> Coded(a, k)]
  BY <1>9, Zenon DEF IsDoubleLoop, LoopStart
<1>11. DOMAIN a = 0 .. E /\ \A k \in 0 .. E : a[k] = Coded(a, k)
  <2> HIDE DEF Coded
  <2> QED BY <1>10
<1> DEFINE K == {k \in 0 .. E : a[k] \in S}
<1>12. a[0] = x /\ 0 \in K
  <2>1. 0 \in 0 .. E  BY <1>4
  <2>2. a[0] = Coded(a, 0)  BY <1>11, <2>1
  <2>3. Coded(a, 0) = x  OBVIOUS
  <2> QED BY <1>3, <2>1, <2>2, <2>3
<1> HIDE DEF Coded, sv, S, x
<1>13. ASSUME NEW k \in 0 .. E, k \in K, k < E
       PROVE  k + 1 \in K /\ a[k + 1] = LoopStep(sv, ids, a[k])
  <2>1. k + 1 \in 0 .. E /\ (k + 1) - 1 = k /\ k + 1 # 0  BY <1>4, <1>13
  <2>2. a[k] \in S  BY <1>13
  <2>3. a[k + 1] = Step(a, k + 1)  BY <1>5, <1>11, <2>1, <2>2
  <2>4. a[k + 1] = LoopStep(sv, ids, a[k])  BY <2>1, <2>3
  <2> QED BY <1>2, <2>1, <2>2, <2>4
<1>14. \A k \in 0 .. E : a[k] \in S
  <2> HIDE DEF K
  <2>1. \A k \in 0 .. E : k \in K /\ k < E => k + 1 \in K  BY <1>13
  <2>2. \A k \in 0 .. E : k \in K  BY <1>4, <1>12, <2>1, UpTo, Zenon
  <2> QED BY <2>2 DEF K
<1>15. a \in [0 .. E -> S]
  <2>1. a = [k \in 0 .. E |-> a[k]]  BY <1>10, <1>11
  <2> QED BY <2>1, <1>14
<1>16. \A k \in 1 .. E : a[k] = LoopStep(sv, ids, a[k - 1])
  <2> TAKE k \in 1 .. E
  <2>1. k - 1 \in 0 .. E /\ k - 1 < E /\ (k - 1) + 1 = k  BY <1>4
  <2>2. k - 1 \in K  BY <2>1, <1>14
  <2> QED BY <1>13, <2>1, <2>2
<1> QED BY <1>12, <1>15, <1>16 DEF IsLoop, a, sv, S, x

\* The third tree is saved as nodes of such blocks.
LEMMA SaveTripleOf ==
    ASSUME NEW ids \in Seq(Blocks), SaveDoubles(ids) \in [Saves(ids) -> Saves(ids)]
    PROVE  SaverOf(SaveTriples(ids), SaveDoubles(ids), ids)
<1>1. ASSUME NEW s \in Saves(ids)
      PROVE  /\ SaveTriple(s, ids) \in Saves(ids)
             /\ s.i = Len(ids) => SaveTriple(s, ids) = Unneeded(s)
             /\ s.i # Len(ids) /\ GetEntry(s).id = Null => SaveTriple(s, ids) = GetEntry(s)
             /\ s.i # Len(ids) /\ GetEntry(s).id # Null =>
                  \E a \in [0 .. E -> Loops(ids)] :
                     IsLoop(SaveDoubles(ids), ids, s, a) /\ SaveTriple(s, ids) = Finished(s, a[E])
  <2>1. CASE s.i = Len(ids)
    <3>1. SaveTriple(s, ids) = Unneeded(s)  BY <2>1, SaveTripleUnfold
    <3> QED BY <2>1, <3>1, UnneededFacts
  <2>2. CASE s.i # Len(ids) /\ GetEntry(s).id = Null
    <3>1. SaveTriple(s, ids) = GetEntry(s)  BY <2>2, SaveTripleUnfold
    <3> QED BY <2>2, <3>1, GetEntryFacts
  <2>3. CASE s.i # Len(ids) /\ GetEntry(s).id # Null
    <3> DEFINE a == DoubleLoop(s, ids)
    <3>1. SaveTriple(s, ids) = Finished(s, a[E])  BY <2>3, SaveTripleUnfold
    <3>2. a \in [0 .. E -> Loops(ids)] /\ IsLoop(SaveDoubles(ids), ids, s, a)
      BY DoubleLoopFacts
    <3> HIDE DEF a
    <3>3. E \in 0 .. E  BY SizesAssumption
    <3>4. a[E] \in Loops(ids)  BY <3>2, <3>3
    <3>5. Finished(s, a[E]) \in Saves(ids)  BY <2>3, <3>4, FinishedFacts
    <3> QED BY <2>3, <3>1, <3>2, <3>5
  <2> QED BY <2>1, <2>2, <2>3
<1>2. SaveTriples(ids) \in [Saves(ids) -> Saves(ids)]
      /\ \A s \in Saves(ids) : SaveTriples(ids)[s] = SaveTriple(s, ids)
  BY <1>1 DEF SaveTriples
<1> QED BY <1>1, <1>2 DEF SaverOf

\* What two saves keep, both together keep.
LEMMA KeptTransitive ==
    ASSUME NEW s, NEW t, NEW u, Kept(s, t), Kept(t, u)
    PROVE  Kept(s, u)
BY DEF Kept

\* The loop after k children.
LoopOk(s, L, k, ids, ld, cap, h) ==
    /\ Kept(GetEntry(s), L.save)
    /\ ~L.failed =>
          /\ L.save.i = Smaller(s.i + k * cap, Len(ids))
          /\ k # 0 => L.kids # << >>
          /\ \E U \in SUBSET Blocks :
                /\ U \cap Avail(L.save) = {} /\ U \cup Avail(L.save) = Avail(GetEntry(s))
                /\ ReadsAll(ld, L.save.children, L.kids, ids, s.i, L.save.i, U)
    /\ L.failed => L.save.i # Len(ids) /\ Room(L.save) < h
    /\ k # 0 /\ Room(GetEntry(s)) < h => L.failed

\* Before its first child a node has written nothing yet.
LEMMA LoopOkStart ==
    ASSUME NEW ids \in Seq(Blocks), NEW s \in Saves(ids), NEW ld, NEW cap \in Nat, NEW h,
           Tidy(s), s.i # Len(ids), GetEntry(s).id # Null
    PROVE  LoopOk(s, LoopStart(s), 0, ids, ld, cap, h)
<1> DEFINE g == GetEntry(s)  L == LoopStart(s)
<1>1. g \in Saves(ids) /\ Tidy(g) /\ g.i = s.i /\ s.i \in Nat /\ s.i < Len(ids)
  BY GetEntryFacts, SaveFields
<1>2. L.save = g /\ ~L.failed /\ L.kids = << >>
  BY DEF LoopStart
<1> HIDE DEF g, L
<1>3. Kept(g, L.save)
  BY <1>1, <1>2 DEF Kept
<1>4. L.save.i = Smaller(s.i + 0 * cap, Len(ids))
  <2>1. s.i + 0 * cap = s.i /\ Len(ids) \in Nat  BY <1>1
  <2> QED BY <1>1, <1>2, <2>1 DEF Smaller
<1>5. ReadsAll(ld, L.save.children, L.kids, ids, s.i, L.save.i, {})
  BY <1>1, <1>2, ReadsNone
<1> QED BY <1>2, <1>3, <1>4, <1>5 DEF LoopOk, g, L

\* One child more: the ids written so far are in the children so far.
LEMMA LoopOkNext ==
    ASSUME NEW ids \in Seq(Blocks), NEW s \in Saves(ids), NEW ld, NEW cap \in Nat \ {0},
           NEW h \in Nat, NEW sv, IsSaver(sv, ids, ld, cap, h), IsLoader(ld),
           s.i # Len(ids), GetEntry(s).id # Null,
           NEW L \in Loops(ids), NEW k \in Nat, LoopOk(s, L, k, ids, ld, cap, h),
           k = 0 => L = LoopStart(s)
    PROVE  LoopOk(s, LoopStep(sv, ids, L), k + 1, ids, ld, cap, h)
<1> DEFINE g == GetEntry(s)  R == LoopStep(sv, ids, L)  m == L.save
<1>1. /\ m \in Saves(ids) /\ m.i \in Nat /\ m.i <= Len(ids) /\ Len(ids) \in Nat /\ s.i \in Nat
      /\ s.i <= Len(ids) /\ m.children \in Maps /\ Avail(m) \subseteq Blocks
      /\ L.failed \in BOOLEAN /\ (~L.failed => L.kids \in Seq(Blocks))
  <2>1. m \in Saves(ids)  BY LoopFields
  <2> HIDE DEF m
  <2>2. /\ m.i \in Nat /\ m.i <= Len(ids) /\ Len(ids) \in Nat /\ s.i \in Nat
        /\ s.i <= Len(ids) /\ m.children \in Maps /\ Avail(m) \subseteq Blocks
    BY <2>1, SaveFields
  <2> QED BY <2>1, <2>2, LoopFields
<1>2. s.i + k * cap \in Nat /\ s.i + (k + 1) * cap = (s.i + k * cap) + cap
  <2> DEFINE z == k * cap  y == (k + 1) * cap  i == s.i
  <2>1. z \in Nat /\ y = z + cap /\ i \in Nat  BY <1>1
  <2> HIDE DEF z, y, i
  <2>2. i + z \in Nat /\ i + y = (i + z) + cap  BY <2>1
  <2> QED BY <2>2 DEF z, y, i
<1>3. k + 1 # 0
  OBVIOUS
<1>4. CASE L.failed
  <2>1. R = L  BY <1>4 DEF LoopStep
  <2> QED BY <1>4, <2>1 DEF LoopOk
<1>5. CASE ~L.failed /\ m.i = Len(ids)
  <2>1. R = L  BY <1>5 DEF LoopStep
  <2>2. k # 0
    <3>1. LoopStart(s).save = g /\ g.i = s.i  BY GetEntryFacts DEF LoopStart
    <3> QED BY <1>5, <3>1
  <2>3. m.i = Smaller(s.i + (k + 1) * cap, Len(ids))
    <3>1. m.i = Smaller(s.i + k * cap, Len(ids))  BY <1>5 DEF LoopOk
    <3> DEFINE x == s.i + k * cap  n == Len(ids)
    <3>2. x \in Nat /\ n \in Nat /\ n = Smaller(x, n)  BY <1>1, <1>2, <1>5, <3>1
    <3> HIDE DEF x, n
    <3>3. n = Smaller(x + cap, n)  BY <3>2 DEF Smaller
    <3> QED BY <1>2, <1>5, <3>3 DEF x, n
  <2> QED BY <1>5, <2>1, <2>2, <2>3 DEF LoopOk
<1>6. CASE ~L.failed /\ m.i # Len(ids)
  <2> DEFINE t == sv[m]
  <2>1. R = [save |-> t, failed |-> t.id = Null, kids |-> Append(L.kids, t.id)]
    BY <1>6 DEF LoopStep
  <2>3. Kept(g, m) /\ Tidy(m)  BY DEF LoopOk, Kept
  <2> HIDE DEF g, R, m
  <2>2. R.save = t /\ (R.failed <=> t.id = Null) /\ R.kids = Append(L.kids, t.id)
    <3> HIDE DEF t
    <3>1. R.save = t /\ R.kids = Append(L.kids, t.id)  BY <2>1
    <3>2. R.failed = (t.id = Null)  BY <2>1
    <3> QED BY <3>1, <3>2
  <2>4. /\ t \in Saves(ids) /\ Kept(m, t)
        /\ t.id # Null => Written(m, t, ids, ld, cap)
        /\ t.id = Null => t.i # Len(ids) /\ Room(t) < h
        /\ Room(m) < h => t.id = Null
    BY <1>1, <1>6, <2>3 DEF IsSaver
  <2>5. Kept(g, t)  BY <2>3, <2>4, KeptTransitive
  <2> HIDE DEF t
  <2>6. Room(g) < h => t.id = Null
    <3>1. CASE k = 0
      <4>1. m = g  BY <3>1 DEF LoopStart, g, m
      <4> QED BY <2>4, <4>1
    <3>2. CASE k # 0
      BY <1>6, <3>2 DEF LoopOk, g
    <3> QED BY <3>1, <3>2
  <2>7. CASE t.id = Null
    BY <2>2, <2>4, <2>5, <2>6, <2>7 DEF LoopOk, g, R
  <2>8. CASE t.id # Null
    <3>1. PICK V \in SUBSET Blocks :
             /\ V \cap Avail(t) = {} /\ V \cup Avail(t) = Avail(m)
             /\ Reads(ld, t.children, t.id, ids, m.i, t.i, V)
      BY <2>4, <2>8 DEF Written
    <3>2. PICK U \in SUBSET Blocks :
             /\ U \cap Avail(m) = {} /\ U \cup Avail(m) = Avail(g)
             /\ ReadsAll(ld, m.children, L.kids, ids, s.i, m.i, U)
      BY <1>6 DEF LoopOk, g, m
    <3>3. m.i = Smaller(s.i + k * cap, Len(ids)) /\ t.i = Smaller(m.i + cap, Len(ids))
      BY <1>6, <2>4, <2>8 DEF LoopOk, Written, m
    <3>4. t.i = Smaller(s.i + (k + 1) * cap, Len(ids)) /\ s.i <= m.i /\ m.i < t.i /\ t.i <= Len(ids)
      <4> DEFINE x == s.i + k * cap  n == Len(ids)  p == m.i  q == s.i
      <4>1. x \in Nat /\ n \in Nat /\ p = Smaller(x, n) /\ p # n /\ q <= x /\ q <= n
        <5>1. k * cap \in Nat  OBVIOUS
        <5>2. q <= x  BY <1>1, <5>1
        <5> QED BY <1>1, <1>2, <1>6, <3>3, <5>2
      <4> HIDE DEF x, n, p, q
      <4>2. /\ Smaller(p + cap, n) = Smaller(x + cap, n) /\ p < Smaller(p + cap, n)
            /\ Smaller(p + cap, n) <= n /\ q <= p
        BY <4>1 DEF Smaller
      <4> QED BY <1>2, <3>3, <4>2 DEF x, n, p, q
    <3>5. t.children \in Maps /\ t.id \in Blocks /\ t.i \in Nat
      <4>1. t.children \in Maps /\ t.id \in 0 .. N /\ t.i \in Nat  BY <2>4, SaveFields
      <4> QED BY <2>8, <4>1, SizesAssumption DEF Blocks, Null
    <3>6. ReadsAll(ld, t.children, L.kids, ids, s.i, m.i, U)
      <4>1. Same(m.children, t.children, U)
        <5>1. \A x \in Blocks \ Avail(m) : t.children[x] = m.children[x]  BY <2>4 DEF Kept
        <5> QED BY <3>2, <5>1 DEF Same
      <4> QED BY <3>2, <4>1, ReadsKept
    <3>7. ReadsAll(ld, t.children, Append(L.kids, t.id), ids, s.i, t.i, U \cup V)
      <4> DEFINE c == t.children  b == t.id  i == s.i  j == m.i  l == t.i  kids == L.kids
      <4>1. /\ c \in Maps /\ b \in Blocks /\ kids \in Seq(Blocks) /\ i \in 0 .. Len(ids)
            /\ j \in i .. Len(ids) /\ l \in j .. Len(ids) /\ j < l /\ U \cap V = {}
        BY <1>1, <1>6, <3>1, <3>2, <3>4, <3>5
      <4>2. ReadsAll(ld, c, kids, ids, i, j, U) /\ Reads(ld, c, b, ids, j, l, V)
        BY <3>1, <3>6
      <4> HIDE DEF c, b, i, j, l, kids
      <4>3. ReadsAll(ld, c, Append(kids, b), ids, i, l, U \cup V)
        BY <4>1, <4>2, ReadsMore
      <4> QED BY <4>3 DEF c, b, i, j, l, kids
    <3>8. (U \cup V) \cap Avail(t) = {} /\ (U \cup V) \cup Avail(t) = Avail(g)
      <4>1. Avail(t) \subseteq Avail(m)  BY <2>4 DEF Kept
      <4> QED BY <3>1, <3>2, <4>1
    <3>9. R.kids # << >>
      <4> DEFINE kids == L.kids  b == t.id
      <4>1. kids \in Seq(Blocks) /\ b \in Blocks  BY <1>1, <1>6, <3>5
      <4> HIDE DEF kids, b
      <4>2. Append(kids, b) # << >>  BY <4>1
      <4> QED BY <2>2, <4>2 DEF kids, b
    <3>10. ReadsAll(ld, R.save.children, R.kids, ids, s.i, R.save.i, U \cup V)
      BY <2>2, <3>7
    <3>11. (U \cup V) \cap Avail(R.save) = {} /\ (U \cup V) \cup Avail(R.save) = Avail(g)
      BY <2>2, <3>8
    <3>12. U \cup V \in SUBSET Blocks  OBVIOUS
    <3> QED BY <2>2, <2>5, <2>6, <2>8, <3>4, <3>9, <3>10, <3>11, <3>12 DEF LoopOk, g, R
  <2> QED BY <2>7, <2>8
<1> QED BY <1>4, <1>5, <1>6 DEF m

\* A saver one level higher.
LEMMA NodeSaver ==
    ASSUME NEW ids \in Seq(Blocks), NEW ld, NEW nd, NEW sv, NEW nv,
           NEW cap \in Nat \ {0}, NEW h \in Nat,
           IsSaver(sv, ids, ld, cap, h), IsLoader(ld), NodeOf(nd, ld), SaverOf(nv, sv, ids)
    PROVE  IsSaver(nv, ids, nd, E * cap, h + 1)
<1>1. ASSUME NEW s \in Saves(ids)
      PROVE  /\ s.i = Len(ids) => nv[s] = Unneeded(s)
             /\ s.i # Len(ids) /\ Tidy(s) =>
                   /\ Kept(s, nv[s])
                   /\ nv[s].id # Null => Written(s, nv[s], ids, nd, E * cap)
                   /\ nv[s].id = Null => nv[s].i # Len(ids) /\ Room(nv[s]) < h + 1
                   /\ Room(s) < h + 1 => nv[s].id = Null
  <2> DEFINE g == GetEntry(s)  t == nv[s]
  <2>1. CASE s.i = Len(ids)
    <3>1. t = Unneeded(s)  BY <2>1 DEF SaverOf
    <3> QED BY <2>1, <3>1
  <2>2. CASE s.i # Len(ids) /\ g.id = Null
    <3>1. t = g  BY <2>2 DEF SaverOf
    <3>2. /\ g \in Saves(ids) /\ g.i = s.i /\ g.children = s.children /\ Room(s) = 0
          /\ g.entries = s.entries /\ g.free = s.free /\ g.granted = s.granted
      BY <2>2, GetEntryFacts
    <3> HIDE DEF g
    <3>3. Room(g) = 0 /\ (Tidy(s) => Tidy(g)) /\ Avail(g) = Avail(s)
      BY <3>2 DEF Room, Tidy, Avail
    <3>4. Tidy(s) => Kept(s, g)  BY <3>2, <3>3 DEF Kept
    <3> HIDE DEF t
    <3>5. 0 < h + 1  OBVIOUS
    <3> QED BY <2>2, <3>1, <3>2, <3>3, <3>4, <3>5 DEF t
  <2>3. CASE s.i # Len(ids) /\ g.id # Null /\ Tidy(s)
    <3>1. PICK a \in [0 .. E -> Loops(ids)] : IsLoop(sv, ids, s, a) /\ t = Finished(s, a[E])
      BY <2>3 DEF SaverOf
    <3>2. E \in Nat \ {0} /\ E \in 0 .. E /\ 0 \in 0 .. E
      BY SizesAssumption
    <3> DEFINE K == {k \in 0 .. E : LoopOk(s, a[k], k, ids, ld, cap, h)}
    <3>3. 0 \in K
      BY <2>3, <3>1, <3>2, LoopOkStart DEF IsLoop
    <3>4. ASSUME NEW k \in 0 .. E, k \in K, k < E PROVE k + 1 \in K
      <4>1. k \in Nat /\ k + 1 \in 1 .. E /\ k + 1 \in 0 .. E /\ (k + 1) - 1 = k  BY <3>2, <3>4
      <4>2. a[k] \in Loops(ids) /\ a[k + 1] = LoopStep(sv, ids, a[k])
        BY <3>1, <4>1 DEF IsLoop
      <4>3. k = 0 => a[k] = LoopStart(s)  BY <3>1 DEF IsLoop
      <4>4. LoopOk(s, a[k], k, ids, ld, cap, h)  BY <3>4
      <4>5. LoopOk(s, LoopStep(sv, ids, a[k]), k + 1, ids, ld, cap, h)
        <5> DEFINE L == a[k]
        <5>1. L \in Loops(ids) /\ LoopOk(s, L, k, ids, ld, cap, h) /\ (k = 0 => L = LoopStart(s))
          BY <4>2, <4>3, <4>4
        <5> HIDE DEF L
        <5>2. LoopOk(s, LoopStep(sv, ids, L), k + 1, ids, ld, cap, h)
          BY <2>3, <4>1, <5>1, LoopOkNext
        <5> QED BY <5>2 DEF L
      <4> QED BY <4>1, <4>2, <4>5
    <3>5. LoopOk(s, a[E], E, ids, ld, cap, h)
      <4> HIDE DEF K
      <4>1. \A k \in 0 .. E : k \in K /\ k < E => k + 1 \in K  BY <3>4
      <4>2. \A k \in 0 .. E : k \in K  BY <3>2, <3>3, <4>1, UpTo, Zenon
      <4>3. E \in K  BY <3>2, <4>2
      <4> QED BY <4>3 DEF K
    <3> DEFINE L == a[E]  m == L.save  b == g.id
    <3>6. L \in Loops(ids) /\ t = Finished(s, L) /\ LoopOk(s, L, E, ids, ld, cap, h)
      BY <3>1, <3>2, <3>5
    <3> HIDE DEF L, t
    <3>7. /\ t \in Saves(ids) /\ t.i = m.i /\ t.entries = m.entries
          /\ t.granted = m.granted /\ b \in Blocks
          /\ \A x \in Blocks \ {b} : t.children[x] = m.children[x]
          /\ L.failed => t.id = Null /\ t.free = Append(m.free, b)
          /\ ~L.failed => t.id = b /\ t.free = m.free /\ t.children[b] = L.kids
      BY <2>3, <3>6, FinishedFacts
    <3>8. /\ g \in Saves(ids) /\ g.i = s.i /\ g.children = s.children /\ Room(g) + 1 = Room(s)
          /\ Avail(s) = Avail(g) \cup {b} /\ g.granted \subseteq s.granted \cup Avail(s)
          /\ Tidy(g) /\ b \notin Avail(g)
      BY <2>3, GetEntryFacts
    <3> HIDE DEF b
    <3>9. m \in Saves(ids) /\ (~L.failed => L.kids \in Seq(Blocks)) /\ L.failed \in BOOLEAN
      BY <3>6, LoopFields
    <3>10. Kept(g, m)  BY <3>6 DEF LoopOk
    <3> HIDE DEF g, m
    <3>11. /\ Tidy(m) /\ Avail(m) \subseteq Avail(g) /\ b \notin Avail(m)
           /\ m.granted \subseteq s.granted \cup Avail(s)
           /\ \A x \in Blocks \ Avail(s) : t.children[x] = s.children[x]
      BY <3>7, <3>8, <3>10 DEF Kept
    <3>12. CASE L.failed
      <4>1. m.i # Len(ids) /\ Room(m) < h  BY <3>6, <3>12 DEF LoopOk, m
      <4> DEFINE f == m.free  o == <<b>>
      <4>2. f \in Seq(Blocks) /\ Len(f) \in Nat /\ Len(m.entries) \in Nat /\ Room(m) \in Nat
            /\ m.entries \in Seq(Blocks)
        BY <3>9, SaveFields
      <4>3. o \in Seq(Blocks) /\ Len(o) = 1 /\ ToSet(o) = {b} /\ IsInjective(o)
        BY <3>7, OneFacts
      <4>4. Append(f, b) = f \o o
        BY <3>7, <4>2, AppendIsConcat
      <4> HIDE DEF f, o
      <4>5. /\ ToSet(f \o o) = ToSet(f) \cup {b} /\ Len(f \o o) = Len(f) + 1
            /\ IsInjective(f \o o) <=> IsInjective(f) /\ b \notin ToSet(f)
        <5>1. /\ ToSet(f \o o) = ToSet(f) \cup ToSet(o)
              /\ IsInjective(f \o o) <=> IsInjective(f) /\ IsInjective(o) /\ ToSet(f) \cap ToSet(o) = {}
          BY <4>2, <4>3, JoinFacts
        <5>2. Len(f \o o) = Len(f) + Len(o)  BY <4>2, <4>3, ConcatProperties
        <5> QED BY <4>3, <5>1, <5>2
      <4>6. t.free = f \o o  BY <3>7, <3>12, <4>4 DEF f
      <4>7. Tidy(t)
        <5>1. /\ IsInjective(m.entries) /\ IsInjective(f) /\ ToSet(m.entries) \cap ToSet(f) = {}
          BY <3>9, <3>11, TidyFacts DEF f
        <5>2. b \notin ToSet(m.entries) /\ b \notin ToSet(f)  BY <3>11 DEF Avail, f
        <5>3. /\ IsInjective(t.entries) /\ IsInjective(t.free)
              /\ ToSet(t.entries) \cap ToSet(t.free) = {}
          BY <3>7, <4>5, <4>6, <5>1, <5>2
        <5> QED BY <3>7, <5>3, TidyFacts
      <4>8. Avail(t) = Avail(m) \cup {b}  BY <3>7, <4>5, <4>6 DEF Avail, f
      <4>9. Kept(s, t)  BY <3>7, <3>8, <3>11, <4>7, <4>8 DEF Kept
      <4>10. Room(t) < h + 1
        <5> DEFINE p == Len(m.entries)  q == Len(f)
        <5>1. p \in Nat /\ q \in Nat /\ p + q < h  BY <4>1, <4>2 DEF Room, f
        <5>2. Len(t.entries) = p /\ Len(t.free) = q + 1  BY <3>7, <4>5, <4>6
        <5> HIDE DEF p, q
        <5>3. p + (q + 1) < h + 1  BY <5>1
        <5> QED BY <5>2, <5>3 DEF Room
      <4> QED BY <2>3, <3>7, <3>12, <4>1, <4>9, <4>10 DEF t
    <3>13. CASE ~L.failed
      <4>1. /\ m.i = Smaller(s.i + E * cap, Len(ids)) /\ L.kids # << >>
            /\ ~(Room(g) < h)
        BY <3>2, <3>6, <3>13 DEF LoopOk, m, g
      <4>2. PICK U \in SUBSET Blocks :
               /\ U \cap Avail(m) = {} /\ U \cup Avail(m) = Avail(g)
               /\ ReadsAll(ld, m.children, L.kids, ids, s.i, m.i, U)
        BY <3>6, <3>13 DEF LoopOk, m, g
      <4>3. Avail(t) = Avail(m) /\ (Tidy(t) <=> Tidy(m))  BY <3>7, <3>13 DEF Avail, Tidy
      <4>4. Kept(s, t)  BY <3>7, <3>8, <3>11, <4>3 DEF Kept
      <4>5. b \notin U  BY <3>8, <4>2
      <4>6. ReadsAll(ld, t.children, L.kids, ids, s.i, t.i, U)
        <5>1. Same(m.children, t.children, U)  BY <3>7, <4>5 DEF Same
        <5> QED BY <3>7, <4>2, <5>1, ReadsKept
      <4>7. Reads(nd, t.children, b, ids, s.i, t.i, U \cup {b})
        <5> DEFINE c == t.children  i == s.i  j == t.i
        <5>1. c \in Maps /\ i \in 0 .. Len(ids) /\ j \in i .. Len(ids) /\ c[b] = L.kids
          <6>1. c \in Maps /\ i \in Nat /\ i <= Len(ids) /\ j \in Nat /\ j <= Len(ids) /\ Len(ids) \in Nat
            BY <3>7, SaveFields
          <6>2. j = Smaller(i + E * cap, Len(ids))  BY <3>7, <4>1
          <6>3. E * cap \in Nat  BY <3>2
          <6> DEFINE z == E * cap  n == Len(ids)
          <6> HIDE DEF z, i, j, n
          <6>4. i <= j  BY <6>1, <6>2, <6>3 DEF Smaller, z, n
          <6> QED BY <3>7, <3>13, <6>1, <6>4 DEF i, j, n
        <5>2. c[b] # << >> /\ ReadsAll(ld, c, c[b], ids, i, j, U)  BY <4>1, <4>6, <5>1
        <5> HIDE DEF c, i, j
        <5>3. Reads(nd, c, b, ids, i, j, U \cup {b})
          BY <3>7, <4>5, <5>1, <5>2, NodeReads
        <5> QED BY <5>3 DEF c, i, j
      <4>8. U \cup {b} \in SUBSET Blocks /\ (U \cup {b}) \cap Avail(t) = {}
            /\ (U \cup {b}) \cup Avail(t) = Avail(s)
        BY <3>7, <3>8, <3>11, <4>2, <4>3
      <4>9. Written(s, t, ids, nd, E * cap)
        BY <3>7, <3>13, <4>1, <4>7, <4>8 DEF Written
      <4>10. t.id # Null  BY <3>7, <3>13, SizesAssumption DEF Blocks, Null
      <4>11. ~(Room(s) < h + 1)
        <5>1. Room(g) \in Nat  BY <3>8, SaveFields
        <5> QED BY <3>8, <4>1, <5>1
      <4> QED BY <2>3, <4>4, <4>9, <4>10, <4>11 DEF t
    <3> QED BY <3>12, <3>13
  <2> QED BY <2>1, <2>2, <2>3
<1>2. nv \in [Saves(ids) -> Saves(ids)]
  BY DEF SaverOf
<1> QED BY <1>1, <1>2 DEF IsSaver

\* The savers of the three roots.
LEMMA Savers ==
    ASSUME NEW ids \in Seq(Blocks)
    PROVE  /\ IsSaver(SaveLeaves(ids), ids, LoadLeaves, E, 1)
           /\ IsSaver(SaveDoubles(ids), ids, LoadDoubles, E * E, 2)
           /\ IsSaver(SaveTriples(ids), ids, LoadTriples, E * (E * E), 3)
<1>0. E \in Nat \ {0} /\ E * E \in Nat \ {0} /\ 1 + 1 = 2 /\ 2 + 1 = 3
  BY SizesAssumption
<1>1. IsSaver(SaveLeaves(ids), ids, LoadLeaves, E, 1)
  BY LeafSaver
<1>2. SaverOf(SaveDoubles(ids), SaveLeaves(ids), ids)
  <2>1. SaveLeaves(ids) \in [Saves(ids) -> Saves(ids)]  BY <1>1 DEF IsSaver
  <2> QED BY <2>1, SaveDoubleOf
<1>3. IsSaver(SaveDoubles(ids), ids, LoadDoubles, E * E, 1 + 1)
  BY <1>0, <1>1, <1>2, NodeSaver, LeavesLoader, LoadDoubleOf
<1>4. SaverOf(SaveTriples(ids), SaveDoubles(ids), ids)
  <2>1. SaveDoubles(ids) \in [Saves(ids) -> Saves(ids)]  BY <1>3 DEF IsSaver
  <2> QED BY <2>1, SaveTripleOf
<1>5. IsSaver(SaveTriples(ids), ids, LoadTriples, E * (E * E), 2 + 1)
  <2> DEFINE z == E * E
  <2>1. z \in Nat \ {0} /\ IsSaver(SaveDoubles(ids), ids, LoadDoubles, z, 2)  BY <1>0, <1>3
  <2> HIDE DEF z
  <2>2. IsSaver(SaveTriples(ids), ids, LoadTriples, E * z, 2 + 1)
    BY <2>1, <1>4, NodeSaver, DoublesLoader, LoadTripleOf
  <2> QED BY <2>2 DEF z
<1> QED BY <1>0, <1>1, <1>3, <1>5

-----------------------------------------------------------------------------
(* What one call of save_entries_ writes, load_entries_ finds, root by root *)

\* A saver gives a save again, and keeps what is not its own.
LEMMA SaverKeeps ==
    ASSUME NEW ids \in Seq(Blocks), NEW sv, NEW ld, NEW cap, NEW h, IsSaver(sv, ids, ld, cap, h),
           NEW s \in Saves(ids), Tidy(s)
    PROVE  sv[s] \in Saves(ids) /\ Kept(s, sv[s])
<1>1. sv[s] \in Saves(ids)
  BY DEF IsSaver
<1>2. CASE s.i = Len(ids)
  <2> DEFINE t == Unneeded(s)
  <2>1. sv[s] = t  BY <1>2 DEF IsSaver
  <2>2. t.children = s.children /\ t.entries = s.entries /\ t.free = s.free /\ t.granted = s.granted
    BY UnneededFacts
  <2> HIDE DEF t
  <2>3. Kept(s, t)  BY <2>2 DEF Kept, Tidy, Avail
  <2> QED BY <1>1, <2>1, <2>3
<1>3. CASE s.i # Len(ids)
  BY <1>1, <1>3 DEF IsSaver
<1> QED BY <1>2, <1>3

\* The save s and the load w of need ids have come equally far, to the end of
\* roots with room for R ids; or the save has failed, and w stops there.
Level(ids, need, A, s, w, R) ==
    /\ s.i = Smaller(R, Len(ids)) /\ Len(w.ids) = Smaller(s.i, need)
    /\ s.i <= need => ToSet(w.entries) = A \ Avail(s)
    /\ ~w.ok => s.i = Len(ids)
Broken(ids, s, w, h) == s.i # Len(ids) /\ Room(s) < h /\ Stopped(w)

Matched(ids, need, A, s, w, R, h) ==
    /\ Tidy(s) /\ Avail(s) \subseteq A
    /\ w.left + Len(w.ids) = need
    /\ Len(w.ids) <= Len(ids) /\ Len(w.ids) <= R /\ w.ids = SubSeq(ids, 1, Len(w.ids))
    /\ IsInjective(w.entries) /\ ToSet(w.entries) \subseteq A \ Avail(s)
    /\ ~w.ok => w.left # 0
    /\ Level(ids, need, A, s, w, R) \/ Broken(ids, s, w, h)

\* What the load finds in a tree behind the ids that it has.
LEMMA FetchedHead ==
    ASSUME NEW ids \in Seq(Blocks), NEW w \in Walks, NEW j \in 0 .. Len(ids), NEW U, NEW v,
           NEW A \in SUBSET Blocks, Len(w.ids) <= j, w.ids = SubSeq(ids, 1, Len(w.ids)),
           IsInjective(w.entries), ToSet(w.entries) \cap U = {}, U \in SUBSET Blocks,
           Fetched(v, w, ids, Len(w.ids), j, U)
    PROVE  LET n == Smaller(w.left, j - Len(w.ids)) IN
           /\ v.ok /\ v.left = w.left - n /\ v.left + Len(v.ids) = w.left + Len(w.ids)
           /\ Len(v.ids) = Len(w.ids) + n /\ v.ids = SubSeq(ids, 1, Len(v.ids))
           /\ IsInjective(v.entries) /\ ToSet(v.entries) \subseteq ToSet(w.entries) \cup U
           /\ j - Len(w.ids) <= w.left => ToSet(v.entries) = ToSet(w.entries) \cup U
<1> DEFINE i == Len(w.ids)  n == Smaller(w.left, j - i)
<1>1. /\ i \in Nat /\ j \in Nat /\ i <= j /\ j <= Len(ids) /\ w.left \in Nat /\ Len(ids) \in Nat
      /\ w.entries \in Seq(Blocks) /\ w.ids \in Seq(Blocks)
  BY WalkFields
<1>2. PICK e \in Seq(Blocks) :
         /\ IsInjective(e) /\ ToSet(e) \subseteq U
         /\ j - i <= w.left => ToSet(e) = U
         /\ v = Onward(w, ids, i, n, e)
  BY DEF Fetched
<1>3. /\ v.ok /\ v.left = w.left - n /\ v.ids = w.ids \o SubSeq(ids, i + 1, i + n)
      /\ v.entries = w.entries \o e
  <2> DEFINE o == Onward(w, ids, i, n, e)
  <2>1. /\ o.ok /\ o.left = w.left - n /\ o.ids = w.ids \o SubSeq(ids, i + 1, i + n)
        /\ o.entries = w.entries \o e
    <3> HIDE DEF i, n
    <3>1. o.ok  BY DEF Onward
    <3>2. o.left = w.left - n  BY DEF Onward
    <3>3. o.ids = w.ids \o SubSeq(ids, i + 1, i + n)  BY DEF Onward
    <3>4. o.entries = w.entries \o e  BY DEF Onward
    <3> QED BY <3>1, <3>2, <3>3, <3>4
  <2> HIDE DEF o
  <2>2. v = o  BY <1>2 DEF o
  <2> QED BY <2>1, <2>2
<1> HIDE DEF i, n
<1>4. n \in Nat /\ n <= w.left /\ i + n \in i .. Len(ids) /\ i + n \in Nat
  <2> DEFINE x == w.left
  <2>1. x \in Nat /\ n = Smaller(x, j - i)  BY <1>1 DEF n, i
  <2> HIDE DEF x
  <2>2. n \in Nat /\ n <= x /\ i + n \in i .. Len(ids) /\ i + n \in Nat
    BY <1>1, <2>1 DEF Smaller
  <2> QED BY <2>2 DEF x
<1>5. v.ids = SubSeq(ids, 1, i + n) /\ Len(v.ids) = i + n
  <2> DEFINE k == i + n
  <2>1. k \in i .. Len(ids) /\ i \in 0 .. Len(ids) /\ 0 \in 0 .. Len(ids) /\ k \in 0 .. Len(ids)
    BY <1>1, <1>4
  <2>2. w.ids = SubSeq(ids, 0 + 1, i)  BY DEF i
  <2> HIDE DEF k
  <2>3. SubSeq(ids, 0 + 1, i) \o SubSeq(ids, i + 1, k) = SubSeq(ids, 0 + 1, k)
    BY <2>1, Adjacent, SMTT(30)
  <2>4. Len(SubSeq(ids, 0 + 1, k)) = k - 0  BY <2>1, Adjacent
  <2>5. v.ids = SubSeq(ids, 0 + 1, k)  BY <1>3, <2>2, <2>3 DEF k
  <2> QED BY <2>1, <2>4, <2>5 DEF k
<1>6. /\ ToSet(v.entries) = ToSet(w.entries) \cup ToSet(e)
      /\ IsInjective(v.entries)
  <2> DEFINE o == w.entries
  <2>1. o \in Seq(Blocks) /\ IsInjective(o) /\ ToSet(o) \cap ToSet(e) = {}  BY <1>1, <1>2
  <2> HIDE DEF o
  <2>2. ToSet(o \o e) = ToSet(o) \cup ToSet(e) /\ IsInjective(o \o e)  BY <1>2, <2>1, JoinFacts
  <2> QED BY <1>3, <2>2 DEF o
<1>7. v.left + Len(v.ids) = w.left + i
  <2> DEFINE x == w.left  y == v.left  z == Len(v.ids)
  <2>1. x \in Nat /\ y = x - n /\ z = i + n  BY <1>1, <1>3, <1>5
  <2> HIDE DEF x, y, z
  <2>2. y + z = x + i  BY <1>1, <1>4, <2>1
  <2> QED BY <2>2 DEF x, y, z
<1> QED BY <1>2, <1>3, <1>5, <1>6, <1>7 DEF i, n

\* One root more.
LEMMA Stage ==
    ASSUME NEW ids \in Seq(Blocks), NEW need \in Nat, NEW A \in SUBSET Blocks, NEW R \in Nat,
           NEW g \in Nat, NEW h \in Nat, g <= h, NEW cap \in Nat \ {0}, NEW sv, NEW ld,
           IsSaver(sv, ids, ld, cap, h), IsLoader(ld), NEW s \in Saves(ids), NEW w \in Walks,
           Matched(ids, need, A, s, w, R, g),
           NEW d \in Maps, Same(sv[s].children, d, A \ Avail(sv[s]))
    PROVE  LET t == sv[s]
               v == ld[<<d, w, t.id>>]
           IN  /\ v \in Walks /\ t \in Saves(ids)
               /\ Matched(ids, need, A, t, v, R + cap, h)
               /\ ~v.ok => Len(v.ids) <= R
               /\ ~Stopped(v) => R < Len(ids)
<1> DEFINE t == sv[s]  v == ld[<<d, w, t.id>>]  n == Len(ids)  m == Len(w.ids)  x == w.left
           p == s.i  q == t.i
<1>1. /\ p \in Nat /\ p <= n /\ n \in Nat /\ m \in Nat /\ x \in Nat
      /\ Room(s) \in Nat /\ w.ok \in BOOLEAN
  BY SaveFields, WalkFields
<1>2. /\ Tidy(s) /\ Avail(s) \subseteq A /\ x + m = need /\ m <= n /\ m <= R
      /\ w.ids = SubSeq(ids, 1, m) /\ IsInjective(w.entries) /\ ToSet(w.entries) \subseteq A \ Avail(s)
      /\ ~w.ok => x # 0
      /\ Level(ids, need, A, s, w, R) \/ Broken(ids, s, w, g)
  BY DEF Matched
<1>3. t \in Saves(ids) /\ Kept(s, t)
  BY <1>2, SaverKeeps
<1> HIDE DEF t
<1>4. /\ t.id \in 0 .. N /\ q \in Nat /\ q <= n /\ Room(t) \in Nat
  BY <1>3, SaveFields
<1>5. /\ v \in Walks /\ (Stopped(w) => v = w) /\ (~Stopped(w) /\ t.id = Null => v = Missed(w))
  BY <1>4, LoaderAt
<1>6. Tidy(t) /\ Avail(t) \subseteq Avail(s) /\ Avail(t) \subseteq A
  BY <1>2, <1>3 DEF Kept
<1>7. Stopped(w) <=> x = 0 \/ ~w.ok
  BY DEF Stopped
<1> HIDE DEF v
<1>8. ASSUME Stopped(w) => v = w, ~Stopped(w) => v = Missed(w)
      PROVE  /\ v.left = x /\ v.ids = w.ids /\ v.entries = w.entries /\ Stopped(v)
             /\ ~v.ok => x # 0
             /\ w.ok /\ x = 0 => v = w
             /\ Matched(ids, need, A, t, v, R + cap, h) <=>
                   Level(ids, need, A, t, v, R + cap) \/ Broken(ids, t, v, h)
             /\ Len(v.ids) <= R
  <2>1. /\ ~Missed(w).ok /\ Missed(w).left = x /\ Missed(w).ids = w.ids
        /\ Missed(w).entries = w.entries
    BY MissedFacts
  <2>2. v.left = x /\ v.ids = w.ids /\ v.entries = w.entries  BY <1>8, <2>1
  <2>3. Stopped(v)
    <3>1. CASE v = Missed(w)  BY <2>1, <3>1 DEF Stopped
    <3>2. CASE v # Missed(w)  BY <1>8, <3>2
    <3> QED BY <3>1, <3>2
  <2>4. ~v.ok => x # 0
    <3>1. CASE v = w  BY <1>2, <3>1
    <3>2. CASE v # w  BY <1>7, <1>8, <3>2
    <3> QED BY <3>1, <3>2
  <2>5. w.ok /\ x = 0 => v = w
    BY <1>7, <1>8, <2>4
  <2>6. m <= R + cap  BY <1>1, <1>2
  <2>7. Len(v.ids) <= R  BY <1>2, <2>2
  <2>8. /\ v.left + Len(v.ids) = need /\ Len(v.ids) <= n /\ Len(v.ids) <= R + cap
        /\ v.ids = SubSeq(ids, 1, Len(v.ids)) /\ IsInjective(v.entries)
        /\ ToSet(v.entries) \subseteq A \ Avail(t) /\ (~v.ok => v.left # 0)
    <3> HIDE DEF m, x, n
    <3>1. v.left + m = need /\ m <= R + cap  BY <1>2, <2>2, <2>6
    <3>2. Len(v.ids) = m  BY <2>2 DEF m
    <3>3. v.left + Len(v.ids) = need /\ Len(v.ids) <= R + cap  BY <3>1, <3>2
    <3> QED BY <1>2, <1>6, <2>2, <2>4, <3>2, <3>3
  <2> HIDE DEF m, x, n
  <2>9. Matched(ids, need, A, t, v, R + cap, h) <=>
                   Level(ids, need, A, t, v, R + cap) \/ Broken(ids, t, v, h)
    BY <1>6, <2>8 DEF Matched, n
  <2> QED BY <2>2, <2>3, <2>4, <2>5, <2>7, <2>9
<1>9. CASE p = n
  <2>1. t = Unneeded(s)  BY <1>9 DEF IsSaver, t
  <2>2. t.id = Null /\ q = p /\ Avail(t) = Avail(s)
    <3>1. t.id = Null /\ t.i = s.i /\ t.entries = s.entries /\ t.free = s.free
      BY <2>1, UnneededFacts
    <3> QED BY <3>1 DEF Avail
  <2>3. Stopped(w) => v = w  BY <1>5
  <2>4. ~Stopped(w) => v = Missed(w)  BY <1>5, <2>2
  <2>5. Level(ids, need, A, s, w, R)  BY <1>2, <1>9 DEF Broken
  <2>6. /\ p = Smaller(R, n) /\ m = Smaller(p, need)
        /\ p <= need => ToSet(w.entries) = A \ Avail(s)
    BY <2>5 DEF Level
  <2>7. q = Smaller(R + cap, n)
    <3> HIDE DEF p, n, q
    <3> QED BY <1>1, <1>9, <2>2, <2>6 DEF Smaller
  <2>8. Level(ids, need, A, t, v, R + cap)
    <3>1. v.ids = w.ids /\ v.entries = w.entries  BY <1>8, <2>3, <2>4
    <3> QED BY <1>9, <2>2, <2>6, <2>7, <3>1 DEF Level
  <2> QED BY <1>3, <1>5, <1>8, <2>3, <2>4, <2>8 DEF t, v
<1>10. CASE p # n /\ t.id = Null
  <2>1. q # n /\ Room(t) < h  BY <1>2, <1>10 DEF IsSaver, t
  <2>2. Stopped(w) => v = w  BY <1>5
  <2>3. ~Stopped(w) => v = Missed(w)  BY <1>5, <1>10
  <2>4. Broken(ids, t, v, h)  BY <1>8, <2>1, <2>2, <2>3 DEF Broken
  <2> QED BY <1>3, <1>5, <1>8, <2>2, <2>3, <2>4 DEF t, v
<1>11. CASE p # n /\ t.id # Null
  <2>1. Written(s, t, ids, ld, cap) /\ ~(Room(s) < h)
    BY <1>2, <1>11 DEF IsSaver, t
  <2>2. ~(Room(s) < g)  BY <1>1, <2>1
  <2>3. Level(ids, need, A, s, w, R)  BY <1>2, <2>2 DEF Broken
  <2>4. /\ p = Smaller(R, n) /\ m = Smaller(p, need) /\ w.ok
        /\ p <= need => ToSet(w.entries) = A \ Avail(s)
    BY <1>11, <2>3 DEF Level
  <2>5. q = Smaller(p + cap, n)  BY <2>1 DEF Written
  <2>6. PICK U \in SUBSET Blocks :
           /\ U \cap Avail(t) = {} /\ U \cup Avail(t) = Avail(s)
           /\ Reads(ld, t.children, t.id, ids, p, q, U)
    BY <2>1 DEF Written
  <2>7. q = Smaller(R + cap, n) /\ p < q /\ R < n
    <3> HIDE DEF p, n, q
    <3> QED BY <1>1, <1>11, <2>4, <2>5 DEF Smaller
  <2>8. CASE x = 0
    <3>1. v = w /\ Stopped(w)  BY <1>5, <1>7, <2>8
    <3>2. m = need /\ need <= p
      <4> HIDE DEF m, x, p
      <4> QED BY <1>1, <1>2, <2>4, <2>8 DEF Smaller
    <3>3. m = Smaller(q, need) /\ ~(q <= need)
      <4> HIDE DEF m, x, p, q
      <4> QED BY <1>1, <1>4, <2>7, <3>2 DEF Smaller
    <3>4. Level(ids, need, A, t, v, R + cap)
      BY <2>4, <2>7, <3>1, <3>3 DEF Level
    <3> QED BY <1>3, <1>5, <1>8, <3>1, <3>4 DEF t, v
  <2>9. CASE x # 0
    <3>1. ~Stopped(w)  BY <1>7, <2>4, <2>9
    <3>2. m = p /\ p < need
      <4> HIDE DEF m, x, p
      <4> QED BY <1>1, <1>2, <2>4, <2>9 DEF Smaller
    <3>3. Same(t.children, d, U)
      <4>1. Same(t.children, d, A \ Avail(t))  BY DEF t
      <4>2. U \subseteq A \ Avail(t)  BY <1>2, <2>6
      <4> QED BY <4>1, <4>2 DEF Same
    <3>4. Fetched(v, w, ids, p, q, U)
      BY <2>6, <3>1, <3>3 DEF Reads, v
    <3> DEFINE k == Smaller(x, q - m)
    <3>5. ToSet(w.entries) \cap U = {}
      BY <1>2, <2>6
    <3>6. /\ v.ok /\ v.left = x - k /\ v.left + Len(v.ids) = x + m
          /\ Len(v.ids) = m + k /\ v.ids = SubSeq(ids, 1, Len(v.ids))
          /\ IsInjective(v.entries) /\ ToSet(v.entries) \subseteq ToSet(w.entries) \cup U
          /\ q - m <= x => ToSet(v.entries) = ToSet(w.entries) \cup U
      <4>1. Fetched(v, w, ids, m, q, U) /\ m <= q /\ q \in 0 .. n
        <5> HIDE DEF m, p, q, n
        <5> QED BY <1>1, <1>4, <2>7, <3>2, <3>4
      <4> DEFINE j == q
      <4>2. j \in 0 .. n /\ Fetched(v, w, ids, m, j, U) /\ m <= j  BY <4>1
      <4> HIDE DEF j, q, p
      <4>3. LET y == Smaller(w.left, j - Len(w.ids)) IN
           /\ v.ok /\ v.left = w.left - y /\ v.left + Len(v.ids) = w.left + Len(w.ids)
           /\ Len(v.ids) = Len(w.ids) + y /\ v.ids = SubSeq(ids, 1, Len(v.ids))
           /\ IsInjective(v.entries) /\ ToSet(v.entries) \subseteq ToSet(w.entries) \cup U
           /\ j - Len(w.ids) <= w.left => ToSet(v.entries) = ToSet(w.entries) \cup U
        BY <1>2, <3>5, <4>2, FetchedHead, ZenonT(30)
      <4> QED BY <4>3 DEF j
    <3> DEFINE l == Len(v.ids)  y == v.left
    <3>7. /\ y + l = need /\ l = Smaller(q, need) /\ l <= n /\ l <= R + cap
          /\ q <= need => q - m <= x
      <4>1. y = x - k /\ l = m + k /\ k = Smaller(x, q - m)  BY <3>6
      <4> HIDE DEF l, y, k, x, m, q, p, n
      <4>2. q <= R + cap /\ q <= n
        BY <1>1, <1>4, <2>7 DEF Smaller
      <4>3. x + m = need /\ m < q  BY <1>2, <2>7, <3>2
      <4> HIDE <2>7
      <4>4. y + l = need /\ l <= q /\ (q <= need => q - m <= x)
        BY <1>1, <1>4, <4>1, <4>3, SMTT(30) DEF Smaller
      <4>5. l = Smaller(q, need)
        BY <1>1, <1>4, <4>1, <4>3, SMTT(30) DEF Smaller
      <4>6. l \in Nat  BY <1>1, <1>4, <4>5 DEF Smaller
      <4> QED BY <1>1, <1>4, <4>2, <4>4, <4>5, <4>6, SMTT(30)
    <3>8. ToSet(v.entries) \subseteq A \ Avail(t)
      BY <1>2, <1>6, <2>6, <3>6
    <3>9. q <= need => ToSet(v.entries) = A \ Avail(t)
      <4>1. p <= need  
        <5> HIDE DEF p
        <5> QED BY <1>1, <3>2
      <4> QED BY <1>2, <2>4, <2>6, <3>6, <3>7, <4>1
    <3>10. Level(ids, need, A, t, v, R + cap)
      BY <2>7, <3>6, <3>7, <3>9 DEF Level
    <3>11. Matched(ids, need, A, t, v, R + cap, h)
      BY <1>6, <3>6, <3>7, <3>8, <3>10 DEF Matched
    <3> QED BY <1>3, <1>5, <2>7, <3>6, <3>11 DEF t, v
  <2> QED BY <2>8, <2>9
<1> QED BY <1>9, <1>10, <1>11

\* The hypotheses of Stage, for a root with room for cap ids behind R others.
Ready(ids, need, A, R, g, h, cap, sv, ld, s, w, t, d, v) ==
    /\ need \in Nat /\ A \in SUBSET Blocks /\ R \in Nat /\ cap \in Nat \ {0}
    /\ g \in Nat /\ h \in Nat /\ g <= h
    /\ IsSaver(sv, ids, ld, cap, h) /\ IsLoader(ld)
    /\ s \in Saves(ids) /\ w \in Walks /\ d \in Maps
    /\ Matched(ids, need, A, s, w, R, g)
    /\ t = sv[s] /\ v = ld[<<d, w, t.id>>]
    /\ Same(t.children, d, A \ Avail(t))

\* Stage, with its conditions in one formula.
LEMMA NextRoot ==
    ASSUME NEW ids \in Seq(Blocks), NEW need, NEW A, NEW R, NEW g, NEW h, NEW cap, NEW sv,
           NEW ld, NEW s, NEW w, NEW t, NEW d, NEW v,
           Ready(ids, need, A, R, g, h, cap, sv, ld, s, w, t, d, v)
    PROVE  /\ Matched(ids, need, A, t, v, R + cap, h)
           /\ ~v.ok => Len(v.ids) <= R
           /\ ~Stopped(v) => R < Len(ids)
BY Stage, Zenon DEF Ready

-----------------------------------------------------------------------------
(* load_entries_ of a whole file *)

\* An inode whose first ids are there.
IsNode(node) ==
    /\ node.need \in Nat /\ node.roots \in [1 .. 3 -> 0 .. N]
    /\ node.direct \in [1 .. Direct -> 0 .. N]
    /\ \A k \in 1 .. Smaller(Direct, node.need) : node.direct[k] \in Blocks

LoadStart(node) ==
    [ok |-> TRUE, left |-> node.need - Smaller(Direct, node.need),
     ids |-> SubSeq(node.direct, 1, Smaller(Direct, node.need)), entries |-> << >>]
LoadOne(c, node) == LoadLeaves[<<c, LoadStart(node), node.roots[1]>>]
LoadTwo(c, node) == LoadDoubles[<<c, LoadOne(c, node), node.roots[2]>>]
LoadThree(c, node) == LoadTriples[<<c, LoadTwo(c, node), node.roots[3]>>]

\* The first m ids of the direct blocks.
LEMMA HeadOf ==
    ASSUME NEW n \in Nat, NEW m \in 0 .. n, NEW s \in [1 .. n -> 0 .. N],
           \A k \in 1 .. m : s[k] \in Blocks
    PROVE  /\ SubSeq(s, 1, m) \in Seq(Blocks) /\ Len(SubSeq(s, 1, m)) = m
           /\ \A k \in 1 .. m : SubSeq(s, 1, m)[k] = s[k]
<1>1. s \in Seq(0 .. N) /\ Len(s) = n
  <2>1. Seq(0 .. N) = UNION {[1 .. l -> 0 .. N] : l \in Nat}  BY SeqDef
  <2>2. s \in Seq(0 .. N)  BY <2>1
  <2>3. DOMAIN s = 1 .. n  OBVIOUS
  <2>4. Len(s) \in Nat /\ DOMAIN s = 1 .. Len(s)  BY <2>2
  <2> HIDE <2>1
  <2> DEFINE l == Len(s)
  <2>5. l \in Nat /\ 1 .. l = 1 .. n  BY <2>3, <2>4
  <2> HIDE DEF l
  <2>6. l = n
    <3>1. CASE l = 0
      <4>1. 1 .. l = {}  BY <3>1
      <4>2. n # 0 => 1 \in 1 .. n  OBVIOUS
      <4> QED BY <2>5, <3>1, <4>1, <4>2
    <3>2. CASE l # 0
      <4>1. l \in 1 .. n  BY <2>5, <3>2
      <4>2. n \in 1 .. l  BY <2>5, <4>1
      <4> QED BY <2>5, <4>1, <4>2
    <3> QED BY <3>1, <3>2
  <2> QED BY <2>2, <2>6 DEF l
<1> DEFINE q == SubSeq(s, 1, m)
<1>2. /\ q \in Seq(0 .. N) /\ Len(q) = IF 1 <= m THEN m - 1 + 1 ELSE 0
      /\ \A k \in 1 .. m - 1 + 1 : q[k] = s[1 + k - 1]
  <2>1. 1 \in 1 .. Len(s) + 1 /\ m \in 0 .. Len(s)  BY <1>1
  <2>2. q \in Seq(0 .. N)  BY <1>1, <2>1
  <2>3. Len(q) = IF 1 <= m THEN m - 1 + 1 ELSE 0  BY <1>1, <2>1
  <2>4. \A k \in 1 .. m - 1 + 1 : q[k] = s[1 + k - 1]  BY <1>1, <2>1
  <2> QED BY <2>2, <2>3, <2>4
<1> HIDE DEF q
<1>3. Len(q) = m /\ \A k \in 1 .. m : q[k] = s[k]
  BY <1>2
<1>4. q \in Seq(Blocks)
  <2>1. \A k \in 1 .. Len(q) : q[k] \in Blocks  BY <1>3
  <2>2. q = [k \in 1 .. Len(q) |-> q[k]]  BY <1>2
  <2>3. Len(q) \in Nat  BY <1>3
  <2> DEFINE l == Len(q)
  <2> HIDE DEF l
  <2>4. q \in [1 .. l -> Blocks]  BY <2>1, <2>2 DEF l
  <2>5. Seq(Blocks) = UNION {[1 .. j -> Blocks] : j \in Nat}  BY SeqDef
  <2> QED BY <2>3, <2>4, <2>5 DEF l
<1> QED BY <1>3, <1>4 DEF q

\* load_entries_ starts with the direct blocks.
LEMMA LoadStartFacts ==
    ASSUME NEW node, IsNode(node)
    PROVE  LET w == LoadStart(node)
               n == Smaller(Direct, node.need)
           IN  /\ w \in Walks /\ w.ok /\ w.left + n = node.need /\ n \in Nat /\ n <= node.need
               /\ Len(w.ids) = n /\ w.entries = << >> /\ \A k \in 1 .. n : w.ids[k] = node.direct[k]
<1> DEFINE w == LoadStart(node)  n == Smaller(Direct, node.need)  ids == SubSeq(node.direct, 1, n)
<1>1. Direct \in Nat /\ node.need \in Nat
  BY SizesAssumption DEF IsNode
<1>2. n \in 0 .. Direct /\ n \in Nat /\ n <= node.need
  BY <1>1, SmallerFacts
<1>3. node.direct \in [1 .. Direct -> 0 .. N] /\ \A k \in 1 .. n : node.direct[k] \in Blocks
  BY DEF IsNode
<1>4. ids \in Seq(Blocks) /\ Len(ids) = n /\ \A k \in 1 .. n : ids[k] = node.direct[k]
  <2> DEFINE s == node.direct
  <2>1. s \in [1 .. Direct -> 0 .. N] /\ \A k \in 1 .. n : s[k] \in Blocks  BY <1>3
  <2> HIDE DEF s, n
  <2>2. /\ SubSeq(s, 1, n) \in Seq(Blocks) /\ Len(SubSeq(s, 1, n)) = n
        /\ \A k \in 1 .. n : SubSeq(s, 1, n)[k] = s[k]
    BY <1>1, <1>2, <2>1, HeadOf
  <2> QED BY <2>2 DEF s
<1>5. w = [ok |-> TRUE, left |-> node.need - n, ids |-> ids, entries |-> << >>]
  BY DEF LoadStart
<1> HIDE DEF w, ids, n
<1>6. node.need - n \in Nat /\ (node.need - n) + n = node.need
  BY <1>1, <1>2
<1>7. << >> \in Seq(Blocks)
  OBVIOUS
<1>8. w \in Walks
  BY <1>4, <1>5, <1>6, <1>7 DEF Walks
<1>9. w.ok /\ w.left = node.need - n /\ w.ids = ids /\ w.entries = << >>
  BY <1>5
<1> QED BY <1>2, <1>4, <1>6, <1>8, <1>9 DEF w, n

\* load_entries_ loads its three trees one after the other.
LEMMA LoadParts ==
    ASSUME NEW c \in Maps, NEW node, IsNode(node)
    PROVE  /\ LoadStart(node) \in Walks /\ LoadOne(c, node) \in Walks /\ LoadTwo(c, node) \in Walks
           /\ LoadThree(c, node) \in Walks
           /\ LoadEntries(c, node) = LoadThree(c, node)
           /\ Later(LoadStart(node), LoadOne(c, node)) /\ Later(LoadOne(c, node), LoadTwo(c, node))
           /\ Later(LoadTwo(c, node), LoadThree(c, node))
<1>0. node.roots[1] \in 0 .. N /\ node.roots[2] \in 0 .. N /\ node.roots[3] \in 0 .. N
  BY DEF IsNode
<1>1. LoadStart(node) \in Walks
  BY LoadStartFacts
<1>2. LoadOne(c, node) \in Walks /\ Later(LoadStart(node), LoadOne(c, node))
  BY <1>0, <1>1, LoaderAt, LeavesLoader DEF LoadOne
<1>3. LoadTwo(c, node) \in Walks /\ Later(LoadOne(c, node), LoadTwo(c, node))
  BY <1>0, <1>2, LoaderAt, DoublesLoader DEF LoadTwo
<1>4. LoadThree(c, node) \in Walks /\ Later(LoadTwo(c, node), LoadThree(c, node))
  BY <1>0, <1>3, LoaderAt, TriplesLoader DEF LoadThree
<1>5. LoadOne(c, node) = LoadLeaf(c, LoadStart(node), node.roots[1])
  BY <1>0, <1>1, Call DEF LoadOne, LoadLeaves
<1>6. LoadTwo(c, node) = LoadDouble(c, LoadOne(c, node), node.roots[2])
  BY <1>0, <1>2, Call DEF LoadTwo, LoadDoubles
<1>7. LoadThree(c, node) = LoadTriple(c, LoadTwo(c, node), node.roots[3])
  BY <1>0, <1>3, Call DEF LoadThree, LoadTriples
<1>8. LoadEntries(c, node) =
        LoadTriple(c, LoadDouble(c, LoadLeaf(c, LoadStart(node), node.roots[1]), node.roots[2]),
                   node.roots[3])
  BY Zenon DEF LoadEntries, LoadStart
<1> QED BY <1>1, <1>2, <1>3, <1>4, <1>5, <1>6, <1>7, <1>8, Zenon

\* open() depends on the entry blocks it finds, and on no other block.
LEMMA LoadFacts ==
    ASSUME NEW c \in Maps, NEW node, IsNode(node)
    PROVE  LET F == LoadEntries(c, node) IN
           /\ F \in Walks /\ F.left + Len(F.ids) = node.need
           /\ Smaller(Direct, node.need) <= Len(F.ids)
           /\ \A d \in Maps : Same(c, d, ToSet(F.entries)) => LoadEntries(d, node) = F
<1> DEFINE w == LoadStart(node)  u == LoadOne(c, node)  v == LoadTwo(c, node)
           F == LoadThree(c, node)
<1>1. /\ w \in Walks /\ u \in Walks /\ v \in Walks /\ F \in Walks
      /\ LoadEntries(c, node) = F /\ Later(w, u) /\ Later(u, v) /\ Later(v, F)
  BY LoadParts
<1>2. LET n == Smaller(Direct, node.need)
      IN  w.left + n = node.need /\ n \in Nat /\ Len(w.ids) = n /\ w.entries = << >>
  BY LoadStartFacts
<1>3. node.roots[1] \in 0 .. N /\ node.roots[2] \in 0 .. N /\ node.roots[3] \in 0 .. N
  BY DEF IsNode
<1> HIDE DEF w, u, v, F
<1>4. Later(w, v) /\ \A d : Agree(c, d, w, v) => Agree(c, d, w, u) /\ Agree(c, d, u, v)
  BY <1>1, LaterTransitive
<1>5. Later(w, F) /\ \A d : Agree(c, d, w, F) => Agree(c, d, w, v) /\ Agree(c, d, v, F)
  BY <1>1, <1>4, LaterTransitive
<1>6. F.left + Len(F.ids) = node.need /\ Smaller(Direct, node.need) <= Len(F.ids)
  <2> DEFINE n == Smaller(Direct, node.need)  x == w.left  y == F.left  l == Len(F.ids)
             m == Len(w.ids)
  <2>1. x \in Nat /\ y \in Nat /\ l \in Nat /\ n \in Nat /\ x + n = node.need
        /\ y <= x /\ y + l = x + m /\ m = n
    BY <1>1, <1>2, <1>5, WalkFields DEF Later
  <2> HIDE DEF n, x, y, l, m
  <2>2. y + l = node.need /\ n <= l  BY <2>1
  <2> QED BY <2>2 DEF n, y, l
<1>7. ASSUME NEW d \in Maps, Same(c, d, ToSet(F.entries)) PROVE LoadEntries(d, node) = F
  <2>1. Agree(c, d, w, F)
    <3>1. F.entries \in Seq(Blocks) /\ Len(w.entries) = 0  BY <1>1, <1>2, WalkFields
    <3>2. \A p \in 1 .. Len(F.entries) : F.entries[p] \in ToSet(F.entries)  BY <3>1, ToSetType
    <3>3. 0 + 1 = 1  OBVIOUS
    <3>4. ASSUME NEW p \in Len(w.entries) + 1 .. Len(F.entries)
          PROVE  d[F.entries[p]] = c[F.entries[p]]
      <4>1. p \in 1 .. Len(F.entries)  BY <3>1, <3>3, <3>4
      <4> QED BY <1>7, <3>2, <4>1 DEF Same
    <3> QED BY <3>4 DEF Agree
  <2>2. Agree(c, d, w, u) /\ Agree(c, d, u, v) /\ Agree(c, d, v, F)  BY <1>4, <1>5, <2>1
  <2>3. LoadOne(d, node) = u
    BY <1>1, <1>3, <2>2, LoaderAt, LeavesLoader DEF LoadOne, u, w
  <2>4. LoadTwo(d, node) = v
    BY <1>1, <1>3, <2>2, <2>3, LoaderAt, DoublesLoader DEF LoadTwo, v, u
  <2>5. LoadThree(d, node) = F
    BY <1>1, <1>3, <2>2, <2>4, LoaderAt, TriplesLoader DEF LoadThree, F, v
  <2>6. LoadEntries(d, node) = LoadThree(d, node)  BY LoadParts
  <2> QED BY <2>5, <2>6
<1> QED BY <1>1, <1>6, <1>7

-----------------------------------------------------------------------------
(* save_entries_ of a whole file *)

SaveStart(ids, entries) ==
    [i |-> Smaller(Direct, Len(ids)), id |-> Null, entries |-> entries,
     free |-> free, children |-> children, granted |-> {}]
SaveOne(ids, entries) == SaveLeaves(ids)[SaveStart(ids, entries)]
SaveTwo(ids, entries) == SaveDoubles(ids)[SaveOne(ids, entries)]
SaveThree(ids, entries) == SaveTriples(ids)[SaveTwo(ids, entries)]

\* save_entries_ starts with the entry blocks loaded and the free blocks.
LEMMA SaveStartFacts ==
    ASSUME NEW ids \in Seq(Blocks), NEW entries \in Seq(Blocks),
           free \in Seq(Blocks), children \in Maps, IsInjective(entries \o free)
    PROVE  LET s == SaveStart(ids, entries) IN
           /\ s \in Saves(ids) /\ Tidy(s) /\ Avail(s) = ToSet(entries) \cup ToSet(free)
           /\ s.i = Smaller(Direct, Len(ids)) /\ s.children = children /\ s.granted = {}
<1> DEFINE s == SaveStart(ids, entries)  i == Smaller(Direct, Len(ids))
<1>1. i \in 0 .. Len(ids) /\ Null \in 0 .. N
  <2>1. Direct \in Nat /\ Len(ids) \in Nat /\ N \in Nat  BY SizesAssumption
  <2>2. i \in Nat /\ i <= Len(ids)  BY <2>1, SmallerFacts
  <2> HIDE DEF i
  <2> QED BY <2>1, <2>2 DEF Null
<1>2. s = [i |-> i, id |-> Null, entries |-> entries,
           free |-> free, children |-> children, granted |-> {}]
  BY DEF SaveStart
<1> HIDE DEF s, i
<1>3. s \in Saves(ids)
  BY <1>1, <1>2 DEF Saves
<1>4. /\ s.i = i /\ s.entries = entries /\ s.free = free /\ s.children = children
      /\ s.granted = {}
  BY <1>2
<1>5. Tidy(s) /\ Avail(s) = ToSet(entries) \cup ToSet(free)
  BY <1>4 DEF Tidy, Avail
<1> QED BY <1>3, <1>4, <1>5 DEF s, i

\* save_entries_ saves its three trees one after the other.
LEMMA SaveParts ==
    ASSUME NEW ids \in Seq(Blocks), NEW entries \in Seq(Blocks),
           free \in Seq(Blocks), children \in Maps, IsInjective(entries \o free)
    PROVE  LET s == SaveStart(ids, entries)
               t == SaveOne(ids, entries)
               u == SaveTwo(ids, entries)
               v == SaveThree(ids, entries)
           IN  /\ s \in Saves(ids) /\ t \in Saves(ids) /\ u \in Saves(ids) /\ v \in Saves(ids)
               /\ Kept(s, t) /\ Kept(t, u) /\ Kept(u, v) /\ Kept(s, v)
               /\ SaveEntries(ids, entries) =
                     [saved |-> v.i = Len(ids), roots |-> <<t.id, u.id, v.id>>,
                      free |-> v.free \o v.entries,
                      children |-> [b \in Blocks |-> IF b \in ToSet(v.entries) THEN << >>
                                                     ELSE v.children[b]],
                      fresh |-> v.granted]
<1> DEFINE s == SaveStart(ids, entries)  t == SaveOne(ids, entries)  u == SaveTwo(ids, entries)
           v == SaveThree(ids, entries)
<1>1. s \in Saves(ids) /\ Tidy(s)
  BY SaveStartFacts
<1> HIDE DEF s
<1>2. t \in Saves(ids) /\ Kept(s, t)
  BY <1>1, Savers, SaverKeeps DEF SaveOne, s
<1> HIDE DEF t
<1>3. u \in Saves(ids) /\ Kept(t, u)
  <2>1. Tidy(t)  BY <1>2 DEF Kept
  <2> QED BY <1>2, <2>1, Savers, SaverKeeps DEF SaveTwo, t
<1> HIDE DEF u
<1>4. v \in Saves(ids) /\ Kept(u, v)
  <2>1. Tidy(u)  BY <1>3 DEF Kept
  <2> QED BY <1>3, <2>1, Savers, SaverKeeps DEF SaveThree, u
<1>5. t = SaveLeaf(s, ids)
  BY <1>1 DEF t, s, SaveOne, SaveLeaves
<1>6. u = SaveDouble(t, ids)
  BY <1>2 DEF u, t, SaveTwo, SaveDoubles
<1>7. v = SaveTriple(u, ids)
  BY <1>3 DEF u, SaveThree, SaveTriples
<1> HIDE DEF v
<1>8. Kept(s, v)
  BY <1>2, <1>3, <1>4, KeptTransitive
<1>9. SaveEntries(ids, entries) =
         [saved |-> v.i = Len(ids), roots |-> <<t.id, u.id, v.id>>,
          free |-> v.free \o v.entries,
          children |-> [b \in Blocks |-> IF b \in ToSet(v.entries) THEN << >>
                                         ELSE v.children[b]],
          fresh |-> v.granted]
  BY <1>5, <1>6, <1>7, Zenon DEF SaveEntries, s, SaveStart
<1> QED BY <1>1, <1>2, <1>3, <1>4, <1>8, <1>9 DEF s, t, u, v

\* close() writes only entry blocks of the file and free blocks, and all of
\* these that it does not use are free afterwards.
LEMMA SaveFacts ==
    ASSUME NEW ids \in Seq(Blocks), NEW entries \in Seq(Blocks),
           free \in Seq(Blocks), children \in Maps, IsInjective(entries \o free)
    PROVE  LET save == SaveEntries(ids, entries)
               A == ToSet(entries) \cup ToSet(free)
           IN  /\ save.free \in Seq(Blocks) /\ IsInjective(save.free) /\ ToSet(save.free) \subseteq A
               /\ save.children \in Maps /\ save.fresh \subseteq A /\ save.saved \in BOOLEAN
               /\ save.roots \in [1 .. 3 -> 0 .. N]
               /\ \A b \in Blocks \ A : save.children[b] = children[b]
<1> DEFINE s == SaveStart(ids, entries)  t == SaveOne(ids, entries)  u == SaveTwo(ids, entries)
           v == SaveThree(ids, entries)  save == SaveEntries(ids, entries)
           A == ToSet(entries) \cup ToSet(free)
           c == [b \in Blocks |-> IF b \in ToSet(v.entries) THEN << >> ELSE v.children[b]]
<1>1. /\ s \in Saves(ids) /\ t \in Saves(ids) /\ u \in Saves(ids) /\ v \in Saves(ids) /\ Kept(s, v)
      /\ save = [saved |-> v.i = Len(ids), roots |-> <<t.id, u.id, v.id>>,
                 free |-> v.free \o v.entries, children |-> c, fresh |-> v.granted]
  BY SaveParts
<1>2. Avail(s) = A /\ s.children = children /\ s.granted = {}
  BY SaveStartFacts
<1> HIDE DEF s, t, u, v, save, A
<1>3. /\ v.entries \in Seq(Blocks) /\ v.free \in Seq(Blocks) /\ v.children \in Maps
      /\ t.id \in 0 .. N /\ u.id \in 0 .. N /\ v.id \in 0 .. N
      /\ IsInjective(v.entries) /\ IsInjective(v.free) /\ ToSet(v.entries) \cap ToSet(v.free) = {}
  BY <1>1, SaveFields, TidyFacts DEF Kept
<1> DEFINE e == v.entries  f == v.free
<1>4. e \in Seq(Blocks) /\ f \in Seq(Blocks) /\ IsInjective(e) /\ IsInjective(f)
      /\ ToSet(f) \cap ToSet(e) = {}
  BY <1>3
<1>5. /\ save.roots = <<t.id, u.id, v.id>> /\ save.free = f \o e /\ save.fresh = v.granted
      /\ save.children = c
  <2> HIDE DEF c
  <2> QED BY <1>1
<1>6. save.saved \in BOOLEAN
  <2> HIDE DEF c
  <2>1. save.saved = (v.i = Len(ids))  BY <1>1
  <2> QED BY <2>1
<1>7. c \in Maps /\ \A b \in Blocks \ A : c[b] = children[b]
  <2>1. v.children \in [Blocks -> Seq(Blocks)] /\ << >> \in Seq(Blocks)
    BY <1>3 DEF Maps
  <2>2. c \in Maps  BY <2>1 DEF Maps
  <2>3. \A b \in Blocks \ A : v.children[b] = children[b] /\ b \notin ToSet(v.entries)
    BY <1>1, <1>2 DEF Kept, Avail
  <2> QED BY <2>2, <2>3
<1> HIDE DEF e, f
<1>8. f \o e \in Seq(Blocks) /\ ToSet(f \o e) = ToSet(f) \cup ToSet(e) /\ IsInjective(f \o e)
  BY <1>4, JoinFacts
<1>9. ToSet(f) \cup ToSet(e) \subseteq A /\ v.granted \subseteq A
  BY <1>1, <1>2 DEF Kept, Avail, e, f
<1>10. <<t.id, u.id, v.id>> \in [1 .. 3 -> 0 .. N]
  <2> DEFINE x == t.id  y == u.id  z == v.id
  <2>1. x \in 0 .. N /\ y \in 0 .. N /\ z \in 0 .. N  BY <1>3
  <2> HIDE DEF x, y, z
  <2>2. <<x, y, z>> \in [1 .. 3 -> 0 .. N]  BY <2>1
  <2> QED BY <2>2 DEF x, y, z
<1> HIDE DEF c
<1> QED BY <1>5, <1>6, <1>7, <1>8, <1>9, <1>10 DEF save, A

\* The heights of the trees.
LEMMA Digits == /\ 0 \in Nat /\ 1 \in Nat /\ 2 \in Nat /\ 3 \in Nat
                /\ 0 <= 1 /\ 1 <= 2 /\ 2 <= 3
OBVIOUS

\* open() finds what close() wrote, as far as the size says, in any disk that
\* has the same in the entry blocks of the file; and says so if it does not.
THEOREM SavedLoads ==
    ASSUME NEW ids \in Seq(Blocks), NEW entries \in Seq(Blocks), Len(ids) <= Capacity,
           free \in Seq(Blocks), children \in Maps, IsInjective(entries \o free),
           NEW node, IsNode(node), node.roots = SaveEntries(ids, entries).roots,
           Smaller(Direct, node.need) <= Len(ids),
           \A k \in 1 .. Smaller(Direct, node.need) : node.direct[k] = ids[k],
           NEW d \in Maps,
           LET A == ToSet(entries) \cup ToSet(free)
               save == SaveEntries(ids, entries)
           IN  Same(save.children, d, A \ ToSet(save.free))
    PROVE  LET F == LoadEntries(d, node)
               A == ToSet(entries) \cup ToSet(free)
               save == SaveEntries(ids, entries)
           IN  /\ F \in Walks /\ IsInjective(F.entries)
               /\ ToSet(F.entries) \subseteq A \ ToSet(save.free)
               /\ Len(F.ids) <= Len(ids) /\ F.ids = SubSeq(ids, 1, Len(F.ids))
               /\ ~F.ok => Len(F.ids) <= Direct + E + E * E
               /\ F.ok /\ (Len(ids) < node.need => Len(ids) <= Direct + E + E * E) =>
                     Len(F.ids) = node.need
               /\ save.saved /\ node.need <= Len(ids) => F.ok
               /\ save.saved /\ node.need = Len(ids) => ToSet(F.entries) = A \ ToSet(save.free)
<1> DEFINE s == SaveStart(ids, entries)  t == SaveOne(ids, entries)  u == SaveTwo(ids, entries)
           v == SaveThree(ids, entries)  save == SaveEntries(ids, entries)
           A == ToSet(entries) \cup ToSet(free)  need == node.need
           w0 == LoadStart(node)  w1 == LoadOne(d, node)  w2 == LoadTwo(d, node)
           w3 == LoadThree(d, node)  n == Smaller(Direct, need)
           c == [b \in Blocks |-> IF b \in ToSet(v.entries) THEN << >> ELSE v.children[b]]
<1>1. /\ s \in Saves(ids) /\ t \in Saves(ids) /\ u \in Saves(ids) /\ v \in Saves(ids)
      /\ Kept(s, t) /\ Kept(t, u) /\ Kept(u, v) /\ Kept(s, v)
      /\ save = [saved |-> v.i = Len(ids), roots |-> <<t.id, u.id, v.id>>,
                 free |-> v.free \o v.entries, children |-> c, fresh |-> v.granted]
  BY SaveParts
<1>2. Avail(s) = A /\ Tidy(s) /\ s.i = Smaller(Direct, Len(ids)) /\ A \in SUBSET Blocks
  <2>1. ToSet(entries) \subseteq Blocks /\ ToSet(free) \subseteq Blocks  BY ToSetType
  <2> QED BY <2>1, SaveStartFacts
<1>3. /\ w0 \in Walks /\ w1 \in Walks /\ w2 \in Walks /\ w3 \in Walks /\ LoadEntries(d, node) = w3
  BY LoadParts
<1>4. /\ w0.ok /\ w0.left + n = need /\ n \in Nat /\ n <= need
      /\ Len(w0.ids) = n /\ w0.entries = << >> /\ \A k \in 1 .. n : w0.ids[k] = node.direct[k]
  BY LoadStartFacts
<1>5. node.roots[1] = t.id /\ node.roots[2] = u.id /\ node.roots[3] = v.id
  <2> DEFINE r == <<t.id, u.id, v.id>>
  <2>1. save.roots = r
    <3> HIDE DEF r, c, save, t, u, v
    <3> QED BY <1>1 DEF r
  <2> QED BY <2>1
<1>6. ToSet(save.free) = Avail(v)
  <2> DEFINE e == v.entries  f == v.free
  <2>1. e \in Seq(Blocks) /\ f \in Seq(Blocks)
    <3> HIDE DEF v
    <3> QED BY <1>1, SaveFields
  <2>2. save.free = f \o e
    <3> HIDE DEF e, f, c, save
    <3> QED BY <1>1 DEF e, f
  <2> HIDE DEF e, f
  <2>3. ToSet(f \o e) = ToSet(f) \cup ToSet(e)  BY <2>1, JoinFacts
  <2> QED BY <2>2, <2>3 DEF Avail, e, f
<1>7. Same(v.children, d, A \ Avail(v))
  <2>1. save.children = c
    <3> HIDE DEF c, save
    <3> QED BY <1>1
  <2>2. \A b \in A \ Avail(v) : d[b] = c[b]  BY <1>6, <2>1 DEF Same
  <2>3. \A b \in A \ Avail(v) : c[b] = v.children[b]  BY <1>2 DEF Avail
  <2> QED BY <2>2, <2>3 DEF Same
<1>8. (save.saved <=> v.i = Len(ids)) /\ need \in Nat
  <2>1. save.saved = (v.i = Len(ids))
    <3> HIDE DEF c, save
    <3> QED BY <1>1
  <2> QED BY <2>1 DEF IsNode
<1> HIDE DEF c
<1>9. n <= Len(ids) /\ (\A k \in 1 .. n : node.direct[k] = ids[k]) /\ Len(ids) \in Nat
  OBVIOUS
<1>10. Same(u.children, d, A \ Avail(u)) /\ Same(t.children, d, A \ Avail(t))
  <2> HIDE DEF s, t, u, v, A
  <2>1. \A b \in Blocks \ Avail(u) : v.children[b] = u.children[b]  BY <1>1 DEF Kept
  <2>2. Avail(v) \subseteq Avail(u) /\ Avail(u) \subseteq Avail(t)  BY <1>1 DEF Kept
  <2>3. Same(u.children, d, A \ Avail(u))  BY <1>2, <1>7, <2>1, <2>2 DEF Same
  <2>4. \A b \in Blocks \ Avail(t) : u.children[b] = t.children[b]  BY <1>1 DEF Kept
  <2>5. Same(t.children, d, A \ Avail(t))  BY <1>2, <2>2, <2>3, <2>4 DEF Same
  <2> QED BY <2>3, <2>5
<1>11. /\ E \in Nat \ {0} /\ E * E \in Nat \ {0} /\ E * (E * E) \in Nat \ {0} /\ Direct \in Nat
       /\ Direct + E \in Nat /\ Direct + E + E * E \in Nat
       /\ Capacity = Direct + E + E * E + E * (E * E)
  <2>1. E \in Nat \ {0} /\ Direct \in Nat  BY SizesAssumption
  <2> DEFINE z == E * E
  <2>2. z \in Nat \ {0}  BY <2>1
  <2>3. E * E * E = E * z  BY <2>1
  <2>4. Capacity = Direct + E + z + E * z  BY <2>3 DEF Capacity
  <2> HIDE DEF z
  <2>5. E * z \in Nat \ {0} /\ Direct + E \in Nat /\ Direct + E + z \in Nat  BY <2>1, <2>2
  <2> QED BY <2>1, <2>2, <2>4, <2>5 DEF z
<1>12. Matched(ids, need, A, s, w0, Direct, 0)
  <2> HIDE DEF s, w0, A, n, need
  <2>1. w0.ids = SubSeq(ids, 1, Len(w0.ids))
    <3> DEFINE q == SubSeq(ids, 1, n)  p == w0.ids
    <3>1. n \in 0 .. Len(ids)  BY <1>4, <1>9
    <3>2. q \in Seq(Blocks) /\ Len(q) = n  BY <3>1, CutFacts
    <3>3. \A k \in 1 .. n : q[k] = ids[k]  BY <1>4, <1>9
    <3>4. p \in Seq(Blocks) /\ Len(p) = n /\ \A k \in 1 .. n : p[k] = ids[k]
      BY <1>3, <1>4, <1>9, WalkFields
    <3> HIDE DEF p, q
    <3>5. p = q  BY <3>2, <3>3, <3>4, SeqEqual
    <3> QED BY <1>4, <3>5 DEF p, q
  <2>2. /\ IsInjective(w0.entries) /\ ToSet(w0.entries) = {}
    BY <1>4, EmptyFacts
  <2>3. n <= Direct /\ n = Smaller(s.i, need)
    <3> DEFINE l == Len(ids)  i == s.i
    <3>1. i = Smaller(Direct, l) /\ l \in Nat /\ n = Smaller(Direct, need) /\ n <= l /\ Direct \in Nat
      BY <1>2, <1>9, <1>11 DEF n
    <3> HIDE DEF l, i
    <3>2. n <= Direct /\ n = Smaller(i, need)  BY <1>8, <3>1 DEF Smaller
    <3> QED BY <3>2 DEF i
  <2>4. Level(ids, need, A, s, w0, Direct)
    BY <1>2, <1>4, <2>2, <2>3 DEF Level
  <2>5. /\ w0.left + Len(w0.ids) = need /\ Len(w0.ids) <= Len(ids) /\ Len(w0.ids) <= Direct
    BY <1>4, <1>9, <2>3
  <2> QED BY <1>2, <1>4, <2>1, <2>2, <2>4, <2>5 DEF Matched
<1>13. /\ IsSaver(SaveLeaves(ids), ids, LoadLeaves, E, 1)
       /\ IsSaver(SaveDoubles(ids), ids, LoadDoubles, E * E, 2)
       /\ IsSaver(SaveTriples(ids), ids, LoadTriples, E * (E * E), 3)
       /\ IsLoader(LoadLeaves) /\ IsLoader(LoadDoubles) /\ IsLoader(LoadTriples)
  BY Savers, LeavesLoader, DoublesLoader, TriplesLoader
<1>14. /\ t = SaveLeaves(ids)[s] /\ u = SaveDoubles(ids)[t] /\ v = SaveTriples(ids)[u]
       /\ w1 = LoadLeaves[<<d, w0, t.id>>] /\ w2 = LoadDoubles[<<d, w1, u.id>>]
       /\ w3 = LoadTriples[<<d, w2, v.id>>]
  BY <1>5, Zenon DEF SaveOne, SaveTwo, SaveThree, LoadOne, LoadTwo, LoadThree
<1> HIDE DEF s, t, u, v, w0, w1, w2, w3, A, need, save
<1>15. Matched(ids, need, A, t, w1, Direct + E, 1)
  <2>1. 0 \in Nat /\ 1 \in Nat /\ 0 <= 1  BY ONLY Digits
  <2>2. Ready(ids, need, A, Direct, 0, 1, E, SaveLeaves(ids), LoadLeaves, s, w0, t, d, w1)
    BY <1>1, <1>2, <1>3, <1>8, <1>10, <1>11, <1>12, <1>13, <1>14, <2>1, Zenon DEF Ready
  <2> QED BY <2>2, NextRoot
<1>16. Matched(ids, need, A, u, w2, Direct + E + E * E, 2)
  <2> DEFINE R == Direct + E  z == E * E
  <2>1. R \in Nat /\ z \in Nat \ {0} /\ Matched(ids, need, A, t, w1, R, 1)
        /\ IsSaver(SaveDoubles(ids), ids, LoadDoubles, z, 2)
    BY <1>11, <1>13, <1>15
  <2> HIDE DEF R, z
  <2>2. 1 \in Nat /\ 2 \in Nat /\ 1 <= 2  BY ONLY Digits
  <2>3. Ready(ids, need, A, R, 1, 2, z, SaveDoubles(ids), LoadDoubles, t, w1, u, d, w2)
    BY <1>1, <1>2, <1>3, <1>8, <1>10, <1>13, <1>14, <2>1, <2>2, Zenon DEF Ready
  <2>4. Matched(ids, need, A, u, w2, R + z, 2)
    BY <2>3, NextRoot
  <2> QED BY <2>4 DEF R, z
<1> DEFINE R == Direct + E + E * E  z == E * (E * E)
<1>17. /\ Matched(ids, need, A, v, w3, R + z, 3) /\ (~w3.ok => Len(w3.ids) <= R)
       /\ (~Stopped(w3) => R < Len(ids))
  <2>1. R \in Nat /\ z \in Nat \ {0} /\ Matched(ids, need, A, u, w2, R, 2)
        /\ IsSaver(SaveTriples(ids), ids, LoadTriples, z, 3)
    BY <1>11, <1>13, <1>16
  <2> HIDE DEF R, z
  <2>2. 2 \in Nat /\ 3 \in Nat /\ 2 <= 3  BY ONLY Digits
  <2>3. Ready(ids, need, A, R, 2, 3, z, SaveTriples(ids), LoadTriples, u, w2, v, d, w3)
    BY <1>1, <1>2, <1>3, <1>7, <1>8, <1>13, <1>14, <2>1, <2>2, Zenon DEF Ready
  <2> QED BY <2>3, NextRoot
<1> DEFINE l == Len(ids)  m == Len(w3.ids)  x == w3.left
<1>18. /\ Avail(v) \subseteq A /\ x + m = need /\ m <= l /\ w3.ids = SubSeq(ids, 1, m)
       /\ IsInjective(w3.entries) /\ ToSet(w3.entries) \subseteq A \ Avail(v)
       /\ ~w3.ok => x # 0
       /\ Level(ids, need, A, v, w3, R + z) \/ Broken(ids, v, w3, 3)
  <2> HIDE DEF R, z
  <2> QED BY <1>17 DEF Matched
<1>19. m \in Nat /\ x \in Nat /\ v.i \in Nat /\ v.i <= l /\ l \in Nat /\ l <= R + z /\ R + z \in Nat
  BY <1>1, <1>3, <1>11, SaveFields, WalkFields
<1>20. ASSUME w3.ok, l < need => l <= R PROVE m = need
  <2>1. CASE x = 0
    <3> HIDE DEF m, x
    <3> QED BY <1>18, <1>19, <2>1
  <2>2. CASE x # 0
    <3>1. ~Stopped(w3)  BY <1>20, <2>2 DEF Stopped
    <3>2. R < l  BY <1>17, <3>1
    <3>3. Level(ids, need, A, v, w3, R + z)  BY <1>18, <3>1 DEF Broken
    <3>4. v.i = Smaller(R + z, l) /\ m = Smaller(v.i, need)
      <4> HIDE DEF R, z
      <4> QED BY <3>3 DEF Level
    <3>5. R \in Nat  BY <1>11
    <3> HIDE DEF R, z, m, x, l
    <3>6. v.i = l  BY <1>19, <3>4 DEF Smaller
    <3>7. ~(l < need)  BY <1>20, <3>2, <1>19, <3>5
    <3> QED BY <1>8, <1>19, <3>4, <3>6, <3>7 DEF Smaller
  <2> QED BY <2>1, <2>2
<1>21. ASSUME save.saved, need <= l
       PROVE  w3.ok /\ (need = l => ToSet(w3.entries) = A \ Avail(v))
  <2>1. v.i = l  BY <1>8, <1>21
  <2>2. Level(ids, need, A, v, w3, R + z)  BY <1>18, <2>1 DEF Broken
  <2>3. m = Smaller(v.i, need) /\ (v.i <= need => ToSet(w3.entries) = A \ Avail(v))
    BY <2>2 DEF Level
  <2>4. m = need /\ x = 0
    <3> HIDE DEF m, x, l
    <3> QED BY <1>8, <1>18, <1>19, <1>21, <2>1, <2>3 DEF Smaller
  <2>5. w3.ok  BY <1>18, <2>4
  <2>6. need = l => v.i <= need  BY <1>19, <2>1
  <2> QED BY <2>3, <2>5, <2>6
<1>22. l < need => l <= R \/ ~(l <= R)
  OBVIOUS
<1> QED BY <1>3, <1>6, <1>17, <1>18, <1>20, <1>21, <1>19 DEF save, A, need

-----------------------------------------------------------------------------
(* The invariant *)

Own(f) == ToSet(Owned(f))
Region(f) == Own(f) \cup ToSet(free)

\* What NoSharing, NothingLost and PinsExact say as long as nothing dangles.
Disjoint ==
    /\ IsInjective(free)
    /\ \A f \in Files :
          /\ IsInjective(Owned(f))
          /\ Own(f) \cap ToSet(free) = {}
          /\ \A g \in Files \ {f} : Own(f) \cap Own(g) = {}
Covered == ~leaky => Blocks = ToSet(free) \cup UNION {Own(f) : f \in Files}
Exact == \A b \in Blocks : refs[b] = IF \E f \in Files : b \in Pins(f) THEN 1 ELSE 0

\* An open file has the blocks that its size covers.  What open() would find of
\* a closed one is complete, or open() says that it is not: and then it lists no
\* more than fits in front of the third tree, which a truncated list needs not.
FileOK(f) ==
    Exists(f) =>
       /\ IsOpen(f) => inode[f].need <= Len(file[f].ids) /\ Len(file[f].ids) <= MaxData
       /\ ~IsOpen(f) =>
             /\ IsNode(inode[f])
             /\ Found(f).ok => Len(Found(f).ids) = inode[f].need
             /\ ~Found(f).ok => Len(Found(f).ids) <= Direct + E + E * E
             /\ f \notin lost => /\ Found(f).ok
                                 /\ Found(f).ids = SubSeq(stored[f], 1, inode[f].need)

Safe == TypeOK /\ Disjoint /\ Covered /\ Exact /\ \A f \in Files : FileOK(f)
IInv == ~dangling => Safe

-----------------------------------------------------------------------------
(* The blocks of a file and the free blocks *)

\* The block a, those of s, t and l: all different.
IsApart(a, s, t, l) ==
    /\ IsInjective(s) /\ IsInjective(t) /\ IsInjective(l)
    /\ a \notin ToSet(s) /\ a \notin ToSet(t) /\ a \notin ToSet(l)
    /\ ToSet(s) \cap ToSet(t) = {} /\ ToSet(s) \cap ToSet(l) = {} /\ ToSet(t) \cap ToSet(l) = {}

\* An inode, the data blocks and the entry blocks.
Listed(a, s, t) == <<a>> \o (s \o t)

\* The blocks of an inode, its data and its entry blocks in one list.
LEMMA ListFacts ==
    ASSUME NEW a \in Blocks, NEW s \in Seq(Blocks), NEW t \in Seq(Blocks)
    PROVE  /\ Listed(a, s, t) \in Seq(Blocks)
           /\ ToSet(Listed(a, s, t)) = {a} \cup ToSet(s) \cup ToSet(t)
           /\ IsInjective(Listed(a, s, t)) <=>
                                 /\ IsInjective(s) /\ IsInjective(t) /\ ToSet(s) \cap ToSet(t) = {}
                                 /\ a \notin ToSet(s) /\ a \notin ToSet(t)
<1> DEFINE o == <<a>>  p == s \o t  l == Listed(a, s, t)
<1>1. o \in Seq(Blocks) /\ ToSet(o) = {a} /\ IsInjective(o)
  BY OneFacts
<1>2. /\ p \in Seq(Blocks) /\ ToSet(p) = ToSet(s) \cup ToSet(t)
      /\ IsInjective(p) <=> IsInjective(s) /\ IsInjective(t) /\ ToSet(s) \cap ToSet(t) = {}
  BY JoinFacts
<1> HIDE DEF o, p, l
<1>3. l = o \o p
  BY DEF o, p, l, Listed
<1>4. /\ o \o p \in Seq(Blocks) /\ ToSet(o \o p) = ToSet(o) \cup ToSet(p)
      /\ IsInjective(o \o p) <=> IsInjective(o) /\ IsInjective(p) /\ ToSet(o) \cap ToSet(p) = {}
  BY <1>1, <1>2, JoinFacts
<1>5. l \in Seq(Blocks) /\ ToSet(l) = {a} \cup ToSet(s) \cup ToSet(t)
  BY <1>1, <1>2, <1>3, <1>4
<1>6. IsInjective(l) <=> IsInjective(p) /\ a \notin ToSet(p)
  BY <1>1, <1>3, <1>4
<1>7. a \notin ToSet(p) <=> a \notin ToSet(s) /\ a \notin ToSet(t)
  BY <1>2
<1> QED BY <1>2, <1>5, <1>6, <1>7 DEF l

\* The type of the inode of an existing file.
LEMMA NodeFacts ==
    ASSUME TypeOK, NEW f \in Files, Exists(f)
    PROVE  /\ inode[f] \in Node /\ inode[f].id \in Blocks /\ inode[f].need \in Nat
           /\ inode[f].need <= MaxData /\ MaxData \in Nat /\ MaxData <= Capacity
           /\ inode[f].roots \in [1 .. 3 -> 0 .. N] /\ inode[f].direct \in [1 .. Direct -> 0 .. N]
<1>1. inode[f] \in Node
  BY DEF TypeOK, Exists
<1>2. Capacity \in Nat
  <2>1. Direct \in Nat /\ E \in Nat  BY SizesAssumption
  <2> DEFINE y == E * E  z == E * E * E
  <2>2. y \in Nat /\ z \in Nat  BY <2>1
  <2>3. Capacity = Direct + E + y + z  BY DEF Capacity
  <2> HIDE DEF y, z
  <2> QED BY <2>1, <2>2, <2>3
<1>3. MaxData \in Nat /\ MaxData <= Capacity
  BY <1>2, SizesAssumption
<1> QED BY <1>1, <1>3 DEF Node

\* Of the counters of its own and the free blocks, a file knows the values.
LEMMA LocalRefs ==
    ASSUME Disjoint, Exact, NEW f \in Files, \A g \in Files : Pins(g) \subseteq Own(g),
           NEW b \in Blocks, b \in Region(f)
    PROVE  refs[b] = IF b \in Pins(f) THEN 1 ELSE 0
BY DEF Disjoint, Exact, Region

\* A file holds references only to its own blocks.
LEMMA PinsOwned ==
    ASSUME TypeOK, NEW f \in Files
    PROVE  Pins(f) \subseteq Own(f)
<1>1. CASE ~IsOpen(f)
  BY <1>1 DEF Pins
<1>2. CASE IsOpen(f)
  <2> DEFINE a == inode[f].id  s == file[f].ids  t == file[f].entries
  <2>1. a \in Blocks  BY <1>2, NodeFacts DEF IsOpen
  <2>2. file[f] \in Fields  BY <1>2 DEF IsOpen, TypeOK
  <2>3. s \in Seq(Blocks) /\ t \in Seq(Blocks)  BY <2>2 DEF Fields
  <2>4. Owned(f) = Listed(a, s, t)  BY <1>2 DEF Owned, IsOpen, Listed
  <2> HIDE DEF a, s, t
  <2>5. Own(f) = {a} \cup ToSet(s) \cup ToSet(t)  BY <2>1, <2>3, <2>4, ListFacts DEF Own
  <2> QED BY <1>2, <2>5 DEF Pins, a, s
<1> QED BY <1>1, <1>2

\* What the invariant says of one open file and the free list.
LEMMA OpenFacts ==
    ASSUME Safe, NEW f \in Files, IsOpen(f)
    PROVE  LET a == inode[f].id
               h == file[f]
           IN  /\ a \in Blocks /\ h \in Fields /\ h.ids \in Seq(Blocks) /\ h.entries \in Seq(Blocks)
               /\ h.cached \subseteq Blocks /\ Len(h.ids) \in Nat
               /\ free \in Seq(Blocks)
               /\ IsApart(a, h.ids, h.entries, free)
               /\ Own(f) = {a} \cup ToSet(h.ids) \cup ToSet(h.entries)
               /\ Region(f) = {a} \cup ToSet(h.ids) \cup ToSet(h.entries) \cup ToSet(free)
               /\ Region(f) \subseteq Blocks
               /\ inode[f].need <= Len(h.ids) /\ Len(h.ids) <= MaxData
               /\ Pins(f) = (h.cached \cap ToSet(h.ids)) \cup {a}
               /\ \A b \in Region(f) : refs[b] = IF b \in Pins(f) THEN 1 ELSE 0
<1> DEFINE a == inode[f].id  h == file[f]  s == h.ids  t == h.entries
<1>0. TypeOK /\ Disjoint /\ Exact /\ FileOK(f)
  BY DEF Safe
<1>1. a \in Blocks
  BY <1>0, NodeFacts DEF IsOpen
<1>2. h \in Fields
  BY <1>0 DEF IsOpen, TypeOK
<1>3. s \in Seq(Blocks) /\ t \in Seq(Blocks) /\ h.cached \subseteq Blocks
  BY <1>2 DEF Fields
<1>4. Owned(f) = Listed(a, s, t)
  BY DEF Owned, IsOpen, Listed
<1>5. free \in Seq(Blocks) /\ IsInjective(free) /\ ToSet(free) \subseteq Blocks
  <2>1. free \in Seq(Blocks)  BY <1>0 DEF TypeOK
  <2> QED BY <1>0, <2>1, ToSetType DEF Disjoint
<1>6. ToSet(s) \subseteq Blocks /\ ToSet(t) \subseteq Blocks
  BY <1>3, ToSetType
<1>7. s = h.ids /\ t = h.entries /\ Len(s) \in Nat
  BY <1>3
<1>8. inode[f].need <= Len(h.ids) /\ Len(h.ids) <= MaxData
  BY <1>0 DEF FileOK, IsOpen
<1>9. Pins(f) = (h.cached \cap ToSet(h.ids)) \cup {a}
  BY DEF Pins
<1> HIDE DEF a, s, t, h
<1>10. /\ Own(f) = {a} \cup ToSet(s) \cup ToSet(t)
       /\ IsInjective(Owned(f)) <=> /\ IsInjective(s) /\ IsInjective(t) /\ ToSet(s) \cap ToSet(t) = {}
                                    /\ a \notin ToSet(s) /\ a \notin ToSet(t)
  BY <1>1, <1>3, <1>4, ListFacts DEF Own
<1>11. IsInjective(Owned(f)) /\ Own(f) \cap ToSet(free) = {}
  BY <1>0 DEF Disjoint
<1>12. IsApart(a, s, t, free)
  BY <1>5, <1>10, <1>11 DEF IsApart
<1>13. Region(f) = {a} \cup ToSet(s) \cup ToSet(t) \cup ToSet(free) /\ Region(f) \subseteq Blocks
  BY <1>1, <1>5, <1>6, <1>10 DEF Region
<1>14. \A b \in Region(f) : refs[b] = IF b \in Pins(f) THEN 1 ELSE 0
  BY <1>0, <1>13, LocalRefs, PinsOwned
<1> QED BY <1>1, <1>2, <1>3, <1>5, <1>7, <1>8, <1>9, <1>10, <1>12, <1>13, <1>14 DEF a, h

\* What the invariant says of one closed file: what open() finds.
LEMMA ClosedFacts ==
    ASSUME Safe, NEW f \in Files, Exists(f), ~IsOpen(f)
    PROVE  LET a == inode[f].id
               F == Found(f)
           IN  /\ a \in Blocks /\ F \in Walks /\ F.ids \in Seq(Blocks) /\ F.entries \in Seq(Blocks)
               /\ Len(F.ids) \in Nat /\ F.left \in Nat /\ F.left + Len(F.ids) = inode[f].need
               /\ free \in Seq(Blocks)
               /\ IsApart(a, F.ids, F.entries, free)
               /\ Own(f) = {a} \cup ToSet(F.ids) \cup ToSet(F.entries)
               /\ Region(f) = {a} \cup ToSet(F.ids) \cup ToSet(F.entries) \cup ToSet(free)
               /\ Region(f) \subseteq Blocks
               /\ Smaller(Direct, inode[f].need) <= Len(F.ids) /\ Len(F.ids) <= MaxData
               /\ Pins(f) = {} /\ \A b \in Region(f) : refs[b] = 0
               /\ \A d \in Maps : Same(children, d, ToSet(F.entries)) =>
                                     LoadEntries(d, inode[f]) = F
<1> DEFINE a == inode[f].id  F == Found(f)  s == F.ids  t == F.entries
<1>0. TypeOK /\ Disjoint /\ Exact /\ FileOK(f)
  BY DEF Safe
<1>1. a \in Blocks /\ inode[f].need \in Nat /\ inode[f].need <= MaxData /\ MaxData \in Nat
  BY <1>0, NodeFacts
<1>2. children \in Maps /\ IsNode(inode[f])
  BY <1>0 DEF TypeOK, Maps, FileOK
<1>3. /\ F \in Walks /\ F.left + Len(F.ids) = inode[f].need
      /\ Smaller(Direct, inode[f].need) <= Len(F.ids)
      /\ \A d \in Maps : Same(children, d, ToSet(F.entries)) => LoadEntries(d, inode[f]) = F
  BY <1>2, LoadFacts DEF Found
<1> HIDE DEF F
<1>4. s \in Seq(Blocks) /\ t \in Seq(Blocks) /\ Len(s) \in Nat /\ F.left \in Nat
  BY <1>3, WalkFields
<1>5. Len(F.ids) <= MaxData
  <2> DEFINE l == Len(F.ids)  x == F.left  n == inode[f].need
  <2>1. l \in Nat /\ x \in Nat /\ x + l = n /\ n \in Nat /\ n <= MaxData /\ MaxData \in Nat
    BY <1>1, <1>3, <1>4
  <2> HIDE DEF l, x, n
  <2>2. l <= MaxData  BY <2>1
  <2> QED BY <2>2 DEF l
<1>6. Owned(f) = Listed(a, s, t)
  BY DEF Owned, F, Listed
<1>7. free \in Seq(Blocks) /\ IsInjective(free) /\ ToSet(free) \subseteq Blocks
  <2>1. free \in Seq(Blocks)  BY <1>0 DEF TypeOK
  <2> QED BY <1>0, <2>1, ToSetType DEF Disjoint
<1>8. ToSet(s) \subseteq Blocks /\ ToSet(t) \subseteq Blocks
  BY <1>4, ToSetType
<1>9. Pins(f) = {}
  BY DEF Pins
<1>10. s = F.ids /\ t = F.entries
  OBVIOUS
<1> HIDE DEF a, s, t
<1>11. /\ Own(f) = {a} \cup ToSet(s) \cup ToSet(t)
       /\ IsInjective(Owned(f)) <=> /\ IsInjective(s) /\ IsInjective(t) /\ ToSet(s) \cap ToSet(t) = {}
                                    /\ a \notin ToSet(s) /\ a \notin ToSet(t)
  <2> DEFINE l == Listed(a, s, t)
  <2>1. a \in Blocks /\ s \in Seq(Blocks) /\ t \in Seq(Blocks)
    BY <1>1, <1>4
  <2>2. ToSet(l) = {a} \cup ToSet(s) \cup ToSet(t)
    BY ONLY <2>1, ListFacts
  <2>3. IsInjective(l) <=> /\ IsInjective(s) /\ IsInjective(t) /\ ToSet(s) \cap ToSet(t) = {}
                           /\ a \notin ToSet(s) /\ a \notin ToSet(t)
    BY ONLY <2>1, ListFacts
  <2>4. Owned(f) = l
    BY <1>6
  <2> HIDE DEF l
  <2>5. Own(f) = ToSet(l)
    BY <2>4 DEF Own
  <2> QED BY <2>2, <2>3, <2>4, <2>5
<1>12. IsInjective(Owned(f)) /\ Own(f) \cap ToSet(free) = {}
  BY <1>0 DEF Disjoint
<1>13. IsApart(a, s, t, free)
  BY <1>7, <1>11, <1>12 DEF IsApart
<1>14. Region(f) = {a} \cup ToSet(s) \cup ToSet(t) \cup ToSet(free) /\ Region(f) \subseteq Blocks
  BY <1>1, <1>7, <1>8, <1>11 DEF Region
<1>15. \A b \in Region(f) : refs[b] = 0
  BY <1>0, <1>9, <1>14, LocalRefs, PinsOwned
<1> QED BY <1>1, <1>3, <1>4, <1>5, <1>7, <1>9, <1>10, <1>11, <1>13, <1>14, <1>15 DEF a, F

-----------------------------------------------------------------------------
(* Steps of one file *)

\* The other files, and the blocks that neither are of f nor were free, stay.
Others(f) ==
    /\ \A g \in Files \ {f} :
          /\ inode'[g] = inode[g] /\ file'[g] = file[g] /\ stored'[g] = stored[g]
          /\ g \in lost' <=> g \in lost
    /\ \A b \in Blocks \ Region(f) : children'[b] = children[b] /\ refs'[b] = refs[b]

\* Such a step changes nothing for another file, closed ones included.
LEMMA OtherFile ==
    ASSUME Safe, TypeOK', NEW f \in Files, Others(f), NEW g \in Files \ {f}
    PROVE  Owned(g)' = Owned(g) /\ Pins(g)' = Pins(g) /\ FileOK(g)'
<1>1. inode'[g] = inode[g] /\ file'[g] = file[g] /\ stored'[g] = stored[g] /\ (g \in lost' <=> g \in lost)
  BY DEF Others
<1>2. (Exists(g)' <=> Exists(g)) /\ (IsOpen(g)' <=> IsOpen(g))
  BY <1>1 DEF Exists, IsOpen
<1>3. Pins(g)' = Pins(g)
  BY <1>1, <1>2 DEF Pins
<1>4. FileOK(g)
  BY DEF Safe
<1>5. CASE ~Exists(g)
  BY <1>2, <1>3, <1>5 DEF Owned, FileOK
<1>6. CASE IsOpen(g)
  <2>1. Owned(g)' = Owned(g)  BY <1>1, <1>2, <1>6 DEF Owned, IsOpen
  <2>2. FileOK(g)'  BY <1>1, <1>2, <1>4, <1>6 DEF FileOK, IsOpen
  <2> QED BY <1>3, <2>1, <2>2
<1>7. CASE Exists(g) /\ ~IsOpen(g)
  <2> DEFINE F == Found(g)
  <2>1. /\ Own(g) = {inode[g].id} \cup ToSet(F.ids) \cup ToSet(F.entries)
        /\ \A d \in Maps : Same(children, d, ToSet(F.entries)) => LoadEntries(d, inode[g]) = F
    BY <1>7, ClosedFacts
  <2>2. Own(g) \cap Region(f) = {}
    BY DEF Safe, Disjoint, Region
  <2>3. Own(g) \subseteq Blocks
    <3>1. Region(g) \subseteq Blocks  BY <1>7, ClosedFacts
    <3> QED BY <3>1 DEF Region
  <2>4. children' \in Maps
    BY DEF TypeOK, Maps
  <2> HIDE DEF F
  <2>5. Same(children, children', ToSet(F.entries))
    BY <2>1, <2>2, <2>3 DEF Same, Others
  <2>6. Found(g)' = F
    <3>1. LoadEntries(children', inode[g]) = F  BY <2>1, <2>4, <2>5
    <3> QED BY <1>1, <3>1 DEF Found
  <2>7. Found(g)' = Found(g)
    BY <2>6 DEF F
  <2>8. Owned(g)' = Owned(g)
    BY <1>1, <1>2, <1>7, <2>7 DEF Owned
  <2>9. FileOK(g)'
    BY <1>1, <1>2, <1>4, <1>7, <2>7 DEF FileOK
  <2> QED BY <1>3, <2>8, <2>9
<1> QED BY <1>5, <1>6, <1>7 DEF IsOpen

\* If what f and the free list have is what they had or a part of it, and f has
\* its references, everything is well.
LEMMA FileStep ==
    ASSUME Safe, TypeOK', NEW f \in Files, Others(f),
           IsInjective(free'), IsInjective(Owned(f)'), Own(f)' \cap ToSet(free') = {},
           Own(f)' \cup ToSet(free') \subseteq Region(f), Region(f) \subseteq Blocks,
           ~leaky' => ~leaky /\ Own(f)' \cup ToSet(free') = Region(f),
           Pins(f)' \subseteq Own(f)',
           \A b \in Region(f) : refs'[b] = IF b \in Pins(f)' THEN 1 ELSE 0,
           FileOK(f)'
    PROVE  Safe'
<1>1. \A g \in Files \ {f} :
         Owned(g)' = Owned(g) /\ Pins(g)' = Pins(g) /\ FileOK(g)' /\ Own(g)' = Own(g)
  BY OtherFile DEF Own
<1>2. \A g \in Files \ {f} : Own(g) \cap Region(f) = {}
  BY DEF Safe, Disjoint, Region
<1>3. Disjoint'
  <2>1. ASSUME NEW g \in Files
        PROVE  /\ IsInjective(Owned(g)') /\ Own(g)' \cap ToSet(free') = {}
               /\ \A k \in Files \ {g} : Own(g)' \cap Own(k)' = {}
    <3>1. CASE g = f
      <4>1. \A k \in Files \ {g} : Own(g)' \cap Own(k)' = {}  BY <1>1, <1>2, <3>1
      <4> QED BY <3>1, <4>1
    <3>2. CASE g # f
      <4>1. IsInjective(Owned(g))  BY DEF Safe, Disjoint
      <4>2. Own(g)' \cap ToSet(free') = {} /\ Own(g)' \cap Own(f)' = {}  BY <1>1, <1>2, <3>2
      <4>3. ASSUME NEW k \in Files \ {g} PROVE Own(g)' \cap Own(k)' = {}
        <5>1. CASE k = f  BY <4>2, <5>1
        <5>2. CASE k # f
          <6>1. Own(g) \cap Own(k) = {}  BY DEF Safe, Disjoint
          <6> QED BY <1>1, <3>2, <5>2, <6>1
        <5> QED BY <5>1, <5>2
      <4> QED BY <1>1, <3>2, <4>1, <4>2, <4>3
    <3> QED BY <3>1, <3>2
  <2> QED BY <2>1 DEF Disjoint
<1>4. Covered'
  <2> SUFFICES ASSUME ~leaky' PROVE Blocks = ToSet(free') \cup UNION {Own(g)' : g \in Files}
    BY DEF Covered
  <2>1. Blocks = ToSet(free) \cup UNION {Own(g) : g \in Files}
    BY DEF Safe, Covered
  <2>2. Own(f)' \cup ToSet(free') = Own(f) \cup ToSet(free)
    BY DEF Region
  <2>3. ASSUME NEW b \in Blocks PROVE b \in ToSet(free') \cup UNION {Own(g)' : g \in Files}
    <3>1. CASE b \in Own(f) \cup ToSet(free)  BY <2>2, <3>1
    <3>2. CASE b \notin Own(f) \cup ToSet(free)
      <4>1. PICK g \in Files : b \in Own(g)  BY <2>1, <3>2
      <4>2. g # f  BY <3>2, <4>1
      <4> QED BY <1>1, <4>1, <4>2
    <3> QED BY <3>1, <3>2
  <2>4. \A g \in Files : Own(g)' \subseteq Blocks
    <3>1. \A g \in Files \ {f} : Own(g) \subseteq Blocks  BY <2>1
    <3> QED BY <1>1, <3>1
  <2>5. ToSet(free') \subseteq Blocks
    OBVIOUS
  <2> QED BY <2>3, <2>4, <2>5
<1>5. Exact'
  <2> SUFFICES ASSUME NEW b \in Blocks
               PROVE  refs'[b] = IF \E g \in Files : b \in Pins(g)' THEN 1 ELSE 0
    BY DEF Exact
  <2>1. \A g \in Files : Pins(g) \subseteq Own(g)
    BY PinsOwned DEF Safe
  <2>2. CASE b \in Region(f)
    <3>1. \A g \in Files \ {f} : b \notin Pins(g)'  BY <1>1, <1>2, <2>1, <2>2
    <3>2. (\E g \in Files : b \in Pins(g)') <=> b \in Pins(f)'  BY <3>1
    <3> QED BY <2>2, <3>2
  <2>3. CASE b \notin Region(f)
    <3>1. b \notin Pins(f) /\ b \notin Pins(f)'  BY <2>1, <2>3 DEF Region
    <3>2. (\E g \in Files : b \in Pins(g)') <=> (\E g \in Files : b \in Pins(g))  BY <1>1, <3>1
    <3>3. refs'[b] = refs[b]  BY <2>3 DEF Others
    <3>4. refs[b] = IF \E g \in Files : b \in Pins(g) THEN 1 ELSE 0  BY DEF Safe, Exact
    <3> QED BY <3>2, <3>3, <3>4
  <2> QED BY <2>2, <2>3
<1>6. \A g \in Files : FileOK(g)'
  BY <1>1
<1> QED BY <1>3, <1>4, <1>5, <1>6 DEF Safe

\* A step after which the file is open.
LEMMA OpenStep ==
    ASSUME Safe, TypeOK', NEW f \in Files, Others(f), Exists(f)', file'[f] # Closed,
           Region(f) \subseteq Blocks,
           IsApart(inode'[f].id, file'[f].ids, file'[f].entries, free'),
           LET R == {inode'[f].id} \cup ToSet(file'[f].ids) \cup ToSet(file'[f].entries)
                       \cup ToSet(free')
           IN  R \subseteq Region(f) /\ (~leaky' => ~leaky /\ R = Region(f)),
           \A b \in Region(f) :
              refs'[b] = IF b \in (file'[f].cached \cap ToSet(file'[f].ids)) \cup {inode'[f].id}
                         THEN 1 ELSE 0,
           inode'[f].need <= Len(file'[f].ids), Len(file'[f].ids) <= MaxData
    PROVE  Safe'
<1> DEFINE a == inode'[f].id  s == file'[f].ids  t == file'[f].entries  l == Owned(f)'
<1>1. IsOpen(f)'
  BY DEF IsOpen
<1>2. a \in Blocks /\ file'[f] \in Fields /\ s \in Seq(Blocks) /\ t \in Seq(Blocks)
  <2>1. inode'[f] \in Node /\ file'[f] \in Fields  BY DEF TypeOK, Exists
  <2> QED BY <2>1 DEF Node, Fields
<1>3. l = Listed(a, s, t)
  BY <1>1 DEF Owned, IsOpen, Listed
<1>4. Pins(f)' = (file'[f].cached \cap ToSet(s)) \cup {a}
  BY <1>1 DEF Pins
<1>5. FileOK(f)'
  BY <1>1 DEF FileOK
<1>6. Own(f)' = ToSet(l)
  BY DEF Own
<1> DEFINE P == (file'[f].cached \cap ToSet(s)) \cup {a}
           R == {a} \cup ToSet(s) \cup ToSet(t) \cup ToSet(free')
<1>7. /\ R \subseteq Region(f) /\ (~leaky' => ~leaky /\ R = Region(f))
      /\ IsApart(a, s, t, free') /\ \A b \in Region(f) : refs'[b] = IF b \in P THEN 1 ELSE 0
  OBVIOUS
<1>8. P \subseteq {a} \cup ToSet(s)
  OBVIOUS
<1> HIDE DEF a, s, t, l
<1>9. /\ ToSet(l) = {a} \cup ToSet(s) \cup ToSet(t)
      /\ IsInjective(l) <=> /\ IsInjective(s) /\ IsInjective(t) /\ ToSet(s) \cap ToSet(t) = {}
                            /\ a \notin ToSet(s) /\ a \notin ToSet(t)
  <2> DEFINE m == Listed(a, s, t)
  <2>1. ToSet(m) = {a} \cup ToSet(s) \cup ToSet(t)
    BY <1>2, ListFacts
  <2>2. IsInjective(m) <=> /\ IsInjective(s) /\ IsInjective(t) /\ ToSet(s) \cap ToSet(t) = {}
                           /\ a \notin ToSet(s) /\ a \notin ToSet(t)
    BY <1>2, ListFacts
  <2> HIDE DEF m
  <2>3. l = m  BY <1>3 DEF m
  <2> QED BY <2>1, <2>2, <2>3
<1>10. IsInjective(free') /\ IsInjective(l) /\ ToSet(l) \cap ToSet(free') = {}
  BY <1>7, <1>9 DEF IsApart
<1>11. Own(f)' \cup ToSet(free') = R
  BY <1>6, <1>9
<1> HIDE DEF P, R
<1>12. Pins(f)' = P /\ P \subseteq Own(f)'
  <2>1. Pins(f)' = P  BY <1>4 DEF P
  <2>2. P \subseteq Own(f)'  BY <1>6, <1>8, <1>9
  <2> QED BY <2>1, <2>2
<1>13. IsInjective(Owned(f)')
  BY <1>10 DEF l
<1>14. Own(f)' \cap ToSet(free') = {}
  BY <1>6, <1>10
<1> QED BY <1>5, <1>7, <1>10, <1>11, <1>12, <1>13, <1>14, FileStep

-----------------------------------------------------------------------------
(* The first k blocks of a list, and those behind *)

\* A list of blocks, cut in two.
LEMMA PrefixFacts ==
    ASSUME NEW s \in Seq(Blocks), NEW k \in 0 .. Len(s)
    PROVE  LET p == SubSeq(s, 1, k)
               r == SubSeq(s, k + 1, Len(s))
           IN  /\ p \in Seq(Blocks) /\ Len(p) = k /\ r \in Seq(Blocks) /\ Len(r) = Len(s) - k
               /\ ToSet(s) = ToSet(p) \cup ToSet(r)
               /\ IsInjective(s) => /\ IsInjective(p) /\ IsInjective(r)
                                    /\ ToSet(p) \cap ToSet(r) = {}
               /\ k = Len(s) => p = s
<1> DEFINE p == SubSeq(s, 1, k)  r == SubSeq(s, k + 1, Len(s))
<1>1. /\ p \in Seq(Blocks) /\ Len(p) = k /\ r \in Seq(Blocks) /\ Len(r) = Len(s) - k
      /\ s = p \o r
  BY CutFacts, ZenonT(60)
<1>2. k = Len(s) => p = s
  OBVIOUS
<1> HIDE DEF p, r
<1>3. /\ ToSet(p \o r) = ToSet(p) \cup ToSet(r)
      /\ IsInjective(p \o r) => IsInjective(p) /\ IsInjective(r) /\ ToSet(p) \cap ToSet(r) = {}
  BY <1>1, JoinFacts
<1>4. /\ ToSet(s) = ToSet(p) \cup ToSet(r)
      /\ IsInjective(s) => IsInjective(p) /\ IsInjective(r) /\ ToSet(p) \cap ToSet(r) = {}
  BY <1>1, <1>3
<1> QED BY <1>1, <1>2, <1>4 DEF p, r

-----------------------------------------------------------------------------
(* The reference counters *)

Counts == [Blocks -> 0 .. RefMax]

\* What allocate, free_block and load leave in the counters.
LEMMA CountsFacts ==
    ASSUME NEW counts \in Counts, NEW G, NEW V
    PROVE  /\ Counted(counts, G, V) \in Counts
           /\ \A b \in Blocks : Counted(counts, G, V)[b] =
                 IF b \in G THEN 1 ELSE IF b \in V THEN 0 ELSE counts[b]
           /\ Referenced(counts, G) \in Counts
           /\ \A b \in Blocks : b \in G /\ counts[b] = 0 => Referenced(counts, G)[b] = 1
           /\ \A b \in Blocks : b \notin G => Referenced(counts, G)[b] = counts[b]
<1>1. RefMax \in Nat \ {0} /\ 0 \in 0 .. RefMax /\ 1 \in 0 .. RefMax
  BY SizesAssumption
<1>2. \A b \in Blocks : counts[b] \in 0 .. RefMax
  BY DEF Counts
<1>3. \A b \in Blocks : (counts[b] + 1) % (RefMax + 1) \in 0 .. RefMax
  <2> TAKE b \in Blocks
  <2> DEFINE x == counts[b] + 1  y == RefMax + 1
  <2>1. x \in Nat /\ y \in Nat /\ y > 0 /\ y - 1 = RefMax  BY <1>1, <1>2
  <2> HIDE DEF x, y
  <2>2. x % y \in 0 .. y - 1  BY <2>1
  <2> QED BY <2>1, <2>2 DEF x, y
<1>4. (0 + 1) % (RefMax + 1) = 1
  <2> DEFINE y == RefMax + 1
  <2>1. y \in Nat /\ 1 < y  BY <1>1
  <2> HIDE DEF y
  <2>2. 1 % y = 1  BY <2>1
  <2> QED BY <2>2 DEF y
<1>5. /\ Counted(counts, G, V) \in Counts
      /\ \A b \in Blocks : Counted(counts, G, V)[b] =
            IF b \in G THEN 1 ELSE IF b \in V THEN 0 ELSE counts[b]
  BY <1>1, <1>2 DEF Counted, Counts
<1> DEFINE r == Referenced(counts, G)
<1>6. r = [b \in Blocks |-> IF b \in G THEN (counts[b] + 1) % (RefMax + 1) ELSE counts[b]]
  BY DEF Referenced
<1> HIDE DEF r
<1>7. r \in Counts
  BY <1>2, <1>3, <1>6 DEF Counts
<1>8. \A b \in Blocks : b \in G /\ counts[b] = 0 => r[b] = 1
  BY <1>4, <1>6
<1>9. \A b \in Blocks : b \notin G => r[b] = counts[b]
  BY <1>6
<1> QED BY <1>5, <1>7, <1>8, <1>9 DEF r

\* unref_block on blocks that are referenced once.
LEMMA ReleasedFacts ==
    ASSUME NEW counts \in Counts, NEW B \in SUBSET Blocks, \A b \in B : counts[b] = 1,
           NEW r \in Released(counts, B)
    PROVE  /\ r \in Counts
           /\ \A b \in Blocks : r[b] = IF b \in B THEN 0 ELSE counts[b]
<1>1. \A b \in Blocks : counts[b] \in 0 .. RefMax
  BY DEF Counts
<1>2. 0 \in 0 .. RefMax
  BY SizesAssumption
<1>3. PICK idle \in SUBSET {b \in B : counts[b] = 0} :
         r = [b \in Blocks |-> IF b \notin B THEN counts[b]
                               ELSE IF counts[b] > 0 THEN counts[b] - 1
                               ELSE IF b \in idle THEN RefMax ELSE 0]
  BY DEF Released
<1>4. \A b \in Blocks : r[b] = IF b \in B THEN 0 ELSE counts[b]
  BY <1>3
<1>5. r \in Counts
  <2>1. r = [b \in Blocks |-> r[b]]  BY <1>3
  <2> QED BY <1>1, <1>2, <1>4, <2>1 DEF Counts
<1> QED BY <1>4, <1>5

-----------------------------------------------------------------------------
(* close() *)

\* node lists what the save of ids wrote, and d still has the trees it built.
Lists(node, d, ids, entries) ==
    /\ ids \in Seq(Blocks) /\ entries \in Seq(Blocks) /\ Len(ids) <= Capacity
    /\ free \in Seq(Blocks) /\ children \in Maps /\ IsInjective(entries \o free)
    /\ IsNode(node) /\ node.roots = SaveEntries(ids, entries).roots
    /\ Smaller(Direct, node.need) <= Len(ids)
    /\ \A k \in 1 .. Smaller(Direct, node.need) : node.direct[k] = ids[k]
    /\ d \in Maps
    /\ Same(SaveEntries(ids, entries).children, d,
            (ToSet(entries) \cup ToSet(free)) \ ToSet(SaveEntries(ids, entries).free))

\* What the load of the inode node then finds of those ids, with need of them
\* asked for, A the entry blocks and the free blocks before the save.
Returns(F, need, ids, A, save) ==
    /\ F \in Walks /\ IsInjective(F.entries)
    /\ ToSet(F.entries) \subseteq A \ ToSet(save.free)
    /\ Len(F.ids) <= Len(ids) /\ F.ids = SubSeq(ids, 1, Len(F.ids))
    /\ ~F.ok => Len(F.ids) <= Direct + E + E * E
    /\ F.ok /\ (Len(ids) < need => Len(ids) <= Direct + E + E * E) => Len(F.ids) = need
    /\ save.saved /\ need <= Len(ids) => F.ok
    /\ save.saved /\ need = Len(ids) => ToSet(F.entries) = A \ ToSet(save.free)

\* SavedLoads, with its conditions in one formula.
LEMMA ListedLoads ==
    ASSUME NEW node, NEW d, NEW ids, NEW entries, Lists(node, d, ids, entries)
    PROVE  Returns(LoadEntries(d, node), node.need, ids, ToSet(entries) \cup ToSet(free),
                   SaveEntries(ids, entries))
BY SavedLoads DEF Lists, Returns

\* The inode that close() leaves.
LEMMA CloseNode ==
    ASSUME TypeOK, NEW f \in Files, Exists(f), NEW h \in Fields, NEW counts,
           CloseWith(f, h, counts), Smaller(Direct, inode[f].need) <= Len(h.ids),
           SaveEntries(h.ids, h.entries).roots \in [1 .. 3 -> 0 .. N]
    PROVE  /\ inode'[f] \in Node /\ inode'[f].id = inode[f].id /\ inode'[f].need = inode[f].need
           /\ inode'[f].roots = SaveEntries(h.ids, h.entries).roots
           /\ IsNode(inode'[f])
           /\ \A k \in 1 .. Smaller(Direct, inode[f].need) : inode'[f].direct[k] = h.ids[k]
           /\ inode' \in [Files -> Node \cup {NoInode}]
           /\ \A g \in Files \ {f} : inode'[g] = inode[g]
<1> DEFINE node == inode[f]  q == SaveEntries(h.ids, h.entries).roots  s == h.ids
           e == [k \in 1 .. Direct |-> IF k <= Len(s) THEN s[k] ELSE node.direct[k]]
           n == Smaller(Direct, node.need)  new == [node EXCEPT !.roots = q, !.direct = e]
<1>1. /\ node \in Node /\ node.id \in Blocks /\ node.need \in Nat
      /\ node.direct \in [1 .. Direct -> 0 .. N]
  BY NodeFacts
<1>2. s \in Seq(Blocks) /\ Len(s) \in Nat /\ \A k \in 1 .. Len(s) : s[k] \in Blocks /\ s[k] \in 0 .. N
  <2>1. s \in Seq(Blocks)  BY DEF Fields
  <2>2. \A k \in 1 .. Len(s) : s[k] \in Blocks  BY <2>1
  <2> QED BY <2>1, <2>2, SizesAssumption, SMTT(30) DEF Blocks
<1>3. inode' = [inode EXCEPT ![f] = new]
  <2>1. inode \in [Files -> Node \cup {NoInode}]  BY DEF TypeOK
  <2>2. inode' = [inode EXCEPT ![f].roots = q,
                               ![f].direct = [k \in 1 .. Direct |->
                                                IF k <= Len(h.ids) THEN h.ids[k] ELSE @[k]]]
    BY DEF CloseWith
  <2> QED BY <1>1, <2>1, <2>2 DEF Node
<1> HIDE DEF e, q
<1>4. Direct \in Nat /\ n \in Nat /\ n <= Direct /\ n <= Len(s)
  <2>1. Direct \in Nat  BY SizesAssumption
  <2> QED BY <1>1, <2>1, SmallerFacts
<1>5. /\ e \in [1 .. Direct -> 0 .. N]
      /\ \A k \in 1 .. n : e[k] = s[k] /\ e[k] \in Blocks
  <2>1. \A k \in 1 .. Direct : (IF k <= Len(s) THEN s[k] ELSE node.direct[k]) \in 0 .. N
    <3> TAKE k \in 1 .. Direct
    <3>1. k <= Len(s) => k \in 1 .. Len(s)  BY <1>2, <1>4
    <3> QED BY <1>1, <1>2, <3>1
  <2>2. e \in [1 .. Direct -> 0 .. N]  BY <2>1 DEF e
  <2>3. \A k \in 1 .. n : k \in 1 .. Direct /\ k <= Len(s) /\ k \in 1 .. Len(s)  BY <1>2, <1>4
  <2>4. \A k \in 1 .. n : e[k] = s[k]  BY <2>3 DEF e
  <2> QED BY <1>2, <2>2, <2>3, <2>4
<1>6. q \in [1 .. 3 -> 0 .. N]
  BY DEF q
<1>7. new \in Node /\ new.id = node.id /\ new.need = node.need /\ new.roots = q /\ new.direct = e
  <2> HIDE DEF node, n
  <2>1. new \in Node  BY <1>1, <1>5, <1>6 DEF Node
  <2> QED BY <1>1, <2>1 DEF Node
<1> HIDE DEF new, n
<1>8. inode'[f] = new /\ inode' \in [Files -> Node \cup {NoInode}]
      /\ \A g \in Files \ {f} : inode'[g] = inode[g]
  <2>1. inode \in [Files -> Node \cup {NoInode}]  BY DEF TypeOK
  <2> HIDE DEF node
  <2> QED BY <1>3, <1>7, <2>1
<1>9. IsNode(new)
  BY <1>1, <1>5, <1>6, <1>7 DEF IsNode, n
<1> QED BY <1>5, <1>7, <1>8, <1>9 DEF n, q

\* A close() of the fields h keeps everything well, saved or not.
LEMMA CloseStep ==
    ASSUME Safe, ~dangling', NEW f \in Files, Exists(f), NEW h \in Fields, NEW counts \in Counts,
           IsApart(inode[f].id, h.ids, h.entries, free),
           Region(f) = {inode[f].id} \cup ToSet(h.ids) \cup ToSet(h.entries) \cup ToSet(free),
           Len(h.ids) <= MaxData, Smaller(Direct, inode[f].need) <= Len(h.ids),
           Len(h.ids) < inode[f].need => Len(h.ids) <= Direct + E + E * E,
           \A b \in Blocks :
              counts[b] = IF b \notin Region(f) THEN refs[b]
                          ELSE IF b \in (h.cached \cap ToSet(h.ids)) \cup {inode[f].id} THEN 1 ELSE 0,
           CloseWith(f, h, counts),
           stored' \in [Files -> Seq(Blocks)], \A g \in Files \ {f} : stored'[g] = stored[g],
           f \notin lost => inode[f].need <= Len(h.ids) /\ stored'[f] = h.ids
    PROVE  Safe'
<1> DEFINE a == inode[f].id  s == h.ids  t == h.entries  need == inode[f].need
           save == SaveEntries(h.ids, h.entries)  A == ToSet(t) \cup ToSet(free)
           F == LoadEntries(children', inode'[f])
           given == save.fresh \cup (ToSet(t) \cap ToSet(save.free))
           B == h.cached \cup {a}  R == Region(f)
<1>0. TypeOK
  BY DEF Safe
<1>1. /\ a \in Blocks /\ need \in Nat /\ need <= MaxData /\ MaxData <= Capacity /\ MaxData \in Nat
  BY <1>0, NodeFacts
<1>2. s \in Seq(Blocks) /\ t \in Seq(Blocks) /\ h.cached \subseteq Blocks /\ Len(s) \in Nat
  <2>1. s \in Seq(Blocks) /\ t \in Seq(Blocks) /\ h.cached \subseteq Blocks  BY DEF Fields
  <2> QED BY <2>1
<1>3. free \in Seq(Blocks) /\ children \in Maps
  BY <1>0 DEF TypeOK, Maps
<1>4. ToSet(s) \subseteq Blocks /\ ToSet(t) \subseteq Blocks /\ ToSet(free) \subseteq Blocks
  BY <1>2, <1>3, ToSetType
<1>5. /\ free' = save.free /\ children' = save.children
      /\ refs' \in Released(Counted(counts, {}, given), B)
      /\ file' = [file EXCEPT ![f] = Closed]
      /\ lost' = IF save.saved THEN lost ELSE lost \cup {f}
      /\ leaky' = (leaky \/ ~save.saved \/ Len(s) # need)
      /\ h.cached \subseteq ToSet(s)
  BY DEF CloseWith
<1> HIDE DEF save
<1>6. IsApart(a, s, t, free)
  OBVIOUS
<1>7. IsInjective(t \o free)
  <2> HIDE DEF t
  <2> QED BY <1>2, <1>3, <1>6, JoinFacts DEF IsApart
<1>8. /\ save.free \in Seq(Blocks) /\ IsInjective(save.free) /\ ToSet(save.free) \subseteq A
      /\ save.children \in Maps /\ save.fresh \subseteq A /\ save.saved \in BOOLEAN
      /\ save.roots \in [1 .. 3 -> 0 .. N]
      /\ \A b \in Blocks \ A : save.children[b] = children[b]
  BY <1>2, <1>3, <1>7, SaveFacts DEF save
<1>9. /\ inode'[f] \in Node /\ inode'[f].id = a /\ inode'[f].need = need
      /\ inode'[f].roots = save.roots /\ IsNode(inode'[f])
      /\ \A k \in 1 .. Smaller(Direct, need) : inode'[f].direct[k] = s[k]
      /\ inode' \in [Files -> Node \cup {NoInode}]
      /\ \A g \in Files \ {f} : inode'[g] = inode[g]
  BY <1>0, <1>8, CloseNode DEF save
<1>10. Len(s) <= Capacity
  <2>1. Len(s) <= MaxData  OBVIOUS
  <2>2. Capacity \in Nat
    <3>1. Direct \in Nat /\ E \in Nat  BY SizesAssumption
    <3> DEFINE y == E * E  z == E * E * E
    <3>2. y \in Nat /\ z \in Nat  BY <3>1
    <3>3. Capacity = Direct + E + y + z  BY DEF Capacity
    <3> HIDE DEF y, z
    <3> QED BY <3>1, <3>2, <3>3
  <2> QED BY <1>1, <1>2, <2>1, <2>2
<1>11. /\ F \in Walks /\ IsInjective(F.entries)
       /\ ToSet(F.entries) \subseteq A \ ToSet(save.free)
       /\ Len(F.ids) <= Len(s) /\ F.ids = SubSeq(s, 1, Len(F.ids))
       /\ ~F.ok => Len(F.ids) <= Direct + E + E * E
       /\ F.ok /\ (Len(s) < need => Len(s) <= Direct + E + E * E) => Len(F.ids) = need
       /\ save.saved /\ need <= Len(s) => F.ok
       /\ save.saved /\ need = Len(s) => ToSet(F.entries) = A \ ToSet(save.free)
  <2> DEFINE node == inode'[f]  d == children'
  <2>1. node.need = need
    BY <1>9
  <2>2. /\ IsNode(node) /\ node.roots = save.roots
        /\ d \in Maps /\ d = save.children /\ Smaller(Direct, node.need) <= Len(s)
    BY <1>5, <1>8, <1>9
  <2>3. \A k \in 1 .. Smaller(Direct, node.need) : node.direct[k] = s[k]
    BY <1>9
  <2>4. Same(save.children, d, A \ ToSet(save.free))
    BY <2>2 DEF Same
  <2>5. F = LoadEntries(d, node)
    OBVIOUS
  <2> HIDE DEF F, node, d, need
  <2>6. Len(s) <= Capacity
    BY <1>10
  <2>7. Lists(node, d, s, t)
    <3> HIDE DEF s, t
    <3>1. A = ToSet(t) \cup ToSet(free)
      OBVIOUS
    <3> HIDE DEF A
    <3>2. /\ s \in Seq(Blocks) /\ t \in Seq(Blocks) /\ Len(s) <= Capacity
          /\ free \in Seq(Blocks) /\ children \in Maps /\ IsInjective(t \o free)
          /\ IsNode(node) /\ node.roots = save.roots
          /\ Smaller(Direct, node.need) <= Len(s)
          /\ d \in Maps
      BY <1>2, <1>3, <1>7, <2>2, <2>6
    <3>3. save = SaveEntries(s, t)
      BY DEF save, s, t
    <3> QED BY <2>3, <2>4, <3>1, <3>2, <3>3 DEF Lists
  <2>8. save = SaveEntries(s, t) /\ A = ToSet(t) \cup ToSet(free)
    BY DEF save
  <2> HIDE DEF s, t, A
  <2>9. Returns(F, need, s, A, save)
    <3>1. Returns(LoadEntries(d, node), node.need, s, ToSet(t) \cup ToSet(free), SaveEntries(s, t))
      BY <2>7, ListedLoads
    <3> QED BY <2>1, <2>5, <2>8, <3>1
  <2> QED BY <2>9 DEF Returns
<1>12. F.ok => Len(F.ids) = need
  BY <1>11
<1> DEFINE m == Len(F.ids)
<1>13. /\ F.ids \in Seq(Blocks) /\ F.entries \in Seq(Blocks) /\ m \in Nat /\ m \in 0 .. Len(s)
  <2> HIDE DEF F
  <2> QED BY <1>2, <1>11, WalkFields
<1>14. IsInjective(F.ids) /\ ToSet(F.ids) \subseteq ToSet(s) /\ (m = Len(s) => F.ids = s)
  <2>1. IsInjective(s)  BY <1>6 DEF IsApart
  <2>2. F.ids = SubSeq(s, 1, m)  BY <1>11
  <2> HIDE DEF m, s, F
  <2> QED BY <1>2, <1>13, <2>1, <2>2, PrefixFacts
<1> HIDE DEF m
<1>15. Exists(f)' /\ ~IsOpen(f)'
  <2>1. file \in [Files -> Fields \cup {Closed}]  BY <1>0 DEF TypeOK
  <2>2. inode'[f] # NoInode  BY <1>9, MarksAssumption
  <2>3. file'[f] = Closed  BY <1>5, <2>1
  <2> QED BY <2>2, <2>3 DEF Exists, IsOpen
<1>16. Found(f)' = F /\ Owned(f)' = Listed(a, F.ids, F.entries) /\ Pins(f)' = {}
  <2>1. Found(f)' = F  BY DEF Found
  <2> HIDE DEF F
  <2>2. Owned(f)' = Listed(a, F.ids, F.entries)  BY <1>9, <1>15, <2>1 DEF Owned, Listed
  <2>3. Pins(f)' = {}  BY <1>15 DEF Pins
  <2> QED BY <2>1, <2>2, <2>3
<1> HIDE DEF F
<1>17. FileOK(f)'
  <2>1. ASSUME f \notin lost' PROVE F.ok /\ F.ids = SubSeq(stored'[f], 1, need)
    <3>1. save.saved /\ f \notin lost  BY <1>5, <1>8, <2>1
    <3>2. need <= Len(s) /\ stored'[f] = s  BY <3>1
    <3>3. F.ok /\ Len(F.ids) = need  BY <1>11, <1>12, <3>1, <3>2
    <3> QED BY <1>11, <3>2, <3>3
  <2> QED BY <1>9, <1>11, <1>12, <1>15, <1>16, <2>1 DEF FileOK
<1>18. /\ Own(f)' = {a} \cup ToSet(F.ids) \cup ToSet(F.entries)
       /\ IsInjective(Owned(f)')
       /\ Own(f)' \cap ToSet(free') = {}
       /\ Own(f)' \cup ToSet(free') \subseteq R
  <2> DEFINE x == F.ids  y == F.entries  l == Listed(a, x, y)
  <2>1. x \in Seq(Blocks) /\ y \in Seq(Blocks)  BY <1>13
  <2>2. ToSet(l) = {a} \cup ToSet(x) \cup ToSet(y)
    <3> HIDE DEF x, y, a
    <3> QED BY <1>1, <2>1, ListFacts
  <2>3. IsInjective(l) <=> /\ IsInjective(x) /\ IsInjective(y) /\ ToSet(x) \cap ToSet(y) = {}
                           /\ a \notin ToSet(x) /\ a \notin ToSet(y)
    <3> HIDE DEF x, y, a
    <3> QED BY <1>1, <2>1, ListFacts
  <2>4. Own(f)' = ToSet(l) /\ Owned(f)' = l  BY <1>16 DEF Own
  <2>5. ToSet(x) \subseteq ToSet(s) /\ ToSet(y) \subseteq A \ ToSet(free') /\ ToSet(free') \subseteq A
        /\ IsInjective(x) /\ IsInjective(y)
    BY <1>5, <1>8, <1>11, <1>14
  <2> HIDE DEF x, y, l
  <2>6. a \notin ToSet(s) /\ a \notin A /\ ToSet(s) \cap A = {}  BY <1>6 DEF IsApart
  <2>7. R = {a} \cup ToSet(s) \cup A
    OBVIOUS
  <2> HIDE DEF a, s, A, R
  <2>8. IsInjective(l)  BY <2>3, <2>5, <2>6
  <2>9. ToSet(l) \cap ToSet(free') = {} /\ ToSet(l) \cup ToSet(free') \subseteq R
    BY <2>2, <2>5, <2>6, <2>7
  <2> QED BY <2>2, <2>4, <2>8, <2>9 DEF x, y
<1>19. ~leaky' => ~leaky /\ Own(f)' \cup ToSet(free') = R
  <2> SUFFICES ASSUME ~leaky' PROVE ~leaky /\ Own(f)' \cup ToSet(free') = R
    OBVIOUS
  <2>1. ~leaky /\ save.saved /\ Len(s) = need  BY <1>0, <1>5, <1>8 DEF TypeOK
  <2>2. F.ok /\ ToSet(F.entries) = A \ ToSet(free')
    BY <1>1, <1>5, <1>11, <2>1
  <2>3. F.ids = s  BY <1>12, <1>14, <2>1, <2>2 DEF m
  <2>4. R = {a} \cup ToSet(s) \cup A
    OBVIOUS
  <2>5. ToSet(free') \subseteq A  BY <1>5, <1>8
  <2> HIDE DEF a, s, A, R
  <2> QED BY <1>18, <2>1, <2>2, <2>3, <2>4, <2>5
<1>20. /\ refs' \in Counts
       /\ \A b \in R : refs'[b] = 0
       /\ \A b \in Blocks \ R : refs'[b] = refs[b]
  <2> DEFINE c == Counted(counts, {}, given)
  <2>1. c \in Counts /\ \A b \in Blocks : c[b] = IF b \in given THEN 0 ELSE counts[b]
    BY CountsFacts
  <2>2. B \in SUBSET Blocks /\ B \subseteq {a} \cup ToSet(s)  BY <1>1, <1>2, <1>5
  <2>3. given \subseteq A  BY <1>8
  <2>4. a \notin A /\ ToSet(s) \cap A = {}  BY <1>6 DEF IsApart
  <2>5. R = {a} \cup ToSet(s) \cup A
    OBVIOUS
  <2>6. \A b \in B : b \in R /\ b \notin given /\ b \in (h.cached \cap ToSet(s)) \cup {a}
    BY <1>5, <2>2, <2>3, <2>4, <2>5
  <2>7. \A b \in Blocks : counts[b] = IF b \notin R THEN refs[b]
                          ELSE IF b \in (h.cached \cap ToSet(s)) \cup {a} THEN 1 ELSE 0
    OBVIOUS
  <2>8. refs' \in Released(c, B)  BY <1>5
  <2> HIDE DEF c, B, given, R, A
  <2>9. \A b \in B : c[b] = 1  BY <2>1, <2>2, <2>6, <2>7
  <2>10. refs' \in Counts /\ \A b \in Blocks : refs'[b] = IF b \in B THEN 0 ELSE c[b]
    BY <2>1, <2>2, <2>8, <2>9, ReleasedFacts
  <2>11. R \subseteq Blocks  BY <1>1, <1>4, <2>5 DEF A
  <2>12. ASSUME NEW b \in R PROVE refs'[b] = 0
    <3>1. CASE b \in B  BY <2>10, <2>11, <3>1
    <3>2. CASE b \notin B
      <4>1. counts[b] = 0  BY <2>7, <2>11, <3>2 DEF B
      <4> QED BY <2>1, <2>10, <2>11, <3>2, <4>1
    <3> QED BY <3>1, <3>2
  <2>13. ASSUME NEW b \in Blocks \ R PROVE refs'[b] = refs[b]
    <3>1. b \notin B /\ b \notin given  BY <2>3, <2>5, <2>6
    <3> QED BY <2>1, <2>7, <2>10, <3>1
  <2> QED BY <2>10, <2>12, <2>13
<1>21. TypeOK'
  <2>1. free' \in Seq(Blocks) /\ children' \in [Blocks -> Seq(Blocks)]  BY <1>5, <1>8 DEF Maps
  <2>2. file' \in [Files -> Fields \cup {Closed}]  BY <1>0, <1>5 DEF TypeOK
  <2>3. lost' \in SUBSET Files /\ leaky' \in BOOLEAN  BY <1>0, <1>5 DEF TypeOK
  <2>4. dangling' \in BOOLEAN  BY <1>0 DEF TypeOK, CloseWith
  <2>5. refs' \in [Blocks -> 0 .. RefMax]  BY <1>20 DEF Counts
  <2> QED BY <1>9, <2>1, <2>2, <2>3, <2>4, <2>5 DEF TypeOK
<1>22. Others(f)
  <2>1. \A g \in Files \ {f} : file'[g] = file[g] /\ (g \in lost' <=> g \in lost)
    BY <1>0, <1>5 DEF TypeOK
  <2>2. A \subseteq R
    OBVIOUS
  <2>3. \A b \in Blocks \ R : children'[b] = children[b]  BY <1>5, <1>8, <2>2
  <2>4. \A b \in Blocks \ R : refs'[b] = refs[b]  BY <1>20
  <2> QED BY <1>9, <2>1, <2>3, <2>4 DEF Others
<1>23. R \subseteq Blocks
  BY <1>1, <1>4
<1>24. Pins(f)' \subseteq Own(f)' /\ \A b \in R : refs'[b] = IF b \in Pins(f)' THEN 1 ELSE 0
  BY <1>16, <1>20
<1>25. IsInjective(free')
  BY <1>5, <1>8
<1> QED BY <1>17, <1>18, <1>19, <1>21, <1>22, <1>23, <1>24, <1>25, FileStep

-----------------------------------------------------------------------------
(* What the handlers of an open file do with its blocks *)

\* The data blocks of f and the free blocks: what such a handler moves around.
Pool(f) == ToSet(file[f].ids) \cup ToSet(free)

\* With these data blocks, pointers and free blocks, the counters are right.
Held(f, ids, cached, list, counts) ==
    /\ ids \in Seq(Blocks) /\ cached \in SUBSET Blocks /\ list \in Seq(Blocks) /\ counts \in Counts
    /\ IsInjective(ids) /\ IsInjective(list) /\ ToSet(ids) \cap ToSet(list) = {}
    /\ ToSet(ids) \cup ToSet(list) \subseteq Pool(f)
    /\ \A b \in Blocks :
          counts[b] = IF b \notin Pool(f) THEN refs[b]
                      ELSE IF b \in cached /\ b \in ToSet(ids) THEN 1 ELSE 0

With(h, ids, cached) == [h EXCEPT !.ids = ids, !.cached = cached]

\* The fields of an InodeFile with other data blocks and pointers.
LEMMA WithFacts ==
    ASSUME NEW h \in Fields, NEW ids \in Seq(Blocks), NEW cached \in SUBSET Blocks
    PROVE  /\ With(h, ids, cached) \in Fields /\ With(h, ids, cached).ids = ids
           /\ With(h, ids, cached).entries = h.entries /\ With(h, ids, cached).cached = cached
BY DEF With, Fields

\* An open file starts with the counters right.
LEMMA OpenHeld ==
    ASSUME Safe, NEW f \in Files, IsOpen(f)
    PROVE  Held(f, file[f].ids, file[f].cached, free, refs) /\ Pool(f) \subseteq Blocks
<1> DEFINE a == inode[f].id  h == file[f]  s == h.ids  t == h.entries  R == Region(f)
<1>1. /\ a \in Blocks /\ s \in Seq(Blocks) /\ t \in Seq(Blocks) /\ h.cached \subseteq Blocks
      /\ free \in Seq(Blocks) /\ IsApart(a, s, t, free)
      /\ R = {a} \cup ToSet(s) \cup ToSet(t) \cup ToSet(free) /\ R \subseteq Blocks
      /\ Pins(f) = (h.cached \cap ToSet(s)) \cup {a}
      /\ \A b \in R : refs[b] = IF b \in Pins(f) THEN 1 ELSE 0
  BY OpenFacts
<1>2. refs \in Counts
  BY DEF Safe, TypeOK, Counts
<1>3. Pool(f) = ToSet(s) \cup ToSet(free) /\ s = file[f].ids
  BY DEF Pool
<1> HIDE DEF a, s, t, R
<1>4. a \notin Pool(f) /\ Pool(f) \subseteq R
  BY <1>1, <1>3 DEF IsApart
<1>5. ASSUME NEW b \in Blocks
      PROVE  refs[b] = IF b \notin Pool(f) THEN refs[b]
                       ELSE IF b \in h.cached /\ b \in ToSet(s) THEN 1 ELSE 0
  <2>1. b \in Pool(f) => (b \in Pins(f) <=> b \in h.cached /\ b \in ToSet(s))
    BY <1>1, <1>4
  <2> QED BY <1>1, <1>4, <2>1
<1> QED BY <1>1, <1>2, <1>3, <1>4, <1>5 DEF Held, IsApart

\* A handler that ends with the counters right keeps everything well.
LEMMA HeldStep ==
    ASSUME Safe, NEW f \in Files, IsOpen(f), NEW ids, NEW cached, NEW need \in 0 .. MaxData,
           Held(f, ids, cached, free', refs'),
           file' = [file EXCEPT ![f] = With(file[f], ids, cached)],
           inode' = [inode EXCEPT ![f].need = need],
           need <= Len(ids), Len(ids) <= MaxData,
           UNCHANGED <<children, stored, lost, dangling>>,
           leaky' \in BOOLEAN,
           ~leaky' => ~leaky /\ ToSet(ids) \cup ToSet(free') = Pool(f)
    PROVE  Safe'
<1> DEFINE a == inode[f].id  h == file[f]  s == h.ids  t == h.entries  R == Region(f)
           k == With(h, ids, cached)  node == inode[f]  new == [node EXCEPT !.need = need]
<1>0. TypeOK
  BY DEF Safe
<1>1. /\ a \in Blocks /\ h \in Fields /\ s \in Seq(Blocks) /\ t \in Seq(Blocks)
      /\ IsApart(a, s, t, free)
      /\ R = {a} \cup ToSet(s) \cup ToSet(t) \cup ToSet(free) /\ R \subseteq Blocks
      /\ \A b \in R : refs[b] = IF b \in Pins(f) THEN 1 ELSE 0
      /\ Pins(f) = (h.cached \cap ToSet(s)) \cup {a}
  BY OpenFacts
<1>2. /\ ids \in Seq(Blocks) /\ cached \in SUBSET Blocks /\ free' \in Seq(Blocks) /\ refs' \in Counts
      /\ IsInjective(ids) /\ IsInjective(free') /\ ToSet(ids) \cap ToSet(free') = {}
      /\ ToSet(ids) \cup ToSet(free') \subseteq Pool(f)
      /\ \A b \in Blocks :
            refs'[b] = IF b \notin Pool(f) THEN refs[b]
                       ELSE IF b \in cached /\ b \in ToSet(ids) THEN 1 ELSE 0
  BY DEF Held
<1>3. k \in Fields /\ k.ids = ids /\ k.entries = t /\ k.cached = cached
  BY <1>1, <1>2, WithFacts
<1> HIDE DEF k
<1>4. file'[f] = k /\ file' \in [Files -> Fields \cup {Closed}] /\ k # Closed
      /\ \A g \in Files \ {f} : file'[g] = file[g]
  <2>1. file \in [Files -> Fields \cup {Closed}]  BY <1>0 DEF TypeOK
  <2>2. file' = [file EXCEPT ![f] = k]  BY DEF k
  <2> QED BY <1>3, <2>1, <2>2, MarksAssumption
<1>5. node \in Node
  BY <1>0, NodeFacts DEF IsOpen
<1>6. new \in Node /\ new.id = a /\ new.need = need
  BY <1>5 DEF Node
<1>7. inode'[f] = new /\ inode' \in [Files -> Node \cup {NoInode}] /\ new # NoInode
      /\ \A g \in Files \ {f} : inode'[g] = inode[g]
  <2>1. inode \in [Files -> Node \cup {NoInode}]  BY <1>0 DEF TypeOK
  <2>2. inode' = [inode EXCEPT ![f] = new]  BY <1>5, <2>1 DEF Node
  <2> HIDE DEF new
  <2> QED BY <1>6, <2>1, <2>2, MarksAssumption
<1> HIDE DEF new
<1>8. TypeOK'
  BY <1>0, <1>2, <1>4, <1>7 DEF TypeOK, Counts
<1>9. Pool(f) = ToSet(s) \cup ToSet(free)
  BY DEF Pool
<1> DEFINE P == (cached \cap ToSet(ids)) \cup {a}
           Q == {a} \cup ToSet(ids) \cup ToSet(t) \cup ToSet(free')
<1>10. /\ inode'[f].id = a /\ file'[f].ids = ids /\ file'[f].entries = t /\ file'[f].cached = cached
       /\ inode'[f].need = need
  BY <1>3, <1>4, <1>6, <1>7
<1> HIDE DEF a, s, t, R
<1>11. a \notin Pool(f) /\ Pool(f) \subseteq R /\ ToSet(t) \cap Pool(f) = {} /\ a \notin ToSet(t)
       /\ IsInjective(t) /\ a \in R /\ R = {a} \cup Pool(f) \cup ToSet(t)
  BY <1>1, <1>9 DEF IsApart
<1>12. IsApart(a, ids, t, free')
  BY <1>2, <1>11 DEF IsApart
<1>13. Q \subseteq R /\ (~leaky' => ~leaky /\ Q = R)
  BY <1>2, <1>11
<1>14. ASSUME NEW b \in R PROVE refs'[b] = IF b \in P THEN 1 ELSE 0
  <2>1. CASE b \in Pool(f)
    BY <1>1, <1>2, <1>11, <2>1
  <2>2. CASE b \notin Pool(f)
    <3>1. refs'[b] = refs[b]  BY <1>1, <1>2, <2>2
    <3>2. b \notin ToSet(s) /\ b \notin ToSet(ids)  BY <1>2, <1>9, <2>2
    <3>3. b \in Pins(f) <=> b \in P  BY <1>1, <3>2
    <3> QED BY <1>1, <3>1, <3>3
  <2> QED BY <2>1, <2>2
<1>15. Others(f)
  <2>1. \A b \in Blocks \ R : refs'[b] = refs[b]  BY <1>2, <1>11
  <2> QED BY <1>4, <1>7, <2>1 DEF Others, R
<1>16. Exists(f)' /\ file'[f] # Closed
  BY <1>4, <1>7 DEF Exists
<1>17. /\ R \subseteq Region(f) /\ Region(f) \subseteq Blocks /\ R = Region(f)
  BY <1>1 DEF R
<1> HIDE DEF P, Q
<1>18. LET q == {inode'[f].id} \cup ToSet(file'[f].ids) \cup ToSet(file'[f].entries)
                   \cup ToSet(free')
       IN  q \subseteq Region(f) /\ (~leaky' => ~leaky /\ q = Region(f))
  BY <1>10, <1>13, <1>17 DEF Q
<1>19. \A b \in Region(f) :
          refs'[b] = IF b \in (file'[f].cached \cap ToSet(file'[f].ids)) \cup {inode'[f].id}
                     THEN 1 ELSE 0
  BY <1>10, <1>14, <1>17 DEF P
<1>20. IsApart(inode'[f].id, file'[f].ids, file'[f].entries, free')
  BY <1>10, <1>12
<1>21. inode'[f].need <= Len(file'[f].ids) /\ Len(file'[f].ids) <= MaxData
  BY <1>10
<1> QED BY <1>8, <1>15, <1>16, <1>17, <1>18, <1>19, <1>20, <1>21, OpenStep

\* Blocks of the file that the handler gets pointers to.
LEMMA HeldTouch ==
    ASSUME NEW f, NEW ids, NEW cached, NEW list, NEW counts, Held(f, ids, cached, list, counts),
           NEW B, B \subseteq ToSet(ids), B \cap cached = {}
    PROVE  Held(f, ids, cached \cup B, list, Referenced(counts, B))
<1> DEFINE c == Referenced(counts, B)
<1>1. /\ ids \in Seq(Blocks) /\ cached \in SUBSET Blocks /\ list \in Seq(Blocks) /\ counts \in Counts
      /\ IsInjective(ids) /\ IsInjective(list) /\ ToSet(ids) \cap ToSet(list) = {}
      /\ ToSet(ids) \cup ToSet(list) \subseteq Pool(f)
      /\ \A b \in Blocks :
            counts[b] = IF b \notin Pool(f) THEN refs[b]
                        ELSE IF b \in cached /\ b \in ToSet(ids) THEN 1 ELSE 0
  BY DEF Held
<1>2. ToSet(ids) \subseteq Blocks
  BY <1>1, ToSetType
<1>3. /\ c \in Counts
      /\ \A b \in Blocks : b \in B /\ counts[b] = 0 => c[b] = 1
      /\ \A b \in Blocks : b \notin B => c[b] = counts[b]
  <2>1. counts \in Counts  BY <1>1
  <2> QED BY ONLY <2>1, CountsFacts
<1> HIDE DEF c
<1>4. ASSUME NEW b \in Blocks
      PROVE  c[b] = IF b \notin Pool(f) THEN refs[b]
                    ELSE IF b \in cached \cup B /\ b \in ToSet(ids) THEN 1 ELSE 0
  <2>1. CASE b \in B
    <3>1. counts[b] = 0 /\ b \in Pool(f) /\ b \in ToSet(ids)  BY <1>1, <2>1
    <3> QED BY <1>3, <2>1, <3>1
  <2>2. CASE b \notin B
    BY <1>1, <1>3, <2>2
  <2> QED BY <2>1, <2>2
<1> QED BY <1>1, <1>2, <1>3, <1>4 DEF Held, c

\* The data blocks x and the free blocks y are what ids and list were.
Keeps(ids, list, x, y) == ToSet(x) \cup ToSet(y) = ToSet(ids) \cup ToSet(list)

\* The last m free blocks, as allocate hands them out.
Grants(list, m, grant) == m \in 0 .. Len(list) /\ grant = Taken(list, m)

\* What the file then has.
Given(f, ids, cached, list, counts, m, grant) ==
    /\ Held(f, ids \o grant, cached \cup ToSet(grant), Rest(list, m),
            Counted(counts, ToSet(grant), {}))
    /\ ToSet(ids \o grant) = ToSet(ids) \cup ToSet(grant)
    /\ ToSet(ids) \cap ToSet(grant) = {} /\ ToSet(grant) \subseteq ToSet(list)
    /\ ToSet(list) = ToSet(Rest(list, m)) \cup ToSet(grant)
    /\ grant \in Seq(Blocks) /\ Keeps(ids, list, ids \o grant, Rest(list, m))

\* Blocks off the free list that the file gets.
LEMMA HeldGrant ==
    ASSUME NEW f, NEW ids, NEW cached, NEW list, NEW counts, Held(f, ids, cached, list, counts),
           NEW m, NEW grant, Grants(list, m, grant)
    PROVE  Given(f, ids, cached, list, counts, m, grant)
<1> DEFINE c == Counted(counts, ToSet(grant), {})  r == Rest(list, m)  p == ids \o grant
           q == cached \cup ToSet(grant)
<1>1. /\ ids \in Seq(Blocks) /\ cached \in SUBSET Blocks /\ list \in Seq(Blocks) /\ counts \in Counts
      /\ IsInjective(ids) /\ IsInjective(list) /\ ToSet(ids) \cap ToSet(list) = {}
      /\ ToSet(ids) \cup ToSet(list) \subseteq Pool(f)
      /\ \A b \in Blocks :
            counts[b] = IF b \notin Pool(f) THEN refs[b]
                        ELSE IF b \in cached /\ b \in ToSet(ids) THEN 1 ELSE 0
  BY DEF Held
<1>2. /\ r \in Seq(Blocks) /\ grant \in Seq(Blocks) /\ Len(grant) = m
      /\ ToSet(list) = ToSet(r) \cup ToSet(grant)
      /\ IsInjective(r) /\ IsInjective(grant) /\ ToSet(r) \cap ToSet(grant) = {}
  BY <1>1, TakenFacts DEF Grants
<1>3. ToSet(grant) \subseteq Blocks
  BY <1>2, ToSetType
<1>4. /\ p \in Seq(Blocks) /\ ToSet(p) = ToSet(ids) \cup ToSet(grant)
      /\ IsInjective(p)
  BY <1>1, <1>2, JoinFacts
<1>6. /\ c \in Counts
      /\ \A b \in Blocks : c[b] = IF b \in ToSet(grant) THEN 1 ELSE counts[b]
  BY <1>1, CountsFacts
<1> HIDE DEF c, r, p
<1>7. ASSUME NEW b \in Blocks
      PROVE  c[b] = IF b \notin Pool(f) THEN refs[b]
                    ELSE IF b \in q /\ b \in ToSet(p) THEN 1 ELSE 0
  <2>1. CASE b \in ToSet(grant)
    <3>1. b \in Pool(f) /\ b \in q /\ b \in ToSet(p)  BY <1>1, <1>2, <1>4, <2>1
    <3> QED BY <1>6, <2>1, <3>1
  <2>2. CASE b \notin ToSet(grant)
    BY <1>1, <1>4, <1>6, <2>2
  <2> QED BY <2>1, <2>2
<1>8. q \in SUBSET Blocks /\ ToSet(p) \cap ToSet(r) = {} /\ ToSet(p) \cup ToSet(r) \subseteq Pool(f)
      /\ ToSet(ids) \cap ToSet(grant) = {} /\ ToSet(grant) \subseteq ToSet(list)
  BY <1>1, <1>2, <1>3, <1>4
<1>9. Held(f, p, q, r, c)
  <2> HIDE DEF q
  <2> QED BY <1>2, <1>4, <1>6, <1>7, <1>8 DEF Held
<1>10. Keeps(ids, list, p, r)
  BY <1>2, <1>4 DEF Keeps
<1> QED BY <1>2, <1>4, <1>8, <1>9, <1>10 DEF p, r, c, Given

\* Both: what write, truncate and insert begin with.
LEMMA HeldExtend ==
    ASSUME NEW f, NEW ids, NEW cached, NEW list, NEW counts, Held(f, ids, cached, list, counts),
           NEW m, NEW grant, Grants(list, m, grant),
           NEW B, B \subseteq ToSet(ids), B \cap cached = {}
    PROVE  Held(f, ids \o grant, cached \cup B \cup ToSet(grant), Rest(list, m),
                Referenced(Counted(counts, ToSet(grant), {}), B))
<1>0. /\ Held(f, ids \o grant, cached \cup ToSet(grant), Rest(list, m),
                Counted(counts, ToSet(grant), {}))
      /\ ToSet(ids \o grant) = ToSet(ids) \cup ToSet(grant)
      /\ ToSet(ids) \cap ToSet(grant) = {} /\ ToSet(grant) \subseteq ToSet(list)
      /\ ToSet(list) = ToSet(Rest(list, m)) \cup ToSet(grant)
      /\ grant \in Seq(Blocks) /\ Keeps(ids, list, ids \o grant, Rest(list, m))
  <2>1. Given(f, ids, cached, list, counts, m, grant)  BY HeldGrant
  <2> QED BY <2>1 DEF Given
<1> DEFINE p == ids \o grant  q == cached \cup ToSet(grant)  r == Rest(list, m)
           c == Counted(counts, ToSet(grant), {})
<1>1. Held(f, p, q, r, c)
  BY <1>0
<1>2. ToSet(p) = ToSet(ids) \cup ToSet(grant) /\ ToSet(ids) \cap ToSet(grant) = {}
  BY <1>0
<1>3. B \subseteq ToSet(p) /\ B \cap q = {}
  BY <1>2
<1>4. q \cup B = cached \cup B \cup ToSet(grant)
  OBVIOUS
<1> HIDE DEF p, q, r, c
<1>5. Held(f, p, q \cup B, r, Referenced(c, B))
  BY <1>1, <1>3, HeldTouch
<1> QED BY <1>4, <1>5 DEF p, r, c

\* The data blocks are those of p and those of cut.
Halves(ids, p, cut) ==
    /\ p \in Seq(Blocks) /\ cut \in Seq(Blocks) /\ IsInjective(p) /\ IsInjective(cut)
    /\ ToSet(ids) = ToSet(p) \cup ToSet(cut) /\ ToSet(p) \cap ToSet(cut) = {}

\* To the blocks of p, kept has the pointers that cached has.
SamePins(kept, cached, p) ==
    kept \in SUBSET Blocks /\ \A b \in ToSet(p) : b \in kept <=> b \in cached

\* A cut list gives its two halves.
LEMMA PrefixHalves ==
    ASSUME NEW s \in Seq(Blocks), IsInjective(s), NEW k \in 0 .. Len(s)
    PROVE  Halves(s, SubSeq(s, 1, k), SubSeq(s, k + 1, Len(s))) /\ Len(SubSeq(s, 1, k)) = k
<1> DEFINE p == SubSeq(s, 1, k)  cut == SubSeq(s, k + 1, Len(s))
<1>1. /\ p \in Seq(Blocks) /\ Len(p) = k /\ cut \in Seq(Blocks)
      /\ ToSet(s) = ToSet(p) \cup ToSet(cut)
      /\ IsInjective(p) /\ IsInjective(cut) /\ ToSet(p) \cap ToSet(cut) = {}
  BY PrefixFacts
<1> HIDE DEF p, cut
<1>2. Halves(s, p, cut) /\ Len(p) = k
  BY <1>1 DEF Halves
<1> QED BY <1>2 DEF p, cut

\* The data blocks of cut are freed, the data blocks of p stay.
LEMMA HeldGive ==
    ASSUME NEW f, NEW ids, NEW cached, NEW list, NEW counts, Held(f, ids, cached, list, counts),
           NEW p, NEW cut, Halves(ids, p, cut), NEW kept, SamePins(kept, cached, p)
    PROVE  /\ Held(f, p, kept, list \o cut, Counted(counts, {}, ToSet(cut)))
           /\ ToSet(p) \cup ToSet(list \o cut) = ToSet(ids) \cup ToSet(list)
<1> DEFINE c == Counted(counts, {}, ToSet(cut))  r == list \o cut
<1>0. /\ p \in Seq(Blocks) /\ cut \in Seq(Blocks) /\ IsInjective(p) /\ IsInjective(cut)
      /\ ToSet(ids) = ToSet(p) \cup ToSet(cut) /\ ToSet(p) \cap ToSet(cut) = {}
      /\ kept \in SUBSET Blocks /\ \A b \in ToSet(p) : b \in kept <=> b \in cached
  BY DEF Halves, SamePins
<1>1. /\ ids \in Seq(Blocks) /\ list \in Seq(Blocks) /\ counts \in Counts
      /\ IsInjective(list) /\ ToSet(ids) \cap ToSet(list) = {}
      /\ ToSet(ids) \cup ToSet(list) \subseteq Pool(f)
      /\ \A b \in Blocks :
            counts[b] = IF b \notin Pool(f) THEN refs[b]
                        ELSE IF b \in cached /\ b \in ToSet(ids) THEN 1 ELSE 0
  BY DEF Held
<1>2. r \in Seq(Blocks) /\ ToSet(r) = ToSet(list) \cup ToSet(cut) /\ IsInjective(r)
  <2>1. ToSet(list) \cap ToSet(cut) = {}  BY <1>0, <1>1
  <2> QED BY <1>0, <1>1, <2>1, JoinFacts
<1>3. /\ c \in Counts
      /\ \A b \in Blocks : c[b] = IF b \in ToSet(cut) THEN 0 ELSE counts[b]
  BY <1>1, CountsFacts
<1> HIDE DEF c, r
<1>4. ASSUME NEW b \in Blocks
      PROVE  c[b] = IF b \notin Pool(f) THEN refs[b]
                    ELSE IF b \in kept /\ b \in ToSet(p) THEN 1 ELSE 0
  <2>1. CASE b \in ToSet(cut)
    <3>1. b \in Pool(f) /\ b \notin ToSet(p)  BY <1>0, <1>1, <2>1
    <3> QED BY <1>3, <2>1, <3>1
  <2>2. CASE b \notin ToSet(cut)
    <3>1. b \in ToSet(ids) <=> b \in ToSet(p)  BY <1>0, <2>2
    <3>2. (b \in cached /\ b \in ToSet(ids)) <=> (b \in kept /\ b \in ToSet(p))  BY <1>0, <3>1
    <3> QED BY <1>1, <1>3, <2>2, <3>2
  <2> QED BY <2>1, <2>2
<1>5. ToSet(p) \cap ToSet(r) = {} /\ ToSet(p) \cup ToSet(r) \subseteq Pool(f)
      /\ ToSet(p) \cup ToSet(r) = ToSet(ids) \cup ToSet(list)
  BY <1>0, <1>1, <1>2
<1>6. Held(f, p, kept, r, c)
  BY <1>0, <1>1, <1>2, <1>3, <1>4, <1>5 DEF Held
<1> QED BY <1>5, <1>6 DEF r, c

\* As many blocks off the free list behind those of p, and those of cut freed.
LEMMA HeldMove ==
    ASSUME NEW f, NEW ids, NEW cached, NEW list, NEW counts, Held(f, ids, cached, list, counts),
           NEW m, NEW grant, Grants(list, m, grant),
           NEW p, NEW cut, Halves(ids, p, cut)
    PROVE  /\ Held(f, p \o grant, (cached \ ToSet(cut)) \cup ToSet(grant),
                   Rest(list, m) \o Reverse(cut), Counted(counts, ToSet(grant), ToSet(cut)))
           /\ Keeps(ids, list, p \o grant, Rest(list, m) \o Reverse(cut))
<1> DEFINE c == Counted(counts, ToSet(grant), ToSet(cut))  u == Rest(list, m)  v == Reverse(cut)
           x == p \o grant  y == u \o v  q == (cached \ ToSet(cut)) \cup ToSet(grant)
<1>0. /\ p \in Seq(Blocks) /\ cut \in Seq(Blocks) /\ IsInjective(p) /\ IsInjective(cut)
      /\ ToSet(ids) = ToSet(p) \cup ToSet(cut) /\ ToSet(p) \cap ToSet(cut) = {}
  BY DEF Halves
<1>1. /\ ids \in Seq(Blocks) /\ list \in Seq(Blocks) /\ counts \in Counts
      /\ cached \in SUBSET Blocks
      /\ IsInjective(list) /\ ToSet(ids) \cap ToSet(list) = {}
      /\ ToSet(ids) \cup ToSet(list) \subseteq Pool(f)
      /\ \A b \in Blocks :
            counts[b] = IF b \notin Pool(f) THEN refs[b]
                        ELSE IF b \in cached /\ b \in ToSet(ids) THEN 1 ELSE 0
  BY DEF Held
<1>2. /\ u \in Seq(Blocks) /\ grant \in Seq(Blocks) /\ Len(grant) = m
      /\ ToSet(list) = ToSet(u) \cup ToSet(grant)
      /\ IsInjective(u) /\ IsInjective(grant) /\ ToSet(u) \cap ToSet(grant) = {}
  BY <1>1, TakenFacts DEF Grants
<1>3. v \in Seq(Blocks) /\ ToSet(v) = ToSet(cut) /\ IsInjective(v)
  BY <1>0, ReverseFacts
<1>4. ToSet(grant) \subseteq Blocks
  BY <1>2, ToSetType
<1> HIDE DEF c, u, v
<1>5. /\ x \in Seq(Blocks) /\ ToSet(x) = ToSet(p) \cup ToSet(grant) /\ IsInjective(x)
  <2>1. ToSet(p) \cap ToSet(grant) = {}  BY <1>0, <1>1, <1>2
  <2> QED BY <1>0, <1>2, <2>1, JoinFacts
<1>6. /\ y \in Seq(Blocks) /\ ToSet(y) = ToSet(u) \cup ToSet(v) /\ IsInjective(y)
  <2>1. ToSet(u) \cap ToSet(v) = {}  BY <1>0, <1>1, <1>2, <1>3
  <2> QED BY <1>0, <1>2, <1>3, <2>1, JoinFacts
<1>7. Len(x) = Len(p) + m
  <2>1. Len(p \o grant) = Len(p) + Len(grant)  BY <1>0, <1>2, ConcatProperties
  <2> QED BY <1>0, <1>2, <2>1
<1>8. /\ c \in Counts
      /\ \A b \in Blocks : c[b] = IF b \in ToSet(grant) THEN 1
                                   ELSE IF b \in ToSet(cut) THEN 0 ELSE counts[b]
  BY <1>0, <1>1, CountsFacts DEF c
<1> HIDE DEF x, y
<1>9. ASSUME NEW b \in Blocks
      PROVE  c[b] = IF b \notin Pool(f) THEN refs[b]
                    ELSE IF b \in q /\ b \in ToSet(x) THEN 1 ELSE 0
  <2>1. CASE b \in ToSet(grant)
    <3>1. b \in Pool(f) /\ b \in q /\ b \in ToSet(x)  BY <1>0, <1>1, <1>2, <1>5, <2>1
    <3> QED BY <1>8, <2>1, <3>1
  <2>2. CASE b \in ToSet(cut)
    <3>1. b \in Pool(f) /\ b \notin ToSet(x) /\ b \notin ToSet(grant)  BY <1>0, <1>1, <1>2, <1>5, <2>2
    <3> QED BY <1>8, <2>2, <3>1
  <2>3. CASE b \notin ToSet(grant) /\ b \notin ToSet(cut)
    <3>1. (b \in cached /\ b \in ToSet(ids)) <=> (b \in q /\ b \in ToSet(x))  BY <1>0, <1>5, <2>3
    <3> QED BY <1>0, <1>1, <1>8, <2>3, <3>1
  <2> QED BY <2>1, <2>2, <2>3
<1>10. q \in SUBSET Blocks /\ ToSet(x) \cap ToSet(y) = {} /\ ToSet(x) \cup ToSet(y) \subseteq Pool(f)
       /\ ToSet(x) \cup ToSet(y) = ToSet(ids) \cup ToSet(list)
  BY <1>0, <1>1, <1>2, <1>3, <1>4, <1>5, <1>6
<1>11. Held(f, x, q, y, c)
  <2> HIDE DEF q
  <2> QED BY <1>0, <1>5, <1>6, <1>8, <1>9, <1>10 DEF Held
<1>12. Keeps(ids, list, x, y)
  BY <1>10 DEF Keeps
<1> QED BY <1>11, <1>12 DEF x, y, u, v, c

-----------------------------------------------------------------------------
(* The handlers of an open file *)

\* Such a handler leaves f with these data blocks, these pointers and this size.
Handles(f, ids, cached, need) ==
    /\ Held(f, ids, cached, free', refs')
    /\ file' = [file EXCEPT ![f] = With(file[f], ids, cached)]
    /\ inode' = [inode EXCEPT ![f].need = need]
    /\ need \in 0 .. MaxData /\ need <= Len(ids) /\ Len(ids) <= MaxData
    /\ UNCHANGED <<children, stored, lost, dangling>>
    /\ leaky' \in BOOLEAN
    /\ ~leaky' => ~leaky /\ ToSet(ids) \cup ToSet(free') = Pool(f)

\* HeldStep, with its conditions in one formula.
LEMMA HandlerStep ==
    ASSUME Safe, NEW f \in Files, IsOpen(f), NEW ids, NEW cached, NEW need,
           Handles(f, ids, cached, need)
    PROVE  Safe'
<1>1. /\ Held(f, ids, cached, free', refs')
      /\ file' = [file EXCEPT ![f] = With(file[f], ids, cached)]
      /\ inode' = [inode EXCEPT ![f].need = need]
      /\ need \in 0 .. MaxData /\ need <= Len(ids) /\ Len(ids) <= MaxData
      /\ UNCHANGED <<children, stored, lost, dangling>>
      /\ leaky' \in BOOLEAN
      /\ ~leaky' => ~leaky /\ ToSet(ids) \cup ToSet(free') = Pool(f)
  BY DEF Handles
<1> QED BY <1>1, HeldStep

\* An open file, before a handler runs.
LEMMA BeforeHandler ==
    ASSUME Safe, NEW f \in Files, IsOpen(f)
    PROVE  /\ file[f] \in Fields /\ file[f].ids \in Seq(Blocks) /\ file[f].cached \in SUBSET Blocks
           /\ Len(file[f].ids) \in Nat
           /\ free \in Seq(Blocks) /\ Len(free) \in Nat /\ leaky \in BOOLEAN
           /\ file \in [Files -> Fields \cup {Closed}]
           /\ inode[f].need \in 0 .. MaxData /\ inode[f].need <= Len(file[f].ids)
           /\ Len(file[f].ids) <= MaxData /\ MaxData \in Nat
           /\ [inode EXCEPT ![f].need = inode[f].need] = inode
           /\ Held(f, file[f].ids, file[f].cached, free, refs)
           /\ Pool(f) = ToSet(file[f].ids) \cup ToSet(free) /\ Pool(f) \subseteq Blocks
<1>1. TypeOK
  BY DEF Safe
<1>2. /\ file[f] \in Fields /\ file[f].ids \in Seq(Blocks) /\ free \in Seq(Blocks)
      /\ inode[f].need <= Len(file[f].ids) /\ Len(file[f].ids) <= MaxData
  BY OpenFacts
<1>3. /\ inode[f].need \in Nat /\ inode[f].need <= MaxData /\ MaxData \in Nat /\ inode[f] \in Node
  BY <1>1, NodeFacts DEF IsOpen
<1>4. leaky \in BOOLEAN /\ file \in [Files -> Fields \cup {Closed}]
      /\ inode \in [Files -> Node \cup {NoInode}]
  BY <1>1 DEF TypeOK
<1>5. [inode EXCEPT ![f].need = inode[f].need] = inode
  <2> DEFINE node == inode[f]
  <2>1. node = [node EXCEPT !.need = node.need]  BY <1>3 DEF Node
  <2> QED BY <1>4, <2>1
<1>6. Held(f, file[f].ids, file[f].cached, free, refs) /\ Pool(f) \subseteq Blocks
  BY OpenHeld
<1>7. file[f].cached \in SUBSET Blocks
  BY <1>2 DEF Fields
<1>8. Len(file[f].ids) \in Nat /\ Len(free) \in Nat
  BY <1>2
<1>9. inode[f].need \in 0 .. MaxData
  BY <1>3
<1>10. Pool(f) = ToSet(file[f].ids) \cup ToSet(free)
  BY DEF Pool
<1> QED BY <1>2, <1>3, <1>4, <1>5, <1>6, <1>7, <1>8, <1>9, <1>10

\* A part of a list.
LEMMA PartFacts ==
    ASSUME NEW s \in Seq(Blocks), NEW i \in Nat, NEW j \in Nat, j <= Len(s)
    PROVE  ToSet(SubSeq(s, i + 1, j)) \subseteq ToSet(s)
<1> DEFINE p == SubSeq(s, i + 1, j)
<1>1. Len(s) \in Nat /\ i + 1 \in Int /\ j \in Int
  OBVIOUS
<1>2. \A k \in i + 1 .. j : k \in 1 .. Len(s) /\ s[k] \in Blocks /\ s[k] \in ToSet(s)
  <2>1. \A k \in i + 1 .. j : k \in 1 .. Len(s)  BY <1>1
  <2> QED BY <2>1, ToSetType
<1>3. /\ p \in Seq(Blocks) /\ Len(p) = IF i + 1 <= j THEN j - (i + 1) + 1 ELSE 0
      /\ \A k \in 1 .. j - (i + 1) + 1 : p[k] = s[(i + 1) + k - 1]
  BY <1>1, <1>2, SubSeqProperties
<1> HIDE DEF p
<1>4. ASSUME NEW x \in ToSet(p) PROVE x \in ToSet(s)
  <2>1. PICK k \in 1 .. Len(p) : x = p[k]  BY <1>3, ToSetType
  <2>2. i + 1 <= j /\ k \in 1 .. j - (i + 1) + 1 /\ (i + 1) + k - 1 \in i + 1 .. j
    BY <1>1, <1>3, <2>1
  <2>3. x = s[(i + 1) + k - 1]  BY <1>3, <2>1, <2>2
  <2> QED BY <1>2, <2>2, <2>3
<1> QED BY <1>4 DEF p

\* read() and readall() keep the invariant.
LEMMA ReadStep ==
    ASSUME Safe, NEW f \in Files, NEW i \in 0 .. MaxData, NEW j \in 0 .. MaxData, Read(f, i, j)
    PROVE  Safe'
<1> DEFINE h == file[f]  s == h.ids  c == h.cached
           B == ToSet(SubSeq(s, i + 1, j)) \ c
<1>1. IsOpen(f)
  BY DEF Read
<1>2. /\ h \in Fields /\ s \in Seq(Blocks) /\ c \in SUBSET Blocks /\ Len(s) \in Nat
      /\ leaky \in BOOLEAN
      /\ inode[f].need \in 0 .. MaxData /\ inode[f].need <= Len(s) /\ Len(s) <= MaxData
      /\ MaxData \in Nat
      /\ [inode EXCEPT ![f].need = inode[f].need] = inode
      /\ Held(f, s, c, free, refs) /\ Pool(f) = ToSet(s) \cup ToSet(free)
      /\ file \in [Files -> Fields \cup {Closed}]
  BY <1>1, BeforeHandler
<1>3. /\ j <= inode[f].need
      /\ file' = [file EXCEPT ![f].cached = @ \cup B]
      /\ refs' = Referenced(refs, B) /\ UNCHANGED <<free, children, inode, history>>
  BY DEF Read, diskVars
<1>4. B \subseteq ToSet(s) /\ B \cap c = {}
  <2>1. i \in Nat /\ j \in Nat /\ j <= Len(s)  BY <1>2, <1>3
  <2>2. ToSet(SubSeq(s, i + 1, j)) \subseteq ToSet(s)
    <3> HIDE DEF s
    <3> QED BY <1>2, <2>1, PartFacts
  <2> QED BY <2>2
<1>5. file' = [file EXCEPT ![f] = With(h, s, c \cup B)]
  <2> HIDE DEF B
  <2>1. With(h, s, c \cup B) = [h EXCEPT !.cached = @ \cup B]  BY <1>2 DEF With, Fields
  <2> QED BY <1>2, <1>3, <2>1
<1> HIDE DEF B, s, c
<1>6. Held(f, s, c \cup B, free, Referenced(refs, B))
  BY <1>2, <1>4, HeldTouch
<1>7. Handles(f, s, c \cup B, inode[f].need)
  BY <1>2, <1>3, <1>5, <1>6 DEF Handles, history
<1> QED BY <1>1, <1>7, HandlerStep

\* truncate() to a smaller size keeps the invariant, stale pointers included.
LEMMA ShrinkStep ==
    ASSUME Safe, NEW f \in Files, NEW n \in 0 .. MaxData, Shrink(f, n)
    PROVE  Safe'
<1> DEFINE h == file[f]  s == h.ids  c == h.cached
           cut == SubSeq(s, n + 1, Len(s))  p == SubSeq(s, 1, n)
<1>1. IsOpen(f)
  BY DEF Shrink
<1>2. /\ h \in Fields /\ s \in Seq(Blocks) /\ c \in SUBSET Blocks /\ Len(s) \in Nat
      /\ leaky \in BOOLEAN
      /\ inode[f].need \in 0 .. MaxData /\ inode[f].need <= Len(s) /\ Len(s) <= MaxData
      /\ MaxData \in Nat
      /\ Held(f, s, c, free, refs) /\ Pool(f) = ToSet(s) \cup ToSet(free)
      /\ file \in [Files -> Fields \cup {Closed}]
  BY <1>1, BeforeHandler
<1>3. /\ n <= inode[f].need /\ free' = free \o cut /\ refs' = Counted(refs, {}, ToSet(cut))
      /\ file' = [file EXCEPT ![f].ids = SubSeq(@, 1, n)]
      /\ inode' = [inode EXCEPT ![f].need = n]
      /\ UNCHANGED <<children, history>>
  BY DEF Shrink
<1>4. n \in 0 .. Len(s) /\ n <= MaxData
  BY <1>2, <1>3
<1>5. file' = [file EXCEPT ![f] = With(h, p, c)]
  <2> HIDE DEF p
  <2>1. With(h, p, c) = [h EXCEPT !.ids = p]  BY <1>2 DEF With, Fields
  <2> QED BY <1>2, <1>3, <2>1 DEF p
<1>6. IsInjective(s)
  BY <1>2 DEF Held
<1> HIDE DEF s, c
<1>7. Halves(s, p, cut) /\ Len(p) = n
  BY <1>2, <1>4, <1>6, PrefixHalves
<1> HIDE DEF p, cut
<1>8. /\ Held(f, p, c, free \o cut, Counted(refs, {}, ToSet(cut)))
      /\ ToSet(p) \cup ToSet(free \o cut) = ToSet(s) \cup ToSet(free)
  <2>1. SamePins(c, c, p)  BY <1>2 DEF SamePins
  <2> QED BY <1>2, <1>7, <2>1, HeldGive
<1>9. Handles(f, p, c, n)
  <2>1. n <= Len(p) /\ Len(p) <= MaxData  BY <1>4, <1>7
  <2>2. /\ UNCHANGED <<children, stored, lost, dangling>> /\ leaky' = leaky
    BY <1>3 DEF history
  <2>3. Held(f, p, c, free', refs') /\ ToSet(p) \cup ToSet(free') = Pool(f)
    BY <1>2, <1>3, <1>8
  <2> QED BY <1>2, <1>3, <1>5, <2>1, <2>2, <2>3 DEF Handles
<1> QED BY <1>1, <1>9, HandlerStep

\* removeall() keeps the invariant.
LEMMA RemoveAllStep ==
    ASSUME Safe, NEW f \in Files, RemoveAll(f)
    PROVE  Safe'
<1> DEFINE h == file[f]  s == h.ids  c == h.cached  e == << >>
<1>1. IsOpen(f)
  BY DEF RemoveAll
<1>2. /\ h \in Fields /\ s \in Seq(Blocks) /\ c \in SUBSET Blocks
      /\ leaky \in BOOLEAN /\ MaxData \in Nat
      /\ Held(f, s, c, free, refs) /\ Pool(f) = ToSet(s) \cup ToSet(free)
      /\ file \in [Files -> Fields \cup {Closed}]
  BY <1>1, BeforeHandler
<1>3. /\ free' = free \o s /\ refs' = Counted(refs, {}, ToSet(s))
      /\ file' = [file EXCEPT ![f].ids = << >>, ![f].cached = {}]
      /\ inode' = [inode EXCEPT ![f].need = 0]
      /\ UNCHANGED <<children, history>>
  BY DEF RemoveAll
<1>4. e \in Seq(Blocks) /\ Len(e) = 0 /\ ToSet(e) = {} /\ IsInjective(e)
  BY EmptyFacts
<1>5. file' = [file EXCEPT ![f] = With(h, e, {})]
  <2>1. With(h, e, {}) = [h EXCEPT !.ids = << >>, !.cached = {}]  BY DEF With
  <2> QED BY <1>2, <1>3, <2>1
<1>6. IsInjective(s)
  BY <1>2 DEF Held
<1> HIDE DEF s, c, e
<1>7. /\ Held(f, e, {}, free \o s, Counted(refs, {}, ToSet(s)))
      /\ ToSet(e) \cup ToSet(free \o s) = ToSet(s) \cup ToSet(free)
  <2>1. SamePins({}, c, e)  BY <1>4 DEF SamePins
  <2>2. Halves(s, e, s)  BY <1>2, <1>4, <1>6 DEF Halves
  <2> QED BY <1>2, <2>1, <2>2, HeldGive
<1>8. Handles(f, e, {}, 0)
  <2>1. 0 \in 0 .. MaxData /\ 0 <= Len(e) /\ Len(e) <= MaxData  BY <1>2, <1>4
  <2>2. /\ UNCHANGED <<children, stored, lost, dangling>> /\ leaky' = leaky
    BY <1>3 DEF history
  <2>3. Held(f, e, {}, free', refs') /\ ToSet(e) \cup ToSet(free') = Pool(f)
    BY <1>2, <1>3, <1>7
  <2> QED BY <1>2, <1>3, <1>5, <2>1, <2>2, <2>3 DEF Handles
<1> QED BY <1>1, <1>8, HandlerStep

-----------------------------------------------------------------------------
(* The handlers that take blocks off the free list *)

\* Blocks granted make the list longer by as many.
LEMMA GrantLength ==
    ASSUME NEW p \in Seq(Blocks), NEW list \in Seq(Blocks), NEW m, NEW grant, Grants(list, m, grant)
    PROVE  /\ grant \in Seq(Blocks) /\ Len(grant) = m /\ Len(p \o grant) = Len(p) + m
           /\ m \in 0 .. Len(list)
<1>1. grant \in Seq(Blocks) /\ Len(grant) = m /\ m \in 0 .. Len(list)
  BY TakenFacts DEF Grants
<1>2. Len(p \o grant) = Len(p) + Len(grant)
  BY <1>1, ConcatProperties
<1> QED BY <1>1, <1>2

\* Blocks granted were free.
LEMMA GrantWithin ==
    ASSUME NEW list \in Seq(Blocks), NEW m, NEW grant, Grants(list, m, grant)
    PROVE  ToSet(grant) \subseteq ToSet(list)
<1>1. ToSet(list) = ToSet(Rest(list, m)) \cup ToSet(grant)
  BY TakenFacts DEF Grants
<1> QED BY <1>1

\* Two InodeFiles with the same entry blocks.
LEMMA WithEntries ==
    ASSUME NEW h \in Fields, NEW k \in Fields, h.entries = k.entries
    PROVE  /\ \A x, y : With(h, x, y) = With(k, x, y)
           /\ With(k, h.ids, h.cached) = h
BY DEF With, Fields

\* What is left when a handler gets n blocks, or as many as there are.
LEMMA ExtendSizes ==
    ASSUME NEW l \in Nat, NEW n \in Nat, NEW m \in Nat, NEW need \in Nat, NEW max \in Nat,
           need <= l, l <= max, n <= max
    PROVE  LET have == Smaller(n, l)
               new == Smaller(n - have, m)
               size == IF l + new < n THEN need ELSE Larger(need, n)
           IN  /\ have \in Nat /\ have <= l /\ new \in 0 .. m /\ l + new <= max
               /\ size \in 0 .. max /\ size <= l + new
BY DEF Smaller, Larger

\* write() and truncate() to a larger size keep the invariant, on a full disk too.
LEMMA ExtendStep ==
    ASSUME Safe, NEW f \in Files, IsOpen(f), NEW i \in 0 .. MaxData, NEW n \in 0 .. MaxData,
           Extend(f, i, n)
    PROVE  Safe'
<1> DEFINE h == file[f]  s == h.ids  c == h.cached  have == Smaller(n, Len(s))
           new == Smaller(n - have, Len(free))  grant == Taken(free, new)
           B == ToSet(SubSeq(s, i + 1, have)) \ c
           size == IF Len(s) + new < n THEN inode[f].need ELSE Larger(inode[f].need, n)
           q == c \cup B \cup ToSet(grant)  ids == s \o grant
<1>1. /\ h \in Fields /\ s \in Seq(Blocks) /\ c \in SUBSET Blocks /\ Len(s) \in Nat
      /\ leaky \in BOOLEAN /\ free \in Seq(Blocks) /\ Len(free) \in Nat
      /\ inode[f].need \in 0 .. MaxData /\ inode[f].need <= Len(s) /\ Len(s) <= MaxData
      /\ MaxData \in Nat
      /\ Held(f, s, c, free, refs) /\ Pool(f) = ToSet(s) \cup ToSet(free)
      /\ file \in [Files -> Fields \cup {Closed}]
  BY BeforeHandler
<1>2. /\ free' = Rest(free, new)
      /\ file' = [file EXCEPT ![f].ids = ids, ![f].cached = @ \cup B \cup ToSet(grant)]
      /\ refs' = Referenced(Counted(refs, ToSet(grant), {}), B)
      /\ inode' = [inode EXCEPT ![f].need = IF Len(ids) < n THEN @ ELSE Larger(@, n)]
      /\ UNCHANGED <<children, history>>
  BY DEF Extend
<1>3. /\ have \in Nat /\ have <= Len(s) /\ new \in 0 .. Len(free) /\ Len(s) + new <= MaxData
      /\ size \in 0 .. MaxData /\ size <= Len(s) + new
  <2> DEFINE l == Len(s)  m == Len(free)  need == inode[f].need
  <2>1. l \in Nat /\ m \in Nat /\ need \in Nat /\ MaxData \in Nat /\ n \in Nat
        /\ need <= l /\ l <= MaxData /\ n <= MaxData
    BY <1>1
  <2> HIDE DEF l, m, need
  <2>2. LET g == Smaller(n, l)
            w == Smaller(n - g, m)
            z == IF l + w < n THEN need ELSE Larger(need, n)
        IN  /\ g \in Nat /\ g <= l /\ w \in 0 .. m /\ l + w <= MaxData
            /\ z \in 0 .. MaxData /\ z <= l + w
    BY <2>1, ExtendSizes
  <2> QED BY <2>2 DEF l, m, need
<1> HIDE DEF have, new
<1>4. B \subseteq ToSet(s) /\ B \cap c = {}
  <2>1. i \in Nat  OBVIOUS
  <2>2. ToSet(SubSeq(s, i + 1, have)) \subseteq ToSet(s)
    <3> HIDE DEF s
    <3> QED BY <1>1, <1>3, <2>1, PartFacts
  <2> QED BY <2>2
<1>5. Grants(free, new, grant)
  BY <1>3 DEF Grants
<1>6. file' = [file EXCEPT ![f] = With(h, ids, q)]
  <2> HIDE DEF B, grant, ids
  <2>1. With(h, ids, q) = [h EXCEPT !.ids = ids, !.cached = @ \cup B \cup ToSet(grant)]  BY DEF With
  <2> QED BY <1>1, <1>2, <2>1
<1> HIDE DEF B, grant, s, c
<1>7. Len(ids) = Len(s) + new
  BY <1>1, <1>5, GrantLength
<1>8. inode' = [inode EXCEPT ![f].need = size]
  <2> DEFINE a == Len(ids) < n
  <2>1. size = IF a THEN inode[f].need ELSE Larger(inode[f].need, n)  BY <1>7
  <2>2. inode' = [inode EXCEPT ![f].need = IF a THEN @ ELSE Larger(@, n)]  BY <1>2
  <2>3. inode \in [Files -> Node \cup {NoInode}]  BY DEF Safe, TypeOK
  <2> HIDE DEF a, size
  <2> QED BY <2>1, <2>2, <2>3
<1>9. Held(f, ids, q, free', refs')
  <2>1. Held(f, ids, q, Rest(free, new), Referenced(Counted(refs, ToSet(grant), {}), B))
    BY <1>1, <1>4, <1>5, HeldExtend
  <2> QED BY <1>2, <2>1
<1>10. ToSet(ids) \cup ToSet(free') = Pool(f)
  <2>1. Given(f, s, c, free, refs, new, grant)  BY <1>1, <1>5, HeldGrant
  <2>2. Keeps(s, free, ids, Rest(free, new))  BY <2>1 DEF Given
  <2> HIDE DEF ids
  <2> QED BY <1>1, <1>2, <2>2 DEF Keeps
<1> HIDE DEF ids, q, size
<1>11. Handles(f, ids, q, size)
  <2>1. size <= Len(ids) /\ Len(ids) <= MaxData  BY <1>3, <1>7
  <2>2. /\ UNCHANGED <<children, stored, lost, dangling>> /\ leaky' = leaky
    BY <1>2 DEF history
  <2>3. size \in 0 .. MaxData  BY <1>3
  <2> QED BY <1>1, <1>6, <1>8, <1>9, <1>10, <2>1, <2>2, <2>3 DEF Handles
<1> QED BY <1>11, HandlerStep

\* No free block left, and the counters of those taken reset.
LEMMA HeldDrop ==
    ASSUME NEW f, NEW ids, NEW cached, NEW list, NEW counts, Held(f, ids, cached, list, counts),
           NEW G, G \subseteq ToSet(list)
    PROVE  Held(f, ids, cached, << >>, Counted(counts, {}, G))
<1> DEFINE c == Counted(counts, {}, G)  e == << >>
<1>1. /\ ids \in Seq(Blocks) /\ cached \in SUBSET Blocks /\ counts \in Counts
      /\ IsInjective(ids) /\ ToSet(ids) \cap ToSet(list) = {}
      /\ ToSet(ids) \cup ToSet(list) \subseteq Pool(f)
      /\ \A b \in Blocks :
            counts[b] = IF b \notin Pool(f) THEN refs[b]
                        ELSE IF b \in cached /\ b \in ToSet(ids) THEN 1 ELSE 0
  BY DEF Held
<1>2. e \in Seq(Blocks) /\ ToSet(e) = {} /\ IsInjective(e)
  BY EmptyFacts
<1>3. c \in Counts /\ \A b \in Blocks : c[b] = IF b \in G THEN 0 ELSE counts[b]
  BY <1>1, CountsFacts
<1> HIDE DEF c, e
<1>4. ASSUME NEW b \in Blocks
      PROVE  c[b] = IF b \notin Pool(f) THEN refs[b]
                    ELSE IF b \in cached /\ b \in ToSet(ids) THEN 1 ELSE 0
  <2>1. b \in G => b \in Pool(f) /\ b \notin ToSet(ids)  BY <1>1
  <2> QED BY <1>1, <1>3, <2>1
<1>5. Held(f, ids, cached, e, c)
  BY <1>1, <1>2, <1>3, <1>4 DEF Held
<1> QED BY <1>5 DEF c, e

\* An InodeFile with the fields h, about to rebuild its file from block i + 1 on.
Rebuilds(f, h, list, counts, i, n) ==
    /\ h \in Fields /\ h.entries = file[f].entries
    /\ Held(f, h.ids, h.cached, list, counts) /\ ToSet(h.ids) \cup ToSet(list) = Pool(f)
    /\ i \in 0 .. MaxData /\ n \in 0 .. MaxData /\ i <= n /\ i <= Len(h.ids)
    /\ i < n => Len(h.ids) <= MaxData
    /\ inode[f].need <= Len(h.ids)

\* move_to() keeps the invariant, and so does the TempData that runs out of blocks.
LEMMA RebuildStep ==
    ASSUME Safe, NEW f \in Files, IsOpen(f), NEW h, NEW list, NEW counts, NEW i, NEW n,
           Rebuilds(f, h, list, counts, i, n), Rebuild(f, h, list, counts, i, n),
           UNCHANGED <<children, stored, lost, dangling>>
    PROVE  Safe'
<1> DEFINE s == h.ids  c == h.cached  m == Smaller(n - i, Len(list))  grant == Taken(list, m)
           old == SubSeq(s, i + 1, Len(s))  p == SubSeq(s, 1, i)
<1>1. /\ file[f] \in Fields /\ leaky \in BOOLEAN /\ MaxData \in Nat
      /\ inode[f].need \in 0 .. MaxData
      /\ [inode EXCEPT ![f].need = inode[f].need] = inode
      /\ file \in [Files -> Fields \cup {Closed}]
  BY BeforeHandler
<1>2. /\ h \in Fields /\ h.entries = file[f].entries
      /\ Held(f, s, c, list, counts) /\ ToSet(s) \cup ToSet(list) = Pool(f)
      /\ i \in 0 .. MaxData /\ n \in 0 .. MaxData /\ i <= n /\ i <= Len(s)
      /\ i < n => Len(s) <= MaxData
      /\ inode[f].need <= Len(s)
  BY DEF Rebuilds
<1>3. /\ s \in Seq(Blocks) /\ Len(s) \in Nat /\ IsInjective(s)
      /\ list \in Seq(Blocks) /\ Len(list) \in Nat
  <2>1. s \in Seq(Blocks) /\ IsInjective(s) /\ list \in Seq(Blocks)  BY <1>2 DEF Held
  <2> QED BY <2>1
<1>4. /\ m \in 0 .. Len(list) /\ m <= n - i /\ (m < n - i => m = Len(list))
  <2> DEFINE l == Len(list)
  <2>1. l \in Nat /\ i \in Nat /\ n \in Nat /\ i <= n  BY <1>1, <1>2, <1>3
  <2> HIDE DEF l
  <2>2. /\ Smaller(n - i, l) \in 0 .. l /\ Smaller(n - i, l) <= n - i
        /\ Smaller(n - i, l) < n - i => Smaller(n - i, l) = l
    BY <2>1 DEF Smaller
  <2> QED BY <2>2 DEF l
<1>5. Grants(list, m, grant)
  BY <1>4 DEF Grants
<1>6. \/ /\ Len(grant) = n - i
         /\ free' = Rest(list, n - i) \o Reverse(old)
         /\ file' = [file EXCEPT ![f] =
                        [h EXCEPT !.ids = SubSeq(@, 1, i) \o grant,
                                  !.cached = (@ \ ToSet(old)) \cup ToSet(grant)]]
         /\ refs' = Counted(counts, ToSet(grant), ToSet(old))
         /\ inode' = [inode EXCEPT ![f].need = n]
         /\ UNCHANGED leaky
      \/ /\ Len(grant) < n - i
         /\ free' = << >>
         /\ file' = [file EXCEPT ![f] = h]
         /\ refs' = Counted(counts, {}, ToSet(grant))
         /\ leaky' = (leaky \/ grant # << >>)
         /\ UNCHANGED inode
  BY DEF Rebuild
<1> HIDE DEF m, grant
<1>7. CASE Len(grant) = n - i
  <2> DEFINE x == p \o grant  q == (c \ ToSet(old)) \cup ToSet(grant)
  <2>1. Len(grant) = m /\ m = n - i /\ Len(x) = Len(p) + m
    <3>1. Halves(s, p, old) /\ Len(p) = i  BY <1>2, <1>3, PrefixHalves
    <3>2. p \in Seq(Blocks)  BY <3>1 DEF Halves
    <3> HIDE DEF p
    <3>3. Len(grant) = m /\ Len(x) = Len(p) + m  BY <1>3, <1>5, <3>2, GrantLength
    <3> QED BY <1>7, <3>3
  <2>2. /\ free' = Rest(list, m) \o Reverse(old)
        /\ file' = [file EXCEPT ![f] = With(h, x, q)]
        /\ refs' = Counted(counts, ToSet(grant), ToSet(old))
        /\ inode' = [inode EXCEPT ![f].need = n]
        /\ leaky' = leaky
    <3> HIDE DEF old
    <3> QED BY <1>6, <1>7, <2>1 DEF With
  <2>3. Halves(s, p, old) /\ Len(p) = i
    BY <1>2, <1>3, PrefixHalves
  <2> HIDE DEF p, old, s, c
  <2>4. /\ Held(f, x, q, Rest(list, m) \o Reverse(old), Counted(counts, ToSet(grant), ToSet(old)))
        /\ Keeps(s, list, x, Rest(list, m) \o Reverse(old))
    BY <1>2, <1>5, <2>3, HeldMove
  <2> HIDE DEF x, q
  <2>5. Held(f, x, q, free', refs') /\ ToSet(x) \cup ToSet(free') = Pool(f)
    BY <1>2, <2>2, <2>4 DEF Keeps
  <2>6. n <= Len(x) /\ Len(x) <= MaxData  BY <1>1, <1>2, <2>1, <2>3
  <2>7. file' = [file EXCEPT ![f] = With(file[f], x, q)]
    <3>1. With(h, x, q) = With(file[f], x, q)  BY <1>1, <1>2, WithEntries
    <3> QED BY <2>2, <3>1
  <2>8. Handles(f, x, q, n)
    BY <1>1, <1>2, <2>2, <2>5, <2>6, <2>7 DEF Handles
  <2> QED BY <2>8, HandlerStep
<1>8. CASE Len(grant) < n - i
  <2>1. Len(grant) = m /\ m = Len(list) /\ i < n /\ grant \in Seq(Blocks)
    <3>1. Len(grant) = m /\ grant \in Seq(Blocks)  BY <1>3, <1>5, GrantLength
    <3>2. m = Len(list)  BY <1>4, <1>8, <3>1
    <3>3. i < n  BY <1>1, <1>2, <1>4, <1>8, <3>1
    <3> QED BY <3>1, <3>2, <3>3
  <2>2. /\ free' = << >> /\ file' = [file EXCEPT ![f] = h]
        /\ refs' = Counted(counts, {}, ToSet(grant))
        /\ leaky' = (leaky \/ grant # << >>) /\ inode' = inode
    BY <1>6, <1>8
  <2> HIDE DEF s, c
  <2>3. ToSet(grant) \subseteq ToSet(list)
    BY <1>3, <1>5, GrantWithin
  <2>4. Held(f, s, c, free', refs')
    <3>1. Held(f, s, c, << >>, Counted(counts, {}, ToSet(grant)))  BY <1>2, <2>3, HeldDrop
    <3> QED BY <2>2, <3>1
  <2>5. ~leaky' => ~leaky /\ ToSet(s) \cup ToSet(free') = Pool(f)
    <3> SUFFICES ASSUME ~leaky' PROVE ~leaky /\ ToSet(s) \cup ToSet(free') = Pool(f)
      OBVIOUS
    <3>1. ~leaky /\ grant = << >>  BY <2>2
    <3>2. Len(list) = 0  BY <2>1, <3>1
    <3>3. list = << >>  BY <1>3, <3>2
    <3> QED BY <1>2, <2>2, <3>1, <3>3
  <2>6. leaky' \in BOOLEAN  BY <2>2
  <2>7. With(file[f], s, c) = h
    BY <1>1, <1>2, WithEntries DEF s, c
  <2>8. /\ file' = [file EXCEPT ![f] = With(file[f], s, c)]
        /\ inode' = [inode EXCEPT ![f].need = inode[f].need]
        /\ Len(s) <= MaxData
    BY <1>1, <1>2, <2>1, <2>2, <2>7
  <2>9. Handles(f, s, c, inode[f].need)
    BY <1>1, <1>2, <2>4, <2>5, <2>6, <2>8 DEF Handles
  <2> QED BY <2>9, HandlerStep
<1> QED BY <1>6, <1>7, <1>8

\* insert() keeps the invariant.
LEMMA InsertStep ==
    ASSUME Safe, NEW f \in Files, NEW i \in 0 .. MaxData, NEW n \in 0 .. MaxData, Insert(f, i, n)
    PROVE  Safe'
<1> DEFINE h == file[f]  s == h.ids  c == h.cached
           m == IF i = Len(s) THEN Smaller(1, Len(free)) ELSE 0
           new == IF i = Len(s) THEN Taken(free, Smaller(1, Len(free))) ELSE << >>
           to == Smaller(i + 1, Len(s))  B == ToSet(SubSeq(s, i + 1, to)) \ c
           x == s \o new  q == c \cup B \cup ToSet(new)
           k == [h EXCEPT !.ids = @ \o new, !.cached = @ \cup B \cup ToSet(new)]
           list == Rest(free, Len(new))
           counts == Referenced(Counted(refs, ToSet(new), {}), B)
<1>1. IsOpen(f) /\ i <= inode[f].need /\ inode[f].need <= n
      /\ Rebuild(f, k, list, counts, i, n)
      /\ UNCHANGED <<children, stored, lost, dangling>>
  BY DEF Insert
<1>2. /\ h \in Fields /\ s \in Seq(Blocks) /\ c \in SUBSET Blocks /\ Len(s) \in Nat
      /\ free \in Seq(Blocks) /\ Len(free) \in Nat
      /\ inode[f].need \in 0 .. MaxData /\ inode[f].need <= Len(s) /\ Len(s) <= MaxData
      /\ MaxData \in Nat
      /\ Held(f, s, c, free, refs) /\ Pool(f) = ToSet(s) \cup ToSet(free)
  BY <1>1, BeforeHandler
<1>3. m \in 0 .. Len(free) /\ m <= 1 /\ (i # Len(s) => m = 0) /\ to \in Nat /\ to <= Len(s)
  <2> DEFINE l == Len(s)  u == Len(free)
  <2>1. l \in Nat /\ u \in Nat /\ i \in Nat  BY <1>2
  <2> HIDE DEF l, u
  <2>2. Smaller(1, u) \in 0 .. u /\ Smaller(1, u) <= 1 /\ Smaller(i + 1, l) \in Nat
        /\ Smaller(i + 1, l) <= l
    BY <2>1 DEF Smaller
  <2>3. 0 \in 0 .. u  BY <2>1
  <2> QED BY <2>2, <2>3 DEF l, u
<1>4. new = Taken(free, m)
  <2>1. CASE i = Len(s)  BY <2>1
  <2>2. CASE i # Len(s)
    <3>1. Taken(free, 0) \in Seq(Blocks) /\ Len(Taken(free, 0)) = 0
      <4>1. 0 \in 0 .. Len(free)  BY <1>2
      <4> QED BY <1>2, <4>1, TakenFacts
    <3>2. Taken(free, 0) = << >>  BY <3>1
    <3> QED BY <2>2, <3>2
  <2> QED BY <2>1, <2>2
<1> HIDE DEF m, new, to
<1>5. Grants(free, m, new)
  BY <1>3, <1>4 DEF Grants
<1>6. B \subseteq ToSet(s) /\ B \cap c = {}
  <2>1. i \in Nat  OBVIOUS
  <2>2. ToSet(SubSeq(s, i + 1, to)) \subseteq ToSet(s)
    <3> HIDE DEF s
    <3> QED BY <1>2, <1>3, <2>1, PartFacts
  <2> QED BY <2>2
<1> HIDE DEF B
<1>7. k \in Fields /\ k.ids = x /\ k.entries = h.entries /\ k.cached = q
  <2>1. x \in Seq(Blocks) /\ q \in SUBSET Blocks
    <3>1. new \in Seq(Blocks)  BY <1>2, <1>5, GrantLength
    <3>2. ToSet(new) \subseteq Blocks /\ ToSet(s) \subseteq Blocks  BY <1>2, <3>1, ToSetType
    <3>3. x \in Seq(Blocks)  BY <1>2, <3>1, JoinFacts
    <3> QED BY <1>2, <1>6, <3>2, <3>3
  <2>2. k = With(h, x, q)  BY DEF With
  <2> HIDE DEF k, x, q
  <2> QED BY <1>2, <2>1, <2>2, WithFacts
<1> HIDE DEF k, s, c
<1>8. Len(new) = m /\ Len(x) = Len(s) + m
  BY <1>2, <1>5, GrantLength
<1>9. Held(f, x, q, list, counts)
  <2>1. Held(f, x, q, Rest(free, m), Referenced(Counted(refs, ToSet(new), {}), B))
    BY <1>2, <1>5, <1>6, HeldExtend
  <2> QED BY <1>8, <2>1
<1>10. ToSet(x) \cup ToSet(list) = Pool(f)
  <2>1. Given(f, s, c, free, refs, m, new)  BY <1>2, <1>5, HeldGrant
  <2>2. Keeps(s, free, x, Rest(free, m))  BY <2>1 DEF Given
  <2> QED BY <1>2, <1>8, <2>2 DEF Keeps
<1> HIDE DEF x, q, list, counts
<1>11. i <= n /\ i <= Len(x) /\ (i < n => Len(x) <= MaxData) /\ inode[f].need <= Len(x)
  <2> DEFINE l == Len(s)  u == Len(free)  need == inode[f].need
  <2>1. l \in Nat /\ u \in Nat /\ m \in Nat /\ i \in Nat /\ n \in Nat /\ need \in Nat
        /\ Len(x) = l + m /\ need <= l /\ l <= MaxData /\ MaxData \in Nat /\ n <= MaxData
        /\ i <= need /\ need <= n /\ m <= 1 /\ (i # l => m = 0)
    BY <1>1, <1>2, <1>3, <1>8
  <2> HIDE DEF l, u, need
  <2>2. i <= n /\ i <= l + m /\ (i < n => l + m <= MaxData) /\ need <= l + m
    BY <2>1
  <2> QED BY <2>1, <2>2 DEF need
<1>12. Rebuilds(f, k, list, counts, i, n)
  BY <1>7, <1>9, <1>10, <1>11 DEF Rebuilds
<1> HIDE DEF h
<1> QED BY <1>1, <1>12, RebuildStep

\* remove() keeps the invariant.
LEMMA RemovePartStep ==
    ASSUME Safe, NEW f \in Files, NEW i \in 0 .. MaxData, NEW n \in 0 .. MaxData,
           RemovePart(f, i, n)
    PROVE  Safe'
<1> DEFINE h == file[f]  s == h.ids  c == h.cached  need == inode[f].need
<1>1. IsOpen(f) /\ i < need /\ i <= n /\ n <= need /\ UNCHANGED <<children, stored, lost, dangling>>
  BY DEF RemovePart
<1>2. /\ h \in Fields /\ s \in Seq(Blocks) /\ c \in SUBSET Blocks /\ Len(s) \in Nat
      /\ free \in Seq(Blocks)
      /\ need \in 0 .. MaxData /\ need <= Len(s) /\ Len(s) <= MaxData /\ MaxData \in Nat
      /\ Held(f, s, c, free, refs) /\ Pool(f) = ToSet(s) \cup ToSet(free)
  BY <1>1, BeforeHandler
<1>3. PICK from, to \in IF n - i <= Len(free) THEN {i + 1} ELSE i + 1 .. need :
         LET copied == {s[i + 1]} \cup ToSet(SubSeq(s, from, to))
         IN  Rebuild(f, [h EXCEPT !.cached = @ \cup copied], free,
                     Referenced(refs, copied \ c), i, n)
  BY DEF RemovePart
<1> DEFINE copied == {s[i + 1]} \cup ToSet(SubSeq(s, from, to))  B == copied \ c
           k == [h EXCEPT !.cached = @ \cup copied]
<1>4. Rebuild(f, k, free, Referenced(refs, B), i, n)
  BY <1>3
<1>5. from \in i + 1 .. need /\ to \in i + 1 .. need
  BY <1>1, <1>2, <1>3
<1>6. copied \subseteq ToSet(s)
  <2> HIDE DEF s, need
  <2>1. i + 1 \in 1 .. Len(s) /\ from - 1 \in Nat /\ to \in Nat /\ to <= Len(s)
        /\ from = (from - 1) + 1
    BY <1>1, <1>2, <1>5
  <2>2. s[i + 1] \in ToSet(s)  BY <1>2, <2>1, ToSetType
  <2>3. ToSet(SubSeq(s, (from - 1) + 1, to)) \subseteq ToSet(s)  BY <1>2, <2>1, PartFacts
  <2>4. ToSet(SubSeq(s, from, to)) \subseteq ToSet(s)  BY <2>1, <2>3
  <2> QED BY <2>2, <2>4
<1> HIDE DEF copied
<1>7. ToSet(s) \subseteq Blocks
  BY <1>2, ToSetType
<1>8. k \in Fields /\ k.ids = s /\ k.entries = h.entries /\ k.cached = c \cup copied
  BY <1>2, <1>6, <1>7 DEF Fields
<1>9. B \subseteq ToSet(s) /\ B \cap c = {} /\ c \cup B = c \cup copied
  BY <1>6
<1> HIDE DEF k, s, c, B
<1>10. Held(f, s, c \cup copied, free, Referenced(refs, B))
  <2>1. Held(f, s, c \cup B, free, Referenced(refs, B))  BY <1>2, <1>9, HeldTouch
  <2> QED BY <1>9, <2>1
<1> DEFINE counts == Referenced(refs, B)
<1> HIDE DEF counts
<1>11. Rebuilds(f, k, free, counts, i, n)
  <2>1. Held(f, k.ids, k.cached, free, counts)  BY <1>8, <1>10 DEF counts
  <2>2. i <= Len(s)  BY <1>1, <1>2
  <2> QED BY <1>1, <1>2, <1>8, <2>1, <2>2 DEF Rebuilds
<1>12. Rebuild(f, k, free, counts, i, n)
  BY <1>4 DEF counts
<1> HIDE DEF h, need
<1> QED BY <1>1, <1>11, <1>12, RebuildStep

-----------------------------------------------------------------------------
(* create, open, close and delete *)

\* The inode that create() writes.
LEMMA NewNode ==
    ASSUME NEW b \in Blocks
    PROVE  LET new == [id |-> b, need |-> 0, roots |-> <<Null, Null, Null>>,
                       direct |-> [k \in 1 .. Direct |-> Null]]
           IN  new \in Node /\ new # NoInode /\ new.id = b /\ new.need = 0
<1> DEFINE roots == <<Null, Null, Null>>  direct == [k \in 1 .. Direct |-> Null]
           new == [id |-> b, need |-> 0, roots |-> roots, direct |-> direct]
<1>1. Null \in 0 .. N /\ 0 \in 0 .. MaxData
  <2>1. MaxData \in Nat
    <3>1. Direct \in Nat /\ E \in Nat  BY SizesAssumption
    <3> DEFINE y == E * E  z == E * E * E
    <3>2. y \in Nat /\ z \in Nat  BY <3>1
    <3>3. Capacity = Direct + E + y + z  BY DEF Capacity
    <3> HIDE DEF y, z
    <3> QED BY <3>1, <3>2, <3>3, SizesAssumption
  <2> QED BY <2>1, SizesAssumption DEF Null
<1>2. roots \in [1 .. 3 -> 0 .. N]
  <2> DEFINE null == Null
  <2>1. null \in 0 .. N  BY <1>1
  <2> HIDE DEF null
  <2>2. <<null, null, null>> \in [1 .. 3 -> 0 .. N]  BY <2>1
  <2> QED BY <2>2 DEF null
<1>3. direct \in [1 .. Direct -> 0 .. N]
  BY <1>1
<1> HIDE DEF roots, direct
<1>4. new \in Node /\ new.id = b /\ new.need = 0
  BY <1>1, <1>2, <1>3 DEF Node
<1>5. new # NoInode
  BY <1>4, MarksAssumption
<1> QED BY <1>4, <1>5 DEF roots, direct

\* create() keeps the invariant.
LEMMA CreateStep ==
    ASSUME Safe, NEW f \in Files, Create(f)
    PROVE  Safe'
<1> DEFINE b == Last(free)  l == Front(free)  o == <<b>>  e == << >>
           h == [ids |-> e, entries |-> e, cached |-> {}]
           new == [id |-> b, need |-> 0, roots |-> <<Null, Null, Null>>,
                   direct |-> [k \in 1 .. Direct |-> Null]]
<1>0. TypeOK /\ Disjoint /\ Exact
  BY DEF Safe
<1>1. /\ ~Exists(f) /\ free # << >>
      /\ inode' = [inode EXCEPT ![f] = new] /\ refs' = Counted(refs, {b}, {})
      /\ free' = l /\ file' = [file EXCEPT ![f] = h]
      /\ UNCHANGED <<children, history>>
  BY DEF Create
<1>2. free \in Seq(Blocks) /\ IsInjective(free) /\ refs \in Counts
      /\ inode \in [Files -> Node \cup {NoInode}] /\ file \in [Files -> Fields \cup {Closed}]
  BY <1>0 DEF TypeOK, Disjoint, Counts
<1>3. b \in Blocks /\ l \in Seq(Blocks) /\ free = l \o o
  BY <1>1, <1>2, LastFacts
<1>4. new \in Node /\ new # NoInode /\ new.id = b /\ new.need = 0
  BY <1>3, NewNode
<1>5. o \in Seq(Blocks) /\ ToSet(o) = {b}
  BY <1>3, OneFacts
<1>6. e \in Seq(Blocks) /\ ToSet(e) = {} /\ IsInjective(e) /\ Len(e) = 0
  BY EmptyFacts
<1> HIDE DEF b, l, o, e, new
<1>7. ToSet(free) = ToSet(l) \cup {b} /\ IsInjective(l) /\ b \notin ToSet(l)
  <2>1. /\ ToSet(l \o o) = ToSet(l) \cup ToSet(o)
        /\ IsInjective(l \o o) => IsInjective(l) /\ ToSet(l) \cap ToSet(o) = {}
    BY <1>3, <1>5, JoinFacts
  <2> QED BY <1>2, <1>3, <1>5, <2>1
<1>8. h \in Fields /\ h.ids = e /\ h.entries = e /\ h.cached = {}
  BY <1>6 DEF Fields
<1> HIDE DEF h
<1>9. h # Closed
  BY <1>8, MarksAssumption
<1>10. /\ inode'[f] = new /\ file'[f] = h
       /\ inode' \in [Files -> Node \cup {NoInode}] /\ file' \in [Files -> Fields \cup {Closed}]
       /\ \A g \in Files \ {f} : inode'[g] = inode[g] /\ file'[g] = file[g]
  BY <1>1, <1>2, <1>4, <1>8
<1>11. refs' \in Counts /\ \A x \in Blocks : refs'[x] = IF x \in {b} THEN 1 ELSE refs[x]
  BY <1>1, <1>2, CountsFacts
<1>12. UNCHANGED <<children, stored, lost, leaky, dangling>>
  BY <1>1 DEF history
<1>13. TypeOK'
  BY <1>0, <1>1, <1>3, <1>10, <1>11, <1>12 DEF TypeOK, Counts
<1>14. Own(f) = {} /\ Pins(f) = {}
  BY <1>1, <1>6 DEF Own, Owned, Pins, IsOpen, e
<1>15. Region(f) = ToSet(l) \cup {b} /\ Region(f) \subseteq Blocks
  <2>1. ToSet(l) \subseteq Blocks  BY <1>3, ToSetType
  <2> QED BY <1>3, <1>7, <1>14, <2>1 DEF Region
<1>16. Others(f)
  BY <1>10, <1>11, <1>12, <1>15 DEF Others
<1>17. \A x \in Region(f) : refs[x] = 0
  BY <1>0, <1>14, <1>15, LocalRefs, PinsOwned
<1>18. /\ inode'[f].id = b /\ inode'[f].need = 0 /\ file'[f].ids = e /\ file'[f].entries = e
       /\ file'[f].cached = {}
  BY <1>4, <1>8, <1>10
<1>19. \A x \in Region(f) :
          refs'[x] = IF x \in (file'[f].cached \cap ToSet(file'[f].ids)) \cup {inode'[f].id}
                     THEN 1 ELSE 0
  <2>1. \A x \in Region(f) : refs'[x] = IF x \in {b} THEN 1 ELSE 0  BY <1>11, <1>15, <1>17
  <2>2. (file'[f].cached \cap ToSet(file'[f].ids)) \cup {inode'[f].id} = {b}  BY <1>18
  <2> QED BY <2>1, <2>2
<1>20. IsApart(inode'[f].id, file'[f].ids, file'[f].entries, free')
  <2>1. IsApart(b, e, e, l)  BY <1>6, <1>7 DEF IsApart
  <2> QED BY <1>1, <1>18, <2>1
<1>21. LET R == {inode'[f].id} \cup ToSet(file'[f].ids) \cup ToSet(file'[f].entries)
                   \cup ToSet(free')
       IN  R \subseteq Region(f) /\ (~leaky' => ~leaky /\ R = Region(f))
  <2>1. {b} \cup ToSet(e) \cup ToSet(e) \cup ToSet(l) = Region(f)  BY <1>6, <1>15
  <2> QED BY <1>1, <1>12, <1>18, <2>1
<1>22. Exists(f)' /\ file'[f] # Closed
  BY <1>4, <1>9, <1>10 DEF Exists
<1>23. inode'[f].need <= Len(file'[f].ids) /\ Len(file'[f].ids) <= MaxData
  <2>1. 0 <= MaxData
    <3>1. new.need \in 0 .. MaxData  BY <1>4 DEF Node
    <3> QED BY <1>4, <3>1
  <2> QED BY <1>6, <1>18, <2>1
<1> QED BY <1>13, <1>15, <1>16, <1>19, <1>20, <1>21, <1>22, <1>23, OpenStep

\* An InodeFile with the fields h, about to be closed.
Closes(f, h, counts) ==
    /\ h \in Fields /\ counts \in Counts
    /\ IsApart(inode[f].id, h.ids, h.entries, free)
    /\ Region(f) = {inode[f].id} \cup ToSet(h.ids) \cup ToSet(h.entries) \cup ToSet(free)
    /\ Len(h.ids) <= MaxData /\ Smaller(Direct, inode[f].need) <= Len(h.ids)
    /\ Len(h.ids) < inode[f].need => Len(h.ids) <= Direct + E + E * E
    /\ \A b \in Blocks :
          counts[b] = IF b \notin Region(f) THEN refs[b]
                      ELSE IF b \in (h.cached \cap ToSet(h.ids)) \cup {inode[f].id} THEN 1 ELSE 0
    /\ stored' \in [Files -> Seq(Blocks)] /\ \A g \in Files \ {f} : stored'[g] = stored[g]
    /\ f \notin lost => inode[f].need <= Len(h.ids) /\ stored'[f] = h.ids

\* CloseStep, with its conditions in one formula.
LEMMA ClosingStep ==
    ASSUME Safe, ~dangling', NEW f \in Files, Exists(f), NEW h, NEW counts,
           Closes(f, h, counts), CloseWith(f, h, counts)
    PROVE  Safe'
<1>1. /\ h \in Fields /\ counts \in Counts
      /\ IsApart(inode[f].id, h.ids, h.entries, free)
      /\ Region(f) = {inode[f].id} \cup ToSet(h.ids) \cup ToSet(h.entries) \cup ToSet(free)
      /\ Len(h.ids) <= MaxData /\ Smaller(Direct, inode[f].need) <= Len(h.ids)
      /\ Len(h.ids) < inode[f].need => Len(h.ids) <= Direct + E + E * E
      /\ \A b \in Blocks :
            counts[b] = IF b \notin Region(f) THEN refs[b]
                        ELSE IF b \in (h.cached \cap ToSet(h.ids)) \cup {inode[f].id} THEN 1 ELSE 0
      /\ stored' \in [Files -> Seq(Blocks)] /\ \A g \in Files \ {f} : stored'[g] = stored[g]
      /\ f \notin lost => inode[f].need <= Len(h.ids) /\ stored'[f] = h.ids
  BY DEF Closes
<1> QED BY <1>1, CloseStep

\* close() keeps the invariant as long as it gives back only what it holds.
LEMMA CloseActionStep ==
    ASSUME Safe, ~dangling', NEW f \in Files, Close(f)
    PROVE  Safe'
<1> DEFINE a == inode[f].id  h == file[f]  s == h.ids  t == h.entries  need == inode[f].need
<1>0. TypeOK
  BY DEF Safe
<1>1. IsOpen(f) /\ CloseWith(f, h, refs) /\ stored' = [stored EXCEPT ![f] = s]
  BY DEF Close
<1>2. /\ a \in Blocks /\ h \in Fields /\ s \in Seq(Blocks) /\ Len(s) \in Nat
      /\ IsApart(a, s, t, free)
      /\ Region(f) = {a} \cup ToSet(s) \cup ToSet(t) \cup ToSet(free)
      /\ need <= Len(s) /\ Len(s) <= MaxData
      /\ Pins(f) = (h.cached \cap ToSet(s)) \cup {a}
      /\ \A b \in Region(f) : refs[b] = IF b \in Pins(f) THEN 1 ELSE 0
  BY <1>1, OpenFacts
<1>3. Exists(f)
  BY <1>1 DEF IsOpen
<1>4. need \in Nat
  BY <1>0, <1>3, NodeFacts
<1>5. Smaller(Direct, need) <= Len(s)
  <2> DEFINE l == Len(s)
  <2>1. l \in Nat /\ need \in Nat /\ need <= l /\ Direct \in Nat  BY <1>2, <1>4, SizesAssumption
  <2> HIDE DEF l, need
  <2>2. Smaller(Direct, need) <= l  BY <2>1 DEF Smaller
  <2> QED BY <2>2 DEF l
<1>6. ~(Len(s) < need)
  BY <1>2, <1>4
<1>7. /\ stored' \in [Files -> Seq(Blocks)] /\ stored'[f] = s
      /\ \A g \in Files \ {f} : stored'[g] = stored[g]
  <2>1. stored \in [Files -> Seq(Blocks)]  BY <1>0 DEF TypeOK
  <2> HIDE DEF s
  <2> QED BY <1>1, <1>2, <2>1
<1>8. \A b \in Blocks :
         refs[b] = IF b \notin Region(f) THEN refs[b]
                   ELSE IF b \in (h.cached \cap ToSet(s)) \cup {a} THEN 1 ELSE 0
  BY <1>2
<1>9. refs \in Counts
  BY <1>0 DEF TypeOK, Counts
<1>10. Closes(f, h, refs)
  BY <1>2, <1>5, <1>6, <1>7, <1>8, <1>9 DEF Closes
<1> HIDE DEF h
<1> QED BY <1>1, <1>3, <1>10, ClosingStep

\* open() keeps the invariant, and so does the close() after a failed one.
LEMMA OpenActionStep ==
    ASSUME Safe, ~dangling', NEW f \in Files, Open(f)
    PROVE  Safe'
<1> DEFINE node == inode[f]  a == node.id  F == Found(f)  s == F.ids  t == F.entries
           need == node.need
           h == [ids |-> s, entries |-> t, cached |-> {}]  counts == Referenced(refs, {a})
<1>0. TypeOK /\ FileOK(f)
  BY DEF Safe
<1>1. /\ Exists(f) /\ ~IsOpen(f)
      /\ \/ /\ F.ok /\ file' = [file EXCEPT ![f] = h] /\ refs' = counts
            /\ stored' = [stored EXCEPT ![f] = << >>]
            /\ UNCHANGED <<diskVars, lost, leaky, dangling>>
         \/ /\ ~F.ok /\ CloseWith(f, h, counts) /\ UNCHANGED stored
  BY DEF Open, Found
<1>2. /\ a \in Blocks /\ s \in Seq(Blocks) /\ t \in Seq(Blocks) /\ Len(s) \in Nat
      /\ IsApart(a, s, t, free)
      /\ Region(f) = {a} \cup ToSet(s) \cup ToSet(t) \cup ToSet(free)
      /\ Region(f) \subseteq Blocks
      /\ Smaller(Direct, need) <= Len(s) /\ Len(s) <= MaxData
      /\ \A b \in Region(f) : refs[b] = 0
  BY <1>1, ClosedFacts
<1>3. /\ F.ok => Len(s) = need
      /\ ~F.ok => Len(s) <= Direct + E + E * E
      /\ f \notin lost => F.ok
  BY <1>0, <1>1 DEF FileOK
<1>4. refs \in Counts
  BY <1>0 DEF TypeOK, Counts
<1>5. need \in Nat /\ node \in Node
  BY <1>0, <1>1, NodeFacts
<1> HIDE DEF F
<1>6. h \in Fields /\ h.ids = s /\ h.entries = t /\ h.cached = {}
  BY <1>2 DEF Fields
<1>7. h # Closed
  BY <1>6, MarksAssumption
<1> HIDE DEF h, s, t, a
<1>8. counts \in Counts /\ \A b \in Blocks :
         counts[b] = IF b \notin Region(f) THEN refs[b] ELSE IF b = a THEN 1 ELSE 0
  <2> DEFINE G == {a}
  <2>0. \A b : b \in G <=> b = a
    OBVIOUS
  <2> HIDE DEF G
  <2>1. /\ counts \in Counts
        /\ \A b \in Blocks : b \in G /\ refs[b] = 0 => counts[b] = 1
        /\ \A b \in Blocks : b \notin G => counts[b] = refs[b]
    <3>1. counts = Referenced(refs, G)  BY DEF G
    <3> HIDE DEF counts
    <3> QED BY <1>4, <3>1, CountsFacts
  <2>2. a \in Region(f)  BY <1>2
  <2> HIDE DEF counts
  <2> QED BY <1>2, <2>0, <2>1, <2>2
<1> HIDE DEF counts
<1>9. ASSUME F.ok, file' = [file EXCEPT ![f] = h], refs' = counts,
             stored' = [stored EXCEPT ![f] = << >>],
             UNCHANGED <<diskVars, lost, leaky, dangling>>
      PROVE  Safe'
  <2>1. UNCHANGED <<free, children, inode, lost, leaky, dangling>>
    BY <1>9 DEF diskVars
  <2>2. /\ file'[f] = h /\ file' \in [Files -> Fields \cup {Closed}]
        /\ \A g \in Files \ {f} : file'[g] = file[g]
    <3>1. file \in [Files -> Fields \cup {Closed}]  BY <1>0 DEF TypeOK
    <3> QED BY <1>6, <1>9, <3>1
  <2>3. stored' \in [Files -> Seq(Blocks)] /\ \A g \in Files \ {f} : stored'[g] = stored[g]
    <3>1. stored \in [Files -> Seq(Blocks)]  BY <1>0 DEF TypeOK
    <3> QED BY <1>9, <3>1, EmptyFacts
  <2>4. TypeOK'
    BY <1>0, <1>8, <1>9, <2>1, <2>2, <2>3 DEF TypeOK, Counts
  <2>5. Others(f)
    BY <1>8, <1>9, <2>1, <2>2, <2>3 DEF Others
  <2>6. inode'[f].id = a /\ inode'[f].need = need /\ file'[f].ids = s /\ file'[f].entries = t
        /\ file'[f].cached = {} /\ free' = free /\ leaky' = leaky
    BY <1>6, <2>1, <2>2 DEF a
  <2>7. \A b \in Region(f) :
           refs'[b] = IF b \in (file'[f].cached \cap ToSet(file'[f].ids)) \cup {inode'[f].id}
                      THEN 1 ELSE 0
    <3>1. \A b \in Region(f) : refs'[b] = IF b = a THEN 1 ELSE 0  BY <1>2, <1>8, <1>9
    <3>2. (file'[f].cached \cap ToSet(file'[f].ids)) \cup {inode'[f].id} = {a}  BY <2>6
    <3> QED BY <3>1, <3>2
  <2>8. IsApart(inode'[f].id, file'[f].ids, file'[f].entries, free')
    BY <1>2, <2>6
  <2>9. LET R == {inode'[f].id} \cup ToSet(file'[f].ids) \cup ToSet(file'[f].entries)
                   \cup ToSet(free')
        IN  R \subseteq Region(f) /\ (~leaky' => ~leaky /\ R = Region(f))
    BY <1>2, <2>6
  <2>10. Exists(f)' /\ file'[f] # Closed
    BY <1>1, <1>7, <2>1, <2>2 DEF Exists
  <2>11. inode'[f].need <= Len(file'[f].ids) /\ Len(file'[f].ids) <= MaxData
    BY <1>2, <1>3, <1>5, <1>9, <2>6
  <2> QED BY <1>2, <2>4, <2>5, <2>7, <2>8, <2>9, <2>10, <2>11, OpenStep
<1>10. ASSUME ~F.ok, CloseWith(f, h, counts), UNCHANGED stored
       PROVE  Safe'
  <2>1. stored \in [Files -> Seq(Blocks)]  BY <1>0 DEF TypeOK
  <2>2. \A b \in Blocks :
           counts[b] = IF b \notin Region(f) THEN refs[b]
                       ELSE IF b \in (h.cached \cap ToSet(h.ids)) \cup {inode[f].id} THEN 1 ELSE 0
    <3>1. (h.cached \cap ToSet(h.ids)) \cup {inode[f].id} = {a}  BY <1>6 DEF a
    <3> QED BY <1>8, <3>1
  <2>3. f \in lost  BY <1>3, <1>10
  <2>4. Len(h.ids) <= Direct + E + E * E  BY <1>3, <1>6, <1>10
  <2>5. Closes(f, h, counts)
    <3>1. Len(h.ids) <= MaxData /\ Smaller(Direct, inode[f].need) <= Len(h.ids)  BY <1>2, <1>6
    <3>2. IsApart(inode[f].id, h.ids, h.entries, free)  BY <1>2, <1>6 DEF a
    <3>3. Region(f) = {inode[f].id} \cup ToSet(h.ids) \cup ToSet(h.entries) \cup ToSet(free)
      BY <1>2, <1>6 DEF a
    <3>4. stored' \in [Files -> Seq(Blocks)] /\ \A g \in Files \ {f} : stored'[g] = stored[g]
      BY <1>10, <2>1
    <3> QED BY <1>6, <1>8, <2>2, <2>3, <2>4, <3>1, <3>2, <3>3, <3>4 DEF Closes
  <2> QED BY <1>1, <1>10, <2>5, ClosingStep
<1> QED BY <1>1, <1>9, <1>10

\* Removing a file keeps the invariant.
LEMMA DeleteStep ==
    ASSUME Safe, NEW f \in Files, Delete(f)
    PROVE  Safe'
<1> DEFINE a == inode[f].id  h == file[f]  s == h.ids  t == h.entries  o == <<a>>
           gone == (s \o t) \o o  R == Region(f)  D == {a} \cup ToSet(s) \cup ToSet(t)
<1>0. TypeOK
  BY DEF Safe
<1>1. /\ IsOpen(f) /\ free' = free \o gone
      /\ children' = [b \in Blocks |-> IF b \in ToSet(gone) THEN << >> ELSE children[b]]
      /\ refs' = Counted(refs, {}, ToSet(gone))
      /\ inode' = [inode EXCEPT ![f] = NoInode]
      /\ file' = [file EXCEPT ![f] = Closed]
      /\ stored' = [stored EXCEPT ![f] = << >>]
      /\ lost' = lost \ {f} /\ UNCHANGED <<leaky, dangling>>
  BY DEF Delete
<1>2. /\ a \in Blocks /\ s \in Seq(Blocks) /\ t \in Seq(Blocks) /\ free \in Seq(Blocks)
      /\ IsApart(a, s, t, free)
      /\ R = {a} \cup ToSet(s) \cup ToSet(t) \cup ToSet(free) /\ R \subseteq Blocks
      /\ Pins(f) = (h.cached \cap ToSet(s)) \cup {a}
      /\ \A b \in R : refs[b] = IF b \in Pins(f) THEN 1 ELSE 0
  BY <1>1, OpenFacts
<1>3. o \in Seq(Blocks) /\ ToSet(o) = {a} /\ IsInjective(o)
  BY <1>2, OneFacts
<1> HIDE DEF a, s, t, o
<1>4. gone \in Seq(Blocks) /\ ToSet(gone) = D /\ IsInjective(gone)
  <2> DEFINE p == s \o t
  <2>1. p \in Seq(Blocks) /\ ToSet(p) = ToSet(s) \cup ToSet(t) /\ IsInjective(p)
    BY <1>2, JoinFacts DEF IsApart
  <2>2. a \notin ToSet(s) /\ a \notin ToSet(t)  BY <1>2 DEF IsApart
  <2> HIDE DEF p
  <2>3. p \o o \in Seq(Blocks) /\ ToSet(p \o o) = ToSet(p) \cup ToSet(o) /\ IsInjective(p \o o)
    <3>1. ToSet(p) \cap ToSet(o) = {}  BY <1>3, <2>1, <2>2
    <3> QED BY <1>3, <2>1, <3>1, JoinFacts
  <2>4. ToSet(p \o o) = D  BY <1>3, <2>1, <2>3
  <2> QED BY <2>3, <2>4 DEF p
<1> HIDE DEF gone
<1>5. free' \in Seq(Blocks) /\ ToSet(free') = R /\ IsInjective(free')
  <2>1. IsInjective(free) /\ ToSet(free) \cap D = {}  BY <1>2 DEF IsApart
  <2>2. /\ free \o gone \in Seq(Blocks) /\ ToSet(free \o gone) = ToSet(free) \cup ToSet(gone)
        /\ IsInjective(free \o gone)
    BY <1>2, <1>4, <2>1, JoinFacts
  <2>3. R = ToSet(free) \cup D  BY <1>2
  <2> QED BY <1>1, <1>4, <2>2, <2>3
<1>6. refs' \in Counts /\ \A b \in Blocks : refs'[b] = IF b \in D THEN 0 ELSE refs[b]
  <2>1. refs \in Counts  BY <1>0 DEF TypeOK, Counts
  <2> QED BY <1>1, <1>4, <2>1, CountsFacts
<1>7. D \subseteq R /\ \A b \in R : refs'[b] = 0
  <2>1. D \subseteq R /\ Pins(f) \subseteq D  BY <1>2
  <2>2. \A b \in R : b \notin D => refs[b] = 0  BY <1>2, <2>1
  <2> HIDE DEF D
  <2> QED BY <1>2, <1>6, <2>1, <2>2
<1>8. /\ inode' \in [Files -> Node \cup {NoInode}] /\ inode'[f] = NoInode
      /\ file' \in [Files -> Fields \cup {Closed}] /\ file'[f] = Closed
      /\ stored' \in [Files -> Seq(Blocks)] /\ lost' \in SUBSET Files
      /\ \A g \in Files \ {f} :
            /\ inode'[g] = inode[g] /\ file'[g] = file[g] /\ stored'[g] = stored[g]
            /\ g \in lost' <=> g \in lost
  <2>1. /\ inode \in [Files -> Node \cup {NoInode}] /\ file \in [Files -> Fields \cup {Closed}]
        /\ stored \in [Files -> Seq(Blocks)] /\ lost \in SUBSET Files
    BY <1>0 DEF TypeOK
  <2> QED BY <1>1, <2>1, EmptyFacts
<1>9. children' \in Maps /\ \A b \in Blocks \ R : children'[b] = children[b]
  <2>1. children \in Maps  BY <1>0 DEF TypeOK, Maps
  <2>2. \A b \in Blocks : b \notin R => b \notin ToSet(gone)  BY <1>4, <1>7
  <2> HIDE DEF R
  <2> QED BY <1>1, <2>1, <2>2, EmptyFacts DEF Maps
<1>10. TypeOK'
  BY <1>0, <1>1, <1>5, <1>6, <1>8, <1>9 DEF TypeOK, Counts, Maps
<1>11. Others(f)
  <2>1. \A b \in Blocks \ R : refs'[b] = refs[b]  BY <1>6, <1>7
  <2> QED BY <1>8, <1>9, <2>1 DEF Others
<1>12. ~Exists(f)'
  BY <1>8 DEF Exists
<1>13. Owned(f)' = << >> /\ Own(f)' = {} /\ IsInjective(Owned(f)') /\ Pins(f)' = {} /\ FileOK(f)'
  <2>1. Owned(f)' = << >>  BY <1>12 DEF Owned
  <2>2. Own(f)' = {} /\ IsInjective(Owned(f)')  BY <2>1, EmptyFacts DEF Own
  <2>3. Pins(f)' = {}  BY <1>12 DEF Pins, IsOpen
  <2>4. FileOK(f)'  BY <1>12 DEF FileOK
  <2> QED BY <2>1, <2>2, <2>3, <2>4
<1>14. Own(f)' \cap ToSet(free') = {} /\ Own(f)' \cup ToSet(free') = R
  BY <1>5, <1>13
<1>15. \A b \in Region(f) : refs'[b] = IF b \in Pins(f)' THEN 1 ELSE 0
  BY <1>7, <1>13
<1>16. ~leaky' => ~leaky
  BY <1>1
<1> QED BY <1>2, <1>5, <1>10, <1>11, <1>13, <1>14, <1>15, <1>16, FileStep

-----------------------------------------------------------------------------
(* The invariant holds *)

\* The empty disk satisfies the invariant.
LEMMA Initially == Init => IInv
<1> SUFFICES ASSUME Init PROVE Safe
  BY DEF IInv
<1>1. N \in Nat /\ 0 \in 0 .. RefMax
  BY SizesAssumption
<1>2. free \in Seq(Blocks) /\ ToSet(free) = Blocks /\ IsInjective(free)
  <2>1. free = [k \in 1 .. N |-> N + 1 - k]  BY DEF Init, Blocks
  <2>2. \A k \in 1 .. N : N + 1 - k \in 1 .. N  BY <1>1
  <2>3. free \in [1 .. N -> Blocks]  BY <2>1, <2>2 DEF Blocks
  <2>4. free \in Seq(Blocks) /\ DOMAIN free = 1 .. N  BY <1>1, <2>3
  <2>5. \A b \in 1 .. N : b = free[N + 1 - b] /\ N + 1 - b \in 1 .. N
    <3> TAKE b \in 1 .. N
    <3>1. N + 1 - b \in 1 .. N /\ N + 1 - (N + 1 - b) = b  BY <1>1
    <3> QED BY <2>1, <3>1
  <2>6. ToSet(free) = Blocks  BY <2>3, <2>4, <2>5 DEF ToSet, Blocks
  <2>7. IsInjective(free)
    <3>1. ASSUME NEW i \in 1 .. N, NEW j \in 1 .. N, free[i] = free[j] PROVE i = j
      <4>1. free[i] = N + 1 - i /\ free[j] = N + 1 - j  BY <2>1
      <4>2. N + 1 - i = N + 1 - j  BY <3>1, <4>1
      <4>3. N \in Int /\ i \in Int /\ j \in Int  BY <1>1
      <4> QED BY <4>2, <4>3
    <3> QED BY <2>4, <3>1 DEF IsInjective
  <2> QED BY <2>4, <2>6, <2>7
<1>3. TypeOK
  <2>1. children \in [Blocks -> Seq(Blocks)] /\ stored \in [Files -> Seq(Blocks)]
    BY EmptyFacts DEF Init
  <2>2. inode \in [Files -> Node \cup {NoInode}] /\ file \in [Files -> Fields \cup {Closed}]
    BY DEF Init
  <2>3. refs \in [Blocks -> 0 .. RefMax]  BY <1>1 DEF Init
  <2> QED BY <1>2, <2>1, <2>2, <2>3 DEF Init, TypeOK
<1>4. \A f \in Files : ~Exists(f) /\ Owned(f) = << >> /\ Pins(f) = {} /\ FileOK(f)
  BY DEF Init, Exists, Owned, Pins, IsOpen, FileOK
<1>5. \A f \in Files : Own(f) = {} /\ IsInjective(Owned(f))
  BY <1>4, EmptyFacts DEF Own
<1>6. Disjoint /\ Covered
  BY <1>2, <1>5 DEF Disjoint, Covered
<1>7. Exact
  BY <1>4 DEF Exact, Init
<1> QED BY <1>3, <1>4, <1>6, <1>7 DEF Safe

\* Every operation keeps the invariant, until a close() gives back too much.
LEMMA StepSafe ==
    ASSUME Safe, Next, ~dangling'
    PROVE  Safe'
<1>1. PICK f \in Files :
        \/ Create(f) \/ Open(f) \/ Close(f) \/ RemoveAll(f) \/ Delete(f)
        \/ \E n \in 0 .. MaxData : Grow(f, n) \/ Shrink(f, n)
        \/ \E i, n \in 0 .. MaxData :
              Read(f, i, n) \/ Write(f, i, n) \/ Insert(f, i, n) \/ RemovePart(f, i, n)
  BY DEF Next
<1>2. CASE Create(f)  BY <1>2, CreateStep
<1>3. CASE Open(f)  BY <1>3, OpenActionStep
<1>4. CASE Close(f)  BY <1>4, CloseActionStep
<1>5. CASE RemoveAll(f)  BY <1>5, RemoveAllStep
<1>6. CASE Delete(f)  BY <1>6, DeleteStep
<1>7. ASSUME NEW n \in 0 .. MaxData, Grow(f, n) PROVE Safe'
  <2>1. IsOpen(f) /\ Extend(f, n, n)  BY <1>7 DEF Grow
  <2> QED BY <2>1, ExtendStep
<1>8. ASSUME NEW n \in 0 .. MaxData, Shrink(f, n) PROVE Safe'
  BY <1>8, ShrinkStep
<1>9. ASSUME NEW i \in 0 .. MaxData, NEW n \in 0 .. MaxData, Read(f, i, n) PROVE Safe'
  BY <1>9, ReadStep
<1>10. ASSUME NEW i \in 0 .. MaxData, NEW n \in 0 .. MaxData, Write(f, i, n) PROVE Safe'
  <2>1. IsOpen(f) /\ Extend(f, i, n)  BY <1>10 DEF Write
  <2> QED BY <2>1, ExtendStep
<1>11. ASSUME NEW i \in 0 .. MaxData, NEW n \in 0 .. MaxData, Insert(f, i, n) PROVE Safe'
  BY <1>11, InsertStep
<1>12. ASSUME NEW i \in 0 .. MaxData, NEW n \in 0 .. MaxData, RemovePart(f, i, n) PROVE Safe'
  BY <1>12, RemovePartStep
<1> QED BY <1>1, <1>2, <1>3, <1>4, <1>5, <1>6, <1>7, <1>8, <1>9, <1>10, <1>11, <1>12

\* What close() has once given back too often stays so.
LEMMA StaysDangling == Next /\ dangling => dangling'
<1> SUFFICES ASSUME Next, dangling PROVE dangling'
  OBVIOUS
<1>1. PICK f \in Files :
        \/ Create(f) \/ Open(f) \/ Close(f) \/ RemoveAll(f) \/ Delete(f)
        \/ \E n \in 0 .. MaxData : Grow(f, n) \/ Shrink(f, n)
        \/ \E i, n \in 0 .. MaxData :
              Read(f, i, n) \/ Write(f, i, n) \/ Insert(f, i, n) \/ RemovePart(f, i, n)
  BY DEF Next
<1>2. CASE Create(f)  BY <1>2 DEF Create, history
<1>3. CASE Open(f)
  <2>1. dangling' = dangling \/ \E h, counts : CloseWith(f, h, counts)  BY <1>3 DEF Open
  <2>2. ASSUME NEW h, NEW counts, CloseWith(f, h, counts) PROVE dangling'
    BY <2>2 DEF CloseWith
  <2> QED BY <2>1, <2>2
<1>4. CASE Close(f)  BY <1>4 DEF Close, CloseWith
<1>5. CASE RemoveAll(f)  BY <1>5 DEF RemoveAll, history
<1>6. CASE Delete(f)  BY <1>6 DEF Delete
<1>7. ASSUME NEW n, Grow(f, n) \/ Shrink(f, n) PROVE dangling'
  BY <1>7 DEF Grow, Shrink, Extend, history
<1>8. ASSUME NEW i, NEW n, Read(f, i, n) \/ Write(f, i, n) PROVE dangling'
  BY <1>8 DEF Read, Write, Extend, history
<1>9. ASSUME NEW i, NEW n, Insert(f, i, n) \/ RemovePart(f, i, n) PROVE dangling'
  BY <1>9 DEF Insert, RemovePart
<1> QED BY <1>1, <1>2, <1>3, <1>4, <1>5, <1>6, <1>7, <1>8, <1>9

\* The invariant is inductive.
LEMMA Inductive == IInv /\ [Next]_vars => IInv'
<1> SUFFICES ASSUME IInv, [Next]_vars, ~dangling' PROVE Safe'
  BY DEF IInv
<1>1. CASE Next
  <2>1. ~dangling  BY <1>1, StaysDangling
  <2>2. Safe  BY <2>1 DEF IInv
  <2> QED BY <1>1, <2>2, StepSafe
<1>2. CASE UNCHANGED vars
  <2>1. UNCHANGED <<free, children, inode, file, refs, stored, lost, leaky, dangling>>
    BY <1>2 DEF vars, diskVars, history
  <2>2. Safe  BY <2>1 DEF IInv
  <2>3. TypeOK'  BY <2>1, <2>2 DEF Safe, TypeOK
  <2>4. \A f \in Files :
           /\ (Exists(f)' <=> Exists(f)) /\ (IsOpen(f)' <=> IsOpen(f)) /\ Found(f)' = Found(f)
    BY <2>1 DEF Exists, IsOpen, Found
  <2>5. \A f \in Files : Owned(f)' = Owned(f) /\ Pins(f)' = Pins(f) /\ Own(f)' = Own(f)
    BY <2>1, <2>4 DEF Owned, Pins, Own
  <2>6. \A f \in Files : FileOK(f)'  BY <2>1, <2>2, <2>4 DEF Safe, FileOK
  <2>7. Disjoint'  BY <2>1, <2>2, <2>5 DEF Safe, Disjoint
  <2>8. Covered'  BY <2>1, <2>2, <2>5 DEF Safe, Covered
  <2>9. Exact'  BY <2>1, <2>2, <2>5 DEF Safe, Exact
  <2> QED BY <2>3, <2>6, <2>7, <2>8, <2>9 DEF Safe
<1> QED BY <1>1, <1>2

\* The invariant holds in every state, for every disk, tree width and set of
\* files.
THEOREM Invariance == Spec => []IInv
BY Initially, Inductive, PTL DEF Spec

\* The invariant says all that the model claims.
LEMMA Consequences ==
    IInv => NoSharing /\ NothingLost /\ Reopens /\ PinsExact /\ (~dangling => TypeOK)
<1> SUFFICES ASSUME IInv
             PROVE  NoSharing /\ NothingLost /\ Reopens /\ PinsExact /\ (~dangling => TypeOK)
  OBVIOUS
<1>1. CASE dangling
  BY <1>1 DEF NoSharing, NothingLost, Reopens, PinsExact
<1>2. CASE ~dangling
  <2>1. Safe  BY <1>2 DEF IInv
  <2>2. NoSharing  BY <2>1 DEF Safe, NoSharing, Disjoint, Own
  <2>3. NothingLost  BY <2>1 DEF Safe, NothingLost, Covered, Own
  <2>4. PinsExact  BY <2>1 DEF Safe, PinsExact, Exact
  <2>5. Reopens  BY <2>1 DEF Safe, Reopens, FileOK
  <2> QED BY <2>1, <2>2, <2>3, <2>4, <2>5 DEF Safe
<1> QED BY <1>1, <1>2

\* Every variable has its type until a close() has given back references that it
\* did not hold: afterwards two files may list the same block and a walk may end
\* early, and the sizes of the model mean nothing.
THEOREM TypeCorrect == Spec => [](~dangling => TypeOK)
BY Invariance, Consequences, PTL

\* No block has two owners or is owned and free, through any sequence of
\* operations of several files: save_entries_ reuses the entry blocks of its own
\* tree only, and a failed save or TempData gives nothing back twice.
THEOREM BlocksNotShared == Spec => []NoSharing
BY Invariance, Consequences, PTL

\* Each block is free or owned by a file, unless an operation ran out of blocks:
\* close() frees exactly the entry blocks that its new trees do not use.
THEOREM BlocksNotLost == Spec => []NothingLost
BY Invariance, Consequences, PTL

\* A closed file that could be saved opens again with its data blocks in order:
\* load_entries_ reads back what save_entries_ wrote, whatever other files did.
THEOREM FilesReopen == Spec => []Reopens
BY Invariance, Consequences, PTL

\* The counters are exactly the pointers that open files hold, through every
\* operation: what eviction in the block manager relies on.
THEOREM ReferencesExact == Spec => []PinsExact
BY Invariance, Consequences, PTL

=============================================================================
