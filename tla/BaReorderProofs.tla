--------------------------- MODULE BaReorderProofs ---------------------------
(***************************************************************************)
(* The reordering buffer hands frames up in order, and drops none that is  *)
(* still missing, for every window, pool and number of frames, as long as  *)
(* the peer keeps within half the sequence space.                          *)
(***************************************************************************)
EXTENDS BaReorder, SequenceTheorems, NaturalsInduction, WellFoundedInduction, TLAPS

M == MAXSEQ + 1
H == M \div 2

-----------------------------------------------------------------------------
(* Sequence numbers.  The numbers that meet in the buffer lie within half  *)
(* the sequence space of each other, and there a Sequence is as good as    *)
(* the number it stands for.                                               *)

LEMMA SpaceFacts ==
    /\ M \in Nat \ {0} /\ H \in Nat \ {0} /\ M = 2 * H /\ MAXSEQ = M - 1
    /\ Win \in 1 .. H - 1 /\ RESET_RCV_SEQ = 16 * M - 1
<1>1. M \in {2, 4, 8, 16, 32, 64, 128, 256, 512, 1024, 2048, 4096} /\ MAXSEQ = M - 1
  BY ReorderAssumption DEF M
<1>2. M \in Nat \ {0} /\ M = 2 * H /\ H \in Nat \ {0}
  BY <1>1 DEF H
<1>3. Win \in 1 .. H - 1
  BY ReorderAssumption DEF H, M
<1>4. RESET_RCV_SEQ = 16 * M - 1
  BY DEF RESET_RCV_SEQ, M
<1> QED
  BY <1>1, <1>2, <1>3, <1>4

LEMMA Seq12Type ==
  ASSUME NEW n \in Int
  PROVE  Seq12(n) \in 0 .. MAXSEQ /\ Seq12(n) \in 0 .. M - 1 /\ Seq12(n) # RESET_RCV_SEQ
<1>1. MAXSEQ + 1 \in {2, 4, 8, 16, 32, 64, 128, 256, 512, 1024, 2048, 4096}
  BY ReorderAssumption
<1> QED
  BY <1>1, SpaceFacts DEF Seq12, M

\* A number added to a Sequence, and the Sequence taken of that.
LEMMA Seq12Add ==
  ASSUME NEW a \in Int, NEW b \in Int
  PROVE  /\ (Seq12(a) + b) % M = Seq12(a + b)
         /\ Seq12(Seq12(a) + b) = Seq12(a + b)
<1>1. MAXSEQ + 1 \in {2, 4, 8, 16, 32, 64, 128, 256, 512, 1024, 2048, 4096}
  BY ReorderAssumption
<1> QED
  BY <1>1 DEF Seq12, M

\* Within the space, a Sequence tells numbers apart.
LEMMA SameSeq ==
  ASSUME NEW a \in Int, NEW b \in Int, a - b \in 1 - M .. M - 1
  PROVE  Seq12(a) = Seq12(b) <=> a = b
<1>1. MAXSEQ + 1 \in {2, 4, 8, 16, 32, 64, 128, 256, 512, 1024, 2048, 4096}
  BY ReorderAssumption
<1> QED
  BY <1>1 DEF Seq12, M

\* Within half of it, SEQ_SMALLER orders them.
LEMMA SmallerSeq ==
  ASSUME NEW a \in Int, NEW b \in Int, a - b \in 0 - H .. H - 1
  PROVE  SEQ_SMALLER(Seq12(a), Seq12(b)) <=> a < b
<1>1. MAXSEQ + 1 \in {2, 4, 8, 16, 32, 64, 128, 256, 512, 1024, 2048, 4096}
  BY ReorderAssumption
<1> QED
  BY <1>1 DEF Seq12, SEQ_SMALLER, M, H

\* How far a number lies ahead of another.
LEMMA AheadSeq ==
  ASSUME NEW a \in Int, NEW b \in Int, a - b \in 0 .. M - 1
  PROVE  (Seq12(a) - Seq12(b)) % M = a - b
<1>1. MAXSEQ + 1 \in {2, 4, 8, 16, 32, 64, 128, 256, 512, 1024, 2048, 4096}
  BY ReorderAssumption
<1>2. (Seq12(a) - Seq12(b)) % M = (a - b) % M
  BY <1>1, SMTT(30) DEF Seq12, M
<1>3. (a - b) % M = a - b
  BY <1>1 DEF M
<1> QED
  BY <1>2, <1>3

LEMMA StepSeq ==
  ASSUME NEW a \in Int, NEW b \in Int, a - b \in 2 - M .. M
  PROVE  SEQ_STEPONE(Seq12(a), Seq12(b)) <=> a = b + 1
<1>1. SEQ_STEPONE(Seq12(a), Seq12(b)) <=> Seq12(a) = Seq12(b + 1)
  <2>1. (Seq12(b) + 1) % M = Seq12(b + 1)
    BY Seq12Add
  <2> QED
    BY <2>1, Zenon DEF SEQ_STEPONE, M
<1>2. b + 1 \in Int /\ a - (b + 1) \in 1 - M .. M - 1
  BY SpaceFacts
<1>3. Seq12(a) = Seq12(b + 1) <=> a = b + 1
  BY <1>2, SameSeq
<1> QED
  BY <1>1, <1>3

\* The number meant by a Sequence is the one near by.
LEMMA NumberIs ==
  ASSUME NEW L \in Int, NEW n \in Int, L - n \in 0 - H .. H - 1,
         NEW s \in Int, Seq12(s) = Seq12(L)
  PROVE  Number(s, n) = L
<1>1. L \in n - H .. n + H - 1 /\ Seq12(L) = Seq12(s)
  BY SpaceFacts
<1>2. \A m \in n - H .. n + H - 1 : Seq12(m) = Seq12(s) => m = L
  BY <1>1, SameSeq, SpaceFacts
<1>3. Number(s, n) = CHOOSE m \in n - H .. n + H - 1 : Seq12(m) = Seq12(s)
  BY DEF Number, H, M
<1> QED
  BY <1>1, <1>2, <1>3

-----------------------------------------------------------------------------
(* Heads of the list. *)

LEMMA Least ==
  ASSUME NEW T \in SUBSET Nat, T # {}
  PROVE  \E x \in T : \A y \in T : x <= y
<1>1. IsWellFoundedOn(OpToRel(<, Nat), Nat)
  BY NatLessThanWellFounded
<1>2. PICK x \in T : \A y \in T : ~(<<y, x>> \in OpToRel(<, Nat))
  BY <1>1, WFMin
<1>3. ASSUME NEW y \in T PROVE x <= y
  <2>1. ~(y < x)
    BY <1>2, <1>3, Zenon DEF OpToRel
  <2>2. x \in Nat /\ y \in Nat
    BY <1>2, <1>3
  <2> QED
    BY <2>1, <2>2
<1> QED
  BY <1>2, <1>3, Zenon

\* Some frame is the first whose place is not in S, or all of them are there.
LEMMA RunFromHead ==
  ASSUME list \in Seq(Nums), NEW S
  PROVE  /\ LongestHead(S) \in 0 .. Len(list)
         /\ \A i \in 1 .. LongestHead(S) : i \in S
         /\ LongestHead(S) < Len(list) => LongestHead(S) + 1 \notin S
<1> DEFINE T == {i \in 1 .. Len(list) : i \notin S}
<1>a. Len(list) \in Nat
  BY LenProperties
<1>1. \E k \in 0 .. Len(list) : 1 .. k \subseteq S /\ (k < Len(list) => k + 1 \notin S)
  <2>1. CASE T = {}
    <3>1. 1 .. Len(list) \subseteq S /\ Len(list) \in 0 .. Len(list) /\ ~(Len(list) < Len(list))
      BY <1>a, <2>1
    <3> QED
      BY <3>1
  <2>2. CASE T # {}
    <3>a. T \in SUBSET Nat
      BY <1>a
    <3>1. PICK x \in T : \A y \in T : x <= y
      BY <2>2, <3>a, Least, Zenon
    <3>2. ASSUME NEW i \in 1 .. x - 1 PROVE i \in S
      <4>1. i \in 1 .. Len(list) /\ ~(x <= i)
        BY <3>1, <3>2, <1>a
      <4> QED
        BY <4>1, <3>1
    <3>3. x - 1 \in 0 .. Len(list) /\ x - 1 + 1 = x /\ x \notin S
      BY <3>1, <1>a
    <3> QED
      BY <3>2, <3>3
  <2> QED
    BY <2>1, <2>2
<1>2. LongestHead(S) \in 0 .. Len(list)
      /\ 1 .. LongestHead(S) \subseteq S
      /\ (LongestHead(S) < Len(list) => LongestHead(S) + 1 \notin S)
  BY <1>1 DEF LongestHead
<1> QED
  BY <1>2

-----------------------------------------------------------------------------
(* Sequences. *)

\* Both sides of a cut.
LEMMA Cut ==
  ASSUME NEW T, NEW s \in Seq(T), NEW k \in 0 .. Len(s)
  PROVE  /\ SubSeq(s, 1, k) \in Seq(T) /\ Len(SubSeq(s, 1, k)) = k
         /\ \A i \in 1 .. k : SubSeq(s, 1, k)[i] = s[i]
         /\ SubSeq(s, k + 1, Len(s)) \in Seq(T)
         /\ Len(SubSeq(s, k + 1, Len(s))) = Len(s) - k
         /\ \A i \in 1 .. Len(s) - k : SubSeq(s, k + 1, Len(s))[i] = s[k + i]
<1>1. Len(s) \in Nat /\ \A i \in 1 .. Len(s) : s[i] \in T
  BY LenProperties
<1>2. \A i \in 1 .. k : s[i] \in T
  BY <1>1
<1>3. \A i \in k + 1 .. Len(s) : s[i] \in T
  BY <1>1
<1>4. k \in Int /\ 1 \in Int /\ k + 1 \in Int /\ Len(s) \in Int
  BY <1>1
<1>5. /\ SubSeq(s, 1, k) \in Seq(T)
      /\ Len(SubSeq(s, 1, k)) = IF 1 <= k THEN k - 1 + 1 ELSE 0
      /\ \A i \in 1 .. k - 1 + 1 : SubSeq(s, 1, k)[i] = s[1 + i - 1]
  BY <1>2, <1>4, SubSeqProperties
<1>6. /\ SubSeq(s, k + 1, Len(s)) \in Seq(T)
      /\ Len(SubSeq(s, k + 1, Len(s))) = IF k + 1 <= Len(s) THEN Len(s) - (k + 1) + 1 ELSE 0
      /\ \A i \in 1 .. Len(s) - (k + 1) + 1 : SubSeq(s, k + 1, Len(s))[i] = s[k + 1 + i - 1]
  BY <1>3, <1>4, SubSeqProperties
<1>7. \A i \in 1 .. k : SubSeq(s, 1, k)[i] = s[i]
  BY <1>1, <1>5
<1>8. \A i \in 1 .. Len(s) - k : SubSeq(s, k + 1, Len(s))[i] = s[k + i]
  BY <1>1, <1>6
<1>9. Len(SubSeq(s, 1, k)) = k /\ Len(SubSeq(s, k + 1, Len(s))) = Len(s) - k
  BY <1>1, <1>5, <1>6
<1> QED
  BY <1>5, <1>6, <1>7, <1>8, <1>9

\* A frame put in at place p.
LEMMA Insertion ==
  ASSUME NEW T, NEW s \in Seq(T), NEW e \in T, NEW p \in 1 .. Len(s) + 1
  PROVE  /\ InsertAt(s, p, e) \in Seq(T) /\ Len(InsertAt(s, p, e)) = Len(s) + 1
         /\ \A i \in 1 .. Len(s) + 1 :
                InsertAt(s, p, e)[i] = IF i < p THEN s[i] ELSE IF i = p THEN e ELSE s[i - 1]
<1> DEFINE u == SubSeq(s, 1, p - 1)
           v == SubSeq(s, p, Len(s))
           w == u \o <<e>>
<1>1. Len(s) \in Nat
  BY LenProperties
<1>2. PICK k \in 0 .. Len(s) : p = k + 1
  BY <1>1
<1>3. p - 1 = k
  BY <1>2, <1>1
<1>4. /\ u \in Seq(T) /\ Len(u) = k /\ \A i \in 1 .. k : u[i] = s[i]
      /\ v \in Seq(T) /\ Len(v) = Len(s) - k /\ \A i \in 1 .. Len(s) - k : v[i] = s[k + i]
  <2>1. u = SubSeq(s, 1, k) /\ v = SubSeq(s, k + 1, Len(s))
    BY <1>2, <1>3, Zenon
  <2> HIDE DEF u, v
  <2> QED
    BY <2>1, Cut, Zenon
<1>5. <<e>> \in Seq(T) /\ Len(<<e>>) = 1 /\ <<e>>[1] = e
  OBVIOUS
<1> HIDE DEF u, v
<1>6. /\ w \in Seq(T) /\ Len(w) = k + 1
      /\ \A i \in 1 .. k + 1 : w[i] = IF i <= k THEN u[i] ELSE <<e>>[i - k]
  <2>1. /\ u \o <<e>> \in Seq(T) /\ Len(u \o <<e>>) = Len(u) + Len(<<e>>)
        /\ \A i \in 1 .. Len(u) + Len(<<e>>) :
               (u \o <<e>>)[i] = IF i <= Len(u) THEN u[i] ELSE <<e>>[i - Len(u)]
    <3>1. u \in Seq(T) /\ <<e>> \in Seq(T)
      BY <1>4, <1>5
    <3> QED
      BY <3>1, ConcatProperties, Zenon
  <2> QED
    BY <2>1, <1>4, <1>5, Zenon DEF w
<1> HIDE DEF w
<1>7. /\ w \o v \in Seq(T) /\ Len(w \o v) = Len(w) + Len(v)
      /\ \A i \in 1 .. Len(w) + Len(v) : (w \o v)[i] = IF i <= Len(w) THEN w[i] ELSE v[i - Len(w)]
  <2>1. w \in Seq(T) /\ v \in Seq(T)
    BY <1>4, <1>6
  <2> QED
    BY <2>1, ConcatProperties, Zenon
<1>8. Len(w) + Len(v) = Len(s) + 1
  BY <1>1, <1>4, <1>6
<1>9. InsertAt(s, p, e) = w \o v
  BY DEF InsertAt, u, v, w
<1>10. ASSUME NEW i \in 1 .. Len(s) + 1
       PROVE  (w \o v)[i] = IF i < p THEN s[i] ELSE IF i = p THEN e ELSE s[i - 1]
  <2>1. (w \o v)[i] = IF i <= k + 1 THEN w[i] ELSE v[i - (k + 1)]
    BY <1>6, <1>7, <1>8
  <2>2. CASE i < p
    <3>1. i \in 1 .. k /\ i <= k + 1
      BY <2>2, <1>1, <1>2
    <3>2. w[i] = u[i] /\ u[i] = s[i]
      BY <3>1, <1>4, <1>6
    <3> QED
      BY <3>1, <3>2, <2>1, <2>2
  <2>3. CASE i = p
    <3>1. w[k + 1] = <<e>>[1]
      BY <1>6, <1>1
    <3> QED
      BY <3>1, <1>5, <1>2, <2>1, <2>3
  <2>4. CASE i > p
    <3>1. i - (k + 1) \in 1 .. Len(s) - k /\ ~(i <= k + 1) /\ k + (i - (k + 1)) = i - 1
      BY <2>4, <1>1, <1>2
    <3>2. v[i - (k + 1)] = s[k + (i - (k + 1))]
      BY <3>1, <1>4, Zenon
    <3>3. (w \o v)[i] = s[i - 1]
      BY <3>1, <3>2, <2>1, Zenon
    <3> QED
      BY <3>3, <2>4, <1>1, <1>2
  <2>5. i < p \/ i = p \/ i > p
    BY <1>1, <1>2, <1>10
  <2> QED
    BY <2>2, <2>3, <2>4, <2>5
<1> QED
  BY <1>7, <1>8, <1>9, <1>10

-----------------------------------------------------------------------------
(* Types, and the account of the blocks. *)

Recv == [pc : {"idle", "decide", "enqueue", "inorder"}, num : Nums \cup {None},
         kind : {"data", "eap"}, last : BOOLEAN]

\* The receive tasklet has a frame, or nothing.
Receiving ==
    /\ rx \in Recv
    /\ rx.pc = "idle" => rx = Idle
    /\ rx.pc # "idle" => rx.num \in Nums

SessionWindow == BAWinSize = IF session THEN Win ELSE 0

Accounts == TypeOK /\ Receiving /\ SessionWindow /\ BlocksAccounted

LEMMA NumsAreInts == Nums \subseteq Int /\ Nums \subseteq Nat /\ FirstNum \in Nums
  BY ReorderAssumption DEF Nums

LEMMA ListTypes ==
  ASSUME TypeOK
  PROVE  /\ list \in Seq(Nums) /\ Len(list) \in Nat
         /\ \A i \in 1 .. Len(list) : list[i] \in Nums /\ list[i] \in Int
<1>1. list \in Seq(Nums)
  BY DEF TypeOK
<1>2. Len(list) \in Nat /\ \A i \in 1 .. Len(list) : list[i] \in Nums
  BY <1>1, LenProperties
<1> QED
  BY <1>1, <1>2, NumsAreInts

LEMMA LeSeqIs ==
  ASSUME TypeOK, NEW s
  PROVE  /\ LeSeq(s) \in 0 .. Len(list)
         /\ \A i \in 1 .. LeSeq(s) : Seq12(list[i]) = s \/ SEQ_SMALLER(Seq12(list[i]), s)
         /\ LeSeq(s) < Len(list) =>
                ~(Seq12(list[LeSeq(s) + 1]) = s \/ SEQ_SMALLER(Seq12(list[LeSeq(s) + 1]), s))
<1> DEFINE S == {i \in 1 .. Len(list) : Seq12(list[i]) = s \/ SEQ_SMALLER(Seq12(list[i]), s)}
<1>1. list \in Seq(Nums) /\ Len(list) \in Nat
  BY ListTypes
<1>2. /\ LongestHead(S) \in 0 .. Len(list)
      /\ \A i \in 1 .. LongestHead(S) : i \in S
      /\ LongestHead(S) < Len(list) => LongestHead(S) + 1 \notin S
  <2> HIDE DEF S
  <2> QED
    BY <1>1, RunFromHead
<1>3. LeSeq(s) = LongestHead(S)
  BY DEF LeSeq
<1>4. LongestHead(S) < Len(list) => LongestHead(S) + 1 \in 1 .. Len(list)
  <2> HIDE DEF S
  <2> QED
    BY <1>1, <1>2
<1>5. ASSUME NEW h, h = LongestHead(S)
      PROVE  /\ h \in 0 .. Len(list)
             /\ \A i \in 1 .. h : Seq12(list[i]) = s \/ SEQ_SMALLER(Seq12(list[i]), s)
             /\ h < Len(list) => ~(Seq12(list[h + 1]) = s \/ SEQ_SMALLER(Seq12(list[h + 1]), s))
  BY <1>2, <1>4, <1>5, Zenon
<1> QED
  BY <1>3, <1>5, Zenon

LEMMA InOrderIs ==
  ASSUME TypeOK, NEW s
  PROVE  /\ InOrder(s) \in 0 .. Len(list)
         /\ \A i \in 1 .. InOrder(s) : Seq12(list[i]) = Seq12(s + i)
         /\ InOrder(s) < Len(list) =>
                Seq12(list[InOrder(s) + 1]) # Seq12(s + (InOrder(s) + 1))
<1> DEFINE S == {i \in 1 .. Len(list) : Seq12(list[i]) = Seq12(s + i)}
<1>1. list \in Seq(Nums) /\ Len(list) \in Nat
  BY ListTypes
<1>2. /\ LongestHead(S) \in 0 .. Len(list)
      /\ \A i \in 1 .. LongestHead(S) : i \in S
      /\ LongestHead(S) < Len(list) => LongestHead(S) + 1 \notin S
  <2> HIDE DEF S
  <2> QED
    BY <1>1, RunFromHead
<1>3. InOrder(s) = LongestHead(S)
  BY DEF InOrder
<1>4. LongestHead(S) < Len(list) => LongestHead(S) + 1 \in 1 .. Len(list)
  <2> HIDE DEF S
  <2> QED
    BY <1>1, <1>2
<1>5. ASSUME NEW h, h = LongestHead(S)
      PROVE  /\ h \in 0 .. Len(list)
             /\ \A i \in 1 .. h : Seq12(list[i]) = Seq12(s + i)
             /\ h < Len(list) => Seq12(list[h + 1]) # Seq12(s + (h + 1))
  BY <1>2, <1>4, <1>5, Zenon
<1> QED
  BY <1>3, <1>5, Zenon

LEMMA PositionIs ==
  ASSUME TypeOK, NEW n
  PROVE  \E h \in 0 .. Len(list) :
             /\ Position(n) = h + 1
             /\ \A i \in 1 .. h : SEQ_SMALLER(Seq12(list[i]), Seq12(n))
             /\ h < Len(list) => ~SEQ_SMALLER(Seq12(list[h + 1]), Seq12(n))
<1> DEFINE S == {i \in 1 .. Len(list) : SEQ_SMALLER(Seq12(list[i]), Seq12(n))}
<1>1. list \in Seq(Nums) /\ Len(list) \in Nat
  BY ListTypes
<1>2. /\ LongestHead(S) \in 0 .. Len(list)
      /\ \A i \in 1 .. LongestHead(S) : i \in S
      /\ LongestHead(S) < Len(list) => LongestHead(S) + 1 \notin S
  <2> HIDE DEF S
  <2> QED
    BY <1>1, RunFromHead
<1>3. Position(n) = LongestHead(S) + 1
  BY DEF Position
<1>4. LongestHead(S) < Len(list) => LongestHead(S) + 1 \in 1 .. Len(list)
  <2> HIDE DEF S
  <2> QED
    BY <1>1, <1>2
<1>5. ASSUME NEW h, h = LongestHead(S)
      PROVE  /\ h \in 0 .. Len(list)
             /\ \A i \in 1 .. h : SEQ_SMALLER(Seq12(list[i]), Seq12(n))
             /\ h < Len(list) => ~SEQ_SMALLER(Seq12(list[h + 1]), Seq12(n))
  BY <1>2, <1>4, <1>5, Zenon
<1> QED
  BY <1>3, <1>5, Zenon

\* What goes up leaves the list, and its blocks go back.
LEMMA HandUpAccounts ==
  ASSUME TypeOK, BlocksAccounted, NEW old \in Seq(Nums), NEW k \in 0 .. Len(list),
         NEW after \in Seq(Nums), HandUp(old, k, after), leaked' = leaked
  PROVE  /\ list' \in Seq(Nums) /\ Len(list') = Len(list) - k /\ pool' \in 0 .. PoolSize
         /\ delivered' \in Seq(Nums) /\ up' \subseteq Nums /\ BlocksAccounted'
<1>1. list \in Seq(Nums) /\ Len(list) \in Nat
  BY ListTypes
<1>2. /\ SubSeq(list, 1, k) \in Seq(Nums)
      /\ SubSeq(list, k + 1, Len(list)) \in Seq(Nums)
      /\ Len(SubSeq(list, k + 1, Len(list))) = Len(list) - k
  BY <1>1, Cut
<1>3. list' \in Seq(Nums) /\ Len(list') = Len(list) - k
  BY <1>2 DEF HandUp
<1>4. delivered' \in Seq(Nums)
  <2>1. old \o SubSeq(list, 1, k) \in Seq(Nums)
    BY <1>2, ConcatProperties
  <2>2. old \o SubSeq(list, 1, k) \o after \in Seq(Nums)
    BY <2>1, ConcatProperties
  <2> QED
    BY <2>2 DEF HandUp
<1>5. up' \subseteq Nums
  <2>1. \A i \in 1 .. k : list[i] \in Nums
    BY <1>1, ListTypes
  <2>2. \A i \in 1 .. Len(after) : after[i] \in Nums
    BY LenProperties
  <2> QED
    BY <2>1, <2>2 DEF HandUp, TypeOK
<1>6. pool' = pool + k /\ pool \in Nat /\ leaked \in Nat /\ PoolSize \in Nat
      /\ pool + Len(list) + leaked = PoolSize
  BY ReorderAssumption DEF HandUp, TypeOK, BlocksAccounted
<1>7. pool' \in 0 .. PoolSize /\ pool' + Len(list') + leaked' = PoolSize
  <2>1. ASSUME NEW n \in Nat, NEW m, m = n - k, NEW p \in Nat, NEW q \in Nat,
               p + n + q = PoolSize, k \in 0 .. n, PoolSize \in Nat
        PROVE  p + k \in 0 .. PoolSize /\ p + k + m + q = PoolSize
    BY <2>1
  <2> QED
    BY <2>1, <1>1, <1>3, <1>6
<1> QED
  BY <1>3, <1>4, <1>5, <1>7 DEF BlocksAccounted

LEMMA LastHandedUpType ==
  ASSUME TypeOK
  PROVE  LastHandedUp \in Seq(Nums)
<1>1. CASE delivered = <<>> \/ LastIndSeq = RESET_RCV_SEQ
  BY <1>1 DEF LastHandedUp
<1>2. CASE ~(delivered = <<>> \/ LastIndSeq = RESET_RCV_SEQ)
  <2>1. delivered \in Seq(Nums) /\ delivered # <<>>
    BY <1>2 DEF TypeOK
  <2>2. Len(delivered) \in Nat /\ Len(delivered) # 0
    BY <2>1, EmptySeq
  <2>3. delivered[Len(delivered)] \in Nums
    BY <2>1, <2>2, ElementOfSeq
  <2>4. <<Last(delivered)>> \in Seq(Nums)
    BY <2>3 DEF Last
  <2> QED
    BY <2>4, <1>2 DEF LastHandedUp
<1> QED
  BY <1>1, <1>2

\* A flush that moves past the first hole hands up k frames: j of them lie
\* before the hole's end, and the others follow it without a gap.
ShiftsBy(k, j) ==
    /\ j \in 0 .. k
    /\ \A i \in 1 .. j : Seq12(list[i]) = Shifted \/ SEQ_SMALLER(Seq12(list[i]), Shifted)
    /\ j < Len(list) =>
           ~(Seq12(list[j + 1]) = Shifted \/ SEQ_SMALLER(Seq12(list[j + 1]), Shifted))
    /\ \A i \in j + 1 .. k : Seq12(list[i]) = Seq12(Shifted + i - j)
    /\ k < Len(list) => Seq12(list[k + 1]) # Seq12(Shifted + (k + 1) - j)
    /\ LastIndSeq' = IF k > j THEN Seq12(list[k]) ELSE Shifted
    /\ excused' = Number(Shifted, list[1])

\* What ba_flush_reordering_timeout_mpdus does, as k frames handed up.
Flushes(k) ==
    /\ k \in 0 .. Len(list) /\ HandUp(LastHandedUp, k, <<>>)
    /\ \/ k = Len(list) /\ k > 1 /\ LastIndSeq' = RESET_RCV_SEQ /\ excused' = excused
       \/ list # <<>> /\ \E j \in 0 .. k : ShiftsBy(k, j)
       \/ k = 0 /\ LastIndSeq' = LastIndSeq /\ excused' = excused

LEMMA FlushIs ==
  ASSUME TypeOK, NEW wait, FlushTimeout(wait)
  PROVE  \E k \in 0 .. Len(list) : Flushes(k)
<1>0. list \in Seq(Nums) /\ Len(list) \in Nat
  BY ListTypes
<1>1. CASE /\ FlushAll(wait)
           /\ HandUp(LastHandedUp, Len(list), <<>>) /\ LastIndSeq' = RESET_RCV_SEQ
           /\ UNCHANGED excused
  <2>1. Len(list) > 1
    BY <1>1 DEF FlushAll
  <2>2. Flushes(Len(list))
    BY <1>0, <1>1, <2>1 DEF Flushes
  <2> QED
    BY <1>0, <2>2
<1>2. CASE /\ FlushOne(wait)
           /\ LET j == LeSeq(Shifted)
                  k == LongestHead(1 .. j \cup {i \in j + 1 .. Len(list) :
                                       Seq12(list[i]) = Seq12(Shifted + i - j)})
              IN /\ HandUp(LastHandedUp, k, <<>>)
                 /\ LastIndSeq' = IF k > j THEN Seq12(list[k]) ELSE Shifted
                 /\ excused' = Number(Shifted, list[1])
  <2>1. PICK j : j = LeSeq(Shifted)
    OBVIOUS
  <2>2. /\ j \in 0 .. Len(list)
        /\ \A i \in 1 .. j : Seq12(list[i]) = Shifted \/ SEQ_SMALLER(Seq12(list[i]), Shifted)
        /\ j < Len(list) =>
               ~(Seq12(list[j + 1]) = Shifted \/ SEQ_SMALLER(Seq12(list[j + 1]), Shifted))
    BY <2>1, LeSeqIs, Zenon
  <2> DEFINE S == 1 .. j \cup {i \in j + 1 .. Len(list) : Seq12(list[i]) = Seq12(Shifted + i - j)}
  <2>3. PICK k : k = LongestHead(S)
    OBVIOUS
  <2>4. k \in 0 .. Len(list) /\ (\A i \in 1 .. k : i \in S) /\ (k < Len(list) => k + 1 \notin S)
    <3> HIDE DEF S
    <3> QED
      BY <1>0, <2>3, RunFromHead
  <2>5. k >= j
    <3>1. CASE k < Len(list)
      <4>1. k + 1 \notin 1 .. j
        BY <3>1, <2>4
      <4> QED
        BY <4>1, <2>2, <2>4, <1>0
    <3>2. CASE ~(k < Len(list))
      BY <3>2, <2>2, <2>4, <1>0
    <3> QED
      BY <3>1, <3>2
  <2>6. ASSUME NEW i \in j + 1 .. k
        PROVE  Seq12(list[i]) = Seq12(Shifted + i - j)
    <3>1. i \in 1 .. k /\ i \notin 1 .. j
      BY <2>2, <2>4, <2>6, <1>0
    <3>2. i \in S
      BY <3>1, <2>4
    <3> QED
      BY <3>1, <3>2
  <2>7. k < Len(list) => Seq12(list[k + 1]) # Seq12(Shifted + (k + 1) - j)
    <3> SUFFICES ASSUME k < Len(list) PROVE Seq12(list[k + 1]) # Seq12(Shifted + (k + 1) - j)
      OBVIOUS
    <3>1. k + 1 \in j + 1 .. Len(list)
      BY <2>2, <2>4, <2>5, <1>0
    <3> QED
      BY <3>1, <2>4
  <2>8. /\ HandUp(LastHandedUp, k, <<>>)
        /\ LastIndSeq' = IF k > j THEN Seq12(list[k]) ELSE Shifted
        /\ excused' = Number(Shifted, list[1])
    BY <1>2, <2>1, <2>3, Zenon
  <2>9. list # <<>> /\ j \in 0 .. k
    BY <1>2, <2>2, <2>4, <2>5, <1>0 DEF FlushOne
  <2>10. ShiftsBy(k, j)
    BY <2>2, <2>6, <2>7, <2>8, <2>9 DEF ShiftsBy
  <2>11. Flushes(k)
    BY <2>4, <2>8, <2>9, <2>10 DEF Flushes
  <2> QED
    BY <2>4, <2>11
<1>3. CASE HandUp(LastHandedUp, 0, <<>>) /\ UNCHANGED <<LastIndSeq, excused>>
  <2>1. 0 \in 0 .. Len(list)
    BY <1>0
  <2>2. Flushes(0)
    BY <1>3, <2>1 DEF Flushes
  <2> QED
    BY <2>1, <2>2
<1> QED
  BY <1>1, <1>2, <1>3, Zenon DEF FlushTimeout

LEMMA Seq12Any ==
  ASSUME NEW n \in Int
  PROVE  n % (MAXSEQ + 1) \in 0 .. MAXSEQ
  BY Seq12Type DEF Seq12

LEMMA LastIndSeqIsInt ==
  ASSUME TypeOK
  PROVE  LastIndSeq \in Int
  BY SpaceFacts DEF TypeOK

LEMMA ShiftedType ==
  ASSUME TypeOK
  PROVE  Shifted \in 0 .. MAXSEQ /\ Shifted \in Int
<1>1. LastIndSeq + 1 \in Int
  BY LastIndSeqIsInt
<1>2. Shifted \in 0 .. MAXSEQ
  BY <1>1, Seq12Any DEF Shifted
<1> QED
  BY <1>2, SpaceFacts

LEMMA FlushAccounts ==
  ASSUME TypeOK, BlocksAccounted, NEW k \in 0 .. Len(list), Flushes(k), leaked' = leaked
  PROVE  /\ list' \in Seq(Nums) /\ pool' \in 0 .. PoolSize
         /\ delivered' \in Seq(Nums) /\ up' \subseteq Nums /\ BlocksAccounted'
         /\ LastIndSeq' \in 0 .. MAXSEQ \cup {RESET_RCV_SEQ}
<1>1. LastHandedUp \in Seq(Nums) /\ <<>> \in Seq(Nums)
  BY LastHandedUpType, EmptySeq
<1>2. HandUp(LastHandedUp, k, <<>>)
  BY DEF Flushes
<1>3. LastIndSeq' \in 0 .. MAXSEQ \cup {RESET_RCV_SEQ}
  <2>1. CASE LastIndSeq' = RESET_RCV_SEQ
    BY <2>1
  <2>2. CASE LastIndSeq' = LastIndSeq
    BY <2>2 DEF TypeOK
  <2>3. ASSUME NEW j \in 0 .. k, ShiftsBy(k, j)
        PROVE  LastIndSeq' \in 0 .. MAXSEQ \cup {RESET_RCV_SEQ}
    <3>1. k > j => k \in 1 .. Len(list)
      BY <2>3, ListTypes
    <3>2. k > j => Seq12(list[k]) \in 0 .. MAXSEQ
      BY <3>1, ListTypes, Seq12Type
    <3> QED
      BY <2>3, <3>2, ShiftedType DEF ShiftsBy
  <2> QED
    BY <2>1, <2>2, <2>3 DEF Flushes
<1> QED
  BY <1>1, <1>2, <1>3, HandUpAccounts

LEMMA InitAccounts == Init => Accounts
<1> SUFFICES ASSUME Init PROVE Accounts
  OBVIOUS
<1>1. list = <<>> /\ delivered = <<>> /\ <<>> \in Seq(Nums) /\ Len(<<>>) = 0
  BY EmptySeq DEF Init
<1>2. TypeOK
  <2>1. list \in Seq(Nums) /\ delivered \in Seq(Nums)
    BY <1>1, Zenon
  <2>2. pool \in 0 .. PoolSize /\ leaked \in 0 .. PoolSize
    BY ReorderAssumption DEF Init
  <2>3. rx.pc = "idle" /\ rx.num = None
    BY DEF Init, Idle
  <2> QED
    BY <2>1, <2>2, <2>3, NumsAreInts DEF Init, TypeOK
<1>3. Receiving
  BY DEF Init, Receiving, Recv, Idle
<1>4. BlocksAccounted
  BY <1>1, ReorderAssumption DEF Init, BlocksAccounted
<1> QED
  BY <1>2, <1>3, <1>4 DEF Accounts, SessionWindow, Init

LEMMA RefreshAccounts ==
  ASSUME TypeOK, BlocksAccounted, Refresh, leaked' = leaked
  PROVE  /\ list' \in Seq(Nums) /\ pool' \in 0 .. PoolSize
         /\ delivered' \in Seq(Nums) /\ up' \subseteq Nums /\ BlocksAccounted'
         /\ LastIndSeq' = RESET_RCV_SEQ
<1>1. Len(list) \in 0 .. Len(list) /\ delivered \in Seq(Nums) /\ <<>> \in Seq(Nums)
  BY ListTypes, EmptySeq DEF TypeOK
<1> QED
  BY <1>1, HandUpAccounts DEF Refresh

LEMMA AddStartsAccounts == ASSUME Accounts, AddStarts PROVE Accounts'
<1>1. CASE session /\ Refresh
  <2>1. leaked' = leaked
    BY DEF AddStarts
  <2> QED
    BY <1>1, <2>1, RefreshAccounts DEF Accounts, AddStarts, TypeOK, Receiving, SessionWindow
<1>2. CASE UNCHANGED <<LastIndSeq, list, pool, delivered, up>>
  BY <1>2 DEF Accounts, AddStarts, TypeOK, Receiving, SessionWindow, BlocksAccounted
<1> QED
  BY <1>1, <1>2 DEF AddStarts

LEMMA AddEndsAccounts == ASSUME Accounts, AddEnds PROVE Accounts'
  BY DEF Accounts, AddEnds, TypeOK, Receiving, SessionWindow, BlocksAccounted, history

LEMMA TearDownStartsAccounts == ASSUME Accounts, TearDownStarts PROVE Accounts'
<1>1. Refresh /\ leaked' = leaked
  BY DEF TearDownStarts
<1> QED
  BY <1>1, RefreshAccounts DEF Accounts, TearDownStarts, TypeOK, Receiving, SessionWindow

LEMMA TearDownEndsAccounts == ASSUME Accounts, TearDownEnds PROVE Accounts'
  BY DEF Accounts, TearDownEnds, TypeOK, Receiving, SessionWindow, BlocksAccounted, history

LEMMA ArriveAccounts == ASSUME Accounts, Arrive PROVE Accounts'
<1>1. PICK n \in base .. base + Win - 1, kind \in Kinds, wait \in Waits :
          /\ n <= LastNum /\ FlushTimeout(wait)
          /\ rx' = [pc |-> "decide", num |-> n, kind |-> kind, last |-> FALSE]
  BY DEF Arrive
<1>2. TypeOK /\ BlocksAccounted /\ leaked' = leaked
  BY DEF Accounts, Arrive
<1>3. PICK k \in 0 .. Len(list) : Flushes(k)
  BY <1>1, <1>2, FlushIs
<1>4. /\ list' \in Seq(Nums) /\ pool' \in 0 .. PoolSize
      /\ delivered' \in Seq(Nums) /\ up' \subseteq Nums /\ BlocksAccounted'
      /\ LastIndSeq' \in 0 .. MAXSEQ \cup {RESET_RCV_SEQ}
  BY <1>2, <1>3, FlushAccounts
<1>5. n \in Nums
  BY <1>1, <1>2, SpaceFacts, ReorderAssumption DEF TypeOK, Nums
<1>6. Receiving' /\ rx'.pc = "decide" /\ rx'.num \in Nums
  BY <1>1, <1>5, ReorderAssumption DEF Receiving, Recv
<1> QED
  BY <1>2, <1>4, <1>6 DEF Accounts, Arrive, TypeOK, SessionWindow

LEMMA ArriveLegacyAccounts == ASSUME Accounts, ArriveLegacy PROVE Accounts'
<1>1. TypeOK /\ BlocksAccounted /\ leaked' = leaked
  BY DEF Accounts, ArriveLegacy
<1>2. PICK k \in 0 .. Len(list) : Flushes(k)
  BY <1>1, FlushIs DEF ArriveLegacy
<1>3. /\ list' \in Seq(Nums) /\ pool' \in 0 .. PoolSize
      /\ delivered' \in Seq(Nums) /\ up' \subseteq Nums /\ BlocksAccounted'
      /\ LastIndSeq' \in 0 .. MAXSEQ \cup {RESET_RCV_SEQ}
  BY <1>1, <1>2, FlushAccounts
<1> QED
  BY <1>1, <1>3 DEF Accounts, ArriveLegacy, TypeOK, Receiving, SessionWindow

\* A frame in hand, and its number.
LEMMA InHand ==
  ASSUME Accounts, rx.pc # "idle"
  PROVE  /\ rx.num \in Nums /\ rx.num \in Int /\ Seq12(rx.num) \in 0 .. MAXSEQ
         /\ <<rx.num>> \in Seq(Nums) /\ Len(<<rx.num>>) = 1 /\ <<rx.num>>[1] = rx.num
<1>1. rx.num \in Nums
  BY DEF Accounts, Receiving
<1>2. rx.num \in Int
  BY <1>1, NumsAreInts
<1> QED
  BY <1>1, <1>2, Seq12Type

LEMMA IdleReceiving == ASSUME rx' = Idle PROVE Receiving' /\ rx'.pc = "idle" /\ rx'.num = None
  BY DEF Receiving, Recv, Idle

\* The tasklet keeps its frame and goes on to another place.
LEMMA GoesOn ==
  ASSUME Accounts, rx.pc # "idle", NEW p \in {"decide", "enqueue", "inorder"},
         NEW l \in BOOLEAN, rx' = [rx EXCEPT !.pc = p, !.last = l]
  PROVE  Receiving' /\ rx'.pc = p /\ rx'.num = rx.num /\ rx'.kind = rx.kind /\ rx'.last = l
  BY DEF Accounts, Receiving, Recv

LEMMA MovesOn ==
  ASSUME Accounts, rx.pc # "idle", NEW p \in {"decide", "enqueue", "inorder"},
         rx' = [rx EXCEPT !.pc = p]
  PROVE  Receiving' /\ rx'.pc = p /\ rx'.num = rx.num /\ rx'.kind = rx.kind /\ rx'.last = rx.last
  BY DEF Accounts, Receiving, Recv

LEMMA RestartAccounts == ASSUME Accounts, Restart PROVE Accounts'
<1>1. TypeOK /\ BlocksAccounted /\ leaked' = leaked /\ rx.pc # "idle" /\ rx' = Idle
  BY DEF Accounts, Restart, Done
<1>2. 0 \in 0 .. Len(list) /\ <<>> \in Seq(Nums)
  BY <1>1, ListTypes, EmptySeq
<1>3. /\ list' \in Seq(Nums) /\ pool' \in 0 .. PoolSize
      /\ delivered' \in Seq(Nums) /\ up' \subseteq Nums /\ BlocksAccounted'
  BY <1>1, <1>2, InHand, HandUpAccounts DEF Restart
<1> QED
  BY <1>1, <1>3, InHand, IdleReceiving DEF Accounts, Restart, Done, TypeOK, SessionWindow

LEMMA InSequenceAccounts == ASSUME Accounts, InSequence PROVE Accounts'
<1>1. rx.pc # "idle" /\ rx' = [rx EXCEPT !.pc = "inorder"]
  BY DEF InSequence
<1>2. delivered' \in Seq(Nums)
  BY <1>1, InHand, AppendProperties DEF InSequence, Accounts, TypeOK
<1>3. Receiving' /\ rx'.pc = "inorder" /\ rx'.num = rx.num
  BY <1>1, MovesOn
<1>4. up' \subseteq Nums /\ LastIndSeq' \in 0 .. MAXSEQ
  BY <1>1, InHand DEF InSequence, Accounts, TypeOK
<1> QED
  BY <1>1, <1>2, <1>3, <1>4, InHand
  DEF Accounts, InSequence, TypeOK, SessionWindow, BlocksAccounted

LEMMA DropAccounts == ASSUME Accounts, Drop PROVE Accounts'
  BY IdleReceiving DEF Accounts, Drop, Done, TypeOK, SessionWindow, BlocksAccounted, history

LEMMA WithinWindowAccounts == ASSUME Accounts, WithinWindow PROVE Accounts'
<1>1. rx.pc # "idle" /\ rx' = [rx EXCEPT !.pc = "enqueue"]
  BY DEF WithinWindow, Ahead
<1>2. Receiving' /\ rx'.pc = "enqueue" /\ rx'.num = rx.num
  BY <1>1, MovesOn
<1> QED
  BY <1>1, <1>2, InHand
  DEF Accounts, WithinWindow, TypeOK, SessionWindow, BlocksAccounted, buffer, history

LEMMA BeyondWindowAccounts == ASSUME Accounts, BeyondWindow PROVE Accounts'
<1>1. /\ rx.pc # "idle" /\ rx' = [rx EXCEPT !.pc = "enqueue", !.last = TRUE]
      /\ TypeOK /\ BlocksAccounted /\ leaked' = leaked
  BY DEF BeyondWindow, Ahead, Accounts
<1>2. Receiving' /\ rx'.pc = "enqueue" /\ rx'.num = rx.num
  BY <1>1, GoesOn
<1>3. LeSeq(WinStartSeq) \in 0 .. Len(list) /\ <<>> \in Seq(Nums) /\ delivered \in Seq(Nums)
  BY <1>1, LeSeqIs, EmptySeq DEF TypeOK
<1>4. /\ list' \in Seq(Nums) /\ pool' \in 0 .. PoolSize
      /\ delivered' \in Seq(Nums) /\ up' \subseteq Nums /\ BlocksAccounted'
  BY <1>1, <1>3, HandUpAccounts DEF BeyondWindow
<1>5. LastIndSeq' \in 0 .. MAXSEQ
  <2>1. BAWinSize \in Int
    BY <1>1, SpaceFacts DEF TypeOK
  <2>2. Seq12(rx.num) \in Int
    BY <1>1, InHand, SpaceFacts
  <2>3. Seq12(rx.num) - BAWinSize \in Int
    BY <2>1, <2>2
  <2>4. (Seq12(rx.num) - BAWinSize) % (MAXSEQ + 1) \in 0 .. MAXSEQ
    BY <2>3, Seq12Any
  <2> QED
    BY <2>4, Zenon DEF BeyondWindow, WinStartSeq
<1> QED
  BY <1>1, <1>2, <1>4, <1>5, InHand DEF Accounts, BeyondWindow, TypeOK, SessionWindow

LEMMA DoneEnqueuing ==
  ASSUME Accounts, rx.pc = "enqueue", AfterEnqueue
  PROVE  /\ Receiving' /\ rx'.pc \in {"idle", "inorder"} /\ rx'.num \in Nums \cup {None}
         /\ rx'.pc = IF rx.last THEN "inorder" ELSE "idle"
<1>1. CASE rx.last
  <2>1. rx.pc # "idle" /\ rx' = [rx EXCEPT !.pc = "inorder"]
    BY <1>1 DEF AfterEnqueue
  <2> QED
    BY <1>1, <2>1, MovesOn, InHand
<1>2. CASE ~rx.last
  BY <1>2, IdleReceiving DEF AfterEnqueue
<1> QED
  BY <1>1, <1>2

\* The frame is put into the list, one block is used for it.
LEMMA InsertAccounts ==
  ASSUME Accounts, rx.pc = "enqueue", pool > 0,
         list' = InsertAt(list, Position(rx.num), rx.num), pool' = pool - 1, leaked' = leaked
  PROVE  list' \in Seq(Nums) /\ pool' \in 0 .. PoolSize /\ BlocksAccounted'
<1>1. TypeOK /\ rx.num \in Nums
  BY InHand DEF Accounts
<1>2. list \in Seq(Nums) /\ Len(list) \in Nat
  BY <1>1, ListTypes
<1>3. PICK h \in 0 .. Len(list) : Position(rx.num) = h + 1
  BY <1>1, PositionIs
<1>4. Position(rx.num) \in 1 .. Len(list) + 1
  BY <1>2, <1>3
<1>5. /\ InsertAt(list, Position(rx.num), rx.num) \in Seq(Nums)
      /\ Len(InsertAt(list, Position(rx.num), rx.num)) = Len(list) + 1
  BY <1>1, <1>2, <1>4, Insertion
<1>6. list' \in Seq(Nums) /\ Len(list') = Len(list) + 1
  BY <1>5
<1>7. pool \in Nat /\ leaked \in Nat /\ PoolSize \in Nat /\ pool + Len(list) + leaked = PoolSize
  BY <1>1, ReorderAssumption DEF Accounts, TypeOK, BlocksAccounted
<1>8. pool' \in 0 .. PoolSize /\ pool' + Len(list') + leaked' = PoolSize
  <2>1. ASSUME NEW n \in Nat, NEW m, m = n + 1, NEW p \in Nat, NEW q \in Nat,
               p + n + q = PoolSize, p > 0, PoolSize \in Nat
        PROVE  p - 1 \in 0 .. PoolSize /\ p - 1 + m + q = PoolSize
    BY <2>1
  <2> QED
    BY <2>1, <1>2, <1>6, <1>7
<1> QED
  BY <1>6, <1>8 DEF BlocksAccounted

LEMMA HoldAccounts == ASSUME Accounts, Hold PROVE Accounts'
<1>1. Receiving' /\ rx'.pc \in {"idle", "inorder"} /\ rx'.num \in Nums \cup {None}
  BY DoneEnqueuing DEF Hold
<1>2. CASE UNCHANGED <<list, pool>>
  BY <1>1, <1>2 DEF Accounts, Hold, TypeOK, SessionWindow, BlocksAccounted, history
<1>3. CASE list' = InsertAt(list, Position(rx.num), rx.num) /\ pool' = pool - 1
  <2>1. list' \in Seq(Nums) /\ pool' \in 0 .. PoolSize /\ BlocksAccounted'
    BY <1>3, InsertAccounts DEF Hold, history
  <2> QED
    BY <1>1, <2>1 DEF Accounts, Hold, TypeOK, SessionWindow, history
<1> QED
  BY <1>2, <1>3 DEF Hold

LEMMA OvertakeAccounts == ASSUME Accounts, Overtake PROVE Accounts'
<1> DEFINE k == LeSeq(Seq12(rx.num))
           taken == IF pool > 0 THEN 1 ELSE 0
<1>1. Receiving' /\ rx'.pc \in {"idle", "inorder"} /\ rx'.num \in Nums \cup {None}
  BY DoneEnqueuing DEF Overtake
<1>2. TypeOK /\ rx.num \in Nums /\ Seq12(rx.num) \in 0 .. MAXSEQ /\ <<rx.num>> \in Seq(Nums)
  BY InHand DEF Accounts, Overtake
<1>3. k \in 0 .. Len(list)
  BY <1>2, LeSeqIs
<1>4. /\ delivered' = delivered \o SubSeq(list, 1, k) \o <<rx.num>>
      /\ up' = up \cup {list[i] : i \in 1 .. k} \cup {rx.num}
      /\ list' = SubSeq(list, k + 1, Len(list))
      /\ pool' = pool - taken + k /\ leaked' = leaked + taken
  BY DEF Overtake
<1> HIDE DEF k
<1>5. list \in Seq(Nums) /\ Len(list) \in Nat /\ \A i \in 1 .. Len(list) : list[i] \in Nums
  BY <1>2, ListTypes
<1>6. /\ SubSeq(list, 1, k) \in Seq(Nums) /\ SubSeq(list, k + 1, Len(list)) \in Seq(Nums)
      /\ Len(SubSeq(list, k + 1, Len(list))) = Len(list) - k
  BY <1>3, <1>5, Cut
<1>7. list' \in Seq(Nums) /\ Len(list') = Len(list) - k
  BY <1>4, <1>6
<1>8. delivered' \in Seq(Nums)
  <2>1. delivered \in Seq(Nums)
    BY <1>2 DEF TypeOK
  <2>2. delivered \o SubSeq(list, 1, k) \in Seq(Nums)
    BY <2>1, <1>6, ConcatProperties
  <2>3. delivered \o SubSeq(list, 1, k) \o <<rx.num>> \in Seq(Nums)
    BY <2>2, <1>2, ConcatProperties
  <2> QED
    BY <2>3, <1>4
<1>9. up' \subseteq Nums
  <2>1. \A i \in 1 .. k : list[i] \in Nums
    BY <1>3, <1>5
  <2> QED
    BY <2>1, <1>2, <1>4 DEF TypeOK
<1>10. /\ pool' \in 0 .. PoolSize /\ leaked' \in 0 .. PoolSize
       /\ pool' + Len(list') + leaked' = PoolSize
  <2>1. ASSUME NEW n \in Nat, k \in 0 .. n, NEW m, m = n - k, NEW p \in Nat, NEW q \in Nat,
               NEW t, t = IF p > 0 THEN 1 ELSE 0, p + n + q = PoolSize, PoolSize \in Nat
        PROVE  /\ p - t + k \in 0 .. PoolSize /\ q + t \in 0 .. PoolSize
               /\ p - t + k + m + (q + t) = PoolSize
    BY <2>1
  <2>2. pool \in Nat /\ leaked \in Nat /\ PoolSize \in Nat /\ pool + Len(list) + leaked = PoolSize
    BY <1>2, ReorderAssumption DEF Accounts, TypeOK, BlocksAccounted
  <2>3. PICK t : t = IF pool > 0 THEN 1 ELSE 0
    OBVIOUS
  <2>4. pool' = pool - t + k /\ leaked' = leaked + t
    BY <2>3, <1>4, Zenon
  <2>5. PICK n : n = Len(list)
    OBVIOUS
  <2>6. PICK m : m = Len(list')
    OBVIOUS
  <2>7. n \in Nat /\ k \in 0 .. n /\ m = n - k /\ pool + n + leaked = PoolSize
    BY <2>2, <2>5, <2>6, <1>3, <1>5, <1>7, Zenon
  <2>8. /\ pool - t + k \in 0 .. PoolSize /\ leaked + t \in 0 .. PoolSize
        /\ pool - t + k + m + (leaked + t) = PoolSize
    BY <2>1, <2>2, <2>3, <2>7
  <2> QED
    BY <2>4, <2>6, <2>8, Zenon
<1>11. LastIndSeq' \in 0 .. MAXSEQ
  BY <1>2 DEF Overtake
<1> QED
  BY <1>1, <1>7, <1>8, <1>9, <1>10, <1>11
  DEF Accounts, Overtake, TypeOK, SessionWindow, BlocksAccounted

LEMMA ReleaseAccounts == ASSUME Accounts, Release PROVE Accounts'
<1>1. /\ TypeOK /\ BlocksAccounted /\ leaked' = leaked /\ rx' = Idle
      /\ delivered \in Seq(Nums) /\ <<>> \in Seq(Nums)
  BY EmptySeq DEF Accounts, TypeOK, Release, Done
<1>2. PICK k : k = InOrder(LastIndSeq)
  OBVIOUS
<1>3. HandUp(delivered, k, <<>>) /\ LastIndSeq' = IF k > 0 THEN Seq12(list[k]) ELSE LastIndSeq
  BY <1>2 DEF Release
<1>4. k \in 0 .. Len(list)
  BY <1>1, <1>2, InOrderIs
<1>5. /\ list' \in Seq(Nums) /\ pool' \in 0 .. PoolSize
      /\ delivered' \in Seq(Nums) /\ up' \subseteq Nums /\ BlocksAccounted'
  BY <1>1, <1>3, <1>4, HandUpAccounts
<1>6. LastIndSeq' \in 0 .. MAXSEQ \cup {RESET_RCV_SEQ}
  <2>1. k > 0 => k \in 1 .. Len(list)
    BY <1>1, <1>4, ListTypes
  <2>2. k > 0 => Seq12(list[k]) \in 0 .. MAXSEQ
    BY <2>1, <1>1, ListTypes, Seq12Type
  <2> QED
    BY <2>2, <1>1, <1>3 DEF TypeOK
<1> QED
  BY <1>1, <1>5, <1>6, IdleReceiving DEF Accounts, Release, Done, TypeOK, SessionWindow

LEMMA BaseIsInt == ASSUME TypeOK PROVE base \in Int /\ Seq12(base) \in 0 .. MAXSEQ
<1>1. base \in Int
  BY NumsAreInts DEF TypeOK
<1> QED
  BY <1>1, Seq12Type

LEMMA CntlAccounts == ASSUME Accounts, CntlEnqueueForRecv PROVE Accounts'
<1>1. TypeOK /\ BlocksAccounted /\ leaked' = leaked
  BY DEF Accounts, CntlEnqueueForRecv
<1>2. LeSeq(Seq12(base)) \in 0 .. Len(list) /\ LastHandedUp \in Seq(Nums) /\ <<>> \in Seq(Nums)
  BY <1>1, LeSeqIs, LastHandedUpType, EmptySeq
<1>3. /\ list' \in Seq(Nums) /\ pool' \in 0 .. PoolSize
      /\ delivered' \in Seq(Nums) /\ up' \subseteq Nums /\ BlocksAccounted'
  BY <1>1, <1>2, HandUpAccounts DEF CntlEnqueueForRecv
<1>4. LastIndSeq' \in 0 .. MAXSEQ
  <2>1. Seq12(base) - 1 \in Int
    BY <1>1, BaseIsInt, SpaceFacts
  <2> QED
    BY <2>1, Seq12Any DEF CntlEnqueueForRecv
<1> QED
  BY <1>1, <1>3, <1>4 DEF Accounts, CntlEnqueueForRecv, TypeOK, Receiving, SessionWindow

LEMMA PeerAdvancesAccounts == ASSUME Accounts, PeerAdvances PROVE Accounts'
<1>1. base' \in Nums
  BY ReorderAssumption DEF Accounts, TypeOK, PeerAdvances, Nums
<1> QED
  BY <1>1 DEF Accounts, PeerAdvances, TypeOK, Receiving, SessionWindow, BlocksAccounted,
              buffer, history

LEMMA StepAccounts == ASSUME Accounts, Next PROVE Accounts'
  BY AddStartsAccounts, AddEndsAccounts, TearDownStartsAccounts, TearDownEndsAccounts,
     ArriveAccounts, ArriveLegacyAccounts, RestartAccounts, InSequenceAccounts, DropAccounts,
     WithinWindowAccounts, BeyondWindowAccounts, HoldAccounts, OvertakeAccounts,
     ReleaseAccounts, CntlAccounts, PeerAdvancesAccounts, Zenon DEF Next

LEMMA StutterAccounts == ASSUME Accounts, UNCHANGED vars PROVE Accounts'
  BY DEF Accounts, TypeOK, Receiving, SessionWindow, BlocksAccounted, vars, buffer, history

LEMMA AccountsHold == Spec => []Accounts
<1>1. Accounts /\ [Next]_vars => Accounts'
  BY StepAccounts, StutterAccounts
<1> QED
  BY InitAccounts, <1>1, PTL DEF Spec

\* Every block of the pool is in it, in the list, or lost to a frame for the
\* supplicant.
THEOREM BlocksAreAccounted == Spec => []BlocksAccounted
<1>1. Accounts => BlocksAccounted
  BY DEF Accounts
<1> QED
  BY <1>1, AccountsHold, PTL

-----------------------------------------------------------------------------
(* Order.  As long as nothing overtook held frames and no session change   *)
(* met a reception, LastIndSeq stands for a number L, and everything in    *)
(* the buffer has its place relative to L.                                 *)

Orderly == ~overtook /\ ~raced

Known(a, b) == \A n \in a .. b : n \in up \/ n <= excused

Sorted(s) == \A i, j \in 1 .. Len(s) : i < j => s[i] <= s[j]

Below(s, x) == \A i \in 1 .. Len(s) : s[i] <= x

\* Frames that lie ahead of L, within the window, each beyond the last.
Held(s, L) ==
    /\ \A i \in 1 .. Len(s) : s[i] \in L + 1 .. L + Win
    /\ \A i, j \in 1 .. Len(s) : i < j => j - i <= s[j] - s[i]

\* The frame after L is missing, unless the tasklet is about to look for it.
Holed(L) ==
    rx.pc \in {"idle", "decide"} \/ (rx.pc = "enqueue" /\ ~rx.last)
        => \A i \in 1 .. Len(list) : list[i] # L + 1

Settled(L) ==
    /\ LastIndSeq = Seq12(L) /\ base + Win - L \in 1 .. H
    /\ Held(list, L) /\ Below(delivered, L + 1) /\ Known(base, L)

Placed(L) ==
    /\ Settled(L)
    /\ rx.pc = "decide" => L - rx.num < Win /\ Known(rx.num, L)
    /\ rx.pc = "enqueue" => rx.num \in L + 1 .. L + Win /\ (~rx.last => rx.num # L + 1)
    /\ Holed(L)

Ordered ==
    /\ LastIndSeq = RESET_RCV_SEQ => list = <<>> /\ rx.pc \in {"idle", "decide"}
    /\ ~session \/ mlme # "idle" => list = <<>> /\ rx = Idle
    /\ Sorted(delivered)
    /\ LastIndSeq # RESET_RCV_SEQ => \E L \in Int : Placed(L)

\* What is in the buffer was sent, not too long ago.
Sent ==
    /\ \A i \in 1 .. Len(list) : list[i] < base + Win
    /\ rx.pc # "idle" => rx.num < base + Win /\ base + Win - rx.num <= H

IInv == Accounts /\ Sent /\ (Orderly => Ordered)

LEMMA PlacedFacts ==
  ASSUME TypeOK, NEW L \in Int, Placed(L)
  PROVE  /\ LastIndSeq = Seq12(L) /\ LastIndSeq # RESET_RCV_SEQ
         /\ Shifted = Seq12(L + 1)
         /\ base \in Int /\ base - L <= H - Win /\ L - base <= Win - 1
         /\ Number(LastIndSeq, base) = L
<1>1. LastIndSeq = Seq12(L)
  BY DEF Placed, Settled
<1>2. LastIndSeq # RESET_RCV_SEQ
  BY <1>1, Seq12Type
<1>3. Shifted = Seq12(L + 1)
  <2>1. (Seq12(L) + 1) % M = Seq12(L + 1)
    BY Seq12Add
  <2> QED
    BY <1>1, <2>1, Zenon DEF Shifted, M
<1>4. base \in Int /\ base - L <= H - Win /\ L - base <= Win - 1
  BY SpaceFacts, BaseIsInt DEF Placed, Settled
<1>5. L - base \in 0 - H .. H - 1
  BY <1>4, SpaceFacts
<1>6. Seq12(LastIndSeq) = Seq12(L) /\ LastIndSeq \in Int
  <2>1. Seq12(Seq12(L) + 0) = Seq12(L + 0)
    BY Seq12Add
  <2>2. L + 0 = L /\ Seq12(L) + 0 = Seq12(L) /\ Seq12(L) \in Int
    BY Seq12Type, SpaceFacts
  <2> QED
    BY <1>1, <2>1, <2>2, Zenon
<1>7. Number(LastIndSeq, base) = L
  BY <1>4, <1>5, <1>6, NumberIs
<1> QED
  BY <1>1, <1>2, <1>3, <1>4, <1>7

\* The head of the list up to a number.
LEMMA LeSeqNumber ==
  ASSUME TypeOK, NEW n \in Int, \A i \in 1 .. Len(list) : list[i] - n \in 0 - H .. H - 1
  PROVE  /\ LeSeq(Seq12(n)) \in 0 .. Len(list)
         /\ \A i \in 1 .. LeSeq(Seq12(n)) : list[i] <= n
         /\ LeSeq(Seq12(n)) < Len(list) => list[LeSeq(Seq12(n)) + 1] > n
<1>0. Len(list) \in Nat /\ \A i \in 1 .. Len(list) : list[i] \in Int
  BY ListTypes
<1>1. PICK k : k = LeSeq(Seq12(n))
  OBVIOUS
<1>2. /\ k \in 0 .. Len(list)
      /\ \A i \in 1 .. k : Seq12(list[i]) = Seq12(n) \/ SEQ_SMALLER(Seq12(list[i]), Seq12(n))
      /\ k < Len(list) =>
             ~(Seq12(list[k + 1]) = Seq12(n) \/ SEQ_SMALLER(Seq12(list[k + 1]), Seq12(n)))
  BY <1>1, LeSeqIs, Zenon
<1>3. ASSUME NEW i \in 1 .. Len(list)
      PROVE  Seq12(list[i]) = Seq12(n) \/ SEQ_SMALLER(Seq12(list[i]), Seq12(n)) <=> list[i] <= n
  <2>1. list[i] \in Int /\ list[i] - n \in 0 - H .. H - 1 /\ list[i] - n \in 1 - M .. M - 1
    BY <1>0, <1>3, SpaceFacts
  <2>2. Seq12(list[i]) = Seq12(n) <=> list[i] = n
    BY <2>1, SameSeq
  <2>3. SEQ_SMALLER(Seq12(list[i]), Seq12(n)) <=> list[i] < n
    BY <2>1, SmallerSeq
  <2> QED
    BY <2>1, <2>2, <2>3
<1>4. \A i \in 1 .. k : list[i] <= n
  <2> SUFFICES ASSUME NEW i \in 1 .. k PROVE list[i] <= n
    OBVIOUS
  <2>1. i \in 1 .. Len(list)
    BY <1>0, <1>2
  <2> QED
    BY <2>1, <1>2, <1>3
<1>5. k < Len(list) => list[k + 1] > n
  <2> SUFFICES ASSUME k < Len(list) PROVE list[k + 1] > n
    OBVIOUS
  <2>1. k + 1 \in 1 .. Len(list)
    BY <1>0, <1>2
  <2>2. ~(list[k + 1] <= n)
    BY <2>1, <1>2, <1>3
  <2> QED
    BY <2>1, <2>2, <1>0
<1> QED
  BY <1>1, <1>2, <1>4, <1>5

LEMMA JoinSorted ==
  ASSUME NEW a \in Seq(Nums), NEW b \in Seq(Nums), NEW x \in Int,
         Sorted(a), Sorted(b), Below(a, x), \A i \in 1 .. Len(b) : x <= b[i]
  PROVE  a \o b \in Seq(Nums) /\ Sorted(a \o b)
<1>1. Len(a) \in Nat /\ Len(b) \in Nat
      /\ (\A i \in 1 .. Len(a) : a[i] \in Int) /\ (\A i \in 1 .. Len(b) : b[i] \in Int)
  BY LenProperties, NumsAreInts
<1>2. /\ a \o b \in Seq(Nums) /\ Len(a \o b) = Len(a) + Len(b)
      /\ \A i \in 1 .. Len(a) + Len(b) : (a \o b)[i] = IF i <= Len(a) THEN a[i] ELSE b[i - Len(a)]
  BY ConcatProperties, Zenon
<1>3. ASSUME NEW i \in 1 .. Len(a) + Len(b), NEW j \in 1 .. Len(a) + Len(b), i < j
      PROVE  (a \o b)[i] <= (a \o b)[j]
  <2>1. CASE j <= Len(a)
    <3>1. i \in 1 .. Len(a) /\ j \in 1 .. Len(a) /\ i <= Len(a)
      BY <2>1, <1>1, <1>3
    <3>2. (a \o b)[i] = a[i] /\ (a \o b)[j] = a[j]
      BY <3>1, <2>1, <1>2, <1>3, Zenon
    <3>3. a[i] <= a[j]
      BY <3>1, <1>3 DEF Sorted
    <3> QED
      BY <3>2, <3>3
  <2>2. CASE i <= Len(a) /\ ~(j <= Len(a))
    <3>1. i \in 1 .. Len(a) /\ j - Len(a) \in 1 .. Len(b)
      BY <2>2, <1>1, <1>3
    <3>2. (a \o b)[i] = a[i] /\ (a \o b)[j] = b[j - Len(a)]
      BY <2>2, <1>2, <1>3, Zenon
    <3>3. a[i] <= x /\ x <= b[j - Len(a)] /\ a[i] \in Int /\ b[j - Len(a)] \in Int
      BY <3>1, <1>1 DEF Below
    <3> QED
      BY <3>2, <3>3
  <2>3. CASE ~(i <= Len(a))
    <3>1. i - Len(a) \in 1 .. Len(b) /\ j - Len(a) \in 1 .. Len(b) /\ ~(j <= Len(a))
          /\ i - Len(a) < j - Len(a)
      BY <2>3, <1>1, <1>3
    <3>2. (a \o b)[i] = b[i - Len(a)] /\ (a \o b)[j] = b[j - Len(a)]
      BY <3>1, <2>3, <1>2, <1>3, Zenon
    <3>3. b[i - Len(a)] <= b[j - Len(a)]
      BY <3>1 DEF Sorted
    <3> QED
      BY <3>2, <3>3
  <2> QED
    BY <2>1, <2>2, <2>3
<1> QED
  BY <1>2, <1>3 DEF Sorted

LEMMA JoinBelow ==
  ASSUME NEW a \in Seq(Nums), NEW b \in Seq(Nums), NEW x, Below(a, x), Below(b, x)
  PROVE  Below(a \o b, x)
<1>1. Len(a) \in Nat /\ Len(b) \in Nat
  BY LenProperties
<1>2. /\ Len(a \o b) = Len(a) + Len(b)
      /\ \A i \in 1 .. Len(a) + Len(b) : (a \o b)[i] = IF i <= Len(a) THEN a[i] ELSE b[i - Len(a)]
  BY ConcatProperties, Zenon
<1>3. ASSUME NEW i \in 1 .. Len(a) + Len(b)
      PROVE  (a \o b)[i] <= x
  <2>1. CASE i <= Len(a)
    <3>1. i \in 1 .. Len(a) /\ (a \o b)[i] = a[i]
      BY <2>1, <1>1, <1>2, <1>3
    <3> QED
      BY <3>1 DEF Below
  <2>2. CASE ~(i <= Len(a))
    <3>1. i - Len(a) \in 1 .. Len(b)
      BY <2>2, <1>1, <1>3
    <3>2. (a \o b)[i] = b[i - Len(a)]
      BY <2>2, <1>2, <1>3, Zenon
    <3> QED
      BY <3>1, <3>2 DEF Below
  <2> QED
    BY <2>1, <2>2
<1> QED
  BY <1>2, <1>3 DEF Below

\* k frames leave a list placed at L: what remains is placed at N, and what
\* was handed up before and now is sorted.
LEMMA Leaves ==
  ASSUME TypeOK, NEW L \in Int, Held(list, L), NEW k \in 0 .. Len(list),
         NEW N \in Int, L <= N, k < Len(list) => list[k + 1] > N
  PROVE  /\ Held(SubSeq(list, k + 1, Len(list)), N)
         /\ Sorted(SubSeq(list, 1, k)) /\ SubSeq(list, 1, k) \in Seq(Nums)
         /\ \A i \in 1 .. Len(SubSeq(list, 1, k)) : L + 1 <= SubSeq(list, 1, k)[i]
<1> DEFINE t == SubSeq(list, k + 1, Len(list))
           u == SubSeq(list, 1, k)
<1>0. list \in Seq(Nums) /\ Len(list) \in Nat /\ (\A i \in 1 .. Len(list) : list[i] \in Int)
      /\ Win \in Nat
  BY ListTypes, SpaceFacts
<1>1. /\ u \in Seq(Nums) /\ Len(u) = k /\ \A i \in 1 .. k : u[i] = list[i]
      /\ t \in Seq(Nums) /\ Len(t) = Len(list) - k /\ \A i \in 1 .. Len(list) - k : t[i] = list[k + i]
  BY <1>0, Cut
<1> HIDE DEF t, u
<1>2. ASSUME NEW i \in 1 .. Len(t), NEW j \in 1 .. Len(t), i < j
      PROVE  j - i <= t[j] - t[i]
  <2>1. k + i \in 1 .. Len(list) /\ k + j \in 1 .. Len(list) /\ k + i < k + j
        /\ (k + j) - (k + i) = j - i /\ t[i] = list[k + i] /\ t[j] = list[k + j]
    BY <1>0, <1>1, <1>2
  <2>2. (k + j) - (k + i) <= list[k + j] - list[k + i]
    BY <2>1 DEF Held
  <2> QED
    BY <2>1, <2>2, Zenon
<1>3. ASSUME NEW i \in 1 .. Len(t)
      PROVE  t[i] \in N + 1 .. N + Win
  <2>1. k + i \in 1 .. Len(list) /\ k + 1 \in 1 .. Len(list) /\ k < Len(list) /\ t[i] = list[k + i]
    BY <1>0, <1>1, <1>3
  <2>2. list[k + i] >= list[k + 1]
    <3>1. CASE i = 1
      BY <3>1, <2>1, <1>0
    <3>2. CASE i # 1
      <4>1. k + 1 < k + i
        BY <3>2, <1>3, <1>1, <1>0
      <4>2. (k + i) - (k + 1) <= list[k + i] - list[k + 1]
        BY <2>1, <4>1 DEF Held
      <4>3. list[k + i] \in Int /\ list[k + 1] \in Int
        BY <2>1, <1>0
      <4> QED
        BY <4>1, <4>2, <4>3, <2>1, <1>0
    <3> QED
      BY <3>1, <3>2
  <2>3. list[k + i] \in L + 1 .. L + Win
    BY <2>1 DEF Held
  <2>4. list[k + i] \in Int /\ list[k + 1] \in Int /\ list[k + 1] > N
    BY <2>1, <1>0
  <2>5. \A a, b, w \in Int : a >= b /\ b > N /\ a \in L + 1 .. L + w => a \in N + 1 .. N + w
    OBVIOUS
  <2>6. list[k + i] \in N + 1 .. N + Win
    <3>1. Win \in Int
      BY <1>0
    <3> QED
      BY <2>2, <2>3, <2>4, <2>5, <3>1, Zenon
  <2> QED
    BY <2>1, <2>6, Zenon
<1>4. Held(t, N)
  BY <1>2, <1>3 DEF Held
<1>5. ASSUME NEW i \in 1 .. k, NEW j \in 1 .. k, i < j
      PROVE  u[i] <= u[j]
  <2>1. i \in 1 .. Len(list) /\ j \in 1 .. Len(list) /\ i \in Int /\ j \in Int
    BY <1>0, <1>5
  <2>2. j - i <= list[j] - list[i] /\ list[i] \in Int /\ list[j] \in Int
    BY <2>1, <1>0, <1>5 DEF Held
  <2>3. list[i] <= list[j]
    BY <2>1, <2>2, <1>5
  <2> QED
    BY <2>3, <1>1, <1>5
<1>6. ASSUME NEW i \in 1 .. k
      PROVE  L + 1 <= u[i]
  <2>1. i \in 1 .. Len(list)
    BY <1>0, <1>6
  <2>2. list[i] \in L + 1 .. L + Win
    BY <2>1 DEF Held
  <2> QED
    BY <2>2, <1>1, <1>6
<1>7. Sorted(u)
  BY <1>1, <1>5 DEF Sorted
<1> QED
  BY <1>1, <1>4, <1>6, <1>7 DEF t, u

\* What is left of the list, frame by frame.
LEMMA Rest ==
  ASSUME TypeOK, NEW k \in 0 .. Len(list), list' = SubSeq(list, k + 1, Len(list))
  PROVE  /\ list' \in Seq(Nums) /\ Len(list') = Len(list) - k
         /\ \A i \in 1 .. Len(list') : k + i \in k + 1 .. Len(list) /\ list'[i] = list[k + i]
<1>1. list \in Seq(Nums) /\ Len(list) \in Nat
  BY ListTypes
<1>2. /\ list' \in Seq(Nums) /\ Len(list') = Len(list) - k
      /\ \A i \in 1 .. Len(list) - k : list'[i] = list[k + i]
  BY <1>1, Cut
<1>3. \A i \in 1 .. Len(list) - k : k + i \in k + 1 .. Len(list)
  BY <1>1
<1> QED
  BY <1>2, <1>3

LEMMA RestSent ==
  ASSUME TypeOK, Sent, NEW k \in 0 .. Len(list), list' = SubSeq(list, k + 1, Len(list))
  PROVE  \A i \in 1 .. Len(list') : list'[i] < base + Win
<1> SUFFICES ASSUME NEW i \in 1 .. Len(list') PROVE list'[i] < base + Win
  OBVIOUS
<1>1. k + i \in k + 1 .. Len(list) /\ list'[i] = list[k + i]
  BY Rest
<1>2. k + i \in 1 .. Len(list)
  BY <1>1, ListTypes
<1> QED
  BY <1>1, <1>2 DEF Sent

LEMMA HandsUp ==
  ASSUME TypeOK, NEW L \in Int, Held(list, L), NEW k \in 0 .. Len(list),
         NEW old \in Seq(Nums), Sorted(old), Below(old, L + 1), HandUp(old, k, <<>>),
         NEW N \in Int, L <= N, k < Len(list) => list[k + 1] > N,
         \A i \in 1 .. k : list[i] <= N + 1
  PROVE  /\ Held(list', N) /\ Sorted(delivered') /\ Below(delivered', N + 1)
         /\ up \subseteq up' /\ \A i \in 1 .. k : list[i] \in up'
<1> DEFINE u == SubSeq(list, 1, k)
<1>1. /\ list' = SubSeq(list, k + 1, Len(list)) /\ delivered' = old \o u \o <<>>
      /\ up' = up \cup {list[i] : i \in 1 .. k} \cup {<<>>[i] : i \in 1 .. Len(<<>>)}
  BY DEF HandUp
<1>2. /\ Held(SubSeq(list, k + 1, Len(list)), N) /\ Sorted(u) /\ u \in Seq(Nums)
      /\ \A i \in 1 .. Len(u) : L + 1 <= u[i]
  BY Leaves
<1>3. Len(u) = k /\ \A i \in 1 .. k : u[i] = list[i]
  BY ListTypes, Cut
<1> HIDE DEF u
<1>4. L + 1 \in Int
  OBVIOUS
<1>5. old \o u \in Seq(Nums) /\ Sorted(old \o u)
  BY <1>2, <1>4, JoinSorted
<1>6. Below(u, N + 1)
  BY <1>3 DEF Below
<1>7. Below(old, N + 1)
  <2> SUFFICES ASSUME NEW i \in 1 .. Len(old) PROVE old[i] <= N + 1
    BY DEF Below
  <2>1. old[i] \in Int
    BY LenProperties, NumsAreInts
  <2>2. old[i] <= L + 1
    BY DEF Below
  <2> QED
    BY <2>1, <2>2
<1>8. Below(old \o u, N + 1)
  BY <1>2, <1>6, <1>7, JoinBelow
<1>9. delivered' = old \o u
  BY <1>1, <1>5, ConcatEmptySeq
<1>10. up \subseteq up' /\ \A i \in 1 .. k : list[i] \in up'
  BY <1>1
<1> QED
  BY <1>1, <1>2, <1>5, <1>8, <1>9, <1>10

LEMMA LastHandedUpOrder ==
  ASSUME TypeOK, NEW x, Below(delivered, x)
  PROVE  Sorted(LastHandedUp) /\ Below(LastHandedUp, x)
<1>1. CASE delivered = <<>> \/ LastIndSeq = RESET_RCV_SEQ
  <2>1. LastHandedUp = <<>> /\ Len(<<>>) = 0
    BY <1>1 DEF LastHandedUp
  <2> QED
    BY <2>1 DEF Sorted, Below
<1>2. CASE ~(delivered = <<>> \/ LastIndSeq = RESET_RCV_SEQ)
  <2>1. delivered \in Seq(Nums) /\ delivered # <<>>
    BY <1>2 DEF TypeOK
  <2>2. Len(delivered) \in Nat /\ Len(delivered) # 0
    BY <2>1, EmptySeq
  <2>3. Len(delivered) \in 1 .. Len(delivered)
    BY <2>2
  <2>4. Last(delivered) <= x
    BY <2>3 DEF Below, Last
  <2>5. LastHandedUp = <<Last(delivered)>>
    BY <1>2 DEF LastHandedUp
  <2>6. Len(LastHandedUp) = 1 /\ LastHandedUp[1] = Last(delivered)
    BY <2>5
  <2>7. Sorted(LastHandedUp)
    BY <2>6 DEF Sorted
  <2> QED
    BY <2>4, <2>6, <2>7 DEF Below
<1> QED
  BY <1>1, <1>2

\* There is no room for more than Win frames.
LEMMA HeldSize ==
  ASSUME TypeOK, NEW L \in Int, Held(list, L)
  PROVE  Len(list) <= Win
<1>0. Len(list) \in Nat /\ (\A i \in 1 .. Len(list) : list[i] \in Int) /\ Win \in Nat /\ Win >= 1
  BY ListTypes, SpaceFacts
<1>1. CASE Len(list) > 1
  <2>1. 1 \in 1 .. Len(list) /\ Len(list) \in 1 .. Len(list) /\ 1 < Len(list)
    BY <1>0, <1>1
  <2>2. Len(list) - 1 <= list[Len(list)] - list[1]
    BY <2>1 DEF Held
  <2>3. list[1] \in L + 1 .. L + Win /\ list[Len(list)] \in L + 1 .. L + Win
    BY <2>1 DEF Held
  <2> QED
    BY <1>0, <2>1, <2>2, <2>3
<1>2. CASE ~(Len(list) > 1)
  BY <1>0, <1>2
<1> QED
  BY <1>1, <1>2

\* The frame after N is missing if the list does not begin with it.
LEMMA NotHeld ==
  ASSUME NEW s \in Seq(Nums), NEW N \in Int, Held(s, N), 1 <= Len(s) => s[1] # N + 1
  PROVE  \A i \in 1 .. Len(s) : s[i] # N + 1
<1> SUFFICES ASSUME NEW i \in 1 .. Len(s) PROVE s[i] # N + 1
  OBVIOUS
<1>a. Len(s) \in Nat /\ \A j \in 1 .. Len(s) : s[j] \in Nums
  BY LenProperties
<1>b. i \in Int /\ 1 \in 1 .. Len(s) /\ Win \in Int
  BY <1>a, SpaceFacts
<1>1. Len(s) \in Nat /\ i \in Int /\ 1 \in 1 .. Len(s) /\ s[i] \in Int /\ s[1] \in Int
      /\ Win \in Int
  BY <1>a, <1>b, NumsAreInts
<1>2. s[1] \in N + 1 .. N + Win
  BY <1>1 DEF Held
<1>3. CASE i = 1
  BY <1>1, <1>3
<1>4. CASE i > 1
  <2>1. i - 1 <= s[i] - s[1]
    BY <1>1, <1>4 DEF Held
  <2> QED
    BY <2>1, <1>1, <1>2, <1>4
<1> QED
  BY <1>1, <1>3, <1>4

\* A flush that moves past the hole after L leaves the buffer settled at the
\* last frame it handed up, or at the hole's end.
LEMMA ShiftSettles ==
  ASSUME Accounts, Sent, NEW L \in Int, Placed(L), rx = Idle, base' = base, Sorted(delivered),
         NEW k \in 0 .. Len(list), HandUp(LastHandedUp, k, <<>>), list # <<>>,
         NEW j \in 0 .. k, ShiftsBy(k, j)
  PROVE  /\ Sorted(delivered')
         /\ \E N \in Int : Settled(N)' /\ \A i \in 1 .. Len(list') : list'[i] # N + 1
<1>1. TypeOK /\ Held(list, L) /\ Below(delivered, L + 1) /\ Known(base, L)
  BY DEF Accounts, Placed, Settled
<1>2. /\ list \in Seq(Nums) /\ Len(list) \in Nat /\ Len(list) <= Win /\ Win \in Nat /\ H \in Nat
      /\ M = 2 * H /\ Win < H /\ Win >= 1
      /\ \A i \in 1 .. Len(list) : list[i] \in Int /\ list[i] \in L + 1 .. L + Win
  BY <1>1, ListTypes, HeldSize, SpaceFacts DEF Held
<1>3. k \in Nat /\ j \in Nat /\ j <= k /\ k <= Len(list) /\ 1 \in 1 .. Len(list)
  BY <1>1, <1>2, EmptySeq
<1>4. Shifted = Seq12(L + 1) /\ L + 1 \in Int
  BY <1>1, PlacedFacts
<1>5. ASSUME NEW i \in 1 .. Len(list)
      PROVE  Seq12(list[i]) = Shifted \/ SEQ_SMALLER(Seq12(list[i]), Shifted) <=> list[i] = L + 1
  <2>1. list[i] \in Int /\ list[i] - (L + 1) \in 0 .. Win - 1
    BY <1>2, <1>5
  <2>2. list[i] - (L + 1) \in 0 - H .. H - 1 /\ list[i] - (L + 1) \in 1 - M .. M - 1
        /\ ~(list[i] < L + 1)
    <3>1. PICK d \in 0 .. Win - 1 : d = list[i] - (L + 1)
      BY <2>1
    <3>2. d \in 0 - H .. H - 1 /\ d \in 1 - M .. M - 1
      BY <1>2
    <3>3. ~(list[i] < L + 1)
      BY <2>1, <3>1
    <3> QED
      BY <3>1, <3>2, <3>3
  <2>3. Seq12(list[i]) = Shifted <=> list[i] = L + 1
    <3>1. Seq12(list[i]) = Seq12(L + 1) <=> list[i] = L + 1
      BY <2>1, <2>2, <1>4, SameSeq
    <3> QED
      BY <3>1, <1>4
  <2>4. ~SEQ_SMALLER(Seq12(list[i]), Shifted)
    <3>1. SEQ_SMALLER(Seq12(list[i]), Seq12(L + 1)) <=> list[i] < L + 1
      BY <2>1, <2>2, <1>4, SmallerSeq
    <3> QED
      BY <3>1, <2>2, <1>4
  <2> QED
    BY <2>3, <2>4
<1>6. ASSUME NEW i \in 1 .. Len(list), i > j
      PROVE  Seq12(list[i]) = Seq12(Shifted + i - j) <=> list[i] = L + 1 + (i - j)
  <2>1. i - j \in Int /\ i - j \in 1 .. Win /\ list[i] \in Int /\ list[i] \in L + 1 .. L + Win
    BY <1>2, <1>3, <1>6
  <2>2. L + 1 + (i - j) \in Int /\ list[i] - (L + 1 + (i - j)) \in 1 - M .. M - 1
    BY <2>1, <1>2
  <2>3. Seq12(Seq12(L + 1) + (i - j)) = Seq12(L + 1 + (i - j))
    BY <2>1, <1>4, Seq12Add
  <2>4. Shifted + i - j = Seq12(L + 1) + (i - j)
    BY <1>1, <1>3, <1>4, <1>6, ShiftedType
  <2>5. Seq12(list[i]) = Seq12(L + 1 + (i - j)) <=> list[i] = L + 1 + (i - j)
    BY <2>1, <2>2, SameSeq
  <2> QED
    BY <2>3, <2>4, <2>5
<1>7. \A i \in 1 .. j : list[i] = L + 1
  <2> SUFFICES ASSUME NEW i \in 1 .. j PROVE list[i] = L + 1
    OBVIOUS
  <2>1. i \in 1 .. Len(list)
    BY <1>2, <1>3
  <2>2. Seq12(list[i]) = Shifted \/ SEQ_SMALLER(Seq12(list[i]), Shifted)
    BY DEF ShiftsBy
  <2> QED
    BY <2>1, <2>2, <1>5
<1>8. j < Len(list) => list[j + 1] # L + 1
  <2>1. j < Len(list) => j + 1 \in 1 .. Len(list)
    BY <1>2, <1>3
  <2> QED
    BY <2>1, <1>5 DEF ShiftsBy
<1>9. ASSUME NEW i \in j + 1 .. k
      PROVE  i \in 1 .. Len(list) /\ list[i] = L + 1 + (i - j)
  <2>1. i \in 1 .. Len(list) /\ i > j
    BY <1>2, <1>3, <1>9
  <2> QED
    BY <2>1, <1>6, <1>9 DEF ShiftsBy
<1>10. k < Len(list) => list[k + 1] # L + 1 + (k + 1 - j)
  <2> SUFFICES ASSUME k < Len(list) PROVE list[k + 1] # L + 1 + (k + 1 - j)
    OBVIOUS
  <2>1. k + 1 \in 1 .. Len(list) /\ k + 1 > j
    BY <1>2, <1>3
  <2> QED
    BY <2>1, <1>6 DEF ShiftsBy
<1>11. PICK N \in Int : N = L + 1 + (k - j)
  BY <1>3
<1>12. L <= N /\ L + 1 <= N
  BY <1>3, <1>11
<1>13. LastIndSeq' = Seq12(N)
  <2>1. CASE k > j
    <3>1. k \in j + 1 .. k
      BY <2>1, <1>3
    <3> QED
      BY <3>1, <2>1, <1>9, <1>11 DEF ShiftsBy
  <2>2. CASE ~(k > j)
    <3>1. N = L + 1
      BY <2>2, <1>3, <1>11
    <3> QED
      BY <3>1, <2>2, <1>4 DEF ShiftsBy
  <2> QED
    BY <2>1, <2>2
<1>14. k < Len(list) => list[k + 1] > N /\ list[k + 1] # N + 1
  <2> SUFFICES ASSUME k < Len(list) PROVE list[k + 1] > N /\ list[k + 1] # N + 1
    OBVIOUS
  <2>1. k + 1 \in 1 .. Len(list) /\ list[k + 1] \in Int /\ list[k + 1] \in L + 1 .. L + Win
    BY <1>2, <1>3
  <2>2. list[k + 1] # N + 1
    BY <1>3, <1>10, <1>11
  <2>3. CASE k > j
    <3>1. k \in 1 .. Len(list) /\ k < k + 1 /\ list[k] = N
      BY <2>3, <1>3, <1>9, <1>11
    <3>2. k + 1 - k <= list[k + 1] - list[k]
      BY <3>1, <2>1, <1>1 DEF Held
    <3> QED
      BY <3>1, <3>2, <2>1, <2>2, <1>3
  <2>4. CASE k = j
    <3>1. N = L + 1 /\ list[k + 1] # L + 1
      BY <2>4, <1>3, <1>8, <1>11
    <3> QED
      BY <3>1, <2>1, <2>2
  <2> QED
    BY <2>3, <2>4, <1>3
<1>15. \A i \in 1 .. k : list[i] <= N + 1
  <2> SUFFICES ASSUME NEW i \in 1 .. k PROVE list[i] <= N + 1
    OBVIOUS
  <2>1. CASE i <= j
    <3>1. list[i] = L + 1
      BY <2>1, <1>3, <1>7
    <3> QED
      BY <3>1, <1>11, <1>12
  <2>2. CASE i > j
    <3>1. list[i] = L + 1 + (i - j) /\ i <= k
      BY <2>2, <1>3, <1>9
    <3> QED
      BY <3>1, <1>3, <1>11
  <2> QED
    BY <2>1, <2>2, <1>3
<1>16. LastHandedUp \in Seq(Nums) /\ Sorted(LastHandedUp) /\ Below(LastHandedUp, L + 1)
  BY <1>1, LastHandedUpType, LastHandedUpOrder
<1>17. /\ Held(list', N) /\ Sorted(delivered') /\ Below(delivered', N + 1)
       /\ up \subseteq up' /\ \A i \in 1 .. k : list[i] \in up'
  BY <1>1, <1>12, <1>14, <1>15, <1>16, HandsUp
<1>18. base' + Win - N \in 1 .. H
  <2>1. base \in Int /\ base + Win - L \in 1 .. H
    BY <1>1, BaseIsInt DEF Placed, Settled
  <2>2. base + Win - N <= H
    BY <2>1, <1>2, <1>11, <1>12
  <2>3. N < base + Win
    <3>1. CASE k > j
      <4>1. k \in 1 .. Len(list) /\ list[k] = N
        BY <3>1, <1>3, <1>9, <1>11
      <4> QED
        BY <4>1 DEF Sent
    <3>2. CASE k = j
      <4>1. N = L + 1 /\ N <= list[1] /\ list[1] \in Int
        BY <3>2, <1>2, <1>3, <1>11
      <4>2. list[1] < base + Win
        BY <1>3 DEF Sent
      <4> QED
        BY <4>1, <4>2, <2>1, <1>2
    <3> QED
      BY <3>1, <3>2, <1>3
  <2> QED
    BY <2>1, <2>2, <2>3, <1>2
<1>19. excused' = L + 1
  <2>1. list[1] \in Int /\ L + 1 - list[1] \in 0 - H .. H - 1
    BY <1>2, <1>3
  <2>2. Seq12(Shifted) = Seq12(L + 1)
    <3>1. Seq12(Seq12(L + 1) + 0) = Seq12(L + 1 + 0)
      BY <1>4, Seq12Add
    <3>2. Seq12(L + 1) + 0 = Seq12(L + 1) /\ L + 1 + 0 = L + 1
      BY <1>1, <1>4, ShiftedType
    <3> QED
      BY <3>1, <3>2, <1>4
  <2>3. Number(Shifted, list[1]) = L + 1
    BY <2>1, <2>2, <1>1, <1>4, ShiftedType, NumberIs
  <2> QED
    BY <2>3 DEF ShiftsBy
<1>20. ASSUME NEW n \in base' .. N
       PROVE  n \in up' \/ n <= excused'
  <2>0. n \in Int /\ base \in Int /\ n <= N
    BY <1>1, <1>20, BaseIsInt
  <2>1. CASE n <= L + 1
    BY <2>1, <1>19
  <2>2. CASE n > L + 1
    <3>1. n - L - 1 + j \in j + 1 .. k
      BY <2>0, <2>2, <1>3, <1>11
    <3>2. list[n - L - 1 + j] = L + 1 + ((n - L - 1 + j) - j) /\ n - L - 1 + j \in 1 .. k
      BY <3>1, <1>3, <1>9
    <3>3. L + 1 + ((n - L - 1 + j) - j) = n
      BY <2>0, <1>3
    <3> QED
      BY <3>2, <3>3, <1>17
  <2> QED
    BY <2>0, <2>1, <2>2
<1>21. Settled(N)'
  BY <1>13, <1>17, <1>18, <1>20 DEF Settled, Known
<1>22. \A i \in 1 .. Len(list') : list'[i] # N + 1
  <2>1. list' \in Seq(Nums) /\ Len(list') = Len(list) - k
        /\ \A i \in 1 .. Len(list') : k + i \in k + 1 .. Len(list) /\ list'[i] = list[k + i]
    BY <1>1, Rest DEF HandUp
  <2>2. 1 <= Len(list') => list'[1] # N + 1
    <3> SUFFICES ASSUME 1 <= Len(list') PROVE list'[1] # N + 1
      OBVIOUS
    <3>1. 1 \in 1 .. Len(list') /\ k < Len(list)
      BY <2>1, <1>2, <1>3
    <3> QED
      BY <3>1, <2>1, <1>14
  <2>3. ASSUME NEW s, s = list' PROVE \A i \in 1 .. Len(s) : s[i] # N + 1
    BY <2>1, <2>2, <2>3, <1>17, NotHeld
  <2> QED
    BY <2>3
<1> QED
  BY <1>17, <1>21, <1>22

\* What a flush leaves, for the frame that comes next.
Flushed ==
    \/ LastIndSeq = RESET_RCV_SEQ /\ list = <<>>
    \/ \E N \in Int : Settled(N) /\ \A i \in 1 .. Len(list) : list[i] # N + 1

\* Nothing is handed up.
LEMMA NothingUp ==
  ASSUME TypeOK, NEW L \in Int, Held(list, L), Below(delivered, L + 1), HandUp(LastHandedUp, 0, <<>>)
  PROVE  /\ Held(list', L) /\ Sorted(delivered') /\ Below(delivered', L + 1)
         /\ up \subseteq up' /\ list' = list
<1>1. list \in Seq(Nums) /\ Len(list) \in Nat /\ 0 \in 0 .. Len(list)
      /\ \A i \in 1 .. Len(list) : list[i] \in Int
  BY ListTypes
<1>2. 0 < Len(list) => list[0 + 1] > L
  <2> SUFFICES ASSUME 0 < Len(list) PROVE list[1] > L
    OBVIOUS
  <2>1. 1 \in 1 .. Len(list)
    BY <1>1
  <2> QED
    BY <2>1, <1>1, SpaceFacts DEF Held
<1>3. LastHandedUp \in Seq(Nums) /\ Sorted(LastHandedUp) /\ Below(LastHandedUp, L + 1)
  BY LastHandedUpType, LastHandedUpOrder
<1>4. \A i \in 1 .. 0 : list[i] <= L + 1
  OBVIOUS
<1>5. list' = list
  BY <1>1, SubSeqFull DEF HandUp
<1> QED
  BY <1>1, <1>2, <1>3, <1>4, <1>5, HandsUp

LEMMA FlushOrder ==
  ASSUME Accounts, Sent, Ordered, rx = Idle, base' = base, NEW k \in 0 .. Len(list), Flushes(k)
  PROVE  Sorted(delivered') /\ Flushed'
<1>1. TypeOK /\ HandUp(LastHandedUp, k, <<>>) /\ Sorted(delivered) /\ base \in Int
  BY BaseIsInt DEF Accounts, Flushes, Ordered
<1>2. list \in Seq(Nums) /\ Len(list) \in Nat /\ Len(list) \in 0 .. Len(list)
      /\ \A i \in 1 .. Len(list) : list[i] \in Int
  BY <1>1, ListTypes
<1>3. CASE LastIndSeq = RESET_RCV_SEQ
  <2>1. list = <<>> /\ Len(list) = 0 /\ k = 0
    BY <1>2, <1>3, EmptySeq DEF Ordered
  <2>2. LastHandedUp = <<>> /\ Sorted(<<>>) /\ <<>> \in Seq(Nums)
    BY <1>3, EmptySeq DEF LastHandedUp, Sorted
  <2>4. HandUp(<<>>, 0, <<>>)
    BY <2>1, <2>2, <1>1
  <2>5. Sorted(delivered')
    <3>1. SubSeq(list, 1, 0) = <<>> /\ <<>> \o <<>> = <<>>
      BY <2>2, SubSeqEmpty, ConcatEmptySeq
    <3>2. delivered' = <<>>
      BY <3>1, <2>4, Zenon DEF HandUp
    <3> QED
      BY <3>2, <2>2
  <2>6. list' = <<>>
    BY <2>1, <1>2, <1>1, SubSeqFull DEF HandUp
  <2>7. LastIndSeq' = RESET_RCV_SEQ
    BY <2>1, <1>3 DEF Flushes
  <2> QED
    BY <2>5, <2>6, <2>7 DEF Flushed
<1>4. CASE LastIndSeq # RESET_RCV_SEQ
  <2>1. PICK L \in Int : Placed(L)
    BY <1>4 DEF Ordered
  <2>2. Held(list, L) /\ Below(delivered, L + 1)
    BY <2>1 DEF Placed, Settled
  <2>3. CASE k = Len(list) /\ k > 1 /\ LastIndSeq' = RESET_RCV_SEQ
    <3>1. L + Win \in Int /\ L <= L + Win
      BY SpaceFacts
    <3>2. \A i \in 1 .. k : list[i] <= L + Win + 1
      BY <2>2, <2>3, <1>2, SpaceFacts DEF Held
    <3>3. LastHandedUp \in Seq(Nums) /\ Sorted(LastHandedUp) /\ Below(LastHandedUp, L + 1)
      BY <1>1, <2>2, LastHandedUpType, LastHandedUpOrder
    <3>4. ~(k < Len(list))
      BY <2>3, <1>2
    <3>5. Sorted(delivered')
      BY <1>1, <2>2, <3>1, <3>2, <3>3, <3>4, HandsUp
    <3>6. list' = <<>>
      BY <1>2, <2>3, <1>1, SubSeqEmpty DEF HandUp
    <3> QED
      BY <3>5, <3>6, <2>3 DEF Flushed
  <2>4. ASSUME list # <<>>, NEW j \in 0 .. k, ShiftsBy(k, j)
        PROVE  Sorted(delivered') /\ Flushed'
    <3>1. /\ Sorted(delivered')
          /\ \E N \in Int : Settled(N)' /\ \A i \in 1 .. Len(list') : list'[i] # N + 1
      BY <1>1, <2>1, <2>4, ShiftSettles
    <3> QED
      BY <3>1 DEF Flushed
  <2>5. CASE k = 0 /\ LastIndSeq' = LastIndSeq /\ excused' = excused
    <3>1. HandUp(LastHandedUp, 0, <<>>)
      BY <1>1, <2>5
    <3>2. /\ Held(list', L) /\ Sorted(delivered') /\ Below(delivered', L + 1)
          /\ up \subseteq up' /\ list' = list
      BY <1>1, <2>2, <3>1, NothingUp
    <3>3. Settled(L)'
      BY <2>1, <2>5, <3>2 DEF Placed, Settled, Known
    <3>4. \A i \in 1 .. Len(list) : list[i] # L + 1
      BY <2>1 DEF Placed, Holed, Idle
    <3> QED
      BY <3>2, <3>3, <3>4 DEF Flushed
  <2> QED
    BY <2>3, <2>4, <2>5 DEF Flushes
<1> QED
  BY <1>3, <1>4

-----------------------------------------------------------------------------
(* Each step keeps the order. *)

LEMMA InitOrder == Init => Sent /\ Ordered
<1> SUFFICES ASSUME Init PROVE Sent /\ Ordered
  OBVIOUS
<1>1. Len(<<>>) = 0 /\ list = <<>> /\ delivered = <<>> /\ rx.pc = "idle"
  BY DEF Init, Idle
<1>2. Sent
  BY <1>1 DEF Sent
<1>3. Sorted(delivered)
  BY <1>1 DEF Sorted
<1> QED
  BY <1>1, <1>2, <1>3 DEF Ordered, Init

LEMMA RefreshOrder ==
  ASSUME TypeOK, Refresh
  PROVE  list' = <<>> /\ Len(list') = 0 /\ LastIndSeq' = RESET_RCV_SEQ
         /\ (Ordered => Sorted(delivered'))
<1>1. HandUp(delivered, Len(list), <<>>) /\ LastIndSeq' = RESET_RCV_SEQ
  BY DEF Refresh
<1>2. /\ list \in Seq(Nums) /\ Len(list) \in Nat /\ Len(list) \in 0 .. Len(list)
      /\ delivered \in Seq(Nums) /\ \A i \in 1 .. Len(list) : list[i] \in Int
  BY ListTypes DEF TypeOK
<1>3. list' = <<>> /\ Len(list') = 0
  <2>1. SubSeq(list, Len(list) + 1, Len(list)) = <<>>
    BY <1>2, SubSeqEmpty
  <2> QED
    BY <2>1, <1>1 DEF HandUp
<1>4. ASSUME Ordered PROVE Sorted(delivered')
  <2>1. Sorted(delivered)
    BY <1>4 DEF Ordered
  <2>2. CASE LastIndSeq = RESET_RCV_SEQ
    <3>1. list = <<>> /\ Len(list) = 0
      BY <1>4, <2>2, <1>2, EmptySeq DEF Ordered
    <3>2. SubSeq(list, 1, 0) = <<>> /\ delivered \o <<>> = delivered
      BY <1>2, SubSeqEmpty, ConcatEmptySeq
    <3>3. delivered' = delivered
      BY <3>1, <3>2, <1>1, Zenon DEF HandUp
    <3> QED
      BY <3>3, <2>1
  <2>3. CASE LastIndSeq # RESET_RCV_SEQ
    <3>1. PICK L \in Int : Placed(L)
      BY <1>4, <2>3 DEF Ordered
    <3>2. Held(list, L) /\ Below(delivered, L + 1)
      BY <3>1 DEF Placed, Settled
    <3>3. L + Win \in Int /\ L <= L + Win /\ \A i \in 1 .. Len(list) : list[i] <= L + Win + 1
      BY <3>2, <1>2, SpaceFacts DEF Held
    <3>4. ~(Len(list) < Len(list))
      BY <1>2
    <3> QED
      BY <1>1, <1>2, <2>1, <3>2, <3>3, <3>4, HandsUp
  <2> QED
    BY <2>2, <2>3
<1> QED
  BY <1>1, <1>3, <1>4

LEMMA AddStartsOrder == ASSUME IInv, AddStarts PROVE Sent' /\ (Orderly' => Ordered')
<1>1. TypeOK /\ Sent /\ rx' = rx /\ base' = base /\ mlme' = "add"
  BY DEF IInv, Accounts, AddStarts
<1>2. ASSUME Orderly' PROVE Orderly /\ Ordered /\ rx = Idle
  BY <1>2 DEF Orderly, AddStarts, Meets, IInv, Accounts, Receiving
<1>3. CASE session /\ Refresh
  <2>1. /\ list' = <<>> /\ Len(list') = 0 /\ LastIndSeq' = RESET_RCV_SEQ
        /\ Ordered => Sorted(delivered')
    BY <1>1, <1>3, RefreshOrder
  <2> QED
    BY <1>1, <1>2, <2>1 DEF Sent, Ordered, Idle
<1>4. CASE ~session /\ UNCHANGED <<LastIndSeq, list, pool, delivered, up>>
  <2>1. Sent'
    BY <1>1, <1>4 DEF Sent
  <2>2. ASSUME Orderly' PROVE Ordered'
    <3>1. list = <<>> /\ Sorted(delivered)
      BY <1>2, <1>4, <2>2 DEF Ordered
    <3>2. ASSUME NEW L \in Int, Placed(L) PROVE Placed(L)'
      BY <1>1, <1>4, <3>2 DEF Placed, Settled, Holed, Known, AddStarts
    <3> QED
      BY <1>1, <1>2, <1>4, <2>2, <3>1, <3>2 DEF Ordered, Idle
  <2> QED
    BY <2>1, <2>2
<1> QED
  BY <1>3, <1>4 DEF AddStarts

LEMMA TearDownStartsOrder == ASSUME IInv, TearDownStarts PROVE Sent' /\ (Orderly' => Ordered')
<1>1. TypeOK /\ Sent /\ rx' = rx /\ base' = base /\ Refresh
  BY DEF IInv, Accounts, TearDownStarts
<1>2. ASSUME Orderly' PROVE Orderly /\ Ordered /\ rx = Idle
  BY <1>2 DEF Orderly, TearDownStarts, Meets, IInv, Accounts, Receiving
<1>3. /\ list' = <<>> /\ Len(list') = 0 /\ LastIndSeq' = RESET_RCV_SEQ
      /\ Ordered => Sorted(delivered')
  BY <1>1, RefreshOrder
<1> QED
  BY <1>1, <1>2, <1>3 DEF Sent, Ordered, Idle

LEMMA SessionEndsOrder ==
  ASSUME IInv, mlme # "idle", LastIndSeq' = RESET_RCV_SEQ, UNCHANGED <<list, rx, base, history>>
  PROVE  Sent' /\ (Orderly' => Ordered')
<1>1. Sent'
  BY DEF IInv, Sent
<1>2. ASSUME Orderly' PROVE Ordered'
  <2>1. Ordered
    BY <1>2 DEF IInv, Orderly, history
  <2>2. list = <<>> /\ rx = Idle /\ Sorted(delivered)
    BY <2>1 DEF Ordered
  <2> QED
    BY <2>2 DEF Ordered, Idle, history
<1> QED
  BY <1>1, <1>2

LEMMA AddEndsOrder == ASSUME IInv, AddEnds PROVE Sent' /\ (Orderly' => Ordered')
  BY SessionEndsOrder DEF AddEnds

LEMMA TearDownEndsOrder == ASSUME IInv, TearDownEnds PROVE Sent' /\ (Orderly' => Ordered')
  BY SessionEndsOrder DEF TearDownEnds

\* A settled LastIndSeq is no reset.
LEMMA SettledIsNoReset ==
  ASSUME NEW N \in Int, LastIndSeq' = Seq12(N)
  PROVE  LastIndSeq' # RESET_RCV_SEQ
  BY Seq12Type

LEMMA ArriveOrder == ASSUME IInv, Arrive PROVE Sent' /\ (Orderly' => Ordered')
<1>1. PICK n \in base .. base + Win - 1, kind \in Kinds, wait \in Waits :
          /\ n <= LastNum /\ FlushTimeout(wait)
          /\ rx' = [pc |-> "decide", num |-> n, kind |-> kind, last |-> FALSE]
  BY DEF Arrive
<1>2. TypeOK /\ Accounts /\ Sent /\ base' = base /\ base \in Int /\ rx = Idle
      /\ session /\ session' = session /\ mlme' = mlme
  BY BaseIsInt DEF IInv, Accounts, Arrive
<1>3. PICK k \in 0 .. Len(list) : Flushes(k)
  BY <1>1, <1>2, FlushIs
<1>4. rx'.pc = "decide" /\ rx'.num = n /\ n \in Int /\ n >= base /\ n < base + Win
      /\ base + Win - n <= H
  BY <1>1, <1>2, SpaceFacts
<1>5. Sent'
  <2>1. \A i \in 1 .. Len(list') : list'[i] < base + Win
    BY <1>2, <1>3, RestSent DEF Flushes, HandUp
  <2> QED
    BY <2>1, <1>2, <1>4 DEF Sent
<1>6. ASSUME Orderly' PROVE Ordered'
  <2>1. Ordered /\ mlme = "idle"
    BY <1>6 DEF Orderly, Arrive, Meets, IInv
  <2>2. Sorted(delivered') /\ Flushed'
    BY <1>2, <1>3, <2>1, FlushOrder
  <2>3. ASSUME NEW N \in Int, Settled(N)', \A i \in 1 .. Len(list') : list'[i] # N + 1
        PROVE  Placed(N)' /\ LastIndSeq' # RESET_RCV_SEQ
    <3>1. N - n < Win
      <4>1. base + Win - N \in 1 .. H
        BY <2>3, <1>2 DEF Settled
      <4> QED
        BY <4>1, <1>2, <1>4, SpaceFacts
    <3>2. Known(n, N)'
      <4> SUFFICES ASSUME NEW m \in n .. N PROVE m \in up' \/ m <= excused'
        BY DEF Known
      <4>1. m \in base' .. N
        BY <1>2, <1>4
      <4> QED
        BY <4>1, <2>3 DEF Settled, Known
    <3>3. LastIndSeq' = Seq12(N)
      BY <2>3 DEF Settled
    <3> QED
      BY <1>4, <2>3, <3>1, <3>2, <3>3, SettledIsNoReset DEF Placed, Holed
  <2> QED
    BY <1>2, <1>4, <2>1, <2>2, <2>3 DEF Flushed, Ordered
<1> QED
  BY <1>5, <1>6

LEMMA ArriveLegacyOrder == ASSUME IInv, ArriveLegacy PROVE Sent' /\ (Orderly' => Ordered')
<1>1. TypeOK /\ Accounts /\ Sent /\ base' = base /\ rx = Idle /\ rx' = rx
      /\ session /\ session' = session /\ mlme' = mlme
  BY DEF IInv, Accounts, ArriveLegacy
<1>2. PICK k \in 0 .. Len(list) : Flushes(k)
  BY <1>1, FlushIs DEF ArriveLegacy
<1>3. Sent'
  <2>1. \A i \in 1 .. Len(list') : list'[i] < base + Win
    BY <1>1, <1>2, RestSent DEF Flushes, HandUp
  <2> QED
    BY <2>1, <1>1 DEF Sent
<1>4. ASSUME Orderly' PROVE Ordered'
  <2>1. Ordered /\ mlme = "idle"
    BY <1>4 DEF Orderly, ArriveLegacy, Meets, IInv
  <2>2. Sorted(delivered') /\ Flushed'
    BY <1>1, <1>2, <2>1, FlushOrder
  <2>3. ASSUME NEW N \in Int, Settled(N)', \A i \in 1 .. Len(list') : list'[i] # N + 1
        PROVE  Placed(N)' /\ LastIndSeq' # RESET_RCV_SEQ
    <3>1. LastIndSeq' = Seq12(N)
      BY <2>3 DEF Settled
    <3> QED
      BY <1>1, <2>3, <3>1, SettledIsNoReset DEF Placed, Holed, Idle
  <2> QED
    BY <1>1, <2>1, <2>2, <2>3 DEF Flushed, Ordered, Idle
<1> QED
  BY <1>3, <1>4

\* A frame in hand while the order holds: it is near LastIndSeq.
LEMMA InHandOrder ==
  ASSUME IInv, Orderly, rx.pc # "idle"
  PROVE  /\ Ordered /\ session /\ mlme = "idle" /\ BAWinSize = Win
         /\ rx.num \in Int /\ base \in Int
         /\ \A L \in Int : Placed(L) =>
                /\ rx.num - L <= H - 1
                /\ rx.pc = "decide" => rx.num - L >= 1 - Win
                /\ rx.pc = "enqueue" => rx.num - L >= 1
<1>1. Accounts /\ TypeOK /\ Ordered /\ rx # Idle /\ rx.num \in Int /\ base \in Int
  BY InHand, BaseIsInt DEF IInv, Accounts, Idle
<1>2. session /\ mlme = "idle"
  BY <1>1 DEF Ordered, TypeOK
<1>3. BAWinSize = Win
  BY <1>1, <1>2 DEF Accounts, SessionWindow
<1>4. ASSUME NEW L \in Int, Placed(L)
      PROVE  /\ rx.num - L <= H - 1
             /\ rx.pc = "decide" => rx.num - L >= 1 - Win
             /\ rx.pc = "enqueue" => rx.num - L >= 1
  <2>1. base + Win - L \in 1 .. H /\ rx.num < base + Win
    BY <1>4 DEF Placed, Settled, IInv, Sent
  <2>2. rx.pc = "decide" => L - rx.num < Win
    BY <1>4 DEF Placed
  <2>3. rx.pc = "enqueue" => rx.num \in L + 1 .. L + Win
    BY <1>4 DEF Placed
  <2> QED
    BY <1>1, <2>1, <2>2, <2>3, SpaceFacts
<1> QED
  BY <1>1, <1>2, <1>3, <1>4

LEMMA RestartOrder == ASSUME IInv, Restart PROVE Sent' /\ (Orderly' => Ordered')
<1>1. /\ Accounts /\ TypeOK /\ Sent /\ rx.pc = "decide" /\ rx' = Idle /\ base' = base
      /\ session' = session /\ mlme' = mlme /\ LastIndSeq' = Seq12(rx.num)
      /\ LastIndSeq = RESET_RCV_SEQ /\ HandUp(<<>>, 0, <<rx.num>>) /\ excused' = rx.num
  BY DEF IInv, Accounts, Restart, Done
<1>2. /\ list \in Seq(Nums) /\ Len(list) \in Nat /\ 0 \in 0 .. Len(list) /\ base \in Int
      /\ rx.num \in Int /\ <<rx.num>> \in Seq(Nums) /\ Len(<<rx.num>>) = 1 /\ <<rx.num>>[1] = rx.num
  BY <1>1, ListTypes, InHand, BaseIsInt
<1>3. list' = list
  BY <1>1, <1>2, SubSeqFull DEF HandUp
<1>4. Sent'
  BY <1>1, <1>3 DEF Sent, Idle
<1>5. delivered' = <<rx.num>>
  <2>1. SubSeq(list, 1, 0) = <<>> /\ <<>> \o <<>> = <<>> /\ <<>> \o <<rx.num>> = <<rx.num>>
    BY <1>2, SubSeqEmpty, ConcatEmptySeq, EmptySeq
  <2> QED
    BY <2>1, <1>1, Zenon DEF HandUp
<1>6. ASSUME Orderly' PROVE Ordered'
  <2>1. list = <<>> /\ mlme = "idle"
    <3>1. CASE list = <<>> /\ mlme = "idle"
      BY <3>1
    <3>2. CASE ~(list = <<>> /\ mlme = "idle")
      <4>1. Orderly
        BY <1>6, <3>2 DEF Orderly, Restart
      <4> QED
        BY <4>1, <1>1, InHandOrder DEF Ordered
    <3> QED
      BY <3>1, <3>2
  <2>2. base + Win - rx.num \in 1 .. H
    BY <1>1, <1>2, SpaceFacts DEF Sent
  <2>3. Sorted(delivered') /\ Below(delivered', rx.num + 1)
    BY <1>2, <1>5 DEF Sorted, Below
  <2>4. Len(list') = 0
    BY <1>3, <2>1, EmptySeq
  <2>5. Held(list', rx.num)
    BY <2>4 DEF Held
  <2>6. PICK L \in Int : L = rx.num
    BY <1>2
  <2>7. \A n \in base' .. L : n \in up' \/ n <= excused'
    BY <1>1, <2>6
  <2>8. Settled(L)'
    BY <1>1, <2>2, <2>3, <2>5, <2>6, <2>7 DEF Settled, Known
  <2>9. Placed(L)'
    BY <1>1, <2>4, <2>8 DEF Placed, Holed, Idle
  <2>10. LastIndSeq' # RESET_RCV_SEQ
    BY <1>1, <1>2, Seq12Type
  <2> QED
    BY <1>1, <1>3, <2>1, <2>3, <2>9, <2>10 DEF Ordered
<1> QED
  BY <1>4, <1>6

LEMMA InSequenceOrder == ASSUME IInv, InSequence PROVE Sent' /\ (Orderly' => Ordered')
<1>1. /\ Accounts /\ TypeOK /\ Sent /\ rx.pc = "decide" /\ rx' = [rx EXCEPT !.pc = "inorder"]
      /\ UNCHANGED <<base, session, mlme, list, excused, overtook, raced>>
      /\ LastIndSeq # RESET_RCV_SEQ /\ SEQ_STEPONE(Seq12(rx.num), LastIndSeq)
      /\ LastIndSeq' = Seq12(rx.num) /\ delivered' = Append(delivered, rx.num)
      /\ up' = up \cup {rx.num}
  BY DEF IInv, Accounts, InSequence
<1>2. rx'.pc = "inorder" /\ rx'.num = rx.num
  BY <1>1, MovesOn
<1>3. Sent'
  BY <1>1, <1>2 DEF Sent
<1>4. ASSUME Orderly' PROVE Ordered'
  <2>1. Orderly
    BY <1>1, <1>4 DEF Orderly
  <2>2. Ordered /\ session /\ mlme = "idle" /\ rx.num \in Int /\ base \in Int
    BY <1>1, <2>1, InHandOrder
  <2>3. PICK L \in Int : Placed(L)
    BY <1>1, <2>2 DEF Ordered
  <2>4. rx.num - L <= H - 1 /\ rx.num - L >= 1 - Win
    BY <1>1, <2>1, <2>3, InHandOrder
  <2>5. rx.num = L + 1
    <3>1. rx.num - L \in 2 - M .. M
      BY <2>2, <2>4, SpaceFacts
    <3>2. SEQ_STEPONE(Seq12(rx.num), Seq12(L)) <=> rx.num = L + 1
      BY <2>2, <3>1, StepSeq
    <3> QED
      BY <1>1, <2>3, <3>2 DEF Placed, Settled
  <2>6. PICK N \in Int : N = L + 1
    OBVIOUS
  <2>7. /\ Held(list, L) /\ Below(delivered, L + 1) /\ Known(base, L) /\ base + Win - L \in 1 .. H
        /\ \A i \in 1 .. Len(list) : list[i] # L + 1
    BY <1>1, <2>3 DEF Placed, Settled, Holed
  <2>8. Held(list, N)
    <3>1. \A i \in 1 .. Len(list) : list[i] \in N + 1 .. N + Win
      BY <2>6, <2>7, SpaceFacts DEF Held
    <3> QED
      BY <2>7, <3>1 DEF Held
  <2>9. delivered \in Seq(Nums) /\ rx.num \in Nums /\ Sorted(delivered)
    BY <1>1, <2>2, InHand DEF TypeOK, Ordered
  <2>10. /\ Len(delivered) \in Nat /\ Len(delivered') = Len(delivered) + 1
         /\ \A i \in 1 .. Len(delivered) : delivered'[i] = delivered[i] /\ delivered[i] \in Int
         /\ delivered'[Len(delivered) + 1] = N
    BY <1>1, <2>5, <2>6, <2>9, AppendProperties, LenProperties, NumsAreInts
  <2>11. ASSUME NEW i \in 1 .. Len(delivered')
         PROVE  delivered'[i] <= N /\ delivered'[i] <= N + 1
    <3>1. CASE i = Len(delivered) + 1
      BY <3>1, <2>10
    <3>2. CASE i # Len(delivered) + 1
      <4>1. i \in 1 .. Len(delivered)
        BY <3>2, <2>10, <2>11
      <4> QED
        BY <4>1, <2>6, <2>7, <2>10 DEF Below
    <3> QED
      BY <3>1, <3>2
  <2>12. Sorted(delivered')
    <3> SUFFICES ASSUME NEW i \in 1 .. Len(delivered'), NEW j \in 1 .. Len(delivered'), i < j
                 PROVE  delivered'[i] <= delivered'[j]
      BY DEF Sorted
    <3>1. CASE j = Len(delivered) + 1
      BY <3>1, <2>10, <2>11
    <3>2. CASE j # Len(delivered) + 1
      <4>1. i \in 1 .. Len(delivered) /\ j \in 1 .. Len(delivered)
        BY <3>2, <2>10
      <4> QED
        BY <4>1, <2>9, <2>10 DEF Sorted
    <3> QED
      BY <3>1, <3>2
  <2>13. base + Win - N \in 1 .. H
    <3>1. N < base + Win
      BY <1>1, <2>5, <2>6 DEF Sent
    <3> QED
      BY <3>1, <2>2, <2>6, <2>7, SpaceFacts
  <2>14. \A n \in base .. N : n \in up' \/ n <= excused
    <3> SUFFICES ASSUME NEW n \in base .. N PROVE n \in up' \/ n <= excused
      OBVIOUS
    <3>1. CASE n = N
      BY <3>1, <1>1, <2>5, <2>6
    <3>2. CASE n # N
      <4>1. n \in base .. L
        BY <3>2, <2>2, <2>6
      <4> QED
        BY <4>1, <1>1, <2>7 DEF Known
    <3> QED
      BY <3>1, <3>2
  <2>15. Below(delivered', N + 1) /\ LastIndSeq' = Seq12(N)
    BY <1>1, <2>5, <2>6, <2>11 DEF Below
  <2>16. Settled(N)'
    BY <1>1, <2>8, <2>13, <2>14, <2>15 DEF Settled, Known
  <2>17. Placed(N)'
    BY <1>2, <2>16 DEF Placed, Holed
  <2>18. LastIndSeq' # RESET_RCV_SEQ
    BY <2>15, SettledIsNoReset
  <2> QED
    BY <1>1, <2>2, <2>12, <2>17, <2>18 DEF Ordered
<1> QED
  BY <1>3, <1>4

LEMMA DropOrder == ASSUME IInv, Drop PROVE Sent' /\ (Orderly' => Ordered')
<1>1. /\ Accounts /\ Sent /\ rx.pc = "decide" /\ rx' = Idle
      /\ UNCHANGED <<base, session, mlme, LastIndSeq, list, history>>
  BY DEF IInv, Drop, Done
<1>2. Sent'
  BY <1>1 DEF Sent, Idle
<1>3. ASSUME Orderly' PROVE Ordered'
  <2>1. Ordered /\ session /\ mlme = "idle"
    BY <1>1, <1>3, InHandOrder DEF Orderly, history
  <2>2. ASSUME NEW L \in Int, Placed(L) PROVE Placed(L)'
    BY <1>1, <2>2 DEF Placed, Settled, Holed, Known, Idle, history
  <2> QED
    BY <1>1, <2>1, <2>2 DEF Ordered, Idle, history
<1> QED
  BY <1>2, <1>3

\* A frame ahead is beyond the hole.
LEMMA AheadIs ==
  ASSUME IInv, Orderly, Ahead, NEW L \in Int, Placed(L)
  PROVE  rx.num >= L + 2 /\ rx.num - L <= H - 1
         /\ (InWindow(Seq12(rx.num)) <=> rx.num <= L + Win)
<1>1. rx.pc = "decide" /\ ~SEQ_STEPONE(Seq12(rx.num), LastIndSeq) /\ ~Stale(Seq12(rx.num))
  BY DEF Ahead
<1>2. /\ rx.num \in Int /\ BAWinSize = Win
      /\ rx.num - L <= H - 1 /\ rx.num - L >= 1 - Win /\ LastIndSeq = Seq12(L)
  BY <1>1, InHandOrder DEF Placed, Settled
<1>3. rx.num - L \in 2 - M .. M /\ rx.num - L \in 1 - M .. M - 1 /\ rx.num - L \in 0 - H .. H - 1
  BY <1>2, SpaceFacts
<1>4. rx.num # L + 1
  <2>1. SEQ_STEPONE(Seq12(rx.num), Seq12(L)) <=> rx.num = L + 1
    BY <1>2, <1>3, StepSeq
  <2> QED
    BY <2>1, <1>1, <1>2
<1>5. rx.num # L
  BY <1>1, <1>2 DEF Stale
<1>6. ~(rx.num < L)
  <2>1. SEQ_SMALLER(Seq12(rx.num), Seq12(L)) <=> rx.num < L
    BY <1>2, <1>3, SmallerSeq
  <2> QED
    BY <2>1, <1>1, <1>2 DEF Stale
<1>7. rx.num >= L + 2
  BY <1>2, <1>4, <1>5, <1>6
<1>8. InWindow(Seq12(rx.num)) <=> rx.num < L + (Win + 1)
  <2>1. Win + 1 \in Int /\ L + (Win + 1) \in Int /\ rx.num - (L + (Win + 1)) \in 0 - H .. H - 1
        /\ Seq12(L) \in Int
    BY <1>2, <1>7, SpaceFacts, Seq12Type
  <2>2. (Seq12(L) + (Win + 1)) % M = Seq12(L + (Win + 1))
    BY <2>1, Seq12Add
  <2>3. SEQ_SMALLER(Seq12(rx.num), Seq12(L + (Win + 1))) <=> rx.num < L + (Win + 1)
    BY <1>2, <2>1, SmallerSeq
  <2>4. LastIndSeq + BAWinSize + 1 = Seq12(L) + (Win + 1)
    BY <1>2, <2>1, SpaceFacts
  <2>5. InWindow(Seq12(rx.num)) <=> SEQ_SMALLER(Seq12(rx.num), (LastIndSeq + BAWinSize + 1) % M)
    BY DEF InWindow, M
  <2> QED
    BY <2>2, <2>3, <2>4, <2>5, Zenon
<1> QED
  BY <1>2, <1>7, <1>8, SpaceFacts

LEMMA WithinWindowOrder == ASSUME IInv, WithinWindow PROVE Sent' /\ (Orderly' => Ordered')
<1>1. /\ Accounts /\ Sent /\ Ahead /\ InWindow(Seq12(rx.num)) /\ rx.pc = "decide"
      /\ rx' = [rx EXCEPT !.pc = "enqueue"] /\ LastIndSeq # RESET_RCV_SEQ
      /\ UNCHANGED <<base, session, mlme, LastIndSeq, list, history>>
  BY DEF IInv, WithinWindow, Ahead, buffer
<1>2. rx'.pc = "enqueue" /\ rx'.num = rx.num
  BY <1>1, MovesOn
<1>3. Sent'
  BY <1>1, <1>2 DEF Sent
<1>4. ASSUME Orderly' PROVE Ordered'
  <2>1. Orderly
    BY <1>1, <1>4 DEF Orderly, history
  <2>2. Ordered /\ session /\ mlme = "idle" /\ rx.num \in Int
    BY <1>1, <2>1, InHandOrder
  <2>3. PICK L \in Int : Placed(L)
    BY <1>1, <2>2 DEF Ordered
  <2>4. rx.num \in L + 1 .. L + Win /\ rx.num # L + 1
    BY <1>1, <2>1, <2>2, <2>3, AheadIs, SpaceFacts
  <2>5. Settled(L)'
    BY <1>1, <2>3 DEF Placed, Settled, Known, history
  <2>6. \A i \in 1 .. Len(list') : list'[i] # L + 1
    BY <1>1, <2>3 DEF Placed, Holed
  <2>7. Placed(L)'
    BY <1>2, <2>4, <2>5, <2>6 DEF Placed, Holed
  <2> QED
    BY <1>1, <2>2, <2>7 DEF Ordered, history
<1> QED
  BY <1>3, <1>4

LEMMA BeyondWindowOrder == ASSUME IInv, BeyondWindow PROVE Sent' /\ (Orderly' => Ordered')
<1>1. /\ Accounts /\ TypeOK /\ Sent /\ Ahead /\ ~InWindow(Seq12(rx.num)) /\ rx.pc = "decide"
      /\ rx' = [rx EXCEPT !.pc = "enqueue", !.last = TRUE] /\ LastIndSeq # RESET_RCV_SEQ
      /\ UNCHANGED <<base, session, mlme, excused, overtook, raced>>
      /\ HandUp(delivered, LeSeq(WinStartSeq), <<>>) /\ LastIndSeq' = WinStartSeq
  BY DEF IInv, Accounts, BeyondWindow, Ahead
<1>2. rx'.pc = "enqueue" /\ rx'.num = rx.num /\ rx'.last = TRUE
  BY <1>1, GoesOn
<1>3. Sent'
  <2>1. LeSeq(WinStartSeq) \in 0 .. Len(list)
    BY <1>1, LeSeqIs
  <2>2. \A i \in 1 .. Len(list') : list'[i] < base + Win
    BY <1>1, <2>1, RestSent DEF HandUp
  <2> QED
    BY <1>1, <1>2, <2>2 DEF Sent
<1>4. ASSUME Orderly' PROVE Ordered'
  <2>1. Orderly
    BY <1>1, <1>4 DEF Orderly
  <2>2. Ordered /\ session /\ mlme = "idle" /\ rx.num \in Int /\ base \in Int /\ BAWinSize = Win
    BY <1>1, <2>1, InHandOrder
  <2>3. PICK L \in Int : Placed(L)
    BY <1>1, <2>2 DEF Ordered
  <2>4. rx.num > L + Win /\ rx.num - L <= H - 1 /\ rx.num < base + Win
    <3>1. rx.num - L <= H - 1 /\ ~(rx.num <= L + Win)
      BY <1>1, <2>1, <2>3, AheadIs
    <3>2. rx.num > L + Win
      BY <2>2, <3>1, SpaceFacts
    <3> QED
      BY <1>1, <3>1, <3>2 DEF Sent
  <2>5. PICK N \in Int : N = rx.num - Win
    BY <2>2, SpaceFacts
  <2>6. L + 1 <= N /\ L <= N /\ N <= L + H - 1 - Win /\ N < base
    BY <2>2, <2>4, <2>5, SpaceFacts
  <2>7. WinStartSeq = Seq12(N)
    <3>1. 0 - Win \in Int /\ rx.num + (0 - Win) = N
      BY <2>2, <2>5, SpaceFacts
    <3>2. (Seq12(rx.num) + (0 - Win)) % M = Seq12(N)
      BY <2>2, <3>1, Seq12Add
    <3>3. Seq12(rx.num) + (0 - Win) = Seq12(rx.num) - BAWinSize
      BY <2>2, Seq12Type, SpaceFacts
    <3> QED
      BY <3>2, <3>3, Zenon DEF WinStartSeq, M
  <2>8. /\ Held(list, L) /\ Below(delivered, L + 1) /\ base + Win - L \in 1 .. H
        /\ delivered \in Seq(Nums) /\ Sorted(delivered)
    BY <1>1, <2>2, <2>3 DEF Placed, Settled, Ordered, TypeOK
  <2>9. ASSUME NEW i \in 1 .. Len(list)
        PROVE  list[i] - N \in 0 - H .. H - 1
    <3>1. list[i] \in Int /\ list[i] \in L + 1 .. L + Win
      BY <1>1, <2>8, <2>9, ListTypes DEF Held
    <3> QED
      BY <3>1, <2>6, SpaceFacts
  <2>10. PICK k \in 0 .. Len(list) :
             /\ k = LeSeq(WinStartSeq)
             /\ \A i \in 1 .. k : list[i] <= N
             /\ k < Len(list) => list[k + 1] > N
    BY <1>1, <2>7, <2>9, LeSeqNumber
  <2>11. \A i \in 1 .. k : list[i] <= N + 1
    <3> SUFFICES ASSUME NEW i \in 1 .. k PROVE list[i] <= N + 1
      OBVIOUS
    <3>1. list[i] \in Int /\ list[i] <= N
      BY <1>1, <2>10, ListTypes
    <3> QED
      BY <3>1
  <2>12. Held(list', N) /\ Sorted(delivered') /\ Below(delivered', N + 1)
    BY <1>1, <2>6, <2>8, <2>10, <2>11, HandsUp
  <2>13. base + Win - N \in 1 .. H
    BY <2>2, <2>6, <2>8, SpaceFacts
  <2>14. Known(base, N)'
    BY <1>1, <2>2, <2>6 DEF Known
  <2>15. LastIndSeq' = Seq12(N) /\ LastIndSeq' # RESET_RCV_SEQ
    BY <1>1, <2>7, SettledIsNoReset
  <2>16. Settled(N)'
    BY <1>1, <2>12, <2>13, <2>14, <2>15 DEF Settled, Known
  <2>17. rx.num \in N + 1 .. N + Win
    BY <2>2, <2>5, SpaceFacts
  <2>18. Placed(N)'
    BY <1>2, <2>16, <2>17 DEF Placed, Holed
  <2> QED
    BY <1>1, <2>2, <2>12, <2>15, <2>18 DEF Ordered
<1> QED
  BY <1>3, <1>4

\* A frame put in at its place.
LEMMA InsertHeld ==
  ASSUME NEW s \in Seq(Nums), NEW L \in Int, Held(s, L), NEW e \in Nums, e \in L + 1 .. L + Win,
         NEW h \in 0 .. Len(s), \A i \in 1 .. h : s[i] < e, h < Len(s) => s[h + 1] > e,
         NEW t, t = InsertAt(s, h + 1, e)
  PROVE  Held(t, L)
<1>1. Len(s) \in Nat /\ e \in Int /\ \A i \in 1 .. Len(s) : s[i] \in Nums
  BY LenProperties, NumsAreInts
<1>2. \A i \in 1 .. Len(s) : s[i] \in Int
  BY <1>1, NumsAreInts
<1>3. h + 1 \in 1 .. Len(s) + 1 /\ h \in Nat
  BY <1>1
<1>4. Len(t) = Len(s) + 1
      /\ \A i \in 1 .. Len(s) + 1 :
             t[i] = IF i < h + 1 THEN s[i] ELSE IF i = h + 1 THEN e ELSE s[i - 1]
  BY <1>3, Insertion
<1>5. ASSUME NEW i \in 1 .. h PROVE i \in 1 .. Len(s) /\ t[i] = s[i] /\ h + 1 - i <= e - s[i]
  <2>1. i \in 1 .. Len(s) /\ t[i] = s[i]
    <3>1. i \in 1 .. Len(s) /\ i \in 1 .. Len(s) + 1 /\ i < h + 1
      BY <1>1, <1>5
    <3> QED
      BY <3>1, <1>4
  <2>2. s[i] < e /\ s[i] \in Int
    BY <2>1, <1>2, <1>5
  <2>3. CASE i = h
    <3>1. h + 1 - i = 1 /\ 1 <= e - s[i]
      BY <2>2, <2>3, <1>1, <1>3
    <3> QED
      BY <3>1, <2>1
  <2>4. CASE i # h
    <3>1. h \in 1 .. Len(s) /\ h \in 1 .. h /\ i < h
      BY <2>4, <1>1, <1>3, <1>5
    <3>2. h - i <= s[h] - s[i] /\ s[h] < e /\ s[h] \in Int
      BY <2>1, <3>1, <1>2 DEF Held
    <3> QED
      BY <2>1, <2>2, <3>2, <1>1, <1>3
  <2> QED
    BY <2>1, <2>3, <2>4
<1>6. t[h + 1] = e
  BY <1>1, <1>3, <1>4
<1>7. ASSUME NEW i \in h + 2 .. Len(s) + 1
      PROVE  i - 1 \in 1 .. Len(s) /\ t[i] = s[i - 1] /\ i - (h + 1) <= s[i - 1] - e
  <2>1. i - 1 \in 1 .. Len(s) /\ i \in 1 .. Len(s) + 1 /\ ~(i < h + 1) /\ i # h + 1
        /\ h + 1 \in 1 .. Len(s) /\ h < Len(s)
    BY <1>1, <1>3, <1>7
  <2>2. t[i] = s[i - 1] /\ s[i - 1] \in Int /\ s[h + 1] \in Int /\ s[h + 1] > e
    BY <2>1, <1>2, <1>4
  <2>3. CASE i = h + 2
    <3>1. i - 1 = h + 1
      BY <2>3, <1>3
    <3> QED
      BY <2>1, <2>2, <2>3, <3>1, <1>1, <1>3
  <2>4. CASE i # h + 2
    <3>1. h + 1 < i - 1
      BY <2>4, <1>3, <1>7
    <3>2. (i - 1) - (h + 1) <= s[i - 1] - s[h + 1]
      BY <2>1, <3>1 DEF Held
    <3> QED
      BY <2>1, <2>2, <3>2, <1>1, <1>3, <1>7
  <2> QED
    BY <2>3, <2>4
<1>8. ASSUME NEW i \in 1 .. Len(s) + 1
      PROVE  t[i] \in L + 1 .. L + Win
  <2>1. CASE i \in 1 .. h
    BY <2>1, <1>5 DEF Held
  <2>2. CASE i = h + 1
    BY <2>2, <1>6
  <2>3. CASE i \in h + 2 .. Len(s) + 1
    BY <2>3, <1>7 DEF Held
  <2> QED
    BY <2>1, <2>2, <2>3, <1>1, <1>3, <1>8
<1>9. ASSUME NEW i \in 1 .. Len(s) + 1, NEW j \in 1 .. Len(s) + 1, i < j
      PROVE  j - i <= t[j] - t[i]
  <2>1. CASE i \in 1 .. h /\ j \in 1 .. h
    <3>1. j - i <= s[j] - s[i]
      BY <2>1, <1>5, <1>9 DEF Held
    <3> QED
      BY <2>1, <3>1, <1>5
  <2>2. CASE i \in 1 .. h /\ j = h + 1
    BY <2>2, <1>5, <1>6
  <2>3. CASE i \in 1 .. h /\ j \in h + 2 .. Len(s) + 1
    <3>1. t[i] = s[i] /\ h + 1 - i <= e - s[i] /\ s[i] \in Int
      BY <2>3, <1>2, <1>5
    <3>2. t[j] = s[j - 1] /\ j - (h + 1) <= s[j - 1] - e /\ s[j - 1] \in Int
      BY <2>3, <1>2, <1>7
    <3>3. j - i <= s[j - 1] - s[i]
      <4>1. PICK a \in Int : a = s[i]
        BY <3>1
      <4>2. PICK b \in Int : b = s[j - 1]
        BY <3>2
      <4>3. i \in Int /\ j \in Int /\ h + 1 - i <= e - a /\ j - (h + 1) <= b - e
        BY <3>1, <3>2, <4>1, <4>2
      <4>4. j - i <= b - a
        BY <4>3, <1>1, <1>3
      <4> QED
        BY <4>1, <4>2, <4>4
    <3> QED
      BY <3>1, <3>2, <3>3, Zenon
  <2>4. CASE i = h + 1 /\ j \in h + 2 .. Len(s) + 1
    BY <2>4, <1>6, <1>7
  <2>5. CASE i \in h + 2 .. Len(s) + 1 /\ j \in h + 2 .. Len(s) + 1
    <3>1. t[i] = s[i - 1] /\ t[j] = s[j - 1] /\ i - 1 \in 1 .. Len(s) /\ j - 1 \in 1 .. Len(s)
      BY <2>5, <1>7
    <3>2. i - 1 < j - 1 /\ (j - 1) - (i - 1) = j - i
      BY <1>9, <1>1
    <3>3. (j - 1) - (i - 1) <= s[j - 1] - s[i - 1]
      BY <3>1, <3>2 DEF Held
    <3> QED
      BY <3>1, <3>2, <3>3, Zenon
  <2>6. \/ i \in 1 .. h /\ j \in 1 .. h
        \/ i \in 1 .. h /\ j = h + 1
        \/ i \in 1 .. h /\ j \in h + 2 .. Len(s) + 1
        \/ i = h + 1 /\ j \in h + 2 .. Len(s) + 1
        \/ i \in h + 2 .. Len(s) + 1 /\ j \in h + 2 .. Len(s) + 1
    BY <1>1, <1>3, <1>9
  <2> QED
    BY <2>1, <2>2, <2>3, <2>4, <2>5, <2>6
<1> QED
  BY <1>4, <1>8, <1>9 DEF Held

LEMMA HoldOrder == ASSUME IInv, Hold PROVE Sent' /\ (Orderly' => Ordered')
<1>1. /\ Accounts /\ TypeOK /\ Sent /\ rx.pc = "enqueue" /\ AfterEnqueue
      /\ UNCHANGED <<base, session, mlme, LastIndSeq, history>>
  BY DEF IInv, Accounts, Hold
<1>2. /\ rx'.pc = IF rx.last THEN "inorder" ELSE "idle"
      /\ rx'.pc # "idle" => rx'.num = rx.num
      /\ ~rx.last => rx' = Idle
  <2>1. CASE rx.last
    <3>1. rx' = [rx EXCEPT !.pc = "inorder"]
      BY <2>1, <1>1 DEF AfterEnqueue
    <3> QED
      BY <2>1, <3>1, <1>1, MovesOn
  <2>2. CASE ~rx.last
    BY <2>2, <1>1 DEF AfterEnqueue, Idle
  <2> QED
    BY <2>1, <2>2
<1>3. list \in Seq(Nums) /\ Len(list) \in Nat /\ rx.num \in Nums /\ rx.num \in Int
      /\ rx.num < base + Win /\ base + Win - rx.num <= H
      /\ \A i \in 1 .. Len(list) : list[i] \in Int
  BY <1>1, ListTypes, InHand DEF Sent
<1>4. PICK h \in 0 .. Len(list) :
          /\ Position(rx.num) = h + 1
          /\ \A i \in 1 .. h : SEQ_SMALLER(Seq12(list[i]), Seq12(rx.num))
          /\ h < Len(list) => ~SEQ_SMALLER(Seq12(list[h + 1]), Seq12(rx.num))
  BY <1>1, PositionIs
\* What the list holds afterwards.
<1>5. /\ \A i \in 1 .. Len(list') : list'[i] = rx.num \/ \E j \in 1 .. Len(list) : list'[i] = list[j]
      /\ \A L \in Int : Orderly /\ Placed(L) => Held(list', L)
  <2>1. CASE list' = list
    <3>1. \A L \in Int : Placed(L) => Held(list', L)
      BY <2>1 DEF Placed, Settled
    <3> QED
      BY <2>1, <3>1
  <2>2. CASE ~Duplicate(rx.num) /\ list' = InsertAt(list, Position(rx.num), rx.num)
    <3>1. h + 1 \in 1 .. Len(list) + 1 /\ list' = InsertAt(list, h + 1, rx.num)
      BY <2>2, <1>3, <1>4
    <3>2. /\ Len(list') = Len(list) + 1
          /\ \A i \in 1 .. Len(list) + 1 :
                 list'[i] = IF i < h + 1 THEN list[i] ELSE IF i = h + 1 THEN rx.num ELSE list[i - 1]
      <4>1. PICK p \in 1 .. Len(list) + 1 : p = h + 1
        BY <3>1
      <4>2. PICK e \in Nums : e = rx.num
        BY <1>3
      <4>3. /\ Len(InsertAt(list, p, e)) = Len(list) + 1
            /\ \A i \in 1 .. Len(list) + 1 :
                   InsertAt(list, p, e)[i] =
                       IF i < p THEN list[i] ELSE IF i = p THEN e ELSE list[i - 1]
        BY <1>3, Insertion
      <4>4. list' = InsertAt(list, p, e)
        BY <3>1, <4>1, <4>2
      <4> QED
        BY <4>1, <4>2, <4>3, <4>4
    <3>3. ASSUME NEW i \in 1 .. Len(list')
          PROVE  list'[i] = rx.num \/ \E j \in 1 .. Len(list) : list'[i] = list[j]
      <4>0. i \in 1 .. Len(list) + 1
        BY <3>2
      <4>1. CASE i < h + 1
        <5>1. i \in 1 .. Len(list) /\ list'[i] = list[i]
          BY <4>0, <4>1, <3>2, <1>3, <1>4
        <5> QED
          BY <5>1
      <4>2. CASE i = h + 1
        BY <4>0, <4>2, <3>2
      <4>3. CASE i > h + 1
        <5>1. i - 1 \in 1 .. Len(list) /\ list'[i] = list[i - 1]
          BY <4>0, <4>3, <3>2, <1>3, <1>4
        <5> QED
          BY <5>1
      <4> QED
        BY <4>0, <4>1, <4>2, <4>3, <1>3, <1>4
    <3>4. ASSUME NEW L \in Int, Orderly, Placed(L)
          PROVE  Held(list', L)
      <4>1. Held(list, L) /\ rx.num \in L + 1 .. L + Win
        BY <3>4, <1>1 DEF Placed, Settled
      <4>2. ASSUME NEW i \in 1 .. Len(list)
            PROVE  SEQ_SMALLER(Seq12(list[i]), Seq12(rx.num)) <=> list[i] < rx.num
        <5>1. list[i] \in L + 1 .. L + Win /\ list[i] \in Int
          BY <4>1, <4>2, <1>3 DEF Held
        <5>2. list[i] - rx.num \in 0 - H .. H - 1
          BY <4>1, <5>1, <1>3, SpaceFacts
        <5> QED
          BY <5>1, <5>2, <1>3, SmallerSeq
      <4>3. \A i \in 1 .. h : list[i] < rx.num
        <5> SUFFICES ASSUME NEW i \in 1 .. h PROVE list[i] < rx.num
          OBVIOUS
        <5>1. i \in 1 .. Len(list)
          BY <1>3, <1>4
        <5> QED
          BY <5>1, <4>2, <1>4
      <4>4. h < Len(list) => list[h + 1] > rx.num
        <5> SUFFICES ASSUME h < Len(list) PROVE list[h + 1] > rx.num
          OBVIOUS
        <5>1. h + 1 \in 1 .. Len(list)
          BY <1>3, <1>4
        <5>2. ~(list[h + 1] < rx.num)
          BY <5>1, <4>2, <1>4
        <5>3. list[h + 1] # rx.num
          BY <5>1, <1>3, <1>4, <2>2 DEF Duplicate
        <5> QED
          BY <5>1, <5>2, <5>3, <1>3
      <4>5. ASSUME NEW t, t = InsertAt(list, h + 1, rx.num) PROVE Held(t, L)
        BY <4>1, <4>3, <4>4, <4>5, <1>3, <1>4, InsertHeld
      <4> QED
        BY <4>5, <3>1
    <3> QED
      BY <3>3, <3>4
  <2> QED
    BY <2>1, <2>2 DEF Hold
<1>6. Sent'
  <2>1. \A i \in 1 .. Len(list') : list'[i] < base + Win
    BY <1>1, <1>3, <1>5 DEF Sent
  <2> QED
    BY <2>1, <1>1, <1>2, <1>3 DEF Sent
<1>7. ASSUME Orderly' PROVE Ordered'
  <2>1. Orderly
    BY <1>1, <1>7 DEF Orderly, history
  <2>2. Ordered /\ session /\ mlme = "idle" /\ LastIndSeq # RESET_RCV_SEQ
    BY <1>1, <2>1, InHandOrder DEF Ordered
  <2>3. PICK L \in Int : Placed(L)
    BY <2>2 DEF Ordered
  <2>4. Held(list', L)
    BY <1>5, <2>1, <2>3
  <2>5. Settled(L)'
    BY <1>1, <2>3, <2>4 DEF Placed, Settled, Known, history
  <2>6. ~rx.last => \A i \in 1 .. Len(list') : list'[i] # L + 1
    BY <1>1, <1>5, <2>3 DEF Placed, Holed
  <2>7. Placed(L)'
    BY <1>2, <2>5, <2>6 DEF Placed, Holed
  <2> QED
    BY <1>1, <2>2, <2>7 DEF Ordered, history
<1> QED
  BY <1>6, <1>7

LEMMA OvertakeOrder == ASSUME IInv, Overtake PROVE Sent' /\ (Orderly' => Ordered')
<1>1. /\ Accounts /\ TypeOK /\ Sent /\ rx.pc = "enqueue" /\ AfterEnqueue
      /\ UNCHANGED <<base, session, mlme, raced>>
      /\ LastIndSeq' = Seq12(rx.num) /\ excused' = rx.num
  BY DEF IInv, Accounts, Overtake
<1>2. /\ rx'.pc = IF rx.last THEN "inorder" ELSE "idle"
      /\ rx'.pc # "idle" => rx'.num = rx.num
      /\ ~rx.last => rx' = Idle
  <2>1. CASE rx.last
    <3>1. rx' = [rx EXCEPT !.pc = "inorder"]
      BY <2>1, <1>1 DEF AfterEnqueue
    <3> QED
      BY <2>1, <3>1, <1>1, MovesOn
  <2>2. CASE ~rx.last
    BY <2>2, <1>1 DEF AfterEnqueue, Idle
  <2> QED
    BY <2>1, <2>2
<1>3. /\ list \in Seq(Nums) /\ Len(list) \in Nat /\ rx.num \in Int
      /\ rx.num < base + Win /\ base + Win - rx.num <= H /\ base \in Int
      /\ <<rx.num>> \in Seq(Nums) /\ Len(<<rx.num>>) = 1 /\ <<rx.num>>[1] = rx.num
      /\ \A i \in 1 .. Len(list) : list[i] \in Int
  BY <1>1, ListTypes, InHand, BaseIsInt DEF Sent
<1>4. PICK k : k = LeSeq(Seq12(rx.num))
  OBVIOUS
<1>5. /\ k \in 0 .. Len(list) /\ list' = SubSeq(list, k + 1, Len(list))
      /\ delivered' = delivered \o SubSeq(list, 1, k) \o <<rx.num>>
      /\ up' = up \cup {list[i] : i \in 1 .. k} \cup {rx.num}
      /\ overtook' = (overtook \/ (~rx.last /\ k < Len(list)))
  BY <1>1, <1>4, LeSeqIs DEF Overtake
<1>6. Sent'
  <2>1. \A i \in 1 .. Len(list') : list'[i] < base + Win
    BY <1>1, <1>5, RestSent
  <2> QED
    BY <2>1, <1>1, <1>2, <1>3 DEF Sent
<1>7. ASSUME Orderly' PROVE Ordered'
  <2>1. Orderly /\ (~rx.last => ~(k < Len(list)))
    BY <1>1, <1>5, <1>7 DEF Orderly
  <2>2. Ordered /\ session /\ mlme = "idle" /\ LastIndSeq # RESET_RCV_SEQ /\ Sorted(delivered)
    BY <1>1, <2>1, InHandOrder DEF Ordered
  <2>3. PICK L \in Int : Placed(L)
    BY <2>2 DEF Ordered
  <2>4. /\ Held(list, L) /\ Below(delivered, L + 1) /\ base + Win - L \in 1 .. H
        /\ rx.num \in L + 1 .. L + Win
    BY <1>1, <2>3 DEF Placed, Settled
  <2>5. PICK N \in Int : N = rx.num
    BY <1>3
  <2>6. L <= N /\ L + 1 <= N /\ N <= L + Win
    BY <2>4, <2>5
  <2>7. ASSUME NEW i \in 1 .. Len(list)
        PROVE  list[i] - N \in 0 - H .. H - 1
    <3>1. list[i] \in Int /\ list[i] \in L + 1 .. L + Win
      BY <1>3, <2>4, <2>7 DEF Held
    <3> QED
      BY <3>1, <2>6, SpaceFacts
  <2>8. (\A i \in 1 .. k : list[i] <= N) /\ (k < Len(list) => list[k + 1] > N)
    BY <1>1, <1>4, <2>5, <2>7, LeSeqNumber
  <2>9. /\ Held(list', N) /\ Sorted(SubSeq(list, 1, k)) /\ SubSeq(list, 1, k) \in Seq(Nums)
        /\ \A i \in 1 .. Len(SubSeq(list, 1, k)) : L + 1 <= SubSeq(list, 1, k)[i]
    BY <1>1, <1>5, <2>4, <2>6, <2>8, Leaves
  <2>10. PICK u : u = SubSeq(list, 1, k)
    OBVIOUS
  <2>11. u \in Seq(Nums) /\ Sorted(u) /\ Below(u, N) /\ \A i \in 1 .. Len(u) : L + 1 <= u[i]
    <3>1. Len(u) = k /\ \A i \in 1 .. k : u[i] = list[i]
      BY <1>3, <1>5, <2>10, Cut
    <3> QED
      BY <2>8, <2>9, <2>10, <3>1 DEF Below
  <2>12. delivered \in Seq(Nums)
    BY <1>1 DEF TypeOK
  <2>13. Below(delivered, N)
    <3> SUFFICES ASSUME NEW i \in 1 .. Len(delivered) PROVE delivered[i] <= N
      BY DEF Below
    <3>1. delivered[i] \in Int /\ delivered[i] <= L + 1
      BY <2>4, <2>12, LenProperties, NumsAreInts DEF Below
    <3> QED
      BY <3>1, <2>6
  <2>14. delivered \o u \in Seq(Nums) /\ Sorted(delivered \o u)
    BY <2>2, <2>4, <2>11, <2>12, JoinSorted
  <2>15. Below(delivered \o u, N)
    BY <2>11, <2>12, <2>13, JoinBelow
  <2>16. Sorted(<<rx.num>>) /\ Below(<<rx.num>>, N) /\ \A i \in 1 .. Len(<<rx.num>>) : N <= <<rx.num>>[i]
    BY <1>3, <2>5 DEF Sorted, Below
  <2>17. /\ delivered' \in Seq(Nums) /\ Sorted(delivered') /\ Below(delivered', N)
    <3>1. delivered' = (delivered \o u) \o <<rx.num>>
      BY <1>5, <2>10
    <3> HIDE DEF Sorted, Below
    <3>2. /\ (delivered \o u) \o <<rx.num>> \in Seq(Nums)
          /\ Sorted((delivered \o u) \o <<rx.num>>)
      BY <1>3, <2>14, <2>15, <2>16, JoinSorted
    <3>3. Below((delivered \o u) \o <<rx.num>>, N)
      BY <1>3, <2>14, <2>15, <2>16, JoinBelow
    <3> QED
      BY <3>1, <3>2, <3>3
  <2>18. Below(delivered', N + 1)
    <3> SUFFICES ASSUME NEW i \in 1 .. Len(delivered') PROVE delivered'[i] <= N + 1
      BY DEF Below
    <3>1. delivered'[i] \in Int /\ delivered'[i] <= N
      BY <2>17, LenProperties, NumsAreInts DEF Below
    <3> QED
      BY <3>1
  <2>19. base + Win - N \in 1 .. H
    BY <1>3, <2>5, SpaceFacts
  <2>20. LastIndSeq' = Seq12(N) /\ LastIndSeq' # RESET_RCV_SEQ
    BY <1>1, <2>5, SettledIsNoReset
  <2>21. Known(base, N)'
    BY <1>1, <2>5 DEF Known
  <2>22. Settled(N)'
    BY <1>1, <2>9, <2>18, <2>19, <2>20, <2>21 DEF Settled, Known
  <2>23. ~rx.last => \A i \in 1 .. Len(list') : list'[i] # N + 1
    <3>1. Len(list') = Len(list) - k
      BY <1>1, <1>5, Rest
    <3> QED
      BY <3>1, <1>3, <1>5, <2>1
  <2>24. Placed(N)'
    BY <1>2, <2>22, <2>23 DEF Placed, Holed
  <2> QED
    BY <1>1, <2>2, <2>17, <2>20, <2>24 DEF Ordered
<1> QED
  BY <1>6, <1>7

LEMMA ReleaseOrder == ASSUME IInv, Release PROVE Sent' /\ (Orderly' => Ordered')
<1>1. /\ Accounts /\ TypeOK /\ Sent /\ rx.pc = "inorder" /\ rx' = Idle
      /\ UNCHANGED <<base, session, mlme, excused, overtook, raced>>
      /\ delivered \in Seq(Nums)
  BY DEF IInv, Accounts, TypeOK, Release, Done
<1>2. PICK k : k = InOrder(LastIndSeq)
  OBVIOUS
<1>3. /\ k \in 0 .. Len(list) /\ HandUp(delivered, k, <<>>)
      /\ LastIndSeq' = IF k > 0 THEN Seq12(list[k]) ELSE LastIndSeq
  BY <1>1, <1>2, InOrderIs DEF Release
<1>4. Len(list) \in Nat /\ base \in Int /\ \A i \in 1 .. Len(list) : list[i] \in Int
  BY <1>1, ListTypes, BaseIsInt
<1>5. Sent'
  <2>1. \A i \in 1 .. Len(list') : list'[i] < base + Win
    BY <1>1, <1>3, RestSent DEF HandUp
  <2> QED
    BY <2>1, <1>1 DEF Sent, Idle
<1>6. ASSUME Orderly' PROVE Ordered'
  <2>1. Orderly
    BY <1>1, <1>6 DEF Orderly
  <2>2. Ordered /\ session /\ mlme = "idle" /\ LastIndSeq # RESET_RCV_SEQ /\ Sorted(delivered)
    BY <1>1, <2>1, InHandOrder DEF Ordered
  <2>3. PICK L \in Int : Placed(L)
    BY <2>2 DEF Ordered
  <2>4. /\ Held(list, L) /\ Below(delivered, L + 1) /\ base + Win - L \in 1 .. H
        /\ Known(base, L) /\ LastIndSeq = Seq12(L) /\ Len(list) <= Win
    BY <1>1, <2>3, HeldSize DEF Placed, Settled
  <2>5. ASSUME NEW i \in 1 .. Len(list)
        PROVE  Seq12(list[i]) = Seq12(LastIndSeq + i) <=> list[i] = L + i
    <3>1. i \in Int /\ list[i] \in Int /\ list[i] \in L + 1 .. L + Win /\ i \in 1 .. Win
      BY <1>4, <2>4, <2>5, SpaceFacts DEF Held
    <3>2. L + i \in Int /\ list[i] - (L + i) \in 1 - M .. M - 1
      BY <3>1, SpaceFacts
    <3>3. Seq12(Seq12(L) + i) = Seq12(L + i)
      BY <3>1, Seq12Add
    <3>4. Seq12(list[i]) = Seq12(L + i) <=> list[i] = L + i
      BY <3>1, <3>2, SameSeq
    <3> QED
      BY <3>3, <3>4, <2>4
  <2>6. ASSUME NEW i \in 1 .. k
        PROVE  i \in 1 .. Len(list) /\ list[i] = L + i
    <3>1. i \in 1 .. Len(list) /\ Seq12(list[i]) = Seq12(LastIndSeq + i)
      BY <1>1, <1>2, <1>3, <1>4, <2>6, InOrderIs
    <3> QED
      BY <3>1, <2>5
  <2>7. k < Len(list) => k + 1 \in 1 .. Len(list) /\ list[k + 1] # L + (k + 1)
    <3> SUFFICES ASSUME k < Len(list)
                 PROVE  k + 1 \in 1 .. Len(list) /\ list[k + 1] # L + (k + 1)
      OBVIOUS
    <3>1. k + 1 \in 1 .. Len(list)
      BY <1>3, <1>4
    <3>2. Seq12(list[k + 1]) # Seq12(LastIndSeq + (k + 1))
      BY <1>1, <1>2, InOrderIs
    <3> QED
      BY <3>1, <3>2, <2>5
  <2>8. k \in Nat /\ k <= Len(list)
    BY <1>3, <1>4
  <2>9. PICK N \in Int : N = L + k
    BY <2>8
  <2>10. k < Len(list) => list[k + 1] > N /\ list[k + 1] # N + 1
    <3> SUFFICES ASSUME k < Len(list) PROVE list[k + 1] > N /\ list[k + 1] # N + 1
      OBVIOUS
    <3>1. k + 1 \in 1 .. Len(list) /\ list[k + 1] \in Int /\ list[k + 1] \in L + 1 .. L + Win
      BY <2>4, <2>7, <1>4 DEF Held
    <3>2. list[k + 1] # N + 1
      BY <2>7, <2>8, <2>9
    <3>3. CASE k = 0
      BY <3>1, <3>2, <3>3, <2>9
    <3>4. CASE k > 0
      <4>1. k \in 1 .. k /\ k < k + 1
        BY <3>4, <2>8
      <4>2. k \in 1 .. Len(list) /\ list[k] = N
        BY <4>1, <2>6, <2>9
      <4>3. k + 1 - k <= list[k + 1] - list[k]
        BY <3>1, <4>1, <4>2, <2>4 DEF Held
      <4> QED
        BY <3>1, <3>2, <4>2, <4>3, <2>8
    <3> QED
      BY <3>3, <3>4, <2>8
  <2>11. \A i \in 1 .. k : list[i] <= N + 1
    <3> SUFFICES ASSUME NEW i \in 1 .. k PROVE list[i] <= N + 1
      OBVIOUS
    <3>1. list[i] = L + i /\ i <= k /\ i \in Int
      BY <2>6, <2>8
    <3> QED
      BY <3>1, <2>8, <2>9
  <2>12. L <= N
    BY <2>8, <2>9
  <2>13. /\ Held(list', N) /\ Sorted(delivered') /\ Below(delivered', N + 1)
         /\ up \subseteq up' /\ \A i \in 1 .. k : list[i] \in up'
    BY <1>1, <1>3, <2>2, <2>4, <2>10, <2>11, <2>12, HandsUp
  <2>14. LastIndSeq' = Seq12(N) /\ base + Win - N \in 1 .. H
    <3>1. CASE k = 0
      BY <3>1, <1>3, <2>4, <2>9
    <3>2. CASE k > 0
      <4>1. k \in 1 .. k
        BY <3>2, <2>8
      <4>2. k \in 1 .. Len(list) /\ list[k] = N
        BY <4>1, <2>6, <2>9
      <4>3. N < base + Win
        BY <1>1, <4>2 DEF Sent
      <4>4. base + Win - N \in 1 .. H
        BY <4>3, <1>4, <2>4, <2>12, SpaceFacts
      <4> QED
        BY <3>2, <4>2, <4>4, <1>3
    <3> QED
      BY <3>1, <3>2, <2>8
  <2>15. Known(base, N)'
    <3> SUFFICES ASSUME NEW n \in base .. N PROVE n \in up' \/ n <= excused
      BY <1>1 DEF Known
    <3>1. CASE n <= L
      <4>1. n \in base .. L
        BY <3>1, <1>4
      <4> QED
        BY <4>1, <2>4, <2>13 DEF Known
    <3>2. CASE n > L
      <4>1. n - L \in 1 .. k /\ L + (n - L) = n
        BY <3>2, <1>4, <2>8, <2>9
      <4> QED
        BY <4>1, <2>6, <2>13
    <3> QED
      BY <3>1, <3>2, <1>4
  <2>16. \A i \in 1 .. Len(list') : list'[i] # N + 1
    <3>1. list' \in Seq(Nums) /\ Len(list') = Len(list) - k
          /\ \A i \in 1 .. Len(list') : k + i \in k + 1 .. Len(list) /\ list'[i] = list[k + i]
      BY <1>1, <1>3, Rest DEF HandUp
    <3>2. 1 <= Len(list') => list'[1] # N + 1
      <4> SUFFICES ASSUME 1 <= Len(list') PROVE list'[1] # N + 1
        OBVIOUS
      <4>1. 1 \in 1 .. Len(list') /\ k < Len(list)
        BY <3>1, <1>4, <2>8
      <4> QED
        BY <4>1, <3>1, <2>10
    <3>3. ASSUME NEW s, s = list' PROVE \A i \in 1 .. Len(s) : s[i] # N + 1
      BY <3>1, <3>2, <3>3, <2>13, NotHeld
    <3> QED
      BY <3>3
  <2>17. Settled(N)'
    BY <1>1, <2>13, <2>14, <2>15 DEF Settled, Known
  <2>18. Placed(N)'
    BY <1>1, <2>16, <2>17 DEF Placed, Holed, Idle
  <2>19. LastIndSeq' # RESET_RCV_SEQ
    BY <2>14, SettledIsNoReset
  <2> QED
    BY <1>1, <2>2, <2>13, <2>18, <2>19 DEF Ordered
<1> QED
  BY <1>5, <1>6

LEMMA CntlOrder == ASSUME IInv, CntlEnqueueForRecv PROVE Sent' /\ (Orderly' => Ordered')
<1>1. /\ Accounts /\ TypeOK /\ Sent /\ rx = Idle /\ rx' = rx /\ session
      /\ UNCHANGED <<base, session, mlme, excused, overtook>>
      /\ SEQ_SMALLER(LastIndSeq, Seq12(base))
      /\ HandUp(LastHandedUp, LeSeq(Seq12(base)), <<>>)
      /\ LastIndSeq' = (Seq12(base) - 1) % (MAXSEQ + 1)
  BY DEF IInv, Accounts, CntlEnqueueForRecv
<1>2. base \in Int /\ Len(list) \in Nat /\ \A i \in 1 .. Len(list) : list[i] \in Int
  BY <1>1, ListTypes, BaseIsInt
<1>3. PICK N \in Int : N = base - 1
  BY <1>2
<1>4. LastIndSeq' = Seq12(N)
  <2>1. (Seq12(base) + (0 - 1)) % M = Seq12(base + (0 - 1))
    BY <1>2, Seq12Add
  <2>2. base + (0 - 1) = N /\ Seq12(base) + (0 - 1) = Seq12(base) - 1
    BY <1>2, <1>3, Seq12Type, SpaceFacts
  <2> QED
    BY <1>1, <2>1, <2>2, Zenon DEF M
<1>5. Sent'
  <2>1. LeSeq(Seq12(base)) \in 0 .. Len(list)
    BY <1>1, LeSeqIs
  <2>2. \A i \in 1 .. Len(list') : list'[i] < base + Win
    BY <1>1, <2>1, RestSent DEF HandUp
  <2> QED
    BY <2>2, <1>1 DEF Sent, Idle
<1>6. ASSUME Orderly' PROVE Ordered'
  <2>1. Ordered /\ mlme = "idle"
    BY <1>6 DEF Orderly, CntlEnqueueForRecv, Meets, IInv
  <2>2. base + Win - N \in 1 .. H
    BY <1>2, <1>3, SpaceFacts
  <2>3. Known(base, N)'
    BY <1>1, <1>2, <1>3 DEF Known
  <2>4. /\ Held(list', N) /\ Sorted(delivered') /\ Below(delivered', N + 1)
        /\ \A i \in 1 .. Len(list') : list'[i] # N + 1
    <3>1. CASE LastIndSeq = RESET_RCV_SEQ
      <4>1. list = <<>> /\ Len(list) = 0
        BY <2>1, <3>1, EmptySeq DEF Ordered
      <4>2. LeSeq(Seq12(base)) \in 0 .. Len(list)
        BY <1>1, LeSeqIs
      <4>3. LeSeq(Seq12(base)) = 0
        BY <4>1, <4>2
      <4>4. LastHandedUp = <<>>
        BY <3>1 DEF LastHandedUp
      <4>5. SubSeq(list, 1, 0) = <<>> /\ SubSeq(list, 0 + 1, Len(list)) = <<>> /\ <<>> \o <<>> = <<>>
        BY <4>1, SubSeqEmpty, ConcatEmptySeq, EmptySeq
      <4>6. list' = <<>> /\ delivered' = <<>>
        BY <4>3, <4>4, <4>5, <1>1, Zenon DEF HandUp
      <4>7. Len(list') = 0 /\ Len(delivered') = 0
        BY <4>6
      <4> QED
        BY <4>7 DEF Held, Sorted, Below
    <3>2. CASE LastIndSeq # RESET_RCV_SEQ
      <4>1. PICK L \in Int : Placed(L)
        BY <2>1, <3>2 DEF Ordered
      <4>2. Held(list, L) /\ Below(delivered, L + 1) /\ base + Win - L \in 1 .. H
            /\ LastIndSeq = Seq12(L)
        BY <4>1 DEF Placed, Settled
      <4>3. L - base \in 0 - H .. H - 1
        BY <1>2, <4>2, SpaceFacts
      <4>4. L < base
        BY <1>1, <1>2, <4>2, <4>3, SmallerSeq
      <4>5. L <= N /\ L + 1 <= base
        BY <1>2, <1>3, <4>4
      <4>6. ASSUME NEW i \in 1 .. Len(list)
            PROVE  list[i] - base \in 0 - H .. H - 1
        <5>1. list[i] \in Int /\ list[i] \in L + 1 .. L + Win /\ list[i] < base + Win
          BY <1>1, <1>2, <4>2, <4>6 DEF Held, Sent
        <5> QED
          BY <5>1, <1>2, <4>2, SpaceFacts
      <4>7. PICK k \in 0 .. Len(list) :
                /\ k = LeSeq(Seq12(base))
                /\ \A i \in 1 .. k : list[i] <= base
                /\ k < Len(list) => list[k + 1] > base
        BY <1>1, <1>2, <4>6, LeSeqNumber
      <4>8. k < Len(list) => list[k + 1] > N /\ list[k + 1] # N + 1
        <5>1. k < Len(list) => k + 1 \in 1 .. Len(list)
          BY <1>2, <4>7
        <5> QED
          BY <5>1, <1>2, <1>3, <4>7
      <4>9. \A i \in 1 .. k : list[i] <= N + 1
        BY <4>7, <1>2, <1>3
      <4>10. LastHandedUp \in Seq(Nums) /\ Sorted(LastHandedUp) /\ Below(LastHandedUp, L + 1)
        BY <1>1, <4>2, LastHandedUpType, LastHandedUpOrder
      <4>11. Held(list', N) /\ Sorted(delivered') /\ Below(delivered', N + 1)
        BY <1>1, <4>2, <4>5, <4>7, <4>8, <4>9, <4>10, HandsUp
      <4>12. list' \in Seq(Nums) /\ Len(list') = Len(list) - k
             /\ \A i \in 1 .. Len(list') : k + i \in k + 1 .. Len(list) /\ list'[i] = list[k + i]
        BY <1>1, <4>7, Rest DEF HandUp
      <4>13. 1 <= Len(list') => list'[1] # N + 1
        <5> SUFFICES ASSUME 1 <= Len(list') PROVE list'[1] # N + 1
          OBVIOUS
        <5>1. 1 \in 1 .. Len(list') /\ k < Len(list)
          BY <4>12, <1>2, <4>7
        <5> QED
          BY <5>1, <4>8, <4>12
      <4>14. ASSUME NEW s, s = list' PROVE \A i \in 1 .. Len(s) : s[i] # N + 1
        BY <4>11, <4>12, <4>13, <4>14, NotHeld
      <4> QED
        BY <4>11, <4>14
    <3> QED
      BY <3>1, <3>2
  <2>5. Settled(N)'
    BY <1>1, <1>4, <2>2, <2>3, <2>4 DEF Settled, Known
  <2>6. Placed(N)'
    BY <1>1, <2>4, <2>5 DEF Placed, Holed, Idle
  <2>7. LastIndSeq' # RESET_RCV_SEQ
    BY <1>4, SettledIsNoReset
  <2> QED
    BY <1>1, <2>1, <2>4, <2>6, <2>7 DEF Ordered
<1> QED
  BY <1>5, <1>6

LEMMA PeerAdvancesOrder == ASSUME IInv, PeerAdvances PROVE Sent' /\ (Orderly' => Ordered')
<1>1. /\ Accounts /\ TypeOK /\ Sent /\ base' = base + 1 /\ base \in Int
      /\ UNCHANGED <<session, LastIndSeq, list, rx, mlme, history>>
      /\ (rx # Idle => base + Win - rx.num < H)
      /\ (LastIndSeq # RESET_RCV_SEQ => base + Win - Number(LastIndSeq, base) < H)
  BY BaseIsInt DEF IInv, Accounts, PeerAdvances, buffer, H, M
<1>2. Sent'
  <2>1. \A i \in 1 .. Len(list) : list[i] < base + 1 + Win
    <3> SUFFICES ASSUME NEW i \in 1 .. Len(list) PROVE list[i] < base + 1 + Win
      OBVIOUS
    <3>1. list[i] \in Int /\ list[i] < base + Win
      BY <1>1, ListTypes DEF Sent
    <3> QED
      BY <3>1, <1>1, SpaceFacts
  <2>2. ASSUME rx.pc # "idle" PROVE rx.num < base + 1 + Win /\ base + 1 + Win - rx.num <= H
    <3>1. rx.num \in Int /\ rx # Idle /\ rx.num < base + Win
      BY <1>1, <2>2, InHand DEF Sent, Idle
    <3> QED
      BY <3>1, <1>1, SpaceFacts
  <2> QED
    BY <2>1, <2>2, <1>1 DEF Sent
<1>3. ASSUME Orderly' PROVE Ordered'
  <2>1. Ordered
    BY <1>1, <1>3 DEF Orderly, IInv, history
  <2>2. ASSUME LastIndSeq # RESET_RCV_SEQ, NEW L \in Int, Placed(L) PROVE Placed(L)'
    <3>1. Number(LastIndSeq, base) = L /\ base + Win - L \in 1 .. H
      BY <1>1, <2>2, PlacedFacts DEF Placed, Settled
    <3>2. base + 1 + Win - L \in 1 .. H
      BY <1>1, <2>2, <3>1, SpaceFacts
    <3>3. Known(base + 1, L)
      <4> SUFFICES ASSUME NEW n \in base + 1 .. L PROVE n \in up \/ n <= excused
        BY DEF Known
      <4>1. n \in base .. L
        BY <1>1
      <4> QED
        BY <4>1, <2>2 DEF Placed, Settled, Known
    <3>4. Settled(L)'
      BY <1>1, <2>2, <3>2, <3>3 DEF Placed, Settled, Known, history
    <3> QED
      BY <1>1, <2>2, <3>4 DEF Placed, Holed, Known, history
  <2> QED
    BY <1>1, <2>1, <2>2 DEF Ordered, history
<1> QED
  BY <1>2, <1>3

LEMMA StutterOrder == ASSUME IInv, UNCHANGED vars PROVE Sent' /\ (Orderly' => Ordered')
<1>1. UNCHANGED <<session, LastIndSeq, list, rx, mlme, base, history>>
  BY DEF vars, buffer
<1>2. Sent'
  BY <1>1 DEF Sent, IInv
<1>3. ASSUME NEW L \in Int, Placed(L) PROVE Placed(L)'
  BY <1>1, <1>3 DEF Placed, Settled, Holed, Known, history
<1> QED
  BY <1>1, <1>2, <1>3 DEF IInv, Orderly, Ordered, history

LEMMA StepIInv == IInv /\ [Next]_vars => IInv'
<1> SUFFICES ASSUME IInv, [Next]_vars PROVE IInv'
  OBVIOUS
<1>1. Accounts'
  BY StepAccounts, StutterAccounts DEF IInv
<1>2. Sent' /\ (Orderly' => Ordered')
  BY AddStartsOrder, AddEndsOrder, TearDownStartsOrder, TearDownEndsOrder, ArriveOrder,
     ArriveLegacyOrder, RestartOrder, InSequenceOrder, DropOrder, WithinWindowOrder,
     BeyondWindowOrder, HoldOrder, OvertakeOrder, ReleaseOrder, CntlOrder,
     PeerAdvancesOrder, StutterOrder, Zenon DEF Next
<1> QED
  BY <1>1, <1>2 DEF IInv

LEMMA IInvHolds == Spec => []IInv
<1>1. Init => IInv
  BY InitAccounts, InitOrder DEF IInv
<1> QED
  BY <1>1, StepIInv, PTL DEF Spec

-----------------------------------------------------------------------------
\* Frames go up in the order the peer numbered them, from one reset of
\* LastIndSeq to the next.
THEOREM FramesInOrder == Spec => []InOrderDelivery
<1>1. IInv => InOrderDelivery
  BY DEF IInv, Orderly, Ordered, Sorted, InOrderDelivery
<1> QED
  BY <1>1, IInvHolds, PTL

\* Each held frame lies ahead of LastIndSeq by no more than the window, and
\* the list is sorted.
THEOREM ListIsSorted == Spec => []HeldInWindow
<1>1. ASSUME IInv PROVE HeldInWindow
  <2>1. TypeOK /\ Accounts
    BY <1>1 DEF IInv, Accounts
  <2>2. ASSUME Undisturbed
        PROVE  /\ \A i \in 1 .. Len(list) :
                      (Seq12(list[i]) - LastIndSeq) % (MAXSEQ + 1) \in 1 .. BAWinSize
               /\ \A i, j \in 1 .. Len(list) : i < j => list[i] < list[j]
    <3>1. Ordered /\ BAWinSize = Win /\ Win \in Nat /\ Len(list) \in Nat
          /\ \A i \in 1 .. Len(list) : list[i] \in Int
      BY <1>1, <2>1, <2>2, ListTypes, SpaceFacts
      DEF Undisturbed, IInv, Orderly, Accounts, SessionWindow
    <3>2. CASE LastIndSeq = RESET_RCV_SEQ
      <4>1. Len(list) = 0
        BY <3>1, <3>2, EmptySeq DEF Ordered
      <4> QED
        BY <4>1
    <3>3. CASE LastIndSeq # RESET_RCV_SEQ
      <4>1. PICK L \in Int : Placed(L)
        BY <3>1, <3>3 DEF Ordered
      <4>2. Held(list, L) /\ LastIndSeq = Seq12(L)
        BY <4>1 DEF Placed, Settled
      <4>3. ASSUME NEW i \in 1 .. Len(list)
            PROVE  (Seq12(list[i]) - LastIndSeq) % (MAXSEQ + 1) \in 1 .. BAWinSize
        <5>1. list[i] \in Int /\ list[i] \in L + 1 .. L + Win
          BY <3>1, <4>2, <4>3 DEF Held
        <5>2. list[i] - L \in 0 .. M - 1 /\ list[i] - L \in 1 .. Win
          BY <5>1, <3>1, SpaceFacts
        <5>3. (Seq12(list[i]) - Seq12(L)) % M = list[i] - L
          BY <5>1, <5>2, AheadSeq
        <5> QED
          BY <5>2, <5>3, <4>2, <3>1, Zenon DEF M
      <4>4. ASSUME NEW i \in 1 .. Len(list), NEW j \in 1 .. Len(list), i < j
            PROVE  list[i] < list[j]
        <5>1. j - i <= list[j] - list[i] /\ list[i] \in Int /\ list[j] \in Int
          BY <3>1, <4>2, <4>4 DEF Held
        <5> QED
          BY <5>1, <4>4
      <4> QED
        BY <4>3, <4>4
    <3> QED
      BY <3>2, <3>3
  <2> QED
    BY <2>1, <2>2 DEF HeldInWindow
<1> QED
  BY <1>1, IInvHolds, PTL

\* The recipient never moves past a frame that may still come, except on
\* purpose.
THEOREM NoneIsPassedOver == Spec => []NotPassedOver
<1>1. ASSUME IInv PROVE NotPassedOver
  <2> SUFFICES ASSUME Undisturbed, LastIndSeq # RESET_RCV_SEQ,
                      NEW n \in base .. Number(LastIndSeq, base)
               PROVE  n \in up \/ n <= excused
    BY DEF NotPassedOver
  <2>1. PICK L \in Int : Placed(L)
    BY <1>1 DEF IInv, Undisturbed, Orderly, Ordered
  <2>2. Number(LastIndSeq, base) = L
    BY <1>1, <2>1, PlacedFacts DEF IInv, Accounts
  <2> QED
    BY <2>1, <2>2 DEF Placed, Settled, Known
<1> QED
  BY <1>1, IInvHolds, PTL

\* A frame dropped at the first decision was handed up, or passed over on
\* purpose: Stale compares it with L, from near enough, and all it could have
\* missed up to L is known.
LEMMA DecidesOnlyKnown ==
  ASSUME IInv, Orderly, Next, rx.pc = "decide", rx' = Idle
  PROVE  rx.num \in up' \/ rx.num <= excused'
<1>1. rx.num \in Int /\ Ordered /\ rx # Idle
  BY InHandOrder DEF Idle
<1>2. Restart \/ Drop
  BY <1>1, Zenon DEF Next, AddStarts, AddEnds, TearDownStarts, TearDownEnds, Arrive,
     ArriveLegacy, InSequence, WithinWindow, BeyondWindow, Hold, Overtake, Release, Done,
     CntlEnqueueForRecv, PeerAdvances, Idle
<1>3. CASE Restart
  BY <1>1, <1>3 DEF Restart
<1>4. CASE Drop
  <2>1. LastIndSeq # RESET_RCV_SEQ /\ Stale(Seq12(rx.num)) /\ up' = up /\ excused' = excused
    BY <1>4 DEF Drop, history
  <2>2. PICK L \in Int : Placed(L)
    BY <1>1, <2>1 DEF Ordered
  <2>3. rx.num - L <= H - 1 /\ rx.num - L >= 1 - Win /\ LastIndSeq = Seq12(L)
    BY <2>2, InHandOrder DEF Placed, Settled
  <2>4. rx.num - L \in 1 - M .. M - 1 /\ rx.num - L \in 0 - H .. H - 1
    BY <1>1, <2>3, SpaceFacts
  <2>5. rx.num <= L
    <3>1. SEQ_SMALLER(Seq12(rx.num), Seq12(L)) <=> rx.num < L
      BY <1>1, <2>4, SmallerSeq
    <3>2. Seq12(rx.num) = Seq12(L) <=> rx.num = L
      BY <1>1, <2>4, SameSeq
    <3> QED
      BY <1>1, <2>1, <2>3, <3>1, <3>2 DEF Stale
  <2>6. Known(rx.num, L)
    BY <2>2 DEF Placed
  <2> QED
    BY <1>1, <2>1, <2>5, <2>6 DEF Known
<1> QED
  BY <1>2, <1>3, <1>4

\* The comparisons of sequence numbers never take a missing frame for an old
\* one.  (Indicate_AMPDU_Packet, II and III)
THEOREM OnlyKnownDropped == Spec => DropsOnlyKnown
<1>1. ASSUME IInv, [Next]_vars
      PROVE  [~overtook /\ ~raced /\ rx.pc = "decide" /\ rx' = Idle
                  => rx.num \in up' \/ rx.num <= excused']_vars
  BY <1>1, DecidesOnlyKnown DEF Orderly
<1> QED
  BY <1>1, IInvHolds, PTL DEF Spec, DropsOnlyKnown

\* Types, of the session, the list, the pool and the frame in hand.
THEOREM TypeCorrect == Spec => []TypeOK
<1>1. Accounts => TypeOK
  BY DEF Accounts
<1> QED
  BY <1>1, AccountsHold, PTL

=============================================================================
