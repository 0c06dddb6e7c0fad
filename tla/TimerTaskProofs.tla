--------------------------- MODULE TimerTaskProofs ---------------------------
(***************************************************************************)
(* The pool of TimerQ stays intact for any timers, callers and size of the *)
(* pool.  The two lists are followed through one order of all entries: the *)
(* first m are the queue, the rest are free.                               *)
(***************************************************************************)
EXTENDS TimerTask, WellFoundedInduction, TLAPS

\* Shorthand for the size of the pool, and its orders.
Size == TIMER_QUEUE_SIZE_MAX
Orders == {o \in [Nodes -> Nodes] :
             /\ \A i, j \in Nodes : o[i] = o[j] => i = j
             /\ \A n \in Nodes : \E i \in Nodes : o[i] = n}

\* From first on, pNext leads through the entries from a to b of o.
Segment(o, a, b, first) ==
    /\ first = IF a <= b THEN o[a] ELSE NULL
    /\ \A i \in a .. b : pNext[o[i]] = IF i = b THEN NULL ELSE o[i + 1]

Split(o, m) ==
    /\ Segment(o, 1, m, pQHead)
    /\ pQTail = IF m = 0 THEN NULL ELSE o[m]
    /\ status = "INITED" => Segment(o, m + 1, Size, pQPollFreeList)
ListInv == \E o \in Orders, m \in 0 .. Size : Split(o, m)

\* A cancellation under way has its timer, and so has the thread after a pop.
Sems == [who : Callers \cup {TimerThread, NoCaller}, timer : Timers \cup {NoTimer},
         step : {"none", "delete", "remove"}, seen : BOOLEAN]
PlaceInv ==
    /\ sem \in Sems
    /\ sem.step # "none" => sem.timer \in Timers
    /\ tpc \in {"run", "repeat?", "rearm"} => pTimer \in Timers

IInv == TypeOK /\ PlaceInv /\ ListInv

-----------------------------------------------------------------------------
(* Hops. *)

LEMMA Least ==
  ASSUME NEW S \in SUBSET Nat, S # {}
  PROVE  \E m \in S : \A k \in S : m <= k
<1> DEFINE R == OpToRel(<, Nat)
<1>1. IsWellFoundedOn(R, Nat)
  BY NatLessThanWellFounded, Zenon
<1>2. PICK m \in S : \A k \in S : ~(<<k, m>> \in R)
  <2> HIDE DEF R
  <2> QED
    BY <1>1, WFMin, Zenon
<1>3. \A k \in S : ~(k < m)
  <2> TAKE k \in S
  <2>1. k \in Nat /\ m \in Nat
    OBVIOUS
  <2>2. k < m => <<k, m>> \in R
    BY <2>1, Zenon DEF OpToRel
  <2> QED
    BY <1>2, <2>2, Zenon
<1> QED
  BY <1>3

\* The recursive definition in Hops, as an equation.
HopStep(first, h) ==
    [k \in 0 .. Size |-> IF k = 0 THEN first ELSE IF h[k - 1] = NULL THEN NULL ELSE pNext[h[k - 1]]]

LEMMA HopsEquation ==
  ASSUME NEW first, NEW e, e = HopStep(first, e)
  PROVE  Hops(first) = HopStep(first, Hops(first))
<1> DEFINE H == CHOOSE h : h = HopStep(first, h)
<1>1. Hops(first) = H
  BY Zenon DEF Hops, HopStep, Size
<1>2. H = HopStep(first, H)
  BY Zenon
<1> QED
  BY <1>1, <1>2

\* What Hops computes: the entries of the segment, then NULL.
LEMMA HopsAlong ==
  ASSUME NEW o \in Orders, NEW a \in Nat \ {0}, NEW b \in 0 .. Size, a <= b + 1,
         NEW first, Segment(o, a, b, first)
  PROVE  Hops(first) = [k \in 0 .. Size |-> IF a + k <= b THEN o[a + k] ELSE NULL]
<1> DEFINE e == [k \in 0 .. Size |-> IF a + k <= b THEN o[a + k] ELSE NULL]
<1>0. Size \in Nat \ {0} /\ Nodes = 1 .. Size
  BY TimerAssumption DEF Size, Nodes
<1>1. \A i \in a .. b : o[i] \in Nodes /\ o[i] # NULL
  <2>1. o \in [Nodes -> Nodes]
    BY DEF Orders
  <2>2. \A i \in a .. b : i \in Nodes
    BY <1>0
  <2>3. NULL \notin Nodes
    BY <1>0 DEF NULL
  <2> QED
    BY <2>1, <2>2, <2>3
<1>2. \A k \in 0 .. Size : HopStep(first, e)[k] = e[k]
  <2> TAKE k \in 0 .. Size
  <2>1. CASE k = 0
    BY <2>1, <1>0 DEF HopStep, Segment
  <2>2. CASE k # 0 /\ a + (k - 1) <= b
    <3>1. e[k - 1] = o[a + (k - 1)] /\ e[k - 1] # NULL
      BY <2>2, <1>0, <1>1
    <3>2. pNext[o[a + (k - 1)]] = IF a + (k - 1) = b THEN NULL ELSE o[a + (k - 1) + 1]
      BY <2>2, <1>0 DEF Segment
    <3>3. HopStep(first, e)[k] = pNext[o[a + (k - 1)]]
      BY <2>2, <3>1 DEF HopStep
    <3>4. a + (k - 1) + 1 = a + k
      BY <1>0
    <3> QED
      BY <3>2, <3>3, <3>4, <2>2, <1>0
  <2>3. CASE k # 0 /\ ~(a + (k - 1) <= b)
    <3>1. e[k - 1] = NULL
      BY <2>3, <1>0
    <3> QED
      BY <3>1, <2>3, <1>0 DEF HopStep
  <2> QED
    BY <2>1, <2>2, <2>3
<1>3. e = HopStep(first, e)
  <2> DEFINE s == HopStep(first, e)
  <2>1. s = [k \in 0 .. Size |-> s[k]]
    BY DEF HopStep
  <2>2. s = [k \in 0 .. Size |-> e[k]]
    BY <2>1, <1>2
  <2> QED
    BY <2>2
<1> DEFINE h == Hops(first)
<1> HIDE DEF e
<1>4. h = HopStep(first, h)
  BY <1>3, HopsEquation
<1> HIDE DEF h
<1>5. \A k \in 0 .. Size : h[k] = e[k]
  <2> DEFINE S == {k \in 0 .. Size : h[k] # e[k]}
  <2> SUFFICES ASSUME S # {} PROVE FALSE
    OBVIOUS
  <2>1. PICK k \in S : \A j \in S : k <= j
    <3>1. S \in SUBSET Nat
      BY <1>0
    <3> HIDE DEF S
    <3> QED
      BY <3>1, Least
  <2>2. k \in 0 .. Size /\ h[k] # e[k]
    OBVIOUS
  <2>3. h[k] = IF k = 0 THEN first ELSE IF h[k - 1] = NULL THEN NULL ELSE pNext[h[k - 1]]
    BY <1>4, <2>2 DEF HopStep
  <2>4. e[k] = IF k = 0 THEN first ELSE IF e[k - 1] = NULL THEN NULL ELSE pNext[e[k - 1]]
    BY <1>3, <2>2 DEF HopStep
  <2>5. k # 0 => h[k - 1] = e[k - 1]
    BY <2>1, <2>2, <1>0
  <2> QED
    BY <2>2, <2>3, <2>4, <2>5
<1>6. h = [k \in 0 .. Size |-> h[k]]
  BY <1>4 DEF HopStep
<1>7. e = [k \in 0 .. Size |-> e[k]]
  BY DEF e
<1> QED
  BY <1>5, <1>6, <1>7 DEF h, e

LEMMA SizeType == Size \in Nat \ {0} /\ Nodes = 1 .. Size /\ NULL \notin Nodes
  BY TimerAssumption DEF Size, Nodes, NULL

\* A segment as a chain: it ends, and holds its part of the order.
LEMMA ChainOf ==
  ASSUME NEW o \in Orders, NEW a \in Nat \ {0}, NEW b \in 0 .. Size, a <= b + 1,
         NEW first, Segment(o, a, b, first)
  PROVE  /\ Hops(first)[Size] = NULL
         /\ Chain(first) = {o[i] : i \in a .. b}
<1> DEFINE e == [k \in 0 .. Size |-> IF a + k <= b THEN o[a + k] ELSE NULL]
<1>1. Hops(first) = e
  BY HopsAlong
<1>2. ~(a + Size <= b) /\ Size \in 0 .. Size
  BY SizeType
<1>3. o \in [Nodes -> Nodes]
  BY DEF Orders
<1>4. \A i \in a .. b : i \in Nodes /\ o[i] # NULL /\ i - a \in 0 .. Size /\ a + (i - a) = i
  BY <1>3, SizeType
<1>5. Chain(first) = {e[k] : k \in 0 .. Size} \ {NULL}
  BY <1>1 DEF Chain, Size
<1>6. \A i \in a .. b : e[i - a] = o[i]
  BY <1>4
<1>7. \A k \in 0 .. Size : e[k] # NULL => a + k \in a .. b /\ e[k] = o[a + k]
  BY SizeType
<1> QED
  <2>1. e[Size] = NULL
    BY <1>2
  <2> HIDE DEF e
  <2>2. ASSUME NEW n \in Chain(first) PROVE n \in {o[i] : i \in a .. b}
    BY <2>2, <1>5, <1>7
  <2>3. ASSUME NEW n \in {o[i] : i \in a .. b} PROVE n \in Chain(first)
    <3>1. PICK i \in a .. b : n = o[i]
      OBVIOUS
    <3>2. e[i - a] = n /\ i - a \in 0 .. Size /\ n # NULL
      BY <3>1, <1>4, <1>6
    <3> QED
      BY <3>2, <1>5
  <2> QED
    BY <1>1, <2>1, <2>2, <2>3

LEMMA IInvPool == IInv => PoolIntact
<1> SUFFICES ASSUME IInv PROVE PoolIntact
  OBVIOUS
<1>1. TypeOK
  BY DEF IInv
<1> SUFFICES ASSUME status = "INITED"
             PROVE  /\ Hops(pQHead)[Size] = NULL
                    /\ Hops(pQPollFreeList)[Size] = NULL
                    /\ Chain(pQHead) \cap Chain(pQPollFreeList) = {}
                    /\ Chain(pQHead) \cup Chain(pQPollFreeList) = Nodes
                    /\ IF pQHead = NULL THEN pQTail = NULL
                       ELSE pQTail \in Chain(pQHead) /\ pNext[pQTail] = NULL
  BY <1>1 DEF PoolIntact, Size
<1>2. PICK o \in Orders, m \in 0 .. Size : Split(o, m)
  BY DEF IInv, ListInv
<1>3. /\ Segment(o, 1, m, pQHead)
      /\ Segment(o, m + 1, Size, pQPollFreeList)
      /\ pQTail = IF m = 0 THEN NULL ELSE o[m]
  BY <1>2 DEF Split
<1>4. m \in Nat /\ 1 <= m + 1 /\ m + 1 \in Nat \ {0} /\ Size \in 0 .. Size /\ m + 1 <= Size + 1
  BY SizeType
<1>5. Hops(pQHead)[Size] = NULL /\ Chain(pQHead) = {o[i] : i \in 1 .. m}
  BY <1>3, <1>4, ChainOf
<1>6. Hops(pQPollFreeList)[Size] = NULL /\ Chain(pQPollFreeList) = {o[i] : i \in m + 1 .. Size}
  BY <1>3, <1>4, ChainOf
<1>7. /\ o \in [Nodes -> Nodes]
      /\ \A i, j \in Nodes : o[i] = o[j] => i = j
      /\ \A n \in Nodes : \E i \in Nodes : o[i] = n
  BY DEF Orders
<1>8. 1 .. m \subseteq Nodes /\ m + 1 .. Size \subseteq Nodes /\ Nodes = 1 .. m \cup m + 1 .. Size
  BY SizeType
<1>9. Chain(pQHead) \cap Chain(pQPollFreeList) = {}
  <2> SUFFICES ASSUME NEW i \in 1 .. m, NEW j \in m + 1 .. Size, o[i] = o[j] PROVE FALSE
    BY <1>5, <1>6
  <2>1. i = j
    BY <1>7, <1>8
  <2> QED
    BY <2>1, <1>4
<1>10. Chain(pQHead) \cup Chain(pQPollFreeList) = Nodes
  <2>1. ASSUME NEW n \in Nodes PROVE n \in Chain(pQHead) \cup Chain(pQPollFreeList)
    BY <1>5, <1>6, <1>7, <1>8
  <2>2. Chain(pQHead) \subseteq Nodes /\ Chain(pQPollFreeList) \subseteq Nodes
    BY <1>5, <1>6, <1>7, <1>8
  <2> QED
    BY <2>1, <2>2
<1>11. IF pQHead = NULL THEN pQTail = NULL
       ELSE pQTail \in Chain(pQHead) /\ pNext[pQTail] = NULL
  <2>1. CASE m = 0
    BY <2>1, <1>3 DEF Segment
  <2>2. CASE m # 0
    <3>1. 1 \in 1 .. m /\ m \in 1 .. m
      BY <2>2, <1>4
    <3>2. pQHead = o[1] /\ o[1] \in Nodes
      BY <3>1, <1>3, <1>7, <1>8, <1>4 DEF Segment
    <3>3. pQTail \in Chain(pQHead) /\ pNext[pQTail] = NULL
      BY <3>1, <2>2, <1>3, <1>5 DEF Segment
    <3> QED
      BY <3>2, <3>3, SizeType
  <2> QED
    BY <2>1, <2>2
<1> QED
  BY <1>5, <1>6, <1>9, <1>10, <1>11

-----------------------------------------------------------------------------
(* What disturbs the lists. *)

\* Entry number k of the order goes to the end of the queue's part.
Moved(o, k, m) ==
    [i \in Nodes |-> IF i < k \/ i > m THEN o[i] ELSE IF i = m THEN o[k] ELSE o[i + 1]]

LEMMA MovedIsOrder ==
  ASSUME NEW o \in Orders, NEW m \in 1 .. Size, NEW k \in 1 .. m
  PROVE  Moved(o, k, m) \in Orders
<1> DEFINE p == Moved(o, k, m)
<1>1. /\ o \in [Nodes -> Nodes]
      /\ \A i, j \in Nodes : o[i] = o[j] => i = j
      /\ \A n \in Nodes : \E i \in Nodes : o[i] = n
  BY DEF Orders
\* Where position i of the new order comes from.
<1> DEFINE from(i) == IF i < k \/ i > m THEN i ELSE IF i = m THEN k ELSE i + 1
<1>2. \A i \in Nodes : from(i) \in Nodes /\ p[i] = o[from(i)]
  BY SizeType DEF Moved
<1>3. \A i, j \in Nodes : from(i) = from(j) => i = j
  BY SizeType
<1>4. \A i \in Nodes : \E j \in Nodes : from(j) = i
  <2> TAKE i \in Nodes
  <2>1. CASE i < k \/ i > m
    BY <2>1
  <2>2. CASE i = k
    <3>1. m \in Nodes /\ from(m) = i
      BY <2>2, SizeType
    <3> QED
      BY <3>1
  <2>3. CASE i > k /\ i <= m
    <3>1. i - 1 \in Nodes /\ from(i - 1) = i
      BY <2>3, SizeType
    <3> QED
      BY <3>1
  <2> QED
    BY <2>1, <2>2, <2>3, SizeType
<1>5. p = [i \in Nodes |-> p[i]]
  BY DEF Moved
<1> HIDE DEF p, from
<1>6. p \in [Nodes -> Nodes]
  BY <1>1, <1>2, <1>5
<1>7. \A i, j \in Nodes : p[i] = p[j] => i = j
  BY <1>1, <1>2, <1>3
<1>8. \A n \in Nodes : \E i \in Nodes : p[i] = n
  <2> TAKE n \in Nodes
  <2>1. PICK i \in Nodes : o[i] = n
    BY <1>1
  <2>2. PICK j \in Nodes : from(j) = i
    BY <1>4
  <2>3. p[j] = n
    BY <1>2, <2>1, <2>2
  <2> QED
    BY <2>3
<1>9. p \in Orders
  BY <1>6, <1>7, <1>8 DEF Orders
<1> QED
  BY <1>9 DEF p

\* Entry number k of the queue goes back to the pool.
LEMMA UnlinkSplits ==
  ASSUME TypeOK, NEW o \in Orders, NEW m \in 1 .. Size, NEW k \in 1 .. m, Split(o, m),
         Unlink(o[k], IF k = 1 THEN NULL ELSE o[k - 1]), status' = status
  PROVE  Split(Moved(o, k, m), m - 1)'
<1> DEFINE p == Moved(o, k, m)
           prev == IF k = 1 THEN NULL ELSE o[k - 1]
<1>1. /\ o \in [Nodes -> Nodes]
      /\ \A i, j \in Nodes : o[i] = o[j] => i = j
  BY DEF Orders
<1>2. /\ \A i \in 1 .. m : i \in Nodes
      /\ k \in Nodes /\ o[k] \in Nodes
      /\ k # 1 => k - 1 \in Nodes /\ o[k - 1] \in Nodes
  BY <1>1, SizeType
<1>3. /\ pQHead = o[1]
      /\ \A i \in 1 .. m : pNext[o[i]] = IF i = m THEN NULL ELSE o[i + 1]
      /\ pQTail = o[m]
      /\ status = "INITED" => Segment(o, m + 1, Size, pQPollFreeList)
  BY SizeType DEF Split, Segment
<1>4. \A i \in Nodes : (o[i] = o[k] <=> i = k) /\ (o[i] = prev <=> k # 1 /\ i = k - 1)
  BY <1>1, <1>2, SizeType
<1>5. \A i \in Nodes : pNext'[o[i]] = IF i = k THEN pQPollFreeList
                                      ELSE IF k # 1 /\ i = k - 1 THEN pNext[o[k]] ELSE pNext[o[i]]
  <2>1. \A n \in Nodes : pNext'[n] = IF n = o[k] THEN pQPollFreeList
                                     ELSE IF n = prev THEN pNext[o[k]] ELSE pNext[n]
    BY DEF Unlink, ReturnToPool
  <2> TAKE i \in Nodes
  <2>2. o[i] \in Nodes /\ (o[i] = o[k] <=> i = k) /\ (o[i] = prev <=> k # 1 /\ i = k - 1)
    BY <1>1, <1>4
  <2>3. pNext'[o[i]] = IF o[i] = o[k] THEN pQPollFreeList
                       ELSE IF o[i] = prev THEN pNext[o[k]] ELSE pNext[o[i]]
    BY <2>1, <2>2
  <2> QED
    BY <2>2, <2>3, Zenon
<1>6. /\ pQHead' = IF k = 1 THEN pNext[o[k]] ELSE pQHead
      /\ pQTail' = IF k = m THEN prev ELSE pQTail
      /\ pQPollFreeList' = o[k]
  <2>1. (o[k] = pQHead <=> k = 1) /\ (o[k] = pQTail <=> k = m)
    <3>1. 1 \in Nodes /\ m \in Nodes /\ k \in Nodes
      BY SizeType
    <3> QED
      BY <1>1, <1>3, <3>1
  <2> QED
    BY <2>1 DEF Unlink, ReturnToPool
<1>7. \A i \in Nodes : p[i] = IF i < k \/ i > m THEN o[i] ELSE IF i = m THEN o[k] ELSE o[i + 1]
  BY DEF Moved
<1> HIDE DEF p
<1>8. pQHead' = IF 1 <= m - 1 THEN p[1] ELSE NULL
  BY <1>3, <1>6, <1>7, <1>2, SizeType
<1>9. \A i \in 1 .. m - 1 : pNext'[p[i]] = IF i = m - 1 THEN NULL ELSE p[i + 1]
  <2> TAKE i \in 1 .. m - 1
  <2>0. i \in Nodes /\ i + 1 \in Nodes /\ i \in 1 .. m /\ i + 1 \in 1 .. m
    BY SizeType
  <2>1. CASE i < k - 1
    <3>1. p[i] = o[i] /\ p[i + 1] = o[i + 1] /\ i # m - 1
      BY <2>0, <2>1, <1>7
    <3>2. pNext'[o[i]] = pNext[o[i]] /\ pNext[o[i]] = o[i + 1]
      BY <2>0, <2>1, <1>3, <1>5
    <3> QED
      BY <3>1, <3>2
  <2>2. CASE i = k - 1
    <3>1. p[i] = o[i] /\ pNext'[o[i]] = pNext[o[k]]
      BY <2>0, <2>2, <1>5, <1>7
    <3>2. pNext[o[k]] = IF k = m THEN NULL ELSE o[k + 1]
      BY <1>3
    <3>3. k # m => p[k] = o[k + 1]
      BY <1>2, <1>7
    <3> QED
      BY <3>1, <3>2, <3>3, <2>2, <2>0
  <2>3. CASE i >= k
    <3>1. p[i] = o[i + 1] /\ (i # m - 1 => p[i + 1] = o[i + 2])
      BY <2>0, <2>3, <1>7
    <3>2. pNext'[o[i + 1]] = pNext[o[i + 1]]
      BY <2>0, <2>3, <1>5
    <3>3. pNext[o[i + 1]] = IF i + 1 = m THEN NULL ELSE o[i + 2]
      BY <2>0, <1>3
    <3> QED
      BY <3>1, <3>2, <3>3, <2>0
  <2> QED
    BY <2>1, <2>2, <2>3
<1>10. pQTail' = IF m - 1 = 0 THEN NULL ELSE p[m - 1]
  <2>1. m - 1 # 0 => m - 1 \in Nodes
    BY SizeType
  <2> QED
    BY <2>1, <1>3, <1>6, <1>7
<1>11. ASSUME status' = "INITED"
       PROVE  /\ pQPollFreeList' = IF m <= Size THEN p[m] ELSE NULL
              /\ \A i \in m .. Size : pNext'[p[i]] = IF i = Size THEN NULL ELSE p[i + 1]
  <2>1. /\ pQPollFreeList = IF m + 1 <= Size THEN o[m + 1] ELSE NULL
        /\ \A i \in m + 1 .. Size : pNext[o[i]] = IF i = Size THEN NULL ELSE o[i + 1]
    BY <1>3, <1>11 DEF Segment
  <2>2. p[m] = o[k] /\ \A i \in m + 1 .. Size : p[i] = o[i]
    BY <1>7, SizeType
  <2>3. pNext'[o[k]] = pQPollFreeList
    BY <1>2, <1>5
  <2>4. \A i \in m + 1 .. Size : i \in Nodes /\ pNext'[o[i]] = pNext[o[i]]
    BY <1>5, SizeType
  <2>5. \A i \in m + 1 .. Size : pNext'[p[i]] = IF i = Size THEN NULL ELSE p[i + 1]
    BY <2>1, <2>2, <2>4, SizeType
  <2>6. pNext'[p[m]] = IF m = Size THEN NULL ELSE p[m + 1]
    BY <2>1, <2>2, <2>3, SizeType
  <2> QED
    BY <2>2, <2>5, <2>6, <1>6, SizeType
<1>12. m - 1 + 1 = m
  BY SizeType
<1>13. Segment(p, 1, m - 1, pQHead)'
  BY <1>8, <1>9 DEF Segment
<1>14. status' = "INITED" => Segment(p, m - 1 + 1, Size, pQPollFreeList)'
  BY <1>11, <1>12 DEF Segment, Size
<1>15. Split(p, m - 1)'
  BY <1>10, <1>13, <1>14 DEF Split, Size
<1> QED
  BY <1>15 DEF p

\* The first free entry becomes the last of the queue.
LEMMA AppendSplits ==
  ASSUME TypeOK, NEW o \in Orders, NEW m \in 0 .. Size, Split(o, m), NEW t,
         status = "INITED", status' = status, pQPollFreeList # NULL,
         Append2Queue(pQPollFreeList, t)
  PROVE  m + 1 \in 0 .. Size /\ Split(o, m + 1)'
<1>1. /\ o \in [Nodes -> Nodes]
      /\ \A i, j \in Nodes : o[i] = o[j] => i = j
  BY DEF Orders
<1>2. /\ pQHead = IF 1 <= m THEN o[1] ELSE NULL
      /\ \A i \in 1 .. m : pNext[o[i]] = IF i = m THEN NULL ELSE o[i + 1]
      /\ pQTail = IF m = 0 THEN NULL ELSE o[m]
      /\ pQPollFreeList = IF m + 1 <= Size THEN o[m + 1] ELSE NULL
      /\ \A i \in m + 1 .. Size : pNext[o[i]] = IF i = Size THEN NULL ELSE o[i + 1]
  BY DEF Split, Segment
<1>3. m + 1 <= Size /\ m + 1 \in Nodes /\ pQPollFreeList = o[m + 1]
  BY <1>2, SizeType
<1>4. \A i \in Nodes : (o[i] = o[m + 1] <=> i = m + 1) /\ (o[i] = pQTail <=> m # 0 /\ i = m)
  <2> TAKE i \in Nodes
  <2>1. o[i] \in Nodes /\ (o[i] = o[m + 1] <=> i = m + 1)
    BY <1>1, <1>3
  <2>2. CASE m = 0
    BY <2>1, <2>2, <1>2, SizeType
  <2>3. CASE m # 0
    <3>1. m \in Nodes /\ pQTail = o[m]
      BY <2>3, <1>2, SizeType
    <3> QED
      BY <2>1, <2>3, <3>1, <1>1
  <2> QED
    BY <2>2, <2>3
<1>5. \A i \in Nodes : pNext'[o[i]] = IF i = m + 1 THEN NULL
                                      ELSE IF i = m THEN o[m + 1] ELSE pNext[o[i]]
  <2>1. \A n \in Nodes : pNext'[n] = IF n = o[m + 1] THEN NULL
                                     ELSE IF n = pQTail THEN o[m + 1] ELSE pNext[n]
    BY <1>3 DEF Append2Queue
  <2> TAKE i \in Nodes
  <2>2. o[i] \in Nodes /\ i # 0
    BY <1>1, SizeType
  <2> QED
    BY <2>1, <2>2, <1>4
<1>6. /\ pQPollFreeList' = pNext[o[m + 1]]
      /\ pQTail' = o[m + 1]
      /\ pQHead' = o[1]
  <2>1. 1 <= m => o[1] # NULL
    BY <1>1, SizeType
  <2> QED
    BY <2>1, <1>2, <1>3, SizeType DEF Append2Queue
<1>7. \A i \in 1 .. m + 1 : pNext'[o[i]] = IF i = m + 1 THEN NULL ELSE o[i + 1]
  BY <1>2, <1>3, <1>5, SizeType
<1>8. /\ pQPollFreeList' = IF m + 2 <= Size THEN o[m + 2] ELSE NULL
      /\ \A i \in m + 2 .. Size : pNext'[o[i]] = IF i = Size THEN NULL ELSE o[i + 1]
  BY <1>2, <1>3, <1>5, <1>6, SizeType
<1>9. m + 1 + 1 = m + 2 /\ m + 1 \in 0 .. Size /\ m + 1 # 0 /\ 1 <= m + 1
  BY <1>3, SizeType
<1>10. Segment(o, 1, m + 1, pQHead)'
  BY <1>6, <1>7, <1>9 DEF Segment
<1>11. Segment(o, m + 1 + 1, Size, pQPollFreeList)'
  BY <1>8, <1>9 DEF Segment, Size
<1> QED
  BY <1>6, <1>9, <1>10, <1>11 DEF Split, Size

\* A step that leaves the lists and status alone.
LEMMA SameLists ==
  ASSUME ListInv, UNCHANGED <<lists, status>>
  PROVE  ListInv'
<1>1. PICK o \in Orders, m \in 0 .. Size : Split(o, m)
  BY DEF ListInv
<1>2. Split(o, m)'
  BY <1>1 DEF Split, Segment, lists
<1> QED
  BY <1>2 DEF ListInv, Orders, Nodes, Size

LEMMA UnlinkKeepsLists ==
  ASSUME TypeOK, NEW o \in Orders, NEW m \in 1 .. Size, NEW k \in 1 .. m, Split(o, m),
         Unlink(o[k], IF k = 1 THEN NULL ELSE o[k - 1]), status' = status
  PROVE  ListInv'
<1>1. Split(Moved(o, k, m), m - 1)'
  BY UnlinkSplits
<1>2. Moved(o, k, m) \in Orders /\ m - 1 \in 0 .. Size
  BY MovedIsOrder, SizeType
<1> QED
  BY <1>1, <1>2 DEF ListInv

\* The lists of a pool just chained, or freed.
FreshPool ==
    /\ pQHead = NULL /\ pQTail = NULL
    /\ status = "INITED" => pQPollFreeList = TIMER_QUEUE_SIZE_MAX /\ pNext = FreeChain

LEMMA FreshLists == FreshPool => ListInv
<1> SUFFICES ASSUME FreshPool PROVE ListInv
  OBVIOUS
<1> DEFINE o == [i \in Nodes |-> Size + 1 - i]
<1>1. o \in Orders
  <2>1. o \in [Nodes -> Nodes]
    BY SizeType
  <2>2. \A i, j \in Nodes : o[i] = o[j] => i = j
    BY SizeType
  <2>3. \A n \in Nodes : Size + 1 - n \in Nodes /\ o[Size + 1 - n] = n
    BY SizeType
  <2> QED
    BY <2>1, <2>2, <2>3 DEF Orders
<1>2. Segment(o, 1, 0, pQHead)
  BY DEF Segment, FreshPool
<1>3. ASSUME status = "INITED" PROVE Segment(o, 1, Size, pQPollFreeList)
  <2>1. pQPollFreeList = o[1] /\ 1 <= Size
    BY <1>3, SizeType DEF Size, FreshPool
  <2>2. \A i \in 1 .. Size : pNext[o[i]] = Size - i
    BY <1>3, SizeType DEF FreeChain, FreshPool
  <2>3. \A i \in 1 .. Size : Size - i = IF i = Size THEN NULL ELSE o[i + 1]
    BY SizeType DEF NULL
  <2> QED
    BY <2>1, <2>2, <2>3 DEF Segment
<1>4. Split(o, 0) /\ 0 \in 0 .. Size
  BY <1>2, <1>3, SizeType DEF Split, FreshPool
<1> QED
  BY <1>1, <1>4 DEF ListInv

-----------------------------------------------------------------------------
(* The steps. *)

\* What a step that only moves timers, callers or flags has to respect.
LEMMA OthersKeep ==
  ASSUME IInv, UNCHANGED <<lists, status>>,
         State' \in [Timers -> BOOLEAN], Repeat' \in [Timers -> BOOLEAN],
         pending' \in [Timers -> BOOLEAN], irq' \in [Timers -> BOOLEAN],
         sem' \in Sems, sem'.step # "none" => sem'.timer \in Timers,
         tpc' \in {"wait", "head?", "pop", "run", "repeat?", "rearm", "dead"},
         pTimer' \in Timers \cup {NoTimer}, wakeups' \in 0 .. SemaMax,
         tpc' \in {"run", "repeat?", "rearm"} => pTimer' \in Timers,
         Flags' \subseteq {"HALT", "PM_SUSPEND"}
  PROVE  IInv'
<1>1. ListInv'
  BY SameLists DEF IInv
<1>2. PlaceInv'
  BY DEF PlaceInv, Sems, Timers
<1>3. sem'.who \in Callers \cup {TimerThread, NoCaller} /\ sem'.timer \in Timers \cup {NoTimer}
      /\ sem'.step \in {"none", "delete", "remove"} /\ sem'.seen \in BOOLEAN
  BY DEF Sems
<1>4. /\ ({pQHead, pQTail, pQPollFreeList} \subseteq Nodes \cup {NULL})'
      /\ pNext' \in [Nodes -> Nodes \cup {NULL}]
      /\ pRaTimer' \in [Nodes -> Timers \cup {NoTimer}]
      /\ status' \in {"INITED", "STOPED"}
  BY DEF IInv, TypeOK, lists
<1>5. TypeOK'
  BY <1>3, <1>4 DEF TypeOK, Timers, Nodes
<1> QED
  BY <1>1, <1>2, <1>5 DEF IInv

LEMMA CallKeeps ==
  ASSUME IInv, NEW c \in Callers \cup {TimerThread}, NEW t \in Timers,
         RTMPSetTimer(c, t) \/ RTMPModTimer(c, t) \/ RTMPCancelTimer(c, t)
  PROVE  IInv'
<1> USE DEF IInv, TypeOK, PlaceInv
<1>1. CASE RTMPSetTimer(c, t)
  BY <1>1, OthersKeep DEF RTMPSetTimer, thread
<1>2. CASE RTMPModTimer(c, t)
  BY <1>2, OthersKeep DEF RTMPModTimer, thread
<1>3. CASE RTMPCancelTimer(c, t)
  <2>1. sem' \in Sems /\ sem'.timer \in Timers
    BY <1>3 DEF RTMPCancelTimer, Sems
  <2> QED
    BY <1>3, <2>1, OthersKeep DEF RTMPCancelTimer, thread
<1> QED
  BY <1>1, <1>2, <1>3

LEMMA CancelDeleteKeeps == IInv /\ CancelDelete => IInv'
<1> SUFFICES ASSUME IInv, CancelDelete PROVE IInv'
  OBVIOUS
<1> USE DEF IInv, TypeOK, PlaceInv
<1>1. sem.timer \in Timers /\ sem' \in Sems /\ sem'.timer = sem.timer
  BY DEF CancelDelete, Sems
<1>2. State' \in [Timers -> BOOLEAN] /\ pending' \in [Timers -> BOOLEAN]
  BY <1>1 DEF CancelDelete, Sems
<1> QED
  BY <1>1, <1>2, OthersKeep DEF CancelDelete, thread

LEMMA TimerFiresKeeps == ASSUME IInv, NEW t \in Timers, TimerFires(t) PROVE IInv'
  BY OthersKeep DEF IInv, TypeOK, PlaceInv, TimerFires, thread

LEMMA FlagsKeep == IInv /\ (Suspend \/ Resume \/ SetHalt) => IInv'
<1> SUFFICES ASSUME IInv, Suspend \/ Resume \/ SetHalt PROVE IInv'
  OBVIOUS
<1>1. UNCHANGED <<timers, lists, status, sem, thread>> /\ Flags' \subseteq {"HALT", "PM_SUSPEND"}
  BY DEF Suspend, Resume, SetHalt, IInv, TypeOK
<1> QED
  BY <1>1, OthersKeep DEF IInv, TypeOK, PlaceInv, timers, thread

LEMMA ThreadKeeps ==
  ASSUME IInv,
         ThreadWakes \/ ThreadTestsHead \/ HandlerReturns \/ ThreadTestsRepeat \/ ThreadRearms
             \/ ThreadKilled
  PROVE  IInv'
<1> USE DEF IInv, TypeOK, PlaceInv
<1>1. CASE ThreadWakes
  <2>1. wakeups' \in 0 .. SemaMax
    BY <1>1, TimerAssumption DEF ThreadWakes
  <2> QED
    BY <1>1, <2>1, OthersKeep DEF ThreadWakes, timers
<1>2. CASE ThreadTestsHead
  BY <1>2, OthersKeep DEF ThreadTestsHead, timers
<1>3. CASE HandlerReturns
  BY <1>3, OthersKeep DEF HandlerReturns, timers
<1>4. CASE ThreadTestsRepeat
  BY <1>4, OthersKeep DEF ThreadTestsRepeat, timers
<1>5. CASE ThreadRearms
  BY <1>5, OthersKeep DEF ThreadRearms
<1>6. CASE ThreadKilled
  BY <1>6, OthersKeep DEF ThreadKilled, timers
<1> QED
  BY <1>1, <1>2, <1>3, <1>4, <1>5, <1>6

LEMMA UnlinkTypes ==
  ASSUME TypeOK, NEW n \in Nodes, NEW prev \in Nodes \cup {NULL}, Unlink(n, prev)
  PROVE  /\ {pQHead', pQTail', pQPollFreeList'} \subseteq Nodes \cup {NULL}
         /\ pNext' \in [Nodes -> Nodes \cup {NULL}]
         /\ pRaTimer' \in [Nodes -> Timers \cup {NoTimer}]
  BY DEF TypeOK, Unlink, ReturnToPool

\* Entry number k of the queue, as Hops finds it.
LEMMA QueueHops ==
  ASSUME NEW o \in Orders, NEW m \in 0 .. Size, Split(o, m)
  PROVE  \A k \in 0 .. Size : Hops(pQHead)[k] = IF 1 + k <= m THEN o[1 + k] ELSE NULL
<1>1. Segment(o, 1, m, pQHead) /\ 1 \in Nat \ {0} /\ 1 <= m + 1
  BY SizeType DEF Split
<1>2. Hops(pQHead) = [k \in 0 .. Size |-> IF 1 + k <= m THEN o[1 + k] ELSE NULL]
  BY <1>1, HopsAlong
<1> QED
  BY <1>2

LEMMA RemoveKeeps == IInv /\ RtmpTimerQRemove => IInv'
<1> SUFFICES ASSUME IInv, RtmpTimerQRemove PROVE IInv'
  OBVIOUS
<1>1. sem' \in Sems /\ sem'.step = "none"
  BY DEF RtmpTimerQRemove, Unlocked, Sems
<1>2. CASE ~Queued(sem.timer)
  BY <1>1, <1>2, OthersKeep DEF RtmpTimerQRemove, IInv, TypeOK, PlaceInv, timers, thread
<1>3. CASE Queued(sem.timer)
  <2> DEFINE W == Waiting(sem.timer)
             k == CHOOSE i \in W : \A j \in W : i <= j
  <2>1. PICK o \in Orders, m \in 0 .. Size : Split(o, m)
    BY DEF IInv, ListInv
  <2>2. k \in W
    <3>1. W \in SUBSET Nat /\ W # {}
      BY <1>3, SizeType DEF Waiting, Queued, Size
    <3> HIDE DEF W
    <3>2. \E i \in W : \A j \in W : i <= j
      BY <3>1, Least
    <3> QED
      BY <3>2
  <2>3. k \in 0 .. Size /\ Hops(pQHead)[k] # NULL
    BY <2>2 DEF Waiting, Size
  <2>4. Unlink(Hops(pQHead)[k], IF k = 0 THEN NULL ELSE Hops(pQHead)[k - 1])
    BY <1>3 DEF RtmpTimerQRemove
  <2>5. UNCHANGED <<timers, status, thread, Flags>>
    BY DEF RtmpTimerQRemove
  <2> HIDE DEF k, W
  <2>6. 1 + k <= m /\ Hops(pQHead)[k] = o[1 + k]
    BY <2>1, <2>3, QueueHops
  <2>7. k # 0 => Hops(pQHead)[k - 1] = o[1 + k - 1]
    <3>1. k # 0 => k - 1 \in 0 .. Size /\ 1 + (k - 1) <= m /\ 1 + (k - 1) = 1 + k - 1
      BY <2>3, <2>6, SizeType
    <3> QED
      BY <3>1, <2>1, QueueHops
  <2>8. 1 + k \in 1 .. m /\ m \in 1 .. Size /\ (1 + k = 1 <=> k = 0)
    BY <2>3, <2>6, SizeType
  <2>9. PICK j \in 1 .. m : Unlink(o[j], IF j = 1 THEN NULL ELSE o[j - 1])
    <3> DEFINE i == 1 + k
           n == Hops(pQHead)[k]
           prev == IF k = 0 THEN NULL ELSE Hops(pQHead)[k - 1]
    <3>1. i \in 1 .. m /\ n = o[i] /\ prev = IF i = 1 THEN NULL ELSE o[i - 1]
      BY <2>3, <2>6, <2>7, <2>8, SizeType
    <3>2. Unlink(n, prev)
      BY <2>4
    <3> HIDE DEF i, n, prev
    <3> QED
      BY <3>1, <3>2, Zenon
  <2>10. ListInv'
    BY <2>1, <2>5, <2>8, <2>9, UnlinkKeepsLists DEF IInv
  <2>11. o[j] \in Nodes /\ (IF j = 1 THEN NULL ELSE o[j - 1]) \in Nodes \cup {NULL}
    <3>1. o \in [Nodes -> Nodes]
      BY DEF Orders
    <3>2. j \in Nodes /\ (j # 1 => j - 1 \in Nodes)
      BY <2>8, <2>9, SizeType
    <3> QED
      BY <3>1, <3>2
  <2>12. TypeOK'
    <3>1. /\ {pQHead', pQTail', pQPollFreeList'} \subseteq Nodes \cup {NULL}
          /\ pNext' \in [Nodes -> Nodes \cup {NULL}]
          /\ pRaTimer' \in [Nodes -> Timers \cup {NoTimer}]
      BY <2>9, <2>11, UnlinkTypes DEF IInv
    <3>2. sem'.who \in Callers \cup {TimerThread, NoCaller} /\ sem'.timer \in Timers \cup {NoTimer}
          /\ sem'.step \in {"none", "delete", "remove"} /\ sem'.seen \in BOOLEAN
      BY <1>1 DEF Sems
    <3> QED
      BY <2>5, <3>1, <3>2 DEF IInv, TypeOK, timers, thread, Timers, Nodes
  <2>13. PlaceInv'
    BY <1>1, <2>5 DEF IInv, PlaceInv, thread, Sems, Timers
  <2> QED
    BY <2>10, <2>12, <2>13 DEF IInv
<1> QED
  BY <1>2, <1>3

LEMMA PopKeeps == IInv /\ ThreadPops => IInv'
<1> SUFFICES ASSUME IInv, ThreadPops PROVE IInv'
  OBVIOUS
<1>1. UNCHANGED <<timers, status, sem, wakeups, Flags>>
  BY DEF ThreadPops
<1>2. tpc' \in {"head?", "run", "repeat?"} /\ (pTimer' = NoTimer => tpc' = "head?")
  BY DEF ThreadPops
<1>3. CASE pQHead = NULL
  <2>1. UNCHANGED <<pTimer, lists>>
    BY <1>3 DEF ThreadPops
  <2> QED
    BY <1>1, <1>2, <2>1, OthersKeep DEF IInv, TypeOK, PlaceInv, timers
<1>4. CASE pQHead # NULL
  <2>1. PICK o \in Orders, m \in 0 .. Size : Split(o, m)
    BY DEF IInv, ListInv
  <2>2. m \in 1 .. Size /\ 1 \in 1 .. m /\ pQHead = o[1]
    BY <1>4, <2>1, SizeType DEF Split, Segment
  <2>3. Unlink(o[1], NULL)
    BY <1>4, <2>2 DEF ThreadPops, Unlink
  <2>4. ListInv'
    BY <1>1, <2>1, <2>2, <2>3, UnlinkKeepsLists DEF IInv
  <2>5. pQHead \in Nodes /\ pTimer' \in Timers \cup {NoTimer}
    BY <1>4 DEF ThreadPops, IInv, TypeOK
  <2>6. /\ {pQHead', pQTail', pQPollFreeList'} \subseteq Nodes \cup {NULL}
        /\ pNext' \in [Nodes -> Nodes \cup {NULL}]
        /\ pRaTimer' \in [Nodes -> Timers \cup {NoTimer}]
    BY <2>2, <2>3, <2>5, UnlinkTypes DEF IInv
  <2>7. TypeOK'
    BY <1>1, <1>2, <2>5, <2>6 DEF IInv, TypeOK, timers, Timers, Nodes
  <2>8. PlaceInv'
    BY <1>1, <1>2, <2>5 DEF IInv, PlaceInv, Sems, Timers
  <2> QED
    BY <2>4, <2>7, <2>8 DEF IInv
<1> QED
  BY <1>3, <1>4

LEMMA InsertKeeps == ASSUME IInv, NEW t \in Timers, RtmpTimerQInsert(t) PROVE IInv'
<1> USE TimerAssumption
<1>1. /\ UNCHANGED <<State, Repeat, status, sem, tpc, pTimer, Flags>>
      /\ irq' \in [Timers -> BOOLEAN]
  BY DEF RtmpTimerQInsert, IInv, TypeOK
<1>2. CASE status = "INITED" /\ pQPollFreeList # NULL
  <2>1. Append2Queue(pQPollFreeList, t) /\ pending' = pending /\ wakeups' \in 0 .. SemaMax
    BY <1>2 DEF RtmpTimerQInsert, WakeThread, IInv, TypeOK
  <2>2. ListInv'
    <3>1. PICK o \in Orders, m \in 0 .. Size : Split(o, m)
      BY DEF IInv, ListInv
    <3>2. m + 1 \in 0 .. Size /\ Split(o, m + 1)'
      BY <1>1, <1>2, <2>1, <3>1, AppendSplits DEF IInv
    <3> QED
      BY <3>2 DEF ListInv, Orders, Nodes, Size
  <2>3. /\ {pQHead', pQTail', pQPollFreeList'} \subseteq Nodes \cup {NULL}
        /\ pNext' \in [Nodes -> Nodes \cup {NULL}]
        /\ pRaTimer' \in [Nodes -> Timers \cup {NoTimer}]
    BY <1>2, <2>1 DEF Append2Queue, IInv, TypeOK
  <2>4. TypeOK'
    BY <1>1, <2>1, <2>3 DEF IInv, TypeOK, Timers, Nodes
  <2>5. PlaceInv'
    BY <1>1 DEF IInv, PlaceInv, Sems, Timers
  <2> QED
    BY <2>2, <2>4, <2>5 DEF IInv
<1>3. CASE ~(status = "INITED" /\ pQPollFreeList # NULL)
  <2>1. UNCHANGED <<lists, wakeups>> /\ pending' \in [Timers -> BOOLEAN]
    BY <1>3 DEF RtmpTimerQInsert, RetryWhenFull, IInv, TypeOK
  <2> QED
    BY <1>1, <2>1, OthersKeep DEF IInv, TypeOK, PlaceInv
<1> QED
  BY <1>2, <1>3

LEMMA ExitKeeps == IInv /\ RtmpTimerQExit => IInv'
<1> SUFFICES ASSUME IInv, RtmpTimerQExit PROVE IInv'
  OBVIOUS
<1>1. ListInv'
  <2>1. FreshPool'
    BY DEF RtmpTimerQExit, FreshPool
  <2>2. (FreshPool => ListInv)'
    BY FreshLists, PTL
  <2> QED
    BY <2>1, <2>2
<1>2. TypeOK' /\ PlaceInv'
  <2>1. FreeChain \in [Nodes -> Nodes \cup {NULL}]
    BY SizeType DEF FreeChain, NULL
  <2> QED
    BY <2>1 DEF IInv, TypeOK, PlaceInv, RtmpTimerQExit, timers, thread, Sems, Timers, Nodes
<1> QED
  BY <1>1, <1>2 DEF IInv

LEMMA InitIInv == Init => IInv
<1> SUFFICES ASSUME Init PROVE IInv
  OBVIOUS
<1>1. ListInv
  BY FreshLists DEF FreshPool, Init
<1>2. FreeChain \in [Nodes -> Nodes \cup {NULL}] /\ TIMER_QUEUE_SIZE_MAX \in Nodes
  BY SizeType DEF FreeChain, NULL, Size
<1>3. sem \in Sems /\ sem.step = "none"
  BY DEF Init, Unlocked, Sems
<1>4. TypeOK
  BY <1>2, TimerAssumption DEF Init, TypeOK, Unlocked
<1>5. PlaceInv
  BY <1>3 DEF Init, PlaceInv
<1> QED
  BY <1>1, <1>4, <1>5 DEF IInv

\* The next open of the interface starts afresh.
LEMMA ReopenKeeps == IInv /\ RtmpTimerQInit => IInv'
<1> SUFFICES ASSUME IInv, RtmpTimerQInit PROVE IInv'
  OBVIOUS
<1>1. irq' = [t \in Timers |-> FALSE]
  BY DEF IInv, TypeOK, RtmpTimerQInit
<1>2. Init'
  BY <1>1 DEF Init, RtmpTimerQInit, Timers, Nodes, Unlocked, FreeChain
<1>3. (Init => IInv)'
  BY InitIInv, PTL
<1> QED
  BY <1>2, <1>3

LEMMA StepIInv == IInv /\ [Next]_vars => IInv'
<1> SUFFICES ASSUME IInv, [Next]_vars PROVE IInv'
  OBVIOUS
<1>1. ASSUME NEW c \in Callers \cup {TimerThread}, NEW t \in Timers,
             RTMPSetTimer(c, t) \/ RTMPModTimer(c, t) \/ RTMPCancelTimer(c, t)
      PROVE  IInv'
  BY <1>1, CallKeeps
<1>2. CASE Call
  BY <1>1, <1>2 DEF Call, Timers
<1>3. CASE CancelDelete
  BY <1>3, CancelDeleteKeeps
<1>4. CASE RtmpTimerQRemove
  BY <1>4, RemoveKeeps
<1>5. ASSUME NEW t \in Timers, TimerFires(t) \/ RtmpTimerQInsert(t) PROVE IInv'
  BY <1>5, TimerFiresKeeps, InsertKeeps
<1>6. CASE ThreadStep \/ ThreadKilled
  BY <1>6, ThreadKeeps, PopKeeps DEF ThreadStep
<1>7. CASE Suspend \/ Resume \/ SetHalt
  BY <1>7, FlagsKeep
<1>8. CASE RtmpTimerQExit
  BY <1>8, ExitKeeps
<1>9. CASE RtmpTimerQInit
  BY <1>9, ReopenKeeps
<1>10. CASE UNCHANGED vars
  BY <1>10, OthersKeep DEF IInv, TypeOK, PlaceInv, vars, timers, thread
<1> QED
  BY <1>2, <1>3, <1>4, <1>5, <1>6, <1>7, <1>8, <1>9, <1>10 DEF Next

-----------------------------------------------------------------------------
\* The two lists are always a split of one order of the pool, and a place of a
\* caller or of the thread has the timer it needs.  (TimerTask.)
THEOREM Invariance == Spec => []IInv
  BY InitIInv, StepIInv, PTL DEF Spec

\* The types, whatever the timers, callers and pool.  (TimerTask.)
THEOREM TypeCorrect == Spec => []TypeOK
<1>1. IInv => TypeOK
  BY DEF IInv
<1> QED
  BY <1>1, Invariance, PTL

\* No interleaving of the callbacks, the thread and cancellations, which take the
\* first entry of a timer out of the middle of the list, loses an entry of the
\* pool, doubles it, makes a cycle or leaves the tail astray; whatever the size
\* of the pool and the number of timers and callers.  (RtmpTimerQInsert,
\* RtmpTimerQRemove and RtmpTimerQHandle.)
THEOREM PoolStaysIntact == Spec => []PoolIntact
  BY IInvPool, Invariance, PTL
=============================================================================
