--------------------------- MODULE MlmeQueueProofs ---------------------------
(***************************************************************************)
(* The MLME queue is safe for every size of the queue, every set of        *)
(* senders and every set of receivers, as long as the internal messages    *)
(* fit in what MlmeQueueFull keeps free of peers' frames (Provisioned); and*)
(* it then implements the mailbox: each step of a sender, of the MLME      *)
(* thread or of closing is a step of MlmeMailbox or leaves it alone.       *)
(***************************************************************************)
EXTENDS MlmeQueue, FiniteSetTheorems, SequenceTheorems, TLAPS

Half == N \div 2

\* Receivers stop at half of the queue, but each of them may have tested for
\* room before the others inserted; the rest must hold the internal messages.
Provisioned == Half + Cardinality(Receivers) + InternalLimit <= N

\* Receivers that have tested for room and not inserted yet.
InRoom == {t \in Receivers : pc[t] = "room"}

\* The message of a call is of its caller's kind.
CallInv == \A t \in Threads : pc[t] \in {"flagged", "room"} =>
               arg[t] \in IF t \in Senders THEN InternalMsgs ELSE PeerMsgs

\* Nothing of the last life of the interface reaches into the next.
CloseInv == life = "down" => hpc = "wait" /\ \A t \in Threads : pc[t] = "idle"

\* The ring, with one slot always free.
RingInv == Live => /\ CountsAgree /\ Num <= N - 1
                   /\ \A i \in Slots : InQueue(i) => Occupied(i)

\* Where the MLME thread is, and the slot it works on.
HandlerInv == Live => /\ hpc \in {"flags?", "dequeue"} => Num > 0
                      /\ hpc = "service" => QHead = Inc(Elem) /\ Occupied(Elem)

\* The accounting of messages: peers' are bounded by the half-queue test and
\* the number of receivers, internal ones by the environment's limit.
BudgetInv == Live =>
    /\ Num + Cardinality(InRoom)
         <= Half - 1 + Cardinality(Receivers) + Cardinality(QueuedInternal)
    /\ Cardinality(QueuedInternal) + Cardinality(Sending) <= InternalLimit

IInv == TypeOK /\ CallInv /\ CloseInv /\ RingInv /\ HandlerInv /\ BudgetInv

-----------------------------------------------------------------------------
LEMMA HalfBounds == Half \in Nat /\ 1 <= Half /\ Half < N
  BY QueueAssumption DEF Half

LEMMA TypeInit == Init => TypeOK
  BY QueueAssumption, ThreadAssumption
  DEF Init, TypeOK, EmptyEntry, Slots, Msgs

LEMMA TypeStep == TypeOK /\ [Next]_vars => TypeOK'
<1> SUFFICES ASSUME TypeOK, [Next]_vars PROVE TypeOK'
  OBVIOUS
<1> USE QueueAssumption DEF TypeOK
<1>1. ASSUME NEW t \in Threads, NEW m \in Msgs, EnqueueStart(t, m)
      PROVE  TypeOK'
  BY <1>1 DEF EnqueueStart, queue, thread, device
<1>2. CASE Send
  BY <1>1, <1>2
  DEF Send, MlmeEnqueue, MlmeEnqueueForRecv, Threads, Msgs
<1>3. ASSUME NEW t \in Threads, FinishCall(t) PROVE TypeOK'
  <2>1. CASE TestRoomInternal(t)
    BY <2>1 DEF TestRoomInternal, queue, thread, device
  <2>2. CASE TestRoomPeer(t)
    BY <2>2 DEF TestRoomPeer, queue, thread, device
  <2>3. CASE Insert(t)
    BY <2>3 DEF Insert, InsertEntry, Inc, NumInc, Slots, thread, device
  <2>4. CASE Wake(t)
    BY <2>4 DEF Wake, SemaUp, queue, device
  <2> QED
    BY <1>3, <2>1, <2>2, <2>3, <2>4 DEF FinishCall
<1>4. CASE PeriodicWake
  BY <1>4 DEF PeriodicWake, SemaUp, queue, calls, device
<1>5. CASE MlmeThread
  BY <1>5 DEF MlmeThread, queue, calls, device
<1>6. CASE MlmeHandler
  <2>1. CASE MlmeQueueEmpty
    BY <2>1 DEF MlmeQueueEmpty, queue, calls, device
  <2>2. CASE TestFlags
    BY <2>2 DEF TestFlags, queue, calls, device
  <2>3. CASE MlmeDequeue
    BY <2>3 DEF MlmeDequeue, Inc, NumDec, Slots, calls, device
  <2>4. CASE FreeElem
    BY <2>4 DEF FreeElem, calls, device
  <2> QED
    BY <1>6, <2>1, <2>2, <2>3, <2>4 DEF MlmeHandler
<1>7. ASSUME NEW f \in {"SUSPEND", "PM_SUSPEND"}, Suspend(f) \/ Resume(f)
      PROVE  TypeOK'
  BY <1>7 DEF Suspend, Resume, queue, calls, thread
<1>8. CASE Close
  <2>1. CASE SetHalt
    BY <2>1 DEF SetHalt, queue, calls, thread
  <2>2. CASE MlmeQueueDestroy
    BY <2>2 DEF MlmeQueueDestroy, Slots, calls, thread
  <2>3. CASE TasksExit
    BY <2>3 DEF TasksExit, queue, calls
  <2>4. CASE MlmeInit
    <3>1. EmptyEntry \in [Slots -> Msgs \cup {NoMsg}]
      BY DEF EmptyEntry
    <3> QED
      BY <2>4, <3>1 DEF MlmeInit, Slots, calls, thread
  <2> QED
    BY <1>8, <2>1, <2>2, <2>3, <2>4 DEF Close
<1>9. CASE UNCHANGED vars
  BY <1>9 DEF vars, queue, calls, thread, device
<1> QED
  BY <1>2, <1>3, <1>4, <1>5, <1>6, <1>7, <1>8, <1>9 DEF Next

\* Every variable keeps its type under every action, whatever the bounds.
THEOREM TypeCorrect == Spec => []TypeOK
  BY TypeInit, TypeStep, PTL DEF Spec

-----------------------------------------------------------------------------
(* Facts about the sets the accounting counts. *)

LEMMA SlotsFinite == ASSUME NEW S \in SUBSET Slots
                     PROVE  IsFiniteSet(S) /\ Cardinality(S) \in Nat
<1>1. 0 \in Int /\ N - 1 \in Int
  BY QueueAssumption
<1>2. IsFiniteSet(Slots)
  BY <1>1, FS_Interval DEF Slots
<1> QED
  BY <1>2, FS_Subset, FS_CardinalityType

LEMMA ThreadsFinite ==
  /\ \A S \in SUBSET Senders : IsFiniteSet(S) /\ Cardinality(S) \in Nat
  /\ \A S \in SUBSET Receivers :
        /\ IsFiniteSet(S) /\ Cardinality(S) \in Nat
        /\ Cardinality(S) <= Cardinality(Receivers)
  BY ThreadAssumption, FS_Subset, FS_CardinalityType

\* Adding or removing one element moves a count by one.
LEMMA AddOne ==
  ASSUME NEW S, IsFiniteSet(S), NEW x, x \notin S
  PROVE  Cardinality(S \cup {x}) = Cardinality(S) + 1
  BY FS_AddElement

LEMMA RemoveOne ==
  ASSUME NEW S, IsFiniteSet(S), NEW x, x \in S
  PROVE  Cardinality(S \ {x}) = Cardinality(S) - 1
  BY FS_RemoveElement

\* All the sets of the invariant are finite, in this state and in the next.
LEMMA Counts ==
  /\ IsFiniteSet(QueuedInternal) /\ Cardinality(QueuedInternal) \in Nat
  /\ IsFiniteSet(Sending) /\ Cardinality(Sending) \in Nat
  /\ IsFiniteSet(InRoom) /\ Cardinality(InRoom) \in Nat
  /\ Cardinality(InRoom) <= Cardinality(Receivers)
  /\ Cardinality(Receivers) \in Nat
<1>1. QueuedInternal \in SUBSET Slots
  BY DEF QueuedInternal, Queued
<1>2. Sending \in SUBSET Senders /\ InRoom \in SUBSET Receivers
  BY DEF Sending, InRoom
<1>3. Receivers \in SUBSET Receivers
  OBVIOUS
<1> QED
  BY <1>1, <1>2, <1>3, SlotsFinite, ThreadsFinite

\* A context about to insert finds two free slots: one for its message and
\* the one the MLME thread may still be working on.
LEMMA RoomLeft ==
  ASSUME Provisioned, IInv, Live, NEW t \in Threads,
         pc[t] = "room" \/ (t \in Senders /\ pc[t] = "flagged")
  PROVE  Num <= N - 2
<1> USE QueueAssumption, HalfBounds, Counts DEF IInv, TypeOK, BudgetInv, Provisioned
<1>1. CASE t \in Senders
  <2>1. t \in Sending
    BY <1>1 DEF Sending
  <2>2. Cardinality(Sending) >= 1
    BY <2>1, FS_EmptySet
  <2> QED
    BY <2>2
<1>2. CASE t \in Receivers /\ pc[t] = "room"
  <2>1. t \in InRoom
    BY <1>2 DEF InRoom
  <2>2. Cardinality(InRoom) >= 1
    BY <2>1, FS_EmptySet
  <2> QED
    BY <2>2
<1> QED
  BY <1>1, <1>2 DEF Threads

\* What an insertion does to the set of queued slots ...
LEMMA InsertQueued ==
  ASSUME TypeOK, Live, RingInv, Num <= N - 2, NEW m \in Msgs, InsertEntry(m)
  PROVE  /\ QTail \notin Queued /\ Queued' = Queued \cup {QTail}
         /\ Num' = Num + 1 /\ CountsAgree'
         /\ \A i \in Slots : InQueue(i)' => Entry'[i] # NoMsg
<1> USE QueueAssumption DEF TypeOK, RingInv, CountsAgree, Slots
<1>1. Num' = Num + 1
  BY DEF InsertEntry, NumInc
<1>2. QTail' = Inc(QTail) /\ QHead' = QHead
  BY DEF InsertEntry
<1>3. ~InQueue(QTail)
  BY DEF InQueue
<1>4. \A i \in Slots : InQueue(i)' <=> InQueue(i) \/ i = QTail
  BY <1>1, <1>2 DEF InQueue, Inc
<1>5. CountsAgree'
  BY <1>1, <1>2 DEF Inc
<1>6. \A i \in Slots : InQueue(i)' => Entry'[i] # NoMsg
  BY <1>4, MsgAssumption DEF InsertEntry, Occupied
<1> QED
  BY <1>1, <1>3, <1>4, <1>5, <1>6 DEF Queued

\* ... and what taking a message out does.
LEMMA DequeueQueued ==
  ASSUME TypeOK, Live, RingInv, Num > 0, MlmeDequeue
  PROVE  /\ QHead \in Queued /\ Queued' = Queued \ {QHead}
         /\ Num' = Num - 1 /\ CountsAgree'
<1> USE QueueAssumption DEF TypeOK, RingInv, CountsAgree, Slots
<1>1. Num' = Num - 1
  BY DEF MlmeDequeue, NumDec
<1>2. QHead' = Inc(QHead) /\ QTail' = QTail
  BY DEF MlmeDequeue
<1>3. InQueue(QHead)
  BY DEF InQueue
<1>4. \A i \in Slots : InQueue(i)' <=> InQueue(i) /\ i # QHead
  BY <1>1, <1>2 DEF InQueue, Inc
<1>5. CountsAgree'
  BY <1>1, <1>2 DEF Inc
<1> QED
  BY <1>1, <1>3, <1>4, <1>5 DEF Queued

\* Steps that leave the queue and the calls alone keep the counts.
LEMMA QueueFrame ==
  ASSUME UNCHANGED queue
  PROVE  /\ Queued' = Queued /\ QueuedInternal' = QueuedInternal
         /\ CountsAgree' <=> CountsAgree
         /\ Num' = Num /\ QHead' = QHead /\ QTail' = QTail /\ Entry' = Entry
  BY DEF queue, Queued, QueuedInternal, InQueue, CountsAgree

LEMMA CallsFrame ==
  ASSUME UNCHANGED pc
  PROVE  Sending' = Sending /\ InRoom' = InRoom
  BY DEF Sending, InRoom

-----------------------------------------------------------------------------
(* The inductive invariant. *)

LEMMA InvInit == ASSUME Provisioned PROVE Init => IInv
<1> SUFFICES ASSUME Init PROVE IInv
  OBVIOUS
<1>1. TypeOK
  BY TypeInit
<1>2. Queued = {} /\ QueuedInternal = {} /\ Sending = {} /\ InRoom = {}
  BY QueueAssumption
  DEF Init, Queued, QueuedInternal, InQueue, Sending, InRoom, Threads
<1>3. RingInv /\ HandlerInv /\ CallInv /\ CloseInv
  BY QueueAssumption
  DEF Init, RingInv, HandlerInv, CallInv, CloseInv, CountsAgree, InQueue, Slots
<1>4. BudgetInv
  BY <1>2, FS_EmptySet, HalfBounds, Counts, QueueAssumption
  DEF BudgetInv, Init
<1> QED
  BY <1>1, <1>3, <1>4 DEF IInv

\* A call begins: only an internal one is counted.
LEMMA StartStep ==
  ASSUME Provisioned, IInv, Send PROVE CallInv' /\ CloseInv' /\ RingInv'
                                      /\ HandlerInv' /\ BudgetInv'
<1>1. PICK t \in Threads, m \in Msgs :
        /\ EnqueueStart(t, m)
        /\ m \in IF t \in Senders THEN InternalMsgs ELSE PeerMsgs
        /\ t \in Senders => InternalCredit
  BY ThreadAssumption
  DEF Send, MlmeEnqueue, MlmeEnqueueForRecv, Threads, Msgs
<1> USE <1>1 DEF IInv
<1>2. UNCHANGED <<queue, thread, device>>
  BY DEF EnqueueStart
<1>3. QueuedInternal' = QueuedInternal /\ Num' = Num /\ Queued' = Queued
  BY <1>2, QueueFrame
<1>4. Live' = Live /\ life # "down" /\ life' = life
  BY <1>2 DEF Live, device, EnqueueStart
<1>5. CallInv'
  BY DEF CallInv, EnqueueStart, TypeOK
<1>6. CloseInv' /\ RingInv' /\ HandlerInv'
  BY <1>2, <1>4
  DEF CloseInv, RingInv, HandlerInv, CountsAgree, InQueue, Occupied,
      queue, thread, device
<1>7. InRoom' = InRoom
  BY DEF EnqueueStart, InRoom, TypeOK
<1>8. Sending' = IF t \in Senders THEN Sending \cup {t} ELSE Sending
  BY DEF EnqueueStart, Sending, TypeOK
<1>9. t \in Senders => t \notin Sending
  BY DEF EnqueueStart, Sending
<1>10. BudgetInv'
  <2>1. CASE t \in Senders
    <3>1. Sending' = Sending \cup {t} /\ t \notin Sending
      BY <1>8, <1>9, <2>1
    <3>2. Cardinality(Sending') = Cardinality(Sending) + 1
      BY <3>1, Counts, AddOne
    <3>3. Cardinality(QueuedInternal) + Cardinality(Sending) < InternalLimit
      BY <1>1, <2>1 DEF InternalCredit
    <3> QED
      BY <1>3, <1>4, <1>7, <3>2, <3>3, Counts, QueueAssumption DEF BudgetInv
  <2>2. CASE t \notin Senders
    BY <1>3, <1>4, <1>7, <1>8, <2>2 DEF BudgetInv
  <2> QED
    BY <2>1, <2>2
<1> QED
  BY <1>5, <1>6, <1>10

\* The test for room: a receiver that passes found less than half of the
\* queue in use, and its slot is counted from here on.
LEMMA TestRoomStep ==
  ASSUME Provisioned, IInv, NEW t \in Threads,
         TestRoomInternal(t) \/ TestRoomPeer(t)
  PROVE  CallInv' /\ CloseInv' /\ RingInv' /\ HandlerInv' /\ BudgetInv'
<1> USE DEF IInv
<1>1. UNCHANGED <<queue, arg, thread, device>>
  BY DEF TestRoomInternal, TestRoomPeer
<1>2. QueuedInternal' = QueuedInternal /\ Num' = Num
  BY <1>1, QueueFrame
<1>3. Live' = Live /\ life' = life /\ Flags' = Flags /\ hpc' = hpc
  BY <1>1 DEF Live, device, thread
<1>4. CallInv' /\ CloseInv'
  BY <1>1, <1>3 DEF CallInv, CloseInv, TestRoomInternal, TestRoomPeer, TypeOK
<1>5. RingInv' /\ HandlerInv'
  BY <1>1, <1>3
  DEF RingInv, HandlerInv, CountsAgree, InQueue, Occupied, queue, thread
<1>6. CASE TestRoomInternal(t)
  <2>1. Sending' \in SUBSET Sending /\ InRoom' = InRoom
    BY <1>6, ThreadAssumption DEF TestRoomInternal, Sending, InRoom, TypeOK
  <2>2. Cardinality(Sending') <= Cardinality(Sending) /\ Cardinality(Sending') \in Nat
    BY <2>1, Counts, FS_Subset, FS_CardinalityType
  <2>3. BudgetInv'
    BY <1>2, <1>3, <2>1, <2>2, Counts, QueueAssumption DEF BudgetInv
  <2> QED
    BY <1>4, <1>5, <2>3
<1>7. CASE TestRoomPeer(t)
  <2>1. Sending' = Sending
    BY <1>7, ThreadAssumption DEF TestRoomPeer, Sending, TypeOK
  <2>2. CASE MlmeQueueFull(0)
    <3>1. InRoom' = InRoom
      BY <1>7, <2>2 DEF TestRoomPeer, InRoom, TypeOK
    <3>2. BudgetInv'
      BY <1>2, <1>3, <2>1, <3>1 DEF BudgetInv
    <3> QED
      BY <1>4, <1>5, <3>2
  <2>3. CASE ~MlmeQueueFull(0)
    <3>1. InRoom' \in SUBSET Receivers
      BY DEF InRoom
    <3>2. Cardinality(InRoom') <= Cardinality(Receivers) /\ Cardinality(InRoom') \in Nat
      BY <3>1, ThreadsFinite
    <3>3. Num <= Half - 1
      BY <2>3, HalfBounds DEF MlmeQueueFull, Half, TypeOK
    <3>4. BudgetInv'
      BY <1>2, <1>3, <2>1, <3>2, <3>3, Counts, HalfBounds, QueueAssumption
      DEF BudgetInv, TypeOK
    <3> QED
      BY <1>4, <1>5, <3>4
  <2> QED
    BY <2>2, <2>3
<1> QED
  BY <1>6, <1>7

\* The insertion: the slot is outside the queue and not the one in service.
LEMMA InsertStep ==
  ASSUME Provisioned, IInv, NEW t \in Threads, Insert(t)
  PROVE  CallInv' /\ CloseInv' /\ RingInv' /\ HandlerInv' /\ BudgetInv'
<1> USE DEF IInv
<1>1. /\ pc[t] = "room" /\ InsertEntry(arg[t]) /\ UNCHANGED <<arg, thread, device>>
      /\ pc' = [pc EXCEPT ![t] = IF t = MlmeTask THEN "idle" ELSE "wake"]
  BY DEF Insert
<1>2. /\ Live' = Live /\ life' = life /\ Flags' = Flags
      /\ hpc' = hpc /\ Elem' = Elem
  BY <1>1 DEF Live, device, thread
<1>3. arg[t] \in IF t \in Senders THEN InternalMsgs ELSE PeerMsgs
  BY <1>1 DEF CallInv
<1>4. CallInv' /\ CloseInv'
  BY <1>1, <1>2 DEF CallInv, CloseInv, TypeOK
<1>5. CASE ~Live
  BY <1>2, <1>4, <1>5 DEF RingInv, HandlerInv, BudgetInv
<1>6. CASE Live
  <2>1. Num <= N - 2
    BY <1>1, <1>6, RoomLeft
  <2>2. arg[t] \in Msgs
    BY <1>3 DEF Msgs
  <2>3. /\ QTail \notin Queued /\ Queued' = Queued \cup {QTail}
        /\ Num' = Num + 1 /\ CountsAgree'
        /\ \A i \in Slots : InQueue(i)' => Entry'[i] # NoMsg
    BY <1>1, <1>6, <2>1, <2>2, InsertQueued
  <2>4. RingInv'
    BY <2>1, <2>3, QueueAssumption DEF RingInv, Occupied, TypeOK
  <2>5. HandlerInv'
    <3>1. hpc = "service" => Elem # QTail
      BY <1>6, <2>1, QueueAssumption
      DEF HandlerInv, RingInv, CountsAgree, Inc, TypeOK, Slots
    <3>2. Entry'[Elem] = IF Elem = QTail THEN arg[t] ELSE Entry[Elem]
      BY <1>1 DEF InsertEntry, TypeOK
    <3> QED
      BY <1>1, <1>2, <1>6, <2>3, <3>1, <3>2, QueueAssumption
      DEF HandlerInv, Occupied, InsertEntry, Inc, TypeOK
  <2>6. \A i \in Queued : Entry'[i] = Entry[i]
    BY <1>1, <2>3 DEF InsertEntry, TypeOK, Queued
  <2>7. Entry'[QTail] = arg[t]
    BY <1>1 DEF InsertEntry, TypeOK
  <2>8. CASE t \in Senders
    <3>1. QueuedInternal' = QueuedInternal \cup {QTail} /\ QTail \notin QueuedInternal
      BY <1>3, <2>3, <2>6, <2>7, <2>8 DEF QueuedInternal
    <3>2. Sending' = Sending \ {t} /\ t \in Sending
      BY <1>1, <2>8 DEF Sending, TypeOK
    <3>3. InRoom' = InRoom
      BY <1>1, <2>8, ThreadAssumption DEF InRoom, TypeOK
    <3>4. /\ Cardinality(QueuedInternal') = Cardinality(QueuedInternal) + 1
          /\ Cardinality(Sending') = Cardinality(Sending) - 1
      BY <3>1, <3>2, Counts, AddOne, RemoveOne
    <3>5. BudgetInv'
      BY <1>6, <2>3, <3>3, <3>4, Counts, HalfBounds, QueueAssumption
      DEF BudgetInv, TypeOK
    <3> QED
      BY <1>4, <2>4, <2>5, <3>5
  <2>9. CASE t \in Receivers
    <3>1. QueuedInternal' = QueuedInternal
      BY <1>3, <2>3, <2>6, <2>7, <2>9, ThreadAssumption, MsgAssumption
      DEF QueuedInternal
    <3>2. InRoom' = InRoom \ {t} /\ t \in InRoom
      BY <1>1, <2>9 DEF InRoom, TypeOK
    <3>3. Sending' = Sending
      BY <1>1, <2>9, ThreadAssumption DEF Sending, TypeOK
    <3>4. Cardinality(InRoom') = Cardinality(InRoom) - 1
      BY <3>2, Counts, RemoveOne
    <3>5. BudgetInv'
      BY <1>6, <2>3, <3>1, <3>3, <3>4, Counts, HalfBounds, QueueAssumption
      DEF BudgetInv, TypeOK
    <3> QED
      BY <1>4, <2>4, <2>5, <3>5
  <2> QED
    BY <2>8, <2>9 DEF Threads
<1> QED
  BY <1>5, <1>6

\* The dequeue: only the MLME thread takes messages out, so what it saw when
\* it tested Num is still there.
LEMMA DequeueStep ==
  ASSUME Provisioned, IInv, MlmeDequeue
  PROVE  CallInv' /\ CloseInv' /\ RingInv' /\ HandlerInv' /\ BudgetInv'
<1> USE DEF IInv
<1>1. /\ hpc = "dequeue" /\ hpc' = "service" /\ Elem' = QHead
      /\ QHead' = Inc(QHead) /\ Entry' = Entry /\ UNCHANGED <<calls, device>>
  BY DEF MlmeDequeue
<1>2. Live' = Live /\ life' = life /\ Flags' = Flags /\ pc' = pc /\ arg' = arg
  BY <1>1 DEF Live, device, calls
<1>3. CallInv' /\ CloseInv'
  BY <1>1, <1>2 DEF CallInv, CloseInv
<1>4. CASE ~Live
  BY <1>2, <1>3, <1>4 DEF RingInv, HandlerInv, BudgetInv
<1>5. CASE Live
  <2>1. Num > 0
    BY <1>1, <1>5 DEF HandlerInv
  <2>2. /\ QHead \in Queued /\ Queued' = Queued \ {QHead}
        /\ Num' = Num - 1 /\ CountsAgree'
    BY <1>5, <2>1, DequeueQueued
  <2>3. \A i \in Slots : InQueue(i)' => InQueue(i)
    BY <2>2 DEF Queued
  <2>4. RingInv'
    BY <1>1, <1>5, <2>2, <2>3, QueueAssumption DEF RingInv, Occupied, TypeOK
  <2>5. HandlerInv'
    BY <1>1, <1>5, <2>2, QueueAssumption
    DEF HandlerInv, RingInv, Occupied, Queued
  <2>6. Sending' = Sending /\ InRoom' = InRoom
    BY <1>2, CallsFrame
  <2>7. CASE QHead \in QueuedInternal
    <3>1. QueuedInternal' = QueuedInternal \ {QHead}
      BY <1>1, <2>2 DEF QueuedInternal
    <3>2. Cardinality(QueuedInternal') = Cardinality(QueuedInternal) - 1
      BY <2>7, <3>1, Counts, RemoveOne
    <3>3. BudgetInv'
      BY <1>5, <2>2, <2>6, <3>2, Counts, HalfBounds, QueueAssumption
      DEF BudgetInv, TypeOK
    <3> QED
      BY <1>3, <2>4, <2>5, <3>3
  <2>8. CASE QHead \notin QueuedInternal
    <3>1. QueuedInternal' = QueuedInternal
      BY <1>1, <2>2, <2>8 DEF QueuedInternal
    <3>2. BudgetInv'
      BY <1>5, <2>2, <2>6, <3>1, Counts, HalfBounds, QueueAssumption
      DEF BudgetInv, TypeOK
    <3> QED
      BY <1>3, <2>4, <2>5, <3>2
  <2> QED
    BY <2>7, <2>8
<1> QED
  BY <1>4, <1>5

\* The free: the slot is outside the queue, so nothing queued is cleared.
LEMMA FreeStep ==
  ASSUME Provisioned, IInv, FreeElem
  PROVE  CallInv' /\ CloseInv' /\ RingInv' /\ HandlerInv' /\ BudgetInv'
<1> USE DEF IInv
<1>1. /\ hpc = "service" /\ hpc' = "empty?"
      /\ Entry' = [Entry EXCEPT ![Elem] = NoMsg]
      /\ Num' = Num /\ QHead' = QHead /\ QTail' = QTail
      /\ UNCHANGED <<calls, device>>
  BY DEF FreeElem
<1>2. Live' = Live /\ life' = life /\ Flags' = Flags /\ pc' = pc /\ arg' = arg
  BY <1>1 DEF Live, device, calls
<1>3. CallInv' /\ CloseInv'
  BY <1>1, <1>2 DEF CallInv, CloseInv
<1>4. CASE ~Live
  BY <1>2, <1>3, <1>4 DEF RingInv, HandlerInv, BudgetInv
<1>5. CASE Live
  <2>1. ~InQueue(Elem)
    BY <1>1, <1>5, QueueAssumption
    DEF HandlerInv, RingInv, CountsAgree, InQueue, Inc, TypeOK, Slots
  <2>2. \A i \in Slots : InQueue(i)' <=> InQueue(i)
    BY <1>1 DEF InQueue
  <2>3. \A i \in Slots : InQueue(i) => Entry'[i] = Entry[i]
    BY <1>1, <2>1 DEF TypeOK
  <2>4. RingInv'
    BY <1>1, <1>5, <2>2, <2>3 DEF RingInv, CountsAgree, Occupied
  <2>5. HandlerInv'
    BY <1>1 DEF HandlerInv
  <2>6. Sending' = Sending /\ InRoom' = InRoom
    BY <1>2, CallsFrame
  <2>7. QueuedInternal' = QueuedInternal
    BY <2>2, <2>3 DEF QueuedInternal, Queued
  <2>8. BudgetInv'
    BY <1>1, <1>5, <2>6, <2>7 DEF BudgetInv
  <2> QED
    BY <1>3, <2>4, <2>5, <2>8
<1> QED
  BY <1>4, <1>5

\* Wake-ups, the handler's two tests and the suspend flags leave the queue
\* and the accounting alone.
LEMMA FrameStep ==
  ASSUME Provisioned, IInv, UNCHANGED <<queue, arg, Elem, life>>,
         \/ pc' = pc
         \/ \E t \in Threads : pc[t] = "wake" /\ pc' = [pc EXCEPT ![t] = "idle"],
         \/ hpc' = hpc
         \/ hpc' \in {"wait", "empty?"} /\ life # "down"
         \/ hpc = "empty?" /\ hpc' = "flags?" /\ Num # 0
         \/ hpc = "flags?" /\ hpc' = "dequeue"
  PROVE  CallInv' /\ CloseInv' /\ RingInv' /\ HandlerInv' /\ BudgetInv'
<1> USE DEF IInv
<1>1. QueuedInternal' = QueuedInternal /\ Num' = Num /\ Live' = Live
  BY QueueFrame DEF Live
<1>2. Sending' = Sending /\ InRoom' = InRoom
  BY ThreadAssumption DEF Sending, InRoom, TypeOK, Threads
<1>3. CallInv'
  BY DEF CallInv, TypeOK
<1>4. CloseInv'
  BY DEF CloseInv, TypeOK
<1>5. RingInv'
  BY <1>1 DEF RingInv, CountsAgree, InQueue, Occupied, queue
<1>6. HandlerInv'
  BY <1>1, QueueAssumption DEF HandlerInv, Occupied, queue, TypeOK
<1>7. BudgetInv'
  BY <1>1, <1>2 DEF BudgetInv
<1> QED
  BY <1>3, <1>4, <1>5, <1>6, <1>7

\* Closing lifts every obligation; opening starts from an empty queue, with
\* every context outside its calls.
LEMMA CloseStep ==
  ASSUME Provisioned, IInv, Close
  PROVE  CallInv' /\ CloseInv' /\ RingInv' /\ HandlerInv' /\ BudgetInv'
<1> USE DEF IInv
<1>1. CASE SetHalt
  <2>1. UNCHANGED <<queue, calls, thread>> /\ life' = "halting" /\ life = "up"
        /\ Flags' = Flags \cup {"HALT"}
    BY <1>1 DEF SetHalt
  <2>2. QueuedInternal' = QueuedInternal /\ Num' = Num /\ Live' /\ Live
    BY <2>1, QueueFrame DEF Live
  <2>3. Sending' = Sending /\ InRoom' = InRoom
    BY <2>1, CallsFrame DEF calls
  <2>4. CallInv' /\ CloseInv'
    BY <2>1 DEF CallInv, CloseInv, calls
  <2>5. RingInv' /\ HandlerInv'
    BY <2>1, <2>2
    DEF RingInv, HandlerInv, CountsAgree, InQueue, Occupied, queue, thread
  <2>6. BudgetInv'
    BY <2>2, <2>3 DEF BudgetInv
  <2> QED
    BY <2>4, <2>5, <2>6
<1>2. CASE MlmeQueueDestroy \/ TasksExit
  <2>1. life' \in {"destroyed", "down"} /\ ~Live' /\ UNCHANGED <<calls, hpc>>
    BY <1>2 DEF MlmeQueueDestroy, TasksExit, Live, thread
  <2>2. CallInv' /\ CloseInv'
    BY <1>2, <2>1
    DEF CallInv, CloseInv, calls, MlmeQueueDestroy, TasksExit
  <2> QED
    BY <2>1, <2>2 DEF RingInv, HandlerInv, BudgetInv
<1>3. CASE MlmeInit
  <2>1. /\ Num' = 0 /\ QHead' = 0 /\ QTail' = 0 /\ life' = "up"
        /\ hpc' = "wait" /\ pc' = pc /\ arg' = arg
        /\ \A t \in Threads : pc[t] = "idle"
    BY <1>3 DEF MlmeInit, CloseInv, calls, thread
  <2>2. CallInv' /\ CloseInv'
    BY <2>1 DEF CallInv, CloseInv
  <2>3. \A i \in Slots : ~InQueue(i)'
    BY <2>1, QueueAssumption DEF InQueue, Slots
  <2>4. RingInv' /\ HandlerInv'
    BY <2>1, <2>3, QueueAssumption DEF RingInv, HandlerInv, CountsAgree
  <2>5. QueuedInternal' = {} /\ Sending' = {} /\ InRoom' = {}
    BY <2>1, <2>3 DEF QueuedInternal, Queued, Sending, InRoom, Threads
  <2>6. BudgetInv'
    BY <2>1, <2>5, FS_EmptySet, HalfBounds, Counts, QueueAssumption DEF BudgetInv
  <2> QED
    BY <2>2, <2>4, <2>6
<1> QED
  BY <1>1, <1>2, <1>3 DEF Close

LEMMA InvStep == ASSUME Provisioned PROVE IInv /\ [Next]_vars => IInv'
<1> SUFFICES ASSUME IInv, [Next]_vars
             PROVE  CallInv' /\ CloseInv' /\ RingInv' /\ HandlerInv' /\ BudgetInv'
  BY TypeStep DEF IInv
<1>1. CASE Send
  BY <1>1, StartStep
<1>2. ASSUME NEW t \in Threads, FinishCall(t)
      PROVE  CallInv' /\ CloseInv' /\ RingInv' /\ HandlerInv' /\ BudgetInv'
  <2>1. CASE TestRoomInternal(t) \/ TestRoomPeer(t)
    BY <2>1, TestRoomStep
  <2>2. CASE Insert(t)
    BY <2>2, InsertStep
  <2>3. CASE Wake(t)
    <3>1. UNCHANGED <<queue, arg, Elem, life>> /\ hpc' = hpc
      BY <2>3 DEF Wake, device
    <3>2. \E u \in Threads : pc[u] = "wake" /\ pc' = [pc EXCEPT ![u] = "idle"]
      BY <2>3 DEF Wake
    <3> QED
      BY <3>1, <3>2, FrameStep
  <2> QED
    BY <1>2, <2>1, <2>2, <2>3 DEF FinishCall
<1>3. CASE PeriodicWake
  <2>1. UNCHANGED <<queue, arg, Elem, life>> /\ hpc' = hpc /\ pc' = pc
    BY <1>3 DEF PeriodicWake, calls, device
  <2> QED
    BY <2>1, FrameStep
<1>4. CASE MlmeThread
  BY <1>4, FrameStep DEF MlmeThread, calls, device
<1>5. CASE MlmeHandler
  <2>1. CASE MlmeQueueEmpty
    <3>1. life # "down"
      BY <2>1 DEF MlmeQueueEmpty, IInv, CloseInv
    <3> QED
      BY <2>1, <3>1, FrameStep DEF MlmeQueueEmpty, calls, device
  <2>2. CASE TestFlags
    <3>1. life # "down"
      BY <2>2 DEF TestFlags, IInv, CloseInv
    <3> QED
      BY <2>2, <3>1, FrameStep DEF TestFlags, calls, device
  <2>3. CASE MlmeDequeue
    BY <2>3, DequeueStep
  <2>4. CASE FreeElem
    BY <2>4, FreeStep
  <2> QED
    BY <1>5, <2>1, <2>2, <2>3, <2>4 DEF MlmeHandler
<1>6. ASSUME NEW f \in {"SUSPEND", "PM_SUSPEND"}, Suspend(f) \/ Resume(f)
      PROVE  CallInv' /\ CloseInv' /\ RingInv' /\ HandlerInv' /\ BudgetInv'
  BY <1>6, FrameStep DEF Suspend, Resume, calls, thread
<1>7. CASE Close
  BY <1>7, CloseStep
<1>8. CASE UNCHANGED vars
  <2>1. UNCHANGED <<queue, arg, Elem, life>> /\ hpc' = hpc /\ pc' = pc
    BY <1>8 DEF vars, calls, thread, device
  <2> QED
    BY <2>1, FrameStep
<1> QED
  BY <1>1, <1>2, <1>3, <1>4, <1>5, <1>6, <1>7, <1>8 DEF Next

THEOREM Invariance == ASSUME Provisioned PROVE Spec => []IInv
  BY InvInit, InvStep, PTL DEF Spec

-----------------------------------------------------------------------------
(* What follows from it. *)

\* Counter and indices agree and every queued slot holds its message, for any
\* interleaving of the two critical sections of the senders.
THEOREM RingIsConsistent == ASSUME Provisioned PROVE Spec => []RingShape
<1>1. IInv => RingShape
  BY DEF IInv, RingInv, RingShape, Queued
<1> QED
  BY <1>1, Invariance, PTL

\* The message MlmeHandler works on without the lock is never overwritten.
THEOREM ServiceSlotIsKept == ASSUME Provisioned PROVE Spec => []ServiceSlotKept
<1>1. ASSUME IInv PROVE ServiceSlotKept
  <2> SUFFICES ASSUME Live, hpc = "service" PROVE
        /\ Elem \notin Queued /\ Occupied(Elem)
        /\ (\E t \in Threads : pc[t] = "room") => QTail # Elem
    BY DEF ServiceSlotKept
  <2> USE <1>1, QueueAssumption
      DEF IInv, HandlerInv, RingInv, CountsAgree, Inc, TypeOK, Slots
  <2>1. Elem \notin Queued /\ Occupied(Elem)
    BY DEF Queued, InQueue
  <2>2. ASSUME NEW t \in Threads, pc[t] = "room" PROVE QTail # Elem
    <3>1. Num <= N - 2
      BY <2>2, RoomLeft
    <3> QED
      BY <3>1
  <2> QED
    BY <2>1, <2>2
<1> QED
  BY <1>1, Invariance, PTL

\* However many frames peers send, MlmeEnqueue does not find the queue full.
THEOREM InternalAlwaysFindsRoom ==
  ASSUME Provisioned PROVE Spec => []InternalFindsRoom
<1>1. IInv => InternalFindsRoom
  <2> SUFFICES ASSUME IInv, Live, NEW t \in Senders, pc[t] \in {"flagged", "room"}
               PROVE  Num + 1 < N
    BY DEF InternalFindsRoom
  <2>1. Num <= N - 2
    BY RoomLeft DEF Threads
  <2> QED
    BY <2>1, QueueAssumption DEF IInv, TypeOK
<1> QED
  BY <1>1, Invariance, PTL

-----------------------------------------------------------------------------
(* The queue implements the mailbox. *)

Box == IF Live THEN Contents ELSE <<>>
Cur == IF hpc = "service" THEN Entry[Elem] ELSE NoMsg

\* The k-th slot from QHead, which Contents writes with a remainder.
Place(k) == IF QHead + k <= N THEN QHead + k - 1 ELSE QHead + k - 1 - N

-----------------------------------------------------------------------------
(* What the steps on the ring do to the sequence of its messages. *)

LEMMA Remainder ==
  ASSUME NEW x \in Nat, x < 2 * N
  PROVE  x % N = IF x < N THEN x ELSE x - N
  BY QueueAssumption

LEMMA ContentsByPlace ==
  TypeOK /\ Num <= N - 1 =>
      /\ Contents = [k \in 1 .. Num |-> Entry[Place(k)]]
      /\ \A k \in 1 .. Num : Place(k) \in Slots
      /\ Contents \in Seq(Msgs \cup {NoMsg}) /\ Len(Contents) = Num
<1> SUFFICES ASSUME TypeOK, Num <= N - 1
             PROVE  /\ Contents = [k \in 1 .. Num |-> Entry[Place(k)]]
                    /\ \A k \in 1 .. Num : Place(k) \in Slots
                    /\ Contents \in Seq(Msgs \cup {NoMsg}) /\ Len(Contents) = Num
  OBVIOUS
<1> USE QueueAssumption DEF TypeOK, Slots
<1>1. \A k \in 1 .. Num : (QHead + k - 1) % N = Place(k) /\ Place(k) \in Slots
  <2> SUFFICES ASSUME NEW k \in 1 .. Num
               PROVE  (QHead + k - 1) % N = Place(k) /\ Place(k) \in Slots
    OBVIOUS
  <2> DEFINE x == QHead + k - 1
  <2>1. x \in Nat /\ x < 2 * N
    OBVIOUS
  <2>2. Place(k) = (IF x < N THEN x ELSE x - N) /\ Place(k) \in Slots
    BY DEF Place
  <2> HIDE DEF x
  <2>3. x % N = IF x < N THEN x ELSE x - N
    BY <2>1, Remainder
  <2>4. x % N = Place(k)
    BY <2>2, <2>3
  <2> QED
    BY <2>2, <2>4 DEF x
<1>2. Contents = [k \in 1 .. Num |-> Entry[Place(k)]]
  BY <1>1 DEF Contents
<1>3. \A k \in 1 .. Num : Entry[Place(k)] \in Msgs \cup {NoMsg}
  BY <1>1
<1>4. Num \in Nat
  OBVIOUS
<1>5. Contents \in Seq(Msgs \cup {NoMsg}) /\ Len(Contents) = Num
  BY <1>2, <1>3, <1>4
<1> QED
  BY <1>1, <1>2, <1>5

\* An insertion appends its message.
LEMMA InsertAppends ==
  ASSUME TypeOK, Live, RingInv, Num <= N - 2, NEW m \in Msgs, InsertEntry(m), TypeOK'
  PROVE  Contents' = Append(Contents, m)
<1> USE QueueAssumption DEF TypeOK, Slots
<1>1. Num' = Num + 1 /\ QHead' = QHead /\ Entry' = [Entry EXCEPT ![QTail] = m]
  BY InsertQueued DEF InsertEntry
<1>2. Num' <= N - 1
  BY <1>1
<1>3. Contents' = [k \in 1 .. Num + 1 |-> Entry'[Place(k)]]
  <2>1. \A k : Place(k)' = Place(k)
    BY <1>1 DEF Place
  <2>2. (TypeOK /\ Num <= N - 1 => Contents = [k \in 1 .. Num |-> Entry[Place(k)]])'
    BY ContentsByPlace, PTL
  <2>3. Contents' = [k \in 1 .. Num' |-> Entry'[Place(k)']]
    BY <1>2, <2>2
  <2> QED
    BY <1>1, <2>1, <2>3
<1>4. Place(Num + 1) = QTail
  BY DEF Place, RingInv, CountsAgree
<1>5. \A k \in 1 .. Num : Place(k) \in Slots /\ Place(k) # QTail
  BY DEF Place, RingInv, CountsAgree
<1>6. \A k \in 1 .. Num : Entry'[Place(k)] = Entry[Place(k)]
  BY <1>1, <1>5
<1>7. Entry'[QTail] = m
  BY <1>1
<1>8. /\ Contents = [k \in 1 .. Num |-> Entry[Place(k)]]
      /\ Contents \in Seq(Msgs \cup {NoMsg}) /\ Len(Contents) = Num
  BY ContentsByPlace
<1> QED
  BY <1>3, <1>4, <1>6, <1>7, <1>8

\* The next state's messages, when one more or one less is known to fit.
LEMMA NextContents ==
  ASSUME TypeOK', Num' <= N - 1
  PROVE  /\ Contents' = [k \in 1 .. Num' |-> Entry'[Place(k)']]
         /\ Len(Contents') = Num'
<1>1. (TypeOK /\ Num <= N - 1 =>
          /\ Contents = [k \in 1 .. Num |-> Entry[Place(k)]]
          /\ \A k \in 1 .. Num : Place(k) \in Slots
          /\ Contents \in Seq(Msgs \cup {NoMsg}) /\ Len(Contents) = Num)'
  BY ContentsByPlace, PTL
<1> QED
  BY <1>1

\* MlmeDequeue takes the oldest message.
LEMMA DequeueTakes ==
  ASSUME TypeOK, Live, RingInv, Num > 0, MlmeDequeue, TypeOK'
  PROVE  Contents # <<>> /\ Entry'[Elem'] = Head(Contents) /\ Contents' = Tail(Contents)
<1> USE QueueAssumption DEF TypeOK, Slots
<1>1. Num' = Num - 1 /\ QHead' = Inc(QHead) /\ Entry' = Entry /\ Elem' = QHead
  BY DequeueQueued DEF MlmeDequeue
<1>2. Num <= N - 1
  BY DEF RingInv
<1>3. /\ Contents = [k \in 1 .. Num |-> Entry[Place(k)]]
      /\ Contents \in Seq(Msgs \cup {NoMsg}) /\ Len(Contents) = Num
  BY <1>2, ContentsByPlace
<1>4. Contents' = [k \in 1 .. Num - 1 |-> Entry[Place(k)']]
  <2>1. Num' <= N - 1
    BY <1>1, <1>2
  <2> QED
    BY <1>1, <2>1, NextContents
<1>5. \A k \in 1 .. Num - 1 : Place(k)' = Place(k + 1)
  BY <1>1, <1>2 DEF Place, Inc
<1>6. Place(1) = QHead
  BY DEF Place
<1>7. Contents # <<>> /\ Entry'[Elem'] = Head(Contents)
  <2>1. 1 \in 1 .. Num
    OBVIOUS
  <2>2. Contents[1] = Entry[QHead]
    BY <1>3, <1>6, <2>1
  <2>3. Contents # <<>>
    <3>1. Len(Contents) # 0
      BY <1>3
    <3> QED
      BY <3>1, EmptySeq
  <2>4. Entry'[Elem'] = Entry[QHead]
    BY <1>1
  <2>5. Head(Contents) = Contents[1]
    OBVIOUS
  <2> QED
    BY <2>2, <2>3, <2>4, <2>5, Zenon
<1>8. Tail(Contents) = [k \in 1 .. Num - 1 |-> Contents[k + 1]]
  BY <1>3, <1>7
<1>9. \A k \in 1 .. Num - 1 : Contents[k + 1] = Entry[Place(k + 1)]
  BY <1>3
<1>10. Tail(Contents) = [k \in 1 .. Num - 1 |-> Entry[Place(k + 1)]]
  BY <1>8, <1>9
<1>11. Contents' = [k \in 1 .. Num - 1 |-> Entry[Place(k + 1)]]
  BY <1>4, <1>5
<1> QED
  BY <1>7, <1>10, <1>11

\* The slot the handler frees is not in the queue.
LEMMA FreeKeeps ==
  ASSUME TypeOK, Live, RingInv, HandlerInv, FreeElem, TypeOK'
  PROVE  Contents' = Contents
<1> USE QueueAssumption DEF TypeOK, Slots
<1>1. UNCHANGED <<Num, QHead>> /\ Entry' = [Entry EXCEPT ![Elem] = NoMsg]
  BY DEF FreeElem
<1>2. Num <= N - 1 /\ QHead = Inc(Elem)
  BY DEF RingInv, HandlerInv, FreeElem
<1>3. /\ Contents = [k \in 1 .. Num |-> Entry[Place(k)]]
      /\ Contents' = [k \in 1 .. Num |-> Entry'[Place(k)']]
  BY <1>1, <1>2, ContentsByPlace, NextContents
<1>4. \A k \in 1 .. Num : Place(k)' = Place(k) /\ Place(k) \in Slots /\ Place(k) # Elem
  BY <1>1, <1>2 DEF Place, Inc
<1>5. \A k \in 1 .. Num : Entry'[Place(k)'] = Entry[Place(k)]
  BY <1>1, <1>4
<1> QED
  BY <1>3, <1>5

-----------------------------------------------------------------------------
(* Every step is a step of the mailbox. *)

Stutter == UNCHANGED <<Box, Cur, Live>>

LEMMA MailboxStarts == Init => Mailbox!MailboxInit
<1> SUFFICES ASSUME Init PROVE Mailbox!MailboxInit
  OBVIOUS
<1>1. Num = 0 /\ Live /\ hpc = "wait"
  BY DEF Init, Live
<1>2. Contents = <<>>
  BY <1>1 DEF Contents
<1> QED
  BY <1>1, <1>2 DEF Mailbox!MailboxInit

\* Outside MlmeInit .. MlmeQueueDestroy nothing is promised.
LEMMA ClosedStep ==
  ASSUME ~Live, ~Live', TypeOK' PROVE Mailbox!Closed
  BY DEF Mailbox!Closed, TypeOK

\* Steps that touch neither the ring nor the slot in service.
LEMMA OtherStep ==
  ASSUME UNCHANGED queue, hpc' = "service" <=> hpc = "service", Elem' = Elem, Live' = Live
  PROVE  Stutter
  BY DEF Stutter, Box, Cur, queue, Contents

LEMMA InsertPuts ==
  ASSUME Provisioned, IInv, TypeOK', NEW t \in Threads, Insert(t), Live
  PROVE  Mailbox!Put(arg[t])
<1>1. Num <= N - 2 /\ arg[t] \in Msgs
  BY RoomLeft DEF Insert, IInv, CallInv, Msgs
<1>2. Contents' = Append(Contents, arg[t])
  BY <1>1, InsertAppends DEF IInv, Insert
<1>3. Live' /\ hpc' = hpc /\ Elem' = Elem
  BY DEF Insert, Live, thread, device
<1>4. hpc = "service" => Entry'[Elem] = Entry[Elem]
  <2>1. hpc = "service" => QTail # Elem
    BY <1>1, QueueAssumption
    DEF IInv, HandlerInv, RingInv, CountsAgree, Inc, TypeOK, Slots
  <2> QED
    BY <2>1 DEF Insert, InsertEntry, IInv, TypeOK
<1> QED
  BY <1>2, <1>3, <1>4 DEF Mailbox!Put

LEMMA DequeueIsTake ==
  ASSUME IInv, TypeOK', MlmeDequeue, Live PROVE Mailbox!Take
<1>1. Num > 0 /\ hpc # "service"
  BY DEF IInv, HandlerInv, MlmeDequeue
<1>2. Contents # <<>> /\ Entry'[Elem'] = Head(Contents) /\ Contents' = Tail(Contents)
  BY <1>1, DequeueTakes DEF IInv
<1>3. Live' /\ hpc' = "service"
  BY DEF MlmeDequeue, Live, device
<1> QED
  BY <1>1, <1>2, <1>3 DEF Mailbox!Take

LEMMA FreeIsDone ==
  ASSUME IInv, TypeOK', FreeElem, Live PROVE Mailbox!Done
<1>1. hpc = "service" /\ Entry[Elem] # NoMsg
  BY DEF IInv, HandlerInv, FreeElem, Occupied
<1>2. Contents' = Contents
  BY FreeKeeps DEF IInv
<1>3. Live' /\ hpc' # "service"
  BY DEF FreeElem, Live, device
<1> QED
  BY <1>1, <1>2, <1>3 DEF Mailbox!Done

LEMMA CloseIsStep ==
  ASSUME IInv, TypeOK', Close PROVE Mailbox!MailboxNext \/ Stutter
<1>1. CASE SetHalt
  BY <1>1, OtherStep DEF SetHalt, thread, Live
<1>2. CASE MlmeQueueDestroy
  <2>1. Live /\ ~Live' /\ hpc' = hpc /\ Elem' = Elem /\ Entry' = Entry
    BY <1>2 DEF MlmeQueueDestroy, Live, thread
  <2> QED
    BY <2>1 DEF Mailbox!MailboxNext, Mailbox!Close
<1>3. CASE TasksExit
  <2>1. ~Live /\ ~Live'
    BY <1>3 DEF TasksExit, Live
  <2> QED
    BY <2>1, ClosedStep DEF Mailbox!MailboxNext
<1>4. CASE MlmeInit
  <2>1. ~Live /\ Live' /\ hpc' # "service" /\ Num' = 0
    BY <1>4 DEF MlmeInit, Live, IInv, CloseInv, thread
  <2>2. Contents' = <<>>
    BY <2>1 DEF Contents
  <2> QED
    BY <2>1, <2>2 DEF Mailbox!MailboxNext, Mailbox!Open
<1> QED
  BY <1>1, <1>2, <1>3, <1>4 DEF Close

LEMMA EveryStep ==
  ASSUME Provisioned, IInv, TypeOK', [Next]_vars PROVE Mailbox!MailboxNext \/ Stutter
<1>1. CASE ~Live /\ ~Live'
  BY <1>1, ClosedStep DEF Mailbox!MailboxNext
<1>2. CASE Send
  <2>1. UNCHANGED <<queue, thread, device>>
    BY <1>2 DEF Send, MlmeEnqueue, MlmeEnqueueForRecv, EnqueueStart
  <2> QED
    BY <2>1, OtherStep DEF thread, device, Live
<1>3. ASSUME NEW t \in Threads, FinishCall(t)
      PROVE  Mailbox!MailboxNext \/ Stutter
  <2>1. CASE TestRoomInternal(t) \/ TestRoomPeer(t)
    BY <2>1, OtherStep DEF TestRoomInternal, TestRoomPeer, thread, device, Live
  <2>2. CASE Insert(t) /\ Live
    <3>1. arg[t] \in Msgs
      BY <2>2 DEF Insert, IInv, CallInv, Msgs
    <3> QED
      BY <2>2, <3>1, InsertPuts DEF Mailbox!MailboxNext
  <2>3. CASE Insert(t) /\ ~Live
    BY <2>3, <1>1 DEF Insert, device, Live
  <2>4. CASE Wake(t)
    BY <2>4, OtherStep DEF Wake, device, Live
  <2> QED
    BY <1>3, <2>1, <2>2, <2>3, <2>4 DEF FinishCall
<1>4. CASE PeriodicWake
  BY <1>4, OtherStep DEF PeriodicWake, device, Live
<1>5. CASE MlmeThread
  BY <1>5, OtherStep DEF MlmeThread, device, Live
<1>6. CASE MlmeHandler
  <2>1. UNCHANGED device
    BY <1>6 DEF MlmeHandler, MlmeQueueEmpty, TestFlags, MlmeDequeue, FreeElem
  <2>2. Live' = Live
    BY <2>1 DEF device, Live
  <2>3. CASE MlmeQueueEmpty
    BY <2>2, <2>3, OtherStep DEF MlmeQueueEmpty
  <2>4. CASE TestFlags
    BY <2>2, <2>4, OtherStep DEF TestFlags
  <2>5. CASE MlmeDequeue /\ Live
    BY <2>5, DequeueIsTake DEF Mailbox!MailboxNext
  <2>6. CASE FreeElem /\ Live
    BY <2>6, FreeIsDone DEF Mailbox!MailboxNext
  <2> QED
    BY <1>1, <1>6, <2>2, <2>3, <2>4, <2>5, <2>6 DEF MlmeHandler
<1>7. ASSUME NEW f \in {"SUSPEND", "PM_SUSPEND"}, Suspend(f) \/ Resume(f)
      PROVE  Mailbox!MailboxNext \/ Stutter
  BY <1>7, OtherStep DEF Suspend, Resume, thread, Live
<1>8. CASE Close
  BY <1>8, CloseIsStep
<1>9. CASE UNCHANGED vars
  BY <1>9, OtherStep DEF vars, thread, device, Live
<1> QED
  BY <1>2, <1>3, <1>4, <1>5, <1>6, <1>7, <1>8, <1>9 DEF Next

\* What the queue promises its users: however senders, receivers, the MLME thread,
\* suspension and closing interleave, accepted messages are handed over unchanged, in
\* order and each once.
THEOREM QueueImplementsMailbox ==
  ASSUME Provisioned PROVE Spec => ImplementsMailbox
<1>1. Init => Mailbox!MailboxInit
  BY MailboxStarts
<1>2. IInv /\ TypeOK' /\ [Next]_vars => [Mailbox!MailboxNext]_(Mailbox!mailboxVars)
  <2> SUFFICES ASSUME IInv, TypeOK', [Next]_vars
               PROVE  [Mailbox!MailboxNext]_(Mailbox!mailboxVars)
    OBVIOUS
  <2>1. Mailbox!MailboxNext \/ Stutter
    BY EveryStep
  <2>2. Stutter => UNCHANGED Mailbox!mailboxVars
    BY DEF Stutter, Box, Cur, Mailbox!mailboxVars
  <2> QED
    BY <2>1, <2>2
<1>3. IInv => TypeOK
  BY DEF IInv
<1> QED
  BY <1>1, <1>2, <1>3, Invariance, PTL DEF Spec, ImplementsMailbox, Mailbox!MailboxSpec
=============================================================================
