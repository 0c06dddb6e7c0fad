------------------------------ MODULE MlmeQueue ------------------------------
(***************************************************************************)
(* The MLME queue and the thread that drains it (common/mlme.c,            *)
(* os/linux/rt_usb.c).  Timer handlers, ioctls and the handlers of the     *)
(* MLME thread itself send with MlmeEnqueue; the receive tasklet sends the *)
(* peer's management frames with MlmeEnqueueForRecv.  Both test for room   *)
(* under the queue's lock, RELEASE it, and take it again to insert, so two *)
(* senders interleave between the two.  MlmeHandler takes a message out of *)
(* the queue but goes on using its slot until it has been handled.         *)
(*                                                                         *)
(* Abstracted: ATE mode, a message larger than MGMT_DMA_BUFFER_SIZE and a  *)
(* frame MsgTypeSubst refuses (they return before anything is changed);    *)
(* the fields of a message, which are one value here; a slot's Occupied    *)
(* and MsgLen, set and cleared together: a slot that is not occupied holds *)
(* NoMsg; bRunning, which no second caller of MlmeHandler ever tests.      *)
(***************************************************************************)
EXTENDS Integers, FiniteSets, Sequences

CONSTANTS
    MAX_LEN_OF_MLME_QUEUE,  \* slots of the queue: 40 in the driver
    ULONG_MAX,              \* largest value of the ULONG counter Num
    Senders,                \* contexts that call MlmeEnqueue
    MlmeTask,               \* the MLME thread, one of them
    Receivers,              \* contexts that call MlmeEnqueueForRecv
    InternalMsgs,           \* what MlmeEnqueue carries (requests, timeouts, confirms)
    PeerMsgs,               \* what MlmeEnqueueForRecv carries
    NoMsg,
    InternalLimit,          \* bound: internal messages in the queue or on their way to it
    SemaMax                 \* bound: pending wake-ups that are still told apart

N == MAX_LEN_OF_MLME_QUEUE
Slots == 0 .. N - 1
Threads == Senders \cup Receivers
Msgs == InternalMsgs \cup PeerMsgs

ASSUME QueueAssumption ==
    /\ N \in Nat /\ N >= 2
    /\ ULONG_MAX \in Nat /\ ULONG_MAX > 2 * N
    /\ InternalLimit \in Nat /\ SemaMax \in Nat /\ SemaMax >= 1
ASSUME ThreadAssumption ==
    /\ IsFiniteSet(Senders) /\ IsFiniteSet(Receivers)
    /\ Senders \cap Receivers = {} /\ MlmeTask \in Senders
ASSUME MsgAssumption ==
    InternalMsgs \cap PeerMsgs = {} /\ NoMsg \notin Msgs

VARIABLES
    Num, QHead, QTail,  \* MLME_QUEUE's counters
    Entry,            \* MLME_QUEUE's slots
    pc,               \* where each sender or receiver is in its call
    arg,              \* the message of that call
    hpc,              \* where the MLME thread is in MlmeHandler
    Elem,             \* the slot MlmeHandler is working on
    sema,             \* wake-ups the MLME thread has not consumed
    Flags,            \* HALT_IN_PROGRESS, SUSPEND and PM_FlgSuspend
    life              \* how far the interface has been closed

queue == <<Num, QHead, QTail, Entry>>
calls == <<pc, arg>>
thread == <<hpc, Elem, sema>>
device == <<Flags, life>>
vars == <<queue, calls, thread, device>>

Inc(i) == IF i + 1 = N THEN 0 ELSE i + 1

\* ULONG arithmetic on Num: both ends wrap.
NumInc(n) == IF n = ULONG_MAX THEN 0 ELSE n + 1
\* Mutant: MlmeDequeue forgets Num--.
NumDecForgotten(n) == n
NumDec(n) == IF n = 0 THEN ULONG_MAX ELSE n - 1

\* MlmeQueueInit.
EmptyEntry == [i \in Slots |-> NoMsg]
Occupied(i) == Entry[i] # NoMsg

Init == /\ Num = 0 /\ QHead = 0 /\ QTail = 0 /\ Entry = EmptyEntry
        /\ pc = [t \in Threads |-> "idle"]
        /\ arg = [t \in Threads |-> NoMsg]
        /\ hpc = "wait" /\ Elem = 0 /\ sema = 0
        /\ Flags = {} /\ life = "up"

-----------------------------------------------------------------------------
(* Sending. *)

\* The slots that hold messages not yet dequeued.
InQueue(i) == \/ QHead < QTail /\ QHead <= i /\ i < QTail
              \/ QTail < QHead /\ (QHead <= i \/ i < QTail)
              \/ QHead = QTail /\ Num > 0
Queued == {i \in Slots : InQueue(i)}
QueuedInternal == {i \in Queued : Entry[i] \in InternalMsgs}
Sending == {t \in Senders : pc[t] \in {"flagged", "room"}}

\* The environment's bound on internal messages (not a test of the code).
InternalCredit ==
    Cardinality(QueuedInternal) + Cardinality(Sending) < InternalLimit

\* MlmeEnqueue and MlmeEnqueueForRecv begin with the test of the halt flag.
EnqueueStart(t, m) ==
    /\ pc[t] = "idle" /\ life # "down"
    /\ "HALT" \notin Flags
    /\ pc' = [pc EXCEPT ![t] = "flagged"]
    /\ arg' = [arg EXCEPT ![t] = m]
    /\ UNCHANGED <<queue, thread, device>>

\* The MLME thread sends only from inside the handler of a message.
MlmeEnqueue(t, m) ==
    /\ InternalCredit
    /\ t = MlmeTask => hpc = "service"
    /\ EnqueueStart(t, m)

MlmeEnqueueForRecv(t, m) == EnqueueStart(t, m)

\* Mutants: receivers are not kept to half of the queue; or to one more.
FullOnlyAtMax(SendId) == Num = N
FullOverHalf(SendId) ==
    IF SendId = 0 THEN Num > N \div 2 \/ Occupied(QTail) ELSE Num = N

MlmeQueueFull(SendId) ==
    IF SendId = 0 THEN Num >= N \div 2 \/ Occupied(QTail)
                  ELSE Num = N

\* The test for room; a refused internal sender still wakes the MLME thread,
\* a refused receiver returns at once.
TestRoomInternal(t) ==
    /\ t \in Senders /\ pc[t] = "flagged"
    /\ pc' = [pc EXCEPT ![t] = IF ~MlmeQueueFull(1) THEN "room"
                               ELSE IF t = MlmeTask THEN "idle" ELSE "wake"]
    /\ UNCHANGED <<queue, arg, thread, device>>

TestRoomPeer(t) ==
    /\ t \in Receivers /\ pc[t] = "flagged"
    /\ pc' = [pc EXCEPT ![t] = IF MlmeQueueFull(0) THEN "idle" ELSE "room"]
    /\ UNCHANGED <<queue, arg, thread, device>>

\* Mutant: the slot is taken after the index has moved.
InsertAfterInc(m) ==
    /\ QTail' = Inc(QTail)
    /\ Num' = NumInc(Num)
    /\ Entry' = [Entry EXCEPT ![Inc(QTail)] = m]
    /\ UNCHANGED QHead

\* The second critical section of both: the message goes to the slot at QTail.
InsertEntry(m) ==
    /\ QTail' = Inc(QTail)
    /\ Num' = NumInc(Num)
    /\ Entry' = [Entry EXCEPT ![QTail] = m]
    /\ UNCHANGED QHead

Insert(t) ==
    /\ pc[t] = "room"
    /\ InsertEntry(arg[t])
    /\ pc' = [pc EXCEPT ![t] = IF t = MlmeTask THEN "idle" ELSE "wake"]
    /\ UNCHANGED <<arg, thread, device>>

SemaUp == sema' = IF sema < SemaMax THEN sema + 1 ELSE sema

\* RTMP_MLME_HANDLER: wake the MLME thread.
Wake(t) ==
    /\ pc[t] = "wake"
    /\ pc' = [pc EXCEPT ![t] = "idle"]
    /\ SemaUp
    /\ UNCHANGED <<queue, arg, hpc, Elem, device>>

\* Mutant: the periodic wake-up is left to the senders.
NoPeriodicWake == FALSE /\ UNCHANGED vars

\* MlmePeriodicExec ends by waking the MLME thread, unless the device halts.
PeriodicWake ==
    /\ "HALT" \notin Flags /\ life # "down"
    /\ SemaUp
    /\ UNCHANGED <<queue, calls, hpc, Elem, device>>

-----------------------------------------------------------------------------
(* The MLME thread. *)

\* A wake-up taken while PM_FlgSuspend is set is lost.
MlmeThread ==
    /\ hpc = "wait" /\ life # "down" /\ sema > 0
    /\ sema' = sema - 1
    /\ hpc' = IF "PM_SUSPEND" \in Flags THEN "wait" ELSE "empty?"
    /\ UNCHANGED <<queue, calls, Elem, device>>

MlmeQueueEmpty ==
    /\ hpc = "empty?"
    /\ hpc' = IF Num = 0 THEN "wait" ELSE "flags?"
    /\ UNCHANGED <<queue, calls, Elem, sema, device>>

TestFlags ==
    /\ hpc = "flags?"
    /\ hpc' = IF Flags \cap {"HALT", "SUSPEND"} # {} THEN "wait" ELSE "dequeue"
    /\ UNCHANGED <<queue, calls, Elem, sema, device>>

\* MlmeDequeue does not test Num and leaves the slot occupied.
MlmeDequeue ==
    /\ hpc = "dequeue"
    /\ Elem' = QHead
    /\ QHead' = Inc(QHead)
    /\ Num' = NumDec(Num)
    /\ hpc' = "service"
    /\ UNCHANGED <<QTail, Entry, calls, sema, device>>

\* The handler returns and its slot is freed, without the lock.
FreeElem ==
    /\ hpc = "service" /\ pc[MlmeTask] = "idle"
    /\ Entry' = [Entry EXCEPT ![Elem] = NoMsg]
    /\ hpc' = "empty?"
    /\ UNCHANGED <<Num, QHead, QTail, calls, Elem, sema, device>>

MlmeHandler == MlmeQueueEmpty \/ TestFlags \/ MlmeDequeue \/ FreeElem

-----------------------------------------------------------------------------
(* Suspend, resume, close and open. *)

Suspend(f) == /\ f \notin Flags /\ life = "up" /\ Flags' = Flags \cup {f}
              /\ UNCHANGED <<queue, calls, thread, life>>
Resume(f) == /\ f \in Flags /\ life = "up" /\ Flags' = Flags \ {f}
             /\ UNCHANGED <<queue, calls, thread, life>>

\* The interface goes down: the flag first ...
SetHalt == /\ life = "up" /\ life' = "halting"
           /\ Flags' = Flags \cup {"HALT"}
           /\ UNCHANGED <<queue, calls, thread>>

\* ... MlmeHalt then destroys the queue while its thread still runs ...
MlmeQueueDestroy ==
    /\ life = "halting" /\ life' = "destroyed"
    /\ Num' = 0 /\ QHead' = 0 /\ QTail' = 0
    /\ UNCHANGED <<Entry, calls, thread, Flags>>

\* ... and the threads and tasklets are waited for last; with none of them
\* left the halt flag is cleared.
TasksExit ==
    /\ life = "destroyed" /\ life' = "down"
    /\ hpc = "wait" /\ \A t \in Threads : pc[t] = "idle"
    /\ sema' = 0
    /\ Flags' = Flags \ {"HALT"}
    /\ UNCHANGED <<queue, calls, hpc, Elem>>

MlmeInit ==
    /\ life = "down" /\ life' = "up"
    /\ Num' = 0 /\ QHead' = 0 /\ QTail' = 0 /\ Entry' = EmptyEntry
    /\ UNCHANGED <<calls, thread, Flags>>

-----------------------------------------------------------------------------
Send == \/ \E t \in Senders, m \in InternalMsgs : MlmeEnqueue(t, m)
        \/ \E t \in Receivers, m \in PeerMsgs : MlmeEnqueueForRecv(t, m)

FinishCall(t) == TestRoomInternal(t) \/ TestRoomPeer(t) \/ Insert(t) \/ Wake(t)

Close == SetHalt \/ MlmeQueueDestroy \/ TasksExit \/ MlmeInit

Next == \/ Send
        \/ \E t \in Threads : FinishCall(t)
        \/ PeriodicWake
        \/ MlmeThread
        \/ MlmeHandler
        \/ \E f \in {"SUSPEND", "PM_SUSPEND"} : Suspend(f) \/ Resume(f)
        \/ Close

\* A context that is inside a call returns from it, the kernel runs a woken
\* thread, and the periodic timer keeps firing.
Fairness == /\ \A t \in Threads : WF_vars(FinishCall(t))
            /\ WF_vars(MlmeThread) /\ WF_vars(MlmeHandler)
            /\ WF_vars(PeriodicWake)

Spec == Init /\ [][Next]_vars
FairSpec == Spec /\ Fairness
-----------------------------------------------------------------------------
(* Properties. *)

\* Between MlmeInit and MlmeQueueDestroy the queue belongs to its protocol.
Live == life \in {"up", "halting"}

\* Every variable stays in its range: indices in the array, Num in a ULONG.
TypeOK ==
    /\ Num \in 0 .. ULONG_MAX /\ QHead \in Slots /\ QTail \in Slots
    /\ Entry \in [Slots -> Msgs \cup {NoMsg}]
    /\ pc \in [Threads -> {"idle", "flagged", "room", "wake"}]
    /\ arg \in [Threads -> Msgs \cup {NoMsg}]
    /\ hpc \in {"wait", "empty?", "flags?", "dequeue", "service"}
    /\ Elem \in Slots /\ sema \in 0 .. SemaMax
    /\ Flags \subseteq {"HALT", "SUSPEND", "PM_SUSPEND"}
    /\ life \in {"up", "halting", "destroyed", "down"}

\* The counter and the two indices agree whatever senders, receivers and the
\* handler interleave, and a queued slot is marked occupied: no free of an old
\* message clears a new one (the unlocked stores after MlmeHandler's switch).
CountsAgree == /\ QHead < QTail => Num = QTail - QHead
               /\ QTail < QHead => Num = N - QHead + QTail
               /\ QHead = QTail => Num = 0
RingShape == Live => CountsAgree /\ \A i \in Queued : Occupied(i)

\* The slot MlmeHandler works on, by pointer and without the lock, is never
\* handed to another message: it is outside the queue, still occupied, and not
\* the one the next insertion writes while any sender has passed its test for
\* room.
ServiceSlotKept ==
    Live /\ hpc = "service" =>
        /\ Elem \notin Queued /\ Occupied(Elem)
        /\ (\E t \in Threads : pc[t] = "room") => QTail # Elem

\* An internal message (a confirm, a timeout, a user's request) always finds
\* room, however many frames peers send: callers of MlmeEnqueue ignore its
\* result, and a lost confirm would leave a state machine waiting for ever.
\* This is what MlmeQueueFull's half-queue limit on receivers is for.
InternalFindsRoom ==
    Live => \A t \in Senders : pc[t] \in {"flagged", "room"} => Num + 1 < N

\* What the queue promises: MlmeMailbox, with the messages in the slots from
\* QHead as the box and the slot in service as the current message.
Contents == [k \in 1 .. Num |-> Entry[(QHead + k - 1) % N]]

Mailbox == INSTANCE MlmeMailbox WITH
    box <- IF Live THEN Contents ELSE <<>>,
    cur <- IF hpc = "service" THEN Entry[Elem] ELSE NoMsg,
    open <- Live
ImplementsMailbox == Mailbox!MailboxSpec

\* A queued message reaches the handler's switch unless the device is
\* suspended or closed meanwhile, even if every wake-up of its own was lost
\* to an earlier suspension (MlmePeriodicExec's wake-up is what rescues it).
EveryMessageServed ==
    \A i \in Slots : Live /\ InQueue(i) ~> ~InQueue(i) \/ Flags # {}
=============================================================================
