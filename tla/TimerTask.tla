------------------------------ MODULE TimerTask ------------------------------
(***************************************************************************)
(* Driver timers on USB (common/rtmp_timer.c, RTMPSetTimer, RTMPModTimer   *)
(* and RTMPCancelTimer of common/rtmp_init.c).  A kernel timer that fires  *)
(* may not sleep, so its callback only puts the timer in TimerQ, a linked  *)
(* list over a pool of TIMER_QUEUE_SIZE_MAX entries, and the timer thread  *)
(* runs the handler.  Setting and cancelling are serialised by             *)
(* TimerSemLock; neither the callback nor the thread takes that lock.      *)
(*                                                                         *)
(* Abstracted: time (a pending timer may fire at any moment), the work of  *)
(* a handler except its calls on timers, Valid (timers are initialised     *)
(* while the interface is up and released after the thread is gone).       *)
(***************************************************************************)
EXTENDS Naturals

CONSTANTS
    OneShot, Periodic,      \* the timers, by PeriodicType
    NoTimer,                \* a NULL pTimer
    Callers,                \* contexts that set and cancel timers
    TimerThread,            \* the timer thread, whose handlers do so too
    NoCaller,               \* TimerSemLock is free
    TIMER_QUEUE_SIZE_MAX,   \* entries of the pool: 128 in the driver
    SemaMax,                \* bound: pending wake-ups that are told apart
    Closes                  \* whether the interface is closed and reopened

Timers == OneShot \cup Periodic
Nodes == 1 .. TIMER_QUEUE_SIZE_MAX
NULL == 0

ASSUME TimerAssumption ==
    /\ TIMER_QUEUE_SIZE_MAX \in Nat \ {0} /\ SemaMax \in Nat \ {0}
    /\ OneShot \cap Periodic = {} /\ NoTimer \notin Timers
    /\ Closes \in BOOLEAN
    /\ TimerThread \notin Callers /\ NoCaller \notin Callers \cup {TimerThread}

VARIABLES
    State, Repeat,          \* RALINK_TIMER_STRUCT: cancelled, to be re-armed
    pending,                \* the kernel timer is armed
    irq,                    \* its callback has started and not yet queued it
    pQHead, pQTail, pQPollFreeList, pNext, pRaTimer,  \* TimerQ
    status,                 \* TimerQ.status
    sem,                    \* TimerSemLock: holder, timer, and where it is
    tpc, pTimer, wakeups,   \* the timer thread, its local and its semaphore
    Flags                   \* HALT_IN_PROGRESS and PM_FlgSuspend

timers == <<State, Repeat, pending, irq>>
lists == <<pQHead, pQTail, pQPollFreeList, pNext, pRaTimer>>
thread == <<tpc, pTimer, wakeups>>
vars == <<timers, lists, status, sem, thread, Flags>>

Unlocked == [who |-> NoCaller, timer |-> NoTimer, step |-> "none", seen |-> FALSE]

\* RtmpTimerQInit chains every entry of the pool in the free list; MlmeInit
\* then arms the periodic timers.
FreeChain == [n \in Nodes |-> n - 1]

Init ==
    /\ State = [t \in Timers |-> FALSE]
    /\ Repeat = [t \in Timers |-> t \in Periodic]
    /\ pending = [t \in Timers |-> t \in Periodic]
    /\ irq = [t \in Timers |-> FALSE]
    /\ pQHead = NULL /\ pQTail = NULL
    /\ pQPollFreeList = TIMER_QUEUE_SIZE_MAX /\ pNext = FreeChain
    /\ pRaTimer = [n \in Nodes |-> NoTimer]
    /\ status = "INITED" /\ sem = Unlocked
    /\ tpc = "wait" /\ pTimer = NoTimer /\ wakeups = 0
    /\ Flags = {}

-----------------------------------------------------------------------------
(* Setting and cancelling. *)

\* The timer thread calls from inside a handler.
MayCall(c) == c = TimerThread => tpc = "run"

\* RTMPSetTimer on a one-shot timer: RTMP_OS_Add_Timer leaves a pending timer
\* alone.  The periodic timers are set once, by MlmeInit.
RTMPSetTimer(c, t) ==
    /\ sem = Unlocked /\ MayCall(c)
    /\ "HALT" \notin Flags
    /\ State' = [State EXCEPT ![t] = FALSE]
    /\ Repeat' = [Repeat EXCEPT ![t] = FALSE]
    /\ pending' = [pending EXCEPT ![t] = TRUE]
    /\ UNCHANGED <<irq, lists, status, sem, thread, Flags>>

\* RTMPModTimer does not test the halt flag.
RTMPModTimer(c, t) ==
    /\ sem = Unlocked /\ MayCall(c)
    /\ State' = [State EXCEPT ![t] = FALSE]
    /\ pending' = [pending EXCEPT ![t] = TRUE]
    /\ UNCHANGED <<Repeat, irq, lists, status, sem, thread, Flags>>

\* RTMPCancelTimer takes TimerSemLock and tests whether the timer is pending ...
RTMPCancelTimer(c, t) ==
    /\ sem = Unlocked /\ MayCall(c)
    /\ Repeat' = [Repeat EXCEPT ![t] = @ /\ State[t]]
    /\ sem' = [who |-> c, timer |-> t, step |-> "delete", seen |-> pending[t]]
    /\ UNCHANGED <<State, pending, irq, lists, status, thread, Flags>>

\* ... del_timer_sync, which waits for a running callback, if it was; else
\* nothing, reported as success ...
CancelDelete ==
    /\ sem.step = "delete"
    /\ sem.seen => ~irq[sem.timer]
    /\ State' = [State EXCEPT ![sem.timer] = @ \/ ~sem.seen \/ pending[sem.timer]]
    /\ pending' = [pending EXCEPT ![sem.timer] = @ /\ ~sem.seen]
    /\ sem' = [sem EXCEPT !.step = "remove"]
    /\ UNCHANGED <<Repeat, irq, lists, status, thread, Flags>>

\* TimerQ as a sequence of hops from its head.
Hops(first) == LET hop[k \in 0 .. TIMER_QUEUE_SIZE_MAX] ==
                       IF k = 0 THEN first
                       ELSE IF hop[k - 1] = NULL THEN NULL ELSE pNext[hop[k - 1]]
               IN  hop
Waiting(t) == {k \in 0 .. TIMER_QUEUE_SIZE_MAX :
                 LET n == Hops(pQHead)[k] IN n # NULL /\ pRaTimer[n] = t}
Queued(t) == Waiting(t) # {}

\* Entry n leaves the queue, where it followed prev, for the pool.  (Nothing
\* reads pRaTimer of a free entry.)
ReturnToPool(n, prev) ==
    /\ pNext' = [m \in Nodes |-> IF m = n THEN pQPollFreeList
                                 ELSE IF m = prev THEN pNext[n] ELSE pNext[m]]
    /\ pRaTimer' = [pRaTimer EXCEPT ![n] = NoTimer]
    /\ pQPollFreeList' = n

\* Mutant: the tail is left pointing at the removed entry.
RemoveKeepsTail(n, prev) ==
    /\ pQHead' = IF n = pQHead THEN pNext[n] ELSE pQHead
    /\ pQTail' = pQTail
    /\ ReturnToPool(n, prev)
Unlink(n, prev) ==
    /\ pQHead' = IF n = pQHead THEN pNext[n] ELSE pQHead
    /\ pQTail' = IF n = pQTail THEN prev ELSE pQTail
    /\ ReturnToPool(n, prev)

\* ... and RtmpTimerQRemove takes the FIRST entry of the timer out of TimerQ.
RtmpTimerQRemove ==
    /\ sem.step = "remove"
    /\ IF Queued(sem.timer)
       THEN LET k == CHOOSE k \in Waiting(sem.timer) : \A j \in Waiting(sem.timer) : k <= j
            IN  Unlink(Hops(pQHead)[k], IF k = 0 THEN NULL ELSE Hops(pQHead)[k - 1])
       ELSE UNCHANGED lists
    /\ sem' = Unlocked
    /\ UNCHANGED <<timers, status, thread, Flags>>

-----------------------------------------------------------------------------
(* The kernel timer's callback, rtmp_timer_... of BUILD_TIMER_FUNCTION. *)

TimerFires(t) ==
    /\ pending[t] /\ ~irq[t]
    /\ pending' = [pending EXCEPT ![t] = FALSE]
    /\ irq' = [irq EXCEPT ![t] = TRUE]
    /\ UNCHANGED <<State, Repeat, lists, status, sem, thread, Flags>>

Append2Queue(n, t) ==
    /\ pQPollFreeList' = pNext[n]
    /\ pRaTimer' = [pRaTimer EXCEPT ![n] = t]
    /\ pNext' = [m \in Nodes |-> IF m = n THEN NULL
                                 ELSE IF m = pQTail THEN n ELSE pNext[m]]
    /\ pQTail' = n
    /\ pQHead' = IF pQHead = NULL THEN n ELSE pQHead

\* Mutant: a timer that finds the pool empty is dropped.
DropWhenFull(t) == UNCHANGED pending
\* A timer that finds the pool empty is armed again for a second later.
RetryWhenFull(t) == pending' = [pending EXCEPT ![t] = TRUE]

WakeThread == wakeups' = IF wakeups < SemaMax THEN wakeups + 1 ELSE wakeups

RtmpTimerQInsert(t) ==
    /\ irq[t]
    /\ irq' = [irq EXCEPT ![t] = FALSE]
    /\ \/ /\ status = "INITED" /\ pQPollFreeList # NULL
          /\ Append2Queue(pQPollFreeList, t)
          /\ WakeThread
          /\ UNCHANGED pending
       \/ /\ status = "INITED" /\ pQPollFreeList = NULL
          /\ RetryWhenFull(t)
          /\ UNCHANGED <<lists, wakeups>>
       \/ status # "INITED" /\ UNCHANGED <<pending, lists, wakeups>>
    /\ UNCHANGED <<State, Repeat, status, sem, tpc, pTimer, Flags>>

-----------------------------------------------------------------------------
(* The timer thread, RtmpTimerQHandle. *)

ThreadWakes ==
    /\ tpc = "wait" /\ wakeups > 0
    /\ wakeups' = wakeups - 1
    /\ tpc' = IF status = "STOPED" THEN "dead" ELSE "head?"
    /\ UNCHANGED <<timers, lists, status, sem, pTimer, Flags>>

\* while (pAd->TimerQ.pQHead), read without the lock.  Only before it waits again
\* does the thread reset pTimer.
ThreadTestsHead ==
    /\ tpc = "head?"
    /\ IF pQHead # NULL THEN tpc' = "pop" /\ UNCHANGED pTimer
                        ELSE tpc' = "wait" /\ pTimer' = NoTimer
    /\ UNCHANGED <<timers, lists, status, sem, wakeups, Flags>>

\* Under the lock the entry may be gone; pTimer then keeps the timer of the
\* previous round.  The handler of an expiry is skipped, for good, while the
\* device is suspended.
ThreadPops ==
    /\ tpc = "pop"
    /\ IF pQHead # NULL
       THEN /\ pTimer' = pRaTimer[pQHead]
            /\ pQHead' = pNext[pQHead]
            /\ pQTail' = IF pQHead = pQTail THEN NULL ELSE pQTail
            /\ ReturnToPool(pQHead, NULL)
       ELSE UNCHANGED <<pTimer, lists>>
    /\ tpc' = IF pTimer' = NoTimer THEN "head?"
              ELSE IF "PM_SUSPEND" \in Flags THEN "repeat?" ELSE "run"
    /\ UNCHANGED <<timers, status, sem, wakeups, Flags>>

HandlerReturns ==
    /\ tpc = "run" /\ sem.who # TimerThread
    /\ tpc' = "repeat?"
    /\ UNCHANGED <<timers, lists, status, sem, pTimer, wakeups, Flags>>

\* Mutants: the tests of Repeat and State are dropped; no timer is re-armed.
AnyRepeats(t) == t \in Periodic
NoneRepeats(t) == FALSE
Repeats(t) == Repeat[t] /\ ~State[t]

ThreadTestsRepeat ==
    /\ tpc = "repeat?"
    /\ tpc' = IF Repeats(pTimer) THEN "rearm" ELSE "head?"
    /\ UNCHANGED <<timers, lists, status, sem, pTimer, wakeups, Flags>>

ThreadRearms ==
    /\ tpc = "rearm"
    /\ pending' = [pending EXCEPT ![pTimer] = TRUE]
    /\ tpc' = "head?"
    /\ UNCHANGED <<State, Repeat, irq, lists, status, sem, pTimer, wakeups, Flags>>

ThreadStep == \/ ThreadWakes \/ ThreadTestsHead \/ ThreadPops
              \/ HandlerReturns \/ ThreadTestsRepeat \/ ThreadRearms

-----------------------------------------------------------------------------
(* Suspend, close and open. *)

Suspend == /\ Flags = {} /\ Flags' = {"PM_SUSPEND"}
           /\ UNCHANGED <<timers, lists, status, sem, thread>>
Resume == /\ Flags = {"PM_SUSPEND"} /\ Flags' = {}
          /\ UNCHANGED <<timers, lists, status, sem, thread>>

SetHalt == /\ Closes /\ "HALT" \notin Flags /\ Flags' = Flags \cup {"HALT"}
           /\ UNCHANGED <<timers, lists, status, sem, thread>>

\* RtmpTimerQExit frees the pool, with the thread still running.
RtmpTimerQExit ==
    /\ "HALT" \in Flags /\ status = "INITED"
    /\ pQHead' = NULL /\ pQTail' = NULL /\ pQPollFreeList' = NULL
    /\ pNext' = FreeChain /\ pRaTimer' = [n \in Nodes |-> NoTimer]
    /\ status' = "STOPED"
    /\ UNCHANGED <<timers, sem, thread, Flags>>

\* RtmpOSTaskKill: the signal ends the wait of the thread.
ThreadKilled ==
    /\ status = "STOPED" /\ tpc = "wait"
    /\ tpc' = "dead"
    /\ UNCHANGED <<timers, lists, status, sem, pTimer, wakeups, Flags>>

\* The next open of the interface, when every timer has been released.
RtmpTimerQInit ==
    /\ tpc = "dead" /\ sem = Unlocked
    /\ \A t \in Timers : ~pending[t] /\ ~irq[t]
    /\ State' = [t \in Timers |-> FALSE]
    /\ Repeat' = [t \in Timers |-> t \in Periodic]
    /\ pending' = [t \in Timers |-> t \in Periodic]
    /\ pQHead' = NULL /\ pQTail' = NULL
    /\ pQPollFreeList' = TIMER_QUEUE_SIZE_MAX /\ pNext' = FreeChain
    /\ pRaTimer' = [n \in Nodes |-> NoTimer]
    /\ status' = "INITED"
    /\ tpc' = "wait" /\ pTimer' = NoTimer /\ wakeups' = 0 /\ Flags' = {}
    /\ UNCHANGED <<irq, sem>>

-----------------------------------------------------------------------------
\* No handler cancels a periodic timer.
Call == \/ \E c \in Callers \cup {TimerThread}, t \in OneShot :
              RTMPSetTimer(c, t) \/ RTMPModTimer(c, t) \/ RTMPCancelTimer(c, t)
        \/ \E c \in Callers, t \in Periodic : RTMPCancelTimer(c, t)

Next == \/ Call \/ CancelDelete \/ RtmpTimerQRemove
        \/ \E t \in Timers : TimerFires(t) \/ RtmpTimerQInsert(t)
        \/ ThreadStep
        \/ Suspend \/ Resume
        \/ SetHalt \/ RtmpTimerQExit \/ ThreadKilled \/ RtmpTimerQInit

\* Time passes, callbacks and lock holders finish, and the thread runs.  Some
\* steps are strongly fair.  A handler makes finitely many calls on timers and
\* returns, though it is inside such a call again and again before.  A timer
\* that finds the pool full retries a second later: meanwhile del_timer_sync
\* catches it, and it is not for ever in step with a pool that is full again.
HasRoom == pQPollFreeList # NULL
Fairness == /\ \A t \in Timers : /\ WF_vars(TimerFires(t)) /\ WF_vars(RtmpTimerQInsert(t))
                                 /\ SF_vars(HasRoom /\ TimerFires(t))
                                 /\ SF_vars(HasRoom /\ RtmpTimerQInsert(t))
            /\ SF_vars(CancelDelete) /\ WF_vars(RtmpTimerQRemove)
            /\ WF_vars(ThreadStep) /\ SF_vars(HandlerReturns)

Spec == Init /\ [][Next]_vars
FairSpec == Spec /\ Fairness
-----------------------------------------------------------------------------
(* Properties. *)

TypeOK ==
    /\ State \in [Timers -> BOOLEAN] /\ Repeat \in [Timers -> BOOLEAN]
    /\ pending \in [Timers -> BOOLEAN] /\ irq \in [Timers -> BOOLEAN]
    /\ {pQHead, pQTail, pQPollFreeList} \subseteq Nodes \cup {NULL}
    /\ pNext \in [Nodes -> Nodes \cup {NULL}]
    /\ pRaTimer \in [Nodes -> Timers \cup {NoTimer}]
    /\ status \in {"INITED", "STOPED"}
    /\ sem.who \in Callers \cup {TimerThread, NoCaller}
    /\ sem.timer \in Timers \cup {NoTimer}
    /\ sem.step \in {"none", "delete", "remove"} /\ sem.seen \in BOOLEAN
    /\ tpc \in {"wait", "head?", "pop", "run", "repeat?", "rearm", "dead"}
    /\ pTimer \in Timers \cup {NoTimer} /\ wakeups \in 0 .. SemaMax
    /\ Flags \subseteq {"HALT", "PM_SUSPEND"}

Chain(first) == {Hops(first)[k] : k \in 0 .. TIMER_QUEUE_SIZE_MAX} \ {NULL}

\* The two linked lists share the pool out between them whatever the callback,
\* the thread and cancellations interleave: no entry is lost, on both lists or
\* on a cycle, and the tail is the last entry of the queue; the types hold too.
PoolIntact ==
    /\ TypeOK
    /\ status = "INITED" =>
        /\ Hops(pQHead)[TIMER_QUEUE_SIZE_MAX] = NULL
        /\ Hops(pQPollFreeList)[TIMER_QUEUE_SIZE_MAX] = NULL
        /\ Chain(pQHead) \cap Chain(pQPollFreeList) = {}
        /\ Chain(pQHead) \cup Chain(pQPollFreeList) = Nodes
        /\ IF pQHead = NULL THEN pQTail = NULL
           ELSE pQTail \in Chain(pQHead) /\ pNext[pQTail] = NULL

\* An expiry is not lost, even one that finds the pool empty: its handler runs
\* unless the timer is cancelled meanwhile or the device suspends or closes.
ExpiryServed ==
    \A t \in Timers :
        irq[t] ~> \/ tpc = "run" /\ pTimer = t
                  \/ State[t] \/ sem.timer = t \/ Flags # {}

\* The periodic timer that drives the driver (MlmePeriodicExec) never dies: as
\* long as nobody cancels it and the device is up, the thread keeps serving it
\* through suspensions, a full pool and whatever the handlers do.
PeriodicSurvives ==
    \A t \in Periodic :
        <>[](Repeat[t] /\ "HALT" \notin Flags) => []<>(tpc = "repeat?" /\ pTimer = t)

\* A cancelled periodic timer dies out: the thread may be past its test of
\* Repeat and arm the timer once more, but not for ever.
CancelSettles ==
    \A t \in Periodic :
        <>[](~Repeat[t]) => <>[](~pending[t] /\ ~irq[t] /\ ~Queued(t))
=============================================================================
