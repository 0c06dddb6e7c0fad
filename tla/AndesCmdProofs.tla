---------------------------- MODULE AndesCmdProofs ----------------------------
(***************************************************************************)
(* What is in CmdRspBuffer is handled once, whatever the callers, numbers, *)
(* device and bounds: the invariant behind HandledOnce.                    *)
(***************************************************************************)
EXTENDS AndesCmd, SequenceTheorems, FiniteSetTheorems, WellFoundedInduction, TLAPS

Places == {"idle", "status", "recv", "handle", "clear", "submit?", "submit", "unmark", "poll",
           "off", "cancel", "kill", "killed", "on"}
BufTypes ==
    /\ InUse \in BOOLEAN /\ Readable \in BOOLEAN /\ scheduled \in BOOLEAN
    /\ urb \in {"flying", "ok", "error"} /\ status \in {"flying", "ok", "error"}
    /\ at \in [Receivers -> Places] /\ handled \in {0, 1, 2}

\* The ways in which a response may be lost or handled twice.
Excused == marks \cap {"together", "unmarked", "gap"} # {}
OnBus == urb = "flying" \/ scheduled

\* While the transfer is on the bus, or about to be, InUse says so, and nobody
\* else submits it; what has come but is not handled is in one place: announced by
\* the transfer, with the tasklet, or readable.
BufInv ==
    /\ marks \cap {"lost", "twice"} = {}
    /\ urb = "flying" => ~scheduled
    /\ OnBus => InUse
    /\ \A r \in Receivers : at[r] \in {"submit", "unmark"} =>
          /\ InUse /\ ~OnBus
          /\ \A q \in Receivers : at[q] \in {"submit", "unmark"} => q = r
    /\ InUse \/ at[Tasklet] = "status" => ~Readable
    /\ InUse => at[Tasklet] # "status"
    /\ \A r \in Receivers : at[r] \in {"handle", "clear"} =>
          /\ Readable
          /\ \A q \in Receivers : at[q] \in {"handle", "clear"} => q = r
    /\ (handled = 0) <=> \/ scheduled /\ urb = "ok"
                         \/ at[Tasklet] = "status" /\ status = "ok"
                         \/ Readable /\ \A r \in Receivers : at[r] # "clear"

IInv == BufTypes /\ (Excused \/ BufInv)

-----------------------------------------------------------------------------
LEMMA InitIInv == Init => IInv
<1> SUFFICES ASSUME Init PROVE IInv
  OBVIOUS
<1>1. at = [r \in Receivers |-> "idle"] /\ Tasklet \in Receivers
  BY DEF Init, Receivers
<1>2. /\ InUse = TRUE /\ Readable = FALSE /\ scheduled = FALSE /\ urb = "flying"
      /\ status = "error" /\ handled = 1 /\ marks = {}
  BY DEF Init
<1>3. BufTypes
  <2>1. at \in [Receivers -> Places]
    BY <1>1, Zenon DEF Places
  <2> QED
    BY <1>2, <2>1, Zenon DEF BufTypes
<1>4. BufInv
  BY <1>1, <1>2 DEF BufInv, OnBus
<1> QED
  BY <1>3, <1>4 DEF IInv

\* The receivers, told apart.
LEMMA ReceiversDiffer ==
    /\ Receivers = {Tasklet, Sleeper, Waker}
    /\ Tasklet # Sleeper /\ Tasklet # Waker /\ Sleeper # Waker
  BY DEF Receivers, Tasklet, Sleeper, Waker

buffer == <<InUse, Readable, urb, scheduled, status, handled, marks, at>>

\* A step elsewhere.
LEMMA Elsewhere == ASSUME IInv, UNCHANGED buffer PROVE IInv'
  BY DEF IInv, BufTypes, Excused, BufInv, OnBus, buffer

\* What BufInv reads of the places.
SamePlaces ==
    /\ at'[Tasklet] = "status" <=> at[Tasklet] = "status"
    /\ \A q \in Receivers :
          /\ at'[q] \in {"submit", "unmark"} <=> at[q] \in {"submit", "unmark"}
          /\ at'[q] \in {"handle", "clear"} <=> at[q] \in {"handle", "clear"}
          /\ at'[q] = "clear" <=> at[q] = "clear"
LEMMA SamePlacesKeep ==
  ASSUME BufInv, SamePlaces, UNCHANGED <<InUse, Readable, urb, scheduled, status, handled>>,
         (marks \cap {"lost", "twice"})' = marks \cap {"lost", "twice"}
  PROVE  BufInv'
<1>1. Tasklet \in Receivers
  BY ReceiversDiffer
<1>2. UNCHANGED OnBus
  BY DEF OnBus
<1>3. (\A r \in Receivers : at[r] # "clear") <=> (\A r \in Receivers : at'[r] # "clear")
  BY DEF SamePlaces
<1>4. (handled = 0)' <=> (\/ scheduled /\ urb = "ok"
                          \/ at[Tasklet] = "status" /\ status = "ok"
                          \/ Readable /\ \A r \in Receivers : at[r] # "clear")'
  BY <1>1, <1>3 DEF BufInv, SamePlaces
<1>5. \A r \in Receivers : at'[r] \in {"submit", "unmark"} =>
          /\ InUse' /\ ~OnBus'
          /\ \A q \in Receivers : at'[q] \in {"submit", "unmark"} => q = r
  BY <1>2 DEF BufInv, SamePlaces
<1>6. \A r \in Receivers : at'[r] \in {"handle", "clear"} =>
          /\ Readable'
          /\ \A q \in Receivers : at'[q] \in {"handle", "clear"} => q = r
  BY DEF BufInv, SamePlaces
<1>7. (InUse \/ at[Tasklet] = "status" => ~Readable)' /\ (InUse => at[Tasklet] # "status")'
  BY DEF BufInv, SamePlaces
<1>8. /\ (marks \cap {"lost", "twice"} = {})' /\ (urb = "flying" => ~scheduled)'
      /\ (OnBus => InUse)'
  BY <1>2 DEF BufInv
<1> QED
  BY <1>4, <1>5, <1>6, <1>7, <1>8, Zenon DEF BufInv

\* A receiver moves between places that mean nothing for the buffer.
Neutral == Places \ {"status", "handle", "clear", "submit", "unmark"}
LEMMA MoveKeeps ==
  ASSUME IInv, NEW r \in Receivers, NEW a \in Neutral, at[r] \in Neutral, Go(r, a),
         UNCHANGED <<InUse, Readable, urb, scheduled, status, handled>>,
         \E m \in {"crossed", "failed", "not submitted"} : marks' \in {marks, marks \cup {m}}
  PROVE  IInv'
<1>1. at' = [at EXCEPT ![r] = a]
  BY DEF Go
<1>2. BufTypes'
  BY <1>1 DEF IInv, BufTypes, Neutral
<1>3. Excused' = Excused /\ (marks \cap {"lost", "twice"})' = marks \cap {"lost", "twice"}
  BY DEF Excused
<1>4. SamePlaces
  BY <1>1, ReceiversDiffer DEF IInv, BufTypes, Neutral, SamePlaces
<1>5. BufInv => BufInv'
  BY <1>3, <1>4, SamePlacesKeep
<1> QED
  BY <1>2, <1>3, <1>5 DEF IInv

\* What is left to show of a step.
LEMMA Suffices ==
  ASSUME IInv, marks \subseteq marks', BufTypes', BufInv /\ ~Excused' => BufInv'
  PROVE  IInv'
  BY DEF IInv, Excused

LEMMA RecvTestKeeps == ASSUME IInv, NEW r \in Receivers, RecvTest(r) PROVE IInv'
<1>1. at[r] = "recv" /\ UNCHANGED <<InUse, Readable, urb, scheduled, status, handled>>
  BY DEF RecvTest, flags, tasklet
<1>2. CASE ~InUse /\ Readable
  <2>1. at' = [at EXCEPT ![r] = "handle"]
    BY <1>2 DEF RecvTest, Go
  <2>2. marks' = IF \E q \in Receivers : at[q] \in {"handle", "clear"}
                 THEN marks \cup {"together"} ELSE marks
    BY <1>2 DEF RecvTest
  <2>3. BufTypes'
    BY <1>1, <2>1 DEF IInv, BufTypes, Places
  <2>4. ASSUME BufInv, ~Excused' PROVE BufInv'
    <3>1. (\A q \in Receivers : at[q] \notin {"handle", "clear"}) /\ marks' = marks
      BY <2>2, <2>4 DEF Excused
    <3> QED
      BY <1>1, <1>2, <2>1, <2>4, <3>1, ReceiversDiffer DEF IInv, BufTypes, BufInv, OnBus
  <2> QED
    BY <2>2, <2>3, <2>4, Suffices
<1>3. CASE ~(~InUse /\ Readable)
  BY <1>1, <1>3, MoveKeeps DEF RecvTest, Neutral, Places
<1> QED
  BY <1>2, <1>3

LEMMA HandleKeeps == ASSUME IInv, NEW r \in Receivers, Handle(r) PROVE IInv'
<1>1. /\ at[r] = "handle" /\ at' = [at EXCEPT ![r] = "clear"]
      /\ UNCHANGED <<InUse, Readable, urb, scheduled, status>>
      /\ marks' = IF handled > 0 THEN marks \cup {"twice"} ELSE marks
  BY DEF Handle, Go, flags, tasklet
<1>2. handled' \in {1, 2}
  BY DEF Handle, IInv, BufTypes
<1>3. BufTypes'
  BY <1>1, <1>2 DEF IInv, BufTypes, Places
<1>4. ASSUME BufInv PROVE BufInv'
  <2>1. Readable /\ \A q \in Receivers : at[q] \in {"handle", "clear"} => q = r
    BY <1>1, <1>4 DEF BufInv
  <2>2. handled = 0
    BY <1>1, <1>4, <2>1 DEF BufInv
  <2>3. marks' = marks /\ handled' # 0
    BY <1>1, <1>2, <2>2
  <2>4. ~InUse /\ ~scheduled /\ at[Tasklet] # "status"
    BY <1>4, <2>1 DEF BufInv, OnBus
  <2> QED
    BY <1>1, <1>4, <2>1, <2>3, <2>4, ReceiversDiffer DEF IInv, BufTypes, BufInv, OnBus
<1> QED
  BY <1>1, <1>3, <1>4, Suffices

LEMMA RecvClearKeeps == ASSUME IInv, NEW r \in Receivers, RecvClear(r) PROVE IInv'
<1>1. /\ at[r] = "clear" /\ at' = [at EXCEPT ![r] = "submit?"] /\ ~Readable' /\ Readable' = FALSE
      /\ UNCHANGED <<InUse, urb, scheduled, status, handled, marks>>
  BY DEF RecvClear, Go, tasklet
<1>2. BufTypes'
  BY <1>1 DEF IInv, BufTypes, Places
<1>3. ASSUME BufInv PROVE BufInv'
  <2>1. Readable /\ \A q \in Receivers : at[q] \in {"handle", "clear"} => q = r
    BY <1>1, <1>3 DEF BufInv
  <2>2. handled # 0 /\ ~scheduled /\ at[Tasklet] # "status"
    BY <1>1, <1>3, <2>1 DEF BufInv, OnBus
  <2> QED
    BY <1>1, <1>3, <2>1, <2>2, ReceiversDiffer DEF IInv, BufTypes, BufInv, OnBus
<1> QED
  BY <1>1, <1>2, <1>3, Suffices

LEMMA BulkInKeeps == ASSUME IInv, NEW r \in Receivers, BulkIn(r) PROVE IInv'
<1>1. /\ at[r] = "submit?"
      /\ UNCHANGED <<Readable, urb, scheduled, status, handled>>
      /\ marks' = IF r # Tasklet /\ at[Tasklet] = "status" THEN marks \cup {"gap"} ELSE marks
  BY DEF BulkIn, tasklet
<1>2. CASE Readable \/ InUse
  <2>1. Go(r, IF r = Sleeper THEN "poll" ELSE "idle") /\ InUse' = InUse
    BY <1>2 DEF BulkIn, Done
  <2>2. BufTypes'
    BY <1>1, <2>1 DEF IInv, BufTypes, Go, Places
  <2>3. ASSUME BufInv PROVE BufInv'
    <3>1. (marks \cap {"lost", "twice"})' = marks \cap {"lost", "twice"}
      BY <1>1
    <3> QED
      BY <1>1, <2>1, <2>3, <3>1, ReceiversDiffer DEF IInv, BufTypes, BufInv, OnBus, Go
  <2> QED
    BY <1>1, <2>2, <2>3, Suffices
<1>3. CASE ~(Readable \/ InUse)
  <2>1. at' = [at EXCEPT ![r] = "submit"] /\ InUse' = TRUE
    BY <1>3 DEF BulkIn, Go
  <2>2. BufTypes'
    BY <1>1, <2>1 DEF IInv, BufTypes, Places
  <2>3. ASSUME BufInv, ~Excused' PROVE BufInv'
    <3>1. at[Tasklet] # "status" /\ marks' = marks
      BY <1>1, <2>3 DEF Excused
    <3>2. ~OnBus /\ (\A q \in Receivers : at[q] \notin {"submit", "unmark", "handle", "clear"})
      BY <1>3, <2>3 DEF BufInv
    <3> QED
      BY <1>1, <1>3, <2>1, <2>3, <3>1, <3>2, ReceiversDiffer DEF IInv, BufTypes, BufInv, OnBus
  <2> QED
    BY <1>1, <2>2, <2>3, Suffices
<1> QED
  BY <1>2, <1>3

LEMMA SubmitKeeps == ASSUME IInv, NEW r \in Receivers, Submit(r) PROVE IInv'
<1>1. /\ at[r] = "submit"
      /\ UNCHANGED <<InUse, Readable, scheduled, status, handled>>
  BY DEF Submit, flags, tasklet
<1>2. CASE at' = [at EXCEPT ![r] = "unmark"] /\ urb' = urb /\ marks' \in {marks, marks \cup {"not submitted"}}
  <2>1. BufTypes'
    BY <1>1, <1>2 DEF IInv, BufTypes, Places
  <2>2. ASSUME BufInv PROVE BufInv'
    <3>1. (marks \cap {"lost", "twice"})' = marks \cap {"lost", "twice"}
      BY <1>2
    <3>2. SamePlaces
      BY <1>1, <1>2, ReceiversDiffer DEF IInv, BufTypes, SamePlaces
    <3> QED
      BY <1>1, <1>2, <2>2, <3>1, <3>2, SamePlacesKeep
  <2> QED
    BY <1>2, <2>1, <2>2, Suffices
<1>3. CASE urb' = "flying" /\ Done(r) /\ marks' = marks
  <2>1. PICK a \in {"poll", "idle"} : at' = [at EXCEPT ![r] = a]
    BY <1>3 DEF Done, Go
  <2>2. BufTypes'
    BY <1>1, <1>3, <2>1 DEF IInv, BufTypes, Places
  <2>3. ASSUME BufInv PROVE BufInv'
    <3>1. InUse /\ ~OnBus /\ \A q \in Receivers : at[q] \in {"submit", "unmark"} => q = r
      BY <1>1, <2>3 DEF BufInv
    <3> QED
      BY <1>1, <1>3, <2>1, <2>3, <3>1, ReceiversDiffer DEF IInv, BufTypes, BufInv, OnBus
  <2> QED
    BY <1>3, <2>2, <2>3, Suffices
<1> QED
  BY <1>2, <1>3 DEF Submit, Go

LEMMA UnmarkKeeps == ASSUME IInv, NEW r \in Receivers, Unmark(r) PROVE IInv'
<1>1. /\ at[r] = "unmark" /\ InUse' = FALSE
      /\ UNCHANGED <<Readable, urb, scheduled, status, handled, marks>>
  BY DEF Unmark, tasklet
<1>2. PICK a \in {"poll", "idle"} : at' = [at EXCEPT ![r] = a]
  BY DEF Unmark, Done, Go
<1>3. BufTypes'
  BY <1>1, <1>2 DEF IInv, BufTypes, Places
<1>4. ASSUME BufInv PROVE BufInv'
  <2>1. InUse /\ ~OnBus /\ \A q \in Receivers : at[q] \in {"submit", "unmark"} => q = r
    BY <1>1, <1>4 DEF BufInv
  <2> QED
    BY <1>1, <1>2, <1>4, <2>1, ReceiversDiffer DEF IInv, BufTypes, BufInv, OnBus
<1> QED
  BY <1>1, <1>3, <1>4, Suffices

LEMMA TaskletStartKeeps == IInv /\ TaskletStart => IInv'
<1> SUFFICES ASSUME IInv, TaskletStart PROVE IInv'
  OBVIOUS
<1>1. /\ scheduled /\ at[Tasklet] = "idle" /\ at' = [at EXCEPT ![Tasklet] = "status"]
      /\ scheduled' = FALSE /\ status' = urb /\ InUse' = FALSE
      /\ UNCHANGED <<Readable, urb, handled, marks>>
  BY DEF TaskletStart, Go
<1>2. BufTypes'
  BY <1>1, ReceiversDiffer DEF IInv, BufTypes, Places
<1>3. ASSUME BufInv PROVE BufInv'
  <2>1. InUse /\ ~Readable /\ urb # "flying"
    BY <1>1, <1>3 DEF BufInv, OnBus
  <2>2. \A q \in Receivers : at[q] \notin {"submit", "unmark", "handle", "clear"}
    BY <1>1, <1>3, <2>1 DEF BufInv, OnBus
  <2>3. (handled = 0) <=> urb = "ok"
    BY <1>1, <1>3, <2>1 DEF BufInv
  <2> QED
    BY <1>1, <1>3, <2>1, <2>2, <2>3, ReceiversDiffer DEF IInv, BufTypes, BufInv, OnBus
<1> QED
  BY <1>1, <1>2, <1>3, Suffices

LEMMA TaskletStatusKeeps == IInv /\ TaskletStatus => IInv'
<1> SUFFICES ASSUME IInv, TaskletStatus PROVE IInv'
  OBVIOUS
<1>1. /\ at[Tasklet] = "status" /\ at' = [at EXCEPT ![Tasklet] = "recv"]
      /\ Readable' = (status = "ok")
      /\ UNCHANGED <<InUse, urb, scheduled, status, handled, marks>>
  BY DEF TaskletStatus, Go, tasklet
<1>2. BufTypes'
  BY <1>1, ReceiversDiffer DEF IInv, BufTypes, Places
<1>3. ASSUME BufInv PROVE BufInv'
  <2>1. ~InUse /\ ~scheduled /\ ~Readable /\ urb # "flying"
    BY <1>1, <1>3 DEF BufInv, OnBus
  <2>2. \A q \in Receivers : at[q] \notin {"submit", "unmark", "handle", "clear"}
    BY <1>3, <2>1 DEF BufInv
  <2>3. (handled = 0) <=> status = "ok"
    BY <1>1, <1>3, <2>1 DEF BufInv
  <2> QED
    BY <1>1, <1>3, <2>1, <2>2, <2>3, ReceiversDiffer DEF IInv, BufTypes, BufInv, OnBus
<1> QED
  BY <1>1, <1>2, <1>3, Suffices

\* The radio-off thread clears the flags of the transfer it has killed.
LEMMA CancelUnmarkKeeps == IInv /\ CancelUnmark => IInv'
<1> SUFFICES ASSUME IInv, CancelUnmark PROVE IInv'
  OBVIOUS
<1>1. /\ at[Sleeper] = "killed" /\ at' = [at EXCEPT ![Sleeper] = "idle"]
      /\ InUse' = FALSE
      /\ marks' = IF InUse THEN marks \cup {"unmarked"} ELSE marks
      /\ UNCHANGED <<Readable, urb, scheduled, status, handled>>
  BY DEF CancelUnmark, Go, tasklet
<1>2. BufTypes'
  BY <1>1, ReceiversDiffer DEF IInv, BufTypes, Places
<1>3. ASSUME BufInv, ~Excused' PROVE BufInv'
  <2>1. ~InUse /\ marks' = marks
    BY <1>1, <1>3 DEF Excused
  <2> QED
    BY <1>1, <1>3, <2>1, ReceiversDiffer DEF IInv, BufTypes, BufInv, OnBus
<1> QED
  BY <1>1, <1>2, <1>3, Suffices

LEMMA TransferKeeps == IInv /\ (TransferEnds \/ TransferFails) => IInv'
<1> SUFFICES ASSUME IInv, TransferEnds \/ TransferFails PROVE IInv'
  OBVIOUS
<1>1. /\ urb = "flying" /\ scheduled' = TRUE
      /\ UNCHANGED <<InUse, Readable, status, at>>
  BY DEF TransferEnds, TransferFails, flags
<1>2. \/ urb' = "ok" /\ handled' = 0 /\ marks' = IF handled = 0 THEN marks \cup {"lost"} ELSE marks
      \/ urb' = "error" /\ handled' = handled /\ marks' \in {marks, marks \cup {"failed"}}
  BY DEF TransferEnds, TransferFails
<1>3. BufTypes'
  BY <1>1, <1>2 DEF IInv, BufTypes
<1>4. ASSUME BufInv PROVE BufInv'
  <2>1. InUse /\ ~scheduled /\ ~Readable /\ at[Tasklet] # "status"
    BY <1>1, <1>4 DEF BufInv, OnBus
  <2>2. handled # 0
    BY <1>1, <1>4, <2>1 DEF BufInv
  <2>3. (marks \cap {"lost", "twice"})' = {}
    BY <1>2, <1>4, <2>2 DEF BufInv
  <2>4. \A q \in Receivers : at[q] \notin {"submit", "unmark"}
    BY <1>1, <1>4 DEF BufInv, OnBus
  <2> QED
    BY <1>1, <1>2, <1>4, <2>1, <2>2, <2>3, <2>4 DEF BufInv, OnBus
<1> QED
  BY <1>2, <1>3, <1>4, Suffices

\* Radio-off and radio-on, but for the flags they clear.
LEMMA RadioKeeps ==
  IInv /\ (OffStart \/ Poll \/ SetRadioOff \/ Cancel \/ KillEnds \/ OnStart \/ ClearRadioOff) => IInv'
<1> SUFFICES ASSUME IInv,
                    OffStart \/ Poll \/ SetRadioOff \/ Cancel \/ KillEnds \/ OnStart \/ ClearRadioOff
             PROVE  IInv'
  OBVIOUS
<1>1. UNCHANGED <<InUse, Readable, urb, scheduled, status, handled>>
  BY DEF OffStart, Poll, SetRadioOff, Cancel, KillEnds, OnStart, ClearRadioOff, flags, tasklet
<1>2. marks' \in {marks, marks \cup {"crossed"}}
  BY DEF OffStart, Poll, SetRadioOff, Cancel, KillEnds, OnStart, ClearRadioOff
<1>3. \E r \in Receivers, a \in Neutral : at[r] \in Neutral /\ Go(r, a)
  <2>1. {"idle", "recv", "poll", "off", "cancel", "kill", "killed", "on"} \subseteq Neutral
    BY DEF Neutral, Places
  <2>2. \E r \in Receivers, a \in {"idle", "recv", "poll", "off", "cancel", "kill", "killed", "on"} :
           at[r] \in {"idle", "recv", "poll", "off", "cancel", "kill", "killed", "on"} /\ Go(r, a)
    BY ReceiversDiffer
       DEF OffStart, Poll, SetRadioOff, Cancel, KillEnds, OnStart, ClearRadioOff
  <2> QED
    BY <2>1, <2>2
<1> QED
  BY <1>1, <1>2, <1>3, MoveKeeps

LEMMA StepIInv == IInv /\ [Next]_vars => IInv'
<1> SUFFICES ASSUME IInv, [Next]_vars PROVE IInv'
  OBVIOUS
<1>1. ASSUME NEW c \in Callers, CallStep(c) PROVE IInv'
  <2>1. UNCHANGED buffer
    BY <1>1 DEF CallStep, Choose, Read, List, NoEntry, Kick, WaitEnds, Return, buffer, flags, tasklet
  <2> QED
    BY <2>1, Elsewhere
<1>2. ASSUME NEW r \in Receivers, Receive(r) PROVE IInv'
  BY <1>2, RecvTestKeeps, HandleKeeps, RecvClearKeeps, BulkInKeeps, SubmitKeeps, UnmarkKeeps DEF Receive
<1>3. CASE TaskletStart \/ TaskletStatus
  BY <1>3, TaskletStartKeeps, TaskletStatusKeeps
<1>4. CASE OffStart \/ RadioOffStep \/ OnStart \/ ClearRadioOff
  BY <1>4, RadioKeeps, CancelUnmarkKeeps DEF RadioOffStep
<1>5. CASE DeviceAnswers \/ DeviceDrops \/ DeviceReports
  <2>1. UNCHANGED buffer
    BY <1>5 DEF DeviceAnswers, DeviceDrops, DeviceReports, buffer, flags, tasklet
  <2> QED
    BY <2>1, Elsewhere
<1>6. CASE TransferEnds \/ TransferFails
  BY <1>6, TransferKeeps
<1>7. CASE UNCHANGED vars
  <2>1. UNCHANGED buffer
    BY <1>7 DEF vars, buffer, flags, tasklet
  <2> QED
    BY <2>1, Elsewhere
<1> QED
  BY <1>1, <1>2, <1>3, <1>4, <1>5, <1>6, <1>7 DEF Next

-----------------------------------------------------------------------------
\* InUse guards the one transfer, and what it brought is in one place, until one
\* of the three races of HandledOnce is lost.  (RTUSBBulkCmdRspEventReceive.)
THEOREM Invariance == Spec => []IInv
  BY InitIInv, StepIInv, PTL DEF Spec

\* No response or event is overwritten before it is handled, or handled twice,
\* unless one of the three races named there came first; for any callers, numbers,
\* device and bounds.  (RTUSBBulkCmdRspEventReceive, cmd_rsp_event_tasklet.)
THEOREM ResponsesHandledOnce == Spec => []HandledOnce
<1>1. IInv => HandledOnce
  BY DEF IInv, Excused, BufInv, HandledOnce
<1> QED
  BY <1>1, Invariance, PTL

-----------------------------------------------------------------------------
(* Numbers: the operators. *)

LEMMA Least ==
  ASSUME NEW S \in SUBSET Nat, S # {}
  PROVE  \E m \in S : \A k \in S : m <= k
<1> DEFINE R == OpToRel(<, Nat)
<1>1. IsWellFoundedOn(R, Nat)
  BY NatLessThanWellFounded, Zenon
<1>2. PICK m \in S : \A k \in S : ~(<<k, m>> \in R)
  <2> HIDE DEF R
  <2> QED
    BY <1>1, WFMin, Zenon
<1>3. \A k \in S : ~(k < m)
  <2> TAKE k \in S
  <2>1. k \in Nat /\ m \in Nat
    OBVIOUS
  <2>2. k < m => <<k, m>> \in R
    BY <2>1, Zenon DEF OpToRel
  <2> QED
    BY <1>2, <2>2, Zenon
<1> QED
  BY <1>3

LEMMA NumberRange ==
  ASSUME CmdSeq \in 0 .. MaxSeq, NEW k \in Nat \ {0}
  PROVE  NumberAfter(k) \in 1 .. MaxSeq
<1>1. MaxSeq \in Nat \ {0} /\ CmdSeq - 1 + k \in Nat
  BY AndesCmdAssumption
<1>2. (CmdSeq - 1 + k) % MaxSeq \in 0 .. MaxSeq - 1
  BY <1>1
<1> QED
  BY <1>1, <1>2 DEF NumberAfter

\* Less than a round of numbers ahead, without the remainder.
LEMMA NumberSoon ==
  ASSUME CmdSeq \in 0 .. MaxSeq, NEW k \in 1 .. MaxSeq
  PROVE  NumberAfter(k) = IF CmdSeq + k <= MaxSeq THEN CmdSeq + k ELSE CmdSeq + k - MaxSeq
<1>1. MaxSeq \in Nat \ {0}
  BY AndesCmdAssumption
<1>2. CASE CmdSeq + k <= MaxSeq
  <2>1. CmdSeq - 1 + k \in 0 .. MaxSeq - 1
    BY <1>1, <1>2
  <2>2. (CmdSeq - 1 + k) % MaxSeq = CmdSeq - 1 + k
    BY <1>1, <2>1
  <2> QED
    BY <1>1, <1>2, <2>2 DEF NumberAfter
<1>3. CASE CmdSeq + k > MaxSeq
  <2> DEFINE x == CmdSeq - 1 + k - MaxSeq
  <2>1. x \in 0 .. MaxSeq - 1 /\ CmdSeq - 1 + k = x + MaxSeq
    BY <1>1, <1>3
  <2> HIDE DEF x
  <2>2. (x + MaxSeq) % MaxSeq = x
    BY <1>1, <2>1
  <2> QED
    BY <1>1, <1>3, <2>1, <2>2 DEF NumberAfter
<1> QED
  BY <1>1, <1>2, <1>3

\* GetCmdSeq tries at least once.
LEMMA TriesRange == TriesOf \in 1 .. TryLimit + 1
<1> DEFINE free == {k \in 1 .. TryLimit : NumberAfter(k) \notin Listed}
<1>0. TryLimit \in Nat
  BY DEF TryLimit
<1>1. CASE free = {}
  <2>1. TriesOf = TryLimit + 1
    BY <1>1 DEF TriesOf
  <2> QED
    BY <1>0, <2>1
<1>2. CASE free # {}
  <2>1. free \in SUBSET Nat
    OBVIOUS
  <2>2. \E k \in free : \A j \in free : k <= j
    BY <1>2, <2>1, Least
  <2>3. (CHOOSE k \in free : \A j \in free : k <= j) \in free
    BY <2>2
  <2> QED
    BY <1>0, <1>2, <2>3 DEF TriesOf
<1> QED
  BY <1>1, <1>2

\* With a free number at most a round ahead, it finds one.
LEMMA TriesFind ==
  ASSUME NEW n \in 1 .. MaxSeq, n <= TryLimit, NumberAfter(n) \notin Listed
  PROVE  TriesOf \in 1 .. n /\ NumberAfter(TriesOf) \notin Listed
<1> DEFINE free == {k \in 1 .. TryLimit : NumberAfter(k) \notin Listed}
<1>1. n \in free
  BY AndesCmdAssumption DEF TryLimit
<1>2. free \in SUBSET Nat
  OBVIOUS
<1>3. \E k \in free : \A j \in free : k <= j
  BY <1>1, <1>2, Least
<1>4. TriesOf = CHOOSE k \in free : \A j \in free : k <= j
  BY <1>1 DEF TriesOf
<1>5. TriesOf \in free /\ \A j \in free : TriesOf <= j
  BY <1>3, <1>4
<1> QED
  BY <1>1, <1>5

\* What the model remembers of events ages with the numbers.
LEMMA AgedEventType == ASSUME NEW e \in Events, NEW k \in Nat PROVE AgedEvent(e, k) \in Events
<1>1. \A a \in 0 .. MaxSeq : Older(a, k) \in 0 .. MaxSeq
  BY AndesCmdAssumption DEF Older
<1> QED
  BY <1>1 DEF Events, AgedEvent

LEMMA AgedEvents ==
  ASSUME NEW es \in Seq(Events), NEW k \in Nat
  PROVE  /\ Aged(es, k) \in Seq(Events) /\ Len(Aged(es, k)) = Len(es)
         /\ \A i \in 1 .. Len(es) : Aged(es, k)[i] = AgedEvent(es[i], k)
<1>1. Len(es) \in Nat /\ DOMAIN es = 1 .. Len(es) /\ \A i \in 1 .. Len(es) : es[i] \in Events
  BY LenProperties
<1>2. \A e \in Events : AgedEvent(e, k) \in Events
  BY AgedEventType
<1>3. Aged(es, k) = [i \in 1 .. Len(es) |-> AgedEvent(es[i], k)]
  BY <1>1 DEF Aged
<1>4. \A i \in 1 .. Len(es) : AgedEvent(es[i], k) \in Events
  BY <1>1, <1>2
<1> HIDE DEF Aged, AgedEvent, Events
<1> QED
  BY <1>1, <1>3, <1>4

LEMMA GivenUpEvents ==
  ASSUME NEW es \in Seq(Events), NEW c
  PROVE  /\ GivenUp(es, c) \in Seq(Events) /\ Len(GivenUp(es, c)) = Len(es)
         /\ \A i \in 1 .. Len(es) :
               GivenUp(es, c)[i] = IF es[i].by = c THEN [es[i] EXCEPT !.live = FALSE] ELSE es[i]
<1> DEFINE g(e) == IF e.by = c THEN [e EXCEPT !.live = FALSE] ELSE e
<1>1. Len(es) \in Nat /\ DOMAIN es = 1 .. Len(es) /\ \A i \in 1 .. Len(es) : es[i] \in Events
  BY LenProperties
<1>2. \A e \in Events : g(e) \in Events
  BY DEF Events
<1>3. GivenUp(es, c) = [i \in 1 .. Len(es) |-> g(es[i])]
  BY <1>1 DEF GivenUp
<1>4. \A i \in 1 .. Len(es) : g(es[i]) \in Events
  BY <1>1, <1>2
<1>5. \A i \in 1 .. Len(es) :
          g(es[i]) = IF es[i].by = c THEN [es[i] EXCEPT !.live = FALSE] ELSE es[i]
  OBVIOUS
<1> HIDE DEF g, Events
<1> QED
  BY <1>1, <1>3, <1>4, <1>5

\* A caller that is not in the list finds the list without one of the numbers,
\* when there are no more callers than numbers.
LEMMA FreeNumber ==
  ASSUME IsFiniteSet(Callers), Cardinality(Callers) <= MaxSeq, NEW c \in Callers,
         CmdRspEventList \in Seq(Callers), c \notin ToSet(CmdRspEventList)
  PROVE  \E n \in 1 .. MaxSeq : n \notin Listed
<1> SUFFICES ASSUME \A n \in 1 .. MaxSeq : n \in Listed PROVE FALSE
  OBVIOUS
<1> DEFINE S == {d \in Callers \ {c} : seq[d] \in 1 .. MaxSeq}
           f == [d \in S |-> seq[d]]
<1>1. ToSet(CmdRspEventList) \subseteq Callers \ {c}
  <2>1. \A i \in DOMAIN CmdRspEventList : CmdRspEventList[i] \in Callers
    BY LenProperties
  <2> QED
    BY <2>1 DEF ToSet
<1>2. \A n \in 1 .. MaxSeq : \E d \in S : seq[d] = n
  BY <1>1 DEF Listed
<1>3. f \in Surjection(S, 1 .. MaxSeq)
  BY <1>2 DEF Surjection
<1>4. IsFiniteSet(Callers \ {c}) /\ Cardinality(Callers \ {c}) = Cardinality(Callers) - 1
  BY FS_RemoveElement
<1>5. S \in SUBSET (Callers \ {c})
  OBVIOUS
<1>6. IsFiniteSet(S) /\ Cardinality(S) <= Cardinality(Callers) - 1
  BY <1>4, <1>5, FS_Subset
<1>7. Cardinality(1 .. MaxSeq) <= Cardinality(S)
  BY <1>3, <1>6, FS_Surjection
<1>8. Cardinality(1 .. MaxSeq) = MaxSeq /\ MaxSeq \in Nat
  BY FS_Interval, AndesCmdAssumption
<1>9. Cardinality(S) \in Nat /\ Cardinality(Callers) \in Nat
  BY <1>6, FS_CardinalityType
<1> HIDE DEF S
<1> QED
  BY <1>6, <1>7, <1>8, <1>9

-----------------------------------------------------------------------------
(* Numbers: the types. *)

NumTypes ==
    /\ CmdSeq \in 0 .. MaxSeq
    /\ CmdRspEventList \in Seq(Callers) /\ IsInjective(CmdRspEventList)
    /\ ToSet(CmdRspEventList) = {c \in Callers : call[c] \in {"listed", "waiting", "over"}}
    /\ call \in [Callers -> Calls] /\ seq \in [Callers -> 0 .. MaxSeq]
    /\ commands \in Seq(Events) /\ events \in Seq(Events) /\ buf \in Events
    /\ Len(commands) <= DeviceRoom /\ Len(events) <= DeviceRoom
    /\ age \in [Callers -> 0 .. MaxSeq] /\ overlap \in [Callers -> SUBSET Callers]

RadioTypes ==
    /\ IRPPending \in BOOLEAN /\ killing \in BOOLEAN /\ idleRadioOff \in BOOLEAN
    /\ at \in [Receivers -> Places]
    /\ killing <=> at[Sleeper] = "kill"

\* The entry of c leaves the list, or comes to its end.
LEMMA ListGrows ==
  ASSUME NEW l \in Seq(Callers), IsInjective(l), NEW c \in Callers, c \notin ToSet(l)
  PROVE  /\ Append(l, c) \in Seq(Callers) /\ IsInjective(Append(l, c))
         /\ ToSet(Append(l, c)) = ToSet(l) \cup {c}
<1> DEFINE m == Append(l, c)
<1>1. /\ m \in Seq(Callers) /\ Len(m) = Len(l) + 1 /\ DOMAIN m = 1 .. Len(m)
      /\ \A i \in 1 .. Len(l) : m[i] = l[i]
      /\ m[Len(l) + 1] = c
  BY AppendProperties, LenProperties
<1>2. DOMAIN l = 1 .. Len(l) /\ Len(l) \in Nat
  BY LenProperties
<1>3. \A i \in 1 .. Len(l) : l[i] # c
  BY <1>2 DEF ToSet
<1> HIDE DEF m
<1>4. \A i, j \in 1 .. Len(m) : m[i] = m[j] => i = j
  <2>1. \A i \in 1 .. Len(m) : i \in 1 .. Len(l) \/ i = Len(l) + 1
    BY <1>1, <1>2
  <2>2. \A i, j \in 1 .. Len(l) : l[i] = l[j] => i = j
    BY <1>2 DEF IsInjective
  <2> QED
    BY <1>1, <1>3, <2>1, <2>2
<1>5. ToSet(m) = ToSet(l) \cup {c}
  <2>1. \A x : x \in ToSet(m) <=> \E i \in 1 .. Len(m) : m[i] = x
    BY <1>1 DEF ToSet
  <2>2. \A x : x \in ToSet(l) <=> \E i \in 1 .. Len(l) : l[i] = x
    BY <1>2 DEF ToSet
  <2>3. \A i \in 1 .. Len(m) : i \in 1 .. Len(l) \/ i = Len(l) + 1
    BY <1>1, <1>2
  <2>4. \A i \in 1 .. Len(l) : i \in 1 .. Len(m)
    BY <1>1, <1>2
  <2>5. Len(l) + 1 \in 1 .. Len(m)
    BY <1>1, <1>2
  <2> QED
    BY <1>1, <2>1, <2>2, <2>3, <2>4, <2>5
<1>6. IsInjective(m)
  BY <1>1, <1>4 DEF IsInjective
<1> QED
  BY <1>1, <1>5, <1>6 DEF m

LEMMA ListShrinks ==
  ASSUME NEW l \in Seq(Callers), IsInjective(l), NEW i \in DOMAIN l
  PROVE  /\ RemoveAt(l, i) \in Seq(Callers) /\ IsInjective(RemoveAt(l, i))
         /\ ToSet(RemoveAt(l, i)) = ToSet(l) \ {l[i]}
<1> DEFINE a == SubSeq(l, 1, i - 1)
           b == SubSeq(l, i + 1, Len(l))
           m == RemoveAt(l, i)
<1>1. DOMAIN l = 1 .. Len(l) /\ Len(l) \in Nat /\ i \in 1 .. Len(l)
      /\ \A j \in 1 .. Len(l) : l[j] \in Callers
  BY LenProperties
<1>2. a \in Seq(Callers) /\ Len(a) = i - 1 /\ \A j \in 1 .. i - 1 : a[j] = l[j]
  <2>1. \A j \in 1 .. i - 1 : l[j] \in Callers
    BY <1>1
  <2>2. 1 \in Int /\ i - 1 \in Int
    BY <1>1
  <2>3. /\ a \in Seq(Callers) /\ Len(a) = IF 1 <= i - 1 THEN (i - 1) - 1 + 1 ELSE 0
        /\ \A j \in 1 .. (i - 1) - 1 + 1 : a[j] = l[1 + j - 1]
    BY <2>1, <2>2, SubSeqProperties
  <2> QED
    BY <1>1, <2>3
<1>3. b \in Seq(Callers) /\ Len(b) = Len(l) - i /\ \A j \in 1 .. Len(l) - i : b[j] = l[i + j]
  <2>1. \A j \in i + 1 .. Len(l) : l[j] \in Callers
    BY <1>1
  <2>2. i + 1 \in Int /\ Len(l) \in Int
    BY <1>1
  <2>3. /\ b \in Seq(Callers) /\ Len(b) = IF i + 1 <= Len(l) THEN Len(l) - (i + 1) + 1 ELSE 0
        /\ \A j \in 1 .. Len(l) - (i + 1) + 1 : b[j] = l[(i + 1) + j - 1]
    BY <2>1, <2>2, SubSeqProperties
  <2> HIDE DEF b
  <2>4. Len(b) = Len(l) - i
    BY <1>1, <2>3
  <2>5. ASSUME NEW j \in 1 .. Len(l) - i PROVE b[j] = l[i + j]
    <3>1. j \in 1 .. Len(l) - (i + 1) + 1 /\ (i + 1) + j - 1 = i + j
      BY <1>1
    <3> QED
      BY <2>3, <3>1
  <2> QED
    BY <2>3, <2>4, <2>5
<1>4. /\ m \in Seq(Callers) /\ Len(m) = Len(l) - 1 /\ DOMAIN m = 1 .. Len(l) - 1
      /\ \A j \in 1 .. Len(l) - 1 : m[j] = IF j < i THEN l[j] ELSE l[j + 1]
  <2>1. m = a \o b
    BY DEF RemoveAt
  <2> HIDE DEF a, b, m
  <2>2. /\ m \in Seq(Callers) /\ Len(m) = Len(a) + Len(b)
        /\ \A j \in 1 .. Len(a) + Len(b) : m[j] = IF j <= Len(a) THEN a[j] ELSE b[j - Len(a)]
    BY <1>2, <1>3, <2>1, ConcatProperties
  <2>3. DOMAIN m = 1 .. Len(m) /\ Len(m) = Len(l) - 1
    BY <1>1, <1>2, <1>3, <2>2, LenProperties
  <2>4. ASSUME NEW j \in 1 .. Len(l) - 1 PROVE m[j] = IF j < i THEN l[j] ELSE l[j + 1]
    <3>1. CASE j < i
      <4>1. j \in 1 .. i - 1 /\ j \in 1 .. Len(a) + Len(b) /\ j <= Len(a)
        BY <1>1, <1>2, <1>3, <3>1
      <4> QED
        BY <1>2, <2>2, <3>1, <4>1
    <3>2. CASE ~(j < i)
      <4>1. j - Len(a) \in 1 .. Len(l) - i /\ i + (j - Len(a)) = j + 1
            /\ j \in 1 .. Len(a) + Len(b) /\ ~(j <= Len(a))
        <5>1. Len(a) = i - 1 /\ Len(b) = Len(l) - i
          BY <1>2, <1>3
        <5> QED
          BY <1>1, <3>2, <5>1
      <4>2. m[j] = b[j - Len(a)]
        BY <2>2, <4>1
      <4>3. b[j - Len(a)] = l[i + (j - Len(a))]
        BY <1>3, <4>1
      <4> QED
        BY <3>2, <4>1, <4>2, <4>3
    <3> QED
      BY <3>1, <3>2
  <2> QED
    BY <2>2, <2>3, <2>4
<1> HIDE DEF a, b, m
<1>5. \A j, k \in 1 .. Len(l) : l[j] = l[k] => j = k
  BY <1>1 DEF IsInjective
<1>6. IsInjective(m)
  <2> SUFFICES ASSUME NEW j \in 1 .. Len(l) - 1, NEW k \in 1 .. Len(l) - 1, m[j] = m[k]
               PROVE  j = k
    BY <1>4 DEF IsInjective
  <2>1. j \in 1 .. Len(l) /\ j + 1 \in 1 .. Len(l) /\ k \in 1 .. Len(l) /\ k + 1 \in 1 .. Len(l)
    BY <1>1
  <2> QED
    BY <1>1, <1>4, <1>5, <2>1
<1>7. ASSUME NEW x PROVE x \in ToSet(m) <=> x \in ToSet(l) /\ x # l[i]
  <2>1. x \in ToSet(m) <=> \E j \in 1 .. Len(l) - 1 : x = m[j]
    BY <1>4 DEF ToSet
  <2>2. x \in ToSet(l) <=> \E j \in 1 .. Len(l) : x = l[j]
    BY <1>1 DEF ToSet
  <2>3. ASSUME NEW j \in 1 .. Len(l) - 1 PROVE m[j] \in ToSet(l) /\ m[j] # l[i]
    <3>1. j \in 1 .. Len(l) /\ j + 1 \in 1 .. Len(l) /\ (j # i \/ j + 1 # i)
      BY <1>1
    <3> QED
      BY <1>1, <1>4, <1>5 DEF ToSet
  <2>4. ASSUME NEW j \in 1 .. Len(l), j # i PROVE \E k \in 1 .. Len(l) - 1 : l[j] = m[k]
    <3>1. CASE j < i
      <4>1. j \in 1 .. Len(l) - 1
        BY <1>1, <3>1
      <4> QED
        BY <1>4, <3>1, <4>1
    <3>2. CASE j > i
      <4>1. j - 1 \in 1 .. Len(l) - 1 /\ ~(j - 1 < i) /\ (j - 1) + 1 = j
        BY <1>1, <3>2
      <4> QED
        BY <1>4, <4>1
    <3> QED
      BY <1>1, <2>4, <3>1, <3>2
  <2> QED
    BY <1>5, <2>1, <2>2, <2>3, <2>4
<1>8. ToSet(m) = ToSet(l) \ {l[i]}
  BY <1>7
<1> QED
  BY <1>4, <1>6, <1>8 DEF m

\* The variables of the numbers.
numbers == <<CmdSeq, CmdRspEventList, call, seq, commands, events, buf, age, overlap>>

LEMMA ChooseTypes == ASSUME NumTypes, NEW c \in Callers, Choose(c) PROVE NumTypes'
<1>1. TriesOf \in Nat \ {0}
  <2>1. TryLimit \in Nat
    BY DEF TryLimit
  <2> QED
    BY <2>1, TriesRange
<1>2. CmdSeq' \in 0 .. MaxSeq
  <2>1. NumberAfter(TriesOf) \in 1 .. MaxSeq
    BY <1>1, NumberRange DEF NumTypes
  <2> QED
    BY <2>1, AndesCmdAssumption DEF Choose
<1>3. age' \in [Callers -> 0 .. MaxSeq]
  <2>1. \A a \in 0 .. MaxSeq : Older(a, TriesOf) \in 0 .. MaxSeq
    BY <1>1, AndesCmdAssumption DEF Older
  <2>2. age' = [d \in Callers |-> IF d = c THEN 0
                                  ELSE IF d \in Choosing \/ call[d] = "listed"
                                  THEN Older(age[d], TriesOf) ELSE age[d]]
    BY DEF Choose
  <2>3. 0 \in 0 .. MaxSeq /\ \A d \in Callers : age[d] \in 0 .. MaxSeq
    BY AndesCmdAssumption DEF NumTypes
  <2> QED
    BY <2>1, <2>2, <2>3
<1>4. /\ commands' \in Seq(Events) /\ Len(commands') <= DeviceRoom
      /\ events' \in Seq(Events) /\ Len(events') <= DeviceRoom
  <2>1. commands' = Aged(commands, TriesOf) /\ events' = Aged(events, TriesOf)
    BY DEF Choose
  <2> QED
    BY <1>1, <2>1, AgedEvents DEF NumTypes
<1>5. buf' \in Events
  <2>1. AgedEvent(buf, TriesOf) \in Events
    BY <1>1, AgedEventType DEF NumTypes
  <2> QED
    BY <2>1 DEF Choose
<1>6. call' = [call EXCEPT ![c] = "chosen"] /\ call[c] = "idle"
      /\ UNCHANGED <<CmdRspEventList, seq>>
  BY DEF Choose
<1>7. overlap' \in [Callers -> SUBSET Callers]
  <2>1. overlap' = [d \in Callers |-> IF d = c THEN Choosing
                                      ELSE IF d \in Choosing THEN overlap[d] \cup {c}
                                      ELSE overlap[d]]
    BY DEF Choose
  <2> QED
    BY <2>1 DEF NumTypes, Choosing
<1>8. call' \in [Callers -> Calls]
  BY <1>6 DEF NumTypes, Calls
<1>9. {d \in Callers : call'[d] \in {"listed", "waiting", "over"}}
      = {d \in Callers : call[d] \in {"listed", "waiting", "over"}}
  BY <1>6 DEF NumTypes
<1> QED
  BY <1>2, <1>3, <1>4, <1>5, <1>6, <1>7, <1>8, <1>9 DEF NumTypes

LEMMA CallTypes == ASSUME NumTypes, NEW c \in Callers, CallStep(c) PROVE NumTypes'
<1>1. CASE Choose(c)
  BY <1>1, ChooseTypes
<1>2. CASE Read(c)
  BY <1>2 DEF NumTypes, Calls, Read
<1>3. CASE List(c)
  <2>1. c \notin ToSet(CmdRspEventList)
    BY <1>3 DEF NumTypes, List
  <2>2. /\ CmdRspEventList' \in Seq(Callers) /\ IsInjective(CmdRspEventList')
        /\ ToSet(CmdRspEventList') = ToSet(CmdRspEventList) \cup {c}
    BY <1>3, <2>1, ListGrows DEF NumTypes, List
  <2>3. {d \in Callers : call'[d] \in {"listed", "waiting", "over"}}
        = {d \in Callers : call[d] \in {"listed", "waiting", "over"}} \cup {c}
    BY <1>3 DEF NumTypes, List
  <2> QED
    BY <1>3, <2>2, <2>3 DEF NumTypes, Calls, List
<1>4. CASE NoEntry(c)
  BY <1>4, AndesCmdAssumption DEF NumTypes, Calls, NoEntry
<1>5. CASE Kick(c)
  <2>1. /\ commands' \in Seq(Events) /\ Len(commands') <= DeviceRoom
    <3>1. CASE UNCHANGED commands
      BY <3>1 DEF NumTypes
    <3>2. CASE /\ Len(commands) < DeviceRoom
               /\ commands' = Append(commands, [by |-> c, seq |-> seq[c], live |-> TRUE, age |-> age[c]])
      <4>1. [by |-> c, seq |-> seq[c], live |-> TRUE, age |-> age[c]] \in Events
        BY DEF NumTypes, Events
      <4>2. Len(commands) \in Nat /\ DeviceRoom \in Nat
        BY AndesCmdAssumption DEF NumTypes
      <4> QED
        BY <3>2, <4>1, <4>2, AppendProperties DEF NumTypes
    <3> QED
      BY <1>5, <3>1, <3>2 DEF Kick
  <2>2. call' = [call EXCEPT ![c] = "waiting"] /\ call[c] = "listed"
        /\ age' = [age EXCEPT ![c] = 0]
        /\ UNCHANGED <<CmdSeq, CmdRspEventList, seq, events, buf, overlap>>
    BY <1>5 DEF Kick
  <2>3. {d \in Callers : call'[d] \in {"listed", "waiting", "over"}}
        = {d \in Callers : call[d] \in {"listed", "waiting", "over"}}
    BY <2>2 DEF NumTypes
  <2>4. 0 \in 0 .. MaxSeq
    BY AndesCmdAssumption
  <2> QED
    BY <2>1, <2>2, <2>3, <2>4 DEF NumTypes, Calls
<1>6. CASE WaitEnds(c)
  <2>1. call' = [call EXCEPT ![c] = "over"] /\ call[c] = "waiting"
        /\ UNCHANGED <<CmdSeq, CmdRspEventList, seq, commands, events, buf, age, overlap>>
    BY <1>6 DEF WaitEnds
  <2>3. {d \in Callers : call'[d] \in {"listed", "waiting", "over"}}
        = {d \in Callers : call[d] \in {"listed", "waiting", "over"}}
    BY <2>1 DEF NumTypes
  <2> QED
    BY <2>1, <2>3 DEF NumTypes, Calls
<1>7. CASE Return(c)
  <2>1. /\ CmdRspEventList' \in Seq(Callers) /\ IsInjective(CmdRspEventList')
        /\ ToSet(CmdRspEventList') = ToSet(CmdRspEventList) \ {c}
    BY <1>7, ListShrinks DEF NumTypes, Return
  <2>2. call' = [call EXCEPT ![c] = "idle"] /\ call[c] = "over"
        /\ seq' = [seq EXCEPT ![c] = 0] /\ overlap' = [overlap EXCEPT ![c] = {}]
        /\ UNCHANGED <<CmdSeq, age>>
    BY <1>7 DEF Return
  <2>3. {d \in Callers : call'[d] \in {"listed", "waiting", "over"}}
        = {d \in Callers : call[d] \in {"listed", "waiting", "over"}} \ {c}
    BY <2>2 DEF NumTypes
  <2>4. /\ commands' \in Seq(Events) /\ Len(commands') <= DeviceRoom
        /\ events' \in Seq(Events) /\ Len(events') <= DeviceRoom
    BY <1>7, GivenUpEvents DEF NumTypes, Return
  <2>5. buf' \in Events
    BY <1>7 DEF NumTypes, Return, Events
  <2>6. 0 \in 0 .. MaxSeq
    BY AndesCmdAssumption
  <2> QED
    BY <2>1, <2>2, <2>3, <2>4, <2>5, <2>6 DEF NumTypes, Calls
<1> QED
  BY <1>1, <1>2, <1>3, <1>4, <1>5, <1>6, <1>7 DEF CallStep

LEMMA DeviceTypes ==
  ASSUME NumTypes, DeviceAnswers \/ DeviceDrops \/ DeviceReports \/ TransferEnds PROVE NumTypes'
<1>1. UNCHANGED <<CmdSeq, CmdRspEventList, call, seq, age, overlap>>
  BY DEF DeviceAnswers, DeviceDrops, DeviceReports, TransferEnds, calls
<1>2. /\ Len(commands) \in Nat /\ Len(events) \in Nat /\ DeviceRoom \in Nat
      /\ Len(commands) <= DeviceRoom /\ Len(events) <= DeviceRoom
  BY AndesCmdAssumption DEF NumTypes
<1>3. SelfGenerated \in Events
  BY AndesCmdAssumption DEF SelfGenerated, Events
<1>4. /\ commands # <<>> => Head(commands) \in Events /\ Tail(commands) \in Seq(Events)
                            /\ Len(Tail(commands)) = Len(commands) - 1
      /\ events # <<>> => Head(events) \in Events /\ Tail(events) \in Seq(Events)
                          /\ Len(Tail(events)) = Len(events) - 1
  BY HeadTailProperties DEF NumTypes
<1>5. \A e \in Events : Append(events, e) \in Seq(Events) /\ Len(Append(events, e)) = Len(events) + 1
  BY AppendProperties DEF NumTypes
<1>6. /\ commands' \in Seq(Events) /\ events' \in Seq(Events) /\ buf' \in Events
      /\ Len(commands') <= DeviceRoom /\ Len(events') <= DeviceRoom
  <2>1. CASE DeviceAnswers
    BY <1>2, <1>4, <1>5, <2>1 DEF NumTypes, DeviceAnswers
  <2>2. CASE DeviceDrops
    BY <1>2, <1>4, <2>2 DEF NumTypes, DeviceDrops
  <2>3. CASE DeviceReports
    BY <1>2, <1>3, <1>5, <2>3 DEF NumTypes, DeviceReports
  <2>4. CASE TransferEnds
    BY <1>2, <1>4, <2>4 DEF NumTypes, TransferEnds
  <2> QED
    BY <2>1, <2>2, <2>3, <2>4
<1> QED
  BY <1>1, <1>6 DEF NumTypes

LEMMA RestTypes ==
  ASSUME NumTypes, UNCHANGED numbers PROVE NumTypes'
  BY DEF NumTypes, numbers

\* What reaches the numbers: the callers, and the device and its transfer.
LEMMA NumberSteps ==
  [Next]_vars => \/ \E c \in Callers : CallStep(c)
                 \/ DeviceAnswers \/ DeviceDrops \/ DeviceReports \/ TransferEnds
                 \/ UNCHANGED numbers
<1> SUFFICES ASSUME [Next]_vars
             PROVE  \/ \E c \in Callers : CallStep(c)
                    \/ DeviceAnswers \/ DeviceDrops \/ DeviceReports \/ TransferEnds
                    \/ UNCHANGED numbers
  OBVIOUS
<1>1. ASSUME NEW r \in Receivers, Receive(r) PROVE UNCHANGED numbers
  BY <1>1 DEF Receive, RecvTest, Handle, RecvClear, BulkIn, Submit, Unmark, numbers, calls
<1>2. CASE TaskletStart \/ TaskletStatus \/ TransferFails
  BY <1>2 DEF TaskletStart, TaskletStatus, TransferFails, numbers, calls
<1>3. CASE OffStart \/ RadioOffStep \/ OnStart \/ ClearRadioOff
  BY <1>3 DEF OffStart, RadioOffStep, Poll, SetRadioOff, Cancel, KillEnds, CancelUnmark, OnStart,
              ClearRadioOff, numbers, calls
<1>4. CASE UNCHANGED vars
  BY <1>4 DEF vars, numbers, calls
<1> QED
  BY <1>1, <1>2, <1>3, <1>4 DEF Next

LEMMA StepNumTypes == NumTypes /\ [Next]_vars => NumTypes'
  BY NumberSteps, CallTypes, DeviceTypes, RestTypes

\* usb_kill_urb is at work while the radio-off thread waits for it.
LEMMA RadioMoves ==
  ASSUME RadioTypes, NEW r \in Receivers, NEW a \in Places, at' = [at EXCEPT ![r] = a],
         IRPPending' \in BOOLEAN, idleRadioOff' \in BOOLEAN,
         \/ UNCHANGED killing /\ (r = Sleeper => at[Sleeper] # "kill" /\ a # "kill")
         \/ r = Sleeper /\ killing' = (a = "kill")
  PROVE  RadioTypes'
<1>1. Sleeper \in Receivers /\ at' \in [Receivers -> Places]
  BY ReceiversDiffer DEF RadioTypes
<1>2. at'[Sleeper] = IF r = Sleeper THEN a ELSE at[Sleeper]
  BY <1>1 DEF RadioTypes
<1>3. killing' \in BOOLEAN /\ (killing' <=> at'[Sleeper] = "kill")
  <2>1. CASE UNCHANGED killing /\ r = Sleeper /\ at[Sleeper] # "kill" /\ a # "kill"
    BY <1>2, <2>1, Zenon DEF RadioTypes
  <2>2. CASE UNCHANGED killing /\ r # Sleeper
    BY <1>2, <2>2, Zenon DEF RadioTypes
  <2>3. CASE r = Sleeper /\ killing' = (a = "kill")
    BY <1>2, <2>3
  <2> QED
    BY <2>1, <2>2, <2>3
<1> QED
  BY <1>1, <1>3 DEF RadioTypes

LEMMA StepRadioTypes == RadioTypes /\ [Next]_vars => RadioTypes'
<1> SUFFICES ASSUME RadioTypes, [Next]_vars PROVE RadioTypes'
  OBVIOUS
<1>0. Sleeper \in Receivers /\ Waker \in Receivers /\ Tasklet \in Receivers
      /\ Tasklet # Sleeper /\ Waker # Sleeper
  BY ReceiversDiffer
<1>1. IRPPending \in BOOLEAN /\ idleRadioOff \in BOOLEAN
  BY DEF RadioTypes
<1>2. ASSUME UNCHANGED <<IRPPending, killing, idleRadioOff, at>> PROVE RadioTypes'
  BY <1>2 DEF RadioTypes
<1>3. ASSUME NEW c \in Callers, CallStep(c) PROVE RadioTypes'
  BY <1>2, <1>3 DEF CallStep, Choose, Read, List, NoEntry, Kick, WaitEnds, Return, flags
<1>4. ASSUME NEW r \in Receivers, Receive(r) PROVE RadioTypes'
  <2>1. PICK a \in {"handle", "submit?", "clear", "poll", "idle", "submit", "unmark"} :
           at' = [at EXCEPT ![r] = a]
    BY <1>4 DEF Receive, RecvTest, Handle, RecvClear, BulkIn, Submit, Unmark, Go, Done
  <2>2. at[r] # "kill" /\ IRPPending' \in {IRPPending, TRUE, FALSE} /\ UNCHANGED <<killing, idleRadioOff>>
    BY <1>4 DEF Receive, RecvTest, Handle, RecvClear, BulkIn, Submit, Unmark, flags
  <2>3. a \in Places /\ a # "kill"
    BY DEF Places
  <2> QED
    BY <1>1, <2>1, <2>2, <2>3, RadioMoves
<1>5. CASE TaskletStart \/ TaskletStatus
  <2>1. PICK a \in {"status", "recv"} : at' = [at EXCEPT ![Tasklet] = a]
    BY <1>5 DEF TaskletStart, TaskletStatus, Go
  <2>2. IRPPending' \in {IRPPending, FALSE} /\ UNCHANGED <<killing, idleRadioOff>>
    BY <1>5 DEF TaskletStart, TaskletStatus
  <2> QED
    BY <1>0, <1>1, <2>1, <2>2, RadioMoves DEF Places
<1>6. CASE OffStart \/ Poll \/ SetRadioOff \/ CancelUnmark
  <2>1. PICK a \in {"poll", "recv", "off", "idle", "cancel"} : at' = [at EXCEPT ![Sleeper] = a]
    BY <1>6 DEF OffStart, Poll, SetRadioOff, CancelUnmark, Go
  <2>2. /\ at[Sleeper] # "kill" /\ IRPPending' \in {IRPPending, FALSE}
        /\ idleRadioOff' \in {idleRadioOff, TRUE} /\ UNCHANGED killing
    BY <1>6 DEF OffStart, Poll, SetRadioOff, CancelUnmark, flags
  <2> QED
    BY <1>0, <1>1, <2>1, <2>2, RadioMoves DEF Places
<1>7. CASE Cancel
  <2>1. UNCHANGED <<IRPPending, idleRadioOff>> /\ at[Sleeper] # "kill"
    BY <1>7 DEF Cancel, flags
  <2>2. CASE killing' = TRUE /\ at' = [at EXCEPT ![Sleeper] = "kill"]
    BY <1>0, <1>1, <2>1, <2>2, RadioMoves DEF Places
  <2>3. CASE UNCHANGED killing /\ at' = [at EXCEPT ![Sleeper] = "idle"]
    BY <1>0, <1>1, <2>1, <2>3, RadioMoves DEF Places
  <2> QED
    BY <1>7, <2>2, <2>3 DEF Cancel, Go
<1>8. CASE KillEnds
  <2>1. UNCHANGED <<IRPPending, idleRadioOff>> /\ killing' = FALSE
        /\ at' = [at EXCEPT ![Sleeper] = "killed"]
    BY <1>8 DEF KillEnds, flags, Go
  <2> QED
    BY <1>0, <1>1, <2>1, RadioMoves DEF Places
<1>9. CASE OnStart \/ ClearRadioOff
  <2>1. PICK a \in {"on", "recv"} : at' = [at EXCEPT ![Waker] = a]
    BY <1>9 DEF OnStart, ClearRadioOff, Go
  <2>2. UNCHANGED <<IRPPending, killing>> /\ idleRadioOff' \in {idleRadioOff, FALSE}
    BY <1>9 DEF OnStart, ClearRadioOff, flags
  <2> QED
    BY <1>0, <1>1, <2>1, <2>2, RadioMoves DEF Places
<1>10. CASE DeviceAnswers \/ DeviceDrops \/ DeviceReports \/ TransferEnds \/ TransferFails
  BY <1>2, <1>10 DEF DeviceAnswers, DeviceDrops, DeviceReports, TransferEnds, TransferFails, flags
<1>11. CASE UNCHANGED vars
  BY <1>2, <1>11 DEF vars, flags
<1> QED
  BY <1>3, <1>4, <1>5, <1>6, <1>7, <1>8, <1>9, <1>10, <1>11 DEF Next, RadioOffStep

LEMMA InitTypes == Init => NumTypes /\ RadioTypes
<1> SUFFICES ASSUME Init PROVE NumTypes /\ RadioTypes
  OBVIOUS
<1>1. NumTypes
  <2>1. /\ CmdSeq = 0 /\ CmdRspEventList = <<>> /\ commands = <<>> /\ events = <<>>
        /\ buf = SelfGenerated
    BY DEF Init
  <2>2. /\ call = [c \in Callers |-> "idle"] /\ seq = [c \in Callers |-> 0]
        /\ overlap = [c \in Callers |-> {}] /\ age = [c \in Callers |-> 0]
    BY DEF Init
  <2>3. <<>> \in Seq(Callers) /\ IsInjective(<<>>) /\ ToSet(<<>>) = {}
    BY DEF IsInjective, ToSet
  <2>4. SelfGenerated \in Events /\ 0 \in 0 .. MaxSeq
    BY AndesCmdAssumption DEF SelfGenerated, Events
  <2>5. <<>> \in Seq(Events) /\ Len(<<>>) <= DeviceRoom
    BY AndesCmdAssumption
  <2>6. {c \in Callers : call[c] \in {"listed", "waiting", "over"}} = {}
    BY <2>2
  <2> QED
    BY <2>1, <2>2, <2>3, <2>4, <2>5, <2>6 DEF NumTypes, Calls
<1>2. RadioTypes
  <2>1. at = [r \in Receivers |-> "idle"] /\ Sleeper \in Receivers
    BY ReceiversDiffer DEF Init
  <2>2. IRPPending = TRUE /\ killing = FALSE /\ idleRadioOff = FALSE
    BY DEF Init
  <2>3. at \in [Receivers -> Places]
    BY <2>1, Zenon DEF Places
  <2>4. at[Sleeper] # "kill"
    BY <2>1
  <2> QED
    BY <2>2, <2>3, <2>4, Zenon DEF RadioTypes
<1> QED
  BY <1>1, <1>2

\* CmdRspEventList names the callers that wait for a response and no others, once
\* each, and the kill of the transfer lasts as long as the radio-off thread waits
\* for it; for any callers, numbers, device and bounds.  (GetCmdSeq, DlListAddTail,
\* DlListDel, RTUSBCancelPendingBulkInIRP.)
THEOREM TypeCorrect == Spec => []TypeOK
<1>1. NumTypes /\ RadioTypes /\ IInv => TypeOK
  <2> SUFFICES ASSUME NumTypes, RadioTypes, IInv PROVE TypeOK
    OBVIOUS
  <2>1. {InUse, Readable, IRPPending, killing, scheduled, idleRadioOff} \subseteq BOOLEAN
    BY Zenon DEF RadioTypes, IInv, BufTypes
  <2>2. {urb, status} \subseteq {"flying", "ok", "error"}
    BY DEF IInv, BufTypes
  <2>3. at \in [Receivers -> Places] /\ (killing <=> at[Sleeper] = "kill")
    BY DEF RadioTypes
  <2> QED
    BY <2>1, <2>2, <2>3, Zenon DEF TypeOK, NumTypes, Places
<1> QED
  BY <1>1, InitTypes, StepNumTypes, StepRadioTypes, Invariance, PTL DEF Spec

-----------------------------------------------------------------------------
(* Numbers: why a wait is ended by its own response. *)

\* No more threads wait than there are numbers, and GetCmdSeq tries them all.
Enough == IsFiniteSet(Callers) /\ Cardinality(Callers) <= MaxSeq /\ MaxSeq <= TryLimit

\* The commands and responses under way, in any of the three places.
Messages == {commands[i] : i \in 1 .. Len(commands)} \cup {events[i] : i \in 1 .. Len(events)} \cup {buf}
Numbered(c) == call[c] \in {"numbered", "listed", "waiting", "over"}
\* A message of a caller that has given up, a whole round of numbers ago.
Outdated(e) == e.age = MaxSeq /\ ~e.live
\* How many numbers ago number s was taken last.
Dist(s) == IF CmdSeq >= s THEN CmdSeq - s ELSE CmdSeq - s + MaxSeq

\* A message whose number a caller has, or reads next, is its own, of a call that
\* overlapped, or outdated.
MsgInv(e) ==
    /\ e.seq \in 1 .. MaxSeq /\ CmdSeq \in 1 .. MaxSeq
    /\ Dist(e.seq) <= e.age
    /\ e.live => call[e.by] \in {"waiting", "over"} /\ seq[e.by] = e.seq
    /\ \A c \in Callers : call[c] = "chosen" =>
          e.by \in overlap[c] \/ CmdSeq # e.seq \/ Outdated(e)
    /\ \A c \in Callers : Numbered(c) /\ seq[c] = e.seq =>
          (e.by = c /\ e.live) \/ e.by \in overlap[c] \/ Outdated(e)

\* The same of the callers' own numbers.
CallInv(c) ==
    /\ call[c] # "idle" => CmdSeq \in 1 .. MaxSeq
    /\ Numbered(c) => seq[c] \in 1 .. MaxSeq
    /\ call[c] \in {"numbered", "listed"} => Dist(seq[c]) <= age[c]
PairInv(c, y) ==
    /\ call[c] = "chosen" /\ Numbered(y) => y \in overlap[c] \/ CmdSeq # seq[y]
    /\ Numbered(c) /\ Numbered(y) /\ seq[c] = seq[y] => y \in overlap[c]
    /\ y \in Choosing /\ call[c] # "idle" /\ c \in overlap[y] => y \in overlap[c]
    /\ y \in Choosing /\ c \in Choosing => y \in overlap[c]

AllMessages == \A e \in Messages : e.by # NoCaller => MsgInv(e)
AllCallers == \A c \in Callers : CallInv(c) /\ \A y \in Callers \ {c} : PairInv(c, y)
NumInv == NumTypes /\ AllMessages /\ AllCallers

LEMMA MessageTypes == ASSUME NumTypes PROVE Messages \subseteq Events
  BY LenProperties DEF NumTypes, Messages

LEMMA DistAdvances ==
  ASSUME NEW k \in 1 .. MaxSeq, CmdSeq \in 1 .. MaxSeq, CmdSeq' = NumberAfter(k),
         NEW s \in 1 .. MaxSeq, NEW a \in 0 .. MaxSeq, Dist(s) <= a
  PROVE  Dist(s)' <= Older(a, k) /\ (CmdSeq' = s => Older(a, k) = MaxSeq)
<1>1. MaxSeq \in Nat \ {0} /\ CmdSeq \in Nat /\ s \in Nat /\ k \in Nat /\ a \in Nat
  BY AndesCmdAssumption
<1>2. CmdSeq' = IF CmdSeq + k <= MaxSeq THEN CmdSeq + k ELSE CmdSeq + k - MaxSeq
  BY <1>1, NumberSoon
<1>3. CASE CmdSeq >= s
  BY <1>1, <1>2, <1>3 DEF Dist, Older
<1>4. CASE CmdSeq < s
  BY <1>1, <1>2, <1>4 DEF Dist, Older
<1> QED
  BY <1>1, <1>3, <1>4

\* GetCmdSeq takes a number nobody waits for.
LEMMA ChooseFinds ==
  ASSUME Enough, NumTypes, NEW c \in Callers, Choose(c)
  PROVE  /\ TriesOf \in 1 .. MaxSeq /\ CmdSeq' = NumberAfter(TriesOf)
         /\ CmdSeq' \in 1 .. MaxSeq
         /\ \A y \in Callers : call[y] \in {"listed", "waiting", "over"} => seq[y] # CmdSeq'
<1>0. MaxSeq \in Nat \ {0} /\ CmdSeq \in 0 .. MaxSeq /\ CmdSeq' = NumberAfter(TriesOf)
  BY AndesCmdAssumption DEF NumTypes, Choose
<1>1. c \notin ToSet(CmdRspEventList)
  BY DEF NumTypes, Choose
<1>2. PICK n \in 1 .. MaxSeq : n \notin Listed
  BY <1>1, FreeNumber DEF Enough, NumTypes
<1> DEFINE j == IF n > CmdSeq THEN n - CmdSeq ELSE n - CmdSeq + MaxSeq
<1>3. j \in 1 .. MaxSeq /\ n = IF CmdSeq + j <= MaxSeq THEN CmdSeq + j ELSE CmdSeq + j - MaxSeq
  BY <1>0
<1> HIDE DEF j
<1>4. NumberAfter(j) \notin Listed
  BY <1>0, <1>2, <1>3, NumberSoon
<1>5. TriesOf \in 1 .. j /\ NumberAfter(TriesOf) \notin Listed
  <2>1. j <= TryLimit
    <3>1. TryLimit \in Nat /\ MaxSeq <= TryLimit
      BY DEF TryLimit, Enough
    <3> QED
      BY <1>0, <1>3, <3>1
  <2> QED
    BY <1>3, <1>4, <2>1, TriesFind
<1>6. CmdSeq' \in 1 .. MaxSeq
  BY <1>0, <1>3, <1>5, NumberRange
<1>7. \A y \in Callers : call[y] \in {"listed", "waiting", "over"} => seq[y] \in Listed
  BY DEF NumTypes, Listed
<1> QED
  BY <1>0, <1>3, <1>5, <1>6, <1>7

LEMMA ChooseMessages ==
  ASSUME Enough, NumInv, NEW c \in Callers, Choose(c), NumTypes'
  PROVE  AllMessages'
<1>0. PICK k \in 1 .. MaxSeq : k = TriesOf
  BY ChooseFinds DEF NumInv
<1>1. /\ CmdSeq' = NumberAfter(k) /\ CmdSeq' \in 1 .. MaxSeq
      /\ \A y \in Callers : call[y] \in {"listed", "waiting", "over"} => seq[y] # CmdSeq'
  BY <1>0, ChooseFinds DEF NumInv
<1>2. /\ call[c] = "idle" /\ call' = [call EXCEPT ![c] = "chosen"] /\ seq' = seq
      /\ commands' = Aged(commands, k) /\ events' = Aged(events, k) /\ buf' = AgedEvent(buf, k)
  BY <1>0 DEF Choose
<1>3. overlap' = [d \in Callers |-> IF d = c THEN Choosing
                                    ELSE IF d \in Choosing THEN overlap[d] \cup {c}
                                    ELSE overlap[d]]
  BY DEF Choose
<1>4. k \in Nat /\ MaxSeq \in Nat \ {0}
  BY AndesCmdAssumption
<1>5. \A x \in Messages' : \E e \in Messages : x = AgedEvent(e, k)
  <2>1. /\ Len(commands') = Len(commands)
        /\ \A i \in 1 .. Len(commands) : commands'[i] = AgedEvent(commands[i], k)
        /\ Len(events') = Len(events)
        /\ \A i \in 1 .. Len(events) : events'[i] = AgedEvent(events[i], k)
    BY <1>2, <1>4, AgedEvents DEF NumInv, NumTypes
  <2> QED
    BY <1>2, <2>1 DEF Messages
<1> SUFFICES ASSUME NEW x \in Messages', x.by # NoCaller PROVE MsgInv(x)'
  BY DEF AllMessages
<1>16. PICK e \in Messages : x = AgedEvent(e, k)
  BY <1>5
<1>6. e \in Events /\ e.by \in Callers /\ e.by # NoCaller /\ MsgInv(e)
  <2>1. e \in Events
    BY MessageTypes DEF NumInv
  <2>2. e.by # NoCaller
    BY <1>16, <2>1 DEF AgedEvent
  <2> QED
    BY <2>1, <2>2 DEF Events, NumInv, AllMessages
<1>7. x.by = e.by /\ x.seq = e.seq /\ x.live = e.live /\ x.age = Older(e.age, k)
  BY <1>16, <1>6 DEF AgedEvent, Events
<1>8. e.seq \in 1 .. MaxSeq /\ CmdSeq \in 1 .. MaxSeq /\ Dist(e.seq) <= e.age /\ e.age \in 0 .. MaxSeq
  BY <1>6 DEF MsgInv, Events
<1>9. Dist(x.seq)' <= x.age /\ (CmdSeq' = x.seq => x.age = MaxSeq)
  BY <1>1, <1>7, <1>8, DistAdvances
<1>10. Outdated(e) => Outdated(x)
  BY <1>4, <1>7 DEF Outdated, Older
<1>11. \A d \in Callers : d # c => call'[d] = call[d] /\ overlap[d] \subseteq overlap'[d]
  BY <1>2, <1>3 DEF NumInv, NumTypes
<1>12. x.live => call'[x.by] \in {"waiting", "over"} /\ seq'[x.by] = x.seq
  BY <1>2, <1>6, <1>7, <1>11 DEF MsgInv
<1>13. ASSUME NEW d \in Callers, call'[d] = "chosen", CmdSeq' = x.seq PROVE Outdated(x)
  <2>1. ~x.live
    BY <1>1, <1>2, <1>6, <1>7, <1>13 DEF MsgInv
  <2> QED
    BY <1>9, <1>13, <2>1 DEF Outdated
<1>14. ASSUME NEW d \in Callers, Numbered(d)', seq'[d] = x.seq
       PROVE  (x.by = d /\ x.live) \/ x.by \in overlap'[d] \/ Outdated(x)
  <2>1. d # c /\ Numbered(d) /\ seq[d] = e.seq
    BY <1>2, <1>7, <1>11, <1>14 DEF Numbered, NumInv, NumTypes
  <2>2. (e.by = d /\ e.live) \/ e.by \in overlap[d] \/ Outdated(e)
    BY <1>6, <2>1 DEF MsgInv
  <2> QED
    BY <1>7, <1>10, <1>11, <2>1, <2>2
<1>15. x.seq \in 1 .. MaxSeq
  BY <1>7, <1>8
<1> QED
  BY <1>1, <1>9, <1>12, <1>13, <1>14, <1>15 DEF MsgInv, Outdated

LEMMA ChooseCallers ==
  ASSUME Enough, NumInv, NEW c \in Callers, Choose(c), NumTypes'
  PROVE  AllCallers'
<1>0. PICK k \in 1 .. MaxSeq : k = TriesOf
  BY ChooseFinds DEF NumInv
<1>1. /\ CmdSeq' = NumberAfter(k) /\ CmdSeq' \in 1 .. MaxSeq
      /\ \A y \in Callers : call[y] \in {"listed", "waiting", "over"} => seq[y] # CmdSeq'
  BY <1>0, ChooseFinds DEF NumInv
<1>2. /\ call[c] = "idle" /\ call' = [call EXCEPT ![c] = "chosen"] /\ seq' = seq
  BY DEF Choose
<1>3. /\ overlap'[c] = Choosing
      /\ \A d \in Callers : d # c => overlap'[d] = IF d \in Choosing THEN overlap[d] \cup {c} ELSE overlap[d]
  BY DEF Choose
<1>4. \A d \in Callers : d # c /\ (d \in Choosing \/ call[d] = "listed") => age'[d] = Older(age[d], k)
  BY <1>0 DEF Choose
<1>5. call'[c] = "chosen" /\ \A d \in Callers : d # c => call'[d] = call[d]
  BY <1>2 DEF NumInv, NumTypes
<1>6. Choosing' = Choosing \cup {c} /\ c \notin Choosing
  BY <1>2, <1>5 DEF Choosing
<1>7. ASSUME NEW d \in Callers PROVE CallInv(d)'
  <2>1. Numbered(d)' => d # c /\ Numbered(d) /\ seq'[d] \in 1 .. MaxSeq
    BY <1>2, <1>5 DEF Numbered, NumInv, AllCallers, CallInv
  <2>2. ASSUME call'[d] \in {"numbered", "listed"} PROVE (Dist(seq[d]) <= age[d])'
    <3>1. d # c /\ call[d] \in {"numbered", "listed"}
      BY <1>5, <2>2
    <3>2. PICK n, a : n = seq[d] /\ a = age[d]
      OBVIOUS
    <3>3. n \in 1 .. MaxSeq /\ a \in 0 .. MaxSeq /\ Dist(n) <= a /\ CmdSeq \in 1 .. MaxSeq
      BY <3>1, <3>2 DEF NumInv, NumTypes, AllCallers, CallInv, Numbered
    <3>4. Dist(n)' <= Older(a, k)
      BY <1>1, <3>3, DistAdvances
    <3>5. seq'[d] = n /\ age'[d] = Older(a, k)
      BY <1>2, <1>4, <3>1, <3>2 DEF Choosing
    <3> QED
      BY <3>4, <3>5 DEF Dist
  <2> QED
    BY <1>1, <2>1, <2>2 DEF CallInv
<1>8. ASSUME NEW d \in Callers, NEW y \in Callers \ {d} PROVE PairInv(d, y)'
  <2>1. PairInv(d, y)
    BY DEF NumInv, AllCallers
  <2>2. ASSUME call'[d] = "chosen", Numbered(y)' PROVE y \in overlap'[d] \/ CmdSeq' # seq'[y]
    <3>1. y # c /\ Numbered(y)
      BY <1>5, <2>2 DEF Numbered
    <3>2. CASE y \in Choosing
      BY <1>3, <1>5, <2>1, <2>2, <3>1, <3>2 DEF PairInv, Choosing
    <3>3. CASE y \notin Choosing
      BY <1>1, <1>2, <3>1, <3>3 DEF Numbered, Choosing
    <3> QED
      BY <3>2, <3>3
  <2>3. ASSUME Numbered(d)', Numbered(y)', seq'[d] = seq'[y] PROVE y \in overlap'[d]
    <3>1. d # c /\ y # c /\ Numbered(d) /\ Numbered(y)
      BY <1>5, <2>3 DEF Numbered
    <3> QED
      BY <1>2, <1>3, <2>1, <2>3, <3>1 DEF PairInv
  <2>4. ASSUME y \in Choosing', call'[d] # "idle", d \in overlap'[y] PROVE y \in overlap'[d]
    <3>1. CASE y = c
      BY <1>3, <2>4, <3>1
    <3>2. CASE d = c
      BY <1>3, <1>6, <2>4, <3>2
    <3>3. CASE d # c /\ y # c
      BY <1>3, <1>5, <1>6, <2>1, <2>4, <3>3 DEF PairInv
    <3> QED
      BY <3>1, <3>2, <3>3
  <2>5. ASSUME y \in Choosing', d \in Choosing' PROVE y \in overlap'[d]
    <3>1. CASE y = c
      BY <1>3, <1>6, <2>5, <3>1
    <3>2. CASE d = c
      BY <1>3, <1>6, <2>5, <3>2
    <3>3. CASE d # c /\ y # c
      BY <1>3, <1>6, <2>1, <2>5, <3>3 DEF PairInv
    <3> QED
      BY <3>1, <3>2, <3>3
  <2> QED
    BY <2>2, <2>3, <2>4, <2>5 DEF PairInv
<1> QED
  BY <1>7, <1>8 DEF AllCallers
\* What a step of c does to the other callers: nothing.
LEMMA OthersStay ==
  ASSUME NumTypes, NEW c \in Callers,
         Read(c) \/ List(c) \/ NoEntry(c) \/ Kick(c) \/ WaitEnds(c) \/ Return(c)
  PROVE  /\ CmdSeq' = CmdSeq
         /\ \A d \in Callers \ {c} : /\ call'[d] = call[d] /\ seq'[d] = seq[d]
                                     /\ overlap'[d] = overlap[d] /\ age'[d] = age[d]
  BY DEF NumTypes, Read, List, NoEntry, Kick, WaitEnds, Return

LEMMA CallCallers ==
  ASSUME NumInv, NEW c \in Callers,
         Read(c) \/ List(c) \/ NoEntry(c) \/ Kick(c) \/ WaitEnds(c) \/ Return(c)
  PROVE  AllCallers'
<1>1. /\ CmdSeq' = CmdSeq
      /\ \A d \in Callers \ {c} : /\ call'[d] = call[d] /\ seq'[d] = seq[d]
                                  /\ overlap'[d] = overlap[d] /\ age'[d] = age[d]
  BY OthersStay DEF NumInv
<1>2. \A s : Dist(s)' = Dist(s)
  BY <1>1 DEF Dist
<1>3. ASSUME NEW d \in Callers \ {c} PROVE CallInv(d)'
  BY <1>1, <1>2 DEF NumInv, AllCallers, CallInv, Numbered
<1>4. ASSUME NEW d \in Callers \ {c}, NEW y \in Callers \ {c, d} PROVE PairInv(d, y)'
  BY <1>1 DEF NumInv, AllCallers, PairInv, Numbered, Choosing
<1>5. CallInv(c) /\ \A d \in Callers \ {c} : PairInv(c, d) /\ PairInv(d, c)
  BY DEF NumInv, AllCallers
<1>6. CASE Read(c)
  <2>1. /\ call[c] = "chosen" /\ call'[c] = "numbered" /\ seq'[c] = CmdSeq
        /\ overlap'[c] = overlap[c] /\ age'[c] = age[c]
    BY <1>6 DEF Read, NumInv, NumTypes
  <2>2. CallInv(c)'
    <3>1. CmdSeq \in 1 .. MaxSeq /\ age[c] \in 0 .. MaxSeq /\ MaxSeq \in Nat
      BY <1>5, <2>1, AndesCmdAssumption DEF CallInv, NumInv, NumTypes
    <3>2. Dist(CmdSeq) <= age[c]
      BY <3>1 DEF Dist
    <3>3. (Dist(seq[c]) <= age[c])'
      BY <1>1, <2>1, <3>2 DEF Dist
    <3> QED
      BY <1>1, <2>1, <3>1, <3>3 DEF CallInv
  <2>3. ASSUME NEW d \in Callers \ {c} PROVE PairInv(c, d)' /\ PairInv(d, c)'
    BY <1>1, <1>5, <2>1 DEF PairInv, Numbered, Choosing
  <2> QED
    BY <1>3, <1>4, <2>2, <2>3 DEF AllCallers
<1>7. CASE List(c) \/ Kick(c) \/ WaitEnds(c)
  <2>1. /\ call[c] \in {"numbered", "listed", "waiting"} /\ call'[c] \in {"listed", "waiting", "over"}
        /\ call'[c] = "listed" => call[c] = "numbered" /\ age'[c] = age[c]
        /\ seq'[c] = seq[c] /\ overlap'[c] = overlap[c]
    BY <1>7 DEF List, Kick, WaitEnds, NumInv, NumTypes
  <2>2. CallInv(c)'
    BY <1>1, <1>2, <1>5, <2>1 DEF CallInv, Numbered
  <2>3. ASSUME NEW d \in Callers \ {c} PROVE PairInv(c, d)' /\ PairInv(d, c)'
    BY <1>1, <1>5, <2>1 DEF PairInv, Numbered, Choosing
  <2> QED
    BY <1>3, <1>4, <2>2, <2>3 DEF AllCallers
<1>8. CASE NoEntry(c) \/ Return(c)
  <2>1. call'[c] = "idle"
    BY <1>8 DEF NoEntry, Return, NumInv, NumTypes
  <2>2. CallInv(c)' /\ \A d \in Callers \ {c} : PairInv(c, d)' /\ PairInv(d, c)'
    BY <2>1 DEF CallInv, PairInv, Numbered, Choosing
  <2> QED
    BY <1>3, <1>4, <2>2 DEF AllCallers
<1> QED
  BY <1>6, <1>7, <1>8

\* A message whose caller c moves without a new number for the others.
LEMMA MessageStays ==
  ASSUME NumInv, NEW c \in Callers, NEW e \in Messages, e.by # NoCaller,
         Read(c) \/ List(c) \/ NoEntry(c) \/ Kick(c) \/ WaitEnds(c)
  PROVE  MsgInv(e)'
<1>1. /\ CmdSeq' = CmdSeq
      /\ \A d \in Callers \ {c} : /\ call'[d] = call[d] /\ seq'[d] = seq[d]
                                  /\ overlap'[d] = overlap[d] /\ age'[d] = age[d]
  BY OthersStay DEF NumInv
<1>2. MsgInv(e) /\ e.by \in Callers
  BY MessageTypes DEF NumInv, AllMessages, Events
<1>3. Dist(e.seq)' = Dist(e.seq)
  BY <1>1 DEF Dist
<1>4. CASE Read(c)
  <2>1. call[c] = "chosen" /\ call'[c] = "numbered" /\ seq'[c] = CmdSeq /\ overlap'[c] = overlap[c]
    BY <1>4 DEF Read, NumInv, NumTypes
  <2> QED
    BY <1>1, <1>2, <1>3, <2>1 DEF MsgInv, Numbered, Outdated
<1>5. CASE List(c) \/ Kick(c) \/ WaitEnds(c)
  <2>1. /\ call[c] \in {"numbered", "listed", "waiting"} /\ call'[c] \in {"listed", "waiting", "over"}
        /\ call[c] = "waiting" => call'[c] = "over"
        /\ seq'[c] = seq[c] /\ overlap'[c] = overlap[c]
    BY <1>5 DEF List, Kick, WaitEnds, NumInv, NumTypes
  <2> QED
    BY <1>1, <1>2, <1>3, <2>1 DEF MsgInv, Numbered, Outdated
<1>6. CASE NoEntry(c)
  <2>1. call[c] = "numbered" /\ call'[c] = "idle"
    BY <1>6 DEF NoEntry, NumInv, NumTypes
  <2> QED
    BY <1>1, <1>2, <1>3, <2>1 DEF MsgInv, Numbered, Outdated
<1> QED
  BY <1>4, <1>5, <1>6

LEMMA CallMessages ==
  ASSUME NumInv, NEW c \in Callers, Read(c) \/ List(c) \/ NoEntry(c) \/ WaitEnds(c)
  PROVE  AllMessages'
<1>1. Messages' = Messages
  BY DEF Messages, Read, List, NoEntry, WaitEnds
<1> QED
  BY <1>1, MessageStays DEF AllMessages

LEMMA KickMessages == ASSUME NumInv, NEW c \in Callers, Kick(c) PROVE AllMessages'
<1> SUFFICES ASSUME NEW x \in Messages', x.by # NoCaller PROVE MsgInv(x)'
  BY DEF AllMessages
<1>1. CASE x \in Messages
  BY <1>1, MessageStays
<1>2. CASE x \notin Messages
  <2>1. x = [by |-> c, seq |-> seq[c], live |-> TRUE, age |-> age[c]]
    <3>1. PICK m : m = [by |-> c, seq |-> seq[c], live |-> TRUE, age |-> age[c]]
      OBVIOUS
    <3>2. m \in Events
      BY <3>1 DEF NumInv, NumTypes, Events
    <3>3. /\ Len(Append(commands, m)) = Len(commands) + 1 /\ Len(commands) \in Nat
          /\ \A i \in 1 .. Len(commands) : Append(commands, m)[i] = commands[i]
          /\ Append(commands, m)[Len(commands) + 1] = m
      BY <3>2, AppendProperties DEF NumInv, NumTypes
    <3>4. commands' = commands \/ commands' = Append(commands, m)
      BY <3>1 DEF Kick
    <3>5. events' = events /\ buf' = buf
      BY DEF Kick
    <3> QED
      BY <1>2, <3>1, <3>3, <3>4, <3>5 DEF Messages
  <2>2. x.by = c /\ x.seq = seq[c] /\ x.live = TRUE /\ x.age = age[c]
    BY <2>1
  <2>3. /\ call[c] = "listed" /\ call' = [call EXCEPT ![c] = "waiting"]
        /\ UNCHANGED <<CmdSeq, seq, overlap>>
    BY DEF Kick
  <2>4. call'[c] = "waiting" /\ \A d \in Callers \ {c} : call'[d] = call[d]
    BY <2>3 DEF NumInv, NumTypes
  <2>5. /\ x.seq \in 1 .. MaxSeq /\ CmdSeq \in 1 .. MaxSeq /\ Dist(x.seq) <= x.age
    BY <2>2, <2>3 DEF NumInv, AllCallers, CallInv, Numbered
  <2>6. Dist(x.seq)' = Dist(x.seq)
    BY <2>3 DEF Dist
  <2>7. \A d \in Callers \ {c} : PairInv(d, c)
    BY DEF NumInv, AllCallers
  <2>8. ASSUME NEW d \in Callers, call'[d] = "chosen" PROVE c \in overlap[d] \/ CmdSeq # x.seq
    BY <2>2, <2>3, <2>4, <2>7, <2>8 DEF PairInv, Numbered
  <2>9. ASSUME NEW d \in Callers, Numbered(d)', seq[d] = x.seq PROVE d = c \/ c \in overlap[d]
    BY <2>2, <2>3, <2>4, <2>7, <2>9 DEF PairInv, Numbered
  <2> QED
    BY <2>2, <2>3, <2>4, <2>5, <2>6, <2>8, <2>9 DEF MsgInv
<1> QED
  BY <1>1, <1>2

LEMMA ReturnMessages == ASSUME NumInv, NEW c \in Callers, Return(c) PROVE AllMessages'
<1> SUFFICES ASSUME NEW x \in Messages', x.by # NoCaller PROVE MsgInv(x)'
  BY DEF AllMessages
<1>1. PICK e \in Messages : x = IF e.by = c THEN [e EXCEPT !.live = FALSE] ELSE e
  <2>0. /\ commands \in Seq(Events) /\ commands' = GivenUp(commands, c)
        /\ events \in Seq(Events) /\ events' = GivenUp(events, c)
    BY DEF Return, NumInv, NumTypes
  <2>1. /\ Len(commands') = Len(commands)
        /\ \A i \in 1 .. Len(commands) :
              commands'[i] = IF commands[i].by = c THEN [commands[i] EXCEPT !.live = FALSE] ELSE commands[i]
    BY <2>0, GivenUpEvents
  <2>2. /\ Len(events') = Len(events)
        /\ \A i \in 1 .. Len(events) :
              events'[i] = IF events[i].by = c THEN [events[i] EXCEPT !.live = FALSE] ELSE events[i]
    BY <2>0, GivenUpEvents
  <2>3. buf' = IF buf.by = c THEN [buf EXCEPT !.live = FALSE] ELSE buf
    BY DEF Return
  <2>4. CASE \E i \in 1 .. Len(commands) : x = commands'[i]
    BY <2>1, <2>4 DEF Messages
  <2>5. CASE \E i \in 1 .. Len(events) : x = events'[i]
    BY <2>2, <2>5 DEF Messages
  <2>6. CASE x = buf'
    BY <2>3, <2>6 DEF Messages
  <2>7. x \in {commands'[i] : i \in 1 .. Len(commands)} \cup {events'[i] : i \in 1 .. Len(events)} \cup {buf'}
    BY <2>1, <2>2 DEF Messages
  <2> QED
    BY <2>4, <2>5, <2>6, <2>7
<1>2. e \in Events
  BY MessageTypes DEF NumInv
<1>3. /\ x.by = e.by /\ x.seq = e.seq /\ x.age = e.age
      /\ x.live => e.live /\ e.by # c
      /\ e.by # c => x.live = e.live
  BY <1>1, <1>2 DEF Events
<1>4. MsgInv(e) /\ Outdated(e) => Outdated(x)
  BY <1>1, <1>2, <1>3 DEF NumInv, AllMessages, Outdated, Events
<1>5. MsgInv(e)
  BY <1>3 DEF NumInv, AllMessages
<1>6. /\ CmdSeq' = CmdSeq /\ call'[c] = "idle"
      /\ \A d \in Callers \ {c} : call'[d] = call[d] /\ seq'[d] = seq[d] /\ overlap'[d] = overlap[d]
  BY OthersStay DEF Return, NumInv, NumTypes
<1>7. Dist(x.seq)' = Dist(e.seq)
  BY <1>3, <1>6 DEF Dist
<1>8. e.by \in Callers
  BY <1>2, <1>3 DEF Events
<1>9. x.live => call'[x.by] \in {"waiting", "over"} /\ seq'[x.by] = x.seq
  BY <1>3, <1>5, <1>6, <1>8 DEF MsgInv
<1>10. ASSUME NEW d \in Callers, call'[d] = "chosen"
       PROVE  x.by \in overlap'[d] \/ CmdSeq # x.seq \/ Outdated(x)
  BY <1>3, <1>4, <1>5, <1>6, <1>10 DEF MsgInv
<1>11. ASSUME NEW d \in Callers, Numbered(d)', seq'[d] = x.seq
       PROVE  (x.by = d /\ x.live) \/ x.by \in overlap'[d] \/ Outdated(x)
  BY <1>3, <1>4, <1>5, <1>6, <1>11 DEF MsgInv, Numbered
<1> QED
  BY <1>3, <1>5, <1>6, <1>7, <1>9, <1>10, <1>11 DEF MsgInv, Outdated

LEMMA DeviceMessages ==
  ASSUME NumTypes, DeviceAnswers \/ DeviceDrops \/ DeviceReports \/ TransferEnds
  PROVE  Messages' \subseteq Messages \cup {SelfGenerated}
<1>1. /\ commands \in Seq(Events) /\ events \in Seq(Events)
      /\ Len(commands) \in Nat /\ Len(events) \in Nat
  BY DEF NumTypes
<1>2. commands # <<>> => /\ Head(commands) = commands[1] /\ Len(commands) >= 1
                         /\ Len(Tail(commands)) = Len(commands) - 1
                         /\ \A i \in 1 .. Len(commands) - 1 : Tail(commands)[i] = commands[i + 1]
  BY <1>1, HeadTailProperties, EmptySeq
<1>3. events # <<>> => /\ Head(events) = events[1] /\ Len(events) >= 1
                       /\ Len(Tail(events)) = Len(events) - 1
                       /\ \A i \in 1 .. Len(events) - 1 : Tail(events)[i] = events[i + 1]
  BY <1>1, HeadTailProperties, EmptySeq
<1>4. \A m \in Events : /\ Len(Append(events, m)) = Len(events) + 1
                        /\ \A i \in 1 .. Len(events) : Append(events, m)[i] = events[i]
                        /\ Append(events, m)[Len(events) + 1] = m
  BY <1>1, AppendProperties
<1>5. CASE DeviceAnswers
  <2>1. /\ commands # <<>> /\ commands' = Tail(commands) /\ events' = Append(events, commands[1])
        /\ buf' = buf /\ commands[1] \in Events
    BY <1>1, <1>2, <1>5 DEF DeviceAnswers
  <2> QED
    BY <1>1, <1>2, <1>4, <2>1 DEF Messages
<1>6. CASE DeviceDrops
  BY <1>1, <1>2, <1>6 DEF DeviceDrops, Messages
<1>7. CASE DeviceReports
  <2>1. SelfGenerated \in Events
    BY AndesCmdAssumption DEF SelfGenerated, Events
  <2>2. events' = Append(events, SelfGenerated) /\ UNCHANGED <<commands, buf>>
    BY <1>7 DEF DeviceReports
  <2> QED
    BY <1>1, <1>4, <2>1, <2>2 DEF Messages
<1>8. CASE TransferEnds
  BY <1>1, <1>3, <1>8 DEF TransferEnds, Messages
<1> QED
  BY <1>5, <1>6, <1>7, <1>8

\* The rest of the system leaves the numbers alone.
LEMMA StepNumInv ==
  ASSUME Enough, NumInv, [Next]_vars PROVE NumInv'
<1>1. NumTypes'
  BY StepNumTypes DEF NumInv
<1>2. ASSUME UNCHANGED <<CmdSeq, call, seq, overlap, age>>, Messages' \subseteq Messages \cup {SelfGenerated}
      PROVE  NumInv'
  <2>1. AllCallers'
    BY <1>2 DEF NumInv, AllCallers, CallInv, PairInv, Numbered, Choosing, Dist
  <2>2. AllMessages'
    <3> SUFFICES ASSUME NEW x \in Messages', x.by # NoCaller PROVE MsgInv(x)'
      BY DEF AllMessages
    <3>1. x \in Messages
      BY <1>2 DEF SelfGenerated
    <3> QED
      BY <1>2, <3>1 DEF NumInv, AllMessages, MsgInv, Numbered, Outdated, Dist
  <2> QED
    BY <1>1, <2>1, <2>2 DEF NumInv
<1>3. ASSUME UNCHANGED numbers PROVE NumInv'
  BY <1>2, <1>3 DEF numbers, Messages
<1>4. ASSUME NEW c \in Callers, CallStep(c) PROVE NumInv'
  <2>1. CASE Choose(c)
    BY <1>1, <2>1, ChooseMessages, ChooseCallers DEF NumInv
  <2>2. CASE ~Choose(c)
    BY <1>1, <1>4, <2>2, CallCallers, CallMessages, KickMessages, ReturnMessages DEF CallStep, NumInv
  <2> QED
    BY <2>1, <2>2
<1>5. CASE DeviceAnswers \/ DeviceDrops \/ DeviceReports \/ TransferEnds
  <2>1. UNCHANGED <<CmdSeq, call, seq, overlap, age>>
    BY <1>5 DEF DeviceAnswers, DeviceDrops, DeviceReports, TransferEnds, calls
  <2> QED
    BY <1>2, <1>5, <2>1, DeviceMessages DEF NumInv
<1> QED
  BY <1>3, <1>4, <1>5, NumberSteps

LEMMA InitNumInv == Init => NumInv
<1> SUFFICES ASSUME Init PROVE NumInv
  OBVIOUS
<1>1. NumTypes
  BY InitTypes
<1>2. /\ commands = <<>> /\ events = <<>> /\ buf = SelfGenerated
      /\ \A c \in Callers : call[c] = "idle"
  BY DEF Init
<1>3. Messages = {SelfGenerated}
  BY <1>2 DEF Messages
<1>4. AllMessages
  BY <1>3 DEF AllMessages, SelfGenerated
<1>5. AllCallers
  BY <1>2 DEF AllCallers, CallInv, PairInv, Numbered, Choosing
<1> QED
  BY <1>1, <1>4, <1>5 DEF NumInv

Ended == got \in [Callers -> {"none", "own", "overlapping", "late"}]

\* The response in the buffer ends no wait it should not end.
LEMMA HandleOwn ==
  ASSUME NumInv, Ended, NEW r \in Receivers, Handle(r) PROVE Ended'
<1> SUFFICES ASSUME NEW c \in Callers, c = FirstMatch PROVE Whose(c) \in {"own", "overlapping", "late"}
  BY DEF Handle, Ended
<1> DEFINE m == {i \in DOMAIN CmdRspEventList : seq[CmdRspEventList[i]] = buf.seq}
<1>1. m # {} /\ buf.by # NoCaller
  BY AndesCmdAssumption DEF FirstMatch
<1>2. CmdRspEventList \in Seq(Callers) /\ m \in SUBSET Nat
  BY DEF NumInv, NumTypes
<1>3. PICK i \in m : \A j \in m : i <= j
  BY <1>1, <1>2, Least
<1>4. (CHOOSE n \in m : \A j \in m : n <= j) \in m
  BY <1>3
<1>5. c = CmdRspEventList[CHOOSE n \in m : \A j \in m : n <= j]
  BY <1>1 DEF FirstMatch
<1>6. c \in ToSet(CmdRspEventList) /\ seq[c] = buf.seq
  BY <1>2, <1>4, <1>5 DEF ToSet
<1>7. Numbered(c)
  BY <1>6 DEF NumInv, NumTypes, Numbered
<1>8. MsgInv(buf)
  BY <1>1 DEF NumInv, AllMessages, Messages
<1>9. (buf.by = c /\ buf.live) \/ buf.by \in overlap[c] \/ Outdated(buf)
  BY <1>6, <1>7, <1>8 DEF MsgInv
<1> QED
  BY <1>9 DEF Whose, Outdated

\* A wait of AsicSendCmdToAndes is ended by the response to its own command, with
\* the two exceptions that 4 bits and GetCmdSeq leave; for any callers that are no
\* more than the numbers, any number of numbers that GetCmdSeq tries them all, and
\* any device that answers in order, late or never.
THEOREM EndedByOwn == ASSUME Enough PROVE Spec => []OwnResponse
<1>1. Init => NumInv /\ Ended
  BY InitNumInv DEF Init, Ended
<1>2. NumInv /\ Ended /\ [Next]_vars => NumInv' /\ Ended'
  <2> SUFFICES ASSUME NumInv, Ended, [Next]_vars PROVE NumInv' /\ Ended'
    OBVIOUS
  <2>1. NumInv'
    BY StepNumInv
  <2>2. ASSUME NEW c \in Callers, CallStep(c) PROVE Ended'
    <3>1. got' = got \/ got' = [got EXCEPT ![c] = "none"]
      BY <2>2 DEF CallStep, Choose, Read, List, NoEntry, Kick, WaitEnds, Return
    <3> QED
      BY <3>1 DEF Ended
  <2>3. ASSUME NEW r \in Receivers, Handle(r) PROVE Ended'
    BY <2>3, HandleOwn
  <2>4. ASSUME NEW r \in Receivers, Receive(r), ~Handle(r) PROVE UNCHANGED got
    BY <2>4 DEF Receive, RecvTest, RecvClear, BulkIn, Submit, Unmark, calls
  <2>5. ASSUME TaskletStart \/ TaskletStatus \/ OffStart \/ RadioOffStep \/ OnStart \/ ClearRadioOff
        PROVE  UNCHANGED got
    BY <2>5 DEF TaskletStart, TaskletStatus, OffStart, RadioOffStep, Poll, SetRadioOff, Cancel, KillEnds,
                CancelUnmark, OnStart, ClearRadioOff, calls
  <2>6. ASSUME DeviceAnswers \/ DeviceDrops \/ DeviceReports \/ TransferEnds \/ TransferFails
        PROVE  UNCHANGED got
    BY <2>6 DEF DeviceAnswers, DeviceDrops, DeviceReports, TransferEnds, TransferFails, calls
  <2>7. UNCHANGED got => Ended'
    BY DEF Ended
  <2> QED
    BY <2>1, <2>2, <2>3, <2>4, <2>5, <2>6, <2>7 DEF Next, vars, calls
<1>3. Ended => OwnResponse
  BY DEF Ended, OwnResponse
<1> QED
  BY <1>1, <1>2, <1>3, PTL DEF Spec

=============================================================================
