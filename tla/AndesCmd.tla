------------------------------- MODULE AndesCmd -------------------------------
(***************************************************************************)
(* Commands to the MCU (mcu/rtmp_and.c) and the transfer that brings its   *)
(* responses and events (common/rtusb_bulk.c, the tasklet of               *)
(* os/linux/rt_usb.c, CmdRspEventCallbackHandle of common/cmm_data.c).     *)
(* Any thread may call AsicSendCmdToAndes: it takes a 4-bit number, lists  *)
(* itself in CmdRspEventList, sends and waits for the response with its    *)
(* number.  There is one transfer for responses; a tasklet takes it and    *)
(* puts it up again, and so do the threads that switch the radio off       *)
(* (MT7601UsbAsicRadioOff polls it, then kills it) and on.                 *)
(*                                                                         *)
(* Abstracted: payloads, time (a wait may end at any moment), commands     *)
(* without a response, suspend and halt (they refuse commands, as radio-   *)
(* off does), what a self-generated event does (it stops or starts data).  *)
(* The device answers a command, in order, or never does.                  *)
(***************************************************************************)
EXTENDS Integers, Sequences, SequencesExt, FiniteSets

CONSTANTS
    Callers,        \* threads that send commands
    MaxSeq,         \* numbers 1 .. MaxSeq: 15 in the driver
    DeviceRoom,     \* bound: commands, and events, the device holds
    Budgets,        \* bounds, as records [calls, offs, events]
    NoCaller        \* stands for the sender of a self-generated event

ASSUME AndesCmdAssumption ==
    /\ MaxSeq \in Nat \ {0} /\ DeviceRoom \in Nat \ {0}
    /\ NoCaller \notin Callers
    /\ Budgets \subseteq [calls : Nat, offs : Nat, events : Nat]

TryLimit == 128

\* Who runs RTUSBBulkCmdRspEventReceive.
Tasklet == "cmd_rsp_event_tasklet"
Sleeper == "radio off"
Waker == "radio on"
Receivers == {Tasklet, Sleeper, Waker}

VARIABLES
    CmdSeq, CmdRspEventList,    \* MCtrl; the list's entries named by their callers
    call, seq,                  \* per caller: where it is, its cmd_seq
    commands, events,           \* the device: taken, and to be sent to the driver
    buf,                        \* CmdRspBuffer
    InUse, Readable, IRPPending,
    urb,                        \* its transfer: "flying", or its status "ok" or "error"
    killing,                    \* usb_kill_urb is at work: submissions are refused
    scheduled, status,          \* the tasklet, and the status it has read
    at,                         \* per receiver: where it is
    idleRadioOff,               \* fRTMP_ADAPTER_IDLE_RADIO_OFF
    left,                       \* what is left of the bounds
    overlap, age,               \* history, per caller: see Choose
    got,                        \* history, per caller: whose response ended its wait
    handled, marks              \* history: of the buffer; what went wrong

calls == <<CmdSeq, CmdRspEventList, call, seq, overlap, age, got>>
flags == <<InUse, Readable, IRPPending>>
tasklet == <<scheduled, status>>
vars == <<calls, commands, events, buf, flags, urb, killing, tasklet, at,
          idleRadioOff, left, handled, marks>>

Calls == {"idle", "chosen", "numbered", "listed", "waiting", "over"}
\* (live: its caller has not given up; age: numbers taken since its own.)
Events == [by : Callers \cup {NoCaller}, seq : 0 .. MaxSeq, live : BOOLEAN, age : 0 .. MaxSeq]
SelfGenerated == [by |-> NoCaller, seq |-> 0, live |-> FALSE, age |-> 0]

\* Right after NICInitializeAdapter's first RTUSBBulkCmdRspEventReceive.
Init ==
    /\ CmdSeq = 0 /\ CmdRspEventList = <<>>
    /\ call = [c \in Callers |-> "idle"] /\ seq = [c \in Callers |-> 0]
    /\ commands = <<>> /\ events = <<>> /\ buf = SelfGenerated
    /\ InUse = TRUE /\ Readable = FALSE /\ IRPPending = TRUE
    /\ urb = "flying" /\ killing = FALSE
    /\ scheduled = FALSE /\ status = "error"
    /\ at = [r \in Receivers |-> "idle"]
    /\ idleRadioOff = FALSE
    /\ left \in Budgets
    /\ overlap = [c \in Callers |-> {}] /\ age = [c \in Callers |-> 0]
    /\ got = [c \in Callers |-> "none"]
    /\ handled = 1 /\ marks = {}

-----------------------------------------------------------------------------
(* AsicSendCmdToAndes. *)

Listed == {seq[c] : c \in ToSet(CmdRspEventList)}
\* The number CmdSeq reaches after k increments.
NumberAfter(k) == ((CmdSeq - 1 + k) % MaxSeq) + 1
\* Mutant: the list is not searched, an awaited number is taken again.
FirstTry == 1
\* Tries of GetCmdSeq: the first free number, or any after TryLimit.
TriesOf ==
    LET free == {k \in 1 .. TryLimit : NumberAfter(k) \notin Listed}
    IN  IF free = {} THEN TryLimit + 1 ELSE CHOOSE k \in free : \A j \in free : k <= j

Older(a, k) == IF a + k > MaxSeq THEN MaxSeq ELSE a + k
AgedEvent(e, k) == IF e.by = NoCaller THEN e ELSE [e EXCEPT !.age = Older(@, k)]
Aged(es, k) == [i \in DOMAIN es |-> AgedEvent(es[i], k)]
\* Callers between the choice of their number and their entry in the list.
Choosing == {c \in Callers : call[c] \in {"chosen", "numbered"}}

\* The part of GetCmdSeq under CmdRspEventListLock.
Choose(c) ==
    /\ call[c] = "idle" /\ ~idleRadioOff /\ left.calls > 0
    /\ left' = [left EXCEPT !.calls = @ - 1]
    /\ call' = [call EXCEPT ![c] = "chosen"]
    /\ LET k == TriesOf
       IN  /\ CmdSeq' = NumberAfter(k)
           /\ age' = [d \in Callers |-> IF d = c THEN 0
                                        ELSE IF d \in Choosing \/ call[d] = "listed"
                                        THEN Older(age[d], k) ELSE age[d]]
           /\ commands' = Aged(commands, k) /\ events' = Aged(events, k)
           /\ buf' = AgedEvent(buf, k)
    /\ overlap' = [d \in Callers |-> IF d = c THEN Choosing
                                     ELSE IF d \in Choosing THEN overlap[d] \cup {c}
                                     ELSE overlap[d]]
    /\ UNCHANGED <<CmdRspEventList, seq, got, flags, urb, killing, tasklet, at,
                   idleRadioOff, handled, marks>>

\* It returns MCtrl->CmdSeq after the unlock.
Read(c) ==
    /\ call[c] = "chosen"
    /\ call' = [call EXCEPT ![c] = "numbered"]
    /\ seq' = [seq EXCEPT ![c] = CmdSeq]
    /\ UNCHANGED <<CmdSeq, CmdRspEventList, overlap, age, got, commands, events, buf, flags,
                   urb, killing, tasklet, at, idleRadioOff, left, handled, marks>>

\* DlListAddTail.
List(c) ==
    /\ call[c] = "numbered"
    /\ call' = [call EXCEPT ![c] = "listed"]
    /\ CmdRspEventList' = Append(CmdRspEventList, c)
    /\ UNCHANGED <<CmdSeq, seq, overlap, age, got, commands, events, buf, flags,
                   urb, killing, tasklet, at, idleRadioOff, left, handled, marks>>

\* No memory for the entry.
NoEntry(c) ==
    /\ call[c] = "numbered"
    /\ call' = [call EXCEPT ![c] = "idle"]
    /\ seq' = [seq EXCEPT ![c] = 0] /\ age' = [age EXCEPT ![c] = 0]
    /\ overlap' = [overlap EXCEPT ![c] = {}]
    /\ UNCHANGED <<CmdSeq, CmdRspEventList, got, commands, events, buf, flags,
                   urb, killing, tasklet, at, idleRadioOff, left, handled, marks>>

\* USBKickOutCmd, whose failure nobody looks at.
Kick(c) ==
    /\ call[c] = "listed"
    /\ call' = [call EXCEPT ![c] = "waiting"]
    /\ age' = [age EXCEPT ![c] = 0]
    /\ \/ /\ Len(commands) < DeviceRoom
          /\ commands' = Append(commands, [by |-> c, seq |-> seq[c], live |-> TRUE, age |-> age[c]])
       \/ UNCHANGED commands
    /\ UNCHANGED <<CmdSeq, CmdRspEventList, seq, overlap, got, events, buf, flags,
                   urb, killing, tasklet, at, idleRadioOff, left, handled, marks>>

\* The wait ends, by the response or after 300 ms.
WaitEnds(c) ==
    /\ call[c] = "waiting"
    /\ call' = [call EXCEPT ![c] = "over"]
    /\ UNCHANGED <<CmdSeq, CmdRspEventList, seq, overlap, age, got, commands, events, buf, flags,
                   urb, killing, tasklet, at, idleRadioOff, left, handled, marks>>

GivenUp(es, c) == [i \in DOMAIN es |-> IF es[i].by = c THEN [es[i] EXCEPT !.live = FALSE] ELSE es[i]]
\* Mutant: the entry stays in the list.
ReturnListed(c) ==
    /\ call[c] = "over"
    /\ call' = [call EXCEPT ![c] = "idle"]
    /\ seq' = [seq EXCEPT ![c] = 0] /\ got' = [got EXCEPT ![c] = "none"]
    /\ overlap' = [overlap EXCEPT ![c] = {}]
    /\ commands' = GivenUp(commands, c) /\ events' = GivenUp(events, c)
    /\ buf' = IF buf.by = c THEN [buf EXCEPT !.live = FALSE] ELSE buf
    /\ UNCHANGED <<CmdSeq, CmdRspEventList, age, flags, urb, killing, tasklet, at, idleRadioOff, left,
                   handled, marks>>

\* The entry is deleted; a response of the command may still come.
Return(c) ==
    /\ call[c] = "over"
    /\ call' = [call EXCEPT ![c] = "idle"]
    /\ \E i \in DOMAIN CmdRspEventList :
          CmdRspEventList[i] = c /\ CmdRspEventList' = RemoveAt(CmdRspEventList, i)
    /\ seq' = [seq EXCEPT ![c] = 0] /\ got' = [got EXCEPT ![c] = "none"]
    /\ overlap' = [overlap EXCEPT ![c] = {}]
    /\ commands' = GivenUp(commands, c) /\ events' = GivenUp(events, c)
    /\ buf' = IF buf.by = c THEN [buf EXCEPT !.live = FALSE] ELSE buf
    /\ UNCHANGED <<CmdSeq, age, flags, urb, killing, tasklet, at, idleRadioOff, left, handled, marks>>

-----------------------------------------------------------------------------
(* RTUSBBulkCmdRspEventReceive. *)

Go(r, a) == at' = [at EXCEPT ![r] = a]
\* The radio-off thread polls again.
Done(r) == Go(r, IF r = Sleeper THEN "poll" ELSE "idle")

RecvTest(r) ==
    /\ at[r] = "recv"
    /\ IF ~InUse /\ Readable
       THEN /\ Go(r, "handle")
            /\ marks' = IF \E q \in Receivers : at[q] \in {"handle", "clear"}
                        THEN marks \cup {"together"} ELSE marks
       ELSE Go(r, "submit?") /\ UNCHANGED marks
    /\ UNCHANGED <<calls, commands, events, buf, flags, urb, killing, tasklet,
                   idleRadioOff, left, handled>>

\* The first entry with the response's number is completed.
FirstMatch ==
    LET m == {i \in DOMAIN CmdRspEventList : seq[CmdRspEventList[i]] = buf.seq}
    IN  IF m = {} \/ buf.by = NoCaller THEN NoCaller
        ELSE CmdRspEventList[CHOOSE i \in m : \A j \in m : i <= j]
\* Whose response ends the wait of c.
Whose(c) ==
    CASE buf.by = c /\ buf.live -> "own"
      [] buf.by \in overlap[c] -> "overlapping"
      [] ~buf.live /\ buf.age = MaxSeq -> "late"
      [] OTHER -> "foreign"

\* CmdRspEventCallbackHandle, with the list locked.
Handle(r) ==
    /\ at[r] = "handle" /\ Go(r, "clear")
    /\ got' = [c \in Callers |-> IF c = FirstMatch /\ got[c] = "none" THEN Whose(c) ELSE got[c]]
    /\ handled' = IF handled = 2 THEN 2 ELSE handled + 1
    /\ marks' = IF handled > 0 THEN marks \cup {"twice"} ELSE marks
    /\ UNCHANGED <<CmdSeq, CmdRspEventList, call, seq, overlap, age, commands, events, buf, flags,
                   urb, killing, tasklet, idleRadioOff, left>>

RecvClear(r) ==
    /\ at[r] = "clear" /\ Go(r, "submit?")
    /\ Readable' = FALSE
    /\ UNCHANGED <<calls, commands, events, buf, InUse, IRPPending, urb, killing, tasklet,
                   idleRadioOff, left, handled, marks>>

\* Mutant: a buffer that is not read yet is offered again.
BulkInUnread(r) ==
    /\ at[r] = "submit?"
    /\ IF InUse
       THEN Done(r) /\ UNCHANGED <<InUse, IRPPending>>
       ELSE Go(r, "submit") /\ InUse' = TRUE /\ IRPPending' = TRUE
    /\ marks' = IF r # Tasklet /\ at[Tasklet] = "status" THEN marks \cup {"gap"} ELSE marks
    /\ UNCHANGED <<calls, commands, events, buf, Readable, urb, killing, tasklet,
                   idleRadioOff, left, handled>>

\* BulkInCmdRspEvent.
BulkIn(r) ==
    /\ at[r] = "submit?"
    /\ IF Readable \/ InUse
       THEN Done(r) /\ UNCHANGED <<InUse, IRPPending>>
       ELSE Go(r, "submit") /\ InUse' = TRUE /\ IRPPending' = TRUE
    /\ marks' = IF r # Tasklet /\ at[Tasklet] = "status" THEN marks \cup {"gap"} ELSE marks
    /\ UNCHANGED <<calls, commands, events, buf, Readable, urb, killing, tasklet,
                   idleRadioOff, left, handled>>

\* usb_submit_urb refuses a transfer that is up or being killed; it may fail
\* for reasons of its own, here once.
Submit(r) ==
    /\ at[r] = "submit"
    /\ \/ /\ urb # "flying" /\ ~killing
          /\ urb' = "flying" /\ Done(r) /\ UNCHANGED marks
       \/ /\ urb = "flying" \/ killing
          /\ Go(r, "unmark") /\ UNCHANGED <<urb, marks>>
       \/ /\ "not submitted" \notin marks
          /\ Go(r, "unmark") /\ marks' = marks \cup {"not submitted"} /\ UNCHANGED urb
    /\ UNCHANGED <<calls, commands, events, buf, flags, killing, tasklet,
                   idleRadioOff, left, handled>>

Unmark(r) ==
    /\ at[r] = "unmark" /\ Done(r)
    /\ InUse' = FALSE /\ IRPPending' = FALSE
    /\ UNCHANGED <<calls, commands, events, buf, Readable, urb, killing, tasklet,
                   idleRadioOff, left, handled, marks>>

Receive(r) == RecvTest(r) \/ Handle(r) \/ RecvClear(r) \/ BulkIn(r) \/ Submit(r) \/ Unmark(r)

-----------------------------------------------------------------------------
(* cmd_rsp_event_tasklet. *)

TaskletStart ==
    /\ scheduled /\ at[Tasklet] = "idle"
    /\ scheduled' = FALSE /\ status' = urb
    /\ InUse' = FALSE /\ IRPPending' = FALSE
    /\ Go(Tasklet, "status")
    /\ UNCHANGED <<calls, commands, events, buf, Readable, urb, killing,
                   idleRadioOff, left, handled, marks>>

\* Mutant: it returns when the transfer failed.
TaskletReturns ==
    /\ at[Tasklet] = "status" /\ Go(Tasklet, IF status = "ok" THEN "recv" ELSE "idle")
    /\ Readable' = (status = "ok")
    /\ UNCHANGED <<calls, commands, events, buf, InUse, IRPPending, urb, killing, tasklet,
                   idleRadioOff, left, handled, marks>>

\* Status is looked at after CmdRspLock was released once.
TaskletStatus ==
    /\ at[Tasklet] = "status" /\ Go(Tasklet, "recv")
    /\ Readable' = (status = "ok")
    /\ UNCHANGED <<calls, commands, events, buf, InUse, IRPPending, urb, killing, tasklet,
                   idleRadioOff, left, handled, marks>>

-----------------------------------------------------------------------------
(* The radio. *)

\* MT7601DisableTxRx polls while it waits for the device to drain, and may give up.
OffStart ==
    /\ at[Sleeper] = "idle" /\ ~idleRadioOff /\ left.offs > 0
    /\ left' = [left EXCEPT !.offs = @ - 1]
    /\ Go(Sleeper, "poll")
    /\ UNCHANGED <<calls, commands, events, buf, flags, urb, killing, tasklet,
                   idleRadioOff, handled, marks>>

Poll ==
    /\ at[Sleeper] = "poll"
    /\ \E a \in {"recv", "off", "idle"} : Go(Sleeper, a)
    /\ UNCHANGED <<calls, commands, events, buf, flags, urb, killing, tasklet,
                   idleRadioOff, left, handled, marks>>

SetRadioOff ==
    /\ at[Sleeper] = "off" /\ Go(Sleeper, "cancel")
    /\ idleRadioOff' = TRUE
    /\ UNCHANGED <<calls, commands, events, buf, flags, urb, killing, tasklet,
                   left, handled, marks>>

\* RTUSBCancelPendingBulkInIRP, which is called when PendingRx > 0.
Cancel ==
    /\ at[Sleeper] = "cancel"
    /\ \/ IRPPending /\ killing' = TRUE /\ Go(Sleeper, "kill")
       \/ UNCHANGED killing /\ Go(Sleeper, "idle")
    /\ UNCHANGED <<calls, commands, events, buf, flags, urb, tasklet,
                   idleRadioOff, left, handled, marks>>

KillEnds ==
    /\ at[Sleeper] = "kill" /\ urb # "flying" /\ Go(Sleeper, "killed")
    /\ killing' = FALSE
    /\ UNCHANGED <<calls, commands, events, buf, flags, urb, tasklet,
                   idleRadioOff, left, handled, marks>>

CancelUnmark ==
    /\ at[Sleeper] = "killed" /\ Go(Sleeper, "idle")
    /\ IRPPending' = FALSE /\ InUse' = FALSE
    /\ marks' = IF InUse THEN marks \cup {"unmarked"} ELSE marks
    /\ UNCHANGED <<calls, commands, events, buf, Readable, urb, killing, tasklet,
                   idleRadioOff, left, handled>>

\* MT7601UsbAsicRadioOn, from the timer, command or MLME thread.
OnStart ==
    /\ at[Waker] = "idle" /\ idleRadioOff /\ Go(Waker, "on")
    /\ UNCHANGED <<calls, commands, events, buf, flags, urb, killing, tasklet,
                   idleRadioOff, left, handled, marks>>

ClearRadioOff ==
    /\ at[Waker] = "on" /\ Go(Waker, "recv")
    /\ idleRadioOff' = FALSE
    /\ marks' = IF at[Sleeper] # "idle" THEN marks \cup {"crossed"} ELSE marks
    /\ UNCHANGED <<calls, commands, events, buf, flags, urb, killing, tasklet,
                   left, handled>>

-----------------------------------------------------------------------------
(* The device and the USB host controller. *)

DeviceAnswers ==
    /\ commands # <<>> /\ Len(events) < DeviceRoom
    /\ events' = Append(events, Head(commands)) /\ commands' = Tail(commands)
    /\ UNCHANGED <<calls, buf, flags, urb, killing, tasklet, at, idleRadioOff, left, handled, marks>>

DeviceDrops ==
    /\ commands # <<>> /\ commands' = Tail(commands)
    /\ UNCHANGED <<calls, events, buf, flags, urb, killing, tasklet, at, idleRadioOff, left,
                   handled, marks>>

DeviceReports ==
    /\ Len(events) < DeviceRoom /\ left.events > 0
    /\ left' = [left EXCEPT !.events = @ - 1]
    /\ events' = Append(events, SelfGenerated)
    /\ UNCHANGED <<calls, commands, buf, flags, urb, killing, tasklet, at, idleRadioOff,
                   handled, marks>>

\* A transfer ends; RTUSBBulkCmdRspEventComplete schedules the tasklet.
TransferEnds ==
    /\ urb = "flying" /\ events # <<>>
    /\ urb' = "ok" /\ scheduled' = TRUE
    /\ buf' = Head(events) /\ events' = Tail(events)
    /\ handled' = 0
    /\ marks' = IF handled = 0 THEN marks \cup {"lost"} ELSE marks
    /\ UNCHANGED <<calls, commands, flags, killing, status, at, idleRadioOff, left>>

\* It is killed, or fails, here once.
TransferFails ==
    /\ urb = "flying" /\ (killing \/ "failed" \notin marks)
    /\ urb' = "error" /\ scheduled' = TRUE
    /\ marks' = IF killing THEN marks ELSE marks \cup {"failed"}
    /\ UNCHANGED <<calls, commands, events, buf, flags, killing, status, at, idleRadioOff, left,
                   handled>>

-----------------------------------------------------------------------------
CallStep(c) == Choose(c) \/ Read(c) \/ List(c) \/ NoEntry(c) \/ Kick(c) \/ WaitEnds(c) \/ Return(c)
RadioOffStep == Poll \/ SetRadioOff \/ Cancel \/ KillEnds \/ CancelUnmark

Next ==
    \/ \E c \in Callers : CallStep(c)
    \/ \E r \in Receivers : Receive(r)
    \/ TaskletStart \/ TaskletStatus
    \/ OffStart \/ RadioOffStep \/ OnStart \/ ClearRadioOff
    \/ DeviceAnswers \/ DeviceDrops \/ DeviceReports
    \/ TransferEnds \/ TransferFails

Spec == Init /\ [][Next]_vars

\* The threads and the tasklet are scheduled, and a kill comes to its end.  Nothing
\* says that the device answers, or that a poll ends.
Fairness ==
    /\ \A r \in Receivers : WF_vars(Receive(r))
    /\ WF_vars(TaskletStart \/ TaskletStatus)
    /\ WF_vars(SetRadioOff \/ Cancel \/ KillEnds \/ CancelUnmark)
    /\ WF_vars(killing /\ TransferFails)

FairSpec == Spec /\ Fairness

-----------------------------------------------------------------------------
\* The list names the callers that wait and no other, once each, and the
\* device's room is kept.
TypeOK ==
    /\ CmdSeq \in 0 .. MaxSeq
    /\ CmdRspEventList \in Seq(Callers) /\ IsInjective(CmdRspEventList)
    /\ ToSet(CmdRspEventList) = {c \in Callers : call[c] \in {"listed", "waiting", "over"}}
    /\ call \in [Callers -> Calls] /\ seq \in [Callers -> 0 .. MaxSeq]
    /\ commands \in Seq(Events) /\ events \in Seq(Events) /\ buf \in Events
    /\ Len(commands) <= DeviceRoom /\ Len(events) <= DeviceRoom
    /\ {InUse, Readable, IRPPending, killing, scheduled, idleRadioOff} \subseteq BOOLEAN
    /\ {urb, status} \subseteq {"flying", "ok", "error"}
    /\ at \in [Receivers -> {"idle", "status", "recv", "handle", "clear", "submit?", "submit",
                             "unmark", "poll", "off", "cancel", "kill", "killed", "on"}]
    /\ killing <=> at[Sleeper] = "kill"

\* A wait is ended by the response to its own command.  The exceptions are the
\* ones 4 bits and GetCmdSeq leave: two calls that chose their numbers at the
\* same time (CmdSeq is read after the unlock, and the entry listed later), and
\* a response whose caller gave up MaxSeq numbers ago.
OwnResponse == \A c \in Callers : got[c] # "foreign"

\* No response or event is lost in CmdRspBuffer, or handled twice.  The
\* exceptions: another thread also found the buffer readable and handles it
\* (together); it put the transfer up while the tasklet, which has cleared
\* InUse, had not set Readable (gap); RTUSBCancelPendingBulkInIRP cleared the
\* flags of a transfer still in use (unmarked).
HandledOnce ==
    marks \cap {"lost", "twice"} # {} => marks \cap {"together", "unmarked", "gap"} # {}

\* With the radio on the driver always comes to listen again, however
\* transfers fail and whoever resubmits.  The exceptions: usb_submit_urb
\* failed, nobody tries again; radio-on crossed radio-off, whose kill came
\* after it found the transfer up.
ListensAgain ==
    ~idleRadioOff ~> \/ urb = "flying" \/ idleRadioOff
                     \/ marks \cap {"not submitted", "crossed"} # {}

=============================================================================
