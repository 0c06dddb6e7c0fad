------------------------------- MODULE BulkOut -------------------------------
(***************************************************************************)
(* USB bulk out (common/rtusb_bulk.c, common/cmm_data_usb.c, the completion*)
(* tasklets of os/linux/rt_usb.c) and the reset of a failed transfer by the*)
(* command thread (common/rtusb_io.c, common/cmm_cmd.c).  Whoever has      *)
(* something to send, and every completion, calls RTUSBKickBulkOut, which  *)
(* submits at most one transfer per pipe.  Management and null frames share*)
(* pipe 0 with its data.                                                   *)
(*                                                                         *)
(* Abstracted: time, frame contents, the sizes that end a batch (any end   *)
(* is possible), PS-Poll frames (their flag is never set), scans,          *)
(* radio-off, halt and the PBF monitor (they only hold kicks back), the    *)
(* watchdog (it makes a transfer fail).  Of the four data pipes two are    *)
(* kept: 0, shared with management and null frames, and the last, AC3's,   *)
(* whose flag decides whether the null frame is looked at; the two between *)
(* differ from both only in what they lack.  BulkFlags and Flags are       *)
(* updated with |= and &= without a lock; here each update is one step.    *)
(***************************************************************************)
EXTENDS Integers, FiniteSets

CONSTANTS
    Threads,            \* contexts that send: MLME thread, ioctls, network stack
    MGMT_RING_SIZE,     \* cells of MgmtRing: 32 in the driver
    Wrapped,            \* what TxSwFreeIdx, a UINT32, wraps at: far above the size of the ring
    LastFrame,          \* bound: data frames written to each pipe
    MaxEvents,          \* bound: frames sent, and what goes wrong (Fails, UrbDone)
    CPUs                \* bound: runners inside a call at once

Pipes == 0 .. 1
MGMTPIPEIDX == 0
Cells == 0 .. MGMT_RING_SIZE - 1
BULKOUT_MGMT_RESET_FLAG == 128

Mgmt(i) == <<"mgmt", i>>
Data(p) == <<"data", p>>
Null == <<"null", 0>>
\* The transfer contexts, one URB each, and the pipe each is for.
TxContexts == {Mgmt(i) : i \in Cells} \cup {Data(p) : p \in Pipes} \cup {Null}
PipeOf(x) == IF x \in {Data(p) : p \in Pipes} THEN x[2] ELSE MGMTPIPEIDX

\* Who runs: threads, one tasklet for the management ring, for the null frame
\* and for each data pipe, and the command thread.
MgmtTasklet == <<"mgmt tasklet", 0>>
NullTasklet == <<"null tasklet", 0>>
DataTasklet(p) == <<"data tasklet", p>>
CmdThread == <<"command thread", 0>>
Others == {MgmtTasklet, NullTasklet, CmdThread} \cup {DataTasklet(p) : p \in Pipes}
Runners == Threads \cup Others

ASSUME BulkOutAssumption ==
    /\ Wrapped \in Nat /\ MGMT_RING_SIZE \in 1 .. Wrapped - 1 /\ LastFrame \in Nat
    /\ MaxEvents \in Nat
    /\ CPUs \in Nat \ {0}
    /\ \A t \in Threads : t \notin TxContexts \cup Others

VARIABLES
    BulkFlags,          \* pAd->BulkFlags
    Pending,            \* BulkOutPending
    Reset, bulkResetPipeid,         \* fRTMP_ADAPTER_BULKOUT_RESET and its pipe
    urb,                \* per context: idle, out, ok or error
    BulkOutPipeId,      \* per data context: the pipe it was last sent on
    InUse, bWaiting,    \* cells of MgmtRing
    TxCpuIdx, TxDmaIdx, TxSwFreeIdx,
    WritePos, ENextPos, \* CurWritePosition, ENextBulkOutPosition: frames written, frames taken
    NullInUse,
    CmdQ,               \* queued CMDTHREAD_RESET_BULK_OUT
    pc,                 \* per runner: where it is, a cell or pipe, and what follows its kick
    calls, errors,      \* counted against the bounds
    delivered,          \* history: end of the last batch that went out, per pipe
    marks               \* history: what went wrong

ring == <<InUse, bWaiting, TxCpuIdx, TxDmaIdx, TxSwFreeIdx>>
urbs == <<urb, BulkOutPipeId>>
data == <<WritePos, ENextPos, delivered>>
resets == <<Reset, bulkResetPipeid, CmdQ>>
counts == <<calls, errors>>
vars == <<BulkFlags, Pending, resets, urbs, ring, data, NullInUse, pc, counts, marks>>

\* Flags: Mgmt(0) for fRTUSB_BULK_OUT_MLME, Data(p) and Null for the others.
MlmeFlag == Mgmt(0)
Idle == [at |-> "idle", arg |-> 0, then |-> "idle"]
At(c, a) == pc[c].at = a
Go(c, a, n) == pc' = [pc EXCEPT ![c].at = a, ![c].arg = n]
Stop(c) == pc' = [pc EXCEPT ![c] = Idle]
Kick(c, then) == pc' = [pc EXCEPT ![c] = [at |-> "kick", arg |-> 0, then |-> then]]
\* (The command thread sleeps most of its time at "reset".)
MayStart(c) ==
    /\ At(c, "idle")
    /\ Cardinality({d \in Runners : ~At(d, "idle") /\ ~At(d, "reset")}) < CPUs
\* A submission and an allocation fail, a kick finds no link, and a frame turns
\* out too short to be one, at most once each.
Failures == {"submit", "alloc", "media", "short"}
EventLeft == calls + errors + Cardinality(marks \cap Failures) < MaxEvents
Fails(what) == what \notin marks /\ EventLeft

\* The counter of free cells, as a UINT32.
FreeLess(n) == IF n = 0 THEN Wrapped - 1 ELSE n - 1
FreeMore(n) == (n + 1) % Wrapped
INC_RING_INDEX(i) == (i + 1) % MGMT_RING_SIZE

Init ==
    /\ BulkFlags = {} /\ Pending = [p \in Pipes |-> FALSE]
    /\ Reset = FALSE /\ bulkResetPipeid = 0 /\ CmdQ = 0
    /\ urb = [x \in TxContexts |-> "idle"] /\ BulkOutPipeId = [p \in Pipes |-> p]
    /\ InUse = {} /\ bWaiting = {}
    /\ TxCpuIdx = 0 /\ TxDmaIdx = 0 /\ TxSwFreeIdx = MGMT_RING_SIZE
    /\ WritePos = [p \in Pipes |-> 0]
    /\ ENextPos = [p \in Pipes |-> 0] /\ delivered = [p \in Pipes |-> 0]
    /\ NullInUse = FALSE
    /\ pc = [c \in Runners |-> Idle]
    /\ calls = 0 /\ errors = 0 /\ marks = {}

-----------------------------------------------------------------------------
(* Senders. *)

\* MiniportMMRequest tests for a free cell without MgmtRingLock; with none it
\* drops the frame and reports success.
SendRoom(t) ==
    /\ MayStart(t) /\ EventLeft
    /\ TxSwFreeIdx > 0
    /\ calls' = calls + 1 /\ Go(t, "room", 0)
    /\ UNCHANGED <<BulkFlags, Pending, resets, urbs, ring, data, NullInUse, errors, marks>>

\* MlmeHardTransmitMgmtRing holds MgmtRingLock until its kick is over.
MgmtRingLockFree == \A t \in Threads : pc[t].then # "unlock"

\* Mutant: the counter of free cells is not decremented.
SendUncounted(t) ==
    /\ At(t, "room") /\ MgmtRingLockFree
    /\ InUse' = InUse \cup {TxCpuIdx} /\ bWaiting' = bWaiting \cup {TxCpuIdx}
    /\ TxCpuIdx' = INC_RING_INDEX(TxCpuIdx)
    /\ marks' = marks \cup IF TxCpuIdx \in InUse THEN {"overrun"} ELSE {}
    /\ BulkFlags' = BulkFlags \cup {MlmeFlag} /\ Kick(t, "unlock")
    /\ UNCHANGED <<Pending, resets, urbs, TxDmaIdx, TxSwFreeIdx, data, NullInUse, counts>>
\* RtmpUSBMgmtKickOut puts the frame in cell TxCpuIdx and kicks.
RtmpUSBMgmtKickOut(t) ==
    /\ At(t, "room") /\ MgmtRingLockFree
    /\ InUse' = InUse \cup {TxCpuIdx} /\ bWaiting' = bWaiting \cup {TxCpuIdx}
    /\ TxSwFreeIdx' = FreeLess(TxSwFreeIdx)
    /\ TxCpuIdx' = INC_RING_INDEX(TxCpuIdx)
    /\ marks' = marks \cup IF TxCpuIdx \in InUse THEN {"overrun"} ELSE {}
    /\ BulkFlags' = BulkFlags \cup {MlmeFlag} /\ Kick(t, "unlock")
    /\ UNCHANGED <<Pending, resets, urbs, TxDmaIdx, data, NullInUse, counts>>

RtmpUSBNullFrameKickOut(t) ==
    /\ MayStart(t) /\ EventLeft
    /\ ~NullInUse
    /\ NullInUse' = TRUE /\ calls' = calls + 1
    /\ BulkFlags' = BulkFlags \cup {Null} /\ Kick(t, "idle")
    /\ UNCHANGED <<Pending, resets, urbs, ring, data, errors, marks>>

\* A data frame is written to its pipe's ring, then RtmpUSBDataKickOut.
RtmpUSBDataKickOut(t, p) ==
    /\ MayStart(t) /\ EventLeft /\ WritePos[p] < LastFrame
    /\ WritePos' = [WritePos EXCEPT ![p] = @ + 1] /\ calls' = calls + 1
    /\ BulkFlags' = BulkFlags \cup {Data(p)} /\ Kick(t, "idle")
    /\ UNCHANGED <<Pending, resets, urbs, ring, ENextPos, delivered, NullInUse, errors, marks>>

-----------------------------------------------------------------------------
(* RTUSBKickBulkOut: the management ring, the data pipes, the null frame.  *)

Returns(c) == IF pc[c].then = "again" THEN Go(c, "again", 0) ELSE Stop(c)

\* fRTMP_ADAPTER_NEED_STOP_TX is tested once; then RTUSBBulkOutMLMEPacket looks
\* at the cell at TxDmaIdx, without a lock.
CellReady == TxSwFreeIdx < MGMT_RING_SIZE /\ TxDmaIdx \in InUse \cap bWaiting
KickLook(c) ==
    /\ At(c, "kick")
    /\ IF Reset THEN Returns(c) /\ UNCHANGED BulkFlags
       ELSE IF (MlmeFlag \in BulkFlags \/ TxSwFreeIdx < MGMT_RING_SIZE) /\ CellReady
       THEN Go(c, "take", TxDmaIdx) /\ UNCHANGED BulkFlags
       ELSE Go(c, "data", 0) /\ BulkFlags' = BulkFlags \ {MlmeFlag}
    /\ UNCHANGED <<Pending, resets, urbs, ring, data, NullInUse, counts, marks>>

\* Mutant: the pipe is not tested before the cell is submitted.
PipeFreeAlways(p) == TRUE
\* The test each submission makes under BulkOutLock.
PipeFree(p) == ~Pending[p] /\ ~Reset

\* A runner turned away from pipe p while another only finds it empty does not
\* come back: "missed".
Missed(p) == IF \E c \in Runners : At(c, "empty") /\ pc[c].arg = p THEN {"missed"} ELSE {}

\* usb_submit_urb accepts x, or fails.
Submitted(x) ==
    /\ urb[x] # "out" /\ urb' = [urb EXCEPT ![x] = "out"]
    /\ Pending' = [Pending EXCEPT ![PipeOf(x)] = TRUE]
Refused(x) == (urb[x] = "out" \/ Fails("submit")) /\ UNCHANGED <<urb, Pending>>

\* The rest of RTUSBBulkOutMLMEPacket, under BulkOutLock.  It does not look at
\* the cell again: "stale" marks one that has gone out since KickLook.
Stale(i) == IF i = TxDmaIdx /\ i \in bWaiting THEN {} ELSE {"stale"}
KickTake(c) ==
    /\ At(c, "take")
    /\ LET i == pc[c].arg
       IN  \/ /\ ~PipeFree(MGMTPIPEIDX) /\ marks' = marks \cup Missed(MGMTPIPEIDX)
              /\ UNCHANGED <<Pending, urb, bWaiting, BulkFlags>>
           \/ /\ PipeFree(MGMTPIPEIDX) /\ Submitted(Mgmt(i))
              /\ bWaiting' = bWaiting \ {i} /\ BulkFlags' = BulkFlags \ {MlmeFlag}
              /\ marks' = marks \cup Stale(i)
           \/ /\ PipeFree(MGMTPIPEIDX) /\ Refused(Mgmt(i))
              /\ bWaiting' = bWaiting \cup {i} /\ BulkFlags' = BulkFlags \ {MlmeFlag}
              /\ marks' = marks \cup {"submit"} \cup Stale(i)
    /\ Go(c, "data", 0)
    /\ UNCHANGED <<resets, BulkOutPipeId, InUse, TxCpuIdx, TxDmaIdx, TxSwFreeIdx, data, NullInUse, counts>>

\* The null frame is the "else if" of the last pipe's flag: with the flag set it
\* is passed by ("hidden" if it waits), whatever came of that pipe.
AfterPipe(c, p) == IF p = 1 THEN Returns(c) ELSE Go(c, "data", p + 1)
Hides(p) == IF p = 1 /\ Null \in BulkFlags THEN {"hidden"} ELSE {}

KickUnflagged(c) ==
    /\ At(c, "data") /\ Data(pc[c].arg) \notin BulkFlags
    /\ IF pc[c].arg = 1 THEN Go(c, "null", 0) ELSE Go(c, "data", pc[c].arg + 1)
    /\ UNCHANGED <<BulkFlags, Pending, resets, urbs, ring, data, NullInUse, counts, marks>>

\* RTUSBBulkOutDataPacket, once the pipe is free and marked pending: without a
\* link the pipe is given back and keeps its flag; the queue may be empty; else
\* the flag is cleared, and the frames from ENextBulkOutPosition on go out as a
\* batch, or none when one of them is too short.  Nobody else touches the pipe's
\* context while it is pending.
KickData(c) ==
    /\ At(c, "data") /\ Data(pc[c].arg) \in BulkFlags
    /\ LET p == pc[c].arg
       IN  \/ /\ ~PipeFree(p)
              /\ AfterPipe(c, p)
              /\ marks' = marks \cup Hides(p) \cup IF WritePos[p] # ENextPos[p] THEN Missed(p) ELSE {}
              /\ UNCHANGED <<Pending, urbs, ENextPos, BulkFlags>>
           \/ /\ PipeFree(p) /\ Fails("media")
              /\ AfterPipe(c, p) /\ marks' = marks \cup Hides(p) \cup {"media"}
              /\ UNCHANGED <<Pending, urbs, ENextPos, BulkFlags>>
           \/ /\ PipeFree(p) /\ ENextPos[p] = WritePos[p]
              /\ Pending' = [Pending EXCEPT ![p] = TRUE]
              /\ Go(c, "empty", p) /\ marks' = marks \cup Hides(p)
              /\ UNCHANGED <<urbs, ENextPos, BulkFlags>>
           \/ /\ PipeFree(p) /\ ENextPos[p] # WritePos[p] /\ Fails("short")
              /\ BulkFlags' = BulkFlags \ {Data(p)}
              /\ AfterPipe(c, p) /\ marks' = marks \cup Hides(p) \cup {"short"}
              /\ UNCHANGED <<Pending, urbs, ENextPos>>
           \/ /\ PipeFree(p)
              /\ BulkFlags' = BulkFlags \ {Data(p)}
              /\ \E end \in ENextPos[p] + 1 .. WritePos[p] : ENextPos' = [ENextPos EXCEPT ![p] = end]
              /\ BulkOutPipeId' = [BulkOutPipeId EXCEPT ![p] = p]
              /\ \/ Submitted(Data(p)) /\ marks' = marks \cup Hides(p)
                 \/ Refused(Data(p)) /\ marks' = marks \cup Hides(p) \cup {"submit"}
              /\ AfterPipe(c, p)
    /\ UNCHANGED <<resets, ring, WritePos, delivered, NullInUse, counts>>

\* The queue was empty: the pipe is released and its flag cleared, whatever was
\* written, or found the pipe pending, since.
KickEmpty(c) ==
    /\ At(c, "empty")
    /\ Pending' = [Pending EXCEPT ![pc[c].arg] = FALSE]
    /\ BulkFlags' = BulkFlags \ {Data(pc[c].arg)}
    /\ marks' = marks \cup IF WritePos[pc[c].arg] # ENextPos[pc[c].arg] THEN {"missed"} ELSE {}
    /\ AfterPipe(c, pc[c].arg)
    /\ UNCHANGED <<resets, urbs, ring, data, NullInUse, counts>>

\* RTUSBBulkOutNullFrame.
KickNull(c) ==
    /\ At(c, "null")
    /\ \/ /\ Null \notin BulkFlags \/ ~PipeFree(MGMTPIPEIDX)
          /\ marks' = marks \cup IF Null \in BulkFlags THEN Missed(MGMTPIPEIDX) ELSE {}
          /\ UNCHANGED <<Pending, urb, BulkFlags>>
       \/ /\ Null \in BulkFlags /\ PipeFree(MGMTPIPEIDX)
          /\ BulkFlags' = BulkFlags \ {Null}
          /\ \/ Submitted(Null) /\ UNCHANGED marks
             \/ Refused(Null) /\ marks' = marks \cup {"submit"}
    /\ Returns(c)
    /\ UNCHANGED <<resets, BulkOutPipeId, ring, data, NullInUse, counts>>

RTUSBKickBulkOut(c) ==
    KickLook(c) \/ KickTake(c) \/ KickUnflagged(c) \/ KickData(c) \/ KickEmpty(c) \/ KickNull(c)

-----------------------------------------------------------------------------
(* The bus, and the completion tasklets. *)

\* The pipe a transfer was sent on, and the tasklet that pipe's completion runs.
SentOn(x) == IF x \in {Data(p) : p \in Pipes} THEN BulkOutPipeId[x[2]] ELSE MGMTPIPEIDX
TaskletOf(x) == IF x = Null THEN NullTasklet
                ELSE IF x \in {Data(p) : p \in Pipes} THEN DataTasklet(SentOn(x)) ELSE MgmtTasklet

\* A transfer ends; the watchdog may have unlinked it.  A tasklet has room for one
\* transfer: one that waits for it is overwritten.  With a pipe that has no tasklet
\* the completion goes nowhere.
Overwritten(x) ==
    {y \in TxContexts \ {x} :
        /\ TaskletOf(y) = TaskletOf(x) /\ urb[y] \in {"ok", "error"}
        /\ ~(At(TaskletOf(y), "failed") /\ pc[TaskletOf(y)].arg = y[2])}
Completed(x, status) ==
    IF SentOn(x) \in Pipes
    THEN urb' = [y \in TxContexts |-> IF y = x THEN status ELSE IF y \in Overwritten(x) THEN "idle" ELSE urb[y]]
    ELSE urb' = [urb EXCEPT ![x] = "idle"]
UrbDone(x) ==
    /\ urb[x] = "out"
    /\ \/ Completed(x, "ok") /\ UNCHANGED errors
       \/ EventLeft /\ errors' = errors + 1 /\ Completed(x, "error")
    /\ UNCHANGED <<BulkFlags, Pending, resets, BulkOutPipeId, ring, data, NullInUse, pc, calls, marks>>

\* Under its pipe's BulkOutLock a tasklet tests RESET; an error that finds it
\* clear sets it in a step of its own, as another pipe's lock is another lock.
ErrorSeen(x) ==
    /\ SentOn(x) \in Pipes
    /\ MayStart(TaskletOf(x)) /\ urb[x] = "error" /\ ~Reset
    /\ Go(TaskletOf(x), "failed", x[2])
    /\ UNCHANGED <<BulkFlags, Pending, resets, urbs, ring, data, NullInUse, counts, marks>>

\* Transfer x is over for its pipe: after success, after an error that finds a
\* reset under way ("unreset": it will not be repaired), or after a failure.
Released(x) ==
    /\ urb' = [urb EXCEPT ![x] = "idle"]
    /\ Pending' = [Pending EXCEPT ![SentOn(x)] = FALSE]
    /\ CASE At(TaskletOf(x), "failed") ->
               /\ pc[TaskletOf(x)].arg = x[2] /\ urb[x] = "error"
               /\ Reset' = TRUE
               /\ bulkResetPipeid' = IF x[1] = "data" THEN SentOn(x) ELSE BULKOUT_MGMT_RESET_FLAG
               /\ marks' = marks \cup IF Reset THEN {"unreset"} ELSE {}
         [] MayStart(TaskletOf(x)) ->
               /\ urb[x] = "ok" \/ (urb[x] = "error" /\ Reset)
               /\ marks' = marks \cup IF urb[x] = "error" /\ x[1] = "data" THEN {"unreset"} ELSE {}
               /\ UNCHANGED <<Reset, bulkResetPipeid>>
         [] OTHER -> FALSE
    /\ UNCHANGED BulkOutPipeId

\* rtusb_mgmt_dma_done_tasklet: the pipe is free ...
MgmtDone(i) ==
    /\ Released(Mgmt(i))
    /\ Go(MgmtTasklet, "ring", i)
    /\ UNCHANGED <<BulkFlags, CmdQ, ring, data, NullInUse, counts>>

\* ... then, under MLMEBulkOutLock, the cell is ...
MgmtRingDone ==
    /\ At(MgmtTasklet, "ring")
    /\ InUse' = InUse \ {pc[MgmtTasklet].arg} /\ bWaiting' = bWaiting \ {pc[MgmtTasklet].arg}
    /\ TxDmaIdx' = INC_RING_INDEX(TxDmaIdx) /\ TxSwFreeIdx' = FreeMore(TxSwFreeIdx)
    /\ Go(MgmtTasklet, "after", 0)
    /\ UNCHANGED <<BulkFlags, Pending, resets, urbs, TxCpuIdx, data, NullInUse, counts, marks>>

\* RTEnqueueInternalCmd; its callers ignore a failed allocation ("alloc").
RTEnqueueInternalCmd ==
    \/ CmdQ' = CmdQ + 1 /\ UNCHANGED marks
    \/ Fails("alloc") /\ marks' = marks \cup {"alloc"} /\ UNCHANGED CmdQ

\* Mutant: the next cell is not kicked.
MgmtAfterNoKick ==
    /\ At(MgmtTasklet, "after")
    /\ IF Reset /\ bulkResetPipeid = BULKOUT_MGMT_RESET_FLAG
       THEN RTEnqueueInternalCmd ELSE UNCHANGED <<CmdQ, marks>>
    /\ Stop(MgmtTasklet)
    /\ UNCHANGED <<BulkFlags, Pending, Reset, bulkResetPipeid, urbs, ring, data, NullInUse, counts>>
\* ... and a reset of the management pipe is queued, or the next cell kicked.
MgmtAfter ==
    /\ At(MgmtTasklet, "after")
    /\ IF Reset /\ bulkResetPipeid = BULKOUT_MGMT_RESET_FLAG
       THEN RTEnqueueInternalCmd /\ Stop(MgmtTasklet) /\ UNCHANGED BulkFlags
       ELSE /\ BulkFlags' = BulkFlags \cup IF TxSwFreeIdx < MGMT_RING_SIZE THEN {MlmeFlag} ELSE {}
            /\ Kick(MgmtTasklet, "idle")
            /\ UNCHANGED <<CmdQ, marks>>
    /\ UNCHANGED <<Pending, Reset, bulkResetPipeid, urbs, ring, data, NullInUse, counts>>

\* rtusb_null_frame_done_tasklet: a failure is queued for reset, then the kick.
NullDone ==
    /\ Released(Null)
    /\ NullInUse' = FALSE
    /\ IF At(NullTasklet, "failed") THEN Go(NullTasklet, "after", 0) ELSE Kick(NullTasklet, "idle")
    /\ UNCHANGED <<BulkFlags, CmdQ, ring, data, counts>>
NullAfter ==
    /\ At(NullTasklet, "after")
    /\ RTEnqueueInternalCmd /\ Kick(NullTasklet, "idle")
    /\ UNCHANGED <<BulkFlags, Pending, Reset, bulkResetPipeid, urbs, ring, data, NullInUse, counts>>

\* rtusb_dataout_complete: the pipe it was sent on is free ...
DataDone(p) ==
    /\ SentOn(Data(p)) \in Pipes
    /\ Released(Data(p))
    /\ delivered' = [delivered EXCEPT ![p] = IF urb[Data(p)] = "ok" THEN ENextPos[p] ELSE @]
    /\ Go(TaskletOf(Data(p)), "after", p)
    /\ UNCHANGED <<BulkFlags, CmdQ, ring, WritePos, ENextPos, NullInUse, counts>>
\* ... and kicked if more was written; the tasklet of the AC goes on after it.
DataAfter(q) ==
    /\ At(DataTasklet(q), "after")
    /\ LET p == pc[DataTasklet(q)].arg
       IN  BulkFlags' = BulkFlags \cup IF ENextPos[p] # WritePos[p] THEN {Data(q)} ELSE {}
    /\ Kick(DataTasklet(q), "again")
    /\ UNCHANGED <<Pending, resets, urbs, ring, data, NullInUse, counts, marks>>
\* Mutant: only the pipe under reset is noticed, and no reset queued.
DataAgainNoReset(p) ==
    /\ At(DataTasklet(p), "again")
    /\ BulkFlags' = BulkFlags \cup {Data(p)} /\ Kick(DataTasklet(p), "idle")
    /\ UNCHANGED <<Pending, resets, urbs, ring, data, NullInUse, counts, marks>>
DataAgain(p) ==
    /\ At(DataTasklet(p), "again")
    /\ IF Reset THEN RTEnqueueInternalCmd /\ Stop(DataTasklet(p)) /\ UNCHANGED BulkFlags
       ELSE /\ BulkFlags' = BulkFlags \cup {Data(p)} /\ Kick(DataTasklet(p), "idle")
            /\ UNCHANGED <<CmdQ, marks>>
    /\ UNCHANGED <<Pending, Reset, bulkResetPipeid, urbs, ring, data, NullInUse, counts>>

-----------------------------------------------------------------------------
(* The command thread. *)

\* CMDHandler dequeues a command; ResetBulkOutHdlr first clears the DMA path.
CMDHandler ==
    /\ At(CmdThread, "idle") /\ CmdQ > 0
    /\ CmdQ' = CmdQ - 1 /\ Go(CmdThread, "reset", 0)
    /\ UNCHANGED <<BulkFlags, Pending, Reset, bulkResetPipeid, urbs, ring, data, NullInUse, counts, marks>>

\* A failed management or null frame is not sent again: the ring is kicked.
ResetMgmt ==
    /\ At(CmdThread, "reset") /\ bulkResetPipeid = BULKOUT_MGMT_RESET_FLAG
    /\ Reset' = FALSE
    /\ BulkFlags' = BulkFlags \cup IF TxSwFreeIdx < MGMT_RING_SIZE THEN {MlmeFlag} ELSE {}
    /\ Kick(CmdThread, "idle")
    /\ UNCHANGED <<Pending, bulkResetPipeid, CmdQ, urbs, ring, data, NullInUse, counts, marks>>

\* Mutant: a failed batch is not submitted again either.
ResetDataForgets ==
    /\ At(CmdThread, "reset") /\ bulkResetPipeid # BULKOUT_MGMT_RESET_FLAG
    /\ Reset' = FALSE /\ Go(CmdThread, "reflag", 0)
    /\ UNCHANGED <<BulkFlags, Pending, bulkResetPipeid, CmdQ, urbs, ring, data, NullInUse, counts, marks>>
\* A failed batch is, if its pipe is free, which is then marked pending; else
\* the pipe is flagged.
ResetData ==
    /\ At(CmdThread, "reset") /\ bulkResetPipeid # BULKOUT_MGMT_RESET_FLAG
    /\ Reset' = FALSE
    /\ IF Pending[bulkResetPipeid]
       THEN Go(CmdThread, "reflag", 0) /\ UNCHANGED Pending
       ELSE /\ Go(CmdThread, "resubmit", bulkResetPipeid)
            /\ Pending' = [Pending EXCEPT ![bulkResetPipeid] = TRUE]
    /\ UNCHANGED <<BulkFlags, bulkResetPipeid, CmdQ, urbs, ring, data, NullInUse, counts, marks>>

\* RESET is clear again: bulkResetPipeid, read anew, may be another pipe by now.
ResetReflag ==
    /\ At(CmdThread, "reflag")
    /\ BulkFlags' = BulkFlags \cup {Data(p) : p \in Pipes \cap {bulkResetPipeid}}
    /\ Kick(CmdThread, "idle")
    /\ UNCHANGED <<Pending, resets, urbs, ring, data, NullInUse, counts, marks>>

\* The same batch is submitted again, on the pipe bulkResetPipeid names now, which
\* is "misdirected" when it is another, or none.
Astray(p) == IF p = bulkResetPipeid THEN {} ELSE {"misdirected"}
ResetResubmit ==
    /\ At(CmdThread, "resubmit")
    /\ LET p == pc[CmdThread].arg
       IN  /\ BulkOutPipeId' = [BulkOutPipeId EXCEPT ![p] = bulkResetPipeid]
           /\ \/ /\ urb[Data(p)] # "out" /\ urb' = [urb EXCEPT ![Data(p)] = "out"]
                 /\ marks' = marks \cup Astray(p) /\ Kick(CmdThread, "idle")
              \/ /\ urb[Data(p)] = "out" \/ Fails("submit")
                 /\ marks' = marks \cup Astray(p) \cup {"submit"} /\ Go(CmdThread, "undo", p)
                 /\ UNCHANGED urb
    /\ UNCHANGED <<BulkFlags, Pending, resets, ring, data, NullInUse, counts>>

\* A submission that failed releases that pipe, read once more, even if the one
\* marked pending is another.  Both ways end in RTMPDeQueuePacket, and that in a kick.
ResetUndo ==
    /\ At(CmdThread, "undo")
    /\ Pending' = [q \in Pipes |-> Pending[q] /\ q # bulkResetPipeid]
    /\ marks' = marks \cup Astray(pc[CmdThread].arg)
    /\ Kick(CmdThread, "idle")
    /\ UNCHANGED <<BulkFlags, resets, urbs, ring, data, NullInUse, counts>>

ResetBulkOutHdlr == ResetMgmt \/ ResetData \/ ResetReflag \/ ResetResubmit \/ ResetUndo

-----------------------------------------------------------------------------
Sender(t) ==
    \/ SendRoom(t) \/ RtmpUSBMgmtKickOut(t) \/ RtmpUSBNullFrameKickOut(t)
    \/ \E p \in Pipes : RtmpUSBDataKickOut(t, p)
Tasklet ==
    \/ \E x \in TxContexts : ErrorSeen(x)
    \/ \E i \in Cells : MgmtDone(i)
    \/ MgmtRingDone \/ MgmtAfter \/ NullDone \/ NullAfter
    \/ \E p \in Pipes : DataDone(p) \/ DataAfter(p) \/ DataAgain(p)
Next ==
    \/ \E t \in Threads : Sender(t)
    \/ \E c \in Runners : RTUSBKickBulkOut(c)
    \/ \E x \in TxContexts : UrbDone(x)
    \/ Tasklet \/ CMDHandler \/ ResetBulkOutHdlr

Spec == Init /\ [][Next]_vars

-----------------------------------------------------------------------------
TypeOK ==
    /\ BulkFlags \subseteq {MlmeFlag, Null} \cup {Data(p) : p \in Pipes}
    /\ Pending \in [Pipes -> BOOLEAN] /\ Reset \in BOOLEAN
    /\ bulkResetPipeid \in Pipes \cup {BULKOUT_MGMT_RESET_FLAG}
    /\ urb \in [TxContexts -> {"idle", "out", "ok", "error"}]
    /\ BulkOutPipeId \in [Pipes -> Pipes \cup {BULKOUT_MGMT_RESET_FLAG}]
    /\ InUse \subseteq Cells /\ bWaiting \subseteq Cells
    /\ TxCpuIdx \in Cells /\ TxDmaIdx \in Cells /\ TxSwFreeIdx \in 0 .. Wrapped - 1
    /\ \A p \in Pipes : ENextPos[p] <= WritePos[p]
    /\ NullInUse \in BOOLEAN /\ CmdQ \in Nat
    /\ \A c \in Runners : pc[c].then \in {"idle", "unlock", "again"}

\* BulkOutPending is what keeps two transfers off a pipe: it is set exactly while
\* one transfer is on its way or one runner is about to decide, and never for
\* two.  Until ResetBulkOutHdlr submits a batch on a pipe other than the one it
\* marked pending.  (RTUSBKickBulkOut, rtusb_dataout_complete, ResetBulkOutHdlr.)
Claims(p) ==
    {x \in TxContexts : PipeOf(x) = p /\ urb[x] # "idle"}
        \cup {c \in Runners : At(c, "empty") /\ pc[c].arg = p}
        \cup {c \in {CmdThread} : (At(c, "resubmit") \/ At(c, "undo")) /\ pc[c].arg = p}
OneTransferPerPipe ==
    "misdirected" \notin marks =>
        \A p \in Pipes : Cardinality(Claims(p)) = IF Pending[p] THEN 1 ELSE 0

\* MgmtRing's counter, indices and cells agree: the cells in use are those from
\* TxDmaIdx on, as many as TxSwFreeIdx lacks, and a cell that is not in use does
\* not wait.  Unless a cell was submitted twice or two senders took the last one,
\* after which the types are still those of the code.
RingAccounts ==
    /\ TypeOK
    /\ marks \cap {"stale", "overrun"} = {} =>
        /\ bWaiting \subseteq InUse
        /\ TxSwFreeIdx + Cardinality(InUse) = MGMT_RING_SIZE
        /\ InUse = {(TxDmaIdx + k) % MGMT_RING_SIZE : k \in 0 .. Cardinality(InUse) - 1}

\* A reset stops all sending: while it is under way its command is queued, being
\* carried out, or about to be queued, unless its allocation failed.
ResetHasHandler ==
    Reset /\ "alloc" \notin marks =>
        \/ CmdQ > 0 \/ At(CmdThread, "reset")
        \/ At(NullTasklet, "after")
        \/ bulkResetPipeid = BULKOUT_MGMT_RESET_FLAG /\ \E a \in {"ring", "after"} : At(MgmtTasklet, a)
        \/ \E p \in Pipes : At(DataTasklet(p), "after") \/ pc[DataTasklet(p)].then = "again"

\* A batch is taken only when the one before it went out: a failed batch is
\* submitted again by ResetBulkOutHdlr first.  Unless a submission failed, the
\* failure met another reset, when rtusb_dataout_complete leaves the batch behind,
\* or a batch was submitted on another pipe, whose completion frees that one.
BatchesInOrder ==
    [][\A p \in Pipes : ENextPos'[p] # ENextPos[p] =>
           \/ delivered[p] = ENextPos[p]
           \/ marks \cap {"submit", "unreset", "misdirected"} # {}]_vars

\* When nothing moves any more, nothing that could be sent was forgotten: every
\* release of a pipe is followed by a kick that sees what waited for it, except
\* the release of a pipe found empty ("missed"), and, for the null frame, every
\* kick that found the last pipe flagged ("hidden").  (RTUSBKickBulkOut.)
Quiet ==
    /\ \A c \in Runners : At(c, "idle")
    /\ \A x \in TxContexts : urb[x] = "idle"
    /\ CmdQ = 0
NothingForgotten ==
    Quiet /\ marks \subseteq {"hidden"} =>
        /\ bWaiting = {} /\ (NullInUse => "hidden" \in marks)
        /\ \A p \in Pipes : ENextPos[p] = WritePos[p]

\* ASSERT((pAd->MgmtRing.TxDmaIdx == index)) of rtusb_mgmt_dma_done_tasklet: the
\* cell that went out is the one at TxDmaIdx.
AssertDmaIdx ==
    \A i \in Cells : At(MgmtTasklet, "idle") /\ urb[Mgmt(i)] \in {"ok", "error"} => TxDmaIdx = i
=============================================================================
