# A verification project for the MT7601U USB station driver

TLA+ specifications, TLC configurations and TLAPS proofs for the MediaTek/Ralink
driver in this repository. The build modelled is the one `makefile` and
`os/linux/config.mk` select: chip MT7601U, USB, station mode, timers run by a
thread (`RTMP_TIMER_TASK_SUPPORT`), WPA supplicant and cfg80211 support; no AP,
P2P, TDLS, DLS, WSC, WAPI, U-APSD or multi-channel code. Code behind those
switches is not compiled and is not modelled, with one exception: `common/cmm_wpa.c`
holds both ends of the key handshakes, and `WpaHandshake` lets the station meet the
authenticator of this same code, as its AP build (`ap/ap_wpa.c`) completes it.

## 1. The system

| Component | Source | State | Operations | Talks to |
|---|---|---|---|---|
| MLME queue and thread | `common/mlme.c`, `os/linux/rt_usb.c` | ring of 40 slots, `Num`, `Head`, `Tail`; wake-up semaphore; halt and suspend flags | `MlmeEnqueue`, `MlmeEnqueueForRecv`, `MlmeHandler`, `MlmeDequeue`, `MlmeQueueDestroy` | every machine, timers, ioctls, receive tasklet |
| Driver timers | `common/rtmp_init.c`, `common/rtmp_timer.c` | per timer: `State`, `Repeat`, kernel timer; the pool and list `TimerQ` | set, modify, cancel, expire, the timer thread | handlers that queue timeouts; `MlmePeriodicExec` |
| CNTL, SYNC, AUTH, AUTH_RSP, ASSOC machines | `sta/*.c`, `common/scan.c` | `CurrState` of each, `MlmeAux`, the table of matching BSSs, the link | one handler per message and state | each other, only through the MLME queue |
| Periodic work | `common/mlme.c` | counters, scan times | reconnect, roam, scan, resume a scan; wake the MLME thread | MLME queue; writes CNTL's state itself |
| Ioctls | `sta/sta_cfg.c`, `common/cmm_cfg.c` | configuration | SET SSID, SET BSSID, scan, disassociate; reset when CNTL is busy | MLME queue |
| Block ack | `common/ba_action.c` | originator and recipient sessions, reordering buffer | ADDBA, DELBA, BAR, reorder, flush on timeout | data path, timers |
| USB bulk | `common/rtusb_bulk.c`, `common/cmm_data_usb.c` | transmit contexts, pending and in-use flags, bulk flags | submit, complete, reset | command thread |
| Command queue | `common/cmm_cmd.c`, `common/rtusb_io.c` | `CmdQ`, its state | enqueue, the command thread, exit | bulk reset, register access |
| MCU commands | `mcu/rtmp_and.c`, `common/rtusb_bulk.c` | a 4-bit number, the list of awaited responses; the one transfer that brings them, `InUse`, `Readable` | send and wait, receive, radio off and on | every thread that touches the chip |
| WPA handshake | `common/cmm_wpa.c`, `ap/ap_wpa.c` | at each end `WpaState`, replay counter, PTK, installed keys, port; the access point's `ReTryCounter`, `GTKState`, timers, group key | one handler per message of the two handshakes, retries, group key update | MAC table, timers, link up and down |
| MAC table, power save | `mgmt/mgmt_entrytb.c`, `common/ps.c` | entries, queues of sleeping peers | insert, delete, wake | data path |
| Rate control, PHY, EEPROM, crypto, ATE, cfg80211 | various | registers, statistics | | |

Threads and contexts: the MLME thread (all state machines), the timer thread
(all timer handlers), the command thread, the receive and completion tasklets,
kernel timer callbacks, and the ioctl callers.

What is hard, and therefore what the properties are about:

* the room test and the insertion of `MlmeEnqueue` are two critical sections, and
  the handler goes on using a slot it has dequeued;
* wake-ups are lost while the device is suspended;
* cancelling a timer races with its callback, which takes none of the locks the
  canceller holds, and with the timer thread, which tests the list without a lock;
* four machines wait for one another through a queue in which frames, timeouts,
  resets and requests may overtake an answer, and a reset clears the machines but
  not the queue;
* the timer thread writes CNTL's state while the MLME thread runs CNTL;
* sequence numbers wrap, the reordering window moves past held and missing frames, and
  the pool of reordering blocks runs out;
* of the block-ack table only the search and the last step of a release are locked: the
  network stack, ioctls, the MLME thread and the timer thread meet in between;
* each bulk-out pipe has its own lock, there is one reset flag for all, and what a kick
  looked at before it took the lock may be gone when it holds it;
* the transfer that brings the MCU's responses is put up again by its tasklet, by a thread
  that polls it, by radio-on, and is killed by radio-off, under flags that are tested and set
  in separate critical sections;
* the access point's retries and its group key update run in the timer thread and work on
  the MAC table entry the MLME thread is answering for, without a lock; the entry, its
  counters and its timer outlive an association, and every message may be lost;
* most failures of an allocation or a submission are ignored by the caller.

`PROJECT.json` lists the hazards, each at its line, with the properties that cover it or
the reason why none does.

## 2. The modules

| Module | What it is |
|---|---|
| `MlmeMailbox` | what the MLME queue promises: accepted messages are handed over one at a time, in order, each once, until the interface closes |
| `MlmeQueue` | the ring, its senders, the MLME thread, suspension and closing |
| `MlmeQueueProofs` | its inductive invariant, the theorems, and the proof that it implements the mailbox |
| `TimerTask` | driver timers, the timer queue and the timer thread |
| `TimerTaskProofs` | the inductive invariant of the queue's two lists and the theorems |
| `BaReorder` | the reordering buffer of a session in which the station is the recipient |
| `BaReorderProofs` | the arithmetic of sequence numbers, the buffer's invariants and the theorems |
| `BaOriginator` | the table of sessions the station opens, their timers and callers |
| `BaOriginatorProofs` | its inductive invariants and theorems |
| `BulkOut`, `MCBulkOut` | transmit contexts, kicks, completions, and the bulk reset by the command thread; the second adds the symmetry of the senders |
| `BulkOutProofs` | the inductive invariants of its pipes, of the bulk reset, of the management ring and of what waits for a kick, and the theorems |
| `AndesCmd`, `MCAndesCmd` | commands to the MCU, the transfer of its responses, radio-off and radio-on; the second adds the bounds |
| `AndesCmdProofs` | the inductive invariants of the response buffer and of the numbers, and the theorems |
| `StaConnect` | the four machines, their timers and peers, ioctls and the periodic timer |
| `StaConnectProofs` | the ranges of its variables, the invariant of its timers, that of undisturbed attempts, and the theorems |
| `WpaHandshake` | the four-way and the group key handshake, both ends and the channel between them |
| `WpaHandshakeProofs` | the inductive invariants of its retries and timers, of the keys under way and of the replay counters, and the theorems |

### MlmeQueue

`Num`, `QHead`, `QTail` and `Entry` are `MLME_QUEUE`; a slot holds its message, or
`NoMsg` when it is not `Occupied`. A call of `MlmeEnqueue` is `EnqueueStart` (the
halt test), `TestRoom...` (the first critical section), `Insert` (the second) and,
for a caller that is not the MLME thread, `Wake`; `pc[t]` says where caller t is.
`MlmeThread`, `MlmeQueueEmpty`, `TestFlags`, `MlmeDequeue` and `FreeElem` are the
steps of the MLME thread; `FreeElem` clears the slot without the lock, as the code
does. Closing follows `RTMPDrvClose`: the flag (`SetHalt`), `MlmeQueueDestroy` with
the thread still running, then `TasksExit`; `MlmeInit` opens again.

`ImplementsMailbox` is the refinement: box is the sequence of slots from `QHead`,
cur the slot in service.

### TimerTask

`State`, `Repeat` and `pending` are a timer's fields and its kernel timer, `irq` its
callback between expiry and `RtmpTimerQInsert`. The list and the free pool are kept
as pointers (`pQHead`, `pQTail`, `pQPollFreeList`, `pNext`), as the hazards lie in
them. `RTMPCancelTimer` is three steps (pending test, `del_timer_sync`, removal from
the queue); the timer thread's round is `ThreadTestsHead` (no lock), `ThreadPops`,
`HandlerReturns`, `ThreadTestsRepeat`, `ThreadRearms`, with the local `pTimer` that
survives from one round to the next.

### StaConnect

`Cntl`, `Sync`, `Auth` and `Assoc` are the machines' `CurrState`; one action per handler
bears the handler's name. `Queue` holds the messages whose sender looked at the
machines before it sent: their order matters. Frames and timeouts carry nothing of the
sender's view, so that a frame received early and handled late is the same as one
received late; they are handled at any moment, which is every place they could have in
the queue. `armed` and `late` are the timers that run and those whose timeout is on its
way. `AuxBssid` is `MlmeAux.Bssid`, which every request overwrites; `Wcid` is the AP whose
association response filled `MacTab.Content[BSSID_WCID]`; `Bssid` is the link.

`Disturb` chooses who acts while an attempt is under way: the user (a reset and the next
request), the peer (disassociation, deauthentication), the timer (its unlocked test and
write of CNTL's state). With `Disturb = {}` these wait until CNTL is idle.

### BaReorder

A frame is known by its absolute number, the code sees `Seq12` of it: every comparison of
the code is made on the reduced numbers and every property on the absolute ones, so that
a comparison that fails at the wrap shows. `list` and `pool` are the reordering list and
the free blocks, `LastIndSeq` the number handed up last. `rx` and `mlme` say where the
receive tasklet and the MLME thread are when they are between two critical sections. The
peer may send any frame of its window at any time and any number of times.

### BaOriginator

`ORI_BA_Status`, `TID`, `Wcid` and `Token` are an entry's fields, `valid`, `armed` and `late`
its timer (initialised, running, expired but not served); `BAOriWcidArray`, `TXBAbitmap` and
`Aid` belong to the AP's MAC table entry. Each caller is at one place of its call: "look" (the
index is read), "alloc", "test", "fill", "time" (a set-up), "free", "freeing" (a release;
"stray" when the entry names a MAC table entry that is not the AP's), "grant" (an accepting
response), "retry" (the timer handler), "all" (the loop over all TIDs).

The link ends in two ways. `LinkDown` tears the sessions down one after the other, and
`MacEntryZeroed` then zeroes the AP's MAC table entry as a whole (`connect.c:2793`), with
whatever it still mapped. A station that roams (`Roam`, `Roamed`) has no `LinkDown`: the sessions
are torn down and the entry is given to the new AP as they leave it (`assoc.c:1222`). `LinkUp`
takes the entry again.

`marks` records what went wrong outside the property's subject: `crossed`, two calls for one
session met between two unlocked steps, or a set-up went on after the loop of `LinkDown` had come
past its TID; `untimed` and `reinit`, a timer set but never initialised, or initialised while it
runs; `nomem`, a DELBA that could not be allocated while the AP's entry was deleted. Properties
that leave out a mark hold up to it, and the code can break them after it.

### BulkOut

A transfer context is a management cell, a pipe's data context or the null frame's; `urb`
is where its transfer is. `Pending` is `BulkOutPending`, `BulkFlags` and `Reset` the flags
of those names, `BulkOutPipeId` the pipe a context was last sent on. `KickLook` (no lock) and
`KickTake` (under the lock) are `RTUSBBulkOutMLMEPacket`. A pipe whose flag is not set is passed
by (`KickUnflagged`); `KickData` and `KickEmpty` are `RTUSBBulkOutDataPacket`, which gives the pipe
back without a link, drops the batch when a frame is too short to be one, and finds its queue
empty while the pipe is already marked pending. `KickNull` is reached only when the last pipe's
flag was not set, as the null frame is the `else if` of that flag. A completion is `ErrorSeen`
(the flag is tested), then `MgmtDone`, `DataDone` or `NullDone` in the tasklet of the pipe
the transfer was sent on, then the kick; a tasklet has room for one transfer, and a second one
for it overwrites the first. The command thread's `ResetBulkOutHdlr` is `ResetMgmt`, or
`ResetData` and then `ResetReflag` or `ResetResubmit`, which sends the failed batch on the pipe
`bulkResetPipeid` names by then, and `ResetUndo` when that submission fails. `marks` records the
gaps listed in section 4.

### AndesCmd

A call of `AsicSendCmdToAndes` is `Choose` (the locked part of `GetCmdSeq`), `Read` (its
unlocked return), `List` or `NoEntry`, `Kick`, `WaitEnds`, `Return`. `commands` is what the
device has taken, `events` what it will send, `buf` the driver's one buffer. Each of the
three contexts that run `RTUSBBulkCmdRspEventReceive` is at a place `at[r]` of it: `RecvTest`,
`Handle` (`CmdRspEventCallbackHandle`), `RecvClear`, `BulkIn`, `Submit`, `Unmark`. The
tasklet comes to it through `TaskletStart` and `TaskletStatus`, radio-off each time it polls
(`Poll`) before `SetRadioOff`, `Cancel`, `KillEnds`, `CancelUnmark`, radio-on after
`ClearRadioOff`. `urb` is the transfer, or the status it ended with; while it is being killed
submissions are refused, as `usb_kill_urb` does. History: `age` counts the numbers taken
since a command's own, `overlap` names the callers that chose at the same time, `handled`
how often the buffer's content was taken, `marks` the meetings the properties except.

### WpaHandshake

`ap` is the access point's `MAC_TABLE_ENTRY` of the station (`in`: the table holds it;
`Established`: `GTKState`), `sta` the station with its entry of the access point. A nonce is
the number of its drawing, a pairwise key the pair of its nonces, a MIC the key it was made
with, a group key its version; `enc` is the key a frame is encrypted with, which the receiver
must have installed. `down` and `up` are the channels: in order, of `Cap` frames, and every
frame may be lost. Each handler of `cmm_wpa.c` is an action of its name.
`PeerPairMsg2Action` is two (`...Check`, which replaces the PTK before it looks at the frame,
and `...Answer`), since the timer thread may run in between; the timer thread's `WPARetryExec` is
the count, then `RetryDeauth`, `RetryGroup` or `RetryTest` and `RetrySend`, and
`GREKEYPeriodicExec` is `NewGTK` and `RekeyStations`, or `CountDown`. `EnqueueStartForPSKExec`
is three steps, its unlocked test, `StartEnqueue`, and `StartClear`, which clears `startFlag`
(`EnqueueEapolStartTimerRunning`) whatever has come in between; `ApAssoc` sets the timer of the
start only when it finds that flag clear. Authentication and association are one exchange;
`EntryAfterAssoc` keeps the entry that is still there, with its timers and replay counter, and
sets its `ReTryCounter` as `ap_assoc.c:371` does. `Fails` names the allocations that may fail
(an allocation of `PeerWpaMessageSanity` that fails is a lost frame). `marks` names two races:
`lost`, the start of the current association is lost to a handler of `EnqueueStartForPSKExec` that
had not ended; `crossed`, a retry chosen for one association has sent the group message into the
handshake of the next.

### How they compose

`StaConnect` uses the queue as a sequence, which `ImplementsMailbox` justifies, and
`InternalFindsRoom` that replies are not refused. Its timers and those of `BaOriginator`
are set, cancelled and expire as `TimerTask` shows: a cancellation may miss an expired
timer (`late`), an expiry is served, a cancelled timer dies out.

## 3. The runs

| Run | Expectation | Shows |
|---|---|---|
| `MCMlmeQueue` | pass | ring, slot in service, room for internal messages, the mailbox refinement, every message served |
| `MCTimerTask` | pass | the two lists share the pool, through close and reopen |
| `MCTimerTaskLive` | pass | an expiry is served, the periodic timer survives, a cancelled one dies out |
| `MCStaConnect` | pass | no machine waits untimed, however it is disturbed |
| `MCStaConnectCalm` | pass | CNTL's answer is on its way, every attempt ends, data is released, the MAC table entry is the linked AP's |
| `MCStaConnectReset` | violation | confirms that survive a reset bring up a link nobody granted |
| `BaReorder` | pass | frames go up in order, the window holds, no block is lost, and until a frame overtakes others only known ones are dropped |
| `BaOriginator` | pass | the table is accounted for, no session is lost or waits for ever, aggregation only in sessions, no agreement outlives its link: up to the named marks |
| `MCBulkOut` | pass | one transfer per pipe, the ring agrees, resets are carried out, batches in order, nothing forgotten: up to the named marks |
| `MCBulkOutAssert` | violation | a management cell is submitted twice |
| `MCAndesCmd` | pass | responses reach their own callers, none is lost or handled twice, the driver listens again with the radio on |
| `WpaHandshake` | pass | both ends finish with the same keys, the station's port opens on keys only, no unfinished handshake is left without a timer, but for the two named races; retries are bounded |

The type invariants: `TypeOK` is checked by name in `MCStaConnect`, `MCAndesCmd` and
`BaOriginator`, as part of `PoolIntact`, `HeldInWindow` and `RingAccounts` in their modules,
and proved in every module.

Bounds and why they are enough:

* `MCMlmeQueue`: 5 slots, so that half of them (2), one receiver in flight and two
  internal messages just fit (the assumption of the theorems, tight); `InternalLimit`
  bounds internal messages; `SemaMax` 1, as one pending wake-up drains the queue. The
  proofs lift the safety part to every size.
* `MCTimerTask`: one one-shot and one periodic timer, a pool of 2, which both exhaust
  and a single timer can occupy twice (it is queued, popped and queued again). The live
  run has a pool of 1, so that the full pool is met all the time.
* `MCStaConnect`: one AP, `WPA2PSK` (the mode in which a deauthentication moves CNTL),
  all three disturbers; at most one timeout on its way, senders from outside wait for an
  empty queue (`QueueBound` 1), though a user's request still follows its reset, and replies
  are never refused: queues of four and more messages occur. `UserOids` leaves out SET BSSID
  and list scans, which the calm run has. The proofs lift both of its properties to every bound.
* `MCStaConnectCalm`: two APs, `AUTOSWITCH` (both algorithms are tried), two channels
  with an improved scan that pauses after one, all timeouts possible at once. The proofs lift its safety part to every bound.
* `BaReorder`: a window of 3 and sequence numbers modulo 16 that wrap in the middle of the
  six frames sent, a pool of 2 so that it runs out, EAP and data frames, a session that is
  renewed and ended at any moment. The proofs lift its properties to every window and space.
* `BaOriginator`: two TIDs, a table of two usable entries, two retries, four calls by four
  callers, of which two (`CPUs`) are at work at once besides the timer thread: two calls and an
  expiry can meet at each unlocked step and a fourth can find the result. The counter, which wraps at 2^32 or 2^64, wraps at 65536, out of reach of every count that is
  right. The proofs lift all but `EveryRequestDecided` to every size.
* `MCBulkOut`: two senders, a management ring of 2, at most two frames for each of two data
  pipes, four events (`MaxEvents`: frames sent, and transfers, submissions and allocations
  that fail), two contexts (CPUs) inside a call at once besides the command thread, which may
  sleep inside its own. Four events are two frames and the second failure during a reset of
  the first, or three frames and a failure, or more frames than the ring has cells; a ring of
  2 is full, empty and wraps. A kick without a link and a frame too short to be one count as
  events too. Of the four pipes two are kept: 0, which management and null frames share, and the
  last, AC3's, whose flag decides whether the null frame is looked at; the two in between
  differ from both only in what they lack. `Wrapped` is what an unsigned counter wraps at, out of
  reach of the ring. The proofs lift all five properties to
  every bound.
* `MCAndesCmd`: two callers and numbers 1 and 2, so that the numbers go round, two calls
  choose at once, and a late response meets a reused number. `Budgets` bounds each behaviour
  in one of four ways: three commands; one command and a radio-off; a radio-off and two
  events, the second of which can overwrite the first; two radio-offs and an event, so that
  what the first left behind meets the second. Two commands and two events fit in the device;
  a submission and a transfer fail of themselves once each.
* `WpaHandshake`: two associations, so that frames, timers and keys of the first meet the
  second; two frames in flight each way, so that a repeated message can follow the first; one
  group key update. Retries, nonces and counters need no bound of their own: each retry
  counts. The run is of WPA, whose handshakes have every message, with the failing
  allocations after which the properties hold. `Prompt` is an assumption about time: a handler of
  the timer thread, which takes microseconds, ends before an answer that was not yet
  sent comes over the air. What the MLME thread already has may cross it, an association request
  that waits in its queue among it. Only `EstablishedAtBothEnds` in WPA needs it: without it a
  handler of WPA may sleep through a whole association. Without the two marks TLC finds, with
  `Prompt`, a start lost to a handler of the association before, and a retry chosen for one
  association that sends the group message, unencrypted, into the next, where it opens the port of
  a station without keys. The proofs lift all five properties to every bound, and say what
  each of them needs (section 5).

Fairness. A context inside a call returns from it, the kernel runs a woken thread, time
passes (a running timer expires) and the periodic timer fires: weak fairness of each. In
`TimerTask` strong fairness says that a handler, which makes finitely many timer calls,
returns; that `del_timer_sync` gets its turn; and that a timer that retries each second is
not for ever in step with a pool that is full. In `StaConnect` `ResumeScan` is strongly
fair, because `QueueBound`, which the driver does not have, may disable it for a time. In
`BaOriginator` some call or handler in progress goes on, and some running timer expires (weak
fairness of each: nobody waits for another), and the part of `BAOriSessionSetupTimeout` outside a
scan is strongly fair, as scans end (`DataReleased`). No
fairness is assumed of users or peers. In `AndesCmd` the contexts that run
`RTUSBBulkCmdRspEventReceive` and the kill are weakly fair; nothing says that the device
answers, or that a poll ends. No fairness is assumed in `BaReorder`, `BulkOut` and
`WpaHandshake`, whose properties are safety. `MCStaConnect` and its violation run
do not look for deadlocks: a disturbed CNTL may really stay stuck. Nor do
`BaOriginator`, `MCBulkOut`, `MCAndesCmd` and `WpaHandshake`, where everything
comes to rest when the calls or the associations are used up;
`NothingForgotten` says what must hold at rest.

## 4. What was found

Each is a violation run; the finding in `PROJECT.json` quotes the text it contradicts.

1. `MCStaConnectReset`: a reset leaves queued confirms. `JOIN_CONF`, `AUTH_CONF` and
   `ASSOC_CONF` of an attempt on one AP take the next `SET BSSID`, to another AP, straight
   to `LinkUp`.
2. `MCBulkOutAssert`: `RTUSBBulkOutMLMEPacket` picks its cell before it takes the lock; when
   the cell is sent in between it is sent twice, against the `ASSERT` of `rt_usb.c:554`.

Known from the models, without a run of its own (see the hazards):

* The queue: several senders can overfill it when `Provisioned` (section 5) fails;
  `MlmeQueueDestroy` runs under a live MLME thread, and a dequeue in between wraps `Num`
  until the next open.
* Timers: `RTMPCancelTimer` misses a timer whose callback has started, which is queued
  afterwards; the timer thread may run the handler of the previous round again; a one-shot
  timer that expires during a USB suspension is dropped.
* Connection: `CntlWaitDisassocProc` increments `BssIdx` first, so that after `SET BSSID`
  while associated the only match is skipped; `PeerDisassocAction` confirms only
  `CNTL_WAIT_DISASSOC`, so that the user's own disassociation, in `CNTL_WAIT_OID_DISASSOC`,
  waits until a reset when the AP disassociates first; a deauthentication between an AP's grant and
  `LinkUp` leaves a link without a MAC table entry.
* Reordering: a frame that finds no block, or is EAP, passes the frames held behind it, which
  stay in the list as stale copies; the list can then outgrow `BAWinSize`, against the
  `ASSERT` of `ba_action.c:1904`. A stale copy that stays until the numbers have gone
  round is released in place of a frame of its Sequence, and that frame is dropped as old when
  it comes (seen with sequence numbers modulo 8, a window of 3 and frames 5 to 19), so that
  `DropsOnlyKnown`, like the other order properties, speaks of the time before.
* Originator sessions: crossing calls release an entry twice (the `ASSERT` of
  `ba_action.c:873`), unmap a new session, or clear the aggregation bit of a new session
  of the same TID; a late expiry frees an established session without a DELBA. A session whose DELBA
  cannot be allocated stays in the table when the link ends: after `LinkDown`, which zeroes the MAC
  table entry, nothing maps to it and it is lost to the table; a station that roams takes it along
  as a session with the new AP. A set-up that goes on after `LinkDown` has come past its TID ends
  the same way, and when it waits for an answer it waits for ever, as its timer's handler does not
  find the entry (`ba_action.c:1192`).
* Bulk out, by the mark that names it: `missed`, a kick turned away by a runner that only
  finds a queue empty; `overrun`, two senders take the last cell; `unreset`, a second failure
  during a reset is not repaired; `misdirected`, `ResetBulkOutHdlr` submits the failed batch on the
  pipe that `bulkResetPipeid` names by then (`rtusb_io.c:1180`), whose completion frees that
  pipe while the one marked stays pending, or releases that pipe if the submission fails; `hidden`,
  a kick that finds the flag of AC3's pipe set passes by a null frame that waits
  (`rtusb_bulk.c:1412`); `alloc`, `submit`, `media` (no link) and `short` (a frame too short for its
  header), failures nobody repairs.
* MCU commands: two calls that choose at once share a number, and the first listed takes both
  responses; a response later than a full round of numbers ends another wait. `gap`: a thread
  that polls submits the transfer between the tasklet's two critical sections, over a response
  nobody has read; `together`: both handle it. `crossed`: a thread that switches the radio on
  while radio-off has yet to kill the transfer leaves the driver deaf to responses until the
  radio next goes off. `unmarked`: `RTUSBCancelPendingBulkInIRP` clears the flags of a transfer
  the tasklet has yet to take.
* Handshakes: with a failed allocation of message 1, group message 1 or a deauthentication, or
  a full MLME queue, an entry can be left without a running timer (`WPAStart4WayHS` and
  `MlmeDeAuthAction` give up silently), and `HandshakeTimed` fails; `lost`, an association
  between the test of `EnqueueStartForPSKExec` (`cmm_wpa.c:1988`) and its last line finds the flag of
  the start still set and sets no timer, or has the flag of its timer cleared, so that nobody
  starts its handshake; `crossed`, a retry of the group message chosen before a new association is
  sent after it, unencrypted and with the counter of the new handshake (`WPARetryExec` tests
  `GTKState` alone); in WPA2 a station whose message 4 is
  under way is skipped by an update and keeps the old group key; the group handshake of an
  update is not repeated, and the new key comes into use after three calls whoever has
  acknowledged it (`ap_wpa.c:836`); message 3 is never repeated: its retry count, 10, makes
  the first timeout disconnect as "4-way message 1 retried more than three times"
  (`ap_wpa.c:697`). In WPA, if the group message of an update cannot be allocated, a late group
  message 2 of the key before establishes a station that does not have the new one.

## 5. The proofs

`MlmeQueueProofs` proves, for any number of slots, senders, receivers and messages:

* `TypeCorrect`: `Spec => []TypeOK`, with no further assumption;
* `Invariance`: `Provisioned => (Spec => []IInv)`;
* `RingIsConsistent`, `ServiceSlotIsKept`, `InternalAlwaysFindsRoom`: `Provisioned` implies
  `Spec => []` of `RingShape`, `ServiceSlotKept` and `InternalFindsRoom`.

`Provisioned` says `N \div 2 + Cardinality(Receivers) + InternalLimit <= N`: receivers stop
at half the queue, each may be past its test for room once, and the rest must hold the
internal messages. Without it several senders can overfill the queue.

None of the properties is inductive alone. `IInv` joins: the types; `CallInv` (a caller
past its tests holds a message of its kind); `CloseInv` (the closing stages and what has
stopped by then); `RingInv` (counter, indices and occupied slots agree, which needs
`Num < N` at every insertion); `HandlerInv` (where the handler is, its slot is the one
behind `QHead`, and a queue it has found non-empty stays so, as nobody else dequeues); and
`BudgetInv` (messages in the queue plus those of callers past the room test stay within
what `Provisioned` allows), which gives the missing `Num < N`. Each action has its lemma.

The second half proves `QueueImplementsMailbox`: `Provisioned` implies
`Spec => ImplementsMailbox`. From `IInv`, `Insert` is the mailbox's `Put`, `MlmeDequeue` its
`Take`, `FreeElem` its `Done`, `MlmeQueueDestroy` its `Close` and `MlmeInit` its `Open`; every
other step leaves the box and the message in service alone. `ContentsByPlace` writes the
box without the remainder: the k-th message is in slot `QHead + k - 1`, or N slots
before it. An insertion appends to the box because it fills the one slot behind the last
message, which is free as `Num < N`; freeing a slot leaves the box alone because the slot in
service is the one behind `QHead`, outside the messages that wait.

`TimerTaskProofs` proves, for any timers, callers and size of the pool, from `TimerAssumption`
alone:

* `TypeCorrect`: `Spec => []TypeOK`;
* `PoolStaysIntact`: `Spec => []PoolIntact`.

`PoolIntact` speaks of what can be reached by following `pNext`, which no step changes
in a simple way. `ListInv` says instead that there is an order `o` of all entries and a
number `m` such that the queue is the first `m` entries of `o` and the free list the
others (`Split`). An insertion then only adds one to `m`; taking entry `k` out moves it to place
`m` and takes one from `m` (`Moved`, `UnlinkSplits`). `HopsAlong` ties the order to the
recursive `Hops`: the least hop at which it and the order differ would need an earlier one.
`PlaceInv` adds that a cancellation and the thread past a pop have their timer.

`BaOriginatorProofs` proves, for any number of entries, TIDs, retries and calls, from
`BaOriginatorAssumption` alone (at least two entries, one of which is reserved, and a
counter wide enough to count them):

* `OriginatorTypes`: `Spec => []TypeOK`, by which no caller indexes outside the table;
* `SessionsAreCounted`: `Spec => []SessionsCounted`;
* `SessionsAreKept`: `Spec => []NoSessionLost`;
* `BitsFollowSessions`: `Spec => []AggregatesInSession`;
* `NoneOutlivesTheLink`: `Spec => AgreementsEndWithLink`;
* `AllocationFinds`: without crossings an allocation that passes the counter's test finds a
  free entry, so that the search never falls through to its last one.

`IInv` joins `TypeOK`, `SessionsCounted` and `CallInv`, which says what a caller holds at
each place: an entry where it fills or releases one, a TID still to do in the loop, a retry
count within its limit. The counter is right because every step that changes an entry's
status between in use and free either changes the counter with it or marks a crossing.
`NoSessionLost` is not inductive: "in the hands of a call" must say which call and where.
`OwnedInv` says that an entry no TID maps to is held by a call that has just allocated it
or is about to free it, and a step of another caller that would take it from its owner is
a crossing. It holds until a DELBA of the end of a link could not be allocated (`nomem`), since
the MAC table entry is then zeroed over a session. For the bits `SessionInv` adds `MapInv` (a TID maps to a live session of its
own), `FreeingInv` (a session being freed is nobody else's) and `BitInv` (a bit belongs to an
established session, or goes with the one being freed). For the end of the link `DownInv`
says that of the TIDs the MLME thread's loop has come past, each maps to nothing, or to the session
the loop is about to release, or, when the station roams, to one that is not established. Hence
`NoneOutlivesTheLink`: when the station roams no aggregation bit is left, and when a link
comes up after `LinkDown` no entry of the table is in use.

`WpaHandshakeProofs` proves, for any number of associations, updates and frames in flight, any
set of failing allocations and with or without `Prompt`:

* `TypeCorrect`: `Spec => []TypeOK`;
* `RetriesAreBounded`: `Spec => []RetriesBounded`;
* `HandshakesAreTimed`: `NoneGivesUp => (Spec => []HandshakeTimed)`, up to a `lost` start;
* `KeysAlwaysAgree`: `Spec => []KeysAgree`, whatever fails or is crossed;
* `PortOpensWithKeys`: `Spec => []PortOpensOnKeys`, up to a `crossed` retry;
* `EstablishedEnds`: `WPA2 \/ (Prompt /\ "group1" \notin Fails)` implies
  `Spec => []EstablishedAtBothEnds`;
* `EstablishedIsOpen`: the half of it that speaks of the port, with no hypothesis.

`IInv` joins `TypeOK` and `RetryInv`. The bound on `ReTryCounter` is not inductive, as
`WPARetryExec` counts without looking: a timer that runs must leave a count, so whoever sets it must know
the counter, and the handler that sets it again has looked at a counter that a start, message 2,
message 4 or a new association may have set anew since. `RetryInv` gives each case its bound: 21 while the timer runs
or the handler is about to repeat group message 1, 20 while it is about to repeat message 1. It
also says that the countdown is 3 when the update comes to the stations, and that the flag of
a start is that of its timer or of an expiry whose handler has not ended. Each action has
its lemma, and helpers (`Transmit`, `Eapol`, `WPAStart2WayGroupHS`, `SendMsg1`) have theirs.

`NoneGivesUp` says that the allocations of message 1 before its timer is set, of the queued
start and of the disconnection succeed; any other may fail. These are the failures after which
the code gives the handshake up, so that without the hypothesis the property is false (section 4). `TimedInv`
goes with the stages: before message 1 the start timer with its flag or a queued start (or the mark
of a lost one), from message 1 on the retry timer, and in either case the handler in the middle of its work will do. Its one
delicate part is the handler that has chosen to repeat message 1 while message 2 arrives:
the MLME thread has then set the timer, which the third conjunct remembers.

The other theorems relate the two ends through every frame in flight. What each step does to
the channels is read off once (`Takes`, `MaySend`, `Moves`, and a lemma `...Does` per action);
the invariants after it speak of positions in a channel.

`Ord` orders the pairwise keys by the station's nonces: a message 2 in flight carries a newer
nonce than the access point's PTK, messages 3 and 4 carry none newer, and while message 2 is
being answered only older ones; so a message of an earlier handshake never has the PTK of the one
under way. `Agr` is then what `KeysAgree` needs: a message 3 of the handshake under way
has every association response ahead of it, a message 4 of it comes from a station that has
installed its key, and once the handshake is done neither a response nor a message 3 is left that
could make the station install another. `Own` adds that the station's port is open before its
answer can establish the keys: message 4 in WPA2, group message 2 in WPA, which is behind
message 4 or comes after it.

`PortOpensOnKeys` depends on the one frame that may open the port by accident: a group
message 1 without encryption, which the station needs no key to read. `WPAStart2WayGroupHS`
encrypts its frame whenever the entry has the pairwise key, and every caller but the timer thread's
retry has looked at the state of the entry in the same step. The retry that has looked too early is
the one that marks `crossed`; until then every group message in flight is encrypted
(`GroupFrames`), and the station that takes one has its pairwise key installed and gets the
group key with it.

In WPA the newest group key needs the replay counters. `Counters` says that a message 1 or 2
with the entry's nonce has no newer counter than the entry and an older one from message 3
on, that from then on nothing in flight is newer than the entry, and, when the handshake is done, that
what carries the entry's own counter is of the newest group key, as is the station that has
that counter. Group message 2 is taken only with that counter. `WPAStart2WayGroupHS` increments it
with each frame it builds; when it cannot allocate one (`group1`) the counter stays, an answer to
the group message before it passes for the answer to the new key, and the property is false.

`BulkOutProofs` proves, for any ring smaller than `Wrapped` (which is what the counter wraps at), any senders, frames, events and
processors, from `BulkOutAssumption` alone:

* `Invariance`: `Spec => []IInv`;
* `TypeCorrect`: `Spec => []TypeOK`;
* `OneTransferOnEachPipe`: `Spec => []OneTransferPerPipe`, up to a `misdirected` batch;
* `ResetsAreHandled`: `Spec => []ResetHasHandler`;
* `BatchesStayInOrder`: `Spec => BatchesInOrder`;
* `RingIsAccounted`: `Spec => []RingAccounts`;
* `NothingIsForgotten`: `Spec => []NothingForgotten`.

`IInv` joins the types, `PlaceInv` (the cell or the pipe that a runner holds at each place) and
`ClaimInv`, which is `OneTransferPerPipe` with "is {z}" and "is empty" for the two
cardinalities; both hold until a batch is `misdirected`. `SentInv` goes with it: until then a batch
is sent on its own pipe, so that its completion frees the pipe it claims and a tasklet is never
handed two. `SubmitKeeps` and `ReleaseKeeps` say what a submission and a completion do to the
claims: a submission follows a test under the lock that found no claim, and a completion
ends a claim that was the only one. All other moves of a runner leave the claims as
they are (`QuietMove`), except those of the runner that finds its pipe empty and of the
command thread, which hold a pipe themselves.

`ResetHasHandler` is inductive once the types are known: `Follows` says which moves leave a
promise to carry out the reset alone, and each step that ends such a promise queues the
command, executes it, or hands the promise on. For the order of batches `BatchInv` says where the last
batch of a pipe is: it went out, is out, is about to be submitted again, or waits for the
reset, which will then find the pipe free. The last part is what `ResetData` depends on, which
forgets the batch of a pipe that is pending. A kick takes frames only from a pipe nobody
claims while no reset is under way, so that the batch before it can only have gone out.

`RingAccounts` counts cells, and a count alone is not inductive: freeing the oldest cell must
move the index to the next one in use. `RingInv` therefore says which cells are in use, those
less than their number `Away` from `TxDmaIdx`, and that the only cell whose transfer may be on
its way is the one at `TxDmaIdx`. A cell is then taken at the end of that interval (`TxCpuIdx`) and freed
at its beginning; either changes the cardinality by one.

`NothingForgotten` speaks of rest, and needs for every other state an account of who will still
look at what waits. `LookInv` gives it: as long as nothing went wrong, for everything that waits
there is a reset under way, a transfer on its pipe, or a runner that has not yet passed the place of
its kick where it would see it (`Rank` numbers these places: the ring, each pipe, the null
frame). Of the marks only `hidden` is allowed there: of a null frame that was passed by nothing is
claimed, everything else that waits is still found. A runner that is turned away leaves one of the first two or the command thread about to
submit (`TurnedAway`); the end of a transfer or of a reset puts a runner on the way. `FlagInv` and
`CellInv` say that the look will then succeed: a flag is set, or the transfer whose end sets it
is out, and the ring's oldest cell waits or is on its way. A reset under way
has its handler (`ResetHasHandler`), so at rest there is none.

`AndesCmdProofs` proves, for any callers, numbers, device and bounds:

* `TypeCorrect`: `Spec => []TypeOK`;
* `ResponsesHandledOnce`: `Spec => []HandledOnce`;
* `EndedByOwn`: `Enough => (Spec => []OwnResponse)`.

`BufInv` is what holds until one of the races that `HandledOnce` excuses is lost: a transfer on
the bus, or about to be submitted, has `InUse`, and only one receiver submits; the
buffer is readable only when neither holds, and one receiver reads it; and what has come but
is not handled is in exactly one place: announced by the transfer, in the status the
tasklet has read, or readable. So a transfer that ends finds everything handled, and
`Handle` finds something. Each race has the step that would break this, and that step
leaves its mark.

`Enough` says that there are no more callers than numbers and no more numbers than
`GetCmdSeq` tries: 15 and 128 in the driver, whose callers are the handful of its threads. With more
callers all numbers may be awaited, `GetCmdSeq` gives up and takes one, and the property is
false. `NumInv` says of each message (a command, a response, the buffer) how old its number at
least is (`Dist`), and that a caller who holds the same number owns the message, chose at the same time
as its owner, or meets a number a full round old; and the same of any two callers.
`DistAdvances` ties the number `GetCmdSeq` arrives at to the ages, and `ChooseFinds` gives the
free number.

`StaConnectProofs` proves, for any access points, security mode, channels, bounds and requests:

* `TypeCorrect`: `Spec => []TypeOK`, and `WaitsTimed`: `Spec => []WaitsAreTimed`, whoever
  disturbs;
* with `Disturb = {}`, `AnswersCome`: `Spec => []CntlAnswered`, `EntryIsOurAps`:
  `Spec => []WcidIsOurAp`, and `DataComesThrough`: `Spec => []DataReleased`.

`Ranges` adds to the types what indexing needs: a scan that listens has a channel, a message
names an entry of the table. `Timed` follows the machines one by one: each action leaves a
machine's wait and its timer alone, begins the wait with the timer, or ends it. The
attempt to prove it for a disassociation showed where it does not hold, which the run's earlier
bounds had hidden: after a reset, a grant of the attempt before may bring up a link, and `LinkUp` cancels
`DisassocTimer` although ASSOC waits for it. CNTL is not waiting then, and `WaitsAreTimed` says that it
never waits for a disassociation that lost its timer.
`Disturb = {}` is not an assumption about the driver but names the behaviours in which the
three properties hold: with a reset or a kick in the middle of an attempt they fail, as section 4
lists. In a calm station there is one turn: `Turns` says for each state of CNTL that either the one queued
message between the machines is the request or the confirm of that state and the machine asked
is at rest, or no such message is queued and that machine is at work. From it every handler but
the one whose turn it is finds its message stale, and each hands the turn on. `Released` and
`Granted` follow the scan's hold on data and the grant of an association to `LinkUp`.

`BaReorderProofs` proves every property of `BaReorder`, for any window below half of the sequence
space, any space of a power of two up to 4096, any pool, frames and kinds of frames:

* `TypeCorrect`, `BlocksAreAccounted`: `Spec => []` of `TypeOK` and `BlocksAccounted`;
* `FramesInOrder`, `ListIsSorted`, `NoneIsPassedOver`: `Spec => []` of `InOrderDelivery`,
  `HeldInWindow` and `NotPassedOver`;
* `OnlyKnownDropped`: `Spec => DropsOnlyKnown`.

The code compares numbers modulo the space. `SameSeq`, `SmallerSeq`, `StepSeq`, `AheadSeq` and
`NumberIs` say within which distance each comparison means what it means of the numbers
themselves; each use must then show that distance. `Accounts` (the types, the
window and the blocks) holds always. `Ordered` holds as long as nothing overtook and no session
change met a reception: `LastIndSeq` stands for a number `L` (`Placed`); held frames lie beyond
it within the window, each further than the last (`Held`); L + 1 is not among them unless
the tasklet is about to release it (`Holed`); what was handed up lies at or below L + 1; and each
frame of the peer's window up to L is known, handed up or passed over on purpose. The frame in
hand lies near L (`Sent` keeps it near the peer's window in any case). `Cut` and `Insertion` say
what the list's two changes do to a sequence, and `LeSeqNumber` that the head handed up to a
number is what lies at or below it. The proof needs the bound on the peer to include the
frame in hand: while `LastIndSeq` is reset nothing else ties the two together, and when the
peer is half the space ahead of the first frame after a reset, what follows it looks old. TLC's
small numbers had not shown this.

Only model-checked: everything under fairness (`EveryMessageServed`, `ExpiryServed`,
`PeriodicSurvives`, `CancelSettles`, `EveryAttemptEnds`, `EveryRequestDecided`, `ListensAgain`), as liveness is
out of the prover's reach. Every safety invariant and action property of the passing runs is a theorem.

## 6. Abstractions

In all modules: time, frame contents and message bodies beyond what handlers branch on.

`MlmeQueue`: the ring's `MsgLen`, the ATE mode and oversized messages (they return before any
change).

`StaConnect`: allocation failures; ad hoc networks (`START`), reassociation (nothing requests
it), WPA countermeasures, 20/40 coexistence scans; the WPA handshake, of which it keeps a
free choice between a secured and an unsecured port; which BSSs match, which is chosen
freely at each sort; `bAutoReconnect` and `MlmeValidateSSID`, which are free.

`BaReorder`: the time between two frames is one of three lengths; other sessions, which
share only the pool. The peer never runs half the sequence space ahead of what the recipient
has seen or is looking at (`PeerAdvances`): beyond that a Sequence no longer says which frame
is meant.

`BaOriginator`: window sizes, BARs, the dialog token (nothing compares it),
`BADeclineBitmap` (it only delays), MAC table entries other than the AP's and entry 0, which never
has a session, monitor and ATE mode, `NICUpdateFifoStaCounters` (it returns at once on this chip,
`rtmp_init.c:1738`); updates of `TXBAbitmap` are atomic, as is the initialisation of a timer with its start.

`BulkOut`: `ResetData` reads `bulkResetPipeid` three times (`rtusb_io.c:1139` to `1171`) in one step,
so that a pipe named anew between these reads, while the reset flag is still set, is not modelled
(the two later reads are); PS-Poll frames, whose flag nobody sets; scans,
radio-off, halt and the PBF monitor, which only hold kicks back; the watchdog, which is a
transfer that fails; each update of `BulkFlags` and `Flags`, and the test-and-set of
`NullContext.InUse`, is one step.

`AndesCmd`: payloads and their lengths, commands without a response (they take no number),
what self-generated events do (they stop and start data), suspension and halt (they refuse
commands as radio-off does), one radio-off and one radio-on at a time; the tasklet reads the
transfer's status in the step that starts it.

`WpaHandshake`: one station, pre-shared keys; 802.1X and PMK caching, ad hoc, APCLI and TDLS
roles, key requests, MIC failure reports and WSC; the station's own timers. A group key update needs a station, as without one only the
countdown runs.

Not modelled, and why: `PROJECT.json` gives the reason for each component. The greater part
of the repository is not in the build modelled (AP, P2P, WSC, other chips), is tables,
register values, formatting and parsing of ioctls, or is computation without control
(ciphers, rate tables).

## 7. Plan

Done, in this order: the queue and the timers, on which every other component rests; the
connection, which is what the driver is for; block-ack reordering; bulk out with its reset;
originator sessions; MCU commands; the WPA handshakes; the theorems on all of them.

Next:

1. `AndesCmd`: a request-reply service as its abstract specification.
2. Recipient sessions: ADDBA and DELBA of the peer and their table, above `BaReorder`.
3. `StaConnect`: countermeasures and allocation failures as steps that may fail; its composition
   with `WpaHandshake` through the port state.
4. Pure algorithms: rate adaptation and scan table sorting over bounded inputs.
