---------------------------- MODULE BulkOutProofs ----------------------------
(***************************************************************************)
(* USB bulk out, for every ring, number of senders and number of failures: *)
(* BulkOutPending keeps two transfers off a pipe; a reset under way always *)
(* has somebody to carry it out; a failed batch goes out again before the  *)
(* next; the counter, the indices and the cells of MgmtRing agree; and     *)
(* until something goes wrong nothing that could be sent is forgotten.     *)
(***************************************************************************)
EXTENDS BulkOut, FiniteSetTheorems, TLAPS

Places == {"idle", "room", "kick", "take", "data", "empty", "null", "again", "failed", "ring",
           "after", "reset", "reflag", "resubmit", "undo"}
PcRecords == [at : Places, arg : Nat, then : {"idle", "unlock", "again"}]

\* What a runner holds at each place: the cell it is about to submit, the pipe it
\* looks at; only the command thread submits a batch again.
PlaceInv ==
    /\ pc \in [Runners -> PcRecords]
    /\ \A c \in Runners :
        /\ At(c, "take") => pc[c].arg \in Cells
        /\ At(c, "data") \/ At(c, "empty") => pc[c].arg \in Pipes
        /\ At(c, "resubmit") \/ At(c, "undo") => c = CmdThread /\ pc[c].arg \in Pipes

Types ==
    /\ TypeOK /\ PlaceInv
    /\ WritePos \in [Pipes -> Nat] /\ ENextPos \in [Pipes -> Nat]

\* OneTransferPerPipe, without counting.
ClaimInv ==
    "misdirected" \notin marks =>
        \A p \in Pipes : IF Pending[p] THEN \E z : Claims(p) = {z} ELSE Claims(p) = {}

IInv == Types /\ ClaimInv

\* Until then a transfer is sent on the pipe of its context, and a tasklet of a data
\* pipe handles that context.
SentInv ==
    "misdirected" \notin marks =>
        \A p \in Pipes : /\ BulkOutPipeId[p] = p
                         /\ At(DataTasklet(p), "after") => pc[DataTasklet(p)].arg = p

Thens == \A c \in Runners : pc[c].then \in {"idle", "unlock", "again"}

-----------------------------------------------------------------------------
(* Contexts, pipes and runners are apart. *)

LEMMA Apart ==
  /\ Runners \cap TxContexts = {}
  /\ CmdThread \in Runners /\ MgmtTasklet \in Runners /\ NullTasklet \in Runners
  /\ \A p \in Pipes : DataTasklet(p) \in Runners /\ DataTasklet(p) # CmdThread
  /\ MgmtTasklet # CmdThread /\ NullTasklet # CmdThread
  /\ Threads \subseteq Runners /\ CmdThread \notin Threads
<1>1. \A x \in TxContexts : x[1] \in {"mgmt", "data", "null"}
  BY DEF TxContexts, Mgmt, Data, Null
<1>2. \A o \in Others : o[1] \in {"mgmt tasklet", "null tasklet", "data tasklet", "command thread"}
  <2>1. \A p \in Pipes : DataTasklet(p)[1] = "data tasklet"
    BY DEF DataTasklet
  <2>2. MgmtTasklet[1] = "mgmt tasklet" /\ NullTasklet[1] = "null tasklet"
    BY DEF MgmtTasklet, NullTasklet
  <2>3. CmdThread[1] = "command thread"
    BY DEF CmdThread
  <2> QED
    BY <2>1, <2>2, <2>3 DEF Others
<1>3. Others \cap TxContexts = {}
  BY <1>1, <1>2
<1>4. CmdThread \in Others /\ MgmtTasklet \in Others /\ NullTasklet \in Others
  BY DEF Others
<1>5. /\ CmdThread[1] = "command thread" /\ MgmtTasklet[1] = "mgmt tasklet"
      /\ NullTasklet[1] = "null tasklet"
      /\ \A p \in Pipes : DataTasklet(p)[1] = "data tasklet"
  BY DEF MgmtTasklet, NullTasklet, DataTasklet, CmdThread
<1>6. MgmtTasklet # CmdThread /\ NullTasklet # CmdThread
  BY <1>5
<1>7. \A p \in Pipes : DataTasklet(p) \in Others /\ DataTasklet(p) # CmdThread
  BY <1>5 DEF Others
<1>8. \A t \in Threads : t \notin TxContexts \cup Others
  BY BulkOutAssumption
<1> QED
  BY <1>3, <1>4, <1>6, <1>7, <1>8 DEF Runners

LEMMA PipesOf ==
  /\ \A x \in TxContexts : PipeOf(x) \in Pipes
  /\ \A p \in Pipes : Data(p) \in TxContexts /\ PipeOf(Data(p)) = p
  /\ \A i \in Cells : Mgmt(i) \in TxContexts /\ PipeOf(Mgmt(i)) = MGMTPIPEIDX
                      /\ TaskletOf(Mgmt(i)) = MgmtTasklet /\ SentOn(Mgmt(i)) = MGMTPIPEIDX
  /\ Null \in TxContexts /\ PipeOf(Null) = MGMTPIPEIDX /\ TaskletOf(Null) = NullTasklet
  /\ SentOn(Null) = MGMTPIPEIDX
  /\ MGMTPIPEIDX \in Pipes
<1> USE DEF TxContexts, PipeOf, TaskletOf, SentOn, Mgmt, Data, Null, MGMTPIPEIDX
<1>1. /\ \A p \in Pipes : Data(p) \in TxContexts /\ PipeOf(Data(p)) = p
      /\ \A i \in Cells : Mgmt(i) \in TxContexts /\ PipeOf(Mgmt(i)) = MGMTPIPEIDX
                          /\ TaskletOf(Mgmt(i)) = MgmtTasklet /\ SentOn(Mgmt(i)) = MGMTPIPEIDX
      /\ Null \in TxContexts /\ PipeOf(Null) = MGMTPIPEIDX /\ TaskletOf(Null) = NullTasklet
      /\ SentOn(Null) = MGMTPIPEIDX
      /\ MGMTPIPEIDX \in Pipes
  BY DEF Pipes
<1>2. \A x \in TxContexts : PipeOf(x) \in Pipes
  BY <1>1 DEF Pipes
<1> QED
  BY <1>1, <1>2

\* The pipe a transfer was sent on, and who handles its end.
LEMMA SentIs ==
  ASSUME Types
  PROVE  /\ \A p \in Pipes : /\ SentOn(Data(p)) = BulkOutPipeId[p]
                             /\ TaskletOf(Data(p)) = DataTasklet(BulkOutPipeId[p])
         /\ \A x \in TxContexts : /\ SentOn(x) \in Pipes \cup {BULKOUT_MGMT_RESET_FLAG}
                                  /\ TaskletOf(x) # CmdThread
                                  /\ SentOn(x) \in Pipes => TaskletOf(x) \in Runners
<1>1. \A p \in Pipes : Data(p) # Null /\ Data(p) \in {Data(q) : q \in Pipes} /\ Data(p)[2] = p
  BY DEF Data, Null
<1>2. \A p \in Pipes : /\ SentOn(Data(p)) = BulkOutPipeId[p]
                       /\ TaskletOf(Data(p)) = DataTasklet(BulkOutPipeId[p])
  BY <1>1 DEF SentOn, TaskletOf
<1>3. \A n : DataTasklet(n) # CmdThread
  BY DEF DataTasklet, CmdThread
<1>4. \A p \in Pipes : BulkOutPipeId[p] \in Pipes \cup {BULKOUT_MGMT_RESET_FLAG}
  BY DEF Types, TypeOK
<1>5. ASSUME NEW x \in TxContexts
      PROVE  /\ SentOn(x) \in Pipes \cup {BULKOUT_MGMT_RESET_FLAG} /\ TaskletOf(x) # CmdThread
             /\ SentOn(x) \in Pipes => TaskletOf(x) \in Runners
  <2>1. CASE \E p \in Pipes : x = Data(p)
    BY <1>2, <1>3, <1>4, <2>1, Apart
  <2>2. CASE x = Null \/ \E i \in Cells : x = Mgmt(i)
    BY <2>2, PipesOf, Apart
  <2> QED
    BY <2>1, <2>2 DEF TxContexts
<1> QED
  BY <1>2, <1>5

LEMMA Straight ==
  ASSUME Types, SentInv, "misdirected" \notin marks
  PROVE  /\ \A p \in Pipes : SentOn(Data(p)) = p /\ TaskletOf(Data(p)) = DataTasklet(p)
         /\ \A x \in TxContexts : SentOn(x) = PipeOf(x) /\ TaskletOf(x) \in Runners
<1>1. \A p \in Pipes : SentOn(Data(p)) = p /\ TaskletOf(Data(p)) = DataTasklet(p)
  BY SentIs DEF SentInv
<1> QED
  BY <1>1, PipesOf, Apart DEF TxContexts

-----------------------------------------------------------------------------
(* How a runner moves, and what it means for the pipes. *)

Moves(c, a, n, t) == pc' = [pc EXCEPT ![c] = [at |-> a, arg |-> n, then |-> t]]

LEMMA GoMoves ==
  ASSUME Types, NEW c \in Runners
  PROVE  /\ \A a, n : Go(c, a, n) => Moves(c, a, n, pc[c].then)
         /\ Stop(c) => Moves(c, "idle", 0, "idle")
         /\ \A t : Kick(c, t) => Moves(c, "kick", 0, t)
         /\ pc[c].then \in {"idle", "unlock", "again"}
         /\ pc[c].arg \in Nat /\ pc[c].at \in Places
  BY DEF Types, PlaceInv, PcRecords, Go, Stop, Kick, Moves, Idle

\* Where a runner may go with what it holds.
Fits(c, a, n, t) ==
    /\ a \in Places /\ n \in Nat /\ t \in {"idle", "unlock", "again"}
    /\ a = "take" => n \in Cells
    /\ a \in {"data", "empty"} => n \in Pipes
    /\ a \in {"resubmit", "undo"} => c = CmdThread /\ n \in Pipes

LEMMA MovesPlace ==
  ASSUME Types, NEW c \in Runners, NEW a, NEW n, NEW t, Fits(c, a, n, t), Moves(c, a, n, t)
  PROVE  PlaceInv' /\ Thens'
<1> USE DEF Types, PlaceInv, PcRecords, Moves, Fits, At, Thens
<1>1. [at |-> a, arg |-> n, then |-> t] \in PcRecords
  OBVIOUS
<1>2. pc' \in [Runners -> PcRecords]
  BY <1>1
<1>3. \A d \in Runners : d # c => pc'[d] = pc[d]
  OBVIOUS
<1>4. pc'[c] = [at |-> a, arg |-> n, then |-> t]
  OBVIOUS
<1> QED
  BY <1>2, <1>3, <1>4

\* A place from which a pipe is held.
Holds(a) == a \in {"empty", "resubmit", "undo"}

SameTransfers == \A x \in TxContexts : urb'[x] # "idle" <=> urb[x] # "idle"

LEMMA MovesClaims ==
  ASSUME Types, SameTransfers, NEW c \in Runners, NEW a, NEW n, NEW t, Moves(c, a, n, t),
         ~Holds(pc[c].at), ~Holds(a)
  PROVE  \A p \in Pipes : Claims(p)' = Claims(p)
<1> USE DEF Types, PlaceInv, PcRecords, Moves, Holds, At
<1>1. \A d \in Runners : d # c => pc'[d] = pc[d]
  OBVIOUS
<1>2. pc'[c].at = a
  OBVIOUS
<1>3. \A p \in Pipes, d \in Runners :
          /\ (At(d, "empty") /\ pc[d].arg = p)' <=> At(d, "empty") /\ pc[d].arg = p
          /\ (At(d, "resubmit") /\ pc[d].arg = p)' <=> At(d, "resubmit") /\ pc[d].arg = p
          /\ (At(d, "undo") /\ pc[d].arg = p)' <=> At(d, "undo") /\ pc[d].arg = p
  BY <1>1, <1>2
<1> QED
  BY <1>3, Apart DEF Claims, SameTransfers

\* A free pipe has no claims; a claim on a pipe is the only one.
LEMMA Sole ==
  ASSUME IInv, "misdirected" \notin marks, NEW p \in Pipes
  PROVE  /\ ~Pending[p] => Claims(p) = {}
         /\ \A z \in Claims(p) : Claims(p) = {z}
  BY DEF IInv, ClaimInv

\* A step that touches neither BulkOutPending nor a transfer.
LEMMA Untouched ==
  ASSUME IInv, Pending' = Pending, marks \subseteq marks', \A p \in Pipes : Claims(p)' = Claims(p)
  PROVE  ClaimInv'
  BY DEF IInv, ClaimInv

\* A move that neither takes nor gives up a pipe.
LEMMA QuietMove ==
  ASSUME IInv, NEW c \in Runners, NEW a, NEW n, NEW t, Fits(c, a, n, t), Moves(c, a, n, t),
         ~Holds(pc[c].at), ~Holds(a), UNCHANGED <<Pending, urb>>, marks \subseteq marks'
  PROVE  PlaceInv' /\ ClaimInv' /\ Thens'
<1>1. PlaceInv' /\ Thens'
  BY MovesPlace DEF IInv
<1>2. \A p \in Pipes : Claims(p)' = Claims(p)
  BY MovesClaims DEF IInv, SameTransfers
<1> QED
  BY <1>1, <1>2, Untouched

LEMMA NextCell == \A i \in Nat : INC_RING_INDEX(i) \in Cells
<1> SUFFICES ASSUME NEW i \in Nat PROVE (i + 1) % MGMT_RING_SIZE \in Cells
  BY DEF INC_RING_INDEX
<1>1. MGMT_RING_SIZE \in Nat \ {0}
  BY BulkOutAssumption
<1> QED
  BY <1>1 DEF Cells

-----------------------------------------------------------------------------
(* Each action keeps the invariant: the senders. *)

LEMMA SendRoomKeeps ==
  ASSUME IInv, NEW t \in Threads, SendRoom(t)
  PROVE  IInv'
<1>1. t \in Runners /\ Types
  BY Apart DEF IInv
<1>2. Moves(t, "room", 0, pc[t].then) /\ pc[t].then \in {"idle", "unlock", "again"}
  BY <1>1, GoMoves DEF SendRoom, urbs
<1>3. PlaceInv' /\ ClaimInv' /\ Thens'
  <2>1. Fits(t, "room", 0, pc[t].then) /\ ~Holds(pc[t].at) /\ ~Holds("room")
    BY <1>1, <1>2 DEF SendRoom, MayStart, At, Holds, Fits, Places, urbs
  <2>2. UNCHANGED <<Pending, urb>> /\ marks \subseteq marks'
    BY DEF SendRoom, urbs
  <2> QED
    BY <1>1, <1>2, <2>1, <2>2, QuietMove
<1>4. Types'
  BY <1>3 DEF IInv, Types, TypeOK, Thens, SendRoom, resets, ring, data, urbs
<1> QED
  BY <1>3, <1>4 DEF IInv

LEMMA MgmtKickOutKeeps ==
  ASSUME IInv, NEW t \in Threads, RtmpUSBMgmtKickOut(t)
  PROVE  IInv'
<1>1. t \in Runners /\ Types
  BY Apart DEF IInv
<1>2. Moves(t, "kick", 0, "unlock")
  BY <1>1, GoMoves DEF RtmpUSBMgmtKickOut, urbs
<1>3. PlaceInv' /\ ClaimInv' /\ Thens'
  <2>1. Fits(t, "kick", 0, "unlock") /\ ~Holds(pc[t].at) /\ ~Holds("kick")
    BY <1>1, <1>2 DEF RtmpUSBMgmtKickOut, At, Holds, Fits, Places, urbs
  <2>2. UNCHANGED <<Pending, urb>> /\ marks \subseteq marks'
    BY DEF RtmpUSBMgmtKickOut, urbs
  <2> QED
    BY <1>1, <1>2, <2>1, <2>2, QuietMove
<1>4. TxCpuIdx' \in Cells /\ TxSwFreeIdx' \in 0 .. Wrapped - 1
  <2>1. TxCpuIdx \in Nat /\ TxSwFreeIdx \in 0 .. Wrapped - 1
    BY <1>1, BulkOutAssumption DEF Types, TypeOK, Cells
  <2>2. TxCpuIdx' \in Cells
    BY <2>1, NextCell DEF RtmpUSBMgmtKickOut, urbs
  <2>3. FreeLess(TxSwFreeIdx) \in 0 .. Wrapped - 1
    BY <2>1, BulkOutAssumption DEF FreeLess
  <2> QED
    BY <2>2, <2>3 DEF RtmpUSBMgmtKickOut, urbs
<1>5. Types'
  BY <1>1, <1>3, <1>4 DEF Types, TypeOK, Thens, RtmpUSBMgmtKickOut, resets, data, urbs
<1> QED
  BY <1>3, <1>5 DEF IInv

LEMMA NullKickOutKeeps ==
  ASSUME IInv, NEW t \in Threads, RtmpUSBNullFrameKickOut(t)
  PROVE  IInv'
<1>1. t \in Runners /\ Types
  BY Apart DEF IInv
<1>2. Moves(t, "kick", 0, "idle")
  BY <1>1, GoMoves DEF RtmpUSBNullFrameKickOut, urbs
<1>3. PlaceInv' /\ ClaimInv' /\ Thens'
  <2>1. Fits(t, "kick", 0, "idle") /\ ~Holds(pc[t].at) /\ ~Holds("kick")
    BY <1>1, <1>2 DEF RtmpUSBNullFrameKickOut, MayStart, At, Holds, Fits, Places, urbs
  <2>2. UNCHANGED <<Pending, urb>> /\ marks \subseteq marks'
    BY DEF RtmpUSBNullFrameKickOut, urbs
  <2> QED
    BY <1>1, <1>2, <2>1, <2>2, QuietMove
<1>4. Types'
  BY <1>1, <1>3 DEF Types, TypeOK, Thens, RtmpUSBNullFrameKickOut, resets, data, ring, urbs
<1> QED
  BY <1>3, <1>4 DEF IInv

LEMMA DataKickOutKeeps ==
  ASSUME IInv, NEW t \in Threads, NEW p \in Pipes, RtmpUSBDataKickOut(t, p)
  PROVE  IInv'
<1>1. t \in Runners /\ Types
  BY Apart DEF IInv
<1>2. Moves(t, "kick", 0, "idle")
  BY <1>1, GoMoves DEF RtmpUSBDataKickOut, urbs
<1>3. PlaceInv' /\ ClaimInv' /\ Thens'
  <2>1. Fits(t, "kick", 0, "idle") /\ ~Holds(pc[t].at) /\ ~Holds("kick")
    BY <1>1, <1>2 DEF RtmpUSBDataKickOut, MayStart, At, Holds, Fits, Places, urbs
  <2>2. UNCHANGED <<Pending, urb>> /\ marks \subseteq marks'
    BY DEF RtmpUSBDataKickOut, urbs
  <2> QED
    BY <1>1, <1>2, <2>1, <2>2, QuietMove
<1>4. WritePos' \in [Pipes -> Nat] /\ \A q \in Pipes : ENextPos'[q] <= WritePos'[q]
  BY <1>1 DEF Types, TypeOK, RtmpUSBDataKickOut, urbs
<1>5. Types'
  BY <1>1, <1>3, <1>4 DEF Types, TypeOK, Thens, RtmpUSBDataKickOut, resets, ring, urbs
<1> QED
  BY <1>3, <1>5 DEF IInv

-----------------------------------------------------------------------------
(* The first look of a kick, the bus and the tasklets' other steps. *)

LEMMA ReturnsMoves ==
  ASSUME IInv, NEW c \in Runners, Returns(c)
  PROVE  \E a \in {"again", "idle"}, t \in {"idle", "unlock", "again"} : Moves(c, a, 0, t)
  BY GoMoves DEF Returns, IInv

LEMMA KickLookTypes ==
  ASSUME IInv, NEW c \in Runners, KickLook(c), PlaceInv', Thens', ClaimInv'
  PROVE  IInv'
  BY DEF KickLook, IInv, Types, TypeOK, Thens, resets, ring, data, urbs

LEMMA KickLookKeeps ==
  ASSUME IInv, NEW c \in Runners, KickLook(c)
  PROVE  IInv'
<1>1. TxDmaIdx \in Nat /\ TxDmaIdx \in Cells /\ 0 \in Pipes /\ ~Holds(pc[c].at)
  BY BulkOutAssumption DEF IInv, Types, TypeOK, Cells, Pipes, KickLook, At, Holds, urbs
<1>2. UNCHANGED <<Pending, urb>> /\ marks \subseteq marks'
  BY DEF KickLook, urbs
<1>3. CASE Returns(c)
  <2>1. PICK a \in {"again", "idle"}, t \in {"idle", "unlock", "again"} : Moves(c, a, 0, t)
    BY <1>3, ReturnsMoves
  <2>2. Fits(c, a, 0, t) /\ ~Holds(a)
    BY DEF Fits, Places, Holds
  <2> QED
    BY <1>1, <1>2, <2>1, <2>2, QuietMove, KickLookTypes
<1>4. CASE Go(c, "take", TxDmaIdx)
  <2>1. Moves(c, "take", TxDmaIdx, pc[c].then) /\ pc[c].then \in {"idle", "unlock", "again"}
    BY <1>4, GoMoves DEF IInv
  <2>2. Fits(c, "take", TxDmaIdx, pc[c].then) /\ ~Holds("take")
    BY <1>1, <2>1 DEF Fits, Places, Holds
  <2> QED
    BY <1>1, <1>2, <2>1, <2>2, QuietMove, KickLookTypes
<1>5. CASE Go(c, "data", 0)
  <2>1. Moves(c, "data", 0, pc[c].then) /\ pc[c].then \in {"idle", "unlock", "again"}
    BY <1>5, GoMoves DEF IInv
  <2>2. Fits(c, "data", 0, pc[c].then) /\ ~Holds("data")
    BY <1>1, <2>1 DEF Fits, Places, Holds
  <2> QED
    BY <1>1, <1>2, <2>1, <2>2, QuietMove, KickLookTypes
<1> QED
  BY <1>3, <1>4, <1>5 DEF KickLook, urbs

\* Two transfers that end in the same tasklet are on the same pipe.
LEMMA SameTasklet ==
  ASSUME Types, SentInv, "misdirected" \notin marks, NEW x \in TxContexts, NEW y \in TxContexts,
         TaskletOf(x) = TaskletOf(y)
  PROVE  PipeOf(x) = PipeOf(y)
<1>1. /\ \A p \in Pipes : TaskletOf(Data(p)) = DataTasklet(p) /\ PipeOf(Data(p)) = p
      /\ \A i \in Cells : TaskletOf(Mgmt(i)) = MgmtTasklet /\ PipeOf(Mgmt(i)) = MGMTPIPEIDX
      /\ TaskletOf(Null) = NullTasklet /\ PipeOf(Null) = MGMTPIPEIDX
  BY Straight, PipesOf
<1>2. /\ \A p \in Pipes : DataTasklet(p)[1] = "data tasklet" /\ DataTasklet(p)[2] = p
      /\ MgmtTasklet[1] = "mgmt tasklet" /\ NullTasklet[1] = "null tasklet"
  BY DEF DataTasklet, MgmtTasklet, NullTasklet
<1>3. \A z \in TxContexts : \/ \E p \in Pipes : z = Data(p)
                            \/ z = Null \/ \E i \in Cells : z = Mgmt(i)
  BY DEF TxContexts
<1>4. ASSUME NEW z \in TxContexts
      PROVE  IF TaskletOf(z)[1] = "data tasklet" THEN PipeOf(z) = TaskletOf(z)[2]
             ELSE PipeOf(z) = MGMTPIPEIDX
  <2>1. CASE \E p \in Pipes : z = Data(p)
    <3>1. PICK p \in Pipes : z = Data(p)
      BY <2>1
    <3>2. TaskletOf(z) = DataTasklet(p) /\ PipeOf(z) = p
      BY <1>1, <3>1
    <3> QED
      BY <1>2, <3>2
  <2>2. CASE \E i \in Cells : z = Mgmt(i)
    <3>1. TaskletOf(z) = MgmtTasklet /\ PipeOf(z) = MGMTPIPEIDX
      BY <1>1, <2>2
    <3> QED
      BY <1>2, <3>1
  <2>3. CASE z = Null
    <3>1. TaskletOf(z) = NullTasklet /\ PipeOf(z) = MGMTPIPEIDX
      BY <1>1, <2>3
    <3> QED
      BY <1>2, <3>1
  <2> QED
    BY <1>3, <2>1, <2>2, <2>3
<1> QED
  BY <1>4

LEMMA UrbDoneKeeps ==
  ASSUME IInv, SentInv, NEW x \in TxContexts, UrbDone(x)
  PROVE  IInv' /\ ("misdirected" \notin marks =>
             \E status \in {"ok", "error"} : urb' = [urb EXCEPT ![x] = status])
<1>1. UNCHANGED <<Pending, pc, marks>> /\ urb[x] = "out" /\ Types
  BY DEF UrbDone, IInv
<1>2. PICK status \in {"ok", "error"} : Completed(x, status)
  BY DEF UrbDone
<1>3. urb' \in [TxContexts -> {"idle", "out", "ok", "error"}]
  BY <1>1, <1>2 DEF Completed, Types, TypeOK
<1>4. ASSUME "misdirected" \notin marks
      PROVE  urb' = [urb EXCEPT ![x] = status]
  <2>1. Overwritten(x) = {}
    <3>1. SUFFICES ASSUME NEW y \in Overwritten(x) PROVE FALSE
      OBVIOUS
    <3>2. y \in TxContexts /\ y # x /\ TaskletOf(x) = TaskletOf(y) /\ urb[y] # "idle"
      BY <3>1 DEF Overwritten
    <3>3. PipeOf(x) = PipeOf(y) /\ PipeOf(x) \in Pipes
      BY <1>1, <1>4, <3>2, SameTasklet, PipesOf
    <3>4. x \in Claims(PipeOf(x)) /\ y \in Claims(PipeOf(x))
      BY <1>1, <3>2, <3>3 DEF Claims
    <3> QED
      BY <1>4, <3>2, <3>3, <3>4, Sole
  <2>2. SentOn(x) \in Pipes
    BY <1>1, <1>4, Straight, PipesOf
  <2>3. urb' = [y \in TxContexts |-> IF y = x THEN status ELSE urb[y]]
    BY <1>2, <2>1, <2>2 DEF Completed
  <2> QED
    BY <1>1, <2>3 DEF Types, TypeOK
<1>5. ClaimInv'
  <2>1. CASE "misdirected" \in marks
    BY <1>1, <2>1 DEF ClaimInv
  <2>2. CASE "misdirected" \notin marks
    <3>1. SameTransfers
      BY <1>1, <1>4, <2>2 DEF SameTransfers, Types, TypeOK
    <3>2. \A p \in Pipes : Claims(p)' = Claims(p)
      BY <1>1, <3>1 DEF Claims, SameTransfers, At
    <3> QED
      BY <1>1, <3>2, Untouched
  <2> QED
    BY <2>1, <2>2
<1>6. Types'
  BY <1>1, <1>3 DEF Types, TypeOK, PlaceInv, At, UrbDone, resets, ring, data
<1> QED
  BY <1>4, <1>5, <1>6 DEF IInv

LEMMA ErrorSeenKeeps ==
  ASSUME IInv, NEW x \in TxContexts, ErrorSeen(x)
  PROVE  IInv'
<1> DEFINE c == TaskletOf(x)
           n == x[2]
<1>1. c \in Runners /\ n \in Nat
  BY SentIs DEF IInv, ErrorSeen, TxContexts, Mgmt, Data, Null, Cells, Pipes, urbs
<1>2. Moves(c, "failed", n, pc[c].then) /\ pc[c].then \in {"idle", "unlock", "again"}
  BY <1>1, GoMoves DEF IInv, ErrorSeen, urbs
<1>3. Fits(c, "failed", n, pc[c].then) /\ ~Holds("failed") /\ ~Holds(pc[c].at)
  BY <1>1, <1>2 DEF Fits, Places, Holds, ErrorSeen, MayStart, At, urbs
<1>4. UNCHANGED <<Pending, urb>> /\ marks \subseteq marks'
  BY DEF ErrorSeen, urbs
<1>5. PlaceInv' /\ ClaimInv' /\ Thens'
  BY <1>1, <1>2, <1>3, <1>4, QuietMove
<1>6. Types'
  BY <1>5 DEF IInv, Types, TypeOK, Thens, ErrorSeen, resets, ring, data, urbs
<1> QED
  BY <1>5, <1>6 DEF IInv

LEMMA MgmtRingDoneKeeps ==
  ASSUME IInv, MgmtRingDone
  PROVE  IInv'
<1> DEFINE c == MgmtTasklet
<1>1. Moves(c, "after", 0, pc[c].then) /\ pc[c].then \in {"idle", "unlock", "again"} /\ c \in Runners
  BY Apart, GoMoves DEF IInv, MgmtRingDone, urbs
<1>2. Fits(c, "after", 0, pc[c].then) /\ ~Holds("after") /\ ~Holds(pc[c].at)
  BY <1>1 DEF Fits, Places, Holds, MgmtRingDone, At, urbs
<1>3. UNCHANGED <<Pending, urb>> /\ marks \subseteq marks'
  BY DEF MgmtRingDone, urbs
<1>4. PlaceInv' /\ ClaimInv' /\ Thens'
  BY <1>1, <1>2, <1>3, QuietMove
<1>5. TxDmaIdx' \in Cells /\ TxSwFreeIdx' \in 0 .. Wrapped - 1
  <2>1. TxDmaIdx \in Nat /\ TxSwFreeIdx \in Nat
    <3>1. TxDmaIdx \in Cells /\ TxSwFreeIdx \in 0 .. Wrapped - 1
      BY DEF IInv, Types, TypeOK
    <3> QED
      BY <3>1, BulkOutAssumption DEF Cells
  <2>2. FreeMore(TxSwFreeIdx) \in 0 .. Wrapped - 1
    BY <2>1, BulkOutAssumption DEF FreeMore
  <2> QED
    BY <2>1, <2>2, NextCell DEF MgmtRingDone, urbs
<1>6. Types'
  BY <1>4, <1>5 DEF IInv, Types, TypeOK, Thens, MgmtRingDone, resets, data, urbs
<1> QED
  BY <1>4, <1>6 DEF IInv

LEMMA Queues ==
  ASSUME IInv, RTEnqueueInternalCmd
  PROVE  CmdQ' \in Nat /\ marks \subseteq marks'
  BY DEF IInv, Types, TypeOK, RTEnqueueInternalCmd

LEMMA MgmtAfterKeeps ==
  ASSUME IInv, MgmtAfter
  PROVE  IInv'
<1> DEFINE c == MgmtTasklet
<1>1. c \in Runners /\ ~Holds(pc[c].at)
  BY Apart DEF MgmtAfter, At, Holds, urbs
<1>2. PICK a \in {"idle", "kick"} : Moves(c, a, 0, "idle")
  BY <1>1, GoMoves DEF IInv, MgmtAfter, urbs
<1>3. Fits(c, a, 0, "idle") /\ ~Holds(a)
  BY DEF Fits, Places, Holds
<1>4. UNCHANGED <<Pending, urb>> /\ marks \subseteq marks' /\ CmdQ' \in Nat
  BY Queues DEF MgmtAfter, IInv, Types, TypeOK, urbs
<1>5. PlaceInv' /\ ClaimInv' /\ Thens'
  BY <1>1, <1>2, <1>3, <1>4, QuietMove
<1>6. Types'
  BY <1>4, <1>5 DEF IInv, Types, TypeOK, Thens, MgmtAfter, ring, data, urbs
<1> QED
  BY <1>5, <1>6 DEF IInv

LEMMA NullAfterKeeps ==
  ASSUME IInv, NullAfter
  PROVE  IInv'
<1> DEFINE c == NullTasklet
<1>1. c \in Runners /\ ~Holds(pc[c].at)
  BY Apart DEF NullAfter, At, Holds, urbs
<1>2. Moves(c, "kick", 0, "idle")
  BY <1>1, GoMoves DEF IInv, NullAfter, urbs
<1>3. Fits(c, "kick", 0, "idle") /\ ~Holds("kick")
  BY DEF Fits, Places, Holds
<1>4. UNCHANGED <<Pending, urb>> /\ marks \subseteq marks' /\ CmdQ' \in Nat
  BY Queues DEF NullAfter, urbs
<1>5. PlaceInv' /\ ClaimInv' /\ Thens'
  BY <1>1, <1>2, <1>3, <1>4, QuietMove
<1>6. Types'
  BY <1>4, <1>5 DEF IInv, Types, TypeOK, Thens, NullAfter, ring, data, urbs
<1> QED
  BY <1>5, <1>6 DEF IInv

LEMMA DataAfterKeeps ==
  ASSUME IInv, NEW p \in Pipes, DataAfter(p)
  PROVE  IInv'
<1> DEFINE c == DataTasklet(p)
<1>1. c \in Runners /\ ~Holds(pc[c].at)
  BY Apart DEF DataAfter, At, Holds, urbs
<1>2. Moves(c, "kick", 0, "again")
  BY <1>1, GoMoves DEF IInv, DataAfter, urbs
<1>3. Fits(c, "kick", 0, "again") /\ ~Holds("kick")
  BY DEF Fits, Places, Holds
<1>4. UNCHANGED <<Pending, urb>> /\ marks \subseteq marks'
  BY DEF DataAfter, urbs
<1>5. PlaceInv' /\ ClaimInv' /\ Thens'
  BY <1>1, <1>2, <1>3, <1>4, QuietMove
<1>6. Types'
  BY <1>5 DEF IInv, Types, TypeOK, Thens, DataAfter, resets, ring, data, urbs
<1> QED
  BY <1>5, <1>6 DEF IInv

LEMMA DataAgainKeeps ==
  ASSUME IInv, NEW p \in Pipes, DataAgain(p)
  PROVE  IInv'
<1> DEFINE c == DataTasklet(p)
<1>1. c \in Runners /\ ~Holds(pc[c].at)
  BY Apart DEF DataAgain, At, Holds, urbs
<1>2. PICK a \in {"idle", "kick"} : Moves(c, a, 0, "idle")
  BY <1>1, GoMoves DEF IInv, DataAgain, urbs
<1>3. Fits(c, a, 0, "idle") /\ ~Holds(a)
  BY DEF Fits, Places, Holds
<1>4. UNCHANGED <<Pending, urb>> /\ marks \subseteq marks' /\ CmdQ' \in Nat
  BY Queues DEF DataAgain, IInv, Types, TypeOK, urbs
<1>5. PlaceInv' /\ ClaimInv' /\ Thens'
  BY <1>1, <1>2, <1>3, <1>4, QuietMove
<1>6. Types'
  BY <1>4, <1>5 DEF IInv, Types, TypeOK, Thens, DataAgain, ring, data, urbs
<1> QED
  BY <1>5, <1>6 DEF IInv

LEMMA CMDHandlerKeeps ==
  ASSUME IInv, CMDHandler
  PROVE  IInv'
<1> DEFINE c == CmdThread
<1>1. c \in Runners /\ ~Holds(pc[c].at)
  BY Apart DEF CMDHandler, At, Holds, urbs
<1>2. Moves(c, "reset", 0, pc[c].then) /\ pc[c].then \in {"idle", "unlock", "again"}
  BY <1>1, GoMoves DEF IInv, CMDHandler, urbs
<1>3. Fits(c, "reset", 0, pc[c].then) /\ ~Holds("reset")
  BY <1>2 DEF Fits, Places, Holds
<1>4. UNCHANGED <<Pending, urb>> /\ marks \subseteq marks' /\ CmdQ' \in Nat
  BY DEF CMDHandler, IInv, Types, TypeOK, urbs
<1>5. PlaceInv' /\ ClaimInv' /\ Thens'
  BY <1>1, <1>2, <1>3, <1>4, QuietMove
<1>6. Types'
  BY <1>4, <1>5 DEF IInv, Types, TypeOK, Thens, CMDHandler, ring, data, urbs
<1> QED
  BY <1>5, <1>6 DEF IInv

LEMMA ResetKicksKeep ==
  ASSUME IInv, ResetMgmt \/ ResetReflag
  PROVE  IInv'
<1> DEFINE c == CmdThread
<1>1. c \in Runners /\ ~Holds(pc[c].at)
  BY Apart DEF ResetMgmt, ResetReflag, At, Holds, urbs
<1>2. Moves(c, "kick", 0, "idle")
  BY <1>1, GoMoves DEF IInv, ResetMgmt, ResetReflag, urbs
<1>3. Fits(c, "kick", 0, "idle") /\ ~Holds("kick")
  BY DEF Fits, Places, Holds
<1>4. UNCHANGED <<Pending, urb, CmdQ>> /\ marks \subseteq marks'
  BY DEF ResetMgmt, ResetReflag, resets, urbs
<1>5. PlaceInv' /\ ClaimInv' /\ Thens'
  BY <1>1, <1>2, <1>3, <1>4, QuietMove
<1>6. CASE ResetMgmt
  BY <1>4, <1>5, <1>6 DEF IInv, Types, TypeOK, Thens, ResetMgmt, ring, data, urbs
<1>7. CASE ResetReflag
  BY <1>4, <1>5, <1>7 DEF IInv, Types, TypeOK, Thens, ResetReflag, resets, ring, data, urbs
<1> QED
  BY <1>6, <1>7

-----------------------------------------------------------------------------
(* How the claims on a pipe change. *)

Urbs(p) == {x \in TxContexts : PipeOf(x) = p /\ urb[x] # "idle"}
Held(p) == {c \in Runners : /\ \/ At(c, "empty")
                               \/ c = CmdThread /\ (At(c, "resubmit") \/ At(c, "undo"))
                            /\ pc[c].arg = p}

LEMMA ClaimsAre ==
  \A p : /\ Claims(p) = Urbs(p) \cup Held(p) /\ Claims(p)' = Urbs(p)' \cup Held(p)'
         /\ Urbs(p) \cap Held(p) = {} /\ Urbs(p)' \cap Held(p)' = {}
<1>1. \A p : Claims(p) = Urbs(p) \cup Held(p)
  BY Apart DEF Claims, Urbs, Held
<1>2. \A p : Claims(p)' = Urbs(p)' \cup Held(p)'
  BY Apart DEF Claims, Urbs, Held, At
<1>3. \A p : Urbs(p) \cap Held(p) = {} /\ Urbs(p)' \cap Held(p)' = {}
  BY Apart DEF Urbs, Held
<1> QED
  BY <1>1, <1>2, <1>3

LEMMA HeldMoves ==
  ASSUME Types, NEW c \in Runners, NEW a, NEW n, NEW t, Moves(c, a, n, t)
  PROVE  /\ ~Holds(a) => \A p : Held(p)' = Held(p) \ {c}
         /\ Holds(a) /\ (a \in {"resubmit", "undo"} => c = CmdThread) =>
              /\ Held(n)' = Held(n) \cup {c}
              /\ \A p : p # n => Held(p)' = Held(p) \ {c}
         /\ ~Holds(pc[c].at) => \A p : c \notin Held(p)
<1> USE DEF Types, PlaceInv, PcRecords, Moves, Holds, At, Held
<1>1. /\ \A d \in Runners : d # c => pc'[d] = pc[d]
      /\ pc'[c].at = a /\ pc'[c].arg = n
  OBVIOUS
<1> QED
  BY <1>1

\* A runner that takes pipe p, and no transfer that changes.
LEMMA HeldGrows ==
  ASSUME NEW p, NEW c, Held(p)' = Held(p) \cup {c}, \A q : q # p => Held(q)' = Held(q) \ {c},
         \A q : c \notin Held(q), \A q : Urbs(q)' = Urbs(q)
  PROVE  Claims(p)' = Claims(p) \cup {c} /\ \A q : q # p => Claims(q)' = Claims(q)
<1>1. Claims(p)' = Claims(p) \cup {c}
  <2>1. Claims(p)' = Urbs(p) \cup (Held(p) \cup {c}) /\ Claims(p) = Urbs(p) \cup Held(p)
    BY ClaimsAre
  <2> QED
    BY <2>1, Zenon
<1>2. ASSUME NEW q, q # p PROVE Claims(q)' = Claims(q)
  <2>1. Held(q)' = Held(q)
    BY <1>2
  <2> QED
    BY <2>1, ClaimsAre
<1> QED
  BY <1>1, <1>2

LEMMA UrbsGrow ==
  ASSUME Types, NEW x \in TxContexts, urb' = [urb EXCEPT ![x] = "out"]
  PROVE  /\ \A p : p # PipeOf(x) => Urbs(p)' = Urbs(p)
         /\ Urbs(PipeOf(x))' = Urbs(PipeOf(x)) \cup {x}
  BY DEF Types, TypeOK, Urbs

LEMMA UrbsShrink ==
  ASSUME Types, NEW x \in TxContexts, urb' = [urb EXCEPT ![x] = "idle"], urb[x] # "idle"
  PROVE  /\ \A p : p # PipeOf(x) => Urbs(p)' = Urbs(p)
         /\ x \in Urbs(PipeOf(x)) /\ Urbs(PipeOf(x))' = Urbs(PipeOf(x)) \ {x}
  BY DEF Types, TypeOK, Urbs

\* One pipe is claimed by z, or let go; the others keep their claims.
LEMMA Claimed ==
  ASSUME IInv, NEW p \in Pipes, NEW z,
         "misdirected" \notin marks => Claims(p)' = {z},
         Pending' = [Pending EXCEPT ![p] = TRUE], marks \subseteq marks',
         \A q \in Pipes : q # p => Claims(q)' = Claims(q)
  PROVE  ClaimInv'
  BY DEF IInv, ClaimInv, Types, TypeOK

LEMMA LetGo ==
  ASSUME IInv, NEW p \in Pipes,
         "misdirected" \notin marks => Claims(p)' = {},
         Pending' = [Pending EXCEPT ![p] = FALSE], marks \subseteq marks',
         \A q \in Pipes : q # p => Claims(q)' = Claims(q)
  PROVE  ClaimInv'
  BY DEF IInv, ClaimInv, Types, TypeOK

\* usb_submit_urb on a free pipe, by a runner that then goes on.
LEMMA SubmitKeeps ==
  ASSUME IInv, NEW c \in Runners, NEW a, NEW n, NEW t, Moves(c, a, n, t),
         ~Holds(pc[c].at), ~Holds(a), NEW x \in TxContexts, Submitted(x),
         ~Pending[PipeOf(x)], marks \subseteq marks'
  PROVE  ClaimInv' /\ urb' \in [TxContexts -> {"idle", "out", "ok", "error"}]
                   /\ Pending' \in [Pipes -> BOOLEAN]
<1> DEFINE p == PipeOf(x)
<1>1. Types /\ p \in Pipes /\ urb' = [urb EXCEPT ![x] = "out"]
      /\ Pending' = [Pending EXCEPT ![p] = TRUE]
  BY PipesOf DEF IInv, Submitted
<1>2. \A q : Held(q)' = Held(q)
  BY <1>1, HeldMoves
<1>3. Urbs(p)' = Urbs(p) \cup {x} /\ \A q : q # p => Urbs(q)' = Urbs(q)
  BY <1>1, UrbsGrow
<1>4. \A q : q # p => Claims(q)' = Claims(q)
  BY <1>2, <1>3, ClaimsAre
<1>5. Claims(p)' = Claims(p) \cup {x}
  BY <1>2, <1>3, ClaimsAre
<1>6. "misdirected" \notin marks => Claims(p)' = {x}
  BY <1>1, <1>5, Sole
<1>7. ClaimInv'
  BY <1>1, <1>4, <1>6, Claimed
<1> QED
  BY <1>1, <1>7 DEF Types, TypeOK

\* A completion releases its pipe.
LEMMA ReleaseKeeps ==
  ASSUME IInv, SentInv, NEW a, NEW n, NEW t, NEW x \in TxContexts, Moves(TaskletOf(x), a, n, t),
         TaskletOf(x) \in Runners, ~Holds(a), Released(x)
  PROVE  /\ ClaimInv' /\ ~Holds(pc[TaskletOf(x)].at)
         /\ urb' \in [TxContexts -> {"idle", "out", "ok", "error"}]
         /\ BulkOutPipeId' \in [Pipes -> Pipes \cup {BULKOUT_MGMT_RESET_FLAG}]
         /\ Pending' \in [Pipes -> BOOLEAN]
         /\ Reset' \in BOOLEAN /\ bulkResetPipeid' \in Pipes \cup {BULKOUT_MGMT_RESET_FLAG}
<1> DEFINE p == PipeOf(x)
           c == TaskletOf(x)
<1>1. /\ Types /\ p \in Pipes /\ c \in Runners /\ urb' = [urb EXCEPT ![x] = "idle"]
      /\ Pending' = [Pending EXCEPT ![SentOn(x)] = FALSE]
      /\ UNCHANGED BulkOutPipeId
  BY PipesOf DEF IInv, Released
<1>2. /\ urb[x] # "idle" /\ marks \subseteq marks' /\ ~Holds(pc[c].at)
      /\ Reset' \in BOOLEAN /\ bulkResetPipeid' \in Pipes \cup {BULKOUT_MGMT_RESET_FLAG}
  <2>1. CASE At(c, "failed")
    <3>1. ~MayStart(c) /\ ~Holds(pc[c].at)
      BY <2>1 DEF MayStart, At, Holds
    <3>2. /\ urb[x] = "error" /\ Reset' = TRUE /\ marks \subseteq marks'
          /\ bulkResetPipeid' = IF x[1] = "data" THEN SentOn(x) ELSE BULKOUT_MGMT_RESET_FLAG
      BY <2>1, <3>1 DEF Released
    <3>3. SentOn(x) \in Pipes \cup {BULKOUT_MGMT_RESET_FLAG}
      BY <1>1, SentIs
    <3> QED
      BY <1>1, <3>1, <3>2, <3>3
  <2>2. CASE ~At(c, "failed")
    BY <1>1, <2>2 DEF Released, MayStart, At, Holds, Types, TypeOK
  <2> QED
    BY <2>1, <2>2
<1>3. \A q : Held(q)' = Held(q)
  BY <1>1, <1>2, HeldMoves
<1>4. x \in Urbs(p) /\ Urbs(p)' = Urbs(p) \ {x} /\ \A q : q # p => Urbs(q)' = Urbs(q)
  BY <1>1, <1>2, UrbsShrink
<1>5. \A q : q # p => Claims(q)' = Claims(q)
  BY <1>3, <1>4, ClaimsAre
<1>6. x \in Claims(p) /\ Claims(p)' = Claims(p) \ {x}
  BY <1>3, <1>4, ClaimsAre
<1>7. "misdirected" \notin marks => Claims(p)' = {}
  BY <1>1, <1>6, Sole
<1>8. ClaimInv'
  <2>1. CASE "misdirected" \in marks
    BY <1>2, <2>1 DEF ClaimInv
  <2>2. CASE "misdirected" \notin marks
    <3>1. Pending' = [Pending EXCEPT ![p] = FALSE]
      BY <1>1, <2>2, Straight
    <3> QED
      BY <1>1, <1>2, <1>5, <1>7, <3>1, LetGo
  <2> QED
    BY <2>1, <2>2
<1>9. Pending' \in [Pipes -> BOOLEAN]
  BY <1>1 DEF Types, TypeOK
<1> QED
  BY <1>1, <1>2, <1>8, <1>9 DEF Types, TypeOK

-----------------------------------------------------------------------------
(* The steps that submit. *)

LEMMA KickTakeKeeps ==
  ASSUME IInv, NEW c \in Runners, KickTake(c)
  PROVE  IInv'
<1> DEFINE i == pc[c].arg
<1>1. i \in Cells /\ ~Holds(pc[c].at) /\ Types
  BY DEF IInv, Types, PlaceInv, KickTake, At, Holds
<1>2. Moves(c, "data", 0, pc[c].then) /\ pc[c].then \in {"idle", "unlock", "again"}
  BY <1>1, GoMoves DEF KickTake
<1>3. Fits(c, "data", 0, pc[c].then) /\ ~Holds("data")
  BY <1>2 DEF Fits, Places, Holds, Pipes
<1>4. PlaceInv' /\ Thens'
  BY <1>1, <1>2, <1>3, MovesPlace
<1>5. bWaiting' \subseteq Cells /\ BulkFlags' \subseteq BulkFlags /\ marks \subseteq marks'
  BY <1>1 DEF KickTake, Types, TypeOK, Missed
<1>6. Mgmt(i) \in TxContexts /\ PipeOf(Mgmt(i)) = MGMTPIPEIDX
  BY <1>1, PipesOf
<1>7. /\ ClaimInv' /\ urb' \in [TxContexts -> {"idle", "out", "ok", "error"}]
      /\ Pending' \in [Pipes -> BOOLEAN]
  <2>1. CASE UNCHANGED <<Pending, urb>>
    BY <1>1, <1>2, <1>3, <1>5, <2>1, QuietMove DEF Types, TypeOK
  <2>2. CASE PipeFree(MGMTPIPEIDX) /\ Submitted(Mgmt(i))
    <3>1. ~Pending[PipeOf(Mgmt(i))]
      BY <1>6, <2>2 DEF PipeFree
    <3> QED
      BY <1>1, <1>2, <1>3, <1>5, <1>6, <2>2, <3>1, SubmitKeeps
  <2> QED
    BY <2>1, <2>2 DEF KickTake, Refused
<1>8. Types'
  BY <1>4, <1>5, <1>7 DEF IInv, Types, TypeOK, Thens, KickTake, resets, data
<1> QED
  BY <1>7, <1>8 DEF IInv

LEMMA AfterPipeMoves ==
  ASSUME IInv, NEW c \in Runners, NEW p \in Pipes, AfterPipe(c, p)
  PROVE  \E a \in {"again", "idle", "data"}, n \in Nat, t \in {"idle", "unlock", "again"} :
             Moves(c, a, n, t) /\ Fits(c, a, n, t) /\ ~Holds(a)
<1>1. CASE p = 1
  <2>1. PICK a \in {"again", "idle"}, t \in {"idle", "unlock", "again"} : Moves(c, a, 0, t)
    BY <1>1, ReturnsMoves DEF AfterPipe
  <2>2. Fits(c, a, 0, t) /\ ~Holds(a)
    BY DEF Fits, Places, Holds
  <2> QED
    BY <2>1, <2>2
<1>2. CASE p # 1
  <2>1. /\ Moves(c, "data", p + 1, pc[c].then) /\ p + 1 \in Pipes /\ p + 1 \in Nat
        /\ pc[c].then \in {"idle", "unlock", "again"}
    BY <1>2, GoMoves DEF AfterPipe, Pipes, IInv
  <2>2. Fits(c, "data", p + 1, pc[c].then) /\ ~Holds("data")
    BY <2>1 DEF Fits, Places, Holds
  <2> QED
    BY <2>1, <2>2
<1> QED
  BY <1>1, <1>2

LEMMA KickUnflaggedKeeps ==
  ASSUME IInv, NEW c \in Runners, KickUnflagged(c)
  PROVE  IInv'
<1>1. Types /\ ~Holds(pc[c].at) /\ pc[c].arg \in Pipes
  BY DEF IInv, Types, PlaceInv, KickUnflagged, At, Holds, urbs
<1>2. PICK a \in {"null", "data"}, n \in Nat :
          Moves(c, a, n, pc[c].then) /\ Fits(c, a, n, pc[c].then) /\ ~Holds(a)
  <2>1. pc[c].then \in {"idle", "unlock", "again"}
    BY <1>1, GoMoves
  <2>2. CASE pc[c].arg = 1
    <3>1. Moves(c, "null", 0, pc[c].then)
      BY <1>1, <2>2, GoMoves DEF KickUnflagged, urbs
    <3> QED
      BY <2>1, <3>1 DEF Fits, Places, Holds
  <2>3. CASE pc[c].arg # 1
    <3>1. Moves(c, "data", pc[c].arg + 1, pc[c].then) /\ pc[c].arg + 1 \in Pipes \cap Nat
      BY <1>1, <2>3, GoMoves DEF KickUnflagged, Pipes, urbs
    <3> QED
      BY <2>1, <3>1 DEF Fits, Places, Holds
  <2> QED
    BY <2>2, <2>3
<1>3. UNCHANGED <<Pending, urb>> /\ marks \subseteq marks'
  BY DEF KickUnflagged, urbs
<1>4. PlaceInv' /\ ClaimInv' /\ Thens'
  BY <1>1, <1>2, <1>3, QuietMove DEF Fits
<1>5. Types'
  BY <1>1, <1>4 DEF Types, TypeOK, Thens, KickUnflagged, resets, ring, data, urbs
<1> QED
  BY <1>4, <1>5 DEF IInv

LEMMA KickDataKeeps ==
  ASSUME IInv, NEW c \in Runners, KickData(c)
  PROVE  IInv'
<1>0. PICK p \in Pipes : p = pc[c].arg
  BY DEF IInv, Types, PlaceInv, KickData, At, urbs
<1>1. p \in Nat /\ ~Holds(pc[c].at) /\ Types
  BY DEF IInv, KickData, At, Holds, Pipes, urbs
<1>2. marks \subseteq marks' /\ BulkFlags' \subseteq BulkFlags
  BY DEF KickData, urbs
<1>3. ENextPos' \in [Pipes -> Nat] /\ \A q \in Pipes : ENextPos'[q] <= WritePos[q]
  <2>1. CASE UNCHANGED ENextPos
    BY <1>1, <2>1 DEF Types, TypeOK
  <2>2. CASE \E e \in ENextPos[p] + 1 .. WritePos[p] : ENextPos' = [ENextPos EXCEPT ![p] = e]
    <3>1. PICK e \in ENextPos[p] + 1 .. WritePos[p] : ENextPos' = [ENextPos EXCEPT ![p] = e]
      BY <2>2
    <3>2. e \in Nat /\ e <= WritePos[p]
      BY <1>1, <3>1 DEF Types
    <3> QED
      BY <1>1, <3>1, <3>2 DEF Types, TypeOK
  <2> QED
    BY <1>0, <2>1, <2>2 DEF KickData, urbs
<1>4. Data(p) \in TxContexts /\ PipeOf(Data(p)) = p
  BY <1>1, PipesOf
<1>5. /\ PlaceInv' /\ Thens' /\ ClaimInv' /\ Pending' \in [Pipes -> BOOLEAN]
      /\ urb' \in [TxContexts -> {"idle", "out", "ok", "error"}]
  <2>1. CASE /\ AfterPipe(c, p)
             /\ UNCHANGED <<Pending, urb>> \/ (PipeFree(p) /\ Submitted(Data(p)))
    <3>1. PICK a \in {"again", "idle", "data"}, n \in Nat, t \in {"idle", "unlock", "again"} :
              Moves(c, a, n, t) /\ Fits(c, a, n, t) /\ ~Holds(a)
      BY <1>1, <2>1, AfterPipeMoves
    <3>2. PlaceInv' /\ Thens'
      BY <1>1, <3>1, MovesPlace
    <3>3. CASE UNCHANGED <<Pending, urb>>
      BY <1>1, <1>2, <3>1, <3>2, <3>3, QuietMove DEF Types, TypeOK
    <3>4. CASE PipeFree(p) /\ Submitted(Data(p))
      <4>1. ~Pending[PipeOf(Data(p))]
        BY <1>4, <3>4 DEF PipeFree
      <4> QED
        BY <1>1, <1>2, <1>4, <3>1, <3>2, <3>4, <4>1, SubmitKeeps
    <3> QED
      BY <2>1, <3>3, <3>4
  <2>2. CASE /\ Go(c, "empty", p) /\ PipeFree(p)
             /\ Pending' = [Pending EXCEPT ![p] = TRUE] /\ UNCHANGED urb
    <3>1. Moves(c, "empty", p, pc[c].then) /\ pc[c].then \in {"idle", "unlock", "again"}
      BY <1>1, <2>2, GoMoves
    <3>2. Fits(c, "empty", p, pc[c].then) /\ Holds("empty") /\ ~Pending[p]
      BY <1>1, <2>2, <3>1 DEF Fits, Places, Holds, PipeFree
    <3>3. PlaceInv' /\ Thens'
      BY <1>1, <3>1, <3>2, MovesPlace
    <3>4. /\ Held(p)' = Held(p) \cup {c}
          /\ \A q : q # p => Held(q)' = Held(q) \ {c}
          /\ \A q : c \notin Held(q)
      BY <1>1, <3>1, <3>2, HeldMoves
    <3>5. \A q : Urbs(q)' = Urbs(q)
      BY <2>2 DEF Urbs
    <3>6. Claims(p)' = Claims(p) \cup {c} /\ \A q : q # p => Claims(q)' = Claims(q)
      BY <3>4, <3>5, HeldGrows
    <3>7. "misdirected" \notin marks => Claims(p)' = {c}
      BY <1>1, <3>2, <3>6, Sole
    <3>8. ClaimInv'
      BY <1>1, <1>2, <2>2, <3>6, <3>7, Claimed
    <3> QED
      BY <1>1, <2>2, <3>3, <3>8 DEF Types, TypeOK
  <2> QED
    BY <1>0, <2>1, <2>2 DEF KickData, Refused, urbs
<1>6. BulkOutPipeId' \in [Pipes -> Pipes \cup {BULKOUT_MGMT_RESET_FLAG}]
  <2>1. CASE UNCHANGED BulkOutPipeId
    BY <1>1, <2>1 DEF Types, TypeOK
  <2>2. CASE BulkOutPipeId' = [BulkOutPipeId EXCEPT ![p] = p]
    BY <1>1, <2>2 DEF Types, TypeOK
  <2> QED
    BY <1>0, <2>1, <2>2 DEF KickData, urbs
<1>7. Types'
  BY <1>1, <1>2, <1>3, <1>5, <1>6 DEF Types, TypeOK, Thens, KickData, resets, ring, urbs
<1> QED
  BY <1>5, <1>7 DEF IInv

LEMMA KickEmptyKeeps ==
  ASSUME IInv, NEW c \in Runners, KickEmpty(c)
  PROVE  IInv'
<1>1. Types /\ At(c, "empty")
  BY DEF IInv, KickEmpty, urbs
<1>2. PICK p \in Pipes : p = pc[c].arg
  BY <1>1 DEF Types, PlaceInv
<1>3. PICK a \in {"again", "idle", "data"}, n \in Nat, t \in {"idle", "unlock", "again"} :
          Moves(c, a, n, t) /\ Fits(c, a, n, t) /\ ~Holds(a)
  BY <1>1, <1>2, AfterPipeMoves DEF KickEmpty, urbs
<1>4. PlaceInv' /\ Thens'
  BY <1>1, <1>3, MovesPlace
<1>5. \A q : Held(q)' = Held(q) \ {c} /\ Urbs(q)' = Urbs(q)
  BY <1>1, <1>3, HeldMoves DEF KickEmpty, Urbs, urbs
<1>6. c \in Held(p) /\ \A q : q # p => c \notin Held(q)
  BY <1>1, <1>2 DEF Held
<1>7. c \in Claims(p) /\ Claims(p)' = Claims(p) \ {c} /\ \A q : q # p => Claims(q)' = Claims(q)
  <2>1. c \notin Urbs(p)
    BY Apart DEF Urbs
  <2> QED
    BY <1>5, <1>6, <2>1, ClaimsAre
<1>8. "misdirected" \notin marks => Claims(p)' = {}
  BY <1>7, Sole
<1>9. Pending' = [Pending EXCEPT ![p] = FALSE] /\ marks \subseteq marks'
  BY <1>2 DEF KickEmpty, urbs
<1>10. ClaimInv'
  BY <1>7, <1>8, <1>9, LetGo
<1>11. Types'
  BY <1>1, <1>4, <1>9 DEF Types, TypeOK, Thens, KickEmpty, resets, ring, data, urbs
<1> QED
  BY <1>10, <1>11 DEF IInv

LEMMA KickNullKeeps ==
  ASSUME IInv, NEW c \in Runners, KickNull(c)
  PROVE  IInv'
<1>1. Types /\ ~Holds(pc[c].at) /\ marks \subseteq marks' /\ BulkFlags' \subseteq BulkFlags
  BY DEF IInv, KickNull, At, Holds, Missed
<1>2. PICK a \in {"again", "idle"}, t \in {"idle", "unlock", "again"} : Moves(c, a, 0, t)
  BY ReturnsMoves DEF KickNull
<1>3. Fits(c, a, 0, t) /\ ~Holds(a)
  BY DEF Fits, Places, Holds
<1>4. PlaceInv' /\ Thens'
  BY <1>1, <1>2, <1>3, MovesPlace
<1>5. /\ ClaimInv' /\ Pending' \in [Pipes -> BOOLEAN]
      /\ urb' \in [TxContexts -> {"idle", "out", "ok", "error"}]
  <2>1. CASE UNCHANGED <<Pending, urb>>
    BY <1>1, <1>2, <1>3, <2>1, QuietMove DEF Types, TypeOK
  <2>2. CASE PipeFree(MGMTPIPEIDX) /\ Submitted(Null)
    <3>1. Null \in TxContexts /\ ~Pending[PipeOf(Null)]
      BY <2>2, PipesOf DEF PipeFree
    <3> QED
      BY <1>1, <1>2, <1>3, <2>2, <3>1, SubmitKeeps
  <2> QED
    BY <2>1, <2>2 DEF KickNull, Refused
<1>6. Types'
  BY <1>1, <1>4, <1>5 DEF Types, TypeOK, Thens, KickNull, resets, ring, data
<1> QED
  BY <1>5, <1>6 DEF IInv

-----------------------------------------------------------------------------
(* The steps that release, and the bulk reset. *)

LEMMA MgmtDoneKeeps ==
  ASSUME IInv, SentInv, NEW i \in Cells, MgmtDone(i)
  PROVE  IInv'
<1> DEFINE c == MgmtTasklet
<1>1. Types /\ c \in Runners /\ Mgmt(i) \in TxContexts /\ TaskletOf(Mgmt(i)) = c /\ i \in Nat
  BY Apart, PipesOf DEF IInv, Cells
<1>2. Moves(c, "ring", i, pc[c].then) /\ pc[c].then \in {"idle", "unlock", "again"}
  BY <1>1, GoMoves DEF MgmtDone
<1>3. Fits(c, "ring", i, pc[c].then) /\ ~Holds("ring")
  BY <1>1, <1>2 DEF Fits, Places, Holds
<1>4. PlaceInv' /\ Thens'
  BY <1>1, <1>2, <1>3, MovesPlace
<1>5. /\ ClaimInv' /\ urb' \in [TxContexts -> {"idle", "out", "ok", "error"}]
      /\ BulkOutPipeId' \in [Pipes -> Pipes \cup {BULKOUT_MGMT_RESET_FLAG}]
      /\ Pending' \in [Pipes -> BOOLEAN]
      /\ Reset' \in BOOLEAN /\ bulkResetPipeid' \in Pipes \cup {BULKOUT_MGMT_RESET_FLAG}
  BY <1>1, <1>2, <1>3, ReleaseKeeps DEF MgmtDone
<1>6. Types'
  BY <1>1, <1>4, <1>5 DEF Types, TypeOK, Thens, MgmtDone, ring, data
<1> QED
  BY <1>5, <1>6 DEF IInv

LEMMA NullDoneKeeps ==
  ASSUME IInv, SentInv, NullDone
  PROVE  IInv'
<1> DEFINE c == NullTasklet
<1>1. Types /\ c \in Runners /\ Null \in TxContexts /\ TaskletOf(Null) = c
  BY Apart, PipesOf DEF IInv
<1>2. pc[c].then \in {"idle", "unlock", "again"}
  BY <1>1, GoMoves
<1>3. PICK a \in {"after", "kick"}, t \in {"idle", "unlock", "again"} : Moves(c, a, 0, t)
  BY <1>1, <1>2, GoMoves DEF NullDone
<1>4. Fits(c, a, 0, t) /\ ~Holds(a)
  BY DEF Fits, Places, Holds
<1>5. PlaceInv' /\ Thens'
  BY <1>1, <1>3, <1>4, MovesPlace
<1>6. /\ ClaimInv' /\ urb' \in [TxContexts -> {"idle", "out", "ok", "error"}]
      /\ BulkOutPipeId' \in [Pipes -> Pipes \cup {BULKOUT_MGMT_RESET_FLAG}]
      /\ Pending' \in [Pipes -> BOOLEAN]
      /\ Reset' \in BOOLEAN /\ bulkResetPipeid' \in Pipes \cup {BULKOUT_MGMT_RESET_FLAG}
  BY <1>1, <1>3, <1>4, ReleaseKeeps DEF NullDone
<1>7. Types'
  BY <1>1, <1>5, <1>6 DEF Types, TypeOK, Thens, NullDone, ring, data
<1> QED
  BY <1>6, <1>7 DEF IInv

LEMMA DataDoneKeeps ==
  ASSUME IInv, SentInv, NEW p \in Pipes, DataDone(p)
  PROVE  IInv'
<1> DEFINE c == TaskletOf(Data(p))
<1>1. Types /\ c \in Runners /\ Data(p) \in TxContexts /\ p \in Nat
  BY PipesOf, SentIs DEF IInv, DataDone, Pipes
<1>2. Moves(c, "after", p, pc[c].then) /\ pc[c].then \in {"idle", "unlock", "again"}
  BY <1>1, GoMoves DEF DataDone
<1>3. Fits(c, "after", p, pc[c].then) /\ ~Holds("after")
  BY <1>1, <1>2 DEF Fits, Places, Holds
<1>4. PlaceInv' /\ Thens'
  BY <1>1, <1>2, <1>3, MovesPlace
<1>5. /\ ClaimInv' /\ urb' \in [TxContexts -> {"idle", "out", "ok", "error"}]
      /\ BulkOutPipeId' \in [Pipes -> Pipes \cup {BULKOUT_MGMT_RESET_FLAG}]
      /\ Pending' \in [Pipes -> BOOLEAN]
      /\ Reset' \in BOOLEAN /\ bulkResetPipeid' \in Pipes \cup {BULKOUT_MGMT_RESET_FLAG}
  BY <1>1, <1>2, <1>3, ReleaseKeeps DEF DataDone
<1>6. Types'
  BY <1>1, <1>4, <1>5 DEF Types, TypeOK, Thens, DataDone, ring
<1> QED
  BY <1>5, <1>6 DEF IInv

LEMMA ResetDataKeeps ==
  ASSUME IInv, ResetData
  PROVE  IInv'
<1> DEFINE c == CmdThread
<1>1. Types /\ c \in Runners /\ ~Holds(pc[c].at) /\ pc[c].then \in {"idle", "unlock", "again"}
  BY Apart, GoMoves DEF IInv, ResetData, At, Holds, urbs
<1>2. PICK p \in Pipes : p = bulkResetPipeid
  BY <1>1 DEF Types, TypeOK, ResetData, urbs
<1>3. marks' = marks /\ UNCHANGED urb
  BY DEF ResetData, urbs
<1>4. CASE Pending[p]
  <2>1. Moves(c, "reflag", 0, pc[c].then) /\ UNCHANGED Pending
    BY <1>1, <1>2, <1>4, GoMoves DEF ResetData, urbs
  <2>2. Fits(c, "reflag", 0, pc[c].then) /\ ~Holds("reflag")
    BY <1>1 DEF Fits, Places, Holds
  <2>3. PlaceInv' /\ ClaimInv' /\ Thens'
    BY <1>1, <1>3, <2>1, <2>2, QuietMove
  <2>4. Types'
    BY <1>1, <1>3, <2>1, <2>3 DEF Types, TypeOK, Thens, ResetData, ring, data, urbs
  <2> QED
    BY <2>3, <2>4 DEF IInv, urbs
<1>5. CASE ~Pending[p]
  <2>1. Moves(c, "resubmit", p, pc[c].then) /\ Pending' = [Pending EXCEPT ![p] = TRUE]
    BY <1>1, <1>2, <1>5, GoMoves DEF ResetData, urbs
  <2>2. Fits(c, "resubmit", p, pc[c].then) /\ Holds("resubmit")
    BY <1>1 DEF Fits, Places, Holds, Pipes
  <2>3. PlaceInv' /\ Thens'
    BY <1>1, <2>1, <2>2, MovesPlace
  <2>4. /\ Held(p)' = Held(p) \cup {c}
        /\ \A q : q # p => Held(q)' = Held(q) \ {c}
        /\ \A q : c \notin Held(q)
    BY <1>1, <2>1, <2>2, HeldMoves
  <2>5. \A q : Urbs(q)' = Urbs(q)
    BY <1>3 DEF Urbs
  <2>6. Claims(p)' = Claims(p) \cup {c} /\ \A q : q # p => Claims(q)' = Claims(q)
    BY <2>4, <2>5, HeldGrows
  <2>7. "misdirected" \notin marks => Claims(p)' = {c}
    BY <1>5, <2>6, Sole
  <2>8. ClaimInv'
    BY <1>3, <2>1, <2>6, <2>7, Claimed
  <2>9. Types'
    BY <1>1, <1>3, <2>1, <2>3 DEF Types, TypeOK, Thens, ResetData, ring, data, urbs
  <2> QED
    BY <2>8, <2>9 DEF IInv, urbs
<1> QED
  BY <1>4, <1>5 DEF IInv

LEMMA ResetResubmitKeeps ==
  ASSUME IInv, ResetResubmit
  PROVE  IInv'
<1> DEFINE c == CmdThread
<1>1. Types /\ c \in Runners /\ At(c, "resubmit") /\ UNCHANGED Pending /\ marks \subseteq marks'
  BY Apart DEF IInv, ResetResubmit
<1>2. PICK p \in Pipes : p = pc[c].arg
  BY <1>1 DEF Types, PlaceInv
<1>3. c \in Held(p) /\ (\A q : q # p => c \notin Held(q)) /\ (\A q : c \notin Urbs(q))
  BY <1>1, <1>2, Apart DEF Held, Urbs
<1>4. c \in Claims(p) /\ Data(p) \in TxContexts /\ PipeOf(Data(p)) = p /\ Data(p) # c
  BY <1>1, <1>3, ClaimsAre, PipesOf, Apart
<1>5. /\ PlaceInv' /\ Thens' /\ ClaimInv'
      /\ urb' \in [TxContexts -> {"idle", "out", "ok", "error"}]
  <2>1. CASE Kick(c, "idle") /\ urb' = [urb EXCEPT ![Data(p)] = "out"]
    <3>1. Moves(c, "kick", 0, "idle") /\ Fits(c, "kick", 0, "idle") /\ ~Holds("kick")
      BY <1>1, <2>1, GoMoves DEF Fits, Places, Holds
    <3>2. PlaceInv' /\ Thens'
      BY <1>1, <3>1, MovesPlace
    <3>3. \A q : Held(q)' = Held(q) \ {c}
      BY <1>1, <3>1, HeldMoves
    <3>4. Urbs(p)' = Urbs(p) \cup {Data(p)} /\ \A q : q # p => Urbs(q)' = Urbs(q)
      BY <1>1, <1>4, <2>1, UrbsGrow
    <3>5. \A q : q # p => Claims(q)' = Claims(q)
      BY <1>3, <3>3, <3>4, ClaimsAre
    <3>6. Claims(p)' = (Claims(p) \ {c}) \cup {Data(p)}
      BY <1>3, <1>4, <3>3, <3>4, ClaimsAre
    <3>7. ClaimInv'
      <4>1. CASE "misdirected" \in marks
        BY <1>1, <4>1 DEF ClaimInv
      <4>2. CASE "misdirected" \notin marks
        <5>1. Claims(p)' = {Data(p)} /\ Pending[p]
          BY <1>4, <3>6, <4>2, Sole
        <5>2. Pending' = [Pending EXCEPT ![p] = TRUE]
          BY <1>1, <5>1 DEF Types, TypeOK
        <5> QED
          BY <1>1, <3>5, <5>1, <5>2, Claimed
      <4> QED
        BY <4>1, <4>2
    <3> QED
      BY <1>1, <1>4, <2>1, <3>2, <3>7 DEF Types, TypeOK
  <2>2. CASE Go(c, "undo", p) /\ UNCHANGED urb
    <3>1. Moves(c, "undo", p, pc[c].then) /\ pc[c].then \in {"idle", "unlock", "again"}
      BY <1>1, <2>2, GoMoves
    <3>2. Fits(c, "undo", p, pc[c].then) /\ Holds("undo")
      BY <3>1 DEF Fits, Places, Holds, Pipes
    <3>3. PlaceInv' /\ Thens'
      BY <1>1, <3>1, <3>2, MovesPlace
    <3>4. Held(p)' = Held(p) \cup {c} /\ \A q : q # p => Held(q)' = Held(q) \ {c}
      BY <1>1, <3>1, <3>2, HeldMoves
    <3>5. \A q : Held(q)' = Held(q) /\ Urbs(q)' = Urbs(q)
      BY <1>3, <2>2, <3>4 DEF Urbs
    <3>6. \A q \in Pipes : Claims(q)' = Claims(q)
      BY <3>5, ClaimsAre
    <3> QED
      BY <1>1, <2>2, <3>3, <3>6, Untouched DEF Types, TypeOK
  <2> QED
    BY <1>2, <2>1, <2>2 DEF ResetResubmit
<1>6. BulkOutPipeId' \in [Pipes -> Pipes \cup {BULKOUT_MGMT_RESET_FLAG}]
  <2>1. bulkResetPipeid \in Pipes \cup {BULKOUT_MGMT_RESET_FLAG}
    BY <1>1 DEF Types, TypeOK
  <2> QED
    BY <1>1, <2>1 DEF Types, TypeOK, ResetResubmit
<1>7. Types'
  BY <1>1, <1>5, <1>6 DEF Types, TypeOK, Thens, ResetResubmit, resets, ring, data
<1> QED
  BY <1>5, <1>7 DEF IInv

LEMMA ResetUndoKeeps ==
  ASSUME IInv, ResetUndo
  PROVE  IInv'
<1> DEFINE c == CmdThread
<1>1. Types /\ c \in Runners /\ At(c, "undo") /\ UNCHANGED <<urb, BulkOutPipeId>>
  BY Apart DEF IInv, ResetUndo, urbs
<1>2. PICK p \in Pipes : p = pc[c].arg
  BY <1>1 DEF Types, PlaceInv
<1>3. Moves(c, "kick", 0, "idle") /\ Fits(c, "kick", 0, "idle") /\ ~Holds("kick")
  BY <1>1, GoMoves DEF ResetUndo, Fits, Places, Holds, urbs
<1>4. PlaceInv' /\ Thens'
  BY <1>1, <1>3, MovesPlace
<1>5. \A q : Held(q)' = Held(q) \ {c} /\ Urbs(q)' = Urbs(q)
  BY <1>1, <1>3, HeldMoves DEF Urbs
<1>6. c \in Held(p) /\ (\A q : q # p => c \notin Held(q)) /\ (\A q : c \notin Urbs(q))
  BY <1>1, <1>2, Apart DEF Held, Urbs
<1>7. /\ c \in Claims(p) /\ Claims(p)' = Claims(p) \ {c}
      /\ \A q : q # p => Claims(q)' = Claims(q)
  BY <1>5, <1>6, ClaimsAre
<1>8. /\ Pending' = [q \in Pipes |-> Pending[q] /\ q # bulkResetPipeid]
      /\ marks' = marks \cup Astray(p)
  BY <1>2 DEF ResetUndo, urbs
<1>9. ClaimInv'
  <2>1. CASE p = bulkResetPipeid
    <3>1. "misdirected" \notin marks => Claims(p)' = {}
      BY <1>7, Sole
    <3>2. Pending' = [Pending EXCEPT ![p] = FALSE]
      <4>1. Pending \in [Pipes -> BOOLEAN]
        BY <1>1 DEF Types, TypeOK
      <4> QED
        BY <1>8, <2>1, <4>1
    <3> QED
      BY <1>7, <1>8, <3>1, <3>2, LetGo
  <2>2. CASE p # bulkResetPipeid
    BY <1>8, <2>2 DEF ClaimInv, Astray
  <2> QED
    BY <2>1, <2>2
<1>10. Pending' \in [Pipes -> BOOLEAN]
  <2>1. Pending \in [Pipes -> BOOLEAN]
    BY <1>1 DEF Types, TypeOK
  <2> QED
    BY <1>8, <2>1
<1>11. Types'
  BY <1>1, <1>4, <1>10 DEF Types, TypeOK, Thens, ResetUndo, resets, ring, data, urbs
<1> QED
  BY <1>9, <1>11 DEF IInv

-----------------------------------------------------------------------------
(* The invariant, and what follows from it. *)

LEMMA InitHolds == Init => IInv
<1> SUFFICES ASSUME Init PROVE IInv
  OBVIOUS
<1>1. MGMT_RING_SIZE \in 1 .. Wrapped - 1 /\ 0 \in Cells /\ 0 \in Pipes
  BY BulkOutAssumption DEF Cells, Pipes
<1>2. TypeOK
  <2>1. TxSwFreeIdx \in 0 .. Wrapped - 1
    <3>1. TxSwFreeIdx = MGMT_RING_SIZE /\ Wrapped \in Nat
      BY BulkOutAssumption DEF Init
    <3> QED
      BY <1>1, <3>1
  <2>2. Pending \in [Pipes -> BOOLEAN] /\ Reset \in BOOLEAN /\ NullInUse \in BOOLEAN
    BY DEF Init
  <2>3. /\ urb \in [TxContexts -> {"idle", "out", "ok", "error"}]
        /\ BulkOutPipeId \in [Pipes -> Pipes \cup {BULKOUT_MGMT_RESET_FLAG}]
    BY DEF Init
  <2>4. \A c \in Runners : pc[c].then \in {"idle", "unlock", "again"}
    BY DEF Init, Idle
  <2>5. \A p \in Pipes : ENextPos[p] <= WritePos[p]
    BY DEF Init
  <2> QED
    BY <1>1, <2>1, <2>2, <2>3, <2>4, <2>5 DEF Init, TypeOK
<1>3. PlaceInv
  BY DEF Init, PlaceInv, PcRecords, Places, Idle, At
<1>4. \A p \in Pipes : Claims(p) = {} /\ ~Pending[p]
  BY Apart DEF Init, Claims, Idle, At
<1> QED
  BY <1>2, <1>3, <1>4 DEF IInv, Types, ClaimInv, Init

LEMMA NextKeeps == IInv /\ SentInv /\ [Next]_vars => IInv'
<1> SUFFICES ASSUME IInv, SentInv, [Next]_vars PROVE IInv'
  OBVIOUS
<1>1. ASSUME NEW t \in Threads, Sender(t) PROVE IInv'
  BY <1>1, SendRoomKeeps, MgmtKickOutKeeps, NullKickOutKeeps, DataKickOutKeeps DEF Sender
<1>2. ASSUME NEW c \in Runners, RTUSBKickBulkOut(c) PROVE IInv'
  BY <1>2, KickLookKeeps, KickTakeKeeps, KickUnflaggedKeeps, KickDataKeeps, KickEmptyKeeps,
     KickNullKeeps
  DEF RTUSBKickBulkOut
<1>3. ASSUME NEW x \in TxContexts, UrbDone(x) PROVE IInv'
  BY <1>3, UrbDoneKeeps
<1>4. CASE Tasklet
  BY <1>4, ErrorSeenKeeps, MgmtDoneKeeps, MgmtRingDoneKeeps, MgmtAfterKeeps, NullDoneKeeps,
     NullAfterKeeps, DataDoneKeeps, DataAfterKeeps, DataAgainKeeps DEF Tasklet
<1>5. CASE CMDHandler
  BY <1>5, CMDHandlerKeeps
<1>6. CASE ResetBulkOutHdlr
  BY <1>6, ResetKicksKeep, ResetDataKeeps, ResetResubmitKeeps, ResetUndoKeeps DEF ResetBulkOutHdlr
<1>7. CASE UNCHANGED vars
  <2>1. UNCHANGED <<Pending, urb, pc, marks>>
    BY <1>7 DEF vars, urbs
  <2>2. \A p \in Pipes : Claims(p)' = Claims(p)
    BY <2>1 DEF Claims, At
  <2>3. ClaimInv'
    BY <2>1, <2>2, Untouched
  <2>4. Types'
    BY <1>7, <2>1 DEF IInv, Types, TypeOK, PlaceInv, At, vars, resets, ring, data, urbs
  <2> QED
    BY <2>3, <2>4 DEF IInv, urbs
<1> QED
  BY <1>1, <1>2, <1>3, <1>4, <1>5, <1>6, <1>7 DEF Next

LEMMA ClaimsCounted == ClaimInv => OneTransferPerPipe
<1> SUFFICES ASSUME ClaimInv, "misdirected" \notin marks, NEW p \in Pipes
             PROVE  Cardinality(Claims(p)) = IF Pending[p] THEN 1 ELSE 0
  BY DEF OneTransferPerPipe
<1>1. CASE Pending[p]
  <2>1. PICK z : Claims(p) = {z}
    BY <1>1 DEF ClaimInv
  <2> QED
    BY <1>1, <2>1, FS_Singleton
<1>2. CASE ~Pending[p]
  BY <1>2, FS_EmptySet DEF ClaimInv
<1> QED
  BY <1>1, <1>2

-----------------------------------------------------------------------------
(* On which pipe a transfer is. *)

\* The tasklets are apart.
LEMMA TaskletNames ==
  /\ MgmtTasklet # NullTasklet
  /\ \A p \in Pipes : /\ DataTasklet(p) # MgmtTasklet /\ DataTasklet(p) # NullTasklet
                      /\ DataTasklet(p) # CmdThread /\ DataTasklet(p) \in Runners
                      /\ DataTasklet(p) \notin Threads
                      /\ \A q \in Pipes : DataTasklet(q) = DataTasklet(p) => q = p
<1>1. \A p \in Pipes : DataTasklet(p)[1] = "data tasklet" /\ DataTasklet(p)[2] = p
  BY DEF DataTasklet
<1>2. MgmtTasklet[1] = "mgmt tasklet" /\ NullTasklet[1] = "null tasklet"
  BY DEF MgmtTasklet, NullTasklet
<1>3. \A p \in Pipes : DataTasklet(p) \in Others /\ DataTasklet(p) # CmdThread
  BY Apart DEF Others
<1>4. \A t \in Threads : t \notin Others
  BY BulkOutAssumption
<1> QED
  BY <1>1, <1>2, <1>3, <1>4, Apart

\* A runner that moves, but not into the second half of a completion.
LEMMA SentKept ==
  ASSUME Types, SentInv, NEW c \in Runners, NEW a, NEW n, NEW t, Moves(c, a, n, t),
         a = "after" => \A p \in Pipes : DataTasklet(p) # c,
         UNCHANGED BulkOutPipeId, marks \subseteq marks'
  PROVE  SentInv'
<1>1. pc'[c].at = a /\ \A d \in Runners : d # c => pc'[d] = pc[d]
  BY DEF Types, PlaceInv, Moves
<1>2. SUFFICES ASSUME "misdirected" \notin marks', NEW p \in Pipes
               PROVE  /\ BulkOutPipeId'[p] = p
                      /\ pc'[DataTasklet(p)].at = "after" => pc'[DataTasklet(p)].arg = p
  BY DEF SentInv, At
<1>3. BulkOutPipeId[p] = p /\ (pc[DataTasklet(p)].at = "after" => pc[DataTasklet(p)].arg = p)
  BY <1>2 DEF SentInv, At
<1>4. DataTasklet(p) \in Runners
  BY TaskletNames
<1>5. CASE DataTasklet(p) = c
  BY <1>1, <1>3, <1>5
<1>6. CASE DataTasklet(p) # c
  BY <1>1, <1>3, <1>4, <1>6
<1> QED
  BY <1>5, <1>6

LEMMA KickSent ==
  ASSUME IInv, SentInv, NEW c \in Runners, RTUSBKickBulkOut(c)
  PROVE  SentInv'
<1>1. Types /\ marks \subseteq marks'
  BY DEF IInv, RTUSBKickBulkOut, KickLook, KickTake, KickUnflagged, KickData, KickEmpty, KickNull, urbs
<1>2. PICK a \in Places \ {"after"} : \E n, t : Moves(c, a, n, t)
  <2>1. ASSUME Returns(c)
        PROVE  \E a \in Places \ {"after"} : \E n, t : Moves(c, a, n, t)
    <3>1. PICK a \in {"again", "idle"}, t \in {"idle", "unlock", "again"} : Moves(c, a, 0, t)
      BY <2>1, ReturnsMoves
    <3>2. a \in Places \ {"after"}
      BY DEF Places
    <3> QED
      BY <3>1, <3>2
  <2>2. ASSUME NEW a \in {"take", "data", "empty", "null"}, NEW n, Go(c, a, n)
        PROVE  \E b \in Places \ {"after"} : \E m, t : Moves(c, b, m, t)
    <3>1. Moves(c, a, n, pc[c].then)
      BY <1>1, <2>2, GoMoves
    <3>2. a \in Places \ {"after"}
      BY DEF Places
    <3> QED
      BY <3>1, <3>2
  <2>3. \A p : AfterPipe(c, p) => \E b \in Places \ {"after"} : \E m, t : Moves(c, b, m, t)
    BY <2>1, <2>2 DEF AfterPipe
  <2>4. CASE KickLook(c)
    BY <2>1, <2>2, <2>4 DEF KickLook, urbs
  <2>5. CASE KickTake(c)
    BY <2>2, <2>5 DEF KickTake
  <2>6. CASE KickUnflagged(c)
    BY <2>2, <2>6 DEF KickUnflagged, urbs
  <2>7. CASE KickData(c)
    BY <2>2, <2>3, <2>7 DEF KickData, urbs
  <2>8. CASE KickEmpty(c)
    BY <2>3, <2>8 DEF KickEmpty, urbs
  <2>9. CASE KickNull(c)
    BY <2>1, <2>9 DEF KickNull
  <2> QED
    BY <2>4, <2>5, <2>6, <2>7, <2>8, <2>9 DEF RTUSBKickBulkOut, urbs
<1>3. CASE UNCHANGED BulkOutPipeId
  BY <1>1, <1>2, <1>3, SentKept
<1>4. CASE \E p \in Pipes : BulkOutPipeId' = [BulkOutPipeId EXCEPT ![p] = p]
  <2>1. PICK p \in Pipes : BulkOutPipeId' = [BulkOutPipeId EXCEPT ![p] = p]
    BY <1>4
  <2>2. CASE "misdirected" \in marks
    BY <1>1, <2>2 DEF SentInv
  <2>3. CASE "misdirected" \notin marks
    <3>1. UNCHANGED BulkOutPipeId
      BY <1>1, <2>1, <2>3 DEF SentInv, Types, TypeOK
    <3> QED
      BY <1>1, <1>2, <3>1, SentKept
  <2> QED
    BY <2>2, <2>3
<1>5. pc[c].arg \in Pipes \/ ~At(c, "data")
  BY <1>1 DEF Types, PlaceInv
<1> QED
  BY <1>3, <1>4, <1>5
  DEF RTUSBKickBulkOut, KickLook, KickTake, KickUnflagged, KickData, KickEmpty, KickNull, urbs

LEMMA DataDoneSent ==
  ASSUME IInv, SentInv, NEW p \in Pipes, DataDone(p)
  PROVE  SentInv'
<1> DEFINE c == TaskletOf(Data(p))
<1>1. Types /\ c \in Runners /\ UNCHANGED BulkOutPipeId
  BY PipesOf, SentIs DEF IInv, DataDone, Released
<1>2. Moves(c, "after", p, pc[c].then)
  BY <1>1, GoMoves DEF DataDone
<1>3. pc'[c].arg = p /\ \A d \in Runners : d # c => pc'[d] = pc[d]
  BY <1>1, <1>2 DEF Types, PlaceInv, Moves
<1>4. marks \subseteq marks'
  BY DEF DataDone, Released
<1>5. CASE "misdirected" \in marks
  BY <1>4, <1>5 DEF SentInv
<1>6. CASE "misdirected" \notin marks
  <2>1. c = DataTasklet(p)
    BY <1>1, <1>6, Straight
  <2>2. SUFFICES ASSUME NEW q \in Pipes
                 PROVE  /\ BulkOutPipeId'[q] = q
                        /\ pc'[DataTasklet(q)].at = "after" => pc'[DataTasklet(q)].arg = q
    BY DEF SentInv, At
  <2>3. BulkOutPipeId[q] = q /\ (pc[DataTasklet(q)].at = "after" => pc[DataTasklet(q)].arg = q)
    BY <1>6 DEF SentInv, At
  <2>4. CASE q = p
    BY <1>1, <1>3, <2>1, <2>3, <2>4
  <2>5. CASE q # p
    <3>1. DataTasklet(q) \in Runners /\ DataTasklet(q) # c
      BY <2>1, <2>5, TaskletNames
    <3> QED
      BY <1>1, <1>3, <2>3, <3>1
  <2> QED
    BY <2>4, <2>5
<1> QED
  BY <1>5, <1>6

LEMMA NextSent == IInv /\ SentInv /\ [Next]_vars => SentInv'
<1> SUFFICES ASSUME IInv, SentInv, [Next]_vars PROVE SentInv'
  OBVIOUS
<1>1. Types /\ CmdThread \in Runners /\ MgmtTasklet \in Runners /\ NullTasklet \in Runners
  BY Apart DEF IInv
<1>2. ASSUME NEW t \in Threads, Sender(t) PROVE SentInv'
  <2>1. t \in Runners
    BY Apart
  <2>2. \E a \in {"room", "kick"} : \E n, u : Moves(t, a, n, u)
    BY <1>1, <1>2, <2>1, GoMoves
    DEF Sender, SendRoom, RtmpUSBMgmtKickOut, RtmpUSBNullFrameKickOut, RtmpUSBDataKickOut, urbs
  <2>3. UNCHANGED BulkOutPipeId /\ marks \subseteq marks'
    BY <1>2 DEF Sender, SendRoom, RtmpUSBMgmtKickOut, RtmpUSBNullFrameKickOut, RtmpUSBDataKickOut, urbs
  <2> QED
    BY <1>1, <2>1, <2>2, <2>3, SentKept
<1>3. ASSUME NEW c \in Runners, RTUSBKickBulkOut(c) PROVE SentInv'
  BY <1>3, KickSent
<1>4. ASSUME NEW x \in TxContexts, UrbDone(x) PROVE SentInv'
  BY <1>4 DEF UrbDone, SentInv, At
<1>5. ASSUME NEW x \in TxContexts, ErrorSeen(x) PROVE SentInv'
  <2>1. TaskletOf(x) \in Runners /\ UNCHANGED BulkOutPipeId /\ marks \subseteq marks'
    BY <1>1, <1>5, SentIs DEF ErrorSeen, urbs
  <2>2. Moves(TaskletOf(x), "failed", x[2], pc[TaskletOf(x)].then)
    BY <1>1, <1>5, <2>1, GoMoves DEF ErrorSeen, urbs
  <2> QED
    BY <1>1, <2>1, <2>2, SentKept
<1>6. ASSUME NEW i \in Cells, MgmtDone(i) PROVE SentInv'
  <2>1. UNCHANGED BulkOutPipeId /\ marks \subseteq marks'
    BY <1>6 DEF MgmtDone, Released
  <2>2. Moves(MgmtTasklet, "ring", i, pc[MgmtTasklet].then)
    BY <1>1, <1>6, GoMoves DEF MgmtDone
  <2> QED
    BY <1>1, <2>1, <2>2, SentKept
<1>7. CASE MgmtRingDone \/ MgmtAfter
  <2>1. UNCHANGED BulkOutPipeId /\ marks \subseteq marks'
    BY <1>7 DEF MgmtRingDone, MgmtAfter, RTEnqueueInternalCmd, urbs
  <2>2. \E a, n, t : Moves(MgmtTasklet, a, n, t)
    BY <1>1, <1>7, GoMoves DEF MgmtRingDone, MgmtAfter, urbs
  <2> QED
    BY <1>1, <2>1, <2>2, SentKept, TaskletNames
<1>8. CASE NullDone \/ NullAfter
  <2>1. UNCHANGED BulkOutPipeId /\ marks \subseteq marks'
    BY <1>8 DEF NullDone, NullAfter, Released, RTEnqueueInternalCmd, urbs
  <2>2. \E a, n, t : Moves(NullTasklet, a, n, t)
    BY <1>1, <1>8, GoMoves DEF NullDone, NullAfter, urbs
  <2> QED
    BY <1>1, <2>1, <2>2, SentKept, TaskletNames
<1>9. ASSUME NEW p \in Pipes, DataDone(p) PROVE SentInv'
  BY <1>9, DataDoneSent
<1>10. ASSUME NEW p \in Pipes, DataAfter(p) \/ DataAgain(p) PROVE SentInv'
  <2>1. UNCHANGED BulkOutPipeId /\ marks \subseteq marks'
    BY <1>10 DEF DataAfter, DataAgain, RTEnqueueInternalCmd, urbs
  <2>2. DataTasklet(p) \in Runners
    BY TaskletNames
  <2>3. \E a \in {"idle", "kick"} : \E n, t : Moves(DataTasklet(p), a, n, t)
    BY <1>1, <1>10, <2>2, GoMoves DEF DataAfter, DataAgain, urbs
  <2> QED
    BY <1>1, <2>1, <2>2, <2>3, SentKept
<1>11. CASE CMDHandler \/ ResetBulkOutHdlr
  <2>1. \E a, n, t : Moves(CmdThread, a, n, t)
    BY <1>1, <1>11, GoMoves
    DEF CMDHandler, ResetBulkOutHdlr, ResetMgmt, ResetData, ResetReflag, ResetResubmit, ResetUndo, urbs
  <2>2. CASE UNCHANGED BulkOutPipeId /\ marks \subseteq marks'
    BY <1>1, <2>1, <2>2, SentKept, TaskletNames
  <2>3. CASE ResetResubmit
    <3>1. PICK p \in Pipes : p = pc[CmdThread].arg
      BY <1>1, <2>3 DEF ResetResubmit, Types, PlaceInv
    <3>2. /\ BulkOutPipeId' = [BulkOutPipeId EXCEPT ![p] = bulkResetPipeid]
          /\ marks \cup Astray(p) \subseteq marks'
      BY <2>3, <3>1 DEF ResetResubmit
    <3>3. CASE "misdirected" \in marks'
      BY <3>3 DEF SentInv
    <3>4. CASE "misdirected" \notin marks'
      <4>1. "misdirected" \notin marks /\ p = bulkResetPipeid
        BY <3>2, <3>4 DEF Astray
      <4>2. UNCHANGED BulkOutPipeId
        BY <1>1, <3>2, <4>1 DEF SentInv, Types, TypeOK
      <4> QED
        BY <1>1, <2>1, <3>2, <4>2, SentKept, TaskletNames
    <3> QED
      BY <3>3, <3>4
  <2> QED
    BY <1>11, <2>2, <2>3
    DEF CMDHandler, ResetBulkOutHdlr, ResetMgmt, ResetData, ResetReflag, ResetUndo, urbs
<1>12. CASE UNCHANGED vars
  BY <1>12 DEF vars, SentInv, At, urbs
<1> QED
  BY <1>2, <1>3, <1>4, <1>5, <1>6, <1>7, <1>8, <1>9, <1>10, <1>11, <1>12 DEF Next, Tasklet

LEMMA InitSent == Init => SentInv
<1> SUFFICES ASSUME Init PROVE SentInv
  OBVIOUS
<1>1. \A p \in Pipes : DataTasklet(p) \in Runners
  BY TaskletNames
<1> QED
  BY <1>1 DEF Init, SentInv, At, Idle


\* The invariant behind the theorems below: where every runner is and what it
\* holds there, who claims each pipe, and on which pipe its transfer is, until
\* ResetBulkOutHdlr submits a batch on another.
THEOREM Invariance == Spec => [](IInv /\ SentInv)
  BY InitHolds, InitSent, NextKeeps, NextSent, PTL DEF Spec

\* Whatever the senders, kicks, tasklets and the bulk reset do, the ring's indices stay
\* within its cells, and no batch of a pipe ends beyond what was written to it.
THEOREM TypeCorrect == Spec => []TypeOK
<1>1. IInv => TypeOK
  BY DEF IInv, Types
<1> QED
  BY <1>1, Invariance, PTL

\* BulkOutPending keeps two transfers off each pipe, for every ring, number of senders
\* and number of failures, until ResetBulkOutHdlr submits a batch on another pipe than
\* the one it marked pending.
THEOREM OneTransferOnEachPipe == Spec => []OneTransferPerPipe
<1>1. IInv => OneTransferPerPipe
  BY ClaimsCounted DEF IInv
<1> QED
  BY <1>1, Invariance, PTL

-----------------------------------------------------------------------------
(* Who carries out a reset. *)

HasHandler ==
    \/ CmdQ > 0 \/ At(CmdThread, "reset")
    \/ At(NullTasklet, "after")
    \/ bulkResetPipeid = BULKOUT_MGMT_RESET_FLAG /\ \E a \in {"ring", "after"} : At(MgmtTasklet, a)
    \/ \E p \in Pipes : At(DataTasklet(p), "after") \/ pc[DataTasklet(p)].then = "again"

LEMMA HandlerIs == ResetHasHandler <=> (Reset /\ "alloc" \notin marks => HasHandler)
  BY DEF ResetHasHandler, HasHandler

\* A move of a runner that carries out no reset, or that will go on doing so.
Follows(c, t) ==
    /\ pc[c].at \notin {"reset", "ring", "after"}
    /\ \A p \in Pipes : c = DataTasklet(p) /\ pc[c].then = "again" => t = "again"

LEMMA FollowKeeps ==
  ASSUME Types, ResetHasHandler, NEW c \in Runners, NEW a, NEW n, NEW t, Moves(c, a, n, t),
         Follows(c, t), marks \subseteq marks', UNCHANGED <<Reset, bulkResetPipeid, CmdQ>>
  PROVE  ResetHasHandler'
<1> SUFFICES ASSUME HasHandler PROVE HasHandler'
  BY DEF ResetHasHandler, HasHandler
<1>1. \A d \in Runners : d # c => pc'[d] = pc[d]
  BY DEF Moves, Types, PlaceInv
<1>2. pc'[c].then = t
  BY DEF Moves, Types, PlaceInv
<1>3. CASE CmdQ > 0
  BY <1>3 DEF HasHandler
<1>4. CASE At(CmdThread, "reset")
  BY <1>1, <1>4, Apart DEF HasHandler, Follows, At
<1>5. CASE At(NullTasklet, "after")
  BY <1>1, <1>5, Apart DEF HasHandler, Follows, At
<1>6. CASE bulkResetPipeid = BULKOUT_MGMT_RESET_FLAG /\ \E b \in {"ring", "after"} : At(MgmtTasklet, b)
  BY <1>1, <1>6, Apart DEF HasHandler, Follows, At
<1>7. ASSUME NEW p \in Pipes, At(DataTasklet(p), "after") \/ pc[DataTasklet(p)].then = "again"
      PROVE  HasHandler'
  BY <1>1, <1>2, <1>7, Apart DEF HasHandler, Follows, At
<1> QED
  BY <1>3, <1>4, <1>5, <1>6, <1>7 DEF HasHandler

LEMMA SenderFollows ==
  ASSUME Types, ResetHasHandler, NEW t \in Threads, Sender(t)
  PROVE  ResetHasHandler'
<1>1. t \in Runners /\ \A p \in Pipes : t # DataTasklet(p)
  BY Apart, BulkOutAssumption DEF Others
<1>2. pc[t].at \in {"idle", "room"} /\ marks \subseteq marks'
  BY DEF Sender, SendRoom, RtmpUSBMgmtKickOut, RtmpUSBNullFrameKickOut, RtmpUSBDataKickOut,
         MayStart, At, urbs
<1>3. UNCHANGED <<Reset, bulkResetPipeid, CmdQ>>
  BY DEF Sender, SendRoom, RtmpUSBMgmtKickOut, RtmpUSBNullFrameKickOut, RtmpUSBDataKickOut, resets, urbs
<1>4. \E a, n, u : Moves(t, a, n, u)
  BY <1>1, GoMoves
  DEF Sender, SendRoom, RtmpUSBMgmtKickOut, RtmpUSBNullFrameKickOut, RtmpUSBDataKickOut, urbs
<1>5. \A u : Follows(t, u)
  BY <1>1, <1>2 DEF Follows
<1> QED
  BY <1>1, <1>2, <1>3, <1>4, <1>5, FollowKeeps

LEMMA KickFollows ==
  ASSUME Types, ResetHasHandler, NEW c \in Runners, RTUSBKickBulkOut(c)
  PROVE  ResetHasHandler'
<1>1. pc[c].at \in {"kick", "take", "data", "empty", "null"} /\ marks \subseteq marks'
  BY DEF RTUSBKickBulkOut, KickLook, KickTake, KickUnflagged, KickData, KickEmpty, KickNull, At, urbs
<1>2. UNCHANGED <<Reset, bulkResetPipeid, CmdQ>>
  BY DEF RTUSBKickBulkOut, KickLook, KickTake, KickUnflagged, KickData, KickEmpty, KickNull, resets, urbs
<1>3. (\E a, n : Go(c, a, n)) \/ Returns(c)
  <2>1. \A p : AfterPipe(c, p) => (\E a, n : Go(c, a, n)) \/ Returns(c)
    BY DEF AfterPipe
  <2> QED
    BY <2>1 DEF RTUSBKickBulkOut, KickLook, KickTake, KickUnflagged, KickData, KickEmpty, KickNull, urbs
<1>4. \E a, n, t : Moves(c, a, n, t) /\ (pc[c].then = "again" => t = "again")
  BY <1>3, GoMoves DEF Returns
<1> QED
  BY <1>1, <1>2, <1>4, FollowKeeps DEF Follows

\* A completion either finds the adapter as it was and goes on, or starts a reset.
LEMMA ReleasedIs ==
  ASSUME Types, NEW x \in TxContexts, Released(x)
  PROVE  /\ marks \subseteq marks'
         /\ \/ At(TaskletOf(x), "failed")
            \/ At(TaskletOf(x), "idle") /\ UNCHANGED <<Reset, bulkResetPipeid>>
         /\ At(TaskletOf(x), "failed") =>
              bulkResetPipeid' = IF x[1] = "data" THEN SentOn(x) ELSE BULKOUT_MGMT_RESET_FLAG
<1>1. CASE At(TaskletOf(x), "failed")
  <2>1. ~MayStart(TaskletOf(x))
    BY <1>1 DEF MayStart, At
  <2> QED
    BY <1>1, <2>1 DEF Released
<1>2. CASE ~At(TaskletOf(x), "failed")
  BY <1>2 DEF Released, MayStart
<1> QED
  BY <1>1, <1>2

LEMMA IdleFollows ==
  ASSUME Types, ResetHasHandler, NEW c \in Runners, NEW a, NEW n, NEW t, Moves(c, a, n, t),
         At(c, "idle"), t = pc[c].then \/ \A p \in Pipes : c # DataTasklet(p),
         marks \subseteq marks', UNCHANGED <<Reset, bulkResetPipeid, CmdQ>>
  PROVE  ResetHasHandler'
<1>1. Follows(c, t)
  BY DEF Follows, At
<1> QED
  BY <1>1, FollowKeeps

LEMMA MgmtDoneHandled ==
  ASSUME Types, ResetHasHandler, NEW i \in Cells, MgmtDone(i)
  PROVE  ResetHasHandler'
<1> DEFINE c == MgmtTasklet
<1>1. c \in Runners /\ Mgmt(i) \in TxContexts /\ TaskletOf(Mgmt(i)) = c
  BY Apart, PipesOf
<1>2. Moves(c, "ring", i, pc[c].then) /\ pc'[c].at = "ring"
  BY <1>1, GoMoves DEF MgmtDone, Moves, Types, PlaceInv
<1>3. Released(Mgmt(i)) /\ UNCHANGED CmdQ
  BY DEF MgmtDone
<1>4. CASE At(c, "failed")
  <2>1. Mgmt(i)[1] # "data"
    BY DEF Mgmt
  <2>2. bulkResetPipeid' = BULKOUT_MGMT_RESET_FLAG
    BY <1>1, <1>3, <1>4, <2>1, ReleasedIs
  <2> QED
    BY <1>2, <2>2 DEF ResetHasHandler, At
<1>5. CASE ~At(c, "failed")
  BY <1>1, <1>2, <1>3, <1>5, ReleasedIs, IdleFollows
<1> QED
  BY <1>4, <1>5

LEMMA NullDoneHandled ==
  ASSUME Types, ResetHasHandler, NullDone
  PROVE  ResetHasHandler'
<1> DEFINE c == NullTasklet
<1>1. c \in Runners /\ Null \in TxContexts /\ TaskletOf(Null) = c
  BY Apart, PipesOf
<1>2. Released(Null) /\ UNCHANGED CmdQ
  BY DEF NullDone
<1>3. CASE At(c, "failed")
  <2>1. pc'[c].at = "after"
    BY <1>1, <1>3 DEF NullDone, Go, Types, PlaceInv, PcRecords
  <2> QED
    BY <2>1 DEF ResetHasHandler, At
<1>4. CASE ~At(c, "failed")
  <2>1. Moves(c, "kick", 0, "idle")
    BY <1>1, <1>4, GoMoves DEF NullDone
  <2> QED
    BY <1>1, <1>2, <1>4, <2>1, ReleasedIs, IdleFollows, TaskletNames
<1> QED
  BY <1>3, <1>4

LEMMA DataDoneHandled ==
  ASSUME Types, ResetHasHandler, NEW p \in Pipes, DataDone(p)
  PROVE  ResetHasHandler'
<1>1. PICK q \in Pipes : TaskletOf(Data(p)) = DataTasklet(q)
  BY SentIs DEF DataDone
<1>2. pc'[DataTasklet(q)].at = "after"
  BY <1>1, Apart DEF DataDone, Go, Types, PlaceInv, PcRecords
<1> QED
  BY <1>2 DEF ResetHasHandler, At

LEMMA EnqueueHandled ==
  ASSUME Types, RTEnqueueInternalCmd
  PROVE  "alloc" \notin marks' => CmdQ' > 0
  BY DEF RTEnqueueInternalCmd, Types, TypeOK

LEMMA TaskletsHandled ==
  ASSUME Types, ResetHasHandler, MgmtRingDone \/ MgmtAfter \/ NullAfter
  PROVE  ResetHasHandler'
<1>1. CASE MgmtRingDone
  <2>1. /\ \A d \in Runners : d # MgmtTasklet => pc'[d] = pc[d]
        /\ pc'[MgmtTasklet].at = "after"
    BY <1>1, Apart DEF MgmtRingDone, Go, Types, PlaceInv, PcRecords, urbs
  <2>2. UNCHANGED <<Reset, bulkResetPipeid, CmdQ, marks>>
    BY <1>1 DEF MgmtRingDone, resets, urbs
  <2>3. /\ pc'[CmdThread] = pc[CmdThread] /\ pc'[NullTasklet] = pc[NullTasklet]
        /\ \A p \in Pipes : pc'[DataTasklet(p)] = pc[DataTasklet(p)]
    BY <2>1, Apart, TaskletNames
  <2> QED
    BY <2>1, <2>2, <2>3 DEF ResetHasHandler, At, urbs
<1>2. CASE MgmtAfter
  <2>1. CASE Reset /\ bulkResetPipeid = BULKOUT_MGMT_RESET_FLAG
    BY <1>2, <2>1, EnqueueHandled DEF MgmtAfter, ResetHasHandler, urbs
  <2>2. CASE ~(Reset /\ bulkResetPipeid = BULKOUT_MGMT_RESET_FLAG)
    <3>1. \A d \in Runners : d # MgmtTasklet => pc'[d] = pc[d]
      BY <1>2, <2>2 DEF MgmtAfter, Kick, Types, PlaceInv, urbs
    <3>2. UNCHANGED <<Reset, bulkResetPipeid, CmdQ, marks>>
      BY <1>2, <2>2 DEF MgmtAfter, urbs
    <3>3. /\ pc'[CmdThread] = pc[CmdThread] /\ pc'[NullTasklet] = pc[NullTasklet]
          /\ \A p \in Pipes : pc'[DataTasklet(p)] = pc[DataTasklet(p)]
      BY <3>1, Apart, TaskletNames
    <3> QED
      BY <2>2, <3>2, <3>3 DEF ResetHasHandler, At
  <2> QED
    BY <2>1, <2>2
<1>3. CASE NullAfter
  BY <1>3, EnqueueHandled DEF NullAfter, ResetHasHandler, urbs
<1> QED
  BY <1>1, <1>2, <1>3

LEMMA DataTaskletHandled ==
  ASSUME Types, ResetHasHandler, NEW p \in Pipes, DataAfter(p) \/ DataAgain(p)
  PROVE  ResetHasHandler'
<1>1. CASE DataAfter(p)
  <2>1. pc'[DataTasklet(p)].then = "again"
    BY <1>1, Apart DEF DataAfter, Kick, Types, PlaceInv, urbs
  <2> QED
    BY <2>1 DEF ResetHasHandler, urbs
<1>2. CASE DataAgain(p) /\ Reset
  BY <1>2, EnqueueHandled DEF DataAgain, ResetHasHandler, urbs
<1>3. CASE DataAgain(p) /\ ~Reset
  BY <1>3 DEF DataAgain, ResetHasHandler, urbs
<1> QED
  BY <1>1, <1>2, <1>3

LEMMA CommandHandled ==
  ASSUME Types, ResetHasHandler, CMDHandler \/ ResetBulkOutHdlr
  PROVE  ResetHasHandler'
<1>1. CASE CMDHandler
  <2>1. pc'[CmdThread].at = "reset"
    BY <1>1, Apart DEF CMDHandler, Go, Types, PlaceInv, PcRecords, urbs
  <2> QED
    BY <2>1 DEF ResetHasHandler, At, urbs
<1>2. CASE ResetMgmt \/ ResetData
  BY <1>2 DEF ResetMgmt, ResetData, ResetHasHandler, urbs
<1>3. CASE ResetReflag \/ ResetResubmit \/ ResetUndo
  <2>1. /\ \E a, n, t : Moves(CmdThread, a, n, t)
        /\ pc[CmdThread].at \in {"reflag", "resubmit", "undo"}
    BY <1>3, Apart, GoMoves DEF ResetReflag, ResetResubmit, ResetUndo, At, urbs
  <2>2. marks \subseteq marks' /\ UNCHANGED <<Reset, bulkResetPipeid, CmdQ>>
    BY <1>3 DEF ResetReflag, ResetResubmit, ResetUndo, resets, urbs
  <2>3. \A t : Follows(CmdThread, t)
    BY <2>1, TaskletNames DEF Follows
  <2> QED
    BY <2>1, <2>2, <2>3, Apart, FollowKeeps
<1> QED
  BY <1>1, <1>2, <1>3 DEF ResetBulkOutHdlr

LEMMA BusHandled ==
  ASSUME Types, ResetHasHandler, NEW x \in TxContexts, UrbDone(x) \/ ErrorSeen(x)
  PROVE  ResetHasHandler'
<1>1. CASE UrbDone(x)
  BY <1>1 DEF UrbDone, resets, ResetHasHandler, At
<1>2. CASE ErrorSeen(x)
  <2>0. TaskletOf(x) \in Runners
    BY <1>2, SentIs DEF ErrorSeen, urbs
  <2>1. PICK n : Moves(TaskletOf(x), "failed", n, pc[TaskletOf(x)].then)
    BY <1>2, <2>0, GoMoves DEF ErrorSeen, urbs
  <2>2. /\ At(TaskletOf(x), "idle") /\ marks \subseteq marks'
        /\ UNCHANGED <<Reset, bulkResetPipeid, CmdQ>>
    BY <1>2 DEF ErrorSeen, MayStart, resets, urbs
  <2> QED
    BY <2>0, <2>1, <2>2, IdleFollows
<1> QED
  BY <1>1, <1>2

LEMMA NextHandled == Types /\ ResetHasHandler /\ [Next]_vars => ResetHasHandler'
<1> SUFFICES ASSUME Types, ResetHasHandler, [Next]_vars PROVE ResetHasHandler'
  OBVIOUS
<1>1. ASSUME NEW t \in Threads, Sender(t) PROVE ResetHasHandler'
  BY <1>1, SenderFollows
<1>2. ASSUME NEW c \in Runners, RTUSBKickBulkOut(c) PROVE ResetHasHandler'
  BY <1>2, KickFollows
<1>3. ASSUME NEW x \in TxContexts, UrbDone(x) PROVE ResetHasHandler'
  BY <1>3, BusHandled
<1>4. CASE Tasklet
  BY <1>4, BusHandled, MgmtDoneHandled, NullDoneHandled, DataDoneHandled, TaskletsHandled,
     DataTaskletHandled DEF Tasklet
<1>5. CASE CMDHandler \/ ResetBulkOutHdlr
  BY <1>5, CommandHandled
<1>6. CASE UNCHANGED vars
  BY <1>6 DEF vars, resets, ResetHasHandler, At, urbs
<1> QED
  BY <1>1, <1>2, <1>3, <1>4, <1>5, <1>6 DEF Next

\* A reset stops all sending until it is carried out: while it is under way, its command
\* is queued, being carried out or about to be queued, for every ring, number of senders and
\* number of failures, unless the allocation of the command failed.
THEOREM ResetsAreHandled == Spec => []ResetHasHandler
<1>1. Init => ResetHasHandler
  BY DEF Init, ResetHasHandler
<1>2. IInv => Types
  BY DEF IInv
<1> QED
  BY <1>1, <1>2, NextHandled, Invariance, PTL DEF Spec

-----------------------------------------------------------------------------
(* A failed batch goes out again before the next. *)

\* Until a submission fails, a failure meets another reset, or a batch is submitted on
\* another pipe, the last batch taken from a pipe went out, is out, or is in the hands of
\* the reset; and the reset will find its pipe free.
Due(p) ==
    \/ delivered[p] = ENextPos[p]
    \/ urb[Data(p)] # "idle"
    \/ At(CmdThread, "resubmit") /\ pc[CmdThread].arg = p
    \/ Reset /\ bulkResetPipeid = p
Undisturbed == marks \cap {"submit", "unreset", "misdirected"} = {}
BatchInv ==
    /\ delivered \in [Pipes -> Nat]
    /\ Undisturbed => \A p \in Pipes : Due(p) /\ (Reset /\ bulkResetPipeid = p => ~Pending[p])

\* The command thread is about to submit the batch of the same pipe, or of none.
SameResubmit ==
    \A p \in Pipes : (At(CmdThread, "resubmit") /\ pc[CmdThread].arg = p)'
                        <=> At(CmdThread, "resubmit") /\ pc[CmdThread].arg = p

LEMMA MovesResubmit ==
  ASSUME Types, NEW c \in Runners, NEW a, NEW n, NEW t, Moves(c, a, n, t),
         pc[c].at # "resubmit", a # "resubmit"
  PROVE  SameResubmit
<1>1. CASE c = CmdThread
  <2>1. pc'[c].at = a
    BY DEF Moves, Types, PlaceInv
  <2> QED
    BY <1>1, <2>1 DEF SameResubmit, At
<1>2. CASE c # CmdThread
  <2>1. pc'[CmdThread] = pc[CmdThread]
    BY <1>2, Apart DEF Moves, Types, PlaceInv
  <2> QED
    BY <2>1 DEF SameResubmit, At
<1> QED
  BY <1>1, <1>2

\* Marks are only added.
Marked == marks \subseteq marks'

LEMMA BatchKept ==
  ASSUME Types, BatchInv, SameTransfers, SameResubmit, Marked,
         UNCHANGED <<delivered, ENextPos, Reset, bulkResetPipeid, Pending>>
  PROVE  BatchInv'
<1>1. \A p \in Pipes : urb'[Data(p)] # "idle" <=> urb[Data(p)] # "idle"
  BY PipesOf DEF SameTransfers
<1>2. \A p \in Pipes : Due(p) => Due(p)'
  BY <1>1 DEF Due, SameResubmit
<1>3. delivered' \in [Pipes -> Nat] /\ (Undisturbed' => Undisturbed)
  BY DEF BatchInv, Marked, Undisturbed
<1> QED
  BY <1>2, <1>3 DEF BatchInv

LEMMA SenderBatch ==
  ASSUME Types, BatchInv, NEW t \in Threads, Sender(t)
  PROVE  BatchInv'
<1>1. t \in Runners
  BY Apart
<1>2. /\ pc[t].at \in {"idle", "room"} /\ Marked
      /\ UNCHANGED <<delivered, ENextPos, Reset, bulkResetPipeid, Pending, urb>>
  BY DEF Sender, SendRoom, RtmpUSBMgmtKickOut, RtmpUSBNullFrameKickOut, RtmpUSBDataKickOut,
         MayStart, At, resets, data, Marked, urbs
<1>3. \E a \in {"room", "kick"} : \E n, u : Moves(t, a, n, u)
  BY <1>1, GoMoves
  DEF Sender, SendRoom, RtmpUSBMgmtKickOut, RtmpUSBNullFrameKickOut, RtmpUSBDataKickOut, urbs
<1>4. SameResubmit
  BY <1>1, <1>2, <1>3, MovesResubmit
<1> QED
  BY <1>2, <1>4, BatchKept DEF SameTransfers

\* A runner within its kick does not come to resubmit.
LEMMA KickResubmit ==
  ASSUME IInv, NEW c \in Runners, RTUSBKickBulkOut(c)
  PROVE  SameResubmit
<1>1. pc[c].at \in {"kick", "take", "data", "empty", "null"}
  BY DEF RTUSBKickBulkOut, KickLook, KickTake, KickUnflagged, KickData, KickEmpty, KickNull, At, urbs
<1>2. \/ \E a \in {"take", "data", "null", "empty"} : \E n : Go(c, a, n)
      \/ Returns(c)
  <2>1. \A p : AfterPipe(c, p) => (\E n : Go(c, "data", n)) \/ Returns(c)
    BY DEF AfterPipe
  <2> QED
    BY <2>1 DEF RTUSBKickBulkOut, KickLook, KickTake, KickUnflagged, KickData, KickEmpty, KickNull, urbs
<1>3. \E a \in {"take", "data", "null", "empty", "again", "idle"} : \E n, t : Moves(c, a, n, t)
  BY <1>2, GoMoves, ReturnsMoves DEF IInv
<1> QED
  BY <1>1, <1>3, MovesResubmit DEF IInv

LEMMA KickMarked ==
  ASSUME NEW c \in Runners, RTUSBKickBulkOut(c)
  PROVE  Marked
  BY DEF RTUSBKickBulkOut, KickLook, KickTake, KickUnflagged, KickData, KickEmpty, KickNull, Marked, Missed,
         Stale, urbs

\* A step that submits or gives up a pipe, while no reset is under way, keeps what is
\* due; so does one that only gives up a pipe.
LEMMA BatchPending ==
  ASSUME Types, BatchInv, SameResubmit, Marked, UNCHANGED <<Reset, bulkResetPipeid>>,
         ~Reset \/ \A p \in Pipes : Pending'[p] => Pending[p],
         delivered' \in [Pipes -> Nat],
         Undisturbed' => \A p \in Pipes :
             \/ urb'[Data(p)] # "idle"
             \/ /\ urb'[Data(p)] = urb[Data(p)]
                /\ delivered'[p] = delivered[p] /\ ENextPos'[p] = ENextPos[p]
  PROVE  BatchInv'
<1>1. Undisturbed' => Undisturbed
  BY DEF Marked, Undisturbed
<1>2. ASSUME Undisturbed', NEW p \in Pipes
      PROVE  Due(p)' /\ (Reset' /\ bulkResetPipeid' = p => ~Pending'[p])
  <2>1. Due(p) /\ (Reset /\ bulkResetPipeid = p => ~Pending[p])
    BY <1>1, <1>2 DEF BatchInv
  <2>2. Due(p)'
    BY <1>2, <2>1 DEF Due, SameResubmit
  <2>3. Reset' /\ bulkResetPipeid' = p => ~Pending'[p]
    BY <2>1
  <2> QED
    BY <2>2, <2>3
<1> QED
  BY <1>1, <1>2 DEF BatchInv

LEMMA KickBatch ==
  ASSUME IInv, BatchInv, NEW c \in Runners, RTUSBKickBulkOut(c)
  PROVE  BatchInv'
<1>1. Types /\ SameResubmit /\ Marked
  BY KickResubmit, KickMarked DEF IInv
<1>2. UNCHANGED <<Reset, bulkResetPipeid, delivered>> /\ delivered' \in [Pipes -> Nat]
  BY DEF RTUSBKickBulkOut, KickLook, KickTake, KickUnflagged, KickData, KickEmpty, KickNull, resets, data, BatchInv, urbs
<1>3. \A p \in Pipes : Data(p) \in TxContexts /\ Data(p) # Null /\ \A i : Data(p) # Mgmt(i)
  BY PipesOf DEF Data, Null, Mgmt
<1>4. CASE KickLook(c)
  BY <1>1, <1>2, <1>4, BatchPending DEF KickLook, data, urbs
<1>9. CASE KickUnflagged(c)
  BY <1>1, <1>2, <1>9, BatchPending DEF KickUnflagged, data, urbs
<1>5. CASE KickTake(c)
  <2>1. PICK i \in Cells : i = pc[c].arg
    BY <1>1, <1>5 DEF Types, PlaceInv, KickTake
  <2>2. UNCHANGED ENextPos
    BY <1>5 DEF KickTake, data
  <2>3. CASE UNCHANGED <<Pending, urb>>
    BY <1>1, <1>2, <2>2, <2>3, BatchPending
  <2>4. CASE PipeFree(MGMTPIPEIDX) /\ Submitted(Mgmt(i))
    <3>1. ~Reset /\ \A p \in Pipes : urb'[Data(p)] = urb[Data(p)]
      BY <1>1, <1>3, <2>4 DEF PipeFree, Submitted, Types, TypeOK
    <3> QED
      BY <1>1, <1>2, <2>2, <3>1, BatchPending
  <2> QED
    BY <1>5, <2>1, <2>3, <2>4 DEF KickTake, Refused
<1>6. CASE KickData(c)
  <2>1. PICK p \in Pipes : p = pc[c].arg
    BY <1>1, <1>6 DEF Types, PlaceInv, KickData, urbs
  <2>2. CASE UNCHANGED <<Pending, urb, ENextPos>>
    BY <1>1, <1>2, <2>2, BatchPending
  <2>3. CASE PipeFree(p) /\ UNCHANGED <<urb, ENextPos>>
    BY <1>1, <1>2, <2>3, BatchPending DEF PipeFree
  <2>4. CASE /\ PipeFree(p) /\ (Submitted(Data(p)) \/ "submit" \in marks')
             /\ \E e \in ENextPos[p] + 1 .. WritePos[p] : ENextPos' = [ENextPos EXCEPT ![p] = e]
    <3>1. ~Reset /\ \A q \in Pipes : q # p => ENextPos'[q] = ENextPos[q]
      <4>1. PICK e \in ENextPos[p] + 1 .. WritePos[p] : ENextPos' = [ENextPos EXCEPT ![p] = e]
        BY <2>4
      <4>2. ~Reset /\ ENextPos \in [Pipes -> Nat]
        BY <1>1, <2>4 DEF PipeFree, Types
      <4> QED
        BY <4>1, <4>2
    <3>2. CASE Submitted(Data(p))
      <4>1. /\ urb'[Data(p)] = "out"
            /\ \A q \in Pipes : q # p => urb'[Data(q)] = urb[Data(q)]
        BY <1>1, <1>3, <3>2 DEF Submitted, Types, TypeOK, Data
      <4> QED
        BY <1>1, <1>2, <3>1, <4>1, BatchPending
    <3>3. CASE "submit" \in marks'
      BY <1>1, <1>2, <3>1, <3>3, BatchPending DEF Undisturbed
    <3> QED
      BY <2>4, <3>2, <3>3
  <2> QED
    BY <1>6, <2>1, <2>2, <2>3, <2>4 DEF KickData, Refused, urbs
<1>7. CASE KickEmpty(c)
  <2>1. UNCHANGED <<urb, ENextPos>> /\ \A p \in Pipes : Pending'[p] => Pending[p]
    BY <1>1, <1>7 DEF KickEmpty, data, Types, TypeOK, urbs
  <2> QED
    BY <1>1, <1>2, <2>1, BatchPending
<1>8. CASE KickNull(c)
  <2>1. UNCHANGED ENextPos
    BY <1>8 DEF KickNull, data
  <2>2. CASE UNCHANGED <<Pending, urb>>
    BY <1>1, <1>2, <2>1, <2>2, BatchPending
  <2>3. CASE PipeFree(MGMTPIPEIDX) /\ Submitted(Null)
    <3>1. ~Reset /\ \A p \in Pipes : urb'[Data(p)] = urb[Data(p)]
      BY <1>1, <1>3, <2>3 DEF PipeFree, Submitted, Types, TypeOK
    <3> QED
      BY <1>1, <1>2, <2>1, <3>1, BatchPending
  <2> QED
    BY <1>8, <2>2, <2>3 DEF KickNull, Refused
<1> QED
  BY <1>4, <1>5, <1>6, <1>7, <1>8, <1>9 DEF RTUSBKickBulkOut

\* Steps that leave pipes, batches and the reset alone.
LEMMA OtherBatch ==
  ASSUME Types, BatchInv, NEW c \in Runners, NEW a, NEW n, NEW t, Moves(c, a, n, t),
         pc[c].at # "resubmit", a # "resubmit", Marked,
         UNCHANGED <<delivered, ENextPos, Reset, bulkResetPipeid, Pending, urb>>
  PROVE  BatchInv'
  BY MovesResubmit, BatchKept DEF SameTransfers

LEMMA BusBatch ==
  ASSUME IInv, SentInv, BatchInv, NEW x \in TxContexts, UrbDone(x) \/ ErrorSeen(x)
  PROVE  BatchInv'
<1>0. Types
  BY DEF IInv
<1>1. CASE UrbDone(x) /\ "misdirected" \notin marks
  <2>1. SameTransfers /\ Marked /\ UNCHANGED pc
    <3>1. PICK status \in {"ok", "error"} : urb' = [urb EXCEPT ![x] = status]
      BY <1>1, UrbDoneKeeps
    <3>2. urb[x] = "out" /\ UNCHANGED <<marks, pc>>
      BY <1>1 DEF UrbDone
    <3> QED
      BY <1>0, <3>1, <3>2 DEF SameTransfers, Marked, Types, TypeOK
  <2>2. UNCHANGED <<delivered, ENextPos, Reset, bulkResetPipeid, Pending>>
    BY <1>1 DEF UrbDone, resets, data
  <2>3. SameResubmit
    BY <2>1 DEF SameResubmit, At
  <2> QED
    BY <1>0, <2>1, <2>2, <2>3, BatchKept
<1>3. CASE UrbDone(x) /\ "misdirected" \in marks
  BY <1>3 DEF UrbDone, BatchInv, Undisturbed, data
<1>2. CASE ErrorSeen(x)
  <2>0. TaskletOf(x) \in Runners
    BY <1>0, <1>2, SentIs DEF ErrorSeen, urbs
  <2>1. PICK n : Moves(TaskletOf(x), "failed", n, pc[TaskletOf(x)].then)
    BY <1>0, <1>2, <2>0, GoMoves DEF ErrorSeen, urbs
  <2>2. pc[TaskletOf(x)].at # "resubmit" /\ TaskletOf(x) \in Runners /\ Marked
    BY <1>2, <2>0 DEF ErrorSeen, MayStart, At, Marked, urbs
  <2>3. UNCHANGED <<delivered, ENextPos, Reset, bulkResetPipeid, Pending, urb>>
    BY <1>2 DEF ErrorSeen, resets, data, urbs
  <2> QED
    BY <1>0, <2>1, <2>2, <2>3, OtherBatch
<1> QED
  BY <1>1, <1>2, <1>3

LEMMA TaskletBatch ==
  ASSUME Types, BatchInv, NEW p \in Pipes,
         MgmtRingDone \/ MgmtAfter \/ NullAfter \/ DataAfter(p) \/ DataAgain(p)
  PROVE  BatchInv'
<1>1. PICK c \in Runners : /\ pc[c].at \in {"ring", "after", "again"}
                           /\ \E a \in {"after", "kick", "idle"} : \E n, t : Moves(c, a, n, t)
  <2>1. CASE MgmtRingDone \/ MgmtAfter
    BY <2>1, Apart, GoMoves DEF MgmtRingDone, MgmtAfter, At, urbs
  <2>2. CASE NullAfter
    BY <2>2, Apart, GoMoves DEF NullAfter, At, urbs
  <2>3. CASE DataAfter(p) \/ DataAgain(p)
    BY <2>3, Apart, GoMoves DEF DataAfter, DataAgain, At, urbs
  <2> QED
    BY <2>1, <2>2, <2>3
<1>2. Marked /\ UNCHANGED <<delivered, ENextPos, Reset, bulkResetPipeid, Pending, urb>>
  BY DEF MgmtRingDone, MgmtAfter, NullAfter, DataAfter, DataAgain, RTEnqueueInternalCmd, resets,
         data, Marked, urbs
<1> QED
  BY <1>1, <1>2, OtherBatch

\* What a completion does to the reset and to the marks.
LEMMA ReleaseMarks ==
  ASSUME Types, NEW x \in TxContexts, Released(x)
  PROVE  /\ Marked
         /\ urb' = [urb EXCEPT ![x] = "idle"] /\ Pending' = [Pending EXCEPT ![SentOn(x)] = FALSE]
         /\ \/ At(TaskletOf(x), "failed") /\ urb[x] = "error" /\ Reset'
               /\ (Reset => "unreset" \in marks')
            \/ /\ At(TaskletOf(x), "idle") /\ UNCHANGED <<Reset, bulkResetPipeid>>
               /\ urb[x] = "error" /\ x[1] = "data" => "unreset" \in marks'
               /\ urb[x] \in {"ok", "error"}
<1>1. CASE At(TaskletOf(x), "failed")
  <2>1. ~MayStart(TaskletOf(x))
    BY <1>1 DEF MayStart, At
  <2>2. /\ urb[x] = "error" /\ Reset' = TRUE
        /\ marks' = marks \cup IF Reset THEN {"unreset"} ELSE {}
    BY <1>1, <2>1 DEF Released
  <2>3. Marked /\ (Reset => "unreset" \in marks')
    BY <2>2 DEF Marked
  <2> QED
    BY <1>1, <2>2, <2>3 DEF Released
<1>2. CASE ~At(TaskletOf(x), "failed")
  <2>1. /\ At(TaskletOf(x), "idle") /\ UNCHANGED <<Reset, bulkResetPipeid>>
        /\ urb[x] \in {"ok", "error"}
        /\ marks' = marks \cup IF urb[x] = "error" /\ x[1] = "data" THEN {"unreset"} ELSE {}
    BY <1>2 DEF Released, MayStart
  <2>2. Marked /\ (urb[x] = "error" /\ x[1] = "data" => "unreset" \in marks')
    BY <2>1 DEF Marked
  <2> QED
    BY <2>1, <2>2 DEF Released
<1> QED
  BY <1>1, <1>2

LEMMA CompletionBatch ==
  ASSUME Types, BatchInv, NEW x \in TxContexts, Released(x), x[1] # "data",
         TaskletOf(x) \in Runners, NEW a, NEW n, NEW t, Moves(TaskletOf(x), a, n, t), a # "resubmit",
         UNCHANGED <<delivered, ENextPos>>
  PROVE  BatchInv'
<1>1. \A p \in Pipes : Data(p) \in TxContexts /\ urb'[Data(p)] = urb[Data(p)]
  <2>1. \A p \in Pipes : Data(p) \in TxContexts /\ Data(p) # x
    <3>1. \A p : Data(p)[1] = "data"
      BY DEF Data
    <3> QED
      BY <3>1, PipesOf
  <2>2. urb' = [urb EXCEPT ![x] = "idle"] /\ urb \in [TxContexts -> {"idle", "out", "ok", "error"}]
    BY ReleaseMarks DEF Types, TypeOK
  <2> QED
    BY <2>1, <2>2
<1>2. Marked /\ pc[TaskletOf(x)].at # "resubmit" /\ \A p \in Pipes : Pending'[p] => Pending[p]
  BY ReleaseMarks, <1>1 DEF At, Types, TypeOK
<1>3. SameResubmit
  BY <1>1, <1>2, MovesResubmit
<1>4. CASE UNCHANGED <<Reset, bulkResetPipeid>>
  BY <1>1, <1>2, <1>3, <1>4, BatchPending DEF BatchInv
<1>5. CASE "unreset" \in marks'
  BY <1>2, <1>5 DEF BatchInv, Marked, Undisturbed
<1>6. CASE At(TaskletOf(x), "failed") /\ ~Reset
  <2>1. bulkResetPipeid' = BULKOUT_MGMT_RESET_FLAG
    BY <1>6, ReleasedIs
  <2>2. \A p \in Pipes : bulkResetPipeid' # p
    BY <2>1 DEF Pipes, BULKOUT_MGMT_RESET_FLAG
  <2>3. \A p \in Pipes : Due(p) => Due(p)'
    BY <1>1, <1>3, <1>6 DEF Due, SameResubmit
  <2>4. delivered' \in [Pipes -> Nat] /\ (Undisturbed' => Undisturbed)
    BY <1>2 DEF BatchInv, Marked, Undisturbed
  <2> QED
    BY <2>2, <2>3, <2>4 DEF BatchInv
<1> QED
  BY <1>4, <1>5, <1>6, ReleaseMarks

LEMMA DataDoneBatch ==
  ASSUME IInv, SentInv, BatchInv, NEW p \in Pipes, DataDone(p)
  PROVE  BatchInv'
<1> DEFINE c == DataTasklet(p)
<1>0. CASE "misdirected" \in marks
  <2>1. delivered' \in [Pipes -> Nat]
    BY DEF DataDone, BatchInv, IInv, Types, TypeOK
  <2>2. "misdirected" \in marks'
    BY <1>0 DEF DataDone, Released
  <2> QED
    BY <2>1, <2>2 DEF BatchInv, Undisturbed
<1> SUFFICES ASSUME "misdirected" \notin marks PROVE BatchInv'
  BY <1>0
<1>1. /\ c \in Runners /\ Data(p) \in TxContexts /\ TaskletOf(Data(p)) = c /\ Types
      /\ SentOn(Data(p)) = p /\ \A q \in Pipes : Data(q) \in TxContexts
  BY Apart, PipesOf, Straight DEF IInv
<1>2. Moves(c, "after", p, pc[c].then) /\ Released(Data(p)) /\ ENextPos' = ENextPos
  BY <1>1, GoMoves DEF DataDone
<1>3. Marked /\ Pending' = [Pending EXCEPT ![p] = FALSE] /\ pc[c].at # "resubmit"
  BY <1>1, <1>2, ReleaseMarks DEF At
<1>4. SameResubmit
  BY <1>1, <1>2, <1>3, MovesResubmit
<1>5. /\ delivered' \in [Pipes -> Nat] /\ \A q \in Pipes : q # p => delivered'[q] = delivered[q]
      /\ urb[Data(p)] = "ok" => delivered'[p] = ENextPos[p]
  BY <1>1 DEF DataDone, BatchInv, Types, TypeOK
<1>6. \A q \in Pipes : q # p => urb'[Data(q)] = urb[Data(q)]
  BY <1>1, <1>2, ReleaseMarks DEF Types, TypeOK, Data
<1>7. Undisturbed' => Undisturbed
  BY <1>3 DEF Marked, Undisturbed
<1>8. CASE "unreset" \in marks'
  BY <1>5, <1>7, <1>8 DEF BatchInv, Undisturbed
<1>9. CASE UNCHANGED <<Reset, bulkResetPipeid>> /\ urb[Data(p)] = "ok"
  <2>1. ASSUME Undisturbed', NEW q \in Pipes
        PROVE  Due(q)' /\ (Reset' /\ bulkResetPipeid' = q => ~Pending'[q])
    <3>1. Due(q) /\ (Reset /\ bulkResetPipeid = q => ~Pending[q])
      BY <1>7, <2>1 DEF BatchInv
    <3>2. CASE q = p
      BY <1>1, <1>2, <1>3, <1>5, <1>9, <3>2 DEF Due, Types, TypeOK
    <3>3. CASE q # p
      BY <1>1, <1>2, <1>3, <1>4, <1>5, <1>6, <1>9, <3>1, <3>3 DEF Due, SameResubmit, Types, TypeOK
    <3> QED
      BY <3>2, <3>3
  <2> QED
    BY <1>5, <1>7, <2>1 DEF BatchInv
<1>10. CASE At(c, "failed") /\ ~Reset
  <2>1. Reset' /\ bulkResetPipeid' = p
    <3>1. Data(p)[1] = "data"
      BY DEF Data
    <3> QED
      BY <1>1, <1>2, <1>10, <3>1, ReleasedIs, ReleaseMarks DEF At
  <2>2. ASSUME Undisturbed', NEW q \in Pipes
        PROVE  Due(q)' /\ (Reset' /\ bulkResetPipeid' = q => ~Pending'[q])
    <3>1. Due(q)
      BY <1>7, <2>2 DEF BatchInv
    <3>2. CASE q = p
      BY <1>1, <1>3, <2>1, <3>2 DEF Due, Types, TypeOK
    <3>3. CASE q # p
      BY <1>2, <1>4, <1>5, <1>6, <1>10, <2>1, <3>1, <3>3 DEF Due, SameResubmit
    <3> QED
      BY <3>2, <3>3
  <2> QED
    BY <1>5, <1>7, <2>2 DEF BatchInv
<1>11. Data(p)[1] = "data"
  BY DEF Data
<1> QED
  BY <1>1, <1>2, <1>8, <1>9, <1>10, <1>11, ReleaseMarks

\* ResetResubmit submits on the pipe that ResetData marked pending, which no reset can
\* find free.
LEMMA ResubmitBatch ==
  ASSUME IInv, BatchInv, ResetResubmit
  PROVE  BatchInv'
<1> DEFINE c == CmdThread
<1>1. Types /\ c \in Runners /\ At(c, "resubmit")
  BY Apart DEF IInv, ResetResubmit
<1>2. PICK p \in Pipes : p = pc[c].arg
  BY <1>1 DEF Types, PlaceInv
<1>3. UNCHANGED <<Reset, bulkResetPipeid, delivered, ENextPos, Pending>> /\ marks \subseteq marks'
  BY DEF ResetResubmit, resets, data
<1>4. CASE ~Undisturbed'
  BY <1>3, <1>4 DEF BatchInv
<1>5. CASE Undisturbed'
  <2>1. \A q \in Pipes : Data(q) \in TxContexts /\ (q # p => Data(q) # Data(p))
    BY PipesOf DEF Data
  <2>2. urb' = [urb EXCEPT ![Data(p)] = "out"] /\ Undisturbed
    BY <1>2, <1>5 DEF ResetResubmit, Undisturbed
  <2>3. urb'[Data(p)] = "out" /\ \A q \in Pipes : q # p => urb'[Data(q)] = urb[Data(q)]
    BY <1>1, <2>1, <2>2 DEF Types, TypeOK
  <2>4. ASSUME NEW q \in Pipes
        PROVE  Due(q)' /\ (Reset' /\ bulkResetPipeid' = q => ~Pending'[q])
    <3>1. Due(q) /\ (Reset /\ bulkResetPipeid = q => ~Pending[q])
      BY <2>2 DEF BatchInv
    <3>2. CASE q = p
      BY <1>3, <2>3, <3>1, <3>2 DEF Due
    <3>3. CASE q # p
      BY <1>2, <1>3, <2>3, <3>1, <3>3 DEF Due, At
    <3> QED
      BY <3>2, <3>3
  <2> QED
    BY <1>3, <2>4 DEF BatchInv
<1> QED
  BY <1>4, <1>5

LEMMA UndoBatch ==
  ASSUME IInv, BatchInv, ResetUndo
  PROVE  BatchInv'
<1>1. Types /\ CmdThread \in Runners
  BY Apart DEF IInv
<1>2. /\ UNCHANGED <<Reset, bulkResetPipeid, delivered, ENextPos, urb>> /\ Marked
      /\ \A p \in Pipes : Pending'[p] => Pending[p]
  BY DEF ResetUndo, resets, data, Marked, urbs
<1>3. SameResubmit
  <2>1. Moves(CmdThread, "kick", 0, "idle") /\ pc[CmdThread].at # "resubmit"
    BY <1>1, GoMoves DEF ResetUndo, At, urbs
  <2> QED
    BY <1>1, <2>1, MovesResubmit
<1> QED
  BY <1>1, <1>2, <1>3, BatchPending DEF BatchInv

LEMMA CommandBatch ==
  ASSUME IInv, BatchInv, CMDHandler \/ ResetMgmt \/ ResetData \/ ResetReflag
  PROVE  BatchInv'
<1> DEFINE c == CmdThread
<1>1. Types /\ c \in Runners /\ pc[c].at # "resubmit"
  BY Apart DEF IInv, CMDHandler, ResetMgmt, ResetData, ResetReflag, At, urbs
<1>2. UNCHANGED <<marks, urb, delivered, ENextPos, bulkResetPipeid>> /\ Marked
  BY DEF CMDHandler, ResetMgmt, ResetData, ResetReflag, resets, data, Marked, urbs
<1>3. Undisturbed' => Undisturbed
  BY <1>2 DEF Undisturbed
<1>4. CASE CMDHandler
  <2>1. Moves(c, "reset", 0, pc[c].then)
    BY <1>1, <1>4, GoMoves DEF CMDHandler, urbs
  <2>2. UNCHANGED <<Reset, Pending>>
    BY <1>4 DEF CMDHandler, urbs
  <2> QED
    BY <1>1, <1>2, <2>1, <2>2, OtherBatch
<1>5. CASE ResetReflag
  <2>1. Moves(c, "kick", 0, "idle")
    BY <1>1, <1>5, GoMoves DEF ResetReflag, urbs
  <2>2. UNCHANGED <<Reset, Pending>>
    BY <1>5 DEF ResetReflag, resets, urbs
  <2> QED
    BY <1>1, <1>2, <2>1, <2>2, OtherBatch
<1>6. CASE ResetMgmt
  <2>1. \A q \in Pipes : bulkResetPipeid # q /\ ~Reset'
    BY <1>6 DEF ResetMgmt, Pipes, BULKOUT_MGMT_RESET_FLAG, urbs
  <2>2. \A q \in Pipes : Due(q) => Due(q)'
    BY <1>1, <1>2, <2>1 DEF Due, At
  <2> QED
    BY <1>2, <1>3, <2>1, <2>2 DEF BatchInv, urbs
<1>7. CASE ResetData
  <2>1. PICK p \in Pipes : p = bulkResetPipeid
    BY <1>1, <1>7 DEF Types, TypeOK, ResetData, urbs
  <2>2. ~Reset'
    BY <1>7 DEF ResetData, urbs
  <2>3. ASSUME Undisturbed', NEW q \in Pipes
        PROVE  Due(q)'
    <3>1. Due(q) /\ (Reset /\ bulkResetPipeid = q => ~Pending[q])
      BY <1>3, <2>3 DEF BatchInv
    <3>2. CASE Reset /\ bulkResetPipeid = q
      <4>1. pc'[c].at = "resubmit" /\ pc'[c].arg = q
        BY <1>1, <1>7, <3>1, <3>2 DEF ResetData, Go, Types, PlaceInv, PcRecords, urbs
      <4> QED
        BY <4>1 DEF Due, At
    <3>3. CASE ~(Reset /\ bulkResetPipeid = q)
      BY <1>1, <1>2, <3>1, <3>3 DEF Due, At
    <3> QED
      BY <3>2, <3>3
  <2> QED
    BY <1>2, <2>2, <2>3 DEF BatchInv, urbs
<1> QED
  BY <1>4, <1>5, <1>6, <1>7

LEMMA NextBatch == IInv /\ SentInv /\ BatchInv /\ [Next]_vars => BatchInv'
<1> SUFFICES ASSUME IInv, SentInv, BatchInv, [Next]_vars PROVE BatchInv'
  OBVIOUS
<1> USE DEF IInv
<1>1. ASSUME NEW t \in Threads, Sender(t) PROVE BatchInv'
  BY <1>1, SenderBatch
<1>2. ASSUME NEW c \in Runners, RTUSBKickBulkOut(c) PROVE BatchInv'
  BY <1>2, KickBatch
<1>3. ASSUME NEW x \in TxContexts, UrbDone(x) PROVE BatchInv'
  BY <1>3, BusBatch
<1>4. CASE Tasklet
  <2>1. ASSUME NEW i \in Cells, MgmtDone(i) PROVE BatchInv'
    <3>1. /\ Mgmt(i) \in TxContexts /\ TaskletOf(Mgmt(i)) = MgmtTasklet /\ MgmtTasklet \in Runners
          /\ Mgmt(i)[1] # "data"
      BY PipesOf, Apart DEF Mgmt
    <3>2. /\ Moves(MgmtTasklet, "ring", i, pc[MgmtTasklet].then) /\ Released(Mgmt(i))
          /\ UNCHANGED <<delivered, ENextPos>>
      BY <2>1, <3>1, GoMoves DEF MgmtDone, data
    <3> QED
      BY <3>1, <3>2, CompletionBatch
  <2>2. ASSUME NullDone PROVE BatchInv'
    <3>1. /\ Null \in TxContexts /\ TaskletOf(Null) = NullTasklet /\ NullTasklet \in Runners
          /\ Null[1] # "data"
      BY PipesOf, Apart DEF Null
    <3>2. PICK a \in {"after", "kick"} : \E t : Moves(NullTasklet, a, 0, t)
      BY <2>2, <3>1, GoMoves DEF NullDone
    <3>3. Released(Null) /\ UNCHANGED <<delivered, ENextPos>>
      BY <2>2 DEF NullDone, data
    <3> QED
      BY <3>1, <3>2, <3>3, CompletionBatch
  <2>3. 0 \in Pipes
    BY DEF Pipes
  <2> QED
    BY <1>4, <2>1, <2>2, <2>3, BusBatch, TaskletBatch, DataDoneBatch DEF Tasklet
<1>5. CASE CMDHandler \/ ResetBulkOutHdlr
  BY <1>5, CommandBatch, ResubmitBatch, UndoBatch DEF ResetBulkOutHdlr
<1>6. CASE UNCHANGED vars
  <2>1. SameTransfers /\ SameResubmit /\ Marked
    BY <1>6 DEF vars, SameTransfers, SameResubmit, Marked, At, urbs
  <2>2. UNCHANGED <<delivered, ENextPos, Reset, bulkResetPipeid, Pending>>
    BY <1>6 DEF vars, resets, data, urbs
  <2> QED
    BY <2>1, <2>2, BatchKept
<1> QED
  BY <1>1, <1>2, <1>3, <1>4, <1>5, <1>6 DEF Next

\* Only a kick takes frames, from a pipe that nobody claims.
LEMMA TakeAfterDelivery ==
  ASSUME IInv, BatchInv, [Next]_vars, NEW p \in Pipes, ENextPos'[p] # ENextPos[p]
  PROVE  delivered[p] = ENextPos[p] \/ marks \cap {"submit", "unreset", "misdirected"} # {}
<1>1. PICK c \in Runners : KickData(c)
  BY DEF Next, Sender, SendRoom, RtmpUSBMgmtKickOut, RtmpUSBNullFrameKickOut, RtmpUSBDataKickOut,
         RTUSBKickBulkOut, KickLook, KickTake, KickUnflagged, KickEmpty, KickNull, UrbDone, Tasklet, ErrorSeen,
         MgmtDone, MgmtRingDone, MgmtAfter, NullDone, NullAfter, DataDone, DataAfter, DataAgain,
         CMDHandler, ResetBulkOutHdlr, ResetMgmt, ResetData, ResetReflag, ResetResubmit, ResetUndo, vars, data, urbs
<1>2. p = pc[c].arg /\ PipeFree(p)
  <2>1. ENextPos \in [Pipes -> Nat] /\ pc[c].arg \in Pipes
    BY <1>1 DEF IInv, Types, PlaceInv, KickData, urbs
  <2> QED
    BY <1>1, <2>1 DEF KickData, urbs
<1>3. SUFFICES ASSUME Undisturbed PROVE delivered[p] = ENextPos[p]
  BY DEF Undisturbed
<1>4. Claims(p) = {} /\ ~Reset
  BY <1>2, <1>3, Sole DEF PipeFree, BatchInv, Undisturbed
<1>5. urb[Data(p)] = "idle" /\ ~(At(CmdThread, "resubmit") /\ pc[CmdThread].arg = p)
  BY <1>4, PipesOf DEF Claims
<1> QED
  BY <1>3, <1>4, <1>5 DEF BatchInv, Due

\* A batch is taken only when the one before it went out, for every ring, number of senders
\* and number of failures, unless a submission failed, a failure met another reset, or a
\* batch was submitted on another pipe than its own.
THEOREM BatchesStayInOrder == Spec => BatchesInOrder
<1>1. Init => BatchInv
  BY DEF Init, BatchInv, Due, Undisturbed
<1>2. IInv /\ BatchInv /\ [Next]_vars =>
          [\A p \in Pipes : ENextPos'[p] # ENextPos[p] =>
               \/ delivered[p] = ENextPos[p]
               \/ marks \cap {"submit", "unreset", "misdirected"} # {}]_vars
  BY TakeAfterDelivery
<1> QED
  BY <1>1, <1>2, NextBatch, Invariance, PTL DEF Spec, BatchesInOrder
-----------------------------------------------------------------------------
(* The management ring. *)

\* How far cell i is behind cell d.
Away(d, i) == IF d <= i THEN i - d ELSE i - d + MGMT_RING_SIZE

\* With n cells free, those in use are the ones from d on, up to cpu.
RingIs(n, d, cpu, use) ==
    /\ n <= MGMT_RING_SIZE
    /\ Cardinality(use) = MGMT_RING_SIZE - n
    /\ use = {i \in Cells : Away(d, i) < MGMT_RING_SIZE - n}
    /\ IF n = 0 THEN cpu = d ELSE Away(d, cpu) = MGMT_RING_SIZE - n

\* A cell whose transfer is on its way, or over and not yet accounted for.
OnItsWay(i) == i = TxDmaIdx /\ i \in InUse \ bWaiting

RingInv == marks \cap {"stale", "overrun"} = {} =>
    /\ RingIs(TxSwFreeIdx, TxDmaIdx, TxCpuIdx, InUse)
    /\ bWaiting \subseteq InUse
    /\ \A i \in Cells : urb[Mgmt(i)] # "idle" => OnItsWay(i) /\ ~At(MgmtTasklet, "ring")
    /\ At(MgmtTasklet, "ring") => OnItsWay(pc[MgmtTasklet].arg)

LEMMA CellsFinite ==
  /\ IsFiniteSet(Cells) /\ MGMT_RING_SIZE \in Nat \ {0}
  /\ Wrapped \in Nat /\ MGMT_RING_SIZE < Wrapped
<1>1. MGMT_RING_SIZE \in Nat \ {0} /\ Wrapped \in Nat /\ MGMT_RING_SIZE < Wrapped
  BY BulkOutAssumption
<1> QED
  BY <1>1, FS_Interval DEF Cells

\* One turn of the ring.
LEMMA OneTurn ==
  ASSUME NEW m \in Nat \ {0}, NEW a \in 0 .. 2 * m - 1
  PROVE  a % m = IF a < m THEN a ELSE a - m
<1>1. ASSUME NEW b \in 0 .. m - 1 PROVE b % m = b /\ (b + m) % m = b
  <2>1. b % m = b
    OBVIOUS
  <2>2. (b + m) % m = b
    OBVIOUS
  <2> QED
    BY <2>1, <2>2
<1>2. CASE a < m
  BY <1>1, <1>2
<1>3. CASE a >= m
  <2>1. PICK b \in 0 .. m - 1 : a = b + m
    <3>1. a - m \in 0 .. m - 1 /\ a = (a - m) + m
      BY <1>3
    <3> QED
      BY <3>1
  <2>2. a % m = b /\ ~(a < m) /\ b = a - m
    BY <1>1, <2>1
  <2> QED
    BY <2>2
<1> QED
  BY <1>2, <1>3

LEMMA NextCellIs ==
  \A i \in Cells : INC_RING_INDEX(i) = IF i = MGMT_RING_SIZE - 1 THEN 0 ELSE i + 1
<1> SUFFICES ASSUME NEW i \in Cells PROVE INC_RING_INDEX(i) = IF i = MGMT_RING_SIZE - 1 THEN 0 ELSE i + 1
  OBVIOUS
<1>1. PICK a \in 0 .. 2 * MGMT_RING_SIZE - 1 : a = i + 1
  <2>1. i + 1 \in 0 .. 2 * MGMT_RING_SIZE - 1
    BY CellsFinite DEF Cells
  <2> QED
    BY <2>1
<1>2. PICK r : r = a % MGMT_RING_SIZE
  OBVIOUS
<1>3. r = IF a < MGMT_RING_SIZE THEN a ELSE a - MGMT_RING_SIZE
  BY <1>2, CellsFinite, OneTurn
<1>4. INC_RING_INDEX(i) = r
  BY <1>1, <1>2, Zenon DEF INC_RING_INDEX
<1> HIDE DEF INC_RING_INDEX
<1>5. i \in Int /\ i <= MGMT_RING_SIZE - 1 /\ MGMT_RING_SIZE \in Int
  BY CellsFinite DEF Cells
<1>6. r = IF i = MGMT_RING_SIZE - 1 THEN 0 ELSE i + 1
  BY <1>1, <1>3, <1>5
<1> QED
  BY <1>4, <1>6, Zenon

LEMMA FreeMoreIs ==
  \A n \in Nat : n < MGMT_RING_SIZE => FreeMore(n) = n + 1
<1> SUFFICES ASSUME NEW n \in Nat, n < MGMT_RING_SIZE PROVE FreeMore(n) = n + 1
  OBVIOUS
<1>1. n + 1 \in 0 .. 2 * Wrapped - 1 /\ n + 1 < Wrapped /\ Wrapped \in Nat \ {0}
  BY CellsFinite
<1> QED
  BY <1>1, OneTurn DEF FreeMore

\* The taken cells as RingAccounts lists them.
LEMMA CellsListed ==
  ASSUME TypeOK, NEW n \in Int, n <= MGMT_RING_SIZE
  PROVE  {i \in Cells : Away(TxDmaIdx, i) < n} = {(TxDmaIdx + k) % MGMT_RING_SIZE : k \in 0 .. n - 1}
<1> DEFINE m == MGMT_RING_SIZE
           d == TxDmaIdx
<1>1. m \in Nat \ {0} /\ Cells = 0 .. m - 1 /\ d \in 0 .. m - 1
  BY CellsFinite DEF TypeOK, Cells
<1>2. \A i \in Cells : Away(d, i) = IF d <= i THEN i - d ELSE i - d + m
  BY DEF Away
<1> HIDE DEF m, d
<1>3. \A k \in 0 .. m - 1 : (d + k) % m = IF d + k < m THEN d + k ELSE d + k - m
  <2> SUFFICES ASSUME NEW k \in 0 .. m - 1 PROVE (d + k) % m = IF d + k < m THEN d + k ELSE d + k - m
    OBVIOUS
  <2>1. PICK a \in 0 .. 2 * m - 1 : a = d + k
    <3>1. d + k \in 0 .. 2 * m - 1
      BY <1>1
    <3> QED
      BY <3>1
  <2>2. PICK r : r = a % m
    OBVIOUS
  <2>3. r = IF a < m THEN a ELSE a - m
    BY <1>1, <2>2, OneTurn
  <2>4. (d + k) % m = r
    BY <2>1, <2>2, Zenon
  <2>5. CASE d + k < m
    <3>1. r = d + k
      BY <2>1, <2>3, <2>5
    <3> QED
      BY <2>4, <2>5, <3>1, Zenon
  <2>6. CASE ~(d + k < m)
    <3>1. r = d + k - m
      BY <1>1, <2>1, <2>3, <2>6
    <3> QED
      BY <2>4, <2>6, <3>1, Zenon
  <2> QED
    BY <2>5, <2>6, Zenon
<1>4. ASSUME NEW i \in Cells, Away(d, i) < n PROVE \E k \in 0 .. n - 1 : i = (d + k) % m
  <2>1. PICK k : k = Away(d, i)
    OBVIOUS
  <2>2. k \in 0 .. n - 1 /\ k \in 0 .. m - 1 /\ i = IF d + k < m THEN d + k ELSE d + k - m
    BY <1>1, <1>2, <1>4, <2>1
  <2>3. (d + k) % m = i
    BY <1>3, <2>2
  <2> QED
    BY <2>2, <2>3
<1>5. ASSUME NEW k \in 0 .. n - 1 PROVE (d + k) % m \in Cells /\ Away(d, (d + k) % m) < n
  <2>1. k \in 0 .. m - 1
    BY <1>1 DEF m
  <2>2. PICK i : i = IF d + k < m THEN d + k ELSE d + k - m
    OBVIOUS
  <2>3. i \in Cells /\ (IF d <= i THEN i - d ELSE i - d + m) < n
    BY <1>1, <2>1, <2>2
  <2> QED
    BY <1>2, <1>3, <2>1, <2>2, <2>3
<1>6. {i \in Cells : Away(d, i) < n} = {(d + k) % m : k \in 0 .. n - 1}
  BY <1>4, <1>5
<1> QED
  BY <1>6 DEF m, d

LEMMA RingAccounted == TypeOK /\ RingInv => RingAccounts
<1> SUFFICES ASSUME TypeOK, RingInv, marks \cap {"stale", "overrun"} = {}
             PROVE  /\ bWaiting \subseteq InUse
                    /\ TxSwFreeIdx + Cardinality(InUse) = MGMT_RING_SIZE
                    /\ InUse = {(TxDmaIdx + k) % MGMT_RING_SIZE : k \in 0 .. Cardinality(InUse) - 1}
  BY DEF RingAccounts
<1>1. TxSwFreeIdx \in Nat /\ MGMT_RING_SIZE \in Nat
  BY CellsFinite DEF TypeOK
<1>2. PICK n \in Int : n = MGMT_RING_SIZE - TxSwFreeIdx
  BY <1>1
<1>3. /\ bWaiting \subseteq InUse /\ Cardinality(InUse) = n
      /\ InUse = {i \in Cells : Away(TxDmaIdx, i) < n}
  BY <1>2 DEF RingInv, RingIs
<1>4. n <= MGMT_RING_SIZE /\ TxSwFreeIdx + n = MGMT_RING_SIZE
  BY <1>1, <1>2
<1>5. InUse = {(TxDmaIdx + k) % MGMT_RING_SIZE : k \in 0 .. n - 1}
  BY <1>3, <1>4, CellsListed
<1> QED
  BY <1>3, <1>4, <1>5

\* Distances from a cell.
LEMMA AwayIs ==
  ASSUME NEW d \in Cells
  PROVE  /\ \A i \in Cells : Away(d, i) \in 0 .. MGMT_RING_SIZE - 1
         /\ \A i, j \in Cells : Away(d, i) = Away(d, j) => i = j
         /\ Away(d, d) = 0
         /\ INC_RING_INDEX(d) \in Cells
         /\ \A i \in Cells : Away(d, INC_RING_INDEX(i)) =
                               IF Away(d, i) = MGMT_RING_SIZE - 1 THEN 0 ELSE Away(d, i) + 1
         /\ \A i \in Cells : Away(INC_RING_INDEX(d), i) =
                               IF Away(d, i) = 0 THEN MGMT_RING_SIZE - 1 ELSE Away(d, i) - 1
<1>1. PICK m \in Nat \ {0} : m = MGMT_RING_SIZE /\ Cells = 0 .. m - 1
  BY CellsFinite DEF Cells
<1>2. \A i \in Cells : INC_RING_INDEX(i) = (IF i = m - 1 THEN 0 ELSE i + 1) /\ INC_RING_INDEX(i) \in Cells
  BY <1>1, NextCellIs
<1>3. \A e, i \in Cells : Away(e, i) = IF e <= i THEN i - e ELSE i - e + m
  BY <1>1 DEF Away
<1>4. \A e, i \in Cells : e \in Int /\ i \in Int /\ 0 <= e /\ 0 <= i /\ e <= m - 1 /\ i <= m - 1
  BY <1>1
<1>5. \A i \in Cells : Away(d, i) \in 0 .. m - 1 /\ Away(d, d) = 0
  BY <1>3, <1>4
<1>6. ASSUME NEW i \in Cells, NEW j \in Cells, Away(d, i) = Away(d, j) PROVE i = j
  BY <1>3, <1>4, <1>6
<1>7. ASSUME NEW i \in Cells
      PROVE  Away(d, INC_RING_INDEX(i)) = IF Away(d, i) = m - 1 THEN 0 ELSE Away(d, i) + 1
  <2>1. PICK j \in Cells : j = INC_RING_INDEX(i) /\ j = (IF i = m - 1 THEN 0 ELSE i + 1)
    BY <1>2
  <2>2. PICK x, y : x = Away(d, i) /\ y = Away(d, j)
    OBVIOUS
  <2>3. /\ x = (IF d <= i THEN i - d ELSE i - d + m) /\ y = (IF d <= j THEN j - d ELSE j - d + m)
        /\ d \in 0 .. m - 1 /\ i \in 0 .. m - 1
    BY <1>1, <1>3, <2>2
  <2>4. y = IF x = m - 1 THEN 0 ELSE x + 1
    <3>1. CASE i = m - 1
      BY <2>1, <2>3, <3>1
    <3>2. CASE i # m - 1
      BY <2>1, <2>3, <3>2
    <3> QED
      BY <3>1, <3>2
  <2> QED
    BY <2>1, <2>2, <2>4, Zenon
<1>8. ASSUME NEW i \in Cells
      PROVE  Away(INC_RING_INDEX(d), i) = IF Away(d, i) = 0 THEN m - 1 ELSE Away(d, i) - 1
  <2>1. PICK e \in Cells : e = INC_RING_INDEX(d) /\ e = (IF d = m - 1 THEN 0 ELSE d + 1)
    BY <1>2
  <2>2. PICK x, y : x = Away(d, i) /\ y = Away(e, i)
    OBVIOUS
  <2>3. /\ x = (IF d <= i THEN i - d ELSE i - d + m) /\ y = (IF e <= i THEN i - e ELSE i - e + m)
        /\ d \in 0 .. m - 1 /\ i \in 0 .. m - 1
    BY <1>1, <1>3, <2>2
  <2>4. y = IF x = 0 THEN m - 1 ELSE x - 1
    <3>1. CASE d = m - 1
      BY <2>1, <2>3, <3>1
    <3>2. CASE d # m - 1
      BY <2>1, <2>3, <3>2
    <3> QED
      BY <3>1, <3>2
  <2> QED
    BY <2>1, <2>2, <2>4, Zenon
<1> QED
  BY <1>1, <1>2, <1>5, <1>6, <1>7, <1>8

\* A frame is put in a cell that is free.
LEMMA RingPut ==
  ASSUME NEW n \in Nat, NEW d \in Cells, NEW cpu \in Cells, NEW use, RingIs(n, d, cpu, use),
         cpu \notin use
  PROVE  n > 0 /\ RingIs(n - 1, d, INC_RING_INDEX(cpu), use \cup {cpu})
<1>1. PICK m \in Nat \ {0} : m = MGMT_RING_SIZE
  BY CellsFinite
<1>2. use = {i \in Cells : Away(d, i) < m - n} /\ n <= m /\ Cardinality(use) = m - n
  BY <1>1 DEF RingIs
<1>3. n > 0
  BY <1>1, <1>2, AwayIs DEF RingIs
<1>4. Away(d, cpu) = m - n
  BY <1>1, <1>3 DEF RingIs
<1>5. Cardinality(use \cup {cpu}) = m - (n - 1)
  <2>1. IsFiniteSet(use)
    BY <1>2, CellsFinite, FS_Subset
  <2>2. Cardinality(use \cup {cpu}) = Cardinality(use) + 1
    BY <2>1, FS_AddElement
  <2> QED
    BY <1>2, <2>2
<1>6. use \cup {cpu} = {i \in Cells : Away(d, i) < m - (n - 1)}
  <2>1. \A i \in Cells : Away(d, i) \in Nat /\ (Away(d, i) = Away(d, cpu) => i = cpu)
    BY <1>1, AwayIs
  <2>2. \A i \in Cells : Away(d, i) < m - (n - 1) <=> Away(d, i) < m - n \/ i = cpu
    BY <1>4, <2>1
  <2> QED
    BY <1>2, <2>2
<1>7. IF n - 1 = 0 THEN INC_RING_INDEX(cpu) = d ELSE Away(d, INC_RING_INDEX(cpu)) = m - (n - 1)
  <2>1. PICK j \in Cells : j = INC_RING_INDEX(cpu)
    BY AwayIs
  <2>2. Away(d, j) = IF Away(d, cpu) = m - 1 THEN 0 ELSE Away(d, cpu) + 1
    BY <1>1, <2>1, AwayIs
  <2>3. Away(d, d) = 0 /\ (Away(d, j) = Away(d, d) => j = d)
    BY AwayIs
  <2> QED
    BY <1>4, <2>1, <2>2, <2>3
<1> QED
  BY <1>1, <1>2, <1>3, <1>5, <1>6, <1>7 DEF RingIs

\* The first cell in use is freed.
LEMMA RingFree ==
  ASSUME NEW n \in Nat, NEW d \in Cells, NEW cpu \in Cells, NEW use, RingIs(n, d, cpu, use),
         d \in use
  PROVE  n < MGMT_RING_SIZE /\ RingIs(n + 1, INC_RING_INDEX(d), cpu, use \ {d})
<1>1. PICK m \in Nat \ {0} : m = MGMT_RING_SIZE
  BY CellsFinite
<1>2. use = {i \in Cells : Away(d, i) < m - n} /\ n <= m /\ Cardinality(use) = m - n
  BY <1>1 DEF RingIs
<1>3. n < m
  BY <1>2, AwayIs
<1>4. PICK e \in Cells : e = INC_RING_INDEX(d)
  BY AwayIs
<1>5. \A i \in Cells : /\ Away(e, i) = IF Away(d, i) = 0 THEN m - 1 ELSE Away(d, i) - 1
                       /\ Away(d, i) \in 0 .. m - 1 /\ (Away(d, i) = 0 <=> i = d)
  BY <1>1, <1>4, AwayIs
<1>6. Cardinality(use \ {d}) = m - (n + 1)
  <2>1. IsFiniteSet(use)
    BY <1>2, CellsFinite, FS_Subset
  <2>2. Cardinality(use \ {d}) = Cardinality(use) - 1
    BY <2>1, FS_RemoveElement
  <2> QED
    BY <1>2, <2>2
<1>7. use \ {d} = {i \in Cells : Away(e, i) < m - (n + 1)}
  <2>1. \A i \in Cells : Away(e, i) < m - (n + 1) <=> Away(d, i) < m - n /\ i # d
    BY <1>3, <1>5
  <2> QED
    BY <1>2, <2>1
<1>8. Away(e, cpu) = m - (n + 1)
  <2>1. n = 0 => cpu = d
    BY DEF RingIs
  <2>2. n # 0 => Away(d, cpu) = m - n
    BY <1>1 DEF RingIs
  <2> QED
    BY <1>3, <1>5, <2>1, <2>2
<1> QED
  BY <1>1, <1>3, <1>4, <1>6, <1>7, <1>8 DEF RingIs

\* A step that leaves the ring, and starts and ends nothing on its cells.
LEMMA RingKept ==
  ASSUME RingInv, UNCHANGED ring, marks \subseteq marks',
         \A i \in Cells : urb'[Mgmt(i)] # "idle" => urb[Mgmt(i)] # "idle",
         pc'[MgmtTasklet] = pc[MgmtTasklet] \/ pc'[MgmtTasklet].at # "ring"
  PROVE  RingInv'
<1>1. UNCHANGED <<InUse, bWaiting, TxCpuIdx, TxDmaIdx, TxSwFreeIdx>>
  BY DEF ring
<1> QED
  BY <1>1 DEF RingInv, At, OnItsWay

\* Whoever moves without the management tasklet coming to "ring".
LEMMA RingMoves ==
  ASSUME Types, RingInv, NEW c \in Runners, NEW a, NEW n, NEW t, Moves(c, a, n, t), a # "ring",
         UNCHANGED ring, marks \subseteq marks',
         \A i \in Cells : urb'[Mgmt(i)] # "idle" => urb[Mgmt(i)] # "idle"
  PROVE  RingInv'
<1>1. pc'[MgmtTasklet] = pc[MgmtTasklet] \/ pc'[MgmtTasklet].at # "ring"
  BY Apart DEF Types, PlaceInv, Moves
<1> QED
  BY <1>1, RingKept

LEMMA MgmtKickOutRing ==
  ASSUME Types, RingInv, NEW t \in Threads, RtmpUSBMgmtKickOut(t)
  PROVE  RingInv'
<1>1. SUFFICES ASSUME marks' \cap {"stale", "overrun"} = {}
               PROVE  RingInv'
  BY DEF RingInv
<1>2. TxCpuIdx \notin InUse /\ marks \cap {"stale", "overrun"} = {}
  BY <1>1 DEF RtmpUSBMgmtKickOut, urbs
<1>3. TxSwFreeIdx \in Nat /\ TxDmaIdx \in Cells /\ TxCpuIdx \in Cells
  BY DEF Types, TypeOK
<1>4. /\ TxSwFreeIdx > 0
      /\ RingIs(TxSwFreeIdx - 1, TxDmaIdx, INC_RING_INDEX(TxCpuIdx), InUse \cup {TxCpuIdx})
  BY <1>2, <1>3, RingPut DEF RingInv
<1>5. TxSwFreeIdx' = TxSwFreeIdx - 1
  BY <1>3, <1>4 DEF RtmpUSBMgmtKickOut, FreeLess, urbs
<1>6. RingIs(TxSwFreeIdx', TxDmaIdx', TxCpuIdx', InUse')
  BY <1>4, <1>5 DEF RtmpUSBMgmtKickOut, urbs
<1>7. bWaiting' \subseteq InUse' /\ \A i : OnItsWay(i) => OnItsWay(i)'
  BY <1>2 DEF RtmpUSBMgmtKickOut, RingInv, OnItsWay, urbs
<1>8. pc'[MgmtTasklet] = pc[MgmtTasklet] /\ UNCHANGED urb
  <2>1. t # MgmtTasklet
    BY BulkOutAssumption DEF Others
  <2> QED
    BY <2>1, Apart DEF RtmpUSBMgmtKickOut, Kick, Types, PlaceInv, urbs
<1>9. /\ \A i \in Cells : urb'[Mgmt(i)] # "idle" => OnItsWay(i)' /\ ~At(MgmtTasklet, "ring")'
      /\ At(MgmtTasklet, "ring")' => OnItsWay(pc[MgmtTasklet].arg)'
  <2>1. At(MgmtTasklet, "ring")' <=> At(MgmtTasklet, "ring")
    BY <1>8 DEF At
  <2>2. OnItsWay(pc[MgmtTasklet].arg) => OnItsWay(pc[MgmtTasklet].arg)'
    BY <1>7, <1>8 DEF OnItsWay
  <2> QED
    BY <1>2, <1>7, <1>8, <2>1, <2>2 DEF RingInv
<1> QED
  BY <1>6, <1>7, <1>9 DEF RingInv

\* The cell submitted is the one at TxDmaIdx, and none was on its way.
LEMMA KickTakeRing ==
  ASSUME Types, RingInv, NEW c \in Runners, KickTake(c)
  PROVE  RingInv'
<1>1. Moves(c, "data", 0, pc[c].then)
  BY GoMoves DEF KickTake
<1>2. PICK i \in Cells : i = pc[c].arg
  BY DEF KickTake, Types, PlaceInv
<1>3. CASE ~PipeFree(MGMTPIPEIDX) /\ UNCHANGED <<Pending, urb, bWaiting, BulkFlags>>
  <2>1. UNCHANGED ring /\ marks \subseteq marks'
    BY <1>3, KickMarked DEF KickTake, ring, Marked, RTUSBKickBulkOut
  <2> QED
    BY <1>1, <1>3, <2>1, RingMoves
<1>4. CASE /\ Submitted(Mgmt(i)) /\ bWaiting' = bWaiting \ {i}
           /\ marks' = marks \cup Stale(i)
  <2>1. SUFFICES ASSUME marks' \cap {"stale", "overrun"} = {}
                 PROVE  RingInv'
    BY DEF RingInv
  <2>2. i = TxDmaIdx /\ i \in bWaiting /\ marks \cap {"stale", "overrun"} = {}
    BY <1>4, <2>1 DEF Stale
  <2>3. /\ \A j : ~OnItsWay(j)
        /\ \A j \in Cells : urb[Mgmt(j)] = "idle"
    BY <2>2 DEF RingInv, OnItsWay
  <2>4. UNCHANGED <<InUse, TxCpuIdx, TxDmaIdx, TxSwFreeIdx>>
    BY DEF KickTake
  <2>5. RingIs(TxSwFreeIdx, TxDmaIdx, TxCpuIdx, InUse)' /\ (bWaiting \subseteq InUse)' /\ OnItsWay(i)'
    BY <1>4, <2>2, <2>4 DEF RingInv, OnItsWay
  <2>6. \A j \in Cells : urb'[Mgmt(j)] # "idle" => j = i
    <3>1. \A j \in Cells : Mgmt(j) \in TxContexts /\ (Mgmt(j) = Mgmt(i) => j = i)
      BY PipesOf DEF Mgmt
    <3> QED
      BY <1>4, <2>3, <3>1 DEF Submitted, Types, TypeOK
  <2>7. ~At(MgmtTasklet, "ring")'
    <3>1. ~At(MgmtTasklet, "ring")
      BY <2>2, <2>3 DEF RingInv
    <3> QED
      BY <1>1, <3>1, Apart DEF Moves, Types, PlaceInv, At
  <2> QED
    BY <2>5, <2>6, <2>7 DEF RingInv
<1>5. CASE /\ Refused(Mgmt(i)) /\ bWaiting' = bWaiting \cup {i}
           /\ marks' = marks \cup {"submit"} \cup Stale(i)
  <2>1. SUFFICES ASSUME marks' \cap {"stale", "overrun"} = {}
                 PROVE  RingInv'
    BY DEF RingInv
  <2>2. bWaiting' = bWaiting
    BY <1>5, <2>1 DEF Stale
  <2>3. UNCHANGED ring /\ UNCHANGED urb /\ marks \subseteq marks'
    BY <1>5, <2>2 DEF KickTake, ring, Refused
  <2> QED
    BY <1>1, <2>3, RingMoves
<1> QED
  BY <1>2, <1>3, <1>4, <1>5 DEF KickTake

\* A transfer of the ring that ends is the one at TxDmaIdx ...
LEMMA MgmtDoneRing ==
  ASSUME Types, RingInv, NEW i \in Cells, MgmtDone(i)
  PROVE  RingInv'
<1>1. /\ Mgmt(i) \in TxContexts /\ TaskletOf(Mgmt(i)) = MgmtTasklet /\ MgmtTasklet \in Runners
      /\ \A j \in Cells : Mgmt(j) \in TxContexts /\ (Mgmt(j) = Mgmt(i) => j = i)
  BY PipesOf, Apart DEF Mgmt
<1>2. /\ marks \subseteq marks' /\ urb' = [urb EXCEPT ![Mgmt(i)] = "idle"]
      /\ urb[Mgmt(i)] # "idle" /\ UNCHANGED ring
  BY <1>1, ReleaseMarks DEF MgmtDone, Marked
<1>3. pc'[MgmtTasklet].at = "ring" /\ pc'[MgmtTasklet].arg = i
  BY <1>1 DEF MgmtDone, Go, Types, PlaceInv, PcRecords
<1>4. SUFFICES ASSUME marks' \cap {"stale", "overrun"} = {}
               PROVE  RingInv'
  BY DEF RingInv
<1>5. OnItsWay(i) /\ marks \cap {"stale", "overrun"} = {}
  BY <1>2, <1>4 DEF RingInv
<1>6. \A j \in Cells : urb'[Mgmt(j)] = "idle"
  <2>1. \A j \in Cells : urb[Mgmt(j)] # "idle" => j = i
    BY <1>5 DEF RingInv, OnItsWay
  <2> QED
    BY <1>1, <1>2, <2>1 DEF Types, TypeOK
<1>7. UNCHANGED <<InUse, bWaiting, TxCpuIdx, TxDmaIdx, TxSwFreeIdx>>
  BY <1>2 DEF ring
<1>8. OnItsWay(pc[MgmtTasklet].arg)'
  BY <1>3, <1>5, <1>7 DEF OnItsWay
<1> QED
  BY <1>5, <1>6, <1>7, <1>8 DEF RingInv

\* ... and its cell the one that is freed.
LEMMA MgmtRingDoneRing ==
  ASSUME Types, RingInv, MgmtRingDone
  PROVE  RingInv'
<1>1. SUFFICES ASSUME marks \cap {"stale", "overrun"} = {}
               PROVE  RingInv'
  BY DEF RingInv, MgmtRingDone, urbs
<1>2. OnItsWay(pc[MgmtTasklet].arg) /\ \A i \in Cells : urb[Mgmt(i)] = "idle"
  BY <1>1 DEF RingInv, MgmtRingDone, urbs
<1>3. /\ pc[MgmtTasklet].arg = TxDmaIdx /\ TxDmaIdx \in InUse
      /\ InUse' = InUse \ {TxDmaIdx} /\ bWaiting' = bWaiting \ {TxDmaIdx}
  BY <1>2 DEF OnItsWay, MgmtRingDone, urbs
<1>4. TxSwFreeIdx \in Nat /\ TxDmaIdx \in Cells /\ TxCpuIdx \in Cells
  BY DEF Types, TypeOK
<1>5. /\ TxSwFreeIdx < MGMT_RING_SIZE
      /\ RingIs(TxSwFreeIdx + 1, INC_RING_INDEX(TxDmaIdx), TxCpuIdx, InUse \ {TxDmaIdx})
  BY <1>1, <1>3, <1>4, RingFree DEF RingInv
<1>6. TxSwFreeIdx' = TxSwFreeIdx + 1
  BY <1>4, <1>5, FreeMoreIs DEF MgmtRingDone, urbs
<1>7. RingIs(TxSwFreeIdx, TxDmaIdx, TxCpuIdx, InUse)' /\ (bWaiting \subseteq InUse)'
  BY <1>1, <1>3, <1>5, <1>6 DEF RingInv, MgmtRingDone, urbs
<1>8. ~At(MgmtTasklet, "ring")' /\ UNCHANGED urb
  BY Apart DEF MgmtRingDone, Go, At, Types, PlaceInv, PcRecords, urbs
<1> QED
  BY <1>2, <1>7, <1>8 DEF RingInv

\* The other steps leave the ring.
LEMMA SenderRing ==
  ASSUME Types, RingInv, NEW t \in Threads, Sender(t)
  PROVE  RingInv'
<1>1. CASE RtmpUSBMgmtKickOut(t)
  BY <1>1, MgmtKickOutRing
<1>2. CASE ~RtmpUSBMgmtKickOut(t)
  <2>1. SendRoom(t) \/ RtmpUSBNullFrameKickOut(t) \/ \E p \in Pipes : RtmpUSBDataKickOut(t, p)
    BY <1>2 DEF Sender
  <2>2. t \in Runners /\ UNCHANGED <<ring, urb, marks>>
    BY <2>1, Apart DEF SendRoom, RtmpUSBNullFrameKickOut, RtmpUSBDataKickOut, urbs
  <2>3. \E a \in {"room", "kick"} : \E n, u : Moves(t, a, n, u)
    BY <2>1, <2>2, GoMoves DEF SendRoom, RtmpUSBNullFrameKickOut, RtmpUSBDataKickOut, urbs
  <2> QED
    BY <2>2, <2>3, RingMoves
<1> QED
  BY <1>1, <1>2

LEMMA KickRing ==
  ASSUME IInv, RingInv, NEW c \in Runners, RTUSBKickBulkOut(c)
  PROVE  RingInv'
<1>1. CASE KickTake(c)
  BY <1>1, KickTakeRing DEF IInv
<1>2. CASE ~KickTake(c)
  <2>1. KickLook(c) \/ KickUnflagged(c) \/ KickData(c) \/ KickEmpty(c) \/ KickNull(c)
    BY <1>2 DEF RTUSBKickBulkOut
  <2>2. UNCHANGED ring /\ marks \subseteq marks'
    BY <2>1, KickMarked DEF KickLook, KickUnflagged, KickData, KickEmpty, KickNull, Marked, urbs
  <2>3. \A i \in Cells : urb'[Mgmt(i)] = urb[Mgmt(i)]
    <3>1. \A i \in Cells : Mgmt(i) # Null /\ \A p \in Pipes : Mgmt(i) # Data(p)
      BY DEF Mgmt, Data, Null
    <3>2. CASE KickLook(c) \/ KickUnflagged(c) \/ KickEmpty(c)
      BY <3>2 DEF KickLook, KickUnflagged, KickEmpty, urbs
    <3>3. CASE KickData(c)
      <4>1. pc[c].arg \in Pipes
        BY <3>3 DEF KickData, IInv, Types, PlaceInv, urbs
      <4> QED
        BY <3>1, <3>3, <4>1, PipesOf DEF KickData, Submitted, Refused, IInv, Types, TypeOK, urbs
    <3>4. CASE KickNull(c)
      BY <3>1, <3>4, PipesOf DEF KickNull, Submitted, Refused, IInv, Types, TypeOK
    <3> QED
      BY <2>1, <3>2, <3>3, <3>4
  <2>4. \E a \in {"take", "data", "null", "empty", "again", "idle"} : \E n, t : Moves(c, a, n, t)
    <3>1. \/ \E a \in {"take", "data", "null", "empty"} : \E n : Go(c, a, n)
          \/ Returns(c)
      <4>1. \A p : AfterPipe(c, p) => (\E n : Go(c, "data", n)) \/ Returns(c)
        BY DEF AfterPipe
      <4> QED
        BY <2>1, <4>1 DEF KickLook, KickUnflagged, KickData, KickEmpty, KickNull, urbs
    <3> QED
      BY <3>1, GoMoves, ReturnsMoves DEF IInv
  <2> QED
    BY <2>2, <2>3, <2>4, RingMoves DEF IInv, urbs
<1> QED
  BY <1>1, <1>2

LEMMA BusRing ==
  ASSUME Types, RingInv, NEW x \in TxContexts, UrbDone(x) \/ ErrorSeen(x)
  PROVE  RingInv'
<1>1. CASE UrbDone(x)
  <2>1. UNCHANGED <<ring, pc, marks>>
    BY <1>1 DEF UrbDone
  <2>2. \A i \in Cells : urb'[Mgmt(i)] # "idle" => urb[Mgmt(i)] # "idle"
    BY <1>1, PipesOf DEF UrbDone, Completed, Types, TypeOK
  <2> QED
    BY <2>1, <2>2, RingKept
<1>2. CASE ErrorSeen(x)
  <2>0. TaskletOf(x) \in Runners
    BY <1>2, SentIs DEF ErrorSeen, urbs
  <2>1. PICK n : Moves(TaskletOf(x), "failed", n, pc[TaskletOf(x)].then)
    BY <1>2, <2>0, GoMoves DEF ErrorSeen, urbs
  <2>2. UNCHANGED <<ring, urb, marks>>
    BY <1>2 DEF ErrorSeen, urbs
  <2> QED
    BY <2>0, <2>1, <2>2, RingMoves
<1> QED
  BY <1>1, <1>2

LEMMA TaskletRing ==
  ASSUME Types, RingInv, NEW p \in Pipes,
         MgmtAfter \/ NullDone \/ NullAfter \/ DataDone(p) \/ DataAfter(p) \/ DataAgain(p)
  PROVE  RingInv'
<1>1. PICK c \in Runners : \E a \in {"after", "kick", "idle"} : \E n, t : Moves(c, a, n, t)
  <2>1. CASE MgmtAfter
    BY <2>1, Apart, GoMoves DEF MgmtAfter, urbs
  <2>2. CASE NullDone \/ NullAfter
    BY <2>2, Apart, GoMoves DEF NullDone, NullAfter, urbs
  <2>3. CASE DataAfter(p) \/ DataAgain(p)
    BY <2>3, Apart, GoMoves DEF DataAfter, DataAgain, urbs
  <2>4. CASE DataDone(p)
    <3>1. TaskletOf(Data(p)) \in Runners
      BY <2>4, PipesOf, SentIs DEF DataDone
    <3> QED
      BY <2>4, <3>1, GoMoves DEF DataDone
  <2> QED
    BY <2>1, <2>2, <2>3, <2>4
<1>2. UNCHANGED ring
  BY DEF MgmtAfter, NullDone, NullAfter, DataDone, DataAfter, DataAgain, urbs
<1>3. marks \subseteq marks' /\ \A i \in Cells : urb'[Mgmt(i)] = urb[Mgmt(i)]
  <2>1. CASE NullDone \/ DataDone(p)
    <3>1. PICK x \in {Null, Data(p)} : Released(x)
      BY <2>1 DEF NullDone, DataDone
    <3>2. /\ x \in TxContexts
          /\ \A i \in Cells : Mgmt(i) \in TxContexts /\ Mgmt(i) # x
      BY <3>1, PipesOf DEF Mgmt, Data, Null
    <3> QED
      BY <3>1, <3>2, ReleaseMarks DEF Marked, Types, TypeOK
  <2>2. CASE ~(NullDone \/ DataDone(p))
    BY <2>2 DEF MgmtAfter, NullAfter, DataAfter, DataAgain, RTEnqueueInternalCmd, urbs
  <2> QED
    BY <2>1, <2>2
<1> QED
  BY <1>1, <1>2, <1>3, RingMoves

LEMMA CommandRing ==
  ASSUME Types, RingInv, CMDHandler \/ ResetBulkOutHdlr
  PROVE  RingInv'
<1>1. \E a \in {"reset", "reflag", "resubmit", "undo", "kick"} : \E n, t : Moves(CmdThread, a, n, t)
  BY Apart, GoMoves DEF CMDHandler, ResetBulkOutHdlr, ResetMgmt, ResetData, ResetReflag,
     ResetResubmit, ResetUndo, urbs
<1>2. UNCHANGED ring /\ marks \subseteq marks'
  BY DEF CMDHandler, ResetBulkOutHdlr, ResetMgmt, ResetData, ResetReflag, ResetResubmit, ResetUndo, urbs
<1>3. \A i \in Cells : urb'[Mgmt(i)] = urb[Mgmt(i)]
  <2>1. CASE ResetResubmit
    <3>1. pc[CmdThread].arg \in Pipes /\ \A i \in Cells : \A p \in Pipes : Mgmt(i) # Data(p)
      BY <2>1, Apart DEF ResetResubmit, Types, PlaceInv, Mgmt, Data
    <3> QED
      BY <2>1, <3>1, PipesOf DEF ResetResubmit, Submitted, Types, TypeOK
  <2>2. CASE ~ResetResubmit
    BY <2>2 DEF CMDHandler, ResetBulkOutHdlr, ResetMgmt, ResetData, ResetReflag, ResetUndo, urbs
  <2> QED
    BY <2>1, <2>2
<1> QED
  BY <1>1, <1>2, <1>3, RingMoves, Apart

LEMMA NextRing == IInv /\ RingInv /\ [Next]_vars => RingInv'
<1> SUFFICES ASSUME IInv, RingInv, [Next]_vars PROVE RingInv'
  OBVIOUS
<1> USE DEF IInv
<1>1. ASSUME NEW t \in Threads, Sender(t) PROVE RingInv'
  BY <1>1, SenderRing
<1>2. ASSUME NEW c \in Runners, RTUSBKickBulkOut(c) PROVE RingInv'
  BY <1>2, KickRing
<1>3. ASSUME NEW x \in TxContexts, UrbDone(x) PROVE RingInv'
  BY <1>3, BusRing
<1>4. CASE Tasklet
  <2>1. 0 \in Pipes
    BY DEF Pipes
  <2> QED
    BY <1>4, <2>1, BusRing, MgmtDoneRing, MgmtRingDoneRing, TaskletRing DEF Tasklet
<1>5. CASE CMDHandler \/ ResetBulkOutHdlr
  BY <1>5, CommandRing
<1>6. CASE UNCHANGED vars
  BY <1>6, RingKept DEF vars, urbs
<1> QED
  BY <1>1, <1>2, <1>3, <1>4, <1>5, <1>6 DEF Next

LEMMA InitRing == Init => RingInv
<1> SUFFICES ASSUME Init PROVE RingInv
  OBVIOUS
<1>1. MGMT_RING_SIZE \in Nat \ {0} /\ 0 \in Cells
  BY CellsFinite DEF Cells
<1>2. RingIs(TxSwFreeIdx, TxDmaIdx, TxCpuIdx, InUse)
  <2>1. Cardinality({}) = 0
    BY FS_EmptySet
  <2>2. \A i \in Cells : Away(0, i) \in Nat
    BY <1>1, AwayIs
  <2>3. Away(0, 0) = 0
    BY <1>1, AwayIs
  <2> QED
    BY <1>1, <2>1, <2>2, <2>3 DEF RingIs, Init
<1>3. ~At(MgmtTasklet, "ring") /\ \A i \in Cells : urb[Mgmt(i)] = "idle"
  BY Apart, PipesOf DEF Init, At, Idle
<1>4. bWaiting = {}
  BY DEF Init
<1> QED
  BY <1>2, <1>3, <1>4 DEF RingInv

\* The counter, the indices and the cells of MgmtRing agree, for every size of the ring below
\* what the counter wraps at, every number of senders and every failure, until a cell is
\* submitted twice or two senders take the last one.
THEOREM RingIsAccounted == Spec => []RingAccounts
<1>1. IInv /\ RingInv => RingAccounts
  BY RingAccounted DEF IInv, Types
<1> QED
  BY <1>1, InitRing, NextRing, Invariance, PTL DEF Spec

-----------------------------------------------------------------------------
(* Who will kick for what waits. *)

\* Nothing went wrong, but that the null frame may have been passed by.
Clear == marks \subseteq {"hidden"}
USE DEF Clear

\* How far a runner is on its way through RTUSBKickBulkOut, one that will kick among them:
\* it still looks at the ring up to 0, at pipe p up to 2p + 1, at the null frame, which the
\* flag of the last pipe may hide from it, up to 5.
Coming == {"kick", "take", "ring", "after", "reflag", "resubmit", "undo"}
Rank(r) ==
    IF r.at \in Coming THEN 0
    ELSE IF r.at = "data" THEN 2 * r.arg + 1
    ELSE IF r.at = "empty" /\ r.arg = 0 THEN 2
    ELSE IF r.at = "null" THEN 5 ELSE 6

\* A reset ends in a kick, a transfer in another, and a runner on its way looks.
Busy(p) == \E x \in TxContexts : PipeOf(x) = p /\ urb[x] # "idle"
Comes(p, n) == Reset \/ Busy(p) \/ \E c \in Runners : Rank(pc[c]) <= n
Waiting(p, n) ==
    \/ p = 0 /\ n = 0 /\ bWaiting # {}
    \/ p = 0 /\ n = 5 /\ NullInUse /\ "hidden" \notin marks
    \/ n = 2 * p + 1 /\ WritePos[p] # ENextPos[p]
LookInv == Clear => \A p \in Pipes, n \in 0 .. 5 : Waiting(p, n) => Comes(p, n)

\* What waits is flagged, or the end of its transfer will see it.
FlagInv == Clear =>
    /\ NullInUse => Null \in BulkFlags \/ urb[Null] # "idle"
    /\ \A p \in Pipes : WritePos[p] # ENextPos[p] =>
           Data(p) \in BulkFlags \/ urb[Data(p)] # "idle" \/ At(DataTasklet(p), "after")

\* A cell that no longer waits is being sent, or about to be freed.
CellInv == Clear =>
    \A i \in InUse \ bWaiting :
        urb[Mgmt(i)] # "idle" \/ (At(MgmtTasklet, "ring") /\ pc[MgmtTasklet].arg = i)

\* A runner at rest remembers nothing.
IdleInv == \A c \in Runners : At(c, "idle") => pc[c] = Idle

WaitInv == LookInv /\ FlagInv /\ CellInv /\ IdleInv

\* What a step does to a runner and to the transfers.
LEMMA MoveIs ==
  ASSUME Types, NEW c \in Runners, NEW a, NEW n, NEW t, Moves(c, a, n, t)
  PROVE  /\ pc'[c] = [at |-> a, arg |-> n, then |-> t] /\ pc'[c].at = a /\ pc'[c].arg = n
         /\ \A d \in Runners : d # c => pc'[d] = pc[d]
  BY DEF Moves, Types, PlaceInv

StillBusy == \A x \in TxContexts : urb[x] # "idle" => urb'[x] # "idle"

LEMMA Arrives ==
  ASSUME Types, NEW c \in Runners, NEW a \in Coming, NEW n, NEW t, Moves(c, a, n, t)
  PROVE  \A p, m \in Nat : Comes(p, m)'
<1>1. pc'[c].at = a
  BY MoveIs
<1>2. Rank(pc'[c]) = 0
  BY <1>1 DEF Rank
<1> QED
  BY <1>2 DEF Comes

LEMMA Steady ==
  ASSUME Types, NEW c \in Runners, NEW a, NEW k, NEW t, Moves(c, a, k, t),
         Reset => Reset', StillBusy, NEW p, NEW n, Comes(p, n),
         Rank(pc[c]) <= n => Rank([at |-> a, arg |-> k, then |-> t]) <= n
  PROVE  Comes(p, n)'
<1>1. /\ pc'[c] = [at |-> a, arg |-> k, then |-> t]
      /\ \A d \in Runners : d # c => pc'[d] = pc[d]
  BY MoveIs
<1>2. CASE Reset
  BY <1>2 DEF Comes
<1>3. CASE Busy(p)
  BY <1>3 DEF Comes, Busy, StillBusy
<1>4. ASSUME NEW d \in Runners, Rank(pc[d]) <= n
      PROVE  Comes(p, n)'
  <2>1. Rank(pc'[d]) <= n
    <3>1. CASE d = c
      BY <1>1, <1>4, <3>1, Zenon
    <3>2. CASE d # c
      BY <1>1, <1>4, <3>2, Zenon
    <3> QED
      BY <3>1, <3>2
  <2> QED
    BY <2>1 DEF Comes
<1> QED
  BY <1>2, <1>3, <1>4 DEF Comes

\* Each thing that waits is new and comes to be looked at, or is not passed by.
LEMMA LookKept ==
  ASSUME Types, LookInv, NEW c \in Runners, NEW a, NEW k, NEW t, Moves(c, a, k, t),
         Reset => Reset', StillBusy, marks \subseteq marks',
         Clear' => \A p \in Pipes, n \in 0 .. 5 : Waiting(p, n)' =>
             \/ Comes(p, n)'
             \/ /\ Waiting(p, n)
                /\ Rank(pc[c]) <= n => Rank([at |-> a, arg |-> k, then |-> t]) <= n
  PROVE  LookInv'
<1>1. SUFFICES ASSUME Clear', NEW p \in Pipes, NEW n \in 0 .. 5, Waiting(p, n)'
               PROVE  Comes(p, n)'
  BY DEF LookInv
<1>2. Clear
  BY <1>1
<1>3. CASE /\ Waiting(p, n)
           /\ Rank(pc[c]) <= n => Rank([at |-> a, arg |-> k, then |-> t]) <= n
  <2>1. Comes(p, n)
    BY <1>2, <1>3 DEF LookInv
  <2> QED
    BY <1>3, <2>1, Steady
<1> QED
  BY <1>1, <1>3

\* A runner that is not on its way to look.
LEMMA LookPassed ==
  ASSUME Types, LookInv, NEW c \in Runners, NEW a, NEW k, NEW t, Moves(c, a, k, t),
         pc[c].at \notin Coming \cup {"data", "empty", "null"},
         Reset => Reset', StillBusy, marks \subseteq marks',
         UNCHANGED <<bWaiting, NullInUse, WritePos, ENextPos>>
  PROVE  LookInv'
<1>1. \A n \in 0 .. 5 : ~(Rank(pc[c]) <= n)
  BY DEF Rank
<1>2. \A p \in Pipes, n \in 0 .. 5 : Waiting(p, n)' => Waiting(p, n)
  BY DEF Waiting
<1> QED
  BY <1>1, <1>2, LookKept

\* A runner that comes to kick.
LEMMA LookArrives ==
  ASSUME Types, NEW c \in Runners, NEW a \in Coming, NEW k, NEW t, Moves(c, a, k, t)
  PROVE  LookInv'
<1>1. \A p \in Pipes : p \in Nat
  BY DEF Pipes
<1> QED
  BY <1>1, Arrives DEF LookInv

LEMMA LookReset == Reset' => LookInv'
  BY DEF LookInv, Comes

\* A flag that stays, and a transfer that goes on.
LEMMA FlagKept ==
  ASSUME FlagInv, marks \subseteq marks', NullInUse' => NullInUse, UNCHANGED <<WritePos, ENextPos>>,
         BulkFlags \ {MlmeFlag} \subseteq BulkFlags', StillBusy,
         \A p \in Pipes : At(DataTasklet(p), "after") => pc'[DataTasklet(p)] = pc[DataTasklet(p)]
  PROVE  FlagInv'
<1>1. /\ Null # MlmeFlag /\ \A p \in Pipes : Data(p) # MlmeFlag
      /\ Null \in TxContexts /\ \A p \in Pipes : Data(p) \in TxContexts
  BY PipesOf DEF Null, MlmeFlag, Mgmt, Data
<1>2. Clear' => Clear
  OBVIOUS
<1>3. NullInUse' => \/ ~Clear
                    \/ Null \in BulkFlags' \/ urb'[Null] # "idle"
  BY <1>1 DEF FlagInv, StillBusy
<1>4. ASSUME NEW p \in Pipes, WritePos'[p] # ENextPos'[p], Clear
      PROVE  Data(p) \in BulkFlags' \/ urb'[Data(p)] # "idle" \/ pc'[DataTasklet(p)].at = "after"
  BY <1>1, <1>4 DEF FlagInv, StillBusy, At
<1> QED
  BY <1>2, <1>3, <1>4 DEF FlagInv, At

LEMMA CellKept ==
  ASSUME Types, CellInv, marks \subseteq marks', InUse' \ bWaiting' \subseteq InUse \ bWaiting,
         \A i \in Cells : urb[Mgmt(i)] # "idle" => urb'[Mgmt(i)] # "idle",
         At(MgmtTasklet, "ring") => pc'[MgmtTasklet] = pc[MgmtTasklet]
  PROVE  CellInv'
<1>1. Clear' => Clear
  OBVIOUS
<1>2. InUse \subseteq Cells
  BY DEF Types, TypeOK
<1> QED
  BY <1>1, <1>2 DEF CellInv, At

LEMMA IdleKept ==
  ASSUME Types, IdleInv, NEW c \in Runners, NEW a, NEW n, NEW t, Moves(c, a, n, t),
         a = "idle" => n = 0 /\ t = "idle"
  PROVE  IdleInv'
<1>1. /\ pc'[c] = [at |-> a, arg |-> n, then |-> t] /\ pc'[c].at = a
      /\ \A d \in Runners : d # c => pc'[d] = pc[d]
  BY MoveIs
<1>2. At(c, "idle")' => pc'[c] = Idle
  BY <1>1 DEF At, Idle
<1>3. \A d \in Runners : d # c /\ At(d, "idle")' => pc'[d] = Idle
  BY <1>1 DEF IdleInv, At
<1> QED
  BY <1>2, <1>3 DEF IdleInv

\* Senders: whoever puts something to send kicks.
LEMMA SenderWaits ==
  ASSUME Types, WaitInv, NEW t \in Threads, Sender(t)
  PROVE  WaitInv'
<1> USE DEF WaitInv
<1>1. /\ t \in Runners /\ t # MgmtTasklet /\ \A p \in Pipes : t # DataTasklet(p)
      /\ MgmtTasklet \in Runners /\ \A p \in Pipes : DataTasklet(p) \in Runners
  BY Apart, BulkOutAssumption DEF Others
<1>2. PICK a \in {"room", "kick"} : \E n, u : Moves(t, a, n, u)
  BY <1>1, GoMoves
  DEF Sender, SendRoom, RtmpUSBMgmtKickOut, RtmpUSBNullFrameKickOut, RtmpUSBDataKickOut, urbs
<1>3. /\ UNCHANGED <<urb, Reset, ENextPos>> /\ marks \subseteq marks'
      /\ pc[t].at \in {"idle", "room"}
  BY DEF Sender, SendRoom, RtmpUSBMgmtKickOut, RtmpUSBNullFrameKickOut, RtmpUSBDataKickOut,
         resets, data, MayStart, At, urbs
<1>4. IdleInv'
  BY <1>1, <1>2, IdleKept
<1>5. /\ pc'[MgmtTasklet] = pc[MgmtTasklet]
      /\ \A p \in Pipes : pc'[DataTasklet(p)] = pc[DataTasklet(p)]
  BY <1>1, <1>2, MoveIs
<1>6. StillBusy
  BY <1>3 DEF StillBusy
<1>7. CellInv'
  <2>1. InUse' \ bWaiting' \subseteq InUse \ bWaiting
    BY DEF Sender, SendRoom, RtmpUSBMgmtKickOut, RtmpUSBNullFrameKickOut, RtmpUSBDataKickOut, ring, urbs
  <2> QED
    BY <1>3, <1>5, <2>1, CellKept
<1>8. LookInv'
  <2>1. CASE a = "kick"
    BY <1>1, <1>2, <2>1, LookArrives DEF Coming
  <2>2. CASE a = "room"
    <3>1. pc'[t].at = "room"
      BY <1>1, <1>2, <2>2, MoveIs
    <3>2. SendRoom(t)
      <4>1. (\E u : Kick(t, u)) => FALSE
        BY <1>1, <3>1 DEF Kick, Types, PlaceInv
      <4> QED
        BY <4>1 DEF Sender, RtmpUSBMgmtKickOut, RtmpUSBNullFrameKickOut, RtmpUSBDataKickOut, urbs
    <3>3. UNCHANGED <<bWaiting, NullInUse, WritePos, ENextPos>>
      BY <3>2 DEF SendRoom, ring, data, urbs
    <3>4. pc[t].at \notin Coming \cup {"data", "empty", "null"}
      BY <1>3 DEF Coming
    <3> QED
      BY <1>1, <1>2, <1>3, <1>6, <3>3, <3>4, LookPassed
  <2> QED
    BY <2>1, <2>2
<1>9. FlagInv'
  <2>1. BulkFlags \subseteq BulkFlags'
    BY DEF Sender, SendRoom, RtmpUSBMgmtKickOut, RtmpUSBNullFrameKickOut, RtmpUSBDataKickOut, urbs
  <2>2. CASE SendRoom(t) \/ RtmpUSBMgmtKickOut(t)
    <3>1. UNCHANGED <<NullInUse, WritePos>>
      BY <2>2 DEF SendRoom, RtmpUSBMgmtKickOut, data, urbs
    <3> QED
      BY <1>3, <1>5, <1>6, <2>1, <3>1, FlagKept
  <2>3. CASE RtmpUSBNullFrameKickOut(t)
    <3>1. Null \in BulkFlags' /\ UNCHANGED WritePos
      BY <2>3 DEF RtmpUSBNullFrameKickOut, data, urbs
    <3>2. Clear' => Clear
      BY <1>3
    <3>3. \A p \in Pipes : /\ Data(p) \in BulkFlags => Data(p) \in BulkFlags'
                           /\ At(DataTasklet(p), "after") => At(DataTasklet(p), "after")'
      BY <1>5, <2>1 DEF At
    <3> QED
      BY <1>3, <3>1, <3>2, <3>3 DEF FlagInv
  <2>4. ASSUME NEW q \in Pipes, RtmpUSBDataKickOut(t, q) PROVE FlagInv'
    <3>1. /\ Data(q) \in BulkFlags' /\ UNCHANGED NullInUse
          /\ \A p \in Pipes : p # q => WritePos'[p] = WritePos[p]
      BY <2>4 DEF RtmpUSBDataKickOut, Types, urbs
    <3>2. Clear' => Clear
      BY <1>3
    <3>3. Null \in BulkFlags => Null \in BulkFlags'
      BY <2>1
    <3>4. \A p \in Pipes : /\ Data(p) \in BulkFlags => Data(p) \in BulkFlags'
                           /\ At(DataTasklet(p), "after") => At(DataTasklet(p), "after")'
      BY <1>5, <2>1 DEF At
    <3> QED
      BY <1>3, <3>1, <3>2, <3>3, <3>4 DEF FlagInv
  <2> QED
    BY <2>2, <2>3, <2>4 DEF Sender, urbs
<1> QED
  BY <1>4, <1>7, <1>8, <1>9

\* The bus.
LEMMA BusWaits ==
  ASSUME IInv, SentInv, WaitInv, NEW x \in TxContexts, UrbDone(x) \/ ErrorSeen(x)
  PROVE  WaitInv'
<1> USE DEF WaitInv
<1>0. Types
  BY DEF IInv
<1>1. CASE UrbDone(x) /\ "misdirected" \notin marks
  <2>1. /\ UNCHANGED <<pc, Reset, marks, BulkFlags, InUse, bWaiting, NullInUse, WritePos, ENextPos>>
        /\ StillBusy
    <3>1. PICK status \in {"ok", "error"} : urb' = [urb EXCEPT ![x] = status]
      BY <1>1, UrbDoneKeeps
    <3>2. StillBusy
      BY <1>0, <3>1 DEF StillBusy, Types, TypeOK
    <3> QED
      BY <1>1, <3>2 DEF UrbDone, resets, ring, data
  <2>2. FlagInv'
    BY <2>1, FlagKept
  <2>3. \A i \in Cells : urb[Mgmt(i)] # "idle" => urb'[Mgmt(i)] # "idle"
    BY <2>1, PipesOf DEF StillBusy
  <2>4. CellInv' /\ IdleInv'
    BY <1>0, <2>1, <2>3, CellKept DEF IdleInv, At
  <2>5. \A p, n : Comes(p, n) => Comes(p, n)'
    BY <2>1 DEF Comes, Busy, StillBusy
  <2>6. LookInv'
    BY <2>1, <2>5 DEF LookInv, Waiting
  <2> QED
    BY <2>2, <2>4, <2>6
<1>3. CASE UrbDone(x) /\ "misdirected" \in marks
  <2>1. UNCHANGED <<pc, marks>>
    BY <1>3 DEF UrbDone
  <2> QED
    BY <1>3, <2>1 DEF LookInv, FlagInv, CellInv, IdleInv, At
<1>2. CASE ErrorSeen(x)
  <2>0. TaskletOf(x) \in Runners
    BY <1>0, <1>2, SentIs DEF ErrorSeen, urbs
  <2>1. PICK c \in Runners : c = TaskletOf(x) /\ \E n : Moves(c, "failed", n, pc[c].then)
    BY <1>0, <1>2, <2>0, GoMoves DEF ErrorSeen, urbs
  <2>2. /\ UNCHANGED <<urb, Reset, marks, BulkFlags, InUse, bWaiting, NullInUse, WritePos, ENextPos>>
        /\ pc[c].at = "idle"
    BY <1>2, <2>1 DEF ErrorSeen, MayStart, At, resets, ring, data, urbs
  <2>3. StillBusy
    BY <2>2 DEF StillBusy
  <2>4. \A d \in Runners, b \in {"after", "ring"} : At(d, b) => pc'[d] = pc[d]
    <3>1. \A d \in Runners : d # c => pc'[d] = pc[d]
      <4>1. PICK n : Moves(c, "failed", n, pc[c].then)
        BY <2>1
      <4> QED
        BY <1>0, <4>1, MoveIs
    <3> QED
      BY <2>2, <3>1 DEF At
  <2>5. FlagInv' /\ CellInv'
    BY <1>0, <2>2, <2>3, <2>4, Apart, FlagKept, CellKept
  <2>6. IdleInv'
    BY <1>0, <2>1, IdleKept
  <2>7. LookInv'
    <3>1. pc[c].at \notin Coming \cup {"data", "empty", "null"}
      BY <2>2 DEF Coming
    <3> QED
      BY <1>0, <2>1, <2>2, <2>3, <3>1, LookPassed
  <2> QED
    BY <2>5, <2>6, <2>7
<1> QED
  BY <1>1, <1>2, <1>3

\* The command thread: a reset ends in a kick.
LEMMA CommandWaits ==
  ASSUME Types, WaitInv, CMDHandler \/ ResetBulkOutHdlr
  PROVE  WaitInv'
<1> USE DEF WaitInv
<1> DEFINE c == CmdThread
<1>1. c \in Runners /\ MgmtTasklet \in Runners /\ c # MgmtTasklet
      /\ \A p \in Pipes : DataTasklet(p) \in Runners /\ DataTasklet(p) # c
  BY Apart
<1>2. PICK a \in {"reset", "reflag", "resubmit", "undo", "kick"} : \E n, t : Moves(c, a, n, t)
  BY <1>1, GoMoves DEF CMDHandler, ResetBulkOutHdlr, ResetMgmt, ResetData, ResetReflag,
     ResetResubmit, ResetUndo, urbs
<1>3. UNCHANGED <<InUse, bWaiting, NullInUse, WritePos, ENextPos>> /\ marks \subseteq marks'
      /\ BulkFlags \subseteq BulkFlags'
  BY DEF CMDHandler, ResetBulkOutHdlr, ResetMgmt, ResetData, ResetReflag, ResetResubmit, ResetUndo,
         ring, data, urbs
<1>4. StillBusy
  <2>1. CASE ResetResubmit
    <3>1. Data(pc[c].arg) \in TxContexts
      BY <1>1, <2>1, PipesOf DEF ResetResubmit, Types, PlaceInv
    <3> QED
      BY <2>1, <3>1 DEF ResetResubmit, StillBusy, Types, TypeOK
  <2>2. CASE ~ResetResubmit
    BY <2>2 DEF CMDHandler, ResetBulkOutHdlr, ResetMgmt, ResetData, ResetReflag, ResetUndo,
                StillBusy, urbs
  <2> QED
    BY <2>1, <2>2
<1>5. /\ pc'[MgmtTasklet] = pc[MgmtTasklet]
      /\ \A p \in Pipes : pc'[DataTasklet(p)] = pc[DataTasklet(p)]
  BY <1>1, <1>2, MoveIs
<1>6. FlagInv'
  BY <1>3, <1>4, <1>5, FlagKept
<1>7. CellInv'
  <2>1. \A i \in Cells : urb[Mgmt(i)] # "idle" => urb'[Mgmt(i)] # "idle"
    BY <1>4, PipesOf DEF StillBusy
  <2> QED
    BY <1>3, <1>5, <2>1, CellKept
<1>8. IdleInv'
  BY <1>1, <1>2, IdleKept
<1>9. LookInv'
  <2>1. CASE a \in Coming
    BY <1>1, <1>2, <2>1, LookArrives
  <2>2. CASE a \notin Coming
    <3>1. pc'[c].at = "reset"
      BY <1>1, <1>2, <2>2, MoveIs DEF Coming
    <3>2. CMDHandler
      <4>1. /\ ~\E u : Kick(c, u)
            /\ ~\E b \in {"reflag", "resubmit", "undo"} : \E m : Go(c, b, m)
        BY <1>1, <3>1 DEF Kick, Go, Types, PlaceInv, PcRecords
      <4> QED
        BY <4>1 DEF ResetBulkOutHdlr, ResetMgmt, ResetData, ResetReflag, ResetResubmit, ResetUndo, urbs
    <3>3. Reset' = Reset /\ pc[c].at \notin Coming \cup {"data", "empty", "null"}
      BY <3>2 DEF CMDHandler, At, Coming, urbs
    <3> QED
      BY <1>1, <1>2, <1>3, <1>4, <3>3, LookPassed
  <2> QED
    BY <2>1, <2>2
<1> QED
  BY <1>6, <1>7, <1>8, <1>9

\* Completions: a transfer that ends leaves its tasklet on the way to a kick.
LEMMA ReleaseWaits ==
  ASSUME Types, WaitInv, NEW x \in TxContexts, Released(x), TaskletOf(x) \in Runners,
         NEW a \in Coming, NEW n, NEW t, Moves(TaskletOf(x), a, n, t)
  PROVE  /\ LookInv' /\ IdleInv' /\ marks \subseteq marks'
         /\ \A y \in TxContexts : y # x => urb'[y] = urb[y]
         /\ pc[TaskletOf(x)].at \in {"idle", "failed"}
<1>1. a # "idle"
  BY DEF Coming
<1>2. marks \subseteq marks' /\ urb' = [urb EXCEPT ![x] = "idle"]
      /\ pc[TaskletOf(x)].at \in {"idle", "failed"}
  BY ReleaseMarks DEF Marked, At
<1>3. LookInv'
  BY <1>1, LookArrives
<1>4. IdleInv'
  BY <1>1, IdleKept DEF WaitInv
<1> QED
  BY <1>2, <1>3, <1>4 DEF Types, TypeOK

LEMMA MgmtDoneWaits ==
  ASSUME Types, WaitInv, NEW i \in Cells, MgmtDone(i)
  PROVE  WaitInv'
<1>1. /\ Mgmt(i) \in TxContexts /\ TaskletOf(Mgmt(i)) = MgmtTasklet /\ MgmtTasklet \in Runners
      /\ \A j \in Cells : Mgmt(j) \in TxContexts /\ (Mgmt(j) = Mgmt(i) => j = i)
      /\ Null \in TxContexts /\ Null # Mgmt(i)
      /\ \A p \in Pipes : Data(p) \in TxContexts /\ Data(p) # Mgmt(i)
      /\ \A p \in Pipes : DataTasklet(p) \in Runners /\ DataTasklet(p) # MgmtTasklet
  <2>1. /\ \A j \in Cells : Mgmt(j) = Mgmt(i) => j = i
        /\ Null # Mgmt(i) /\ \A p \in Pipes : Data(p) # Mgmt(i)
    BY DEF Mgmt, Data, Null
  <2>2. /\ Mgmt(i) \in TxContexts /\ TaskletOf(Mgmt(i)) = MgmtTasklet /\ Null \in TxContexts
        /\ \A j \in Cells : Mgmt(j) \in TxContexts
        /\ \A p \in Pipes : Data(p) \in TxContexts
    BY PipesOf
  <2>3. /\ MgmtTasklet \in Runners
        /\ \A p \in Pipes : DataTasklet(p) \in Runners /\ DataTasklet(p) # MgmtTasklet
    BY Apart, TaskletNames
  <2> QED
    BY <2>1, <2>2, <2>3
<1>2. Moves(MgmtTasklet, "ring", i, pc[MgmtTasklet].then) /\ Released(Mgmt(i))
  BY <1>1, GoMoves DEF MgmtDone
<1>3. /\ LookInv' /\ IdleInv' /\ marks \subseteq marks'
      /\ \A y \in TxContexts : y # Mgmt(i) => urb'[y] = urb[y]
      /\ pc[MgmtTasklet].at \in {"idle", "failed"}
  BY <1>1, <1>2, ReleaseWaits DEF Coming
<1>4. /\ pc'[MgmtTasklet].at = "ring" /\ pc'[MgmtTasklet].arg = i
      /\ \A p \in Pipes : pc'[DataTasklet(p)] = pc[DataTasklet(p)]
  <2>1. /\ pc'[MgmtTasklet].at = "ring" /\ pc'[MgmtTasklet].arg = i
        /\ \A d \in Runners : d # MgmtTasklet => pc'[d] = pc[d]
    BY <1>1 DEF MgmtDone, Go, Types, PlaceInv, PcRecords
  <2> QED
    BY <1>1, <2>1
<1>5. UNCHANGED <<BulkFlags, InUse, bWaiting, WritePos, ENextPos, NullInUse>>
  BY DEF MgmtDone, ring, data
<1>6. Clear' => Clear
  BY <1>3
<1>7. CellInv'
  <2>1. ASSUME Clear, NEW j \in InUse \ bWaiting, j # i
        PROVE  urb'[Mgmt(j)] # "idle"
    <3>1. j \in Cells /\ Mgmt(j) # Mgmt(i)
      BY <1>1, <2>1 DEF Types, TypeOK
    <3>2. urb[Mgmt(j)] # "idle"
      BY <1>3, <2>1 DEF WaitInv, CellInv, At
    <3> QED
      BY <1>1, <1>3, <3>1, <3>2
  <2> QED
    BY <1>4, <1>5, <1>6, <2>1 DEF CellInv, At
<1>8. FlagInv'
  <2>1. urb'[Null] = urb[Null] /\ \A p \in Pipes : urb'[Data(p)] = urb[Data(p)]
    BY <1>1, <1>3
  <2> QED
    BY <1>4, <1>5, <1>6, <2>1 DEF WaitInv, FlagInv, At
<1> QED
  BY <1>3, <1>7, <1>8 DEF WaitInv

LEMMA NullDoneWaits ==
  ASSUME Types, WaitInv, NullDone
  PROVE  WaitInv'
<1>1. /\ Null \in TxContexts /\ TaskletOf(Null) = NullTasklet /\ NullTasklet \in Runners
      /\ \A j \in Cells : Mgmt(j) \in TxContexts /\ Mgmt(j) # Null
      /\ \A p \in Pipes : Data(p) \in TxContexts /\ Data(p) # Null
      /\ \A p \in Pipes : DataTasklet(p) \in Runners /\ DataTasklet(p) # NullTasklet
      /\ MgmtTasklet \in Runners /\ MgmtTasklet # NullTasklet
  BY PipesOf, Apart, TaskletNames DEF Mgmt, Data, Null
<1>2. PICK a \in {"after", "kick"} : \E n, t : Moves(NullTasklet, a, n, t)
  BY <1>1, GoMoves DEF NullDone
<1>3. Released(Null) /\ a \in Coming
  BY DEF NullDone, Coming
<1>4. /\ LookInv' /\ IdleInv' /\ marks \subseteq marks'
      /\ \A y \in TxContexts : y # Null => urb'[y] = urb[y]
  BY <1>1, <1>2, <1>3, ReleaseWaits
<1>5. /\ pc'[MgmtTasklet] = pc[MgmtTasklet]
      /\ \A p \in Pipes : pc'[DataTasklet(p)] = pc[DataTasklet(p)]
  BY <1>1, <1>2, MoveIs
<1>6. UNCHANGED <<BulkFlags, InUse, bWaiting, WritePos, ENextPos>> /\ ~NullInUse'
  BY DEF NullDone, ring, data
<1>7. CellInv'
  BY <1>1, <1>4, <1>5, <1>6, CellKept DEF WaitInv
<1>8. FlagInv'
  <2>1. \A p \in Pipes : urb'[Data(p)] = urb[Data(p)]
    BY <1>1, <1>4
  <2>2. Clear' => Clear
    BY <1>4
  <2> QED
    BY <1>5, <1>6, <2>1, <2>2 DEF WaitInv, FlagInv, At
<1> QED
  BY <1>4, <1>7, <1>8 DEF WaitInv

LEMMA DataDoneWaits ==
  ASSUME Types, SentInv, WaitInv, NEW p \in Pipes, DataDone(p)
  PROVE  WaitInv'
<1>0. CASE "misdirected" \in marks
  <2>1. PICK d \in Runners : \E n, t : Moves(d, "after", n, t)
    BY SentIs, PipesOf, GoMoves DEF DataDone
  <2>2. IdleInv'
    BY <2>1, IdleKept DEF WaitInv
  <2>3. ~Clear'
    BY <1>0, PipesOf, ReleaseMarks DEF DataDone, Marked
  <2> QED
    BY <2>2, <2>3 DEF WaitInv, LookInv, FlagInv, CellInv
<1> SUFFICES ASSUME "misdirected" \notin marks PROVE WaitInv'
  BY <1>0
<1> DEFINE c == DataTasklet(p)
<1>1. /\ Data(p) \in TxContexts /\ TaskletOf(Data(p)) = c /\ c \in Runners
      /\ \A j \in Cells : Mgmt(j) \in TxContexts /\ Mgmt(j) # Data(p)
      /\ Null \in TxContexts /\ Null # Data(p)
      /\ \A q \in Pipes : Data(q) \in TxContexts /\ (q # p => Data(q) # Data(p))
      /\ \A q \in Pipes : DataTasklet(q) \in Runners /\ (q # p => DataTasklet(q) # c)
      /\ MgmtTasklet \in Runners /\ MgmtTasklet # c
  BY PipesOf, Apart, TaskletNames, Straight DEF Mgmt, Data, Null, DataTasklet
<1>2. Moves(c, "after", p, pc[c].then) /\ Released(Data(p))
  BY <1>1, GoMoves DEF DataDone
<1>3. /\ LookInv' /\ IdleInv' /\ marks \subseteq marks'
      /\ \A y \in TxContexts : y # Data(p) => urb'[y] = urb[y]
  BY <1>1, <1>2, ReleaseWaits DEF Coming
<1>4. /\ pc'[MgmtTasklet] = pc[MgmtTasklet] /\ pc'[c].at = "after"
      /\ \A q \in Pipes : q # p => pc'[DataTasklet(q)] = pc[DataTasklet(q)]
  BY <1>1, <1>2, MoveIs
<1>5. UNCHANGED <<BulkFlags, InUse, bWaiting, WritePos, ENextPos, NullInUse>>
  BY DEF DataDone, ring
<1>6. CellInv'
  BY <1>1, <1>3, <1>4, <1>5, CellKept DEF WaitInv
<1>7. FlagInv'
  <2>1. urb'[Null] = urb[Null] /\ \A q \in Pipes : q # p => urb'[Data(q)] = urb[Data(q)]
    BY <1>1, <1>3
  <2>2. Clear' => Clear
    BY <1>3
  <2> QED
    BY <1>4, <1>5, <2>1, <2>2 DEF WaitInv, FlagInv, At
<1> QED
  BY <1>3, <1>6, <1>7 DEF WaitInv

LEMMA RingDoneWaits ==
  ASSUME Types, WaitInv, MgmtRingDone
  PROVE  WaitInv'
<1> DEFINE c == MgmtTasklet
<1>1. c \in Runners /\ \A p \in Pipes : DataTasklet(p) \in Runners /\ DataTasklet(p) # c
  BY Apart, TaskletNames
<1>2. Moves(c, "after", 0, pc[c].then)
  BY <1>1, GoMoves DEF MgmtRingDone, urbs
<1>3. LookInv' /\ IdleInv'
  BY <1>1, <1>2, LookArrives, IdleKept DEF Coming, WaitInv
<1>4. UNCHANGED <<urb, BulkFlags, NullInUse, WritePos, ENextPos, marks>>
  BY DEF MgmtRingDone, data, urbs
<1>5. \A p \in Pipes : pc'[DataTasklet(p)] = pc[DataTasklet(p)]
  BY <1>1, <1>2, MoveIs
<1>6. FlagInv'
  BY <1>4, <1>5, FlagKept DEF WaitInv, StillBusy
<1>7. CellInv'
  BY <1>4 DEF WaitInv, CellInv, MgmtRingDone, urbs
<1> QED
  BY <1>3, <1>6, <1>7 DEF WaitInv

LEMMA TaskletWaits ==
  ASSUME Types, SentInv, WaitInv, MgmtAfter \/ NullAfter \/ \E p \in Pipes : DataAfter(p) \/ DataAgain(p)
  PROVE  WaitInv'
<1> USE DEF WaitInv
<1>1. /\ MgmtTasklet \in Runners /\ NullTasklet \in Runners
      /\ \A p \in Pipes : DataTasklet(p) \in Runners
      /\ \A p \in Pipes : DataTasklet(p) # MgmtTasklet /\ DataTasklet(p) # NullTasklet
      /\ \A p, q \in Pipes : DataTasklet(p) = DataTasklet(q) => p = q
  BY Apart, TaskletNames DEF DataTasklet
<1>2. /\ UNCHANGED <<urb, InUse, bWaiting, NullInUse, WritePos, ENextPos, Reset>>
      /\ marks \subseteq marks' /\ BulkFlags \subseteq BulkFlags' /\ StillBusy
  BY DEF MgmtAfter, NullAfter, DataAfter, DataAgain, RTEnqueueInternalCmd, ring, data, resets,
         StillBusy, urbs
<1>3. PICK c \in Runners : /\ pc[c].at \in {"after", "again"}
                           /\ \/ Kick(c, "idle") \/ Kick(c, "again")
                              \/ Stop(c) /\ Reset
  <2>1. CASE MgmtAfter
    BY <1>1, <2>1 DEF MgmtAfter, At, urbs
  <2>2. CASE NullAfter
    BY <1>1, <2>2 DEF NullAfter, At, urbs
  <2>3. CASE \E p \in Pipes : DataAfter(p) \/ DataAgain(p)
    BY <1>1, <2>3 DEF DataAfter, DataAgain, At, urbs
  <2> QED
    BY <2>1, <2>2, <2>3
<1>4. PICK a \in {"kick", "idle"} : /\ \E t : Moves(c, a, 0, t)
                                    /\ a = "idle" => Reset /\ Moves(c, "idle", 0, "idle")
  BY <1>3, GoMoves
<1>5. IdleInv'
  <2>1. CASE a = "kick"
    BY <1>4, <2>1, IdleKept
  <2>2. CASE a = "idle"
    BY <1>4, <2>2, IdleKept
  <2> QED
    BY <2>1, <2>2
<1>6. LookInv'
  BY <1>2, <1>4, LookArrives, LookReset DEF Coming
<1>7. CellInv'
  <2>1. At(MgmtTasklet, "ring") => pc'[MgmtTasklet] = pc[MgmtTasklet]
    BY <1>1, <1>3, <1>4, MoveIs DEF At
  <2> QED
    BY <1>2, <2>1, CellKept
<1>8. FlagInv'
  <2>1. CASE \E p \in Pipes : DataAfter(p)
    <3>1. PICK p \in Pipes : DataAfter(p)
      BY <2>1
    <3>2. Moves(DataTasklet(p), "kick", 0, "again")
      BY <1>1, <3>1, GoMoves DEF DataAfter, urbs
    <3>3. \A q \in Pipes : q # p => pc'[DataTasklet(q)] = pc[DataTasklet(q)]
      BY <1>1, <3>2, MoveIs
    <3>4. Clear /\ ENextPos[p] # WritePos[p] => Data(p) \in BulkFlags'
      BY <3>1 DEF DataAfter, SentInv, urbs
    <3>5. marks' = marks
      BY <3>1 DEF DataAfter, urbs
    <3> QED
      BY <1>2, <3>3, <3>4, <3>5 DEF FlagInv, At
  <2>2. CASE MgmtAfter \/ NullAfter \/ \E p \in Pipes : DataAgain(p)
    <3>1. \A q \in Pipes : At(DataTasklet(q), "after") => pc'[DataTasklet(q)] = pc[DataTasklet(q)]
      <4>1. PICK d \in Runners : /\ \A q \in Pipes : d = DataTasklet(q) => pc[d].at = "again"
                                 /\ \E b, n, t : Moves(d, b, n, t)
        <5>1. CASE MgmtAfter
          BY <1>1, <5>1, GoMoves DEF MgmtAfter, urbs
        <5>2. CASE NullAfter
          BY <1>1, <5>2, GoMoves DEF NullAfter, urbs
        <5>3. CASE \E p \in Pipes : DataAgain(p)
          BY <1>1, <5>3, GoMoves DEF DataAgain, At, urbs
        <5> QED
          BY <2>2, <5>1, <5>2, <5>3
      <4> QED
        BY <1>1, <4>1, MoveIs DEF At
    <3> QED
      BY <1>2, <3>1, FlagKept
  <2> QED
    BY <2>1, <2>2
<1> QED
  BY <1>5, <1>6, <1>7, <1>8

\* A runner turned away from a pipe that nobody only found empty: a reset, a transfer or
\* the command thread will kick.
LEMMA TurnedAway ==
  ASSUME IInv, "misdirected" \notin marks, NEW p \in Pipes, ~PipeFree(p), Missed(p) = {}
  PROVE  Reset \/ Busy(p) \/ \E a \in {"resubmit", "undo"} : At(CmdThread, a)
<1>1. CASE Reset
  BY <1>1
<1>2. CASE Pending[p]
  <2>1. PICK z : z \in Claims(p)
    BY <1>2 DEF IInv, ClaimInv
  <2>2. ~\E c \in Runners : At(c, "empty") /\ pc[c].arg = p
    BY DEF Missed
  <2> QED
    BY <2>1, <2>2 DEF Claims, Busy
<1> QED
  BY <1>1, <1>2 DEF PipeFree

LEMMA OtherComes ==
  ASSUME NEW d \in Runners, pc'[d].at \in Coming, NEW p, NEW n \in Nat
  PROVE  Comes(p, n)'
<1>1. Rank(pc'[d]) = 0
  BY DEF Rank
<1> QED
  BY <1>1 DEF Comes

\* What every step of a kick leaves alone.
LEMMA KickIs ==
  ASSUME IInv, IdleInv, NEW c \in Runners, RTUSBKickBulkOut(c)
  PROVE  /\ pc[c].at \in {"kick", "take", "data", "empty", "null"}
         /\ UNCHANGED <<Reset, InUse, NullInUse, WritePos>> /\ marks \subseteq marks'
         /\ StillBusy /\ IdleInv'
         /\ \A d \in Runners : d # c => pc'[d] = pc[d]
<1>1. pc[c].at \in {"kick", "take", "data", "empty", "null"}
  BY DEF RTUSBKickBulkOut, KickLook, KickTake, KickUnflagged, KickData, KickEmpty, KickNull, At, urbs
<1>2. UNCHANGED <<Reset, InUse, NullInUse, WritePos>> /\ marks \subseteq marks'
  BY KickMarked
  DEF RTUSBKickBulkOut, KickLook, KickTake, KickUnflagged, KickData, KickEmpty, KickNull, resets, ring, data, Marked, urbs
<1>3. (\E a \in {"take", "data", "null", "empty", "again"} : \E n : Go(c, a, n)) \/ Stop(c)
  <2>1. \A p : AfterPipe(c, p) => (\E a \in {"data", "again"} : \E n : Go(c, a, n)) \/ Stop(c)
    BY DEF AfterPipe, Returns
  <2> QED
    BY <2>1 DEF RTUSBKickBulkOut, KickLook, KickTake, KickUnflagged, KickData, KickEmpty, KickNull, AfterPipe, Returns, urbs
<1>4. PICK a : \E n, t : Moves(c, a, n, t) /\ (a = "idle" => n = 0 /\ t = "idle")
  <2>1. CASE Stop(c)
    BY <2>1, GoMoves DEF IInv
  <2>2. ASSUME NEW a \in {"take", "data", "null", "empty", "again"}, NEW n, Go(c, a, n)
        PROVE  Moves(c, a, n, pc[c].then) /\ a # "idle"
    BY <2>2, GoMoves DEF IInv
  <2> QED
    BY <1>3, <2>1, <2>2
<1>5. IdleInv' /\ \A d \in Runners : d # c => pc'[d] = pc[d]
  BY <1>4, IdleKept, MoveIs DEF IInv
<1>6. StillBusy
  <2>1. PICK x \in TxContexts : UNCHANGED urb \/ Submitted(x)
    <3>1. CASE KickLook(c) \/ KickEmpty(c)
      BY <3>1, PipesOf DEF KickLook, KickEmpty, urbs
    <3>5. CASE KickUnflagged(c)
      BY <3>5, PipesOf DEF KickUnflagged, urbs
    <3>2. CASE KickTake(c)
      <4>1. Mgmt(pc[c].arg) \in TxContexts
        BY <3>2, PipesOf DEF KickTake, IInv, Types, PlaceInv
      <4> QED
        BY <3>2, <4>1 DEF KickTake, Refused
    <3>3. CASE KickData(c)
      <4>1. Data(pc[c].arg) \in TxContexts
        BY <3>3, PipesOf DEF KickData, IInv, Types, PlaceInv, urbs
      <4> QED
        BY <3>3, <4>1 DEF KickData, Refused, urbs
    <3>4. CASE KickNull(c)
      BY <3>4, PipesOf DEF KickNull, Refused
    <3> QED
      BY <3>1, <3>2, <3>3, <3>4, <3>5 DEF RTUSBKickBulkOut
  <2> QED
    BY <2>1 DEF Submitted, StillBusy, IInv, Types, TypeOK, urbs
<1> QED
  BY <1>1, <1>2, <1>5, <1>6

\* A runner turned away, or one that submitted, leaves somebody to come.
LEMMA StillComes ==
  ASSUME IInv, NEW c \in Runners, pc[c].at \notin {"resubmit", "undo"},
         \A d \in Runners : d # c => pc'[d] = pc[d], UNCHANGED Reset, StillBusy,
         NEW p \in Pipes, NEW n \in Nat, "misdirected" \notin marks, ~PipeFree(p), Missed(p) = {}
  PROVE  Comes(p, n)'
<1>1. CASE Reset
  BY <1>1 DEF Comes
<1>2. CASE Busy(p)
  BY <1>2 DEF Comes, Busy, StillBusy
<1>3. CASE \E a \in {"resubmit", "undo"} : At(CmdThread, a)
  <2>1. CmdThread # c /\ CmdThread \in Runners
    BY <1>3, Apart DEF At
  <2>2. pc'[CmdThread].at \in Coming
    BY <1>3, <2>1 DEF At, Coming
  <2> QED
    BY <2>1, <2>2, OtherComes
<1> QED
  BY <1>1, <1>2, <1>3, TurnedAway

LEMMA Sends ==
  ASSUME Types, NEW x \in TxContexts, urb' = [urb EXCEPT ![x] = "out"]
  PROVE  \A n : Comes(PipeOf(x), n)'
  BY DEF Comes, Busy, Types, TypeOK

LEMMA KickLookWaits ==
  ASSUME IInv, RingInv, WaitInv, NEW c \in Runners, KickLook(c)
  PROVE  WaitInv'
<1> USE DEF WaitInv
<1>1. /\ pc[c].at = "kick" /\ UNCHANGED <<Reset, InUse, NullInUse, WritePos, ENextPos, bWaiting, urb>>
      /\ marks' = marks /\ StillBusy /\ IdleInv'
      /\ \A d \in Runners : d # c => pc'[d] = pc[d]
  BY KickIs DEF RTUSBKickBulkOut, KickLook, At, ring, data, urbs
<1>2. \A d \in Runners, b \in {"after", "ring"} : At(d, b) => pc'[d] = pc[d]
  BY <1>1 DEF At
<1>3. CellInv'
  BY <1>1, <1>2, Apart, CellKept DEF IInv
<1>4. FlagInv'
  <2>1. BulkFlags \ {MlmeFlag} \subseteq BulkFlags'
    BY DEF KickLook, urbs
  <2> QED
    BY <1>1, <1>2, <2>1, Apart, FlagKept
<1>5. LookInv'
  <2>1. CASE Reset
    BY <1>1, <2>1, LookReset
  <2>2. CASE Go(c, "take", TxDmaIdx)
    BY <2>2, GoMoves, LookArrives DEF Coming, IInv
  <2>3. CASE ~Reset /\ ~(/\ MlmeFlag \in BulkFlags \/ TxSwFreeIdx < MGMT_RING_SIZE
                         /\ CellReady)
    <3>1. Moves(c, "data", 0, pc[c].then)
      BY <2>3, GoMoves DEF KickLook, IInv, urbs
    <3>2. ASSUME Clear, bWaiting # {}
          PROVE  Comes(0, 0)'
      <4>1. /\ RingIs(TxSwFreeIdx, TxDmaIdx, TxCpuIdx, InUse) /\ bWaiting \subseteq InUse
            /\ TxDmaIdx \in Cells /\ TxSwFreeIdx \in Nat
        BY <3>2 DEF RingInv, IInv, Types, TypeOK
      <4>2. TxSwFreeIdx < MGMT_RING_SIZE /\ TxDmaIdx \in InUse
        <5>1. PICK i \in InUse : TRUE
          BY <3>2, <4>1
        <5>2. /\ i \in Cells /\ Away(TxDmaIdx, i) < MGMT_RING_SIZE - TxSwFreeIdx
              /\ InUse = {j \in Cells : Away(TxDmaIdx, j) < MGMT_RING_SIZE - TxSwFreeIdx}
          BY <4>1, <5>1 DEF RingIs
        <5>3. Away(TxDmaIdx, i) \in Nat /\ Away(TxDmaIdx, TxDmaIdx) = 0 /\ MGMT_RING_SIZE \in Nat
          BY <4>1, <5>2, AwayIs, CellsFinite
        <5>4. 0 < MGMT_RING_SIZE - TxSwFreeIdx
          BY <4>1, <5>2, <5>3
        <5> QED
          BY <4>1, <5>2, <5>3, <5>4
      <4>3. TxDmaIdx \in InUse \ bWaiting
        BY <2>3, <4>2 DEF CellReady
      <4>4. CASE urb[Mgmt(TxDmaIdx)] # "idle"
        <5>1. Mgmt(TxDmaIdx) \in TxContexts /\ PipeOf(Mgmt(TxDmaIdx)) = 0
          BY <4>1, PipesOf DEF MGMTPIPEIDX
        <5> QED
          BY <1>1, <4>4, <5>1 DEF Comes, Busy
      <4>5. CASE At(MgmtTasklet, "ring")
        BY <1>2, <4>5, Apart, OtherComes DEF At, Coming
      <4> QED
        BY <3>2, <4>3, <4>4, <4>5 DEF CellInv
    <3>3. ASSUME Clear, NEW p \in Pipes, NEW n \in 0 .. 5, Waiting(p, n)'
          PROVE  \/ Comes(p, n)'
                 \/ /\ Waiting(p, n)
                    /\ Rank(pc[c]) <= n => Rank([at |-> "data", arg |-> 0, then |-> pc[c].then]) <= n
      <4>1. Waiting(p, n)
        BY <1>1, <3>3 DEF Waiting
      <4>2. CASE n = 0
        BY <3>2, <3>3, <4>1, <4>2 DEF Waiting, Pipes
      <4>3. CASE n # 0
        BY <4>1, <4>3 DEF Rank, Coming
      <4> QED
        BY <4>2, <4>3
    <3> QED
      BY <1>1, <3>1, <3>3, LookKept DEF IInv
  <2> QED
    BY <2>1, <2>2, <2>3 DEF KickLook, urbs
<1> QED
  BY <1>1, <1>3, <1>4, <1>5

LEMMA KickTakeWaits ==
  ASSUME IInv, WaitInv, NEW c \in Runners, KickTake(c)
  PROVE  WaitInv'
<1> USE DEF WaitInv
<1>1. /\ pc[c].at = "take" /\ UNCHANGED <<Reset, InUse, NullInUse, WritePos, ENextPos>>
      /\ marks \subseteq marks' /\ StillBusy /\ IdleInv'
      /\ \A d \in Runners : d # c => pc'[d] = pc[d]
  BY KickIs DEF RTUSBKickBulkOut, KickTake, At, data
<1>2. \A d \in Runners, b \in {"after", "ring"} : At(d, b) => pc'[d] = pc[d]
  BY <1>1 DEF At
<1>3. PICK i \in Cells : i = pc[c].arg /\ Mgmt(i) \in TxContexts /\ PipeOf(Mgmt(i)) = 0
  BY PipesOf DEF KickTake, IInv, Types, PlaceInv, MGMTPIPEIDX
<1>4. FlagInv'
  <2>1. BulkFlags \ {MlmeFlag} \subseteq BulkFlags'
    BY DEF KickTake
  <2> QED
    BY <1>1, <1>2, <2>1, Apart, FlagKept
<1>5. \/ /\ ~PipeFree(0) /\ marks' = marks \cup Missed(0) /\ UNCHANGED <<urb, bWaiting>>
      \/ urb' = [urb EXCEPT ![Mgmt(i)] = "out"] /\ bWaiting' = bWaiting \ {i}
      \/ "submit" \in marks'
  BY <1>3 DEF KickTake, Submitted, MGMTPIPEIDX
<1>6. CellInv'
  <2>1. CASE UNCHANGED bWaiting
    <3>1. \A j \in Cells : urb[Mgmt(j)] # "idle" => urb'[Mgmt(j)] # "idle"
      BY <1>1, PipesOf DEF StillBusy
    <3> QED
      BY <1>1, <1>2, <2>1, <3>1, Apart, CellKept DEF IInv
  <2>2. CASE urb' = [urb EXCEPT ![Mgmt(i)] = "out"] /\ bWaiting' = bWaiting \ {i}
    <3>1. SUFFICES ASSUME Clear', NEW j \in InUse \ bWaiting'
                   PROVE  \/ urb'[Mgmt(j)] # "idle"
                          \/ At(MgmtTasklet, "ring")' /\ pc'[MgmtTasklet].arg = j
      BY <1>1 DEF CellInv
    <3>2. Clear /\ j \in Cells /\ Mgmt(j) \in TxContexts
      BY <1>1, <3>1, PipesOf DEF IInv, Types, TypeOK
    <3>3. CASE j = i
      BY <1>3, <2>2, <3>3 DEF IInv, Types, TypeOK
    <3>4. CASE j # i
      <4>1. urb[Mgmt(j)] # "idle" \/ (At(MgmtTasklet, "ring") /\ pc[MgmtTasklet].arg = j)
        BY <2>2, <3>1, <3>2, <3>4 DEF CellInv
      <4>2. urb[Mgmt(j)] # "idle" => urb'[Mgmt(j)] # "idle"
        BY <1>1, <3>2 DEF StillBusy
      <4>3. At(MgmtTasklet, "ring") => pc'[MgmtTasklet] = pc[MgmtTasklet]
        BY <1>2, Apart
      <4> QED
        BY <4>1, <4>2, <4>3 DEF At
    <3> QED
      BY <3>3, <3>4
  <2>3. CASE "submit" \in marks'
    BY <2>3 DEF CellInv
  <2> QED
    BY <1>5, <2>1, <2>2, <2>3
<1>7. LookInv'
  <2>1. Moves(c, "data", 0, pc[c].then)
    BY GoMoves DEF KickTake, IInv
  <2>2. ASSUME Clear' PROVE Comes(0, 0)'
    <3>1. Clear /\ "misdirected" \notin marks
      BY <1>1, <2>2
    <3>2. CASE ~PipeFree(0) /\ marks' = marks \cup Missed(0)
      <4>1. 0 \in Pipes /\ Missed(0) = {}
        BY <2>2, <3>2 DEF Pipes, Missed
      <4> QED
        BY <1>1, <3>1, <3>2, <4>1, StillComes
    <3>3. CASE urb' = [urb EXCEPT ![Mgmt(i)] = "out"]
      <4>1. Comes(PipeOf(Mgmt(i)), 0)'
        BY <1>3, <3>3, Sends DEF IInv
      <4> QED
        BY <1>3, <3>3 DEF Comes, Busy, IInv, Types, TypeOK
    <3> QED
      BY <1>5, <2>2, <3>2, <3>3
  <2>3. ASSUME Clear', NEW p \in Pipes, NEW n \in 0 .. 5, Waiting(p, n)'
        PROVE  \/ Comes(p, n)'
               \/ /\ Waiting(p, n)
                  /\ Rank(pc[c]) <= n => Rank([at |-> "data", arg |-> 0, then |-> pc[c].then]) <= n
    <3>1. CASE n = 0
      BY <2>2, <2>3, <3>1, <1>1 DEF Waiting, Pipes
    <3>2. CASE n # 0
      <4>1. Waiting(p, n)
        BY <1>1, <2>3, <3>2 DEF Waiting
      <4> QED
        BY <3>2, <4>1 DEF Rank, Coming
    <3> QED
      BY <3>1, <3>2
  <2> QED
    BY <1>1, <2>1, <2>3, LookKept DEF IInv
<1> QED
  BY <1>1, <1>4, <1>6, <1>7

\* A pipe that is not flagged is passed by: what was written to it is on its way.
LEMMA KickUnflaggedWaits ==
  ASSUME IInv, WaitInv, NEW c \in Runners, KickUnflagged(c)
  PROVE  WaitInv'
<1> USE DEF WaitInv
<1>1. /\ pc[c].at = "data" /\ StillBusy /\ IdleInv'
      /\ UNCHANGED <<Reset, InUse, NullInUse, WritePos, ENextPos, bWaiting, urb, BulkFlags, marks>>
      /\ \A d \in Runners : d # c => pc'[d] = pc[d]
  BY KickIs DEF RTUSBKickBulkOut, KickUnflagged, At, ring, data, urbs
<1>2. \A d \in Runners, b \in {"after", "ring"} : At(d, b) => pc'[d] = pc[d]
  BY <1>1 DEF At
<1>3. PICK p \in Pipes : /\ p = pc[c].arg /\ Data(p) \in TxContexts /\ PipeOf(Data(p)) = p
                         /\ Data(p) \notin BulkFlags
  BY PipesOf DEF KickUnflagged, IInv, Types, PlaceInv, urbs
<1>4. CellInv' /\ FlagInv'
  BY <1>1, <1>2, Apart, CellKept, FlagKept DEF IInv
<1>5. PICK a, k : Moves(c, a, k, pc[c].then)
                  /\ Rank([at |-> a, arg |-> k, then |-> pc[c].then]) = IF p = 0 THEN 3 ELSE 5
  <2>1. CASE p = 0
    <3>1. Moves(c, "data", 1, pc[c].then)
      BY <1>3, <2>1, GoMoves DEF KickUnflagged, IInv, urbs
    <3> QED
      BY <2>1, <3>1 DEF Rank, Coming
  <2>2. CASE p # 0
    <3>1. Moves(c, "null", 0, pc[c].then)
      BY <1>3, <2>2, GoMoves DEF KickUnflagged, IInv, Pipes, urbs
    <3> QED
      BY <2>2, <3>1 DEF Rank, Coming
  <2> QED
    BY <2>1, <2>2
<1>6. ASSUME Clear, WritePos[p] # ENextPos[p] PROVE Comes(p, 2 * p + 1)'
  <2>1. CASE urb[Data(p)] # "idle"
    BY <1>1, <1>3, <2>1 DEF Comes, Busy
  <2>2. CASE At(DataTasklet(p), "after")
    <3>1. 2 * p + 1 \in Nat
      BY DEF Pipes
    <3> QED
      BY <1>2, <2>2, <3>1, Apart, OtherComes DEF At, Coming
  <2> QED
    BY <1>3, <1>6, <2>1, <2>2 DEF FlagInv
<1>7. ASSUME Clear', NEW q \in Pipes, NEW n \in 0 .. 5, Waiting(q, n)'
      PROVE  \/ Comes(q, n)'
             \/ /\ Waiting(q, n)
                /\ Rank(pc[c]) <= n => Rank([at |-> a, arg |-> k, then |-> pc[c].then]) <= n
  <2>1. Rank(pc[c]) = 2 * p + 1
    BY <1>1, <1>3 DEF Rank, Coming
  <2>2. Waiting(q, n)
    BY <1>1, <1>7 DEF Waiting
  <2>3. CASE q = p /\ n = 2 * p + 1 /\ WritePos[p] # ENextPos[p]
    BY <1>1, <1>6, <1>7, <2>3
  <2>4. CASE ~(q = p /\ n = 2 * p + 1 /\ WritePos[p] # ENextPos[p])
    <3>1. n = 0 \/ n = 5 \/ (n = 2 * q + 1 /\ q # p)
      BY <2>2, <2>4 DEF Waiting
    <3> QED
      BY <1>5, <2>1, <2>2, <3>1 DEF Pipes
  <2> QED
    BY <2>3, <2>4
<1>8. LookInv'
  BY <1>1, <1>5, <1>7, LookKept DEF IInv
<1> QED
  BY <1>1, <1>4, <1>8

\* The last pipe, flagged, hides the null frame: it is no longer waited for, unless it is
\* on its way already.
LEMMA NullHidden ==
  ASSUME IInv, FlagInv, marks \subseteq marks', UNCHANGED NullInUse, StillBusy, Hides(1) \subseteq marks',
         Clear', NullInUse', "hidden" \notin marks'
  PROVE  Comes(0, 5)'
<1>1. Null \notin BulkFlags
  BY DEF Hides
<1>2. urb'[Null] # "idle"
  BY <1>1, PipesOf DEF FlagInv, StillBusy
<1> QED
  BY <1>2, PipesOf DEF Comes, Busy, MGMTPIPEIDX

\* A look at pipe p, once turned away, or having taken the next batch.
LEMMA KickDataWaits ==
  ASSUME IInv, WaitInv, NEW c \in Runners, KickData(c)
  PROVE  WaitInv'
<1> USE DEF WaitInv
<1>1. /\ pc[c].at = "data" /\ UNCHANGED <<Reset, InUse, NullInUse, WritePos, bWaiting>>
      /\ marks \subseteq marks' /\ StillBusy /\ IdleInv'
      /\ \A d \in Runners : d # c => pc'[d] = pc[d]
  BY KickIs DEF RTUSBKickBulkOut, KickData, At, ring, urbs
<1>2. \A d \in Runners, b \in {"after", "ring"} : At(d, b) => pc'[d] = pc[d]
  BY <1>1 DEF At
<1>3. PICK p \in Pipes : p = pc[c].arg /\ Data(p) \in TxContexts /\ PipeOf(Data(p)) = p
  BY PipesOf DEF KickData, IInv, Types, PlaceInv, urbs
<1>4. CellInv'
  <2>1. \A j \in Cells : urb[Mgmt(j)] # "idle" => urb'[Mgmt(j)] # "idle"
    BY <1>1, PipesOf DEF StillBusy
  <2> QED
    BY <1>1, <1>2, <2>1, Apart, CellKept DEF IInv
<1>5. /\ Hides(p) \subseteq marks'
      /\ \/ /\ ~PipeFree(p) /\ (WritePos[p] # ENextPos[p] => Missed(p) \subseteq marks')
            /\ UNCHANGED <<urb, ENextPos, BulkFlags>>
         \/ ENextPos[p] = WritePos[p] /\ UNCHANGED <<urb, ENextPos, BulkFlags>>
         \/ /\ BulkFlags' = BulkFlags \ {Data(p)} /\ urb' = [urb EXCEPT ![Data(p)] = "out"]
            /\ \A q \in Pipes : q # p => ENextPos'[q] = ENextPos[q]
         \/ ~Clear'
  BY <1>3 DEF KickData, Submitted, IInv, Types, urbs
<1>6. FlagInv'
  <2>1. CASE UNCHANGED <<BulkFlags, ENextPos>>
    BY <1>1, <1>2, <2>1, Apart, FlagKept
  <2>2. CASE /\ BulkFlags' = BulkFlags \ {Data(p)} /\ urb' = [urb EXCEPT ![Data(p)] = "out"]
             /\ \A q \in Pipes : q # p => ENextPos'[q] = ENextPos[q]
    <3>1. /\ Null # Data(p) /\ Null \in TxContexts
          /\ \A q \in Pipes : Data(q) \in TxContexts /\ (q # p => Data(q) # Data(p))
      BY PipesOf DEF Null, Data
    <3>2. urb'[Data(p)] # "idle" /\ (Clear' => Clear)
      BY <1>1, <1>3, <2>2 DEF IInv, Types, TypeOK
    <3>3. NullInUse /\ Clear => Null \in BulkFlags' \/ urb'[Null] # "idle"
      BY <1>1, <2>2, <3>1 DEF FlagInv, StillBusy
    <3>4. ASSUME NEW q \in Pipes, q # p, WritePos[q] # ENextPos[q], Clear
          PROVE  Data(q) \in BulkFlags' \/ urb'[Data(q)] # "idle" \/ At(DataTasklet(q), "after")'
      <4>1. Data(q) \in BulkFlags \/ urb[Data(q)] # "idle" \/ At(DataTasklet(q), "after")
        BY <3>4 DEF FlagInv
      <4>2. At(DataTasklet(q), "after") => At(DataTasklet(q), "after")'
        BY <1>2, Apart DEF At
      <4> QED
        BY <1>1, <2>2, <3>1, <3>4, <4>1, <4>2 DEF StillBusy
    <3> QED
      BY <1>1, <2>2, <3>2, <3>3, <3>4 DEF FlagInv
  <2>3. CASE ~Clear'
    BY <2>3 DEF FlagInv
  <2> QED
    BY <1>5, <2>1, <2>2, <2>3
<1>7. LookInv'
  <2>1. PICK a, k, t : /\ Moves(c, a, k, t)
                       /\ Rank([at |-> a, arg |-> k, then |-> t]) \in IF p = 0 THEN 2 .. 3 ELSE {6}
    <3>1. (p = 0 /\ Go(c, "data", 1)) \/ (p = 1 /\ Returns(c)) \/ Go(c, "empty", p)
      <4>1. AfterPipe(c, p) \/ Go(c, "empty", p)
        BY <1>3 DEF KickData, urbs
      <4> QED
        BY <4>1 DEF AfterPipe, Pipes
    <3>2. CASE p = 0 /\ Go(c, "data", 1)
      <4>1. Moves(c, "data", 1, pc[c].then)
        BY <3>2, GoMoves DEF IInv
      <4> QED
        BY <3>2, <4>1 DEF Rank, Coming
    <3>3. CASE p = 1 /\ Returns(c)
      <4>1. PICK a, t : a \in {"again", "idle"} /\ Moves(c, a, 0, t)
        BY <3>3, ReturnsMoves
      <4> QED
        BY <3>3, <4>1 DEF Rank, Coming
    <3>4. CASE Go(c, "empty", p)
      <4>1. Moves(c, "empty", p, pc[c].then)
        BY <3>4, GoMoves DEF IInv
      <4>2. Rank([at |-> "empty", arg |-> p, then |-> pc[c].then]) = IF p = 0 THEN 2 ELSE 6
        BY DEF Rank, Coming
      <4>3. Rank([at |-> "empty", arg |-> p, then |-> pc[c].then]) \in IF p = 0 THEN 2 .. 3 ELSE {6}
        BY <4>2
      <4> QED
        BY <4>1, <4>3
    <3> QED
      BY <3>1, <3>2, <3>3, <3>4, Zenon
  <2>2. ASSUME Clear', WritePos'[p] # ENextPos'[p] PROVE Comes(p, 2 * p + 1)'
    <3>1. "misdirected" \notin marks /\ 2 * p + 1 \in Nat
      BY <1>1, <2>2 DEF Pipes
    <3>2. CASE ~PipeFree(p) /\ Missed(p) \subseteq marks'
      <4>1. Missed(p) = {}
        BY <2>2, <3>2 DEF Missed
      <4> QED
        BY <1>1, <3>1, <3>2, <4>1, StillComes
    <3>3. CASE urb' = [urb EXCEPT ![Data(p)] = "out"]
      BY <1>3, <3>3 DEF Comes, Busy, IInv, Types, TypeOK
    <3> QED
      BY <1>1, <1>5, <2>2, <3>2, <3>3
  <2>3. ASSUME Clear', p = 1, NullInUse', "hidden" \notin marks' PROVE Comes(0, 5)'
    BY <1>1, <1>5, <2>3, NullHidden
  <2>4. ASSUME Clear', NEW q \in Pipes, NEW n \in 0 .. 5, Waiting(q, n)'
        PROVE  \/ Comes(q, n)'
               \/ /\ Waiting(q, n)
                  /\ Rank(pc[c]) <= n => Rank([at |-> a, arg |-> k, then |-> t]) <= n
    <3>1. Rank(pc[c]) = 2 * p + 1
      BY <1>1, <1>3 DEF Rank, Coming
    <3>2. CASE q = p /\ n = 2 * p + 1 /\ WritePos'[p] # ENextPos'[p]
      BY <2>2, <2>4, <3>2
    <3>3. CASE p = 1 /\ q = 0 /\ n = 5 /\ NullInUse' /\ "hidden" \notin marks'
      BY <2>3, <2>4, <3>3
    <3>4. CASE /\ ~(q = p /\ n = 2 * p + 1 /\ WritePos'[p] # ENextPos'[p])
               /\ ~(p = 1 /\ q = 0 /\ n = 5 /\ NullInUse' /\ "hidden" \notin marks')
      <4>1. \A o \in Pipes : o # p /\ WritePos'[o] # ENextPos'[o] => WritePos[o] # ENextPos[o]
        BY <1>1, <1>5, <2>4
      <4>2. Waiting(q, n) /\ (n = 0 \/ (n = 5 /\ p # 1) \/ (n = 2 * q + 1 /\ q # p))
        BY <1>1, <2>4, <3>4, <4>1 DEF Waiting
      <4>3. Rank(pc[c]) <= n => Rank([at |-> a, arg |-> k, then |-> t]) <= n
        BY <2>1, <3>1, <4>2 DEF Pipes
      <4> QED
        BY <4>2, <4>3
    <3> QED
      BY <3>2, <3>3, <3>4
  <2> QED
    BY <1>1, <2>1, <2>4, LookKept DEF IInv
<1> QED
  BY <1>1, <1>4, <1>6, <1>7

LEMMA KickEmptyWaits ==
  ASSUME IInv, WaitInv, NEW c \in Runners, KickEmpty(c)
  PROVE  WaitInv'
<1> USE DEF WaitInv
<1>1. /\ pc[c].at = "empty"
      /\ UNCHANGED <<Reset, InUse, NullInUse, WritePos, ENextPos, bWaiting, urb>>
      /\ marks \subseteq marks' /\ StillBusy /\ IdleInv'
      /\ \A d \in Runners : d # c => pc'[d] = pc[d]
  BY KickIs DEF RTUSBKickBulkOut, KickEmpty, At, ring, data, urbs
<1>2. \A d \in Runners, b \in {"after", "ring"} : At(d, b) => pc'[d] = pc[d]
  BY <1>1 DEF At
<1>3. PICK p \in Pipes : p = pc[c].arg
  BY DEF KickEmpty, IInv, Types, PlaceInv, urbs
<1>4. CellInv'
  BY <1>1, <1>2, Apart, CellKept DEF IInv
<1>5. /\ BulkFlags' = BulkFlags \ {Data(p)}
      /\ Clear' => WritePos[p] = ENextPos[p]
  BY <1>3 DEF KickEmpty, urbs
<1>6. FlagInv'
  <2>1. Null # Data(p) /\ \A q \in Pipes : q # p => Data(q) # Data(p)
    BY DEF Null, Data
  <2>2. Clear' => Clear
    BY <1>1
  <2>3. \A q \in Pipes : At(DataTasklet(q), "after") => At(DataTasklet(q), "after")'
    BY <1>2, Apart DEF At
  <2> QED
    BY <1>1, <1>5, <2>1, <2>2, <2>3 DEF FlagInv
<1>7. LookInv'
  <2>1. PICK a, k, t : /\ Moves(c, a, k, t)
                       /\ Rank([at |-> a, arg |-> k, then |-> t]) = IF p = 0 THEN 3 ELSE 6
    <3>1. CASE p = 0
      <4>1. Moves(c, "data", 1, pc[c].then)
        BY <1>3, <3>1, GoMoves DEF KickEmpty, AfterPipe, IInv, urbs
      <4> QED
        BY <3>1, <4>1 DEF Rank, Coming
    <3>2. CASE p # 0
      <4>1. Returns(c)
        BY <1>3, <3>2 DEF KickEmpty, AfterPipe, Pipes, urbs
      <4>2. PICK a, t : a \in {"again", "idle"} /\ Moves(c, a, 0, t)
        BY <4>1, ReturnsMoves
      <4> QED
        BY <3>2, <4>2 DEF Rank, Coming
    <3> QED
      BY <3>1, <3>2
  <2>2. ASSUME NEW q \in Pipes, NEW n \in 0 .. 5, Waiting(q, n)'
        PROVE  /\ Waiting(q, n)
               /\ Rank(pc[c]) <= n => Rank([at |-> a, arg |-> k, then |-> t]) <= n
    <3>1. Rank(pc[c]) = IF p = 0 THEN 2 ELSE 6
      BY <1>1, <1>3 DEF Rank, Coming
    <3>2. Waiting(q, n) /\ n \in {0, 5, 2 * q + 1}
      BY <1>1, <2>2 DEF Waiting
    <3> QED
      BY <2>1, <3>1, <3>2 DEF Pipes
  <2> QED
    BY <1>1, <2>1, <2>2, LookKept DEF IInv, urbs
<1> QED
  BY <1>1, <1>4, <1>6, <1>7

LEMMA KickNullWaits ==
  ASSUME IInv, WaitInv, NEW c \in Runners, KickNull(c)
  PROVE  WaitInv'
<1> USE DEF WaitInv
<1>1. /\ pc[c].at = "null"
      /\ UNCHANGED <<Reset, InUse, NullInUse, WritePos, ENextPos, bWaiting>>
      /\ marks \subseteq marks' /\ StillBusy /\ IdleInv'
      /\ \A d \in Runners : d # c => pc'[d] = pc[d]
  BY KickIs DEF RTUSBKickBulkOut, KickNull, At, ring, data
<1>2. \A d \in Runners, b \in {"after", "ring"} : At(d, b) => pc'[d] = pc[d]
  BY <1>1 DEF At
<1>3. Null \in TxContexts /\ PipeOf(Null) = 0 /\ 0 \in Pipes
  BY PipesOf DEF MGMTPIPEIDX
<1>4. CellInv'
  <2>1. \A j \in Cells : urb[Mgmt(j)] # "idle" => urb'[Mgmt(j)] # "idle"
    BY <1>1, PipesOf DEF StillBusy
  <2> QED
    BY <1>1, <1>2, <2>1, Apart, CellKept DEF IInv
<1>5. \/ /\ Null \notin BulkFlags \/ ~PipeFree(0)
         /\ marks' = marks \cup IF Null \in BulkFlags THEN Missed(0) ELSE {}
         /\ UNCHANGED <<urb, BulkFlags>>
      \/ BulkFlags' = BulkFlags \ {Null} /\ urb' = [urb EXCEPT ![Null] = "out"]
      \/ "submit" \in marks'
  BY <1>3 DEF KickNull, Submitted, MGMTPIPEIDX
<1>6. FlagInv'
  <2>1. CASE UNCHANGED BulkFlags
    BY <1>1, <1>2, <2>1, Apart, FlagKept
  <2>2. CASE BulkFlags' = BulkFlags \ {Null} /\ urb' = [urb EXCEPT ![Null] = "out"]
    <3>1. urb'[Null] # "idle" /\ (Clear' => Clear)
      BY <1>1, <1>3, <2>2 DEF IInv, Types, TypeOK
    <3>2. ASSUME NEW q \in Pipes, WritePos[q] # ENextPos[q], Clear
          PROVE  Data(q) \in BulkFlags' \/ urb'[Data(q)] # "idle" \/ At(DataTasklet(q), "after")'
      <4>1. Data(q) \in BulkFlags \/ urb[Data(q)] # "idle" \/ At(DataTasklet(q), "after")
        BY <3>2 DEF FlagInv
      <4>2. At(DataTasklet(q), "after") => At(DataTasklet(q), "after")'
        BY <1>2, Apart DEF At
      <4>3. Data(q) \in TxContexts /\ Data(q) # Null
        BY PipesOf DEF Data, Null
      <4> QED
        BY <1>1, <2>2, <4>1, <4>2, <4>3 DEF StillBusy
    <3> QED
      BY <1>1, <3>1, <3>2 DEF FlagInv
  <2>3. CASE "submit" \in marks'
    BY <2>3 DEF FlagInv
  <2> QED
    BY <1>5, <2>1, <2>2, <2>3
<1>7. LookInv'
  <2>1. PICK a, t : Moves(c, a, 0, t)
    BY ReturnsMoves DEF KickNull
  <2>2. ASSUME Clear', NullInUse' PROVE Comes(0, 5)'
    <3>1. Clear /\ "misdirected" \notin marks /\ NullInUse
      BY <1>1, <2>2
    <3>2. CASE /\ Null \notin BulkFlags \/ ~PipeFree(0)
               /\ marks' = marks \cup IF Null \in BulkFlags THEN Missed(0) ELSE {}
               /\ UNCHANGED <<urb, BulkFlags>>
      <4>1. CASE Null \in BulkFlags
        <5>1. ~PipeFree(0) /\ Missed(0) = {}
          BY <2>2, <3>2, <4>1 DEF Missed
        <5> QED
          BY <1>1, <1>3, <3>1, <5>1, StillComes
      <4>2. CASE Null \notin BulkFlags
        BY <1>3, <3>1, <3>2, <4>2 DEF FlagInv, Comes, Busy
      <4> QED
        BY <4>1, <4>2
    <3>3. CASE urb' = [urb EXCEPT ![Null] = "out"]
      BY <1>3, <3>3 DEF Comes, Busy, IInv, Types, TypeOK
    <3> QED
      BY <1>5, <2>2, <3>2, <3>3
  <2>3. ASSUME Clear', NEW q \in Pipes, NEW n \in 0 .. 5, Waiting(q, n)'
        PROVE  \/ Comes(q, n)'
               \/ /\ Waiting(q, n)
                  /\ Rank(pc[c]) <= n => Rank([at |-> a, arg |-> 0, then |-> t]) <= n
    <3>1. Rank(pc[c]) = 5
      BY <1>1 DEF Rank, Coming
    <3>2. CASE q = 0 /\ n = 5 /\ NullInUse'
      BY <2>2, <2>3, <3>2
    <3>3. CASE ~(q = 0 /\ n = 5 /\ NullInUse')
      <4>1. Waiting(q, n) /\ n # 5
        BY <1>1, <2>3, <3>3 DEF Waiting, Pipes
      <4> QED
        BY <3>1, <4>1
    <3> QED
      BY <3>2, <3>3
  <2> QED
    BY <1>1, <2>1, <2>3, LookKept DEF IInv
<1> QED
  BY <1>1, <1>4, <1>6, <1>7

LEMMA InitWaits == Init => WaitInv
<1> SUFFICES ASSUME Init PROVE WaitInv
  OBVIOUS
<1>1. \A p \in Pipes : \A n : ~Waiting(p, n)
  BY DEF Init, Waiting
<1>2. InUse = {} /\ ~NullInUse /\ \A p \in Pipes : WritePos[p] = ENextPos[p]
  BY DEF Init
<1>3. IdleInv
  BY DEF Init, IdleInv
<1> QED
  BY <1>1, <1>2, <1>3 DEF WaitInv, LookInv, FlagInv, CellInv

LEMMA NextWaits == IInv /\ SentInv /\ RingInv /\ WaitInv /\ [Next]_vars => WaitInv'
<1> SUFFICES ASSUME IInv, SentInv, RingInv, WaitInv, [Next]_vars PROVE WaitInv'
  OBVIOUS
<1> USE DEF IInv
<1>1. ASSUME NEW t \in Threads, Sender(t) PROVE WaitInv'
  BY <1>1, SenderWaits
<1>2. ASSUME NEW c \in Runners, RTUSBKickBulkOut(c) PROVE WaitInv'
  BY <1>2, KickLookWaits, KickTakeWaits, KickUnflaggedWaits, KickDataWaits, KickEmptyWaits,
     KickNullWaits
  DEF RTUSBKickBulkOut
<1>3. ASSUME NEW x \in TxContexts, UrbDone(x) PROVE WaitInv'
  BY <1>3, BusWaits
<1>4. CASE Tasklet
  BY <1>4, BusWaits, MgmtDoneWaits, RingDoneWaits, NullDoneWaits, DataDoneWaits, TaskletWaits
  DEF Tasklet
<1>5. CASE CMDHandler \/ ResetBulkOutHdlr
  BY <1>5, CommandWaits
<1>6. CASE UNCHANGED vars
  BY <1>6 DEF vars, resets, ring, data, WaitInv, LookInv, FlagInv, CellInv, IdleInv, Waiting, Comes,
     Busy, At, urbs
<1> QED
  BY <1>1, <1>2, <1>3, <1>4, <1>5, <1>6 DEF Next

\* Nothing moves, so nobody comes to look.
LEMMA QuietForgetsNothing == Types /\ ResetHasHandler /\ WaitInv => NothingForgotten
<1> SUFFICES ASSUME Types, ResetHasHandler, WaitInv, Quiet, Clear
             PROVE  /\ bWaiting = {} /\ (NullInUse => "hidden" \in marks)
                    /\ \A p \in Pipes : ENextPos[p] = WritePos[p]
  BY DEF NothingForgotten
<1>1. \A c \in Runners : pc[c] = Idle
  BY DEF Quiet, WaitInv, IdleInv
<1>2. ~Reset
  <2>1. ~HasHandler
    BY <1>1, Apart DEF HasHandler, At, Idle, Quiet
  <2> QED
    BY <2>1, HandlerIs
<1>3. \A p : ~Busy(p)
  BY DEF Busy, Quiet
<1>4. \A p, n \in 0 .. 5 : ~Comes(p, n)
  <2>1. Rank(Idle) = 6
    BY DEF Rank, Coming, Idle
  <2>2. \A c \in Runners : Rank(pc[c]) = 6
    BY <1>1, <2>1
  <2> QED
    BY <1>2, <1>3, <2>2 DEF Comes
<1>5. \A p \in Pipes, n \in 0 .. 5 : ~Waiting(p, n)
  BY <1>4 DEF WaitInv, LookInv, Pipes
<1>6. bWaiting = {} /\ (NullInUse => "hidden" \in marks)
  BY <1>5 DEF Waiting, Pipes
<1>7. ASSUME NEW p \in Pipes PROVE ENextPos[p] = WritePos[p]
  <2>1. 2 * p + 1 \in 0 .. 5
    BY DEF Pipes
  <2> QED
    BY <1>5, <2>1 DEF Waiting
<1> QED
  BY <1>6, <1>7

\* When nothing moves any more nothing that could be sent was forgotten, for every ring, number
\* of senders, frames and failures: until something goes wrong, whatever waits is looked at by a
\* kick still to come, or by the one that ends a transfer or a reset.  All but a null frame that
\* every kick passed by because the last pipe was flagged.
THEOREM NothingIsForgotten == Spec => []NothingForgotten
<1>1. Init => ResetHasHandler
  BY DEF Init, ResetHasHandler
<1>2. IInv => Types
  BY DEF IInv
<1>3. Types /\ ResetHasHandler /\ WaitInv => NothingForgotten
  BY QuietForgetsNothing
<1> QED
  BY <1>1, <1>2, <1>3, NextHandled, InitRing, NextRing, InitWaits, NextWaits, Invariance, PTL DEF Spec
==============================================================================
