------------------------------ MODULE BaReorder ------------------------------
(***************************************************************************)
(* The reordering buffer of one block-ack session in which this station is *)
(* the recipient (common/ba_action.c).  The receive tasklet hands frames   *)
(* of an aggregate up in sequence order and holds those that arrive ahead  *)
(* of a hole; the MLME thread opens, renews and ends the session.          *)
(*                                                                         *)
(* A frame is known here by its absolute number; the code sees only its    *)
(* Sequence, the number modulo MAXSEQ + 1.  The peer sends, in any order   *)
(* and any number of times, the frames of its window Base .. Base + Win-1. *)
(*                                                                         *)
(* Abstracted: the time between two frames, one of three lengths; the      *)
(* payload; the other sessions (they share only the pool of blocks).       *)
(***************************************************************************)
EXTENDS Integers, SequencesExt

CONSTANTS
    MAXSEQ,          \* greatest Sequence: 0xFFF in the driver
    Win,             \* the window of the peer, its BufSize
    FirstNum,        \* number of the first frame of the session
    LastNum,         \* bound: number of the last frame the peer sends
    PoolSize,        \* MAX_REORDERING_MPDU_NUM: 512 blocks in the driver
    Kinds,           \* subset of {"data", "eap"}
    Changes          \* whether the session is renewed and ended

Nums == FirstNum .. LastNum
None == -1
RESET_RCV_SEQ == 16 * (MAXSEQ + 1) - 1

ASSUME ReorderAssumption ==
    /\ MAXSEQ \in Nat /\ MAXSEQ + 1 \in {2, 4, 8, 16, 32, 64, 128, 256, 512, 1024, 2048, 4096}
    /\ Win \in 1 .. (MAXSEQ + 1) \div 2 - 1
    /\ FirstNum \in Nat /\ LastNum \in Nat /\ FirstNum <= LastNum
    /\ PoolSize \in Nat /\ Kinds \subseteq {"data", "eap"}
    /\ Changes \in BOOLEAN

VARIABLES
    session,         \* BARecWcidArray[TID] # 0 and REC_BA_Status: Accept
    BAWinSize,
    LastIndSeq,
    list,            \* held frames, by number, in the order of the list
    pool,            \* blocks in mpdu_blk_pool.freelist
    rx,              \* the receive tasklet: where it is, and its frame
    mlme,            \* the MLME thread: where it is in an ADDBA or a DELBA
    base,            \* the peer: the oldest frame it may still send
    delivered,       \* handed up since the last arrival, after the last before,
                     \* from one reset of LastIndSeq to the next
    up,              \* numbers handed up
    excused,         \* numbers up to this one were passed over on purpose
    leaked,          \* blocks taken and never put back
    overtook,        \* a frame overtook held frames, since the last reset
    raced            \* a session change and a reception met, since then

buffer == <<session, BAWinSize, LastIndSeq, list, pool>>
history == <<delivered, up, excused, leaked, overtook, raced>>
vars == <<buffer, rx, mlme, base, history>>

\* Sequence, a field of the 802.11 header.
Seq12(n) == n % (MAXSEQ + 1)
SEQ_STEPONE(s, t) == s = (t + 1) % (MAXSEQ + 1)
\* Mutant: numbers compared as they are, without the wrap-around.
SmallerNoWrap(s, t) == s < t
SEQ_SMALLER(s, t) == (s - t) % (MAXSEQ + 1) >= (MAXSEQ + 1) \div 2

Idle == [pc |-> "idle", num |-> None, kind |-> "data", last |-> FALSE]

Init ==
    /\ session = FALSE /\ BAWinSize = 0 /\ LastIndSeq = RESET_RCV_SEQ
    /\ list = <<>> /\ pool = PoolSize
    /\ rx = Idle /\ mlme = "idle" /\ base = FirstNum
    /\ delivered = <<>> /\ up = {} /\ excused = None /\ leaked = 0
    /\ overtook = FALSE /\ raced = FALSE

-----------------------------------------------------------------------------
(* The list. *)

\* How many frames in a row, from the head, have their places in S.
LongestHead(S) ==
    CHOOSE k \in 0 .. Len(list) : 1 .. k \subseteq S /\ (k < Len(list) => k + 1 \notin S)
LeSeq(s) ==
    LongestHead({i \in 1 .. Len(list) : Seq12(list[i]) = s \/ SEQ_SMALLER(Seq12(list[i]), s)})
InOrder(s) == LongestHead({i \in 1 .. Len(list) : Seq12(list[i]) = Seq12(s + i)})

\* Where ba_reordering_mpdu_insertsorted stops its scan.
Position(n) ==
    LongestHead({i \in 1 .. Len(list) : SEQ_SMALLER(Seq12(list[i]), Seq12(n))}) + 1
Duplicate(n) ==
    Position(n) <= Len(list) /\ Seq12(list[Position(n)]) = Seq12(n)

\* Mutant: the block of a frame handed up is not put back.
HandUpKeepBlock(old, k, after) ==
    /\ delivered' = old \o SubSeq(list, 1, k) \o after
    /\ up' = up \cup {list[i] : i \in 1 .. k} \cup {after[i] : i \in 1 .. Len(after)}
    /\ list' = SubSeq(list, k + 1, Len(list))
    /\ pool' = pool
\* k frames leave the list for the upper layer, and their blocks go back;
\* before and after: what is handed up on both sides of them.
HandUp(old, k, after) ==
    /\ delivered' = old \o SubSeq(list, 1, k) \o after
    /\ up' = up \cup {list[i] : i \in 1 .. k} \cup {after[i] : i \in 1 .. Len(after)}
    /\ list' = SubSeq(list, k + 1, Len(list))
    /\ pool' = pool + k
\* The number meant by a Sequence, near the number n.
Number(s, n) ==
    LET half == (MAXSEQ + 1) \div 2
    IN CHOOSE m \in n - half .. n + half - 1 : Seq12(m) = Seq12(s)

-----------------------------------------------------------------------------
(* Session changes, by the MLME thread. *)

Meets(pc) == raced' = (raced \/ pc # "idle")

\* BARecSessionAdd on a live session, and BARecSessionTearDown:
\* ba_refresh_reordering_mpdus hands everything up.
Refresh ==
    /\ HandUp(delivered, Len(list), <<>>) /\ LastIndSeq' = RESET_RCV_SEQ

AddStarts ==
    /\ mlme = "idle" /\ Meets(rx.pc) /\ mlme' = "add" /\ (Changes \/ ~session)
    /\ IF session THEN Refresh
       ELSE UNCHANGED <<LastIndSeq, list, pool, delivered, up>>
    /\ UNCHANGED <<session, BAWinSize, rx, base, excused, leaked, overtook>>

\* BARecSessionAdd fills the entry in; a recipient may grant less than asked.
AddEnds ==
    /\ mlme = "add" /\ mlme' = "idle"
    /\ session' = TRUE /\ BAWinSize' = Win /\ LastIndSeq' = RESET_RCV_SEQ
    /\ UNCHANGED <<list, pool, rx, base, history>>

TearDownStarts ==
    /\ mlme = "idle" /\ session /\ Changes /\ Meets(rx.pc) /\ mlme' = "del"
    /\ Refresh
    /\ UNCHANGED <<session, BAWinSize, rx, base, excused, leaked, overtook>>

TearDownEnds ==
    /\ mlme = "del" /\ mlme' = "idle"
    /\ session' = FALSE /\ BAWinSize' = 0 /\ LastIndSeq' = RESET_RCV_SEQ
    /\ UNCHANGED <<list, pool, rx, base, history>>

-----------------------------------------------------------------------------
(* Reception, by the receive tasklet. *)

\* Only the last frame is kept of what was handed up, and none after a reset.
LastHandedUp == IF delivered = <<>> \/ LastIndSeq = RESET_RCV_SEQ THEN <<>>
         ELSE <<Last(delivered)>>

\* ba_flush_reordering_timeout_mpdus.  wait: "short", "long" (over 100 ms) or
\* "longer" (over 3 s) since the last arrival.
FlushAll(wait) == wait = "longer" /\ Len(list) > 1
FlushOne(wait) == wait # "short" /\ list # <<>> /\ ~FlushAll(wait)
Shifted == (LastIndSeq + 1) % (MAXSEQ + 1)
FlushTimeout(wait) ==
    \/ /\ FlushAll(wait)
       /\ HandUp(LastHandedUp, Len(list), <<>>) /\ LastIndSeq' = RESET_RCV_SEQ
       /\ UNCHANGED excused
    \/ /\ FlushOne(wait)
       /\ LET j == LeSeq(Shifted)
              k == LongestHead(1 .. j \cup {i \in j + 1 .. Len(list) :
                                   Seq12(list[i]) = Seq12(Shifted + i - j)})
          IN /\ HandUp(LastHandedUp, k, <<>>)
             /\ LastIndSeq' = IF k > j THEN Seq12(list[k]) ELSE Shifted
             /\ excused' = Number(Shifted, list[1])
    \/ /\ ~FlushAll(wait) /\ ~FlushOne(wait)
       /\ HandUp(LastHandedUp, 0, <<>>) /\ UNCHANGED <<LastIndSeq, excused>>

Waits == {"short", "long", "longer"}

\* Indicate_AMPDU_Packet up to its first test.
Arrive ==
    /\ rx = Idle /\ Meets(mlme) /\ session
    /\ \E n \in base .. base + Win - 1, k \in Kinds, wait \in Waits :
        /\ n <= LastNum
        /\ FlushTimeout(wait)
        /\ rx' = [pc |-> "decide", num |-> n, kind |-> k, last |-> FALSE]
    /\ UNCHANGED <<session, BAWinSize, mlme, base, leaked, overtook>>

\* Indicate_Legacy_Packet: a frame outside any aggregate flushes as well.
ArriveLegacy ==
    /\ rx = Idle /\ Meets(mlme) /\ session
    /\ \E wait \in Waits \ {"short"} : FlushTimeout(wait)
    /\ UNCHANGED <<session, BAWinSize, rx, mlme, base, leaked, overtook>>

Done(step) ==
    /\ rx.pc = step /\ rx' = Idle /\ UNCHANGED <<session, BAWinSize, mlme, base>>

\* The first frame after a reset sets LastIndSeq, whatever it is.
Restart ==
    /\ LastIndSeq = RESET_RCV_SEQ /\ Done("decide")
    /\ LastIndSeq' = Seq12(rx.num)
    /\ HandUp(<<>>, 0, <<rx.num>>)
    /\ excused' = rx.num /\ UNCHANGED leaked
    /\ LET clean == list = <<>> /\ mlme = "idle"
       IN overtook' = (overtook /\ ~clean) /\ raced' = (raced /\ ~clean)

\* I. In order.
InSequence ==
    /\ LastIndSeq # RESET_RCV_SEQ /\ SEQ_STEPONE(Seq12(rx.num), LastIndSeq)
    /\ rx.pc = "decide" /\ rx' = [rx EXCEPT !.pc = "inorder"]
    /\ LastIndSeq' = Seq12(rx.num)
    /\ delivered' = Append(delivered, rx.num) /\ up' = up \cup {rx.num}
    /\ UNCHANGED <<session, BAWinSize, list, pool, mlme, base, excused, leaked, overtook, raced>>

\* Mutant: the drop test takes the frame after the next for an old one.
StaleOneMore(s) == SEQ_SMALLER(s, (LastIndSeq + 3) % (MAXSEQ + 1))
Stale(s) == s = LastIndSeq \/ SEQ_SMALLER(s, LastIndSeq)
\* Mutant: the window is one frame too wide.
InWiderWindow(s) == SEQ_SMALLER(s, (LastIndSeq + BAWinSize + 2) % (MAXSEQ + 1))
InWindow(s) == SEQ_SMALLER(s, (LastIndSeq + BAWinSize + 1) % (MAXSEQ + 1))

\* II. and III. Duplicates and old frames are dropped.
Drop ==
    /\ LastIndSeq # RESET_RCV_SEQ /\ ~SEQ_STEPONE(Seq12(rx.num), LastIndSeq)
    /\ Stale(Seq12(rx.num)) /\ Done("decide")
    /\ UNCHANGED <<LastIndSeq, list, pool, history>>

Ahead ==
    /\ rx.pc = "decide" /\ LastIndSeq # RESET_RCV_SEQ
    /\ ~SEQ_STEPONE(Seq12(rx.num), LastIndSeq) /\ ~Stale(Seq12(rx.num))

\* IV. Within the window.
WithinWindow ==
    /\ Ahead /\ InWindow(Seq12(rx.num))
    /\ rx' = [rx EXCEPT !.pc = "enqueue"]
    /\ UNCHANGED <<buffer, mlme, base, history>>

\* V. Beyond it: the window moves so as to end at this frame.
\* Mutant: the window moves up to the frame itself.
WinStartAtFrame == Seq12(rx.num)
WinStartSeq == (Seq12(rx.num) - BAWinSize) % (MAXSEQ + 1)
BeyondWindow ==
    /\ Ahead /\ ~InWindow(Seq12(rx.num))
    /\ HandUp(delivered, LeSeq(WinStartSeq), <<>>)
    /\ LastIndSeq' = WinStartSeq
    /\ rx' = [rx EXCEPT !.pc = "enqueue", !.last = TRUE]
    /\ UNCHANGED <<session, BAWinSize, mlme, base, excused, leaked, overtook, raced>>

AfterEnqueue == rx' = IF rx.last THEN [rx EXCEPT !.pc = "inorder"] ELSE Idle

\* ba_enqueue_reordering_packet: a block is taken first.
Hold ==
    /\ rx.pc = "enqueue" /\ pool > 0 /\ rx.kind = "data" /\ AfterEnqueue
    /\ IF Duplicate(rx.num) THEN UNCHANGED <<list, pool>>
       ELSE /\ list' = InsertAt(list, Position(rx.num), rx.num)
            /\ pool' = pool - 1
    /\ UNCHANGED <<session, BAWinSize, LastIndSeq, mlme, base, history>>

\* No block, or a frame for the supplicant: it overtakes the hole.  The block
\* taken for a frame for the supplicant is neither used nor put back.
Overtake ==
    /\ rx.pc = "enqueue" /\ (pool = 0 \/ rx.kind = "eap") /\ AfterEnqueue
    /\ LET k == LeSeq(Seq12(rx.num))
           taken == IF pool > 0 THEN 1 ELSE 0
       IN /\ delivered' = delivered \o SubSeq(list, 1, k) \o <<rx.num>>
          /\ up' = up \cup {list[i] : i \in 1 .. k} \cup {rx.num}
          /\ list' = SubSeq(list, k + 1, Len(list))
          /\ pool' = pool - taken + k /\ leaked' = leaked + taken
          /\ overtook' = (overtook \/ (~rx.last /\ k < Len(list)))
    /\ LastIndSeq' = Seq12(rx.num) /\ excused' = rx.num
    /\ UNCHANGED <<session, BAWinSize, mlme, base, raced>>

\* ba_indicate_reordering_mpdus_in_order: what the frame made deliverable.
Release ==
    /\ Done("inorder")
    /\ LET k == InOrder(LastIndSeq)
       IN /\ HandUp(delivered, k, <<>>)
          /\ LastIndSeq' = IF k > 0 THEN Seq12(list[k]) ELSE LastIndSeq
    /\ UNCHANGED <<excused, leaked, overtook, raced>>

\* CntlEnqueueForRecv: a BlockAckReq for the start of the peer's window.
CntlEnqueueForRecv ==
    /\ rx = Idle /\ Meets(mlme) /\ session
    /\ SEQ_SMALLER(LastIndSeq, Seq12(base))
    /\ HandUp(LastHandedUp, LeSeq(Seq12(base)), <<>>)
    /\ LastIndSeq' = (Seq12(base) - 1) % (MAXSEQ + 1)
    /\ UNCHANGED <<session, BAWinSize, rx, mlme, base, excused, leaked, overtook>>

\* The peer is done with its oldest frame: acknowledged, or given up.  Bound:
\* it never runs half the sequence space ahead of what the recipient has seen,
\* the frame it is looking at included.
PeerAdvances ==
    /\ base < LastNum
    /\ rx # Idle => base + Win - rx.num < (MAXSEQ + 1) \div 2
    /\ LastIndSeq # RESET_RCV_SEQ =>
           base + Win - Number(LastIndSeq, base) < (MAXSEQ + 1) \div 2
    /\ base' = base + 1
    /\ UNCHANGED <<buffer, rx, mlme, history>>

Next ==
    \/ AddStarts \/ AddEnds \/ TearDownStarts \/ TearDownEnds
    \/ Arrive \/ ArriveLegacy \/ Restart \/ InSequence \/ Drop
    \/ WithinWindow \/ BeyondWindow \/ Hold \/ Overtake \/ Release
    \/ CntlEnqueueForRecv \/ PeerAdvances

Spec == Init /\ [][Next]_vars

-----------------------------------------------------------------------------
(* Properties. *)

\* Types.  (ba_action.c: BA_REC_ENTRY, reordering_list)
TypeOK ==
    /\ session \in BOOLEAN /\ BAWinSize \in {0, Win}
    /\ LastIndSeq \in 0 .. MAXSEQ \cup {RESET_RCV_SEQ}
    /\ list \in Seq(Nums) /\ pool \in 0 .. PoolSize
    /\ rx.pc \in {"idle", "decide", "enqueue", "inorder"} /\ rx.num \in Nums \cup {None}
    /\ mlme \in {"idle", "add", "del"} /\ base \in Nums
    /\ delivered \in Seq(Nums) /\ up \subseteq Nums
    /\ leaked \in 0 .. PoolSize

\* A frame that finds no block, or is for the supplicant, is handed up without
\* a look at the frames held behind it: those stay held, although they are next
\* in sequence, and what follows does not hold until the session is reset.  Nor
\* does it when the MLME thread changes the session inside a reception: only the
\* list is under RxReRingLock, LastIndSeq and BAWinSize are not.
Undisturbed == rx = Idle /\ mlme = "idle" /\ session /\ ~overtook /\ ~raced

\* Frames are handed up in the order the peer numbered them, from one reset of
\* LastIndSeq to the next: through wrap-around, moves of the window, BARs and
\* timeouts.  (Indicate_AMPDU_Packet)
InOrderDelivery ==
    ~overtook /\ ~raced =>
        \A i, j \in 1 .. Len(delivered) : i < j => delivered[i] <= delivered[j]

\* The list is what its walks assume: each held frame lies ahead of LastIndSeq
\* by no more than the window, and in order, so there are at most BAWinSize.
\* (ba_reordering_mpdu_insertsorted)  The types hold in any case.
HeldInWindow ==
    /\ TypeOK
    /\ Undisturbed =>
        /\ \A i \in 1 .. Len(list) :
               (Seq12(list[i]) - LastIndSeq) % (MAXSEQ + 1) \in 1 .. BAWinSize
        /\ \A i, j \in 1 .. Len(list) : i < j => list[i] < list[j]

\* The recipient never moves past a frame the peer may still send and that
\* was not handed up, except on purpose: a reset, a timeout, a frame that
\* overtook the hole.  (ba_action.c: the assignments of LastIndSeq)
NotPassedOver ==
    Undisturbed /\ LastIndSeq # RESET_RCV_SEQ =>
        \A n \in base .. Number(LastIndSeq, base) : n \in up \/ n <= excused

\* Every block is in the pool, in the list, or was lost to a frame for the
\* supplicant.
BlocksAccounted == pool + Len(list) + leaked = PoolSize

\* The reception of a frame ends with the first decision only if the frame was
\* handed up, or passed over on purpose: the comparisons of sequence numbers
\* never take a frame that is still missing for an old one.  A frame left behind
\* by an overtaking one may stay in the list until the numbers have wrapped, and
\* is then released in place of another, hence ~overtook.
\* (Indicate_AMPDU_Packet, II and III)
DropsOnlyKnown ==
    [][~overtook /\ ~raced /\ rx.pc = "decide" /\ rx' = Idle
           => rx.num \in up' \/ rx.num <= excused']_vars
=============================================================================
