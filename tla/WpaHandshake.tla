----------------------------- MODULE WpaHandshake -----------------------------
(***************************************************************************)
(* The WPA key handshakes between one station of the driver and the same   *)
(* driver as access point: common/cmm_wpa.c holds both ends, ap/ap_wpa.c   *)
(* the access point's retries and its periodic group key update.           *)
(* The access point's MLME thread and its timer thread work on one MAC     *)
(* table entry without a lock.  Frames are delivered in order or lost.     *)
(*                                                                         *)
(* Abstracted: time (a timer may expire at any moment), the contents of a  *)
(* frame but for its nonce, replay counter, MIC and group key, the other   *)
(* stations.  A pairwise key is the pair of the nonces it is derived from; *)
(* a MIC is the key it was made with; a group key is its version.          *)
(* Authentication and association are one exchange.                        *)
(***************************************************************************)
EXTENDS Integers, Sequences

CONSTANTS
    WPA2,           \* TRUE: WPA2 (message 3 brings the group key), FALSE: WPA
    Fails,          \* allocations that may fail, and "start" (a full MLME queue)
    MaxJoins,       \* bound: association requests of the station
    MaxRekeys,      \* bound: group keys made after the first one
    Cap,            \* bound: frames in flight each way, others are lost
    Prompt          \* TRUE: a handler of the timer thread ends before an answer from
                    \* the air; it is crossed only by what the MLME thread already has

Allocations == {"pair1", "pair2", "pair3", "pair4", "group1", "group2", "deauth"}

ASSUME WpaAssumption ==
    /\ WPA2 \in BOOLEAN /\ Prompt \in BOOLEAN /\ Fails \subseteq Allocations \cup {"start"}
    /\ MaxJoins \in Nat \ {0} /\ MaxRekeys \in Nat /\ Cap \in Nat \ {0}

\* WpaState.
NOTUSE == 0
INITPMK == 6
INITPSK == 7
PTKSTART == 8
NEGOTIATING == 9
DONE == 10

MSG1_RETRY == 0
MSG3_RETRY == 10
GROUP_RETRY == 20

NoKey == <<0, 0>>

VARIABLES
    ap,             \* the access point's entry of the station
    retryTimer,     \* RetryTimer is set, or its expiry is queued
    startTimer,     \* EnqueueStartForPSKTimer is set, or its expiry is queued
    startFlag,      \* EnqueueEapolStartTimerRunning is EAPOL_START_PSK
    started,        \* EAPOL-Start messages in the access point's MLME queue
    timerPc,        \* the timer thread: what it is about to do
    mlmePc,         \* the MLME thread: "answer" between the two halves of message 2
    GTK, txGTK,     \* the newest group key, and the one used to send
    RekeyCountDown,
    sta,            \* the station, with its entry of the access point
    down, up,       \* frames to the station and to the access point
    nonces,         \* nonces drawn so far, at each end
    joins,          \* association requests so far
    marks           \* history: "lost": the start of this association is lost; "crossed": a
                    \* retry has sent the group message into another handshake

starting == <<startTimer, startFlag>>
timers == <<retryTimer, starting>>
group == <<GTK, txGTK, RekeyCountDown>>
apVars == <<ap, timers, started, timerPc, mlmePc, group>>
vars == <<apVars, sta, down, up, nonces, joins, marks>>

\* A zeroed entry (MacTableInsertEntry); in: the table holds it.
NoEntry == [in |-> FALSE, WpaState |-> NOTUSE, R_Counter |-> 0, ReTryCounter |-> 0,
            ANonce |-> 0, PTK |-> NoKey, PairwiseKey |-> NoKey,
            Established |-> FALSE, PortSecured |-> FALSE]
StaDown == [link |-> "down", WpaState |-> NOTUSE, R_Counter |-> 0, ANonce |-> 0,
            PTK |-> NoKey, PairwiseKey |-> NoKey, GTK |-> 0, PortSecured |-> FALSE]

Init ==
    /\ ap = NoEntry /\ retryTimer = FALSE /\ startTimer = FALSE /\ started = 0
    /\ startFlag = FALSE /\ marks = {}
    /\ timerPc = "idle" /\ mlmePc = "idle"
    /\ GTK = 1 /\ txGTK = 1 /\ RekeyCountDown = 0
    /\ sta = StaDown /\ down = <<>> /\ up = <<>>
    /\ nonces = [ap |-> 0, sta |-> 0] /\ joins = 0

-----------------------------------------------------------------------------
(* Frames: enc is the pairwise key a frame is encrypted with, if any.      *)

Outcomes(what) == IF what \in Fails THEN BOOLEAN ELSE {TRUE}

Frame(t) == [t |-> t, rc |-> 0, nonce |-> 0, mic |-> NoKey, gtk |-> 0, enc |-> NoKey]

\* The channels a transmission may leave: the frame is lost, or is the last one.
Transmit(ch, f) == {ch} \cup (IF Len(ch) < Cap THEN {Append(ch, f)} ELSE {})

\* A frame of a handshake from either end, e its entry of the other: it carries
\* the entry's replay counter and, but for message 1, a MIC made with its PTK.
Eapol(t, e) == [Frame(t) EXCEPT !.rc = e.R_Counter, !.mic = IF t = "pair1" THEN NoKey ELSE e.PTK]

\* RTMPToWirelessSta with bClearFrame or without.
Encrypted(f, e) == [f EXCEPT !.enc = e.PairwiseKey]
EncryptedIfSecured(f, e) == IF e.PortSecured THEN Encrypted(f, e) ELSE f
CanRead(f, e) == f.enc \in {NoKey, e.PairwiseKey}

\* ADD_ONE_To_64BIT_VAR.
CountUp(e) == [e EXCEPT !.R_Counter = @ + 1]

WPAStart2WayGroupHS(e) ==
    \E ok \in Outcomes("group1") :
        IF ok
          THEN LET n == CountUp(e) IN
               /\ ap' = n
               /\ down' \in Transmit(down, Encrypted([Eapol("group1", n) EXCEPT !.gtk = GTK], n))
          ELSE ap' = e /\ UNCHANGED down

MayStart4Way(e) == e.in /\ e.WpaState \in INITPMK .. PTKSTART

\* Mutant: the retry timer is not set.
RunsAfterMsg1 == retryTimer
\* RTMPModTimer of WPAStart4WayHS.
TimerAfterMsg1 == TRUE

\* WPAStart4WayHS after its test of the state.
SendMsg1(e) ==
    LET n == [CountUp(e) EXCEPT !.ANonce = nonces.ap + 1]
    IN /\ nonces' = [nonces EXCEPT !.ap = @ + 1]
       /\ \E ok \in Outcomes("pair1") :
            IF ok
              THEN /\ ap' = [n EXCEPT !.WpaState = PTKSTART]
                   /\ down' \in Transmit(down, EncryptedIfSecured(
                                  [Eapol("pair1", n) EXCEPT !.nonce = n.ANonce], n))
                   /\ retryTimer' = TimerAfterMsg1
              ELSE ap' = n /\ UNCHANGED <<down, retryTimer>>

-----------------------------------------------------------------------------
(* The access point's MLME thread.                                         *)

TimerFree == timerPc = "idle"
MlmeFree == mlmePc = "idle"
\* Frames can be exchanged.
Air == Prompt => TimerFree
Arrives(t) == MlmeFree /\ up # <<>> /\ Head(up).t = t /\ up' = Tail(up)

\* Mutant: an entry that is still there keeps the state of its handshake.
EntryStateKept ==
    IF ap.in
      THEN [ap EXCEPT !.Established = FALSE, !.ReTryCounter = MSG1_RETRY,
                      !.PairwiseKey = NoKey, !.PortSecured = FALSE]
      ELSE [NoEntry EXCEPT !.in = TRUE, !.WpaState = INITPSK]
\* The entry after an association: APPeerAuthReqAtIdleAction keeps one that is still
\* there, with its replay counter and timers; MacTableInsertEntry zeroes it.
EntryAfterAssoc ==
    IF ap.in
      THEN [ap EXCEPT !.WpaState = INITPSK, !.Established = FALSE, !.ReTryCounter = MSG1_RETRY,
                      !.PairwiseKey = NoKey, !.PortSecured = FALSE]
      ELSE [NoEntry EXCEPT !.in = TRUE, !.WpaState = INITPSK]

\* The timer is set only if the flag is clear; the flag may be that of an expiry whose
\* handler is past its own look at it.
ApAssoc ==
    /\ Arrives("assocreq")
    /\ ap' = EntryAfterAssoc
    /\ startTimer' = (startTimer \/ ~startFlag) /\ startFlag' = TRUE
    /\ marks' = IF startFlag /\ timerPc = "clear" THEN marks \cup {"lost"} ELSE marks \ {"lost"}
    /\ down' \in Transmit(down, Frame("assocrsp"))
    /\ UNCHANGED <<retryTimer, started, timerPc, mlmePc, group, sta, nonces, joins>>

\* MacTableDeleteEntry; what it leaves in the entry is zeroed before it is read again.
Delete ==
    /\ ap' = NoEntry
    /\ retryTimer' = FALSE /\ startTimer' = FALSE /\ startFlag' = FALSE

ApDisassoc ==
    /\ Arrives("disassoc")
    /\ Delete
    /\ UNCHANGED <<started, timerPc, mlmePc, group, sta, down, nonces, joins, marks>>

WpaEAPOLStartAction ==
    /\ MlmeFree /\ started > 0 /\ started' = started - 1
    /\ IF ap.in /\ ~ap.PortSecured /\ ap.WpaState < PTKSTART
         THEN SendMsg1([ap EXCEPT !.WpaState = INITPSK, !.R_Counter = 0,
                                  !.ReTryCounter = MSG1_RETRY])
         ELSE UNCHANGED <<ap, retryTimer, down, nonces>>
    /\ UNCHANGED <<starting, timerPc, mlmePc, group, sta, up, joins, marks>>

\* WpaEAPOLKeyAction: the frame can be read and a handshake is under way.
ApTakes(f) == ap.in /\ ap.WpaState >= INITPSK /\ CanRead(f, ap)

\* Mutant: any replay counter up to the current one is accepted.
SanityOfOlder(f, ptk) == f.rc <= ap.R_Counter /\ f.mic = ptk
\* PeerWpaMessageSanity for the authenticator.
ApSanity(f, ptk) == f.rc = ap.R_Counter /\ f.mic = ptk

\* PeerPairMsg2Action up to the sanity check: the PTK is replaced before it.
PeerPairMsg2Check ==
    /\ Arrives("pair2")
    /\ LET f == Head(up)
           ptk == <<ap.ANonce, f.nonce>>
       IN IF ApTakes(f) /\ ap.WpaState >= PTKSTART
            THEN /\ ap' = [ap EXCEPT !.PTK = ptk]
                 /\ mlmePc' = IF ApSanity(f, ptk) THEN "answer" ELSE "idle"
            ELSE UNCHANGED <<ap, mlmePc>>
    /\ UNCHANGED <<timers, started, timerPc, group, sta, down, nonces, joins, marks>>

\* Its rest: message 3 with the entry's nonce, and the group key in WPA2.
PeerPairMsg2Answer ==
    /\ mlmePc = "answer" /\ mlmePc' = "idle"
    /\ \E ok \in Outcomes("pair3") :
         IF ok /\ ap.in
           THEN LET n == CountUp(ap) IN
                /\ ap' = [n EXCEPT !.WpaState = NEGOTIATING, !.ReTryCounter = MSG3_RETRY]
                /\ down' \in Transmit(down, EncryptedIfSecured([Eapol("pair3", n) EXCEPT
                       !.nonce = n.ANonce, !.gtk = IF WPA2 THEN GTK ELSE 0], n))
                /\ retryTimer' = TRUE
           ELSE UNCHANGED <<ap, down, retryTimer>>
    /\ UNCHANGED <<starting, started, timerPc, group, sta, up, nonces, joins, marks>>

PeerPairMsg4Action ==
    /\ Arrives("pair4")
    /\ LET f == Head(up)
           n == [ap EXCEPT !.PairwiseKey = ap.PTK, !.WpaState = DONE, !.PortSecured = TRUE]
       IN IF ApTakes(f) /\ ap.WpaState >= NEGOTIATING /\ ApSanity(f, ap.PTK)
            THEN IF WPA2
                   THEN /\ ap' = [n EXCEPT !.Established = TRUE]
                        /\ retryTimer' = FALSE /\ UNCHANGED down
                   ELSE /\ WPAStart2WayGroupHS([n EXCEPT !.ReTryCounter = GROUP_RETRY])
                        /\ retryTimer' = TRUE
            ELSE UNCHANGED <<ap, retryTimer, down>>
    /\ UNCHANGED <<starting, started, timerPc, mlmePc, group, sta, nonces, joins, marks>>

PeerGroupMsg2Action ==
    /\ Arrives("group2")
    /\ LET f == Head(up)
       IN IF ApTakes(f) /\ ap.WpaState = DONE /\ ApSanity(f, ap.PTK)
            THEN ap' = [ap EXCEPT !.Established = TRUE] /\ retryTimer' = FALSE
            ELSE UNCHANGED <<ap, retryTimer>>
    /\ UNCHANGED <<starting, started, timerPc, mlmePc, group, sta, down, nonces, joins, marks>>

-----------------------------------------------------------------------------
(* The access point's timer thread.                                        *)

\* EnqueueStartForPSKExec up to its look at the state and the flag.
EnqueueStartForPSKExec ==
    /\ TimerFree /\ startTimer /\ startTimer' = FALSE
    /\ timerPc' = IF ap.in /\ ap.WpaState < PTKSTART /\ startFlag THEN "enqueue" ELSE "clear"
    /\ UNCHANGED <<ap, retryTimer, startFlag, started, mlmePc, group, sta, down, up, nonces,
                   joins, marks>>

\* The message carries the entry's address, which is zero once it is deleted.
StartEnqueue ==
    /\ timerPc = "enqueue" /\ timerPc' = "clear"
    /\ \E ok \in Outcomes("start") : started' = started + (IF ok /\ ap.in THEN 1 ELSE 0)
    /\ UNCHANGED <<ap, timers, mlmePc, group, sta, down, up, nonces, joins, marks>>

\* Its end, whatever the flag is by now: a timer that an association has set in between
\* will find it clear and enqueue nothing.
StartClear ==
    /\ timerPc = "clear" /\ timerPc' = "idle"
    /\ startFlag' = FALSE /\ marks' = marks \cup (IF startTimer THEN {"lost"} ELSE {})
    /\ UNCHANGED <<ap, retryTimer, startTimer, started, mlmePc, group, sta, down, up, nonces,
                   joins>>

\* Mutant: the group handshake is retried for ever.
RetryGroupForEver(n) ==
    CASE n > GROUP_RETRY -> "group"
      [] n > MSG1_RETRY + 3 /\ n <= GROUP_RETRY -> "deauth"
      [] OTHER -> "start"
\* What WPARetryExec does at a count.
RetryDoes(n) ==
    CASE n > GROUP_RETRY + 1 -> "deauth"
      [] n = GROUP_RETRY + 1 -> "group"
      [] n > MSG1_RETRY + 3 /\ n <= GROUP_RETRY -> "deauth"
      [] OTHER -> "start"

WPARetryExec ==
    /\ TimerFree /\ retryTimer /\ retryTimer' = FALSE
    /\ ap' = [ap EXCEPT !.ReTryCounter = @ + 1]
    /\ timerPc' = RetryDoes(ap.ReTryCounter + 1)
    /\ UNCHANGED <<starting, started, mlmePc, group, sta, down, up, nonces, joins, marks>>

\* MlmeDeAuthAction; the entry may be another association's by now.
RetryDeauth ==
    /\ timerPc = "deauth" /\ timerPc' = "idle"
    /\ \E ok \in Outcomes("deauth") :
         IF ok /\ ap.in
           THEN Delete /\ down' \in Transmit(down, Frame("deauth"))
           ELSE UNCHANGED <<ap, timers, down>>
    /\ UNCHANGED <<started, mlmePc, group, sta, up, nonces, joins, marks>>

RetryGroup ==
    /\ timerPc = "group" /\ timerPc' = "idle"
    /\ IF ap.in /\ ~ap.Established
         THEN /\ WPAStart2WayGroupHS(ap) /\ retryTimer' = TRUE
              /\ marks' = marks \cup (IF ap.WpaState # DONE THEN {"crossed"} ELSE {})
         ELSE UNCHANGED <<ap, retryTimer, down, marks>>
    /\ UNCHANGED <<starting, started, mlmePc, group, sta, up, nonces, joins>>

\* WPAStart4WayHS, its test and the rest in two steps.
RetryTest ==
    /\ timerPc = "start"
    /\ timerPc' = IF MayStart4Way(ap) THEN "send" ELSE "idle"
    /\ UNCHANGED <<ap, timers, started, mlmePc, group, sta, down, up, nonces, joins, marks>>

RetrySend ==
    /\ timerPc = "send" /\ timerPc' = "idle"
    /\ IF ap.in THEN SendMsg1(ap) ELSE UNCHANGED <<ap, retryTimer, down, nonces>>
    /\ UNCHANGED <<starting, started, mlmePc, group, sta, up, joins, marks>>

\* GREKEYPeriodicExec when the interval is over: a new group key, then the stations.
NewGTK ==
    /\ TimerFree /\ ap.in /\ GTK <= MaxRekeys
    /\ GTK' = GTK + 1 /\ RekeyCountDown' = 3
    /\ timerPc' = "rekey"
    /\ UNCHANGED <<ap, timers, started, mlmePc, txGTK, sta, down, up, nonces, joins, marks>>

\* A station that is done starts a group handshake, the others are left alone.
RekeyStations ==
    /\ timerPc = "rekey" /\ timerPc' = "idle"
    /\ IF ap.in /\ ap.WpaState = DONE
         THEN WPAStart2WayGroupHS([ap EXCEPT !.Established = FALSE])
         ELSE UNCHANGED <<ap, down>>
    /\ RekeyCountDown' = RekeyCountDown - 1
    /\ UNCHANGED <<timers, started, mlmePc, GTK, txGTK, sta, up, nonces, joins, marks>>

\* A new group key is to be installed.
CountsDown == RekeyCountDown > 0

\* GREKEYPeriodicExec at the other seconds.
CountDown ==
    /\ TimerFree /\ CountsDown
    /\ RekeyCountDown' = RekeyCountDown - 1
    /\ txGTK' = IF RekeyCountDown = 1 THEN GTK ELSE txGTK
    /\ UNCHANGED <<ap, timers, started, timerPc, mlmePc, GTK, sta, down, up, nonces, joins,
                   marks>>

-----------------------------------------------------------------------------
(* The station's MLME thread.                                              *)

Receives(t) == Air /\ down # <<>> /\ Head(down).t = t /\ down' = Tail(down)

\* MlmeAssocReqAction, with RTMPWPARemoveAllKeys.
Join ==
    /\ Air /\ sta.link = "down" /\ joins < MaxJoins
    /\ joins' = joins + 1
    /\ sta' = [sta EXCEPT !.link = "joining", !.PairwiseKey = NoKey, !.GTK = 0]
    /\ up' \in Transmit(up, Frame("assocreq"))
    /\ UNCHANGED <<apVars, down, nonces, marks>>

\* AuthTimeout, AssocTimeout.
JoinTimeout ==
    /\ sta.link = "joining" /\ sta' = [sta EXCEPT !.link = "down"]
    /\ UNCHANGED <<apVars, down, up, nonces, joins, marks>>

\* StaAddMacTableEntry, and LinkUp of a WPA network.
LinkUp ==
    /\ Receives("assocrsp")
    /\ sta' = IF sta.link = "joining"
                THEN [sta EXCEPT !.link = "up", !.WpaState = INITPSK, !.R_Counter = 0,
                                 !.PortSecured = FALSE]
                ELSE sta
    /\ UNCHANGED <<apVars, up, nonces, joins, marks>>

\* LinkDown after the user, a lost beacon, LinkDownExec: the keys stay installed.
Leave ==
    /\ sta.link = "up"
    /\ sta' = [StaDown EXCEPT !.PairwiseKey = sta.PairwiseKey, !.GTK = sta.GTK]
    /\ up' \in Transmit(up, Frame("disassoc"))
    /\ UNCHANGED <<apVars, down, nonces, joins, marks>>

PeerDeauth ==
    /\ Receives("deauth")
    /\ sta' = IF sta.link = "up" THEN StaDown ELSE sta
    /\ UNCHANGED <<apVars, up, nonces, joins, marks>>

StaTakes(f) == sta.link = "up" /\ sta.WpaState >= INITPSK /\ CanRead(f, sta)

\* PeerWpaMessageSanity for the supplicant.
StaSanity(f) == (f.rc > sta.R_Counter \/ f.rc = 0) /\ (f.t = "pair1" \/ f.mic = sta.PTK)

\* RTMPParseEapolKeyData: a group key in the frame is installed.
WithGroupKey(f) == [sta EXCEPT !.GTK = IF f.gtk > 0 THEN f.gtk ELSE @]

PeerPairMsg1Action ==
    /\ Receives("pair1")
    /\ LET f == Head(down)
           n == [sta EXCEPT !.R_Counter = f.rc, !.ANonce = f.nonce,
                            !.PTK = <<f.nonce, nonces.sta + 1>>, !.WpaState = NEGOTIATING]
       IN IF StaTakes(f) /\ StaSanity(f)
            THEN /\ sta' = n
                 /\ nonces' = [nonces EXCEPT !.sta = @ + 1]
                 /\ \E ok \in Outcomes("pair2") :
                      IF ok
                        THEN up' \in Transmit(up, [Eapol("pair2", n) EXCEPT !.nonce = nonces.sta + 1])
                        ELSE UNCHANGED up
            ELSE UNCHANGED <<sta, up, nonces>>
    /\ UNCHANGED <<apVars, joins, marks>>

\* Mutant: message 3 opens the port in WPA too.
OpensAlways == TRUE
\* Message 3 opens the port: in WPA2, where it brings the group key.
OpensAtMsg3 == WPA2

PeerPairMsg3Action ==
    /\ Receives("pair3")
    /\ LET f == Head(down)
           n == [WithGroupKey(f) EXCEPT !.R_Counter = f.rc]
           done == [n EXCEPT !.WpaState = DONE, !.PairwiseKey = n.PTK,
                             !.PortSecured = @ \/ OpensAtMsg3]
       IN IF StaTakes(f) /\ StaSanity(f)
            THEN \E ok \in Outcomes("pair4") :
                   IF ok /\ f.nonce = sta.ANonce
                     THEN sta' = done /\ up' \in Transmit(up, Eapol("pair4", done))
                     ELSE sta' = n /\ UNCHANGED up
            ELSE UNCHANGED <<sta, up>>
    /\ UNCHANGED <<apVars, nonces, joins, marks>>

PeerGroupMsg1Action ==
    /\ Receives("group1")
    /\ LET f == Head(down)
           n == [WithGroupKey(f) EXCEPT !.R_Counter = f.rc]
           open == [n EXCEPT !.PortSecured = TRUE]
       IN IF StaTakes(f) /\ StaSanity(f)
            THEN \E ok \in Outcomes("group2") :
                   IF ok
                     THEN sta' = open /\ up' \in Transmit(up, Encrypted(Eapol("group2", open), open))
                     ELSE sta' = n /\ UNCHANGED up
            ELSE UNCHANGED <<sta, up>>
    /\ UNCHANGED <<apVars, nonces, joins, marks>>

-----------------------------------------------------------------------------
ApMlme ==
    \/ ApAssoc \/ ApDisassoc \/ WpaEAPOLStartAction \/ PeerPairMsg2Check
    \/ PeerPairMsg2Answer \/ PeerPairMsg4Action \/ PeerGroupMsg2Action
ApTimers ==
    \/ EnqueueStartForPSKExec \/ StartEnqueue \/ StartClear \/ WPARetryExec \/ RetryDeauth \/ RetryGroup
    \/ RetryTest \/ RetrySend \/ NewGTK \/ RekeyStations \/ CountDown
Station ==
    \/ Join \/ JoinTimeout \/ LinkUp \/ Leave \/ PeerDeauth
    \/ PeerPairMsg1Action \/ PeerPairMsg3Action \/ PeerGroupMsg1Action

Next == ApMlme \/ ApTimers \/ Station

Spec == Init /\ [][Next]_vars

-----------------------------------------------------------------------------
Keys == Nat \X Nat
FrameTypes == {"assocreq", "assocrsp", "disassoc", "deauth", "pair1", "pair2",
               "pair3", "pair4", "group1", "group2"}
Frames == [t : FrameTypes, rc : Nat, nonce : Nat, mic : Keys, gtk : Nat, enc : Keys]
Entries == [in : BOOLEAN, WpaState : NOTUSE .. DONE, R_Counter : Nat, ReTryCounter : Nat,
            ANonce : Nat, PTK : Keys, PairwiseKey : Keys, Established : BOOLEAN,
            PortSecured : BOOLEAN]
Stations == [link : {"down", "joining", "up"}, WpaState : NOTUSE .. DONE, R_Counter : Nat,
             ANonce : Nat, PTK : Keys, PairwiseKey : Keys, GTK : Nat, PortSecured : BOOLEAN]

\* The variables have the types of the code's, and the bounds hold; the countdown of
\* GREKEYPeriodicExec is never below zero.
TypeOK ==
    /\ ap \in Entries
    /\ retryTimer \in BOOLEAN /\ startTimer \in BOOLEAN /\ started \in Nat
    /\ startFlag \in BOOLEAN /\ marks \subseteq {"lost", "crossed"}
    /\ timerPc \in {"idle", "enqueue", "clear", "deauth", "group", "start", "send", "rekey"}
    /\ mlmePc \in {"idle", "answer"}
    /\ GTK \in 1 .. MaxRekeys + 1 /\ txGTK \in 1 .. GTK /\ RekeyCountDown \in 0 .. 3
    /\ sta \in Stations
    /\ down \in Seq(Frames) /\ Len(down) <= Cap
    /\ up \in Seq(Frames) /\ Len(up) <= Cap
    /\ nonces \in [ap : Nat, sta : Nat] /\ joins \in 0 .. MaxJoins

\* When the access point's handshake is done and the station has not left, both have
\* installed the same pairwise key: in spite of retries that cross answers, of an
\* entry kept over a new association, of failed allocations (PeerPairMsg4Action).
KeysAgree ==
    (ap.in /\ ap.WpaState = DONE /\ sta.link = "up") =>
        (ap.PairwiseKey = sta.PairwiseKey /\ sta.PairwiseKey # NoKey)

\* The station's port opens only after it has both its keys, although
\* PeerGroupMsg1Action opens it without a look at WpaState, and a retry of the group
\* handshake can meet a new association: until a retry chosen for one association
\* sends in the handshake of the next (WPARetryExec tests GTKState alone).
PortOpensOnKeys ==
    (sta.PortSecured /\ "crossed" \notin marks) =>
        (sta.link = "up" /\ sta.PairwiseKey # NoKey /\ sta.GTK > 0)

\* When the access point takes the keys of a station that has not left for
\* established (GTKState), the station's port is open.  In WPA it then also has the
\* newest group key, even when that is made in the middle of a handshake
\* (GREKEYPeriodicExec against PeerPairMsg4Action and PeerGroupMsg2Action).
EstablishedAtBothEnds ==
    (ap.in /\ ap.Established /\ sta.link = "up") =>
        /\ sta.PortSecured
        /\ ~WPA2 /\ timerPc # "rekey" => sta.GTK = GTK

\* An associated station without established keys is never left to itself: a timer
\* runs that repeats the message or disconnects it, or a start is queued, or the timer
\* thread is at it (WPARetryExec against MLME handlers that set or stop the timer).
\* The group handshake of an update is not repeated, and a start may be lost to a handler
\* that has not ended (APPeerAssocReqAction's flag in EnqueueStartForPSKExec).
HandshakeTimed ==
    (ap.in /\ ~ap.Established /\ (ap.WpaState # DONE \/ GTK = 1)) =>
        \/ retryTimer \/ startTimer \/ started > 0
        \/ timerPc \in {"enqueue", "deauth", "group", "start", "send"}
        \/ "lost" \in marks

\* WPARetryExec counts no further than its last case, which disconnects: a start, message
\* 2, message 4 and a new association set the counter while its handler is at work.
RetriesBounded == ap.ReTryCounter <= GROUP_RETRY + 2
=============================================================================
