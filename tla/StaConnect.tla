------------------------------ MODULE StaConnect ------------------------------
(***************************************************************************)
(* How the station scans, joins, authenticates and associates              *)
(* (sta/connect.c, sta/sync.c, sta/auth.c, sta/auth_rsp.c, sta/assoc.c,    *)
(* common/scan.c).  Four state machines, CNTL, SYNC, AUTH and ASSOC, run   *)
(* in the MLME thread and talk to one another only through the MLME queue: *)
(* CNTL sends a request and waits for the confirm.  The same queue brings  *)
(* the user's requests, the peers' frames and the timeouts, so that        *)
(* anything may overtake an answer, and a request already queued survives  *)
(* the reset the user's next request begins with.                          *)
(*                                                                         *)
(* Queue holds the messages whose sender looked at the machines first:     *)
(* CNTL's and the other machines', the user's, the periodic timer's.  A    *)
(* frame is received at any moment, and a timeout is queued at any moment  *)
(* after its timer ran out; their place in the queue is therefore left     *)
(* out: they are handled between any two messages of Queue.                *)
(*                                                                         *)
(* Modelled: an infrastructure station driven through the wireless         *)
(* extensions.  Abstracted: the queue's slots (MlmeQueue), halt, radio     *)
(* off, ATE, ad hoc networks, WPA countermeasures (bBlockAssoc), failed    *)
(* allocations, and the contents of frames; ScanTab, out of which a table  *)
(* of matching BSSs is chosen freely; bAutoReconnect and MlmeValidateSSID, *)
(* which are free; reassociation, which nothing requests.                  *)
(***************************************************************************)
EXTENDS Integers, FiniteSets, Sequences

CONSTANTS
    BSS, NoBss,     \* access points; a zeroed address
    AuthMode,       \* StaCfg.AuthMode: open, shared key, try both, WPA2PSK
    Channels,       \* channels a scan visits
    ScanBatch,      \* channels before an improved scan pauses: 7 in the driver
    QueueBound,     \* bound: length at which nobody outside adds a message
    LateBound,      \* bound: timers whose timeout waits to be handled
    UserOids,       \* bound: what the user asks for
    Disturb         \* who acts while an attempt is under way:
                    \* "user", "peer" (kicks us), "timer" (the periodic timer)

ASSUME StaAssumption ==
    /\ IsFiniteSet(BSS) /\ BSS # {} /\ NoBss \notin BSS
    /\ AuthMode \in {"OPEN", "SHARED", "AUTOSWITCH", "WPA2PSK"}
    /\ Channels \in Nat \ {0} /\ ScanBatch \in Nat \ {0} /\ QueueBound \in Nat
    /\ LateBound \in Nat \ {0}
    /\ UserOids \subseteq {"OID_SSID", "OID_BSSID", "OID_LIST_SCAN", "OID_DISASSOCIATE"}
    /\ Disturb \subseteq {"user", "peer", "timer"}

Entries == 0 .. Cardinality(BSS) - 1
Timers == {"Beacon", "Scan", "Auth", "Assoc", "Disassoc"}

VARIABLES
    Queue,                      \* the MLME queue, as its contents (but see above)
    Cntl, Sync, Auth, Assoc,    \* CurrState of the machines
    armed,                      \* timers that run
    late,                       \* timers whose timeout runs or is queued
    AuxBssid, Alg,              \* MlmeAux.Bssid, MlmeAux.Alg
    BssEntry, BssNr, BssIdx,    \* MlmeAux.SsidBssTab and where CNTL is in it
    Channel, ScanChannelCnt,    \* channels the scan has left; visited in a row
    bImprovedScan,              \* the scan pauses to let data through
    scanning,                   \* BSS_SCAN_IN_PROGRESS: data is held back
    Bssid,                      \* CommonCfg.Bssid when INFRA_ON, else NoBss
    Wcid,                       \* whose AssocRsp filled MacTab's BSSID_WCID
    request,                    \* an ioctl's request, not yet queued
    periodic                    \* the periodic timer between a test and its act

timers == <<armed, late>>
aux == <<AuxBssid, Alg>>
table == <<BssEntry, BssNr, BssIdx>>
channels == <<Channel, ScanChannelCnt>>
scan == <<channels, bImprovedScan, scanning>>
link == <<Bssid, Wcid>>
callers == <<request, periodic>>
vars == <<Queue, Cntl, Sync, Auth, Assoc, timers, aux, table, scan, link, callers>>

Oids == {"OID_SSID", "OID_BSSID", "OID_LIST_SCAN", "OID_DISASSOCIATE"}

\* The messages of the queue, by what they carry.
Msg(type) == [type |-> type]
From(type, b) == [type |-> type, bss |-> b]
Conf(type, ok) == [type |-> type, ok |-> ok]
AuthReq(b, alg) == [type |-> "AUTH_REQ", bss |-> b, alg |-> alg]
JoinReq(i) == [type |-> "JOIN_REQ", idx |-> i]

NoRequest == Msg("none")
Requests == {Msg("OID_SSID"), Msg("OID_LIST_SCAN"), Msg("OID_DISASSOCIATE")}
              \cup {From("OID_BSSID", b) : b \in BSS}

Init ==
    /\ Queue = <<>>
    /\ Cntl = "IDLE" /\ Sync = "IDLE" /\ Auth = "IDLE" /\ Assoc = "IDLE"
    /\ armed = {} /\ late = {}
    /\ AuxBssid = NoBss /\ Alg = "OPEN"
    /\ BssEntry = [i \in Entries |-> NoBss] /\ BssNr = 0 /\ BssIdx = 0
    /\ Channel = 0 /\ ScanChannelCnt = 0
    /\ bImprovedScan = FALSE /\ scanning = FALSE
    /\ Bssid = NoBss /\ Wcid = NoBss
    /\ request = NoRequest /\ periodic = "idle"

-----------------------------------------------------------------------------
(* What comes from outside. *)

Room == Len(Queue) < QueueBound
Enqueue(m) == Queue' = Append(Queue, m)
Calm(who) == who \notin Disturb
Sent(m) == \E k \in 1 .. Len(Queue) : Queue[k] = m
SentType(type) == \E k \in 1 .. Len(Queue) : Queue[k].type = type

\* An ioctl asks: if CNTL is busy it queues a reset of the machines first ...
UserAsks(m) ==
    /\ request = NoRequest /\ Room /\ m.type \in UserOids
    /\ Calm("user") => Cntl = "IDLE"
    /\ m.type = "OID_LIST_SCAN" => ~scanning
    /\ m.type = "OID_DISASSOCIATE" => Bssid # NoBss
    /\ IF Cntl = "IDLE" THEN UNCHANGED Queue ELSE Enqueue(Msg("RESET_CONF"))
    /\ request' = m
    /\ IF m.type = "OID_LIST_SCAN" /\ Bssid # NoBss
       THEN bImprovedScan' = TRUE /\ ScanChannelCnt' = 0
       ELSE UNCHANGED <<bImprovedScan, ScanChannelCnt>>
    /\ UNCHANGED <<Cntl, Sync, Auth, Assoc, timers, aux, table, Channel, scanning,
                   link, periodic>>

\* ... and then the request.
UserRequest ==
    /\ request # NoRequest
    /\ Enqueue(request) /\ request' = NoRequest
    /\ UNCHANGED <<Cntl, Sync, Auth, Assoc, timers, aux, table, scan, link, periodic>>

\* The periodic timer's thread finds CNTL idle and another AP better ...
MlmeCheckForRoaming ==
    /\ Room /\ periodic = "idle" /\ Cntl = "IDLE" /\ Bssid # NoBss
    /\ Enqueue(Msg("ROAMING_REQ"))
    /\ UNCHANGED <<Cntl, Sync, Auth, Assoc, timers, aux, table, scan, link, callers>>

\* ... or CNTL idle and no link, and tries the last SSID again ...
MlmeAutoReconnectLastSSID ==
    /\ Room /\ periodic = "idle" /\ Cntl = "IDLE" /\ Bssid = NoBss
    /\ Enqueue(Msg("OID_SSID"))
    /\ UNCHANGED <<Cntl, Sync, Auth, Assoc, timers, aux, table, scan, link, callers>>

\* ... or, with no BSS known, queues a scan and moves CNTL itself, in a thread
\* that is not CNTL's: between its test and its act CNTL may have moved.
PeriodicTest ==
    /\ ~Calm("timer") /\ periodic = "idle" /\ Cntl = "IDLE" /\ Bssid = NoBss
    /\ periodic' = "scan"
    /\ UNCHANGED <<Queue, Cntl, Sync, Auth, Assoc, timers, aux, table, scan, link, request>>
PeriodicScan ==
    /\ Room
    /\ IF Calm("timer") THEN Cntl = "IDLE" /\ Bssid = NoBss ELSE periodic = "scan"
    /\ Enqueue(Msg("SCAN_REQ"))
    /\ Cntl' = "WAIT_OID_LIST_SCAN"
    /\ periodic' = "idle"
    /\ UNCHANGED <<Sync, Auth, Assoc, timers, aux, table, scan, link, request>>

\* ... or an improved scan that pauses, and resumes it; a second request, a
\* second later, before the first is served, needs a thread that is held up.
ResumeScan ==
    /\ Room /\ periodic = "idle" /\ bImprovedScan /\ ~scanning /\ Sync = "SCAN_PENDING"
    /\ Calm("timer") => ~SentType("SCAN_REQ")
    /\ Enqueue(Msg("SCAN_REQ"))
    /\ UNCHANGED <<Cntl, Sync, Auth, Assoc, timers, aux, table, scan, link, callers>>

\* A timer runs out: from here a cancellation comes too late.
TimerFires(t) ==
    /\ t \in armed \ late /\ Cardinality(late) < LateBound
    /\ armed' = armed \ {t} /\ late' = late \cup {t}
    /\ UNCHANGED <<Queue, Cntl, Sync, Auth, Assoc, aux, table, scan, link, callers>>

-----------------------------------------------------------------------------
(* The MLME thread takes a message and runs the handler that the machine's  *)
(* state gives it: the message at the head of Queue (Received), a timeout   *)
(* (TimedOut) or a peer's frame.  What the handler sends joins the queue.   *)

Received(type) == Queue # <<>> /\ Head(Queue).type = type
msg == Head(Queue)
Handled(replies) == Queue' = Tail(Queue) \o replies /\ UNCHANGED late
Consumed == Handled(<<>>)

TimedOut(t) == t \in late /\ late' = late \ {t}
Reply(replies) == Queue' = Queue \o replies

\* What a handler of CNTL never touches.
CntlFrame == UNCHANGED <<Sync, Auth, Assoc, Alg, channels, callers>>
NoLinkChange == UNCHANGED <<armed, link, bImprovedScan, scanning>>

LinkDown == /\ Bssid' = NoBss /\ Wcid' = NoBss
            /\ bImprovedScan' = FALSE /\ scanning' = FALSE
            /\ UNCHANGED armed

\* LinkUp also cancels DisassocTimer.
LinkUp == /\ Bssid' = AuxBssid /\ Wcid' = Wcid
          /\ bImprovedScan' = FALSE /\ scanning' = FALSE
          /\ armed' = armed \ {"Disassoc"}

\* Mutant: the table is tried from its start again.
NextIdxFromStart(i) == 0
\* BssIdx counts on past the end of the table, where its value matters no more.
NextIdx(i) == IF i < Cardinality(BSS) THEN i + 1 ELSE i

\* Mutant: one entry past the table.
IteratePastTable(rest, idx, nr) ==
    /\ BssIdx' = idx
    /\ IF idx <= nr
       THEN Queue' = Append(rest, JoinReq(idx)) /\ Cntl' = "WAIT_JOIN" /\ BssNr' = nr
       ELSE Queue' = rest /\ Cntl' = "IDLE" /\ BssNr' = 0
\* Ask SYNC to join the BSS at idx of a table of nr entries, or give up; rest is
\* the queue without the message in hand.
IterateOnBssTab(rest, idx, nr) ==
    /\ BssIdx' = idx
    /\ IF idx < nr
       THEN Queue' = Append(rest, JoinReq(idx)) /\ Cntl' = "WAIT_JOIN" /\ BssNr' = nr
       ELSE Queue' = rest /\ Cntl' = "IDLE" /\ BssNr' = 0
Iterate(idx, nr) == IterateOnBssTab(Tail(Queue), idx, nr) /\ UNCHANGED late

\* BssTableSsidSort, or a copy of RoamTab: any candidates in any order.
SortedTable(candidates, nr) ==
    BssEntry' \in {f \in [Entries -> candidates \cup {NoBss}] :
                     /\ \A i \in Entries : f[i] # NoBss <=> i < nr
                     /\ \A i, j \in 0 .. nr - 1 : f[i] = f[j] => i = j}

StartScan == Handled(<<Msg("SCAN_REQ")>>) /\ Cntl' = "WAIT_OID_LIST_SCAN"
Leave(state) == Handled(<<From("DISASSOC_REQ", Bssid)>>) /\ Cntl' = state

\* SET SSID, or the driver's own reconnection.  A link to the best match is kept
\* unless its port is not secured or the configuration has changed.
CntlOidSsidProc ==
    /\ Cntl = "IDLE" /\ Received("OID_SSID")
    /\ AuxBssid' = NoBss
    /\ \E nr \in 0 .. Cardinality(BSS) :
          /\ SortedTable(BSS, nr)
          /\ \/ /\ Bssid # NoBss /\ BssEntry'[0] = Bssid
                /\ Consumed /\ BssNr' = nr /\ UNCHANGED <<Cntl, BssIdx>>
             \/ /\ Bssid # NoBss
                /\ Leave("WAIT_DISASSOC") /\ BssNr' = nr /\ UNCHANGED BssIdx
             \/ /\ Bssid = NoBss /\ nr = 0 /\ ~scanning
                /\ StartScan /\ BssNr' = 0 /\ UNCHANGED BssIdx
             \/ Bssid = NoBss /\ Iterate(0, nr)
    /\ NoLinkChange /\ CntlFrame

\* SET BSSID.  (A BSS that is not found while a scan runs would start an ad hoc
\* network, after a first scan; not modelled.)
CntlOidRTBssidProc ==
    /\ Cntl = "IDLE" /\ Received("OID_BSSID")
    /\ AuxBssid' = msg.bss
    /\ \/ StartScan /\ UNCHANGED table
       \/ /\ BssEntry' = [BssEntry EXCEPT ![0] = msg.bss] /\ BssNr' = 1 /\ BssIdx' = 0
          /\ IF Bssid # NoBss THEN Leave("WAIT_DISASSOC")
             ELSE Handled(<<JoinReq(0)>>) /\ Cntl' = "WAIT_JOIN"
    /\ NoLinkChange /\ CntlFrame

CntlOidScanProc ==
    /\ Cntl = "IDLE" /\ Received("OID_LIST_SCAN")
    /\ StartScan
    /\ UNCHANGED <<AuxBssid, table>> /\ NoLinkChange /\ CntlFrame

CntlOidDisassociate ==
    /\ Cntl = "IDLE" /\ Received("OID_DISASSOCIATE")
    /\ Leave("WAIT_OID_DISASSOC")
    /\ UNCHANGED <<AuxBssid, table>> /\ NoLinkChange /\ CntlFrame

CntlMlmeRoamingProc ==
    /\ Cntl = "IDLE" /\ Received("ROAMING_REQ")
    /\ \E nr \in 0 .. Cardinality(BSS \ {Bssid}) :
          SortedTable(BSS \ {Bssid}, nr) /\ Iterate(0, nr)
    /\ UNCHANGED AuxBssid /\ NoLinkChange /\ CntlFrame

\* The next BSS of the table, counting from wherever BssIdx was.
CntlWaitDisassocProc ==
    /\ Cntl = "WAIT_DISASSOC" /\ Received("DISASSOC_CONF")
    /\ LinkDown
    /\ Iterate(NextIdx(BssIdx), BssNr)
    /\ UNCHANGED <<AuxBssid, BssEntry>> /\ CntlFrame

CntlWaitOidDisassoc ==
    /\ Cntl = "WAIT_OID_DISASSOC" /\ Received("DISASSOC_CONF")
    /\ LinkDown
    /\ Consumed /\ Cntl' = "IDLE"
    /\ UNCHANGED <<AuxBssid, table>> /\ CntlFrame

\* Mutant: the end of the scan does not let data through again.
HoldData == UNCHANGED scanning
\* RTMPResumeMsduTransmission.
ReleaseData == scanning' = FALSE

CntlWaitOidListScan ==
    /\ Cntl = "WAIT_OID_LIST_SCAN" /\ Received("SCAN_CONF")
    /\ bImprovedScan' = FALSE /\ ReleaseData
    /\ Consumed /\ Cntl' = "IDLE"
    /\ UNCHANGED <<AuxBssid, table, armed, link>> /\ CntlFrame

FirstAlg == IF AuthMode \in {"SHARED", "AUTOSWITCH"} THEN "SHARED" ELSE "OPEN"

\* A step of an attempt failed: the next BSS of the table.
TryNextBss == Iterate(NextIdx(BssIdx), BssNr) /\ UNCHANGED BssEntry
Ask(m, state) == Handled(<<m>>) /\ Cntl' = state /\ UNCHANGED table

CntlWaitJoinProc ==
    /\ Cntl = "WAIT_JOIN" /\ Received("JOIN_CONF")
    /\ IF msg.ok THEN Ask(AuthReq(AuxBssid, FirstAlg), "WAIT_AUTH") ELSE TryNextBss
    /\ UNCHANGED AuxBssid /\ NoLinkChange /\ CntlFrame

CntlWaitAuthProc ==
    /\ Cntl = "WAIT_AUTH" /\ Received("AUTH_CONF")
    /\ IF msg.ok THEN Ask(From("ASSOC_REQ", AuxBssid), "WAIT_ASSOC")
                 ELSE Ask(AuthReq(AuxBssid, FirstAlg), "WAIT_AUTH2")
    /\ UNCHANGED AuxBssid /\ NoLinkChange /\ CntlFrame

CntlWaitAuthProc2 ==
    /\ Cntl = "WAIT_AUTH2" /\ Received("AUTH_CONF")
    /\ IF msg.ok THEN Ask(From("ASSOC_REQ", AuxBssid), "WAIT_ASSOC")
       ELSE IF AuthMode = "AUTOSWITCH" /\ Alg = "SHARED"
            THEN Ask(AuthReq(AuxBssid, "OPEN"), "WAIT_AUTH2")
            ELSE TryNextBss
    /\ UNCHANGED AuxBssid /\ NoLinkChange /\ CntlFrame

CntlWaitAssocProc ==
    /\ Cntl = "WAIT_ASSOC" /\ Received("ASSOC_CONF")
    /\ IF msg.ok THEN LinkUp /\ Consumed /\ Cntl' = "IDLE" /\ UNCHANGED table
                 ELSE TryNextBss /\ NoLinkChange
    /\ UNCHANGED AuxBssid /\ CntlFrame

\* Mutant: ASSOC is not put back to idle.
RestartForgetsAssoc ==
    /\ Received("RESET_CONF")
    /\ Cntl' = "IDLE" /\ Sync' = "IDLE" /\ Auth' = "IDLE"
    /\ armed' = {} /\ ReleaseData
    /\ Consumed
    /\ UNCHANGED <<Assoc, aux, table, channels, bImprovedScan, link, callers>>
\* MlmeRestartStateMachine, for RESET_CONF: the machines and their timers, and
\* nothing that is queued already.
MlmeRestartStateMachine ==
    /\ Received("RESET_CONF")
    /\ Cntl' = "IDLE" /\ Sync' = "IDLE" /\ Auth' = "IDLE" /\ Assoc' = "IDLE"
    /\ armed' = {} /\ ReleaseData
    /\ Consumed
    /\ UNCHANGED <<aux, table, channels, bImprovedScan, link, callers>>

-----------------------------------------------------------------------------
(* SYNC: scanning and joining. *)

SyncFrame == UNCHANGED <<Cntl, Auth, Assoc, Alg, table, link, callers>>

\* ScanNextChannel, with ch channels left, the timers of running still armed and
\* data held back or not; rest is the queue.  scan_ch_restore ends the scan, or a batch of an
\* improved one: that pause confirms nothing and lets data through.
ScanNextChannel(rest, ch, running, held) ==
    LET Pause == bImprovedScan /\ ScanChannelCnt >= ScanBatch
    IN  \/ /\ ch # 0 /\ ~Pause
           /\ armed' = running \cup {"Scan"} /\ Sync' = "SCAN_LISTEN"
           /\ ScanChannelCnt' = IF ScanChannelCnt < ScanBatch THEN ScanChannelCnt + 1
                                                            ELSE ScanChannelCnt
           /\ Queue' = rest /\ scanning' = held /\ UNCHANGED bImprovedScan
        \/ /\ ch # 0 /\ Pause
           /\ armed' = running /\ Sync' = "SCAN_PENDING" /\ ScanChannelCnt' = 0
           /\ Queue' = rest /\ scanning' = FALSE /\ UNCHANGED bImprovedScan
        \/ /\ ch = 0
           /\ armed' = running /\ Sync' = "IDLE" /\ ScanChannelCnt' = 0
           /\ Queue' = Append(rest, Msg("SCAN_CONF"))
           /\ scanning' = held /\ bImprovedScan' = FALSE

MlmeScanReqAction ==
    /\ Sync \in {"IDLE", "SCAN_PENDING"} /\ Received("SCAN_REQ")
    /\ Channel' = IF bImprovedScan /\ Sync = "SCAN_PENDING" THEN Channel ELSE Channels
    /\ ScanNextChannel(Tail(Queue), Channel', armed \ {"Beacon", "Scan"}, TRUE)
    /\ UNCHANGED <<late, AuxBssid>> /\ SyncFrame

ScanTimeoutAction ==
    /\ Sync = "SCAN_LISTEN" /\ TimedOut("Scan")
    /\ Channel' = Channel - 1
    /\ ScanNextChannel(Queue, Channel', armed, scanning)
    /\ UNCHANGED AuxBssid /\ SyncFrame

\* The BSS is looked up when SYNC gets the request, not when CNTL sends it.
MlmeJoinReqAction ==
    /\ Sync \in {"IDLE", "JOIN_WAIT_BEACON", "SCAN_LISTEN"} /\ Received("JOIN_REQ")
    /\ AuxBssid' = BssEntry[msg.idx]
    /\ armed' = (armed \ {"Scan"}) \cup {"Beacon"}
    /\ Sync' = "JOIN_WAIT_BEACON"
    /\ Consumed
    /\ UNCHANGED scan /\ SyncFrame

PeerBeaconAtJoinAction(b) ==
    /\ Sync = "JOIN_WAIT_BEACON" /\ b = AuxBssid
    /\ Sync' = "IDLE" /\ armed' = armed \ {"Beacon"}
    /\ Reply(<<Conf("JOIN_CONF", TRUE)>>)
    /\ UNCHANGED <<late, AuxBssid, scan>> /\ SyncFrame

\* Mutant: CNTL is not told that no beacon came.
SilentBeaconTimeout ==
    /\ Sync = "JOIN_WAIT_BEACON" /\ TimedOut("Beacon")
    /\ Sync' = "IDLE"
    /\ UNCHANGED <<Queue, AuxBssid, armed, scan>> /\ SyncFrame

BeaconTimeoutAtJoinAction ==
    /\ Sync = "JOIN_WAIT_BEACON" /\ TimedOut("Beacon")
    /\ Sync' = "IDLE"
    /\ Reply(<<Conf("JOIN_CONF", FALSE)>>)
    /\ UNCHANGED <<AuxBssid, armed, scan>> /\ SyncFrame

-----------------------------------------------------------------------------
(* AUTH. *)

AuthFrame == UNCHANGED <<Cntl, Sync, Assoc, table, scan, link, callers>>
AuthConf(ok) == <<Conf("AUTH_CONF", ok)>>

MlmeAuthReqAction ==
    /\ Auth = "IDLE" /\ Received("AUTH_REQ")
    /\ AuxBssid' = msg.bss /\ Alg' = msg.alg
    /\ armed' = armed \cup {"Auth"}
    /\ Auth' = "WAIT_SEQ2"
    /\ Consumed /\ AuthFrame

\* AuthTimer is cancelled and set anew for the answer to the challenge.
ChallengeTimed == armed' = armed \cup {"Auth"}

PeerAuthRspAtSeq2Action(b, seq, ok) ==
    /\ Auth = "WAIT_SEQ2" /\ b = AuxBssid /\ seq = 2
    /\ IF ok /\ Alg = "SHARED"
       THEN Auth' = "WAIT_SEQ4" /\ ChallengeTimed /\ UNCHANGED Queue
       ELSE Auth' = "IDLE" /\ armed' = armed \ {"Auth"} /\ Reply(AuthConf(ok))
    /\ UNCHANGED <<late, aux>> /\ AuthFrame

PeerAuthRspAtSeq4Action(b, seq, ok) ==
    /\ Auth = "WAIT_SEQ4" /\ b = AuxBssid /\ seq = 4
    /\ Auth' = "IDLE" /\ armed' = armed \ {"Auth"} /\ Reply(AuthConf(ok))
    /\ UNCHANGED <<late, aux>> /\ AuthFrame

AuthTimeoutAction ==
    /\ Auth # "IDLE" /\ TimedOut("Auth")
    /\ Auth' = "IDLE" /\ Reply(AuthConf(FALSE))
    /\ UNCHANGED <<aux, armed>> /\ AuthFrame

\* A second request while the first waits ends both; AuthTimer runs on.
InvalidStateWhenAuth ==
    /\ Auth # "IDLE" /\ Received("AUTH_REQ")
    /\ Auth' = "IDLE" /\ Handled(AuthConf(FALSE))
    /\ UNCHANGED <<aux, armed>> /\ AuthFrame

-----------------------------------------------------------------------------
(* ASSOC, and the peer's deauthentication. *)

AssocFrame == UNCHANGED <<Cntl, Sync, Auth, Alg, BssEntry, channels, callers>>
OnlyAssoc == UNCHANGED <<BssNr, BssIdx, link, bImprovedScan, scanning>> /\ AssocFrame

MlmeAssocReqAction ==
    /\ Assoc = "IDLE" /\ Received("ASSOC_REQ")
    /\ AuxBssid' = msg.bss
    /\ armed' = armed \cup {"Assoc"}
    /\ Assoc' = "WAIT_RSP"
    /\ Consumed /\ OnlyAssoc

MlmeDisassocReqAction ==
    /\ Assoc = "IDLE" /\ Received("DISASSOC_REQ")
    /\ armed' = armed \cup {"Disassoc"}
    /\ Assoc' = "DISASSOC_WAIT_RSP"
    /\ Consumed /\ UNCHANGED AuxBssid /\ OnlyAssoc

\* Mutant: an answer is taken for the AP's own whoever sent it.
FromAnyone(b) == TRUE
FromOurAp(b) == b = AuxBssid

\* A granted association fills the MAC table's entry for the AP at once; the
\* link comes up when CNTL gets the confirm.
PeerAssocRspAction(b, ok) ==
    /\ Assoc = "WAIT_RSP" /\ FromOurAp(b)
    /\ armed' = armed \ {"Assoc"}
    /\ Wcid' = IF ok THEN b ELSE Wcid
    /\ Assoc' = "IDLE" /\ Reply(<<Conf("ASSOC_CONF", ok)>>)
    /\ UNCHANGED <<late, AuxBssid, BssNr, BssIdx, Bssid, bImprovedScan, scanning>>
    /\ AssocFrame

AssocTimeoutAction ==
    /\ Assoc = "WAIT_RSP" /\ TimedOut("Assoc")
    /\ Assoc' = "IDLE" /\ Reply(<<Conf("ASSOC_CONF", FALSE)>>)
    /\ UNCHANGED <<AuxBssid, armed>> /\ OnlyAssoc

DisassocTimeoutAction ==
    /\ Assoc = "DISASSOC_WAIT_RSP" /\ TimedOut("Disassoc")
    /\ Assoc' = "IDLE" /\ Reply(<<Conf("DISASSOC_CONF", TRUE)>>)
    /\ UNCHANGED <<AuxBssid, armed>> /\ OnlyAssoc

\* A second request while one waits ends both; its timer runs on.
InvalidStateWhenAssoc ==
    /\ Assoc # "IDLE" /\ Received("ASSOC_REQ")
    /\ Assoc' = "IDLE" /\ Handled(<<Conf("ASSOC_CONF", FALSE)>>)
    /\ UNCHANGED <<AuxBssid, armed>> /\ OnlyAssoc

InvalidStateWhenDisassociate ==
    /\ Assoc # "IDLE" /\ Received("DISASSOC_REQ")
    /\ Assoc' = "IDLE" /\ Handled(<<Conf("DISASSOC_CONF", FALSE)>>)
    /\ UNCHANGED <<AuxBssid, armed>> /\ OnlyAssoc

\* In any state of ASSOC, from the AP of the link; DisassocTimer runs on.  Only
\* CNTL_WAIT_DISASSOC gets an answer.
PeerDisassocAction(b) ==
    /\ b = Bssid /\ Room
    /\ IF Cntl = "WAIT_DISASSOC"
       THEN /\ Reply(<<Conf("DISASSOC_CONF", TRUE)>>)
            /\ UNCHANGED <<armed, link, bImprovedScan, scanning>>
       ELSE LinkDown /\ UNCHANGED Queue
    /\ Assoc' = "IDLE"
    /\ UNCHANGED <<late, AuxBssid, BssNr, BssIdx>> /\ AssocFrame

\* The link goes down; before a WPA-PSK handshake has secured the port the next
\* BSS is tried, whatever CNTL is doing.  (The handshake is not modelled: the
\* port is secured or not.)
PeerDeauthAction(b) ==
    /\ b = Bssid /\ Room
    /\ LinkDown
    /\ \/ UNCHANGED <<Queue, Cntl, BssNr, BssIdx>>
       \/ AuthMode = "WPA2PSK" /\ IterateOnBssTab(Queue, NextIdx(BssIdx), BssNr)
    /\ UNCHANGED <<Sync, Auth, Assoc, late, aux, BssEntry, channels, callers>>

-----------------------------------------------------------------------------
(* The machines together. *)

CntlMachine ==
    \/ CntlOidSsidProc \/ CntlOidRTBssidProc \/ CntlOidScanProc \/ CntlOidDisassociate
    \/ CntlMlmeRoamingProc \/ CntlWaitDisassocProc \/ CntlWaitOidDisassoc
    \/ CntlWaitOidListScan \/ CntlWaitJoinProc \/ CntlWaitAuthProc
    \/ CntlWaitAuthProc2 \/ CntlWaitAssocProc
OtherMachines ==
    \/ MlmeScanReqAction \/ MlmeJoinReqAction
    \/ MlmeAuthReqAction \/ InvalidStateWhenAuth
    \/ MlmeAssocReqAction \/ MlmeDisassocReqAction
    \/ InvalidStateWhenAssoc \/ InvalidStateWhenDisassociate

\* The messages of Queue that have a handler in each state (StateMachineInit's
\* tables and CNTL's switch); any other is dropped.
CntlTakes == [IDLE |-> Oids \cup {"ROAMING_REQ"},
              WAIT_DISASSOC |-> {"DISASSOC_CONF"}, WAIT_OID_DISASSOC |-> {"DISASSOC_CONF"},
              WAIT_OID_LIST_SCAN |-> {"SCAN_CONF"}, WAIT_JOIN |-> {"JOIN_CONF"},
              WAIT_AUTH |-> {"AUTH_CONF"}, WAIT_AUTH2 |-> {"AUTH_CONF"},
              WAIT_ASSOC |-> {"ASSOC_CONF"}]
SyncTakes == [IDLE |-> {"SCAN_REQ", "JOIN_REQ"}, SCAN_PENDING |-> {"SCAN_REQ"},
              SCAN_LISTEN |-> {"JOIN_REQ"}, JOIN_WAIT_BEACON |-> {"JOIN_REQ"}]
Taken == CntlTakes[Cntl] \cup SyncTakes[Sync]
           \cup {"AUTH_REQ", "ASSOC_REQ", "DISASSOC_REQ", "RESET_CONF"}

Drop == /\ Queue # <<>> /\ msg.type \notin Taken
        /\ Handled(<<>>)
        /\ UNCHANGED <<Cntl, Sync, Auth, Assoc, armed, aux, table, scan, link, callers>>

MlmeHandler == CntlMachine \/ OtherMachines \/ MlmeRestartStateMachine \/ Drop

\* A timeout that finds its machine in another state is dropped.
Expects(t) == \/ t = "Beacon" /\ Sync = "JOIN_WAIT_BEACON"
              \/ t = "Scan" /\ Sync = "SCAN_LISTEN"
              \/ t = "Auth" /\ Auth # "IDLE"
              \/ t = "Assoc" /\ Assoc = "WAIT_RSP"
              \/ t = "Disassoc" /\ Assoc = "DISASSOC_WAIT_RSP"
DropTimeout(t) ==
    /\ ~Expects(t) /\ TimedOut(t)
    /\ UNCHANGED <<Queue, Cntl, Sync, Auth, Assoc, armed, aux, table, scan, link, callers>>

Timeout == \/ ScanTimeoutAction \/ BeaconTimeoutAtJoinAction \/ AuthTimeoutAction
           \/ AssocTimeoutAction \/ DisassocTimeoutAction
           \/ \E t \in Timers : DropTimeout(t)

\* A frame may come late, twice, out of turn or from the wrong peer: those the
\* machines do not take leave no trace.
PeerFrame ==
    \E b \in BSS :
        \/ PeerBeaconAtJoinAction(b)
        \/ \E ok \in BOOLEAN, seq \in {2, 4} :
              PeerAuthRspAtSeq2Action(b, seq, ok) \/ PeerAuthRspAtSeq4Action(b, seq, ok)
        \/ \E ok \in BOOLEAN : PeerAssocRspAction(b, ok)
        \/ ~Calm("peer") /\ (PeerDisassocAction(b) \/ PeerDeauthAction(b))

Outside == \/ \E m \in Requests : UserAsks(m)
           \/ UserRequest
           \/ MlmeCheckForRoaming \/ MlmeAutoReconnectLastSSID
           \/ PeriodicTest \/ PeriodicScan \/ ResumeScan

Next == \/ Outside \/ (\E t \in Timers : TimerFires(t))
        \/ MlmeHandler \/ Timeout \/ PeerFrame

\* The MLME thread serves its queue, timers run out, and an ioctl that has begun
\* queues its request.  (Where liveness is checked LateBound admits every timer, so
\* that it never disables TimerFires.)  ResumeScan is strongly fair: the bound on the
\* queue, which the driver does not have, may disable it for a time.
Fairness == /\ WF_vars(MlmeHandler) /\ WF_vars(Timeout)
            /\ \A t \in Timers : WF_vars(TimerFires(t))
            /\ WF_vars(UserRequest) /\ SF_vars(ResumeScan)

Spec == Init /\ [][Next]_vars
FairSpec == Spec /\ Fairness
-----------------------------------------------------------------------------
(* Properties. *)

Messages ==
    {Msg(type) : type \in {"RESET_CONF", "OID_SSID", "OID_LIST_SCAN", "OID_DISASSOCIATE",
                           "ROAMING_REQ", "SCAN_REQ", "SCAN_CONF"}}
      \cup {From(type, b) : type \in {"OID_BSSID", "ASSOC_REQ", "DISASSOC_REQ"},
                             b \in BSS \cup {NoBss}}
      \cup {Conf(type, ok) : type \in {"JOIN_CONF", "AUTH_CONF", "ASSOC_CONF", "DISASSOC_CONF"},
                             ok \in BOOLEAN}
      \cup {AuthReq(b, alg) : b \in BSS \cup {NoBss}, alg \in {"OPEN", "SHARED"}}
      \cup {JoinReq(i) : i \in Entries}

\* Every variable stays in its range; in particular a JOIN_REQ that outlives its
\* table never indexes past it.
TypeOK ==
    /\ \A k \in 1 .. Len(Queue) : Queue[k] \in Messages
    /\ Cntl \in DOMAIN CntlTakes /\ Sync \in DOMAIN SyncTakes
    /\ Auth \in {"IDLE", "WAIT_SEQ2", "WAIT_SEQ4"}
    /\ Assoc \in {"IDLE", "WAIT_RSP", "DISASSOC_WAIT_RSP"}
    /\ armed \subseteq Timers /\ late \subseteq Timers
    /\ AuxBssid \in BSS \cup {NoBss} /\ Alg \in {"OPEN", "SHARED"}
    /\ BssEntry \in [Entries -> BSS \cup {NoBss}]
    /\ {BssNr, BssIdx} \subseteq 0 .. Cardinality(BSS)
    /\ Channel \in 0 .. Channels /\ ScanChannelCnt \in 0 .. ScanBatch
    /\ bImprovedScan \in BOOLEAN /\ scanning \in BOOLEAN
    /\ Bssid \in BSS \cup {NoBss} /\ Wcid \in BSS \cup {NoBss}
    /\ request \in Requests \cup {NoRequest} /\ periodic \in {"idle", "scan"}

Ticks(t) == t \in armed \cup late

\* A machine that waits for a peer always has its timer running, or its timeout
\* on the way, so that a silent peer cannot stop it: through resets, late
\* timeouts of earlier attempts and stale requests that restart or cancel.  Only
\* LinkUp, brought about by a grant older than a reset, may take DisassocTimer from
\* a disassociation that ASSOC waits for; CNTL never waits for one that lost it.
WaitsAreTimed ==
    /\ Sync = "JOIN_WAIT_BEACON" => Ticks("Beacon")
    /\ Sync = "SCAN_LISTEN" => Ticks("Scan")
    /\ Auth # "IDLE" => Ticks("Auth")
    /\ Assoc = "WAIT_RSP" => Ticks("Assoc")
    /\ Assoc = "DISASSOC_WAIT_RSP" /\ Cntl \in {"WAIT_DISASSOC", "WAIT_OID_DISASSOC"} =>
         Ticks("Disassoc") \/ SentType("DISASSOC_REQ") \/ SentType("DISASSOC_CONF")

\* Whenever CNTL waits, the answer is on its way: its request is queued, the
\* machine it asked is at work, or the confirm is queued.
CntlAnswered ==
    /\ Cntl = "WAIT_OID_LIST_SCAN" =>
         \/ SentType("SCAN_REQ") \/ Sync = "SCAN_LISTEN" \/ SentType("SCAN_CONF")
         \/ Sync = "SCAN_PENDING" /\ bImprovedScan
    /\ Cntl = "WAIT_JOIN" =>
         SentType("JOIN_REQ") \/ Sync = "JOIN_WAIT_BEACON" \/ SentType("JOIN_CONF")
    /\ Cntl \in {"WAIT_AUTH", "WAIT_AUTH2"} =>
         SentType("AUTH_REQ") \/ Auth # "IDLE" \/ SentType("AUTH_CONF")
    /\ Cntl = "WAIT_ASSOC" =>
         SentType("ASSOC_REQ") \/ Assoc = "WAIT_RSP" \/ SentType("ASSOC_CONF")
    /\ Cntl \in {"WAIT_DISASSOC", "WAIT_OID_DISASSOC"} =>
         SentType("DISASSOC_REQ") \/ Assoc = "DISASSOC_WAIT_RSP" \/ SentType("DISASSOC_CONF")

\* While a link is up, the MAC table's entry (rates, capabilities: PeerAssocRspAction
\* fills it, LinkUp relies on it) is that AP's, except between another AP's grant and
\* CNTL's LinkUp when the station roams to it: no stray, late or forged answer of one
\* AP serves a link to another.
WcidIsOurAp ==
    Bssid # NoBss => Wcid = Bssid \/ Sent(Conf("ASSOC_CONF", TRUE))

\* Data is held back only while a scan is under way that will release it.
DataReleased == scanning => Sync = "SCAN_LISTEN" \/ SentType("SCAN_CONF")

\* Every scan, connection attempt and disconnection comes to an end, whatever
\* frames arrive, are late or never come.
EveryAttemptEnds == Cntl # "IDLE" ~> Cntl = "IDLE"

\* "All SET OID related operations happen in sequence, because no other SET OID will be
\* sent to this device until the previous SET operation is complete" (comment above
\* CntlMlmeRoamingProc, with the question how requests are kept from corrupting one
\* another): a link comes up on the grant of the AP this SET asked for, not on one an
\* earlier SET was still waiting for.
SetsUncorrupted == [][CntlWaitAssocProc /\ Bssid' # NoBss => Wcid = Bssid']_vars
=============================================================================
