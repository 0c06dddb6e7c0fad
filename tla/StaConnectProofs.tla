--------------------------- MODULE StaConnectProofs ---------------------------
(***************************************************************************)
(* The four machines of the station, for every set of access points, every *)
(* mode, every bound on the queue and the timers and everybody who may     *)
(* disturb: every variable stays in its range, and no machine waits for a  *)
(* silent peer without its timer.  And for a station nobody disturbs:      *)
(* CNTL's answer is always on its way, data held back by a scan is         *)
(* released, and the MAC table's entry is that of the access point of the  *)
(* link.                                                                   *)
(***************************************************************************)
EXTENDS StaConnect, FiniteSetTheorems, TLAPS

-----------------------------------------------------------------------------
(* Messages. *)

Bsss == BSS \cup {NoBss}
Algs == {"OPEN", "SHARED"}
Machines == {"SCAN_REQ", "SCAN_CONF", "JOIN_REQ", "JOIN_CONF", "AUTH_REQ", "AUTH_CONF",
             "ASSOC_REQ", "ASSOC_CONF", "DISASSOC_REQ", "DISASSOC_CONF"}

\* What a message carries.
LEMMA Carries ==
  ASSUME NEW m \in Messages
  PROVE  /\ m.type = "JOIN_REQ" => m.idx \in Entries
         /\ m.type = "AUTH_REQ" => m.bss \in Bsss /\ m.alg \in Algs
         /\ m.type \in {"OID_BSSID", "ASSOC_REQ", "DISASSOC_REQ"} => m.bss \in Bsss
         /\ m.type \in {"JOIN_CONF", "AUTH_CONF", "ASSOC_CONF", "DISASSOC_CONF"} =>
              m.ok \in BOOLEAN /\ m = Conf(m.type, m.ok)
         /\ m.type \in {"RESET_CONF", "OID_SSID", "OID_LIST_SCAN", "OID_DISASSOCIATE",
                        "ROAMING_REQ", "SCAN_REQ", "SCAN_CONF", "OID_BSSID", "ASSOC_REQ",
                        "DISASSOC_REQ", "JOIN_CONF", "AUTH_CONF", "ASSOC_CONF",
                        "DISASSOC_CONF", "AUTH_REQ", "JOIN_REQ"}
<1>1. CASE m \in {Msg(type) : type \in {"RESET_CONF", "OID_SSID", "OID_LIST_SCAN",
                    "OID_DISASSOCIATE", "ROAMING_REQ", "SCAN_REQ", "SCAN_CONF"}}
  BY <1>1 DEF Msg
<1>2. CASE m \in {From(type, b) : type \in {"OID_BSSID", "ASSOC_REQ", "DISASSOC_REQ"}, b \in Bsss}
  BY <1>2 DEF From
<1>3. CASE m \in {Conf(type, ok) : type \in {"JOIN_CONF", "AUTH_CONF", "ASSOC_CONF",
                                            "DISASSOC_CONF"}, ok \in BOOLEAN}
  BY <1>3 DEF Conf
<1>4. CASE m \in {AuthReq(b, alg) : b \in Bsss, alg \in {"OPEN", "SHARED"}}
  BY <1>4 DEF AuthReq, Algs
<1>5. CASE m \in {JoinReq(i) : i \in Entries}
  BY <1>5 DEF JoinReq
<1> QED
  BY <1>1, <1>2, <1>3, <1>4, <1>5 DEF Messages, Bsss

LEMMA Sends ==
  /\ \A type \in {"RESET_CONF", "OID_SSID", "OID_LIST_SCAN", "OID_DISASSOCIATE", "ROAMING_REQ",
                  "SCAN_REQ", "SCAN_CONF"} : Msg(type) \in Messages /\ Msg(type).type = type
  /\ \A type \in {"OID_BSSID", "ASSOC_REQ", "DISASSOC_REQ"}, b \in Bsss :
        From(type, b) \in Messages /\ From(type, b).type = type
  /\ \A type \in {"JOIN_CONF", "AUTH_CONF", "ASSOC_CONF", "DISASSOC_CONF"}, ok \in BOOLEAN :
        Conf(type, ok) \in Messages /\ Conf(type, ok).type = type
  /\ \A b \in Bsss, alg \in Algs :
        AuthReq(b, alg) \in Messages /\ AuthReq(b, alg).type = "AUTH_REQ"
  /\ \A i \in Entries : JoinReq(i) \in Messages /\ JoinReq(i).type = "JOIN_REQ"
<1>1. \A type \in {"RESET_CONF", "OID_SSID", "OID_LIST_SCAN", "OID_DISASSOCIATE", "ROAMING_REQ",
                  "SCAN_REQ", "SCAN_CONF"} : Msg(type) \in Messages /\ Msg(type).type = type
  BY DEF Messages, Msg
<1>2. \A type \in {"OID_BSSID", "ASSOC_REQ", "DISASSOC_REQ"}, b \in Bsss :
        From(type, b) \in Messages /\ From(type, b).type = type
  BY DEF Messages, From, Bsss
<1>3. \A type \in {"JOIN_CONF", "AUTH_CONF", "ASSOC_CONF", "DISASSOC_CONF"}, ok \in BOOLEAN :
        Conf(type, ok) \in Messages /\ Conf(type, ok).type = type
  BY DEF Messages, Conf
<1>4. \A b \in Bsss, alg \in Algs :
        AuthReq(b, alg) \in Messages /\ AuthReq(b, alg).type = "AUTH_REQ"
  BY DEF Messages, AuthReq, Bsss, Algs
<1>5. \A i \in Entries : JoinReq(i) \in Messages /\ JoinReq(i).type = "JOIN_REQ"
  BY DEF Messages, JoinReq
<1> QED
  BY <1>1, <1>2, <1>3, <1>4, <1>5

-----------------------------------------------------------------------------
(* The queue.  A handler takes the head and adds at most one message. *)

Has(q, T) == \E k \in 1 .. Len(q) : q[k].type \in T
\* One message of the machines is queued, of a type in T.
Only(q, T) == \E k \in 1 .. Len(q) :
    /\ q[k].type \in T
    /\ \A j \in 1 .. Len(q) : q[j].type \in Machines <=> j = k

LEMMA Added ==
  ASSUME NEW q \in Seq(Messages), NEW m \in Messages
  PROVE  /\ Append(q, m) \in Seq(Messages)
         /\ q \o <<m>> = Append(q, m) /\ q \o <<>> = q
         /\ \A T : Has(Append(q, m), T) <=> Has(q, T) \/ m.type \in T
         /\ \A T : m.type \notin Machines => (Only(q, T) => Only(Append(q, m), T))
         /\ \A T : ~Has(q, Machines) /\ m.type \in T \cap Machines => Only(Append(q, m), T)
         /\ \A x : (\E k \in 1 .. Len(Append(q, m)) : Append(q, m)[k] = x) <=>
                       (\E k \in 1 .. Len(q) : q[k] = x) \/ m = x
<1> DEFINE r == Append(q, m)
<1>1. /\ r \in Seq(Messages) /\ Len(r) = Len(q) + 1 /\ Len(q) \in Nat
      /\ \A k \in 1 .. Len(q) : r[k] = q[k]
      /\ r[Len(q) + 1] = m
  OBVIOUS
<1>2. q \o <<m>> = r /\ q \o <<>> = q
  OBVIOUS
<1> HIDE DEF r
<1>3. \A k \in 1 .. Len(r) : k \in 1 .. Len(q) \/ k = Len(q) + 1
  BY <1>1
<1>4. 1 .. Len(q) \subseteq 1 .. Len(r) /\ Len(q) + 1 \in 1 .. Len(r)
  BY <1>1
<1>5. \A T : Has(r, T) <=> Has(q, T) \/ m.type \in T
  BY <1>1, <1>3, <1>4 DEF Has
<1>6. ASSUME NEW T, m.type \notin Machines, Only(q, T) PROVE Only(r, T)
  <2>1. PICK k \in 1 .. Len(q) : /\ q[k].type \in T
                               /\ \A j \in 1 .. Len(q) : q[j].type \in Machines <=> j = k
    BY <1>6 DEF Only
  <2>2. r[k].type \in T /\ k \in 1 .. Len(r)
    BY <1>1, <1>4, <2>1
  <2>3. ASSUME NEW j \in 1 .. Len(r) PROVE r[j].type \in Machines <=> j = k
    <3>1. CASE j \in 1 .. Len(q)
      BY <1>1, <2>1, <3>1
    <3>2. CASE j = Len(q) + 1
      <4>1. r[j].type \notin Machines /\ j # k
        BY <1>1, <1>6, <3>2
      <4> QED
        BY <4>1
    <3> QED
      BY <1>3, <2>3, <3>1, <3>2
  <2> QED
    BY <2>2, <2>3 DEF Only
<1>7. ASSUME NEW T, ~Has(q, Machines), m.type \in T \cap Machines PROVE Only(r, T)
  <2>1. \A j \in 1 .. Len(q) : q[j].type \notin Machines
    BY <1>7 DEF Has
  <2>2. ASSUME NEW j \in 1 .. Len(r) PROVE r[j].type \in Machines <=> j = Len(q) + 1
    <3>1. CASE j \in 1 .. Len(q)
      <4>1. r[j] = q[j] /\ j # Len(q) + 1
        BY <1>1, <3>1
      <4> QED
        BY <2>1, <3>1, <4>1
    <3>2. CASE j = Len(q) + 1
      BY <1>1, <1>7, <3>2
    <3> QED
      BY <1>3, <2>2, <3>1, <3>2
  <2> QED
    BY <1>1, <1>4, <1>7, <2>2 DEF Only
<1>8. \A x : (\E k \in 1 .. Len(r) : r[k] = x) <=> (\E k \in 1 .. Len(q) : q[k] = x) \/ m = x
  BY <1>1, <1>3, <1>4
<1> QED
  BY <1>1, <1>2, <1>5, <1>6, <1>7, <1>8 DEF r

LEMMA TakenOff ==
  ASSUME NEW q \in Seq(Messages), q # <<>>
  PROVE  /\ Head(q) \in Messages /\ Tail(q) \in Seq(Messages)
         /\ \A T : Has(q, T) <=> Head(q).type \in T \/ Has(Tail(q), T)
         /\ \A T : Only(q, T) /\ Head(q).type \notin Machines => Only(Tail(q), T)
         /\ \A T : Only(q, T) /\ Head(q).type \in Machines =>
                       Head(q).type \in T /\ ~Has(Tail(q), Machines)
         /\ \A x : (\E k \in 1 .. Len(q) : q[k] = x) <=>
                       Head(q) = x \/ \E k \in 1 .. Len(Tail(q)) : Tail(q)[k] = x
<1> DEFINE r == Tail(q)
<1>1. /\ r \in Seq(Messages) /\ Len(r) = Len(q) - 1 /\ Len(q) \in Nat \ {0}
      /\ \A k \in 1 .. Len(r) : r[k] = q[k + 1]
      /\ Head(q) = q[1] /\ Head(q) \in Messages
  OBVIOUS
<1> HIDE DEF r
<1>2. \A k \in 1 .. Len(q) : k = 1 \/ (k - 1 \in 1 .. Len(r) /\ r[k - 1] = q[k])
  BY <1>1
<1>3. \A k \in 1 .. Len(r) : k + 1 \in 1 .. Len(q) /\ r[k] = q[k + 1]
  BY <1>1
<1>4. 1 \in 1 .. Len(q)
  BY <1>1
<1>5. \A T : Has(q, T) <=> Head(q).type \in T \/ Has(r, T)
  BY <1>1, <1>2, <1>3, <1>4 DEF Has
<1>6. ASSUME NEW T, Only(q, T)
      PROVE  /\ Head(q).type \notin Machines => Only(r, T)
             /\ Head(q).type \in Machines => Head(q).type \in T /\ ~Has(r, Machines)
  <2>1. PICK k \in 1 .. Len(q) : /\ q[k].type \in T
                               /\ \A j \in 1 .. Len(q) : q[j].type \in Machines <=> j = k
    BY <1>6 DEF Only
  <2>2. CASE k = 1
    <3>1. \A j \in 1 .. Len(r) : r[j].type \notin Machines
      BY <1>3, <2>1, <2>2
    <3> QED
      BY <1>1, <2>1, <2>2, <3>1 DEF Has
  <2>3. CASE k # 1
    <3>1. Head(q).type \notin Machines
      BY <1>1, <1>4, <2>1, <2>3
    <3>2. k - 1 \in 1 .. Len(r) /\ r[k - 1].type \in T
      BY <1>2, <2>1, <2>3
    <3>3. \A j \in 1 .. Len(r) : r[j].type \in Machines <=> j = k - 1
      <4> SUFFICES ASSUME NEW j \in 1 .. Len(r) PROVE r[j].type \in Machines <=> j = k - 1
        OBVIOUS
      <4>1. j + 1 \in 1 .. Len(q) /\ r[j] = q[j + 1]
        BY <1>3
      <4>2. q[j + 1].type \in Machines <=> j + 1 = k
        BY <2>1, <4>1
      <4> QED
        BY <4>1, <4>2
    <3> QED
      BY <3>1, <3>2, <3>3 DEF Only
  <2> QED
    BY <2>2, <2>3
<1>7. \A x : (\E k \in 1 .. Len(q) : q[k] = x) <=>
                 Head(q) = x \/ \E k \in 1 .. Len(r) : r[k] = x
  BY <1>1, <1>2, <1>3, <1>4
<1> QED
  BY <1>1, <1>5, <1>6, <1>7 DEF r

-----------------------------------------------------------------------------
(* Every variable stays in its range. *)

CntlStates == {"IDLE", "WAIT_DISASSOC", "WAIT_OID_DISASSOC", "WAIT_OID_LIST_SCAN",
               "WAIT_JOIN", "WAIT_AUTH", "WAIT_AUTH2", "WAIT_ASSOC"}
SyncStates == {"IDLE", "SCAN_PENDING", "SCAN_LISTEN", "JOIN_WAIT_BEACON"}
AuthStates == {"IDLE", "WAIT_SEQ2", "WAIT_SEQ4"}
AssocStates == {"IDLE", "WAIT_RSP", "DISASSOC_WAIT_RSP"}
Nrs == 0 .. Cardinality(BSS)

QueueOK == Queue \in Seq(Messages)
StatesOK == Cntl \in CntlStates /\ Sync \in SyncStates /\ Auth \in AuthStates /\ Assoc \in AssocStates
TimersOK == armed \in SUBSET Timers /\ late \in SUBSET Timers
AuxOK == AuxBssid \in Bsss /\ Alg \in Algs
TableOK == BssEntry \in [Entries -> Bsss] /\ BssNr \in Nrs /\ BssIdx \in Nrs
\* A scan that listens has a channel left: ScanTimeoutAction counts it off.
ScanOK == /\ Channel \in 0 .. Channels /\ ScanChannelCnt \in 0 .. ScanBatch
          /\ bImprovedScan \in BOOLEAN /\ scanning \in BOOLEAN
          /\ Sync = "SCAN_LISTEN" => Channel # 0
LinkOK == Bssid \in Bsss /\ Wcid \in Bsss
CallersOK == request \in Requests \cup {NoRequest} /\ periodic \in {"idle", "scan"}
Ranges == /\ QueueOK /\ StatesOK /\ TimersOK /\ AuxOK
          /\ TableOK /\ ScanOK /\ LinkOK /\ CallersOK

LEMMA RangesAreTypes == Ranges => TypeOK
<1> SUFFICES ASSUME Ranges PROVE TypeOK
  OBVIOUS
<1>1. \A k \in 1 .. Len(Queue) : Queue[k] \in Messages
  BY DEF Ranges, QueueOK
<1>2. Cntl \in DOMAIN CntlTakes
  BY DEF Ranges, StatesOK, CntlStates, CntlTakes
<1>3. Sync \in DOMAIN SyncTakes
  BY DEF Ranges, StatesOK, SyncStates, SyncTakes
<1>4. BssEntry \in [Entries -> BSS \cup {NoBss}] /\ {BssNr, BssIdx} \subseteq 0 .. Cardinality(BSS)
  BY DEF Ranges, TableOK, Nrs, Bsss
<1>5. /\ Auth \in {"IDLE", "WAIT_SEQ2", "WAIT_SEQ4"}
      /\ Assoc \in {"IDLE", "WAIT_RSP", "DISASSOC_WAIT_RSP"}
      /\ armed \subseteq Timers /\ late \subseteq Timers
      /\ AuxBssid \in BSS \cup {NoBss} /\ Alg \in {"OPEN", "SHARED"}
  BY DEF Ranges, StatesOK, AuthStates, AssocStates, TimersOK, AuxOK, Bsss, Algs
<1>6. /\ Channel \in 0 .. Channels /\ ScanChannelCnt \in 0 .. ScanBatch
      /\ bImprovedScan \in BOOLEAN /\ scanning \in BOOLEAN
      /\ Bssid \in BSS \cup {NoBss} /\ Wcid \in BSS \cup {NoBss}
      /\ request \in Requests \cup {NoRequest} /\ periodic \in {"idle", "scan"}
  BY DEF Ranges, ScanOK, LinkOK, CallersOK, Bsss
<1> QED
  BY <1>1, <1>2, <1>3, <1>4, <1>5, <1>6 DEF TypeOK

\* Access points are counted.
LEMMA Counted ==
  /\ Cardinality(BSS) \in Nat \ {0} /\ 0 \in Entries /\ 0 \in Nrs /\ 1 \in Nrs
  /\ \A i, nr \in Nrs : i < nr => i \in Entries
  /\ \A i \in Nrs : NextIdx(i) \in Nrs
  /\ \A b : Cardinality(BSS \ {b}) \in Nrs
<1>1. Cardinality(BSS) \in Nat
  BY StaAssumption, FS_CardinalityType
<1>2. Cardinality(BSS) # 0
  BY StaAssumption, FS_EmptySet
<1>3. ASSUME NEW b PROVE Cardinality(BSS \ {b}) \in Nrs
  <2>1. IsFiniteSet(BSS \ {b}) /\ Cardinality(BSS \ {b}) <= Cardinality(BSS)
    BY StaAssumption, FS_Subset
  <2>2. Cardinality(BSS \ {b}) \in Nat
    BY <2>1, FS_CardinalityType
  <2> QED
    BY <1>1, <2>1, <2>2 DEF Nrs
<1>4. \A i \in Nrs : NextIdx(i) \in Nrs
  BY <1>1 DEF Nrs, NextIdx
<1> QED
  BY <1>1, <1>2, <1>3, <1>4 DEF Entries, Nrs

\* A message taken, and the answer it gets if any.
LEMMA Takes ==
  ASSUME QueueOK, Queue # <<>>, NEW m \in Messages
  PROVE  /\ msg \in Messages
         /\ Tail(Queue) \in Seq(Messages) /\ Append(Tail(Queue), m) \in Seq(Messages)
         /\ Tail(Queue) \o <<>> = Tail(Queue) /\ Tail(Queue) \o <<m>> = Append(Tail(Queue), m)
<1>1. msg \in Messages /\ Tail(Queue) \in Seq(Messages)
  BY TakenOff DEF QueueOK, msg
<1> QED
  BY <1>1, Added

LEMMA Bounds ==
  /\ Channels \in Nat \ {0} /\ ScanBatch \in Nat \ {0}
  /\ 0 \in 0 .. Channels /\ Channels \in 0 .. Channels /\ 0 \in 0 .. ScanBatch
<1>1. Channels \in Nat \ {0} /\ ScanBatch \in Nat \ {0}
  BY StaAssumption
<1> QED
  BY <1>1

LEMMA ScansOn ==
  ASSUME ScanOK, NEW rest \in Seq(Messages), NEW running \in SUBSET Timers, NEW held \in BOOLEAN,
         Channel' \in 0 .. Channels, ScanNextChannel(rest, Channel', running, held)
  PROVE  QueueOK' /\ ScanOK' /\ armed' \in SUBSET Timers /\ Sync' \in SyncStates
<1> DEFINE Pause == bImprovedScan /\ ScanChannelCnt >= ScanBatch
<1>1. CASE /\ Channel' # 0 /\ ~Pause
           /\ armed' = running \cup {"Scan"} /\ Sync' = "SCAN_LISTEN"
           /\ ScanChannelCnt' = IF ScanChannelCnt < ScanBatch THEN ScanChannelCnt + 1
                                                            ELSE ScanChannelCnt
           /\ Queue' = rest /\ scanning' = held /\ UNCHANGED bImprovedScan
  <2>1. ScanChannelCnt' \in 0 .. ScanBatch
    BY <1>1, Bounds DEF ScanOK
  <2>2. ScanOK'
    BY <1>1, <2>1 DEF ScanOK
  <2> QED
    BY <1>1, <2>2 DEF QueueOK, Timers, SyncStates
<1>2. CASE /\ armed' = running /\ Sync' = "SCAN_PENDING" /\ ScanChannelCnt' = 0
           /\ Queue' = rest /\ scanning' = FALSE /\ UNCHANGED bImprovedScan
  <2>1. ScanOK'
    BY <1>2, Bounds DEF ScanOK
  <2> QED
    BY <1>2, <2>1 DEF QueueOK, SyncStates
<1>3. CASE /\ armed' = running /\ Sync' = "IDLE" /\ ScanChannelCnt' = 0
           /\ Queue' = Append(rest, Msg("SCAN_CONF"))
           /\ scanning' = held /\ bImprovedScan' = FALSE
  <2>1. QueueOK'
    BY <1>3, Added, Sends DEF QueueOK
  <2>2. ScanOK'
    BY <1>3, Bounds DEF ScanOK
  <2> QED
    BY <1>3, <2>1, <2>2 DEF SyncStates
<1> HIDE DEF Pause
<1> QED
  BY <1>1, <1>2, <1>3, Zenon DEF ScanNextChannel, Pause

LEMMA RangesKeep == Ranges /\ [Next]_vars => Ranges'
<1> SUFFICES ASSUME Ranges, [Next]_vars PROVE Ranges'
  OBVIOUS
<1> USE DEF Ranges
<1>1. CASE UNCHANGED vars
  BY <1>1 DEF vars, timers, aux, table, scan, channels, link, callers, QueueOK, StatesOK, TimersOK,
              AuxOK, TableOK, ScanOK, LinkOK, CallersOK
<1>2. CASE Outside
  <2>1. ASSUME NEW m \in Requests, UserAsks(m) PROVE Ranges'
    <3>1. QueueOK'
      BY <2>1, Added, Sends DEF UserAsks, QueueOK, Enqueue
    <3>2. ScanOK'
      BY <2>1, Bounds DEF UserAsks, ScanOK
    <3> QED
      BY <2>1, <3>1, <3>2 DEF UserAsks, timers, aux, table, link, StatesOK, TimersOK, AuxOK, TableOK,
                              LinkOK, CallersOK
  <2>2. CASE UserRequest
    <3>1. request \in Messages
      BY <2>2, Sends DEF UserRequest, CallersOK, Requests, Bsss
    <3>2. QueueOK'
      BY <2>2, <3>1, Added DEF UserRequest, QueueOK, Enqueue
    <3> QED
      BY <2>2, <3>2 DEF UserRequest, timers, aux, table, scan, channels, link, StatesOK, TimersOK,
                        AuxOK, TableOK, ScanOK, LinkOK, CallersOK
  <2>3. CASE MlmeCheckForRoaming \/ MlmeAutoReconnectLastSSID \/ ResumeScan
    <3>1. QueueOK'
      BY <2>3, Added, Sends
         DEF MlmeCheckForRoaming, MlmeAutoReconnectLastSSID, ResumeScan, QueueOK, Enqueue
    <3> QED
      BY <2>3, <3>1
         DEF MlmeCheckForRoaming, MlmeAutoReconnectLastSSID, ResumeScan, timers, aux, table, scan,
             channels, link, callers, StatesOK, TimersOK, AuxOK, TableOK, ScanOK, LinkOK, CallersOK
  <2>4. CASE PeriodicTest
    BY <2>4 DEF PeriodicTest, timers, aux, table, scan, channels, link, QueueOK, StatesOK, TimersOK,
                AuxOK, TableOK, ScanOK, LinkOK, CallersOK
  <2>5. CASE PeriodicScan
    <3>1. QueueOK'
      BY <2>5, Added, Sends DEF PeriodicScan, QueueOK, Enqueue
    <3> QED
      BY <2>5, <3>1 DEF PeriodicScan, timers, aux, table, scan, channels, link, StatesOK, CntlStates,
                        TimersOK, AuxOK, TableOK, ScanOK, LinkOK, CallersOK
  <2> QED
    BY <1>2, <2>1, <2>2, <2>3, <2>4, <2>5 DEF Outside
<1>3. ASSUME NEW t \in Timers, TimerFires(t) PROVE Ranges'
  BY <1>3 DEF TimerFires, aux, table, scan, channels, link, callers, QueueOK, StatesOK, TimersOK,
              AuxOK, TableOK, ScanOK, LinkOK, CallersOK
<1>4. CASE CntlMachine
  <2>1. UNCHANGED <<Sync, Auth, Assoc, Alg, channels, callers>> /\ Queue # <<>>
    BY <1>4 DEF CntlMachine, CntlFrame, Received, CntlOidSsidProc, CntlOidRTBssidProc, CntlOidScanProc,
        CntlOidDisassociate, CntlMlmeRoamingProc, CntlWaitDisassocProc, CntlWaitOidDisassoc,
        CntlWaitOidListScan, CntlWaitJoinProc, CntlWaitAuthProc, CntlWaitAuthProc2, CntlWaitAssocProc
  <2>2. /\ Tail(Queue) \in Seq(Messages) /\ msg \in Messages
        /\ Tail(Queue) \o <<>> = Tail(Queue)
        /\ \A m \in Messages : Tail(Queue) \o <<m>> = Append(Tail(Queue), m)
                                 /\ Append(Tail(Queue), m) \in Seq(Messages)
    BY <2>1, Takes, Sends
  \* The three things CNTL does with the message.
  <2>3. Consumed => QueueOK' /\ UNCHANGED late
    BY <2>2 DEF Consumed, Handled, QueueOK
  <2>4. ASSUME NEW m \in Messages, Handled(<<m>>) PROVE QueueOK' /\ UNCHANGED late
    BY <2>2, <2>4 DEF Handled, QueueOK
  <2>5. ASSUME NEW idx \in Nrs, NEW nr \in Nrs, Iterate(idx, nr)
        PROVE  /\ QueueOK' /\ UNCHANGED late
               /\ Cntl' \in CntlStates /\ BssIdx' \in Nrs /\ BssNr' \in Nrs
    <3>1. idx < nr => JoinReq(idx) \in Messages
      BY Counted, Sends
    <3> QED
      BY <2>2, <2>5, <3>1, Counted DEF Iterate, IterateOnBssTab, QueueOK, CntlStates
  <2>6. StartScan => QueueOK' /\ UNCHANGED late /\ Cntl' \in CntlStates
    BY <2>4, Sends DEF StartScan, CntlStates
  <2>7. ASSUME NEW state \in CntlStates, Leave(state) PROVE QueueOK' /\ UNCHANGED late /\ Cntl' \in CntlStates
    BY <2>4, <2>7, Sends DEF Leave, LinkOK
  <2>8. ASSUME NEW m \in Messages, NEW state \in CntlStates, Ask(m, state)
        PROVE  /\ QueueOK' /\ UNCHANGED late /\ Cntl' \in CntlStates /\ TableOK'
    BY <2>4, <2>8 DEF Ask, table, TableOK
  <2>9. TryNextBss => QueueOK' /\ UNCHANGED late /\ Cntl' \in CntlStates /\ TableOK'
    BY <2>5, Counted DEF TryNextBss, TableOK
  <2>10. ASSUME NEW candidates \in SUBSET BSS, NEW nr, SortedTable(candidates, nr)
         PROVE  BssEntry' \in [Entries -> Bsss]
    BY <2>10 DEF SortedTable, Bsss
  <2>11. NoLinkChange => UNCHANGED armed /\ ScanOK' /\ LinkOK'
    BY <2>1 DEF NoLinkChange, channels, link, ScanOK, LinkOK
  <2>12. /\ UNCHANGED late /\ armed' \in SUBSET armed => TimersOK'
         /\ AuxBssid' \in Bsss => AuxOK'
         /\ Cntl' \in CntlStates => StatesOK'
         /\ CallersOK'
    BY <2>1 DEF TimersOK, AuxOK, StatesOK, callers, CallersOK
  <2>13. CASE CntlOidSsidProc
    <3>1. AuxBssid' \in Bsss /\ NoLinkChange
      BY <2>13 DEF CntlOidSsidProc, Bsss
    <3>2. PICK nr \in 0 .. Cardinality(BSS) :
            /\ SortedTable(BSS, nr)
            /\ \/ Consumed /\ BssNr' = nr /\ UNCHANGED <<Cntl, BssIdx>>
               \/ Leave("WAIT_DISASSOC") /\ BssNr' = nr /\ UNCHANGED BssIdx
               \/ StartScan /\ BssNr' = 0 /\ UNCHANGED BssIdx
               \/ Iterate(0, nr)
      BY <2>13, Zenon DEF CntlOidSsidProc
    <3>3. nr \in Nrs
      BY DEF Nrs
    <3>4. BssEntry' \in [Entries -> Bsss]
      BY <2>10, <3>2
    <3>5. QueueOK' /\ UNCHANGED late /\ Cntl' \in CntlStates /\ BssNr' \in Nrs /\ BssIdx' \in Nrs
      <4>1. CASE Consumed /\ BssNr' = nr /\ UNCHANGED <<Cntl, BssIdx>>
        BY <2>3, <3>3, <4>1 DEF StatesOK, TableOK
      <4>2. CASE Leave("WAIT_DISASSOC") /\ BssNr' = nr /\ UNCHANGED BssIdx
        BY <2>7, <3>3, <4>2 DEF CntlStates, TableOK
      <4>3. CASE StartScan /\ BssNr' = 0 /\ UNCHANGED BssIdx
        BY <2>6, <4>3, Counted DEF TableOK
      <4>4. CASE Iterate(0, nr)
        BY <2>5, <3>3, <4>4, Counted
      <4> QED
        BY <3>2, <4>1, <4>2, <4>3, <4>4
    <3> QED
      BY <2>11, <2>12, <3>1, <3>4, <3>5 DEF TableOK
  <2>14. CASE CntlOidRTBssidProc
    <3>1. AuxBssid' = msg.bss /\ NoLinkChange /\ msg.bss \in Bsss
      BY <2>2, <2>14, Carries DEF CntlOidRTBssidProc, Received, msg
    <3>2. CASE StartScan /\ UNCHANGED table
      BY <2>6, <2>11, <2>12, <3>1, <3>2 DEF table, TableOK
    <3>3. CASE /\ BssEntry' = [BssEntry EXCEPT ![0] = msg.bss] /\ BssNr' = 1 /\ BssIdx' = 0
               /\ \/ Leave("WAIT_DISASSOC")
                  \/ Handled(<<JoinReq(0)>>) /\ Cntl' = "WAIT_JOIN"
      <4>1. TableOK'
        BY <3>1, <3>3, Counted DEF TableOK
      <4>2. QueueOK' /\ UNCHANGED late /\ Cntl' \in CntlStates
        BY <2>4, <2>7, <3>3, Counted, Sends DEF CntlStates
      <4> QED
        BY <2>11, <2>12, <3>1, <4>1, <4>2
    <3> QED
      BY <2>14, <3>2, <3>3 DEF CntlOidRTBssidProc
  <2>15. CASE CntlOidScanProc \/ CntlOidDisassociate
    <3>1. UNCHANGED <<AuxBssid, table>> /\ NoLinkChange
      BY <2>15 DEF CntlOidScanProc, CntlOidDisassociate
    <3>2. StartScan \/ Leave("WAIT_OID_DISASSOC")
      BY <2>15 DEF CntlOidScanProc, CntlOidDisassociate
    <3>3. QueueOK' /\ UNCHANGED late /\ Cntl' \in CntlStates
      BY <2>6, <2>7, <3>2 DEF CntlStates
    <3> QED
      BY <2>11, <2>12, <3>1, <3>3 DEF table, TableOK, AuxOK
  <2>16. CASE CntlMlmeRoamingProc
    <3>1. UNCHANGED AuxBssid /\ NoLinkChange
      BY <2>16 DEF CntlMlmeRoamingProc
    <3>2. PICK nr \in 0 .. Cardinality(BSS \ {Bssid}) :
            SortedTable(BSS \ {Bssid}, nr) /\ Iterate(0, nr)
      BY <2>16 DEF CntlMlmeRoamingProc
    <3>3. nr \in Nrs
      BY Counted DEF Nrs
    <3>4. BssEntry' \in [Entries -> Bsss]
      BY <2>10, <3>2
    <3>5. QueueOK' /\ UNCHANGED late /\ Cntl' \in CntlStates /\ BssNr' \in Nrs /\ BssIdx' \in Nrs
      BY <2>5, <3>2, <3>3, Counted
    <3> QED
      BY <2>11, <2>12, <3>1, <3>4, <3>5 DEF TableOK, AuxOK
  <2>17. CASE CntlWaitDisassocProc \/ CntlWaitOidDisassoc
    <3>1. LinkDown /\ UNCHANGED <<AuxBssid, BssEntry>>
      BY <2>17 DEF CntlWaitDisassocProc, CntlWaitOidDisassoc, table
    <3>2. QueueOK' /\ UNCHANGED late /\ Cntl' \in CntlStates /\ BssNr' \in Nrs /\ BssIdx' \in Nrs
      <4>1. CASE Iterate(NextIdx(BssIdx), BssNr)
        BY <2>5, <4>1, Counted DEF TableOK
      <4>2. CASE Consumed /\ Cntl' = "IDLE" /\ UNCHANGED table
        BY <2>3, <4>2 DEF CntlStates, table, TableOK
      <4> QED
        BY <2>17, <4>1, <4>2 DEF CntlWaitDisassocProc, CntlWaitOidDisassoc
    <3>3. ScanOK' /\ LinkOK' /\ UNCHANGED armed
      BY <2>1, <3>1 DEF LinkDown, channels, ScanOK, LinkOK, Bsss
    <3> QED
      BY <2>12, <3>1, <3>2, <3>3 DEF TableOK, AuxOK
  <2>18. CASE CntlWaitOidListScan
    <3>1. QueueOK' /\ UNCHANGED late /\ Cntl' \in CntlStates
      BY <2>3, <2>18 DEF CntlWaitOidListScan, CntlStates
    <3>2. ScanOK' /\ LinkOK' /\ UNCHANGED <<armed, AuxBssid, table>>
      BY <2>1, <2>18 DEF CntlWaitOidListScan, ReleaseData, channels, link, ScanOK, LinkOK
    <3> QED
      BY <2>12, <3>1, <3>2 DEF table, TableOK, AuxOK
  <2>19. CASE CntlWaitJoinProc \/ CntlWaitAuthProc \/ CntlWaitAuthProc2
    <3>1. UNCHANGED AuxBssid /\ NoLinkChange
      BY <2>19 DEF CntlWaitJoinProc, CntlWaitAuthProc, CntlWaitAuthProc2
    <3>2. PICK m \in {AuthReq(AuxBssid, FirstAlg), AuthReq(AuxBssid, "OPEN"), From("ASSOC_REQ", AuxBssid)},
               state \in {"WAIT_AUTH", "WAIT_AUTH2", "WAIT_ASSOC"} :
            Ask(m, state) \/ TryNextBss
      BY <2>19 DEF CntlWaitJoinProc, CntlWaitAuthProc, CntlWaitAuthProc2
    <3>3. m \in Messages
      BY <3>2, Sends DEF FirstAlg, Algs, AuxOK
    <3>4. QueueOK' /\ UNCHANGED late /\ Cntl' \in CntlStates /\ TableOK'
      BY <2>8, <2>9, <3>2, <3>3 DEF CntlStates
    <3> QED
      BY <2>11, <2>12, <3>1, <3>4 DEF AuxOK
  <2>20. CASE CntlWaitAssocProc
    <3>1. QueueOK' /\ UNCHANGED late /\ Cntl' \in CntlStates /\ TableOK' /\ UNCHANGED AuxBssid
      <4>1. CASE TryNextBss
        BY <2>9, <2>20, <4>1 DEF CntlWaitAssocProc
      <4>2. CASE Consumed /\ Cntl' = "IDLE" /\ UNCHANGED table
        BY <2>3, <2>20, <4>2 DEF CntlWaitAssocProc, CntlStates, table, TableOK
      <4> QED
        BY <2>20, <4>1, <4>2 DEF CntlWaitAssocProc
    <3>2. ScanOK' /\ LinkOK' /\ armed' \in SUBSET armed
      <4>1. CASE LinkUp
        BY <2>1, <4>1 DEF LinkUp, channels, ScanOK, LinkOK, AuxOK
      <4>2. CASE NoLinkChange
        BY <2>11, <4>2
      <4> QED
        BY <2>20, <4>1, <4>2 DEF CntlWaitAssocProc
    <3> QED
      BY <2>12, <3>1, <3>2 DEF AuxOK
  <2> QED
    BY <1>4, <2>13, <2>14, <2>15, <2>16, <2>17, <2>18, <2>19, <2>20 DEF CntlMachine
<1>5. CASE OtherMachines
  <2>1. /\ UNCHANGED <<table, link, callers, Cntl>> /\ Queue # <<>>
    BY <1>5 DEF OtherMachines, Received, SyncFrame, AuthFrame, AssocFrame, OnlyAssoc, MlmeScanReqAction,
       MlmeJoinReqAction, MlmeAuthReqAction, InvalidStateWhenAuth, MlmeAssocReqAction,
       MlmeDisassocReqAction, InvalidStateWhenAssoc, InvalidStateWhenDisassociate, table
  <2>2. TableOK' /\ LinkOK' /\ CallersOK'
    BY <2>1 DEF table, link, callers, TableOK, LinkOK, CallersOK
  <2>3. msg \in Messages /\ Tail(Queue) \in Seq(Messages)
    BY <2>1, Takes, Sends
  <2>4. Consumed => QueueOK' /\ UNCHANGED late
    BY <2>1, Takes, Sends DEF Consumed, Handled, QueueOK
  <2>5. ASSUME NEW m \in Messages, Handled(<<m>>) PROVE QueueOK' /\ UNCHANGED late
    BY <2>1, <2>5, Takes DEF Handled, QueueOK
  <2>6. CASE MlmeScanReqAction
    <3>1. Channel' \in 0 .. Channels
      BY <2>6, Bounds DEF MlmeScanReqAction, ScanOK
    <3>2. ScanNextChannel(Tail(Queue), Channel', armed \ {"Beacon", "Scan"}, TRUE)
      BY <2>6, Zenon DEF MlmeScanReqAction
    <3>3. armed \ {"Beacon", "Scan"} \in SUBSET Timers
      BY DEF TimersOK
    <3>4. QueueOK' /\ ScanOK' /\ armed' \in SUBSET Timers /\ Sync' \in SyncStates
      BY <2>3, <3>1, <3>2, <3>3, ScansOn
    <3>5. UNCHANGED <<late, aux, Auth, Assoc>>
      BY <2>6 DEF MlmeScanReqAction, SyncFrame, aux
    <3> QED
      BY <2>1, <2>2, <3>4, <3>5 DEF StatesOK, TimersOK, aux, AuxOK
  <2>7. CASE MlmeJoinReqAction
    <3>1. msg.idx \in Entries
      BY <2>3, <2>7, Carries DEF MlmeJoinReqAction, Received, msg
    <3>2. AuxOK'
      BY <2>7, <3>1 DEF MlmeJoinReqAction, SyncFrame, AuxOK, TableOK
    <3> QED
      BY <2>1, <2>2, <2>4, <2>7, <3>2 DEF MlmeJoinReqAction, SyncFrame, StatesOK, SyncStates, TimersOK,
         Timers, scan, channels, ScanOK
  <2>8. CASE MlmeAuthReqAction
    <3>1. msg.bss \in Bsss /\ msg.alg \in Algs
      BY <2>3, <2>8, Carries DEF MlmeAuthReqAction, Received, msg
    <3> QED
      BY <2>1, <2>2, <2>4, <2>8, <3>1 DEF MlmeAuthReqAction, AuthFrame, StatesOK, AuthStates, TimersOK,
         Timers, scan, channels, ScanOK, AuxOK
  <2>9. CASE InvalidStateWhenAuth
    <3>1. QueueOK' /\ UNCHANGED late
      BY <2>5, <2>9, Sends DEF InvalidStateWhenAuth, AuthConf
    <3> QED
      BY <2>1, <2>2, <2>9, <3>1 DEF InvalidStateWhenAuth, AuthFrame, StatesOK, AuthStates, TimersOK,
         scan, channels, ScanOK, aux, AuxOK
  <2>10. CASE MlmeAssocReqAction
    <3>1. msg.bss \in Bsss
      BY <2>3, <2>10, Carries DEF MlmeAssocReqAction, Received, msg
    <3> QED
      BY <2>1, <2>2, <2>4, <2>10, <3>1 DEF MlmeAssocReqAction, OnlyAssoc, AssocFrame, StatesOK,
         AssocStates, TimersOK, Timers, channels, ScanOK, AuxOK
  <2>11. CASE MlmeDisassocReqAction
    BY <2>1, <2>2, <2>4, <2>11 DEF MlmeDisassocReqAction, OnlyAssoc, AssocFrame, StatesOK,
       AssocStates, TimersOK, Timers, channels, ScanOK, AuxOK
  <2>12. CASE InvalidStateWhenAssoc \/ InvalidStateWhenDisassociate
    <3>1. QueueOK' /\ UNCHANGED late
      BY <2>5, <2>12, Sends DEF InvalidStateWhenAssoc, InvalidStateWhenDisassociate
    <3> QED
      BY <2>1, <2>2, <2>12, <3>1 DEF InvalidStateWhenAssoc, InvalidStateWhenDisassociate, OnlyAssoc,
         AssocFrame, StatesOK, AssocStates, TimersOK, channels, ScanOK, AuxOK
  <2> QED
    BY <1>5, <2>6, <2>7, <2>8, <2>9, <2>10, <2>11, <2>12 DEF OtherMachines
<1>6. CASE MlmeRestartStateMachine
  <2>1. QueueOK' /\ UNCHANGED late
    BY <1>6, Takes, Sends DEF MlmeRestartStateMachine, Received, Consumed, Handled, QueueOK
  <2> QED
    BY <1>6, <2>1 DEF MlmeRestartStateMachine, ReleaseData, aux, table, channels, link, callers, StatesOK,
       CntlStates, SyncStates, AuthStates, AssocStates, TimersOK, AuxOK, TableOK, ScanOK, LinkOK, CallersOK
<1>7. CASE Drop
  <2>1. QueueOK' /\ UNCHANGED late
    BY <1>7, Takes, Sends DEF Drop, Handled, QueueOK
  <2> QED
    BY <1>7, <2>1 DEF Drop, aux, table, scan, channels, link, callers, StatesOK,
       TimersOK, AuxOK, TableOK, ScanOK, LinkOK, CallersOK
\* What follows adds at most one message.
<1>8. ASSUME NEW m \in Messages, Reply(<<m>>) PROVE QueueOK'
  BY <1>8, Added DEF Reply, QueueOK
<1>9. CASE Timeout
  <2>1. UNCHANGED <<table, link, callers, aux, Cntl>> /\ late' \in SUBSET late
    BY <1>9 DEF Timeout, TimedOut, ScanTimeoutAction, BeaconTimeoutAtJoinAction, AuthTimeoutAction,
       AssocTimeoutAction, DisassocTimeoutAction, DropTimeout, SyncFrame, AuthFrame, AssocFrame,
       OnlyAssoc, table, aux
  <2>2. TableOK' /\ LinkOK' /\ CallersOK' /\ AuxOK'
    BY <2>1 DEF table, link, callers, aux, TableOK, LinkOK, CallersOK, AuxOK
  <2>3. CASE ScanTimeoutAction
    <3>1. Channel' \in 0 .. Channels
      BY <2>3, Bounds DEF ScanTimeoutAction, ScanOK
    <3>2. ScanNextChannel(Queue, Channel', armed, scanning)
      BY <2>3, Zenon DEF ScanTimeoutAction
    <3>3. Queue \in Seq(Messages) /\ armed \in SUBSET Timers /\ scanning \in BOOLEAN
      BY DEF QueueOK, TimersOK, ScanOK
    <3>4. QueueOK' /\ ScanOK' /\ armed' \in SUBSET Timers /\ Sync' \in SyncStates
      BY <3>1, <3>2, <3>3, ScansOn
    <3> QED
      BY <2>1, <2>2, <2>3, <3>4 DEF ScanTimeoutAction, SyncFrame, StatesOK, TimersOK
  <2>4. CASE BeaconTimeoutAtJoinAction
    <3>1. QueueOK'
      BY <1>8, <2>4, Sends DEF BeaconTimeoutAtJoinAction
    <3> QED
      BY <2>1, <2>2, <2>4, <3>1 DEF BeaconTimeoutAtJoinAction, SyncFrame, StatesOK, SyncStates, TimersOK,
         scan, channels, ScanOK
  <2>5. CASE AuthTimeoutAction
    <3>1. QueueOK'
      BY <1>8, <2>5, Sends DEF AuthTimeoutAction, AuthConf
    <3> QED
      BY <2>1, <2>2, <2>5, <3>1 DEF AuthTimeoutAction, AuthFrame, StatesOK, AuthStates, TimersOK,
         scan, channels, ScanOK
  <2>6. CASE AssocTimeoutAction \/ DisassocTimeoutAction
    <3>1. QueueOK'
      BY <1>8, <2>6, Sends DEF AssocTimeoutAction, DisassocTimeoutAction
    <3> QED
      BY <2>1, <2>2, <2>6, <3>1 DEF AssocTimeoutAction, DisassocTimeoutAction, OnlyAssoc, AssocFrame,
         StatesOK, AssocStates, TimersOK, channels, ScanOK
  <2>7. ASSUME NEW t \in Timers, DropTimeout(t) PROVE Ranges'
    BY <2>1, <2>2, <2>7 DEF DropTimeout, QueueOK, StatesOK, TimersOK, scan, channels, ScanOK
  <2> QED
    BY <1>9, <2>3, <2>4, <2>5, <2>6, <2>7 DEF Timeout
<1>10. CASE PeerFrame
  <2> PICK b \in BSS :
        \/ PeerBeaconAtJoinAction(b)
        \/ \E ok \in BOOLEAN, seq \in {2, 4} :
              PeerAuthRspAtSeq2Action(b, seq, ok) \/ PeerAuthRspAtSeq4Action(b, seq, ok)
        \/ \E ok \in BOOLEAN : PeerAssocRspAction(b, ok)
        \/ PeerDisassocAction(b) \/ PeerDeauthAction(b)
    BY <1>10 DEF PeerFrame
  <2>1. CASE PeerBeaconAtJoinAction(b)
    <3>1. QueueOK'
      BY <1>8, <2>1, Sends DEF PeerBeaconAtJoinAction
    <3> QED
      BY <2>1, <3>1 DEF PeerBeaconAtJoinAction, SyncFrame, StatesOK, SyncStates, TimersOK,
         scan, channels, ScanOK, AuxOK, table, TableOK, link, LinkOK, callers, CallersOK
  <2>2. ASSUME NEW ok \in BOOLEAN, NEW seq \in {2, 4},
               PeerAuthRspAtSeq2Action(b, seq, ok) \/ PeerAuthRspAtSeq4Action(b, seq, ok)
        PROVE  Ranges'
    <3>1. QueueOK'
      BY <1>8, <2>2, Sends
         DEF PeerAuthRspAtSeq2Action, PeerAuthRspAtSeq4Action, AuthConf, ChallengeTimed, QueueOK
    <3> QED
      BY <2>2, <3>1 DEF PeerAuthRspAtSeq2Action, PeerAuthRspAtSeq4Action, ChallengeTimed, AuthFrame,
         StatesOK, AuthStates, TimersOK, Timers, scan, channels, ScanOK, aux, AuxOK, table, TableOK, link,
         LinkOK, callers, CallersOK
  <2>3. ASSUME NEW ok \in BOOLEAN, PeerAssocRspAction(b, ok) PROVE Ranges'
    <3>1. QueueOK'
      BY <1>8, <2>3, Sends DEF PeerAssocRspAction
    <3> QED
      BY <2>3, <3>1 DEF PeerAssocRspAction, AssocFrame, StatesOK, AssocStates, TimersOK, channels, ScanOK,
         AuxOK, TableOK, LinkOK, Bsss, callers, CallersOK
  <2>4. CASE PeerDisassocAction(b)
    <3>1. QueueOK'
      BY <1>8, <2>4, Sends DEF PeerDisassocAction, QueueOK
    <3>2. TimersOK' /\ LinkOK' /\ ScanOK'
      BY <2>4 DEF PeerDisassocAction, LinkDown, AssocFrame, TimersOK, link, LinkOK, Bsss, channels, ScanOK
    <3> QED
      BY <2>4, <3>1, <3>2 DEF PeerDisassocAction, AssocFrame, StatesOK, AssocStates, AuxOK,
         TableOK, callers, CallersOK
  <2>5. CASE PeerDeauthAction(b)
    <3>1. QueueOK' /\ Cntl' \in CntlStates /\ BssNr' \in Nrs /\ BssIdx' \in Nrs
      <4>1. CASE UNCHANGED <<Queue, Cntl, BssNr, BssIdx>>
        BY <4>1 DEF QueueOK, StatesOK, TableOK
      <4>2. CASE IterateOnBssTab(Queue, NextIdx(BssIdx), BssNr)
        <5>1. NextIdx(BssIdx) \in Nrs /\ BssNr \in Nrs
          BY Counted DEF TableOK
        <5>2. NextIdx(BssIdx) < BssNr => JoinReq(NextIdx(BssIdx)) \in Messages
          BY <5>1, Counted, Sends
        <5>3. NextIdx(BssIdx) < BssNr => Append(Queue, JoinReq(NextIdx(BssIdx))) \in Seq(Messages)
          BY <5>2, Added DEF QueueOK
        <5> QED
          BY <4>2, <5>1, <5>3, Counted DEF IterateOnBssTab, QueueOK, CntlStates
      <4> QED
        BY <2>5, <4>1, <4>2 DEF PeerDeauthAction
    <3> QED
      BY <2>5, <3>1 DEF PeerDeauthAction, LinkDown, StatesOK, TimersOK, aux, AuxOK, TableOK, LinkOK, Bsss,
         channels, ScanOK, callers, CallersOK
  <2> QED
    BY <2>1, <2>2, <2>3, <2>4, <2>5
<1> QED
  BY <1>1, <1>2, <1>3, <1>4, <1>5, <1>6, <1>7, <1>9, <1>10 DEF Next, MlmeHandler

LEMMA RangesInit == Init => Ranges
<1> SUFFICES ASSUME Init PROVE Ranges
  OBVIOUS
<1>1. QueueOK /\ StatesOK /\ TimersOK /\ AuxOK /\ LinkOK /\ CallersOK
  BY DEF Init, QueueOK, StatesOK, CntlStates, SyncStates, AuthStates, AssocStates, TimersOK, AuxOK, Bsss,
         Algs, LinkOK, CallersOK
<1>2. TableOK
  BY Counted DEF Init, TableOK, Bsss
<1>3. ScanOK
  BY Bounds DEF Init, ScanOK
<1> QED
  BY <1>1, <1>2, <1>3 DEF Ranges

\* Every variable stays in its range: whatever the peers, the user and the timers
\* do, a JOIN_REQ never indexes past the table (MlmeJoinReqAction).
THEOREM TypeCorrect == Spec => []TypeOK
<1>1. Spec => []Ranges
  BY RangesInit, RangesKeep, PTL DEF Spec
<1> QED
  BY <1>1, RangesAreTypes, PTL

-----------------------------------------------------------------------------
(* A machine that waits for a peer has its timer.  Each action either leaves *)
(* a machine's wait and its timer alone, or begins the wait with the timer,  *)
(* or ends it.                                                               *)

SyncTimed == /\ Sync = "JOIN_WAIT_BEACON" => Ticks("Beacon")
             /\ Sync = "SCAN_LISTEN" => Ticks("Scan")
AuthTimed == Auth # "IDLE" => Ticks("Auth")
AssocTimed == Assoc = "WAIT_RSP" => Ticks("Assoc")
Leaving == Cntl \in {"WAIT_DISASSOC", "WAIT_OID_DISASSOC"}
Owed == Has(Queue, {"DISASSOC_REQ", "DISASSOC_CONF"})
DisassocTimed == Assoc = "DISASSOC_WAIT_RSP" /\ Leaving => Ticks("Disassoc") \/ Owed
Timed == SyncTimed /\ AuthTimed /\ AssocTimed /\ DisassocTimed

LEMMA TimedWaits == Timed => WaitsAreTimed
BY DEF Timed, SyncTimed, AuthTimed, AssocTimed, DisassocTimed, Leaving, Owed, Has, WaitsAreTimed, SentType

\* What a step takes from the queue or adds to it.
LEMMA OwedStays ==
  ASSUME QueueOK
  PROVE  /\ \A m \in Messages : Queue' = Append(Queue, m) =>
              /\ Owed => Owed'
              /\ m.type \in {"DISASSOC_REQ", "DISASSOC_CONF"} => Owed'
         /\ UNCHANGED Queue => (Owed => Owed')
         /\ Queue # <<>> /\ msg.type \notin {"DISASSOC_REQ", "DISASSOC_CONF"} =>
              /\ Consumed => (Owed => Owed')
              /\ \A m \in Messages : Handled(<<m>>) => (Owed => Owed')
         /\ Queue # <<>> => \A m \in Messages :
              Handled(<<m>>) /\ m.type \in {"DISASSOC_REQ", "DISASSOC_CONF"} => Owed'
<1> DEFINE T == {"DISASSOC_REQ", "DISASSOC_CONF"}
<1>0. ASSUME NEW q \in Seq(Messages), NEW m \in Messages
      PROVE  Has(Append(q, m), T) <=> Has(q, T) \/ m.type \in T
  BY Added
<1>1. Queue \in Seq(Messages)
  BY DEF QueueOK
<1>2. ASSUME NEW m \in Messages, Queue' = Append(Queue, m)
      PROVE  Owed' <=> Owed \/ m.type \in T
  <2>1. Has(Append(Queue, m), T) <=> Has(Queue, T) \/ m.type \in T
    BY <1>0, <1>1
  <2>2. Owed' <=> Has(Queue', T)
    BY DEF Owed, Has
  <2> QED
    BY <1>2, <2>1, <2>2 DEF Owed
<1>3. UNCHANGED Queue => (Owed => Owed')
  BY DEF Owed, Has
<1>4. ASSUME Queue # <<>>
      PROVE  /\ Consumed => (Owed' <=> Has(Tail(Queue), T))
             /\ \A m \in Messages : Handled(<<m>>) => (Owed' <=> Has(Tail(Queue), T) \/ m.type \in T)
             /\ Owed /\ msg.type \notin T => Has(Tail(Queue), T)
  <2>1. /\ Tail(Queue) \in Seq(Messages)
        /\ Has(Queue, T) <=> Head(Queue).type \in T \/ Has(Tail(Queue), T)
    BY <1>1, <1>4, TakenOff
  <2>2. Owed' <=> Has(Queue', T)
    BY DEF Owed, Has
  <2>3. Consumed => Queue' = Tail(Queue)
    BY <1>4, Takes, Sends DEF Consumed, Handled
  <2>4. ASSUME NEW m \in Messages, Handled(<<m>>)
        PROVE  Has(Queue', T) <=> Has(Tail(Queue), T) \/ m.type \in T
    <3>1. Queue' = Append(Tail(Queue), m)
      BY <1>4, <2>4, Takes DEF Handled
    <3>2. Has(Append(Tail(Queue), m), T) <=> Has(Tail(Queue), T) \/ m.type \in T
      BY <1>0, <2>1
    <3> QED
      BY <3>1, <3>2, Zenon
  <2>5. Consumed => (Owed' <=> Has(Tail(Queue), T))
    BY <2>2, <2>3
  <2> QED
    BY <2>1, <2>2, <2>4, <2>5 DEF Owed, msg
<1> HIDE DEF T
<1>5. /\ \A m \in Messages : Queue' = Append(Queue, m) => (Owed => Owed') /\ (m.type \in T => Owed')
      /\ Queue # <<>> /\ msg.type \notin T =>
              /\ Consumed => (Owed => Owed')
              /\ \A m \in Messages : Handled(<<m>>) => (Owed => Owed')
      /\ Queue # <<>> => \A m \in Messages : Handled(<<m>>) /\ m.type \in T => Owed'
  BY <1>2, <1>4
<1> QED
  BY <1>3, <1>5 DEF T

\* A step that leaves a machine and its timers alone keeps what is said of it.
Stays(t) == Ticks(t) => Ticks(t)'

LEMMA Alone ==
  /\ UNCHANGED Sync /\ Stays("Beacon") /\ Stays("Scan") /\ SyncTimed => SyncTimed'
  /\ UNCHANGED Auth /\ Stays("Auth") /\ AuthTimed => AuthTimed'
  /\ UNCHANGED Assoc /\ Stays("Assoc") /\ AssocTimed => AssocTimed'
  /\ UNCHANGED Assoc /\ Stays("Disassoc") /\ (Leaving' => Leaving) /\ (Owed => Owed')
       /\ DisassocTimed => DisassocTimed'
  /\ Owed' \/ ~Leaving' \/ Assoc' # "DISASSOC_WAIT_RSP" => DisassocTimed'
BY DEF Stays, SyncTimed, AuthTimed, AssocTimed, DisassocTimed

\* Timers that are not touched, that run out, and that are armed.
LEMMA Ticking ==
  ASSUME NEW t
  PROVE  /\ armed \subseteq armed' /\ late \subseteq late' => Stays(t)
         /\ armed \cup late \subseteq armed' \cup late' => Stays(t)
         /\ t \in armed' => Ticks(t)'
         /\ \A x : x # t /\ armed \ {x} \subseteq armed' /\ late \ {x} \subseteq late' => Stays(t)
BY DEF Stays, Ticks

LEMMA TimedKeeps == Ranges /\ Timed /\ [Next]_vars => Timed'
<1> SUFFICES ASSUME Ranges, Timed, [Next]_vars PROVE Timed'
  OBVIOUS
<1> USE DEF Timed
<1>1. CASE UNCHANGED vars
  BY <1>1, Alone, Ticking, OwedStays DEF vars, timers, Leaving, Ranges
<1>2. CASE Outside
  <2>1. UNCHANGED <<Sync, Auth, Assoc, timers>> /\ (Leaving' => Leaving)
    BY <1>2 DEF Outside, UserAsks, UserRequest, MlmeCheckForRoaming, MlmeAutoReconnectLastSSID,
                PeriodicTest, PeriodicScan, ResumeScan, Leaving
  <2>2. UNCHANGED Queue \/ \E m \in Messages : Queue' = Append(Queue, m)
    BY <1>2, Sends DEF Outside, UserAsks, UserRequest, MlmeCheckForRoaming, MlmeAutoReconnectLastSSID,
                PeriodicTest, PeriodicScan, ResumeScan, Enqueue, Ranges, CallersOK, Requests, Bsss
  <2>3. Owed => Owed'
    BY <2>2, OwedStays DEF Ranges
  <2>4. \A t : Stays(t)
    BY <2>1, Ticking DEF timers
  <2> QED
    BY <2>1, <2>3, <2>4, Alone
<1>3. ASSUME NEW t \in Timers, TimerFires(t) PROVE Timed'
  <2>1. UNCHANGED <<Sync, Auth, Assoc, Cntl, Queue>> /\ armed \cup late \subseteq armed' \cup late'
    BY <1>3 DEF TimerFires
  <2>2. \A u : Stays(u)
    BY <2>1, Ticking
  <2> QED
    BY <2>1, <2>2, Alone, OwedStays DEF Leaving, Ranges
<1>4. CASE CntlMachine
  <2>1. UNCHANGED <<Sync, Auth, Assoc>> /\ Queue # <<>>
    BY <1>4 DEF CntlMachine, CntlFrame, Received, CntlOidSsidProc, CntlOidRTBssidProc, CntlOidScanProc,
        CntlOidDisassociate, CntlMlmeRoamingProc, CntlWaitDisassocProc, CntlWaitOidDisassoc,
        CntlWaitOidListScan, CntlWaitJoinProc, CntlWaitAuthProc, CntlWaitAuthProc2, CntlWaitAssocProc
  \* Where CNTL leaves an access point it has asked ASSOC to.
  <2>2. ~Leaving' \/ Leave("WAIT_DISASSOC") \/ Leave("WAIT_OID_DISASSOC")
    <3>1. CASE CntlOidSsidProc
      BY <3>1 DEF CntlOidSsidProc, Leaving, StartScan, Iterate, IterateOnBssTab
    <3>2. CASE CntlOidRTBssidProc \/ CntlOidScanProc \/ CntlOidDisassociate
      BY <3>2 DEF CntlOidRTBssidProc, CntlOidScanProc, CntlOidDisassociate, Leaving, StartScan
    <3>3. CASE CntlMlmeRoamingProc \/ CntlWaitDisassocProc \/ CntlWaitOidDisassoc \/ CntlWaitOidListScan
      BY <3>3 DEF CntlMlmeRoamingProc, CntlWaitDisassocProc, CntlWaitOidDisassoc, CntlWaitOidListScan,
                  Leaving, Iterate, IterateOnBssTab
    <3>4. CASE CntlWaitJoinProc \/ CntlWaitAuthProc \/ CntlWaitAuthProc2 \/ CntlWaitAssocProc
      BY <3>4 DEF CntlWaitJoinProc, CntlWaitAuthProc, CntlWaitAuthProc2, CntlWaitAssocProc,
                  Leaving, Ask, TryNextBss, Iterate, IterateOnBssTab
    <3> QED
      BY <1>4, <3>1, <3>2, <3>3, <3>4 DEF CntlMachine
  <2>3. DisassocTimed'
    <3>1. ASSUME NEW state, Leave(state) PROVE Owed'
      <4>1. /\ From("DISASSOC_REQ", Bssid) \in Messages
            /\ From("DISASSOC_REQ", Bssid).type \in {"DISASSOC_REQ", "DISASSOC_CONF"}
        BY Sends DEF Ranges, LinkOK
      <4> QED
        BY <2>1, <3>1, <4>1, OwedStays DEF Leave, Ranges
    <3> QED
      BY <2>2, <3>1, Alone
  <2>4. armed \ {"Disassoc"} \subseteq armed'
    <3>1. NoLinkChange \/ LinkDown \/ LinkUp => armed \ {"Disassoc"} \subseteq armed'
      BY DEF NoLinkChange, LinkDown, LinkUp
    <3> QED
      BY <1>4, <3>1 DEF CntlMachine, CntlOidSsidProc, CntlOidRTBssidProc, CntlOidScanProc,
        CntlOidDisassociate, CntlMlmeRoamingProc, CntlWaitDisassocProc, CntlWaitOidDisassoc,
        CntlWaitOidListScan, CntlWaitJoinProc, CntlWaitAuthProc, CntlWaitAuthProc2, CntlWaitAssocProc
  <2>5. UNCHANGED late
    <3>1. \A replies : Handled(replies) => UNCHANGED late
      BY DEF Handled
    <3> QED
      BY <1>4, <3>1 DEF CntlMachine, CntlOidSsidProc, CntlOidRTBssidProc, CntlOidScanProc,
        CntlOidDisassociate, CntlMlmeRoamingProc, CntlWaitDisassocProc, CntlWaitOidDisassoc,
        CntlWaitOidListScan, CntlWaitJoinProc, CntlWaitAuthProc, CntlWaitAuthProc2, CntlWaitAssocProc,
        StartScan, Leave, Iterate, Consumed, Ask, TryNextBss
  <2>6. \A t : t # "Disassoc" => Stays(t)
    BY <2>4, <2>5, Ticking
  <2> QED
    BY <2>1, <2>3, <2>6, Alone
<1>5. CASE OtherMachines
  <2>1. Queue # <<>> /\ UNCHANGED Cntl
    BY <1>5 DEF OtherMachines, Received, SyncFrame, AuthFrame, AssocFrame, OnlyAssoc, MlmeScanReqAction,
       MlmeJoinReqAction, MlmeAuthReqAction, InvalidStateWhenAuth, MlmeAssocReqAction,
       MlmeDisassocReqAction, InvalidStateWhenAssoc, InvalidStateWhenDisassociate
  <2>2. Leaving' => Leaving
    BY <2>1 DEF Leaving
  <2>3. CASE MlmeScanReqAction
    <3>1. UNCHANGED <<Auth, Assoc, late>> /\ msg.type = "SCAN_REQ"
      BY <2>3 DEF MlmeScanReqAction, SyncFrame, Received, msg
    <3>2. PICK running : /\ running = armed \ {"Beacon", "Scan"}
                         /\ ScanNextChannel(Tail(Queue), Channel', running, TRUE)
      BY <2>3, Zenon DEF MlmeScanReqAction
    <3>3. /\ running \subseteq armed'
          /\ Sync' = "SCAN_LISTEN" => "Scan" \in armed'
          /\ Sync' # "JOIN_WAIT_BEACON"
          /\ Queue' = Tail(Queue) \/ Queue' = Append(Tail(Queue), Msg("SCAN_CONF"))
      BY <3>2 DEF ScanNextChannel
    <3>4. Stays("Auth") /\ Stays("Assoc") /\ Stays("Disassoc")
      BY <3>1, <3>2, <3>3 DEF Stays, Ticks
    <3>5. SyncTimed'
      BY <3>3, Ticking DEF SyncTimed
    <3>6. Consumed \/ Handled(<<Msg("SCAN_CONF")>>)
      BY <2>1, <3>1, <3>3, Takes, Sends DEF Consumed, Handled, Ranges
    <3>7. Owed => Owed'
      BY <2>1, <3>1, <3>6, OwedStays, Sends DEF Ranges
    <3> QED
      BY <2>2, <3>1, <3>4, <3>5, <3>7, Alone
  <2>4. CASE MlmeJoinReqAction
    <3>1. UNCHANGED <<Auth, Assoc, late>> /\ msg.type = "JOIN_REQ" /\ Consumed
      BY <2>4 DEF MlmeJoinReqAction, SyncFrame, Received, msg, Consumed, Handled
    <3>2. Stays("Auth") /\ Stays("Assoc") /\ Stays("Disassoc")
      BY <2>4, <3>1 DEF MlmeJoinReqAction, Stays, Ticks
    <3>3. SyncTimed'
      BY <2>4 DEF MlmeJoinReqAction, SyncTimed, Ticks
    <3>4. Owed => Owed'
      BY <2>1, <3>1, OwedStays DEF Ranges
    <3> QED
      BY <2>2, <3>1, <3>2, <3>3, <3>4, Alone
  <2>5. CASE MlmeAuthReqAction
    <3>1. UNCHANGED <<Sync, Assoc, late>> /\ msg.type = "AUTH_REQ" /\ Consumed
      BY <2>5 DEF MlmeAuthReqAction, AuthFrame, Received, msg, Consumed, Handled
    <3>2. (\A t : Stays(t)) /\ AuthTimed'
      BY <2>5, <3>1 DEF MlmeAuthReqAction, Stays, Ticks, AuthTimed
    <3>3. Owed => Owed'
      BY <2>1, <3>1, OwedStays DEF Ranges
    <3> QED
      BY <2>2, <3>1, <3>2, <3>3, Alone
  <2>6. CASE InvalidStateWhenAuth
    <3>1. /\ UNCHANGED <<Sync, Assoc, armed, late>> /\ Auth' = "IDLE" /\ msg.type = "AUTH_REQ"
          /\ Handled(<<Conf("AUTH_CONF", FALSE)>>)
      BY <2>6 DEF InvalidStateWhenAuth, AuthFrame, AuthConf, Received, msg, Handled
    <3>2. (\A t : Stays(t)) /\ AuthTimed'
      BY <3>1, Ticking DEF AuthTimed
    <3>3. Owed => Owed'
      BY <2>1, <3>1, OwedStays, Sends DEF Ranges
    <3> QED
      BY <2>2, <3>1, <3>2, <3>3, Alone
  <2>7. CASE MlmeAssocReqAction
    <3>1. UNCHANGED <<Sync, Auth, late>> /\ Assoc' = "WAIT_RSP"
      BY <2>7 DEF MlmeAssocReqAction, OnlyAssoc, AssocFrame, Consumed, Handled
    <3>2. (\A t : Stays(t)) /\ AssocTimed'
      BY <2>7, <3>1 DEF MlmeAssocReqAction, Stays, Ticks, AssocTimed
    <3> QED
      BY <3>1, <3>2, Alone
  <2>8. CASE MlmeDisassocReqAction
    <3>1. UNCHANGED <<Sync, Auth, late>> /\ Assoc' = "DISASSOC_WAIT_RSP"
      BY <2>8 DEF MlmeDisassocReqAction, OnlyAssoc, AssocFrame, Consumed, Handled
    <3>2. (\A t : Stays(t)) /\ AssocTimed' /\ DisassocTimed'
      BY <2>8, <3>1 DEF MlmeDisassocReqAction, Stays, Ticks, AssocTimed, DisassocTimed
    <3> QED
      BY <3>1, <3>2, Alone
  <2>9. CASE InvalidStateWhenAssoc \/ InvalidStateWhenDisassociate
    <3>1. UNCHANGED <<Sync, Auth, armed, late>> /\ Assoc' = "IDLE"
      BY <2>9 DEF InvalidStateWhenAssoc, InvalidStateWhenDisassociate, OnlyAssoc, AssocFrame, Handled
    <3>2. (\A t : Stays(t)) /\ AssocTimed'
      BY <3>1, Ticking DEF AssocTimed
    <3> QED
      BY <3>1, <3>2, Alone
  <2> QED
    BY <1>5, <2>3, <2>4, <2>5, <2>6, <2>7, <2>8, <2>9 DEF OtherMachines
<1>6. CASE MlmeRestartStateMachine
  BY <1>6 DEF MlmeRestartStateMachine, SyncTimed, AuthTimed, AssocTimed, DisassocTimed
<1>7. CASE Drop
  <2>1. /\ UNCHANGED <<Sync, Auth, Assoc, Cntl, armed, late>> /\ Queue # <<>> /\ Consumed
        /\ msg.type \notin Taken
    BY <1>7 DEF Drop, Consumed, Handled
  <2>2. Leaving => msg.type \notin {"DISASSOC_REQ", "DISASSOC_CONF"}
    BY <2>1 DEF Leaving, Taken, CntlTakes
  <2>3. Leaving /\ Owed => Owed'
    BY <2>1, <2>2, OwedStays DEF Ranges
  <2>4. \A t : Stays(t)
    BY <2>1, Ticking
  <2>5. DisassocTimed'
    BY <2>1, <2>3, <2>4 DEF DisassocTimed, Leaving, Stays
  <2> QED
    BY <2>1, <2>4, <2>5, Alone
\* What follows adds at most one message.
<1>8. ASSUME NEW m \in Messages, Reply(<<m>>) PROVE Owed => Owed'
  <2>1. Queue' = Append(Queue, m)
    BY <1>8, Added DEF Reply, Ranges, QueueOK
  <2> QED
    BY <2>1, OwedStays DEF Ranges
<1>9. CASE Timeout
  <2>1. CASE ScanTimeoutAction
    <3>1. UNCHANGED <<Auth, Assoc, Cntl>> /\ late' = late \ {"Scan"}
      BY <2>1 DEF ScanTimeoutAction, SyncFrame, TimedOut
    <3>2. ScanNextChannel(Queue, Channel', armed, scanning)
      BY <2>1, Zenon DEF ScanTimeoutAction
    <3>3. /\ armed \subseteq armed'
          /\ Sync' = "SCAN_LISTEN" => "Scan" \in armed'
          /\ Sync' # "JOIN_WAIT_BEACON"
          /\ UNCHANGED Queue \/ Queue' = Append(Queue, Msg("SCAN_CONF"))
      BY <3>2 DEF ScanNextChannel
    <3>4. Stays("Auth") /\ Stays("Assoc") /\ Stays("Disassoc")
      BY <3>1, <3>3 DEF Stays, Ticks
    <3>5. SyncTimed'
      BY <3>3, Ticking DEF SyncTimed
    <3>6. Owed => Owed'
      BY <3>3, OwedStays, Sends DEF Ranges
    <3> QED
      BY <3>1, <3>4, <3>5, <3>6, Alone DEF Leaving
  <2>2. CASE BeaconTimeoutAtJoinAction
    <3>1. UNCHANGED <<Auth, Assoc, Cntl, armed>> /\ late' = late \ {"Beacon"} /\ Sync' = "IDLE"
      BY <2>2 DEF BeaconTimeoutAtJoinAction, SyncFrame, TimedOut
    <3>2. Stays("Auth") /\ Stays("Assoc") /\ Stays("Disassoc") /\ SyncTimed'
      BY <3>1 DEF Stays, Ticks, SyncTimed
    <3>3. Owed => Owed'
      BY <1>8, <2>2, Sends DEF BeaconTimeoutAtJoinAction
    <3> QED
      BY <3>1, <3>2, <3>3, Alone DEF Leaving
  <2>3. CASE AuthTimeoutAction
    <3>1. UNCHANGED <<Sync, Assoc, Cntl, armed>> /\ late' = late \ {"Auth"} /\ Auth' = "IDLE"
      BY <2>3 DEF AuthTimeoutAction, AuthFrame, TimedOut
    <3>2. Stays("Beacon") /\ Stays("Scan") /\ Stays("Assoc") /\ Stays("Disassoc") /\ AuthTimed'
      BY <3>1 DEF Stays, Ticks, AuthTimed
    <3>3. Owed => Owed'
      BY <1>8, <2>3, Sends DEF AuthTimeoutAction, AuthConf
    <3> QED
      BY <3>1, <3>2, <3>3, Alone DEF Leaving
  <2>4. CASE AssocTimeoutAction \/ DisassocTimeoutAction
    <3>1. /\ UNCHANGED <<Sync, Auth, Cntl, armed>> /\ late \ {"Assoc", "Disassoc"} \subseteq late'
          /\ Assoc' = "IDLE"
      BY <2>4 DEF AssocTimeoutAction, DisassocTimeoutAction, OnlyAssoc, AssocFrame, TimedOut
    <3>2. Stays("Beacon") /\ Stays("Scan") /\ Stays("Auth") /\ AssocTimed'
      BY <3>1 DEF Stays, Ticks, AssocTimed
    <3> QED
      BY <3>1, <3>2, Alone
  <2>5. ASSUME NEW t \in Timers, DropTimeout(t) PROVE Timed'
    <3>1. /\ UNCHANGED <<Sync, Auth, Assoc, Cntl, armed, Queue>> /\ late' = late \ {t}
          /\ ~Expects(t)
      BY <2>5 DEF DropTimeout, TimedOut
    <3>2. \A u : u # t => Stays(u)
      BY <3>1 DEF Stays, Ticks
    <3>3. Owed' = Owed /\ Leaving' = Leaving
      BY <3>1 DEF Owed, Has, Leaving
    <3>4. /\ t = "Beacon" => Sync # "JOIN_WAIT_BEACON"
          /\ t = "Scan" => Sync # "SCAN_LISTEN"
          /\ t = "Auth" => Auth = "IDLE"
          /\ t = "Assoc" => Assoc # "WAIT_RSP"
          /\ t = "Disassoc" => Assoc # "DISASSOC_WAIT_RSP"
      BY <3>1 DEF Expects
    <3> QED
      BY <3>1, <3>2, <3>3, <3>4 DEF SyncTimed, AuthTimed, AssocTimed, DisassocTimed, Stays
  <2> QED
    BY <1>9, <2>1, <2>2, <2>3, <2>4, <2>5 DEF Timeout
<1>10. CASE PeerFrame
  <2> PICK b \in BSS :
        \/ PeerBeaconAtJoinAction(b)
        \/ \E ok \in BOOLEAN, seq \in {2, 4} :
              PeerAuthRspAtSeq2Action(b, seq, ok) \/ PeerAuthRspAtSeq4Action(b, seq, ok)
        \/ \E ok \in BOOLEAN : PeerAssocRspAction(b, ok)
        \/ PeerDisassocAction(b) \/ PeerDeauthAction(b)
    BY <1>10 DEF PeerFrame
  <2>1. CASE PeerBeaconAtJoinAction(b)
    <3>1. UNCHANGED <<Auth, Assoc, Cntl, late>> /\ armed' = armed \ {"Beacon"} /\ Sync' = "IDLE"
      BY <2>1 DEF PeerBeaconAtJoinAction, SyncFrame
    <3>2. Stays("Auth") /\ Stays("Assoc") /\ Stays("Disassoc") /\ SyncTimed'
      BY <3>1 DEF Stays, Ticks, SyncTimed
    <3>3. Owed => Owed'
      BY <1>8, <2>1, Sends DEF PeerBeaconAtJoinAction
    <3> QED
      BY <3>1, <3>2, <3>3, Alone DEF Leaving
  <2>2. ASSUME NEW ok \in BOOLEAN, NEW seq \in {2, 4},
               PeerAuthRspAtSeq2Action(b, seq, ok) \/ PeerAuthRspAtSeq4Action(b, seq, ok)
        PROVE  Timed'
    <3>1. UNCHANGED <<Sync, Assoc, Cntl, late>> /\ armed \ {"Auth"} \subseteq armed'
      BY <2>2 DEF PeerAuthRspAtSeq2Action, PeerAuthRspAtSeq4Action, ChallengeTimed, AuthFrame
    <3>2. Auth' = "IDLE" \/ "Auth" \in armed'
      BY <2>2 DEF PeerAuthRspAtSeq2Action, PeerAuthRspAtSeq4Action, ChallengeTimed
    <3>3. Stays("Beacon") /\ Stays("Scan") /\ Stays("Assoc") /\ Stays("Disassoc") /\ AuthTimed'
      BY <3>1, <3>2 DEF Stays, Ticks, AuthTimed
    <3>4. UNCHANGED Queue \/ Reply(<<Conf("AUTH_CONF", ok)>>)
      BY <2>2 DEF PeerAuthRspAtSeq2Action, PeerAuthRspAtSeq4Action, AuthConf, ChallengeTimed
    <3>5. Owed => Owed'
      BY <1>8, <3>4, OwedStays, Sends DEF Ranges
    <3> QED
      BY <3>1, <3>3, <3>5, Alone DEF Leaving
  <2>3. ASSUME NEW ok \in BOOLEAN, PeerAssocRspAction(b, ok) PROVE Timed'
    <3>1. UNCHANGED <<Sync, Auth, Cntl, late>> /\ armed' = armed \ {"Assoc"} /\ Assoc' = "IDLE"
      BY <2>3 DEF PeerAssocRspAction, AssocFrame
    <3>2. Stays("Beacon") /\ Stays("Scan") /\ Stays("Auth") /\ AssocTimed'
      BY <3>1 DEF Stays, Ticks, AssocTimed
    <3> QED
      BY <3>1, <3>2, Alone
  <2>4. CASE PeerDisassocAction(b)
    <3>1. UNCHANGED <<Sync, Auth, armed, late>> /\ Assoc' = "IDLE"
      BY <2>4 DEF PeerDisassocAction, LinkDown, AssocFrame
    <3>2. (\A t : Stays(t)) /\ AssocTimed'
      BY <3>1, Ticking DEF AssocTimed
    <3> QED
      BY <3>1, <3>2, Alone
  <2>5. CASE PeerDeauthAction(b)
    <3>1. UNCHANGED <<Sync, Auth, Assoc, armed, late>>
      BY <2>5 DEF PeerDeauthAction, LinkDown
    <3>2. (UNCHANGED <<Queue, Cntl>>) \/ Cntl' \in {"WAIT_JOIN", "IDLE"}
      BY <2>5 DEF PeerDeauthAction, IterateOnBssTab
    <3>3. (Leaving' => Leaving) /\ (Leaving' /\ Owed => Owed')
      BY <3>2 DEF Leaving, Owed, Has
    <3>4. \A t : Stays(t)
      BY <3>1, Ticking
    <3>5. DisassocTimed'
      BY <3>1, <3>3, <3>4 DEF DisassocTimed, Stays
    <3> QED
      BY <3>1, <3>4, <3>5, Alone
  <2> QED
    BY <2>1, <2>2, <2>3, <2>4, <2>5
<1> QED
  BY <1>1, <1>2, <1>3, <1>4, <1>5, <1>6, <1>7, <1>9, <1>10 DEF Next, MlmeHandler

\* A machine that waits for a peer that stays silent has a timer to wake it, for
\* every mode and whoever disturbs: timers set before the request's state is entered
\* (MlmeAssocReqAction and the like), cancelled when it is left, stale ones dropped.
THEOREM WaitsTimed == Spec => []WaitsAreTimed
<1>1. Init => Timed
  BY DEF Init, Timed, SyncTimed, AuthTimed, AssocTimed, DisassocTimed
<1>2. Spec => [](Ranges /\ Timed)
  BY <1>1, RangesInit, RangesKeep, TimedKeeps, PTL DEF Spec
<1> QED
  BY <1>2, TimedWaits, PTL

-----------------------------------------------------------------------------
(* A station nobody disturbs: no request while CNTL is busy, no peer that    *)
(* kicks, a periodic timer that finds what it tested.  Then there is always  *)
(* one who has the turn: CNTL, or the one message of the machines that is    *)
(* queued, or the one machine CNTL asked.                                    *)

Free == ~Has(Queue, Machines)
Turn(T) == Only(Queue, T)
AtRest == Auth = "IDLE" /\ Assoc = "IDLE"

Scans == \/ Turn({"SCAN_REQ"}) /\ Sync \in {"IDLE", "SCAN_PENDING"}
         \/ Turn({"SCAN_CONF"}) /\ Sync = "IDLE"
         \/ Free /\ Sync \in {"SCAN_LISTEN", "SCAN_PENDING"}
Joins == \/ Turn({"JOIN_REQ", "JOIN_CONF"}) /\ Sync = "IDLE"
         \/ Free /\ Sync = "JOIN_WAIT_BEACON"
Auths == \/ Turn({"AUTH_REQ", "AUTH_CONF"}) /\ Auth = "IDLE"
         \/ Free /\ Auth # "IDLE"
Assocs == \/ Turn({"ASSOC_REQ", "ASSOC_CONF"}) /\ Assoc = "IDLE"
          \/ Free /\ Assoc = "WAIT_RSP"
Leaves == \/ Turn({"DISASSOC_REQ", "DISASSOC_CONF"}) /\ Assoc = "IDLE"
          \/ Free /\ Assoc = "DISASSOC_WAIT_RSP"

Turns ==
    /\ Cntl = "IDLE" => Free /\ Sync = "IDLE" /\ AtRest
    /\ Cntl = "WAIT_OID_LIST_SCAN" => Scans /\ AtRest
    /\ Cntl = "WAIT_JOIN" => Joins /\ AtRest
    /\ Cntl \in {"WAIT_AUTH", "WAIT_AUTH2"} => Auths /\ Sync = "IDLE" /\ Assoc = "IDLE"
    /\ Cntl = "WAIT_ASSOC" => Assocs /\ Sync = "IDLE" /\ Auth = "IDLE"
    /\ Leaving => Leaves /\ Sync = "IDLE" /\ Auth = "IDLE"
Paused == Sync = "SCAN_PENDING" => bImprovedScan
Undisturbed == ~Has(Queue, {"RESET_CONF"}) /\ periodic = "idle"
Released == scanning => Sync = "SCAN_LISTEN" \/ Has(Queue, {"SCAN_CONF"})
Grant == Conf("ASSOC_CONF", TRUE)
Granted == /\ Sent(Grant) => Wcid = AuxBssid
           /\ Bssid # NoBss => Wcid = Bssid \/ Sent(Grant)
CalmInv == Turns /\ Paused /\ Undisturbed /\ Released /\ Granted

\* Whose turn it is.
LEMMA WhoseTurn ==
  ASSUME StatesOK, Turns
  PROVE  /\ Sync = "JOIN_WAIT_BEACON" => Cntl = "WAIT_JOIN" /\ Free /\ AtRest
         /\ Sync = "SCAN_LISTEN" => Cntl = "WAIT_OID_LIST_SCAN" /\ Free /\ AtRest
         /\ Sync = "SCAN_PENDING" => Cntl = "WAIT_OID_LIST_SCAN" /\ (Free \/ Turn({"SCAN_REQ"})) /\ AtRest
         /\ Auth # "IDLE" => Cntl \in {"WAIT_AUTH", "WAIT_AUTH2"} /\ Free /\ Sync = "IDLE" /\ Assoc = "IDLE"
         /\ Assoc = "WAIT_RSP" => Cntl = "WAIT_ASSOC" /\ Free /\ Sync = "IDLE" /\ Auth = "IDLE"
         /\ Assoc = "DISASSOC_WAIT_RSP" => Leaving /\ Free /\ Sync = "IDLE" /\ Auth = "IDLE"
BY DEF StatesOK, CntlStates, SyncStates, AuthStates, AssocStates, Turns, Scans, Joins, Auths, Assocs, Leaves,
       Leaving, AtRest

LEMMA OneOf ==
  ASSUME NEW q, NEW T, Only(q, T)
  PROVE  \A x \in Machines : Has(q, {x}) => x \in T
BY DEF Only, Has

LEMMA Some == \A q, x : x \in Machines /\ Has(q, {x}) => Has(q, Machines)
BY DEF Has

LEMMA WhatIsQueued ==
  ASSUME StatesOK, Turns, NEW x \in Machines, Has(Queue, {x})
  PROVE  /\ ~Free
         /\ x = "SCAN_REQ" => Cntl = "WAIT_OID_LIST_SCAN" /\ Sync \in {"IDLE", "SCAN_PENDING"} /\ AtRest
         /\ x # "SCAN_REQ" => Sync = "IDLE" /\ AtRest
         /\ x = "SCAN_CONF" => Cntl = "WAIT_OID_LIST_SCAN"
         /\ x \in {"JOIN_REQ", "JOIN_CONF"} => Cntl = "WAIT_JOIN"
         /\ x \in {"AUTH_REQ", "AUTH_CONF"} => Cntl \in {"WAIT_AUTH", "WAIT_AUTH2"}
         /\ x \in {"ASSOC_REQ", "ASSOC_CONF"} => Cntl = "WAIT_ASSOC"
         /\ x \in {"DISASSOC_REQ", "DISASSOC_CONF"} => Leaving
         /\ \E T : Turn(T)
<1>1. ~Free
  BY Some DEF Free
<1>2. \A T : Turn(T) => x \in T
  BY OneOf DEF Turn
<1>3. CASE Cntl = "WAIT_OID_LIST_SCAN"
  <2>1. Scans /\ AtRest
    BY <1>3 DEF Turns
  <2>2. CASE Turn({"SCAN_REQ"}) /\ Sync \in {"IDLE", "SCAN_PENDING"}
    BY <1>1, <1>2, <1>3, <2>1, <2>2
  <2>3. CASE Turn({"SCAN_CONF"}) /\ Sync = "IDLE"
    BY <1>1, <1>2, <1>3, <2>1, <2>3
  <2> QED
    BY <1>1, <2>1, <2>2, <2>3, Zenon DEF Scans
<1>4. CASE Cntl = "WAIT_JOIN"
  <2>1. Turn({"JOIN_REQ", "JOIN_CONF"}) /\ Sync = "IDLE" /\ AtRest
    BY <1>1, <1>4 DEF Turns, Joins
  <2> QED
    BY <1>1, <1>2, <1>4, <2>1
<1>5. CASE Cntl \in {"WAIT_AUTH", "WAIT_AUTH2"}
  <2>1. Turn({"AUTH_REQ", "AUTH_CONF"}) /\ Sync = "IDLE" /\ AtRest
    BY <1>1, <1>5 DEF Turns, Auths, AtRest
  <2> QED
    BY <1>1, <1>2, <1>5, <2>1
<1>6. CASE Cntl = "WAIT_ASSOC"
  <2>1. Turn({"ASSOC_REQ", "ASSOC_CONF"}) /\ Sync = "IDLE" /\ AtRest
    BY <1>1, <1>6 DEF Turns, Assocs, AtRest
  <2> QED
    BY <1>1, <1>2, <1>6, <2>1
<1>7. CASE Leaving
  <2>1. Turn({"DISASSOC_REQ", "DISASSOC_CONF"}) /\ Sync = "IDLE" /\ AtRest
    BY <1>1, <1>7 DEF Turns, Leaves, AtRest
  <2> QED
    BY <1>1, <1>2, <1>7, <2>1
<1> QED
  BY <1>1, <1>3, <1>4, <1>5, <1>6, <1>7 DEF Turns, StatesOK, CntlStates, Leaving

\* The message in hand, and what is left without it.
LEMMA InHand ==
  ASSUME Ranges, Turns, Queue # <<>>, NEW x, msg.type = x
  PROVE  /\ x \in Machines => Has(Queue, {x}) /\ ~Has(Tail(Queue), Machines)
         /\ x \notin Machines => /\ Free => ~Has(Tail(Queue), Machines)
                                 /\ \A T : Turn(T) => Only(Tail(Queue), T)
         /\ \A y : Has(Tail(Queue), {y}) => Has(Queue, {y})
         /\ \A y : y # x /\ Has(Queue, {y}) => Has(Tail(Queue), {y})
         /\ \A m : (\E k \in 1 .. Len(Queue) : Queue[k] = m) <=>
                      msg = m \/ \E k \in 1 .. Len(Tail(Queue)) : Tail(Queue)[k] = m
<1>1. Queue \in Seq(Messages)
  BY DEF Ranges, QueueOK
<1>2. \A y : Has(Queue, {y}) <=> x = y \/ Has(Tail(Queue), {y})
  BY <1>1, TakenOff DEF msg
<1>3. ASSUME x \in Machines PROVE ~Has(Tail(Queue), Machines)
  <2>1. PICK T : Turn(T)
    BY <1>2, <1>3, WhatIsQueued DEF Ranges
  <2>2. Only(Queue, T) /\ Head(Queue).type \in Machines
    BY <1>3, <2>1 DEF Turn, msg
  <2>3. Only(Queue, T) /\ Head(Queue).type \in Machines => ~Has(Tail(Queue), Machines)
    BY <1>1, TakenOff
  <2> QED
    BY <2>2, <2>3
<1>4. ASSUME x \notin Machines
      PROVE  /\ Free => ~Has(Tail(Queue), Machines)
             /\ \A T : Turn(T) => Only(Tail(Queue), T)
  BY <1>1, <1>4, TakenOff DEF Free, Turn, msg
<1>5. \A m : (\E k \in 1 .. Len(Queue) : Queue[k] = m) <=>
                      msg = m \/ \E k \in 1 .. Len(Tail(Queue)) : Tail(Queue)[k] = m
  BY <1>1, TakenOff DEF msg
<1> QED
  BY <1>2, <1>3, <1>4, <1>5

\* What a step does to the turn, and to what is queued.
KeptTurn == (Free => Free') /\ (\A T : Turn(T) => Turn(T)')
KeptRest == /\ \A y : Has(Queue, {y}) <=> Has(Queue, {y})'
            /\ \A x : Sent(x) <=> Sent(x)'

LEMMA AfterNothing == UNCHANGED Queue => KeptTurn /\ KeptRest
BY DEF KeptTurn, KeptRest, Free, Turn, Has, Only, Sent

LEMMA AfterAdded ==
  ASSUME Ranges, NEW m \in Messages, Queue' = Append(Queue, m) \/ Reply(<<m>>)
  PROVE  /\ m.type \notin Machines => KeptTurn
         /\ \A T : Free /\ m.type \in T /\ m.type \in Machines => Turn(T)'
         /\ \A y : Has(Queue, {y})' <=> Has(Queue, {y}) \/ m.type = y
         /\ \A x : Sent(x)' <=> Sent(x) \/ m = x
<1>1. Queue \in Seq(Messages)
  BY DEF Ranges, QueueOK
<1>2. Queue' = Append(Queue, m)
  BY <1>1, Added DEF Reply
<1>3. /\ \A T : m.type \notin Machines => (Only(Queue, T) => Only(Append(Queue, m), T))
      /\ \A T : ~Has(Queue, Machines) /\ m.type \in T \cap Machines => Only(Append(Queue, m), T)
  BY <1>1, Added
<1>4. \A T : Has(Append(Queue, m), T) <=> Has(Queue, T) \/ m.type \in T
  BY <1>1, Added
<1>5. \A x : (\E k \in 1 .. Len(Append(Queue, m)) : Append(Queue, m)[k] = x) <=>
                 (\E k \in 1 .. Len(Queue) : Queue[k] = x) \/ m = x
  BY <1>1, Added
<1>6. (\A T : Turn(T)' <=> Only(Append(Queue, m), T)) /\ (Free' <=> ~Has(Append(Queue, m), Machines))
  BY <1>2 DEF Turn, Free, Only, Has
<1>7. \A y : Has(Queue, {y})' <=> Has(Append(Queue, m), {y})
  BY <1>2 DEF Has
<1>8. \A x : Sent(x)' <=> \E k \in 1 .. Len(Append(Queue, m)) : Append(Queue, m)[k] = x
  BY <1>2 DEF Sent
<1>9. m.type \notin Machines => KeptTurn
  BY <1>3, <1>4, <1>6 DEF KeptTurn, Turn, Free
<1>10. \A T : Free /\ m.type \in T /\ m.type \in Machines => Turn(T)'
  BY <1>3, <1>6 DEF Free
<1>11. \A y : Has(Queue, {y})' <=> Has(Queue, {y}) \/ m.type = y
  BY <1>4, <1>7
<1>12. \A x : Sent(x)' <=> Sent(x) \/ m = x
  BY <1>5, <1>8 DEF Sent
<1> QED
  BY <1>9, <1>10, <1>11, <1>12

LEMMA AfterTaken ==
  ASSUME Ranges, Turns, Queue # <<>>, NEW x, msg.type = x, Consumed
  PROVE  /\ x \in Machines => Free'
         /\ x \notin Machines => KeptTurn
         /\ \A y : Has(Queue, {y})' => Has(Queue, {y})
         /\ \A y : y # x /\ Has(Queue, {y}) => Has(Queue, {y})'
         /\ \A m : Sent(m)' => Sent(m)
         /\ \A m : Sent(m) /\ m # msg => Sent(m)'
<1>1. Queue' = Tail(Queue)
  BY Takes, Sends DEF Ranges, Consumed, Handled
<1>2. (\A T : Turn(T)' <=> Only(Tail(Queue), T)) /\ (Free' <=> ~Has(Tail(Queue), Machines))
  BY <1>1 DEF Turn, Free, Only, Has
<1>3. \A y : Has(Queue, {y})' <=> Has(Tail(Queue), {y})
  BY <1>1 DEF Has
<1>4. \A m : Sent(m)' <=> \E k \in 1 .. Len(Tail(Queue)) : Tail(Queue)[k] = m
  BY <1>1 DEF Sent
<1>5. \A m : Sent(m) <=> msg = m \/ \E k \in 1 .. Len(Tail(Queue)) : Tail(Queue)[k] = m
  BY InHand DEF Sent
<1>6. /\ x \in Machines => Free'
      /\ x \notin Machines => KeptTurn
  BY <1>2, InHand DEF KeptTurn
<1>7. /\ \A y : Has(Queue, {y})' => Has(Queue, {y})
      /\ \A y : y # x /\ Has(Queue, {y}) => Has(Queue, {y})'
  BY <1>3, InHand
<1> QED
  BY <1>4, <1>5, <1>6, <1>7

LEMMA AfterAnswered ==
  ASSUME Ranges, Turns, Queue # <<>>, NEW x, msg.type = x, NEW m \in Messages, Handled(<<m>>),
         m.type \in Machines, x \in Machines \/ Free
  PROVE  /\ \A T : m.type \in T => Turn(T)'
         /\ \A y : Has(Queue, {y})' => Has(Queue, {y}) \/ y = m.type
         /\ Has(Queue, {m.type})'
         /\ \A n : Sent(n)' => Sent(n) \/ n = m
<1>1. Queue' = Append(Tail(Queue), m) /\ Tail(Queue) \in Seq(Messages)
  BY Takes DEF Ranges, Handled
<1>2. ~Has(Tail(Queue), Machines)
  BY InHand
<1>3. \A T : m.type \in T => Only(Append(Tail(Queue), m), T)
  <2>1. \A T : ~Has(Tail(Queue), Machines) /\ m.type \in T \cap Machines => Only(Append(Tail(Queue), m), T)
    BY <1>1, Added
  <2> QED
    BY <1>2, <2>1
<1>4. \A T : Has(Append(Tail(Queue), m), T) <=> Has(Tail(Queue), T) \/ m.type \in T
  BY <1>1, Added
<1>5. \A n : (\E k \in 1 .. Len(Append(Tail(Queue), m)) : Append(Tail(Queue), m)[k] = n) <=>
                 (\E k \in 1 .. Len(Tail(Queue)) : Tail(Queue)[k] = n) \/ m = n
  BY <1>1, Added
<1>6. \A T : Turn(T)' <=> Only(Append(Tail(Queue), m), T)
  BY <1>1 DEF Turn, Only
<1>7. \A y : Has(Queue, {y})' <=> Has(Append(Tail(Queue), m), {y})
  BY <1>1 DEF Has
<1>8. \A n : Sent(n)' <=> \E k \in 1 .. Len(Append(Tail(Queue), m)) : Append(Tail(Queue), m)[k] = n
  BY <1>1 DEF Sent
<1>9. \A y : Has(Tail(Queue), {y}) => Has(Queue, {y})
  BY InHand
<1>10. \A n : (\E k \in 1 .. Len(Tail(Queue)) : Tail(Queue)[k] = n) => Sent(n)
  BY InHand DEF Sent
<1>11. \A y : Has(Queue, {y})' <=> Has(Tail(Queue), {y}) \/ y = m.type
  BY <1>4, <1>7
<1> QED
  BY <1>3, <1>5, <1>6, <1>8, <1>9, <1>10, <1>11

\* The machines stand still, and so does the turn.
LEMMA StandStill ==
  ASSUME KeptTurn, Turns, UNCHANGED <<Cntl, Sync, Auth, Assoc>>
  PROVE  Turns'
<1>1. (Free => Free') /\ (\A T : Turn(T) => Turn(T)')
  BY DEF KeptTurn
<1>2. /\ Scans => Scans'
      /\ Joins => Joins'
      /\ Auths => Auths'
      /\ Assocs => Assocs'
      /\ Leaves => Leaves'
  BY <1>1 DEF Scans, Joins, Auths, Assocs, Leaves
<1> QED
  BY <1>1, <1>2 DEF Turns, Leaving, AtRest

\* No confirm is queued that CNTL does not wait for.
LEMMA NoneStray ==
  ASSUME Ranges, Turns
  PROVE  /\ Sent(Grant) => Cntl = "WAIT_ASSOC" /\ Sync = "IDLE" /\ AtRest
         /\ Has(Queue, {"SCAN_CONF"}) => Cntl = "WAIT_OID_LIST_SCAN" /\ Sync = "IDLE"
<1>1. Sent(Grant) => Has(Queue, {"ASSOC_CONF"})
  BY DEF Sent, Grant, Conf, Has
<1>2. "ASSOC_CONF" \in Machines /\ "SCAN_CONF" \in Machines
  BY DEF Machines
<1> QED
  BY <1>1, <1>2, WhatIsQueued DEF Ranges

LEMMA GrantKept ==
  /\ Granted /\ (Sent(Grant) <=> Sent(Grant)') /\ UNCHANGED <<AuxBssid, link>> => Granted'
  /\ Granted /\ ~Sent(Grant) /\ ~Sent(Grant)' /\ UNCHANGED link => Granted'
BY DEF Granted, link

LEMMA GrantIs == /\ Grant \in Messages /\ Grant.type = "ASSOC_CONF"
                 /\ \A m \in Messages : m.type = "ASSOC_CONF" /\ m.ok => m = Grant
                 /\ \A m : m.type # "ASSOC_CONF" => m # Grant
                 /\ Conf("ASSOC_CONF", FALSE) # Grant
<1>1. Grant \in Messages /\ Grant.type = "ASSOC_CONF"
  BY Sends DEF Grant
<1>2. ASSUME NEW m \in Messages, m.type = "ASSOC_CONF", m.ok PROVE m = Grant
  <2>1. m.ok \in BOOLEAN /\ m = Conf("ASSOC_CONF", m.ok)
    BY <1>2, Carries
  <2>2. m.ok = TRUE
    BY <1>2, <2>1
  <2> QED
    BY <2>1, <2>2 DEF Grant
<1>3. Conf("ASSOC_CONF", FALSE) # Grant
  BY DEF Grant, Conf
<1> QED
  BY <1>1, <1>2, <1>3

LEMMA Calmly == Disturb = {} => \A who : Calm(who)
BY DEF Calm

\* What everybody but the machines leaves as it is.
LEMMA Quietly ==
  ASSUME CalmInv, UNCHANGED <<Cntl, Sync, Auth, Assoc, scan, AuxBssid, link, periodic>>, KeptTurn,
         Has(Queue, {"RESET_CONF"})' => Has(Queue, {"RESET_CONF"}),
         Has(Queue, {"SCAN_CONF"}) => Has(Queue, {"SCAN_CONF"})',
         Sent(Grant) <=> Sent(Grant)'
  PROVE  CalmInv'
<1>1. Turns'
  BY StandStill DEF CalmInv
<1>2. Paused' /\ Undisturbed' /\ Released'
  BY DEF CalmInv, Paused, Undisturbed, Released, scan
<1>3. Granted'
  BY GrantKept DEF CalmInv
<1> QED
  BY <1>1, <1>2, <1>3 DEF CalmInv

LEMMA OutsideCalm ==
  ASSUME Disturb = {}, Ranges, CalmInv, Outside
  PROVE  CalmInv'
<1>1. ASSUME NEW m \in Requests, UserAsks(m) PROVE CalmInv'
  <2>1. Cntl = "IDLE" /\ UNCHANGED <<Queue, Cntl, Sync, Auth, Assoc, AuxBssid, link, periodic, scanning>>
    BY <1>1, Calmly DEF UserAsks, aux
  <2>2. KeptTurn /\ KeptRest
    BY <2>1, AfterNothing
  <2>3. Turns'
    BY <2>1, <2>2, StandStill DEF CalmInv
  <2>4. Paused'
    BY <1>1 DEF UserAsks, CalmInv, Paused
  <2>5. Undisturbed' /\ Released' /\ Granted'
    BY <2>1, <2>2, GrantKept DEF KeptRest, CalmInv, Undisturbed, Released
  <2> QED
    BY <2>3, <2>4, <2>5 DEF CalmInv
<1>2. ASSUME NEW m \in Messages, Queue' = Append(Queue, m), m.type \notin Machines \cup {"RESET_CONF"},
             UNCHANGED <<Cntl, Sync, Auth, Assoc, scan, AuxBssid, link, periodic>>
      PROVE  CalmInv'
  <2>1. KeptTurn
    BY <1>2, AfterAdded
  <2>2. /\ \A y : Has(Queue, {y})' <=> Has(Queue, {y}) \/ m.type = y
        /\ \A x : Sent(x)' <=> Sent(x) \/ m = x
    BY <1>2, AfterAdded
  <2>3. m # Grant
    BY <1>2, GrantIs DEF Machines
  <2> QED
    BY <1>2, <2>1, <2>2, <2>3, Quietly
<1>3. CASE UserRequest
  <2>1. request \in Messages /\ request.type \notin Machines \cup {"RESET_CONF"}
    BY <1>3, Sends DEF UserRequest, Ranges, CallersOK, Requests, Bsss, Machines
  <2> QED
    BY <1>2, <1>3, <2>1 DEF UserRequest, Enqueue, aux
<1>4. CASE MlmeCheckForRoaming \/ MlmeAutoReconnectLastSSID
  <2>1. PICK type \in {"ROAMING_REQ", "OID_SSID"} : Queue' = Append(Queue, Msg(type))
    BY <1>4 DEF MlmeCheckForRoaming, MlmeAutoReconnectLastSSID, Enqueue
  <2>2. Msg(type) \in Messages /\ Msg(type).type \notin Machines \cup {"RESET_CONF"}
    BY <2>1, Sends DEF Machines
  <2> QED
    BY <1>2, <1>4, <2>1, <2>2 DEF MlmeCheckForRoaming, MlmeAutoReconnectLastSSID, aux, callers
<1>5. CASE PeriodicScan \/ ResumeScan
  <2> DEFINE m == Msg("SCAN_REQ")
  <2>1. m \in Messages /\ m.type = "SCAN_REQ" /\ m.type \in Machines
    BY Sends DEF Machines
  <2>2. /\ Queue' = Append(Queue, m)
        /\ UNCHANGED <<Sync, Auth, Assoc, scan, AuxBssid, link>> /\ periodic' = "idle"
    BY <1>5 DEF PeriodicScan, ResumeScan, Enqueue, aux, callers, CalmInv, Undisturbed
  <2> HIDE DEF m
  <2>3. Cntl' = "WAIT_OID_LIST_SCAN" /\ Sync \in {"IDLE", "SCAN_PENDING"} /\ AtRest /\ Free /\ Cntl # "WAIT_ASSOC"
    <3>1. CASE PeriodicScan
      BY <3>1, Calmly DEF PeriodicScan, CalmInv, Turns
    <3>2. CASE ResumeScan
      <4>1. Sync = "SCAN_PENDING" /\ UNCHANGED Cntl /\ ~SentType("SCAN_REQ")
        BY <3>2, Calmly DEF ResumeScan
      <4>2. ~Turn({"SCAN_REQ"})
        BY <4>1 DEF Turn, Only, SentType
      <4> QED
        BY <4>1, <4>2, WhoseTurn DEF CalmInv, Ranges
    <3> QED
      BY <1>5, <3>1, <3>2
  <2>4. Turn({"SCAN_REQ"})'
    BY <2>1, <2>2, <2>3, AfterAdded
  <2>5. Turns'
    BY <2>2, <2>3, <2>4 DEF Turns, Scans, AtRest, Leaving
  <2>6. /\ \A y : Has(Queue, {y})' <=> Has(Queue, {y}) \/ m.type = y
        /\ \A x : Sent(x)' <=> Sent(x) \/ m = x
    BY <2>1, <2>2, AfterAdded
  <2>7. m # Grant
    BY <2>1, GrantIs
  <2>8. Paused' /\ Undisturbed' /\ Released'
    BY <2>1, <2>2, <2>6 DEF CalmInv, Paused, Undisturbed, Released, scan
  <2>9. Granted'
    BY <2>2, <2>6, <2>7, GrantKept DEF CalmInv
  <2> QED
    BY <2>5, <2>8, <2>9 DEF CalmInv
<1>6. ~PeriodicTest
  BY Calmly DEF PeriodicTest
<1> QED
  BY <1>1, <1>3, <1>4, <1>5, <1>6 DEF Outside

\* CNTL's handlers find the other machines idle and nothing else of theirs queued.
LEMMA CntlFinds ==
  ASSUME Ranges, CalmInv, CntlMachine
  PROVE  /\ Queue # <<>> /\ msg \in Messages
         /\ UNCHANGED <<Sync, Auth, Assoc, periodic, channels>>
         /\ Sync = "IDLE" /\ AtRest
         /\ msg.type \notin {"SCAN_REQ", "RESET_CONF"}
         /\ msg.type \in Machines \/ Free
         /\ Cntl = "IDLE" <=> msg.type \notin Machines
         /\ Sent(Grant) => msg = Grant
<1>1. UNCHANGED <<Sync, Auth, Assoc, callers, channels>> /\ Queue # <<>>
  BY DEF CntlMachine, CntlFrame, Received, CntlOidSsidProc, CntlOidRTBssidProc, CntlOidScanProc,
        CntlOidDisassociate, CntlMlmeRoamingProc, CntlWaitDisassocProc, CntlWaitOidDisassoc,
        CntlWaitOidListScan, CntlWaitJoinProc, CntlWaitAuthProc, CntlWaitAuthProc2, CntlWaitAssocProc
<1>2. /\ Cntl = "IDLE" => msg.type \in Oids \cup {"ROAMING_REQ"}
      /\ Cntl # "IDLE" => msg.type \in {"DISASSOC_CONF", "SCAN_CONF", "JOIN_CONF", "AUTH_CONF", "ASSOC_CONF"}
  BY DEF CntlMachine, Received, msg, Oids, CntlOidSsidProc, CntlOidRTBssidProc, CntlOidScanProc,
        CntlOidDisassociate, CntlMlmeRoamingProc, CntlWaitDisassocProc, CntlWaitOidDisassoc,
        CntlWaitOidListScan, CntlWaitJoinProc, CntlWaitAuthProc, CntlWaitAuthProc2, CntlWaitAssocProc
<1>3. CASE Cntl = "IDLE"
  <2>1. Free /\ Sync = "IDLE" /\ AtRest /\ ~Sent(Grant)
    BY <1>3, NoneStray DEF CalmInv, Turns
  <2> QED
    BY <1>1, <1>2, <1>3, <2>1, Takes, Sends DEF Machines, Oids, callers, Ranges
<1>4. CASE Cntl # "IDLE"
  <2>1. PICK x : x = msg.type
    OBVIOUS
  <2>2. x \in Machines /\ x \notin {"SCAN_REQ", "RESET_CONF"}
    BY <1>2, <1>4, <2>1 DEF Machines
  <2>3. Has(Queue, {x}) /\ ~Has(Tail(Queue), Machines)
    BY <1>1, <2>1, <2>2, InHand DEF CalmInv
  <2>4. Sync = "IDLE" /\ AtRest
    BY <2>2, <2>3, WhatIsQueued DEF CalmInv, Ranges
  <2>5. ASSUME Sent(Grant) PROVE msg = Grant
    <3>1. msg = Grant \/ \E k \in 1 .. Len(Tail(Queue)) : Tail(Queue)[k] = Grant
      BY <1>1, <2>1, <2>5, InHand DEF CalmInv, Sent
    <3>2. ~ \E k \in 1 .. Len(Tail(Queue)) : Tail(Queue)[k] = Grant
      BY <2>3, GrantIs DEF Has, Machines
    <3> QED
      BY <3>1, <3>2
  <2> QED
    BY <1>1, <1>4, <2>1, <2>2, <2>4, <2>5, Takes, Sends DEF callers, Ranges
<1> QED
  BY <1>3, <1>4

\* What CNTL asks, and the state it waits in.
Asks(m) ==
    \/ m.type = "SCAN_REQ" /\ Cntl' = "WAIT_OID_LIST_SCAN"
    \/ m.type = "JOIN_REQ" /\ Cntl' = "WAIT_JOIN"
    \/ m.type = "AUTH_REQ" /\ Cntl' \in {"WAIT_AUTH", "WAIT_AUTH2"}
    \/ m.type = "ASSOC_REQ" /\ Cntl' = "WAIT_ASSOC"
    \/ m.type = "DISASSOC_REQ" /\ Cntl' \in {"WAIT_DISASSOC", "WAIT_OID_DISASSOC"}
Goes == (Consumed /\ Cntl' = "IDLE") \/ \E m \in Messages : Handled(<<m>>) /\ Asks(m)

LEMMA CntlGoes ==
  ASSUME Ranges, CalmInv, CntlMachine
  PROVE  Goes
<1> USE DEF Ranges
<1>1. Queue # <<>> /\ msg \in Messages
  BY CntlFinds
<1>2. /\ Tail(Queue) \o <<>> = Tail(Queue)
      /\ \A m \in Messages : Tail(Queue) \o <<m>> = Append(Tail(Queue), m)
  BY <1>1, Takes
<1>3. StartScan => Goes
  BY Sends DEF StartScan, Goes, Asks
<1>4. \A state \in {"WAIT_DISASSOC", "WAIT_OID_DISASSOC"} : Leave(state) => Goes
  BY Sends DEF Leave, Goes, Asks, LinkOK
<1>5. ASSUME NEW idx \in Nrs, NEW nr \in Nrs, Iterate(idx, nr) PROVE Goes
  <2>1. CASE idx < nr
    <3>1. JoinReq(idx) \in Messages /\ JoinReq(idx).type = "JOIN_REQ"
      BY <2>1, Counted, Sends
    <3>2. Handled(<<JoinReq(idx)>>) /\ Cntl' = "WAIT_JOIN"
      BY <1>2, <1>5, <2>1, <3>1 DEF Iterate, IterateOnBssTab, Handled
    <3> QED
      BY <3>1, <3>2 DEF Goes, Asks
  <2>2. CASE ~(idx < nr)
    BY <1>2, <1>5, <2>2 DEF Iterate, IterateOnBssTab, Consumed, Handled, Goes
  <2> QED
    BY <2>1, <2>2
<1>6. TryNextBss => Goes
  BY <1>5, Counted DEF TryNextBss, TableOK
<1>7. CASE CntlOidSsidProc
  <2>1. PICK nr \in 0 .. Cardinality(BSS) :
            \/ Consumed /\ UNCHANGED Cntl
            \/ Leave("WAIT_DISASSOC") \/ StartScan \/ Iterate(0, nr)
    BY <1>7, Zenon DEF CntlOidSsidProc
  <2>2. Consumed /\ UNCHANGED Cntl => Goes
    BY <1>7 DEF CntlOidSsidProc, Goes
  <2> QED
    BY <1>3, <1>4, <1>5, <2>1, <2>2, Counted DEF Nrs
<1>8. CASE CntlOidRTBssidProc
  <2>1. JoinReq(0) \in Messages /\ JoinReq(0).type = "JOIN_REQ"
    BY Sends, Counted
  <2>2. Handled(<<JoinReq(0)>>) /\ Cntl' = "WAIT_JOIN" => Goes
    BY <2>1 DEF Goes, Asks
  <2>3. StartScan \/ Leave("WAIT_DISASSOC") \/ (Handled(<<JoinReq(0)>>) /\ Cntl' = "WAIT_JOIN")
    BY <1>8 DEF CntlOidRTBssidProc
  <2> QED
    BY <1>3, <1>4, <2>2, <2>3
<1>9. CASE CntlOidScanProc \/ CntlOidDisassociate
  BY <1>3, <1>4, <1>9 DEF CntlOidScanProc, CntlOidDisassociate
<1>10. CASE CntlMlmeRoamingProc
  <2>1. PICK nr \in 0 .. Cardinality(BSS \ {Bssid}) : Iterate(0, nr)
    BY <1>10 DEF CntlMlmeRoamingProc
  <2>2. PICK c \in Nrs : c = Cardinality(BSS \ {Bssid})
    BY Counted
  <2>3. nr \in 0 .. c
    BY <2>1, <2>2, Zenon
  <2>4. nr \in Nrs /\ 0 \in Nrs
    BY <2>2, <2>3, Counted DEF Nrs
  <2> QED
    BY <1>5, <2>1, <2>4
<1>11. CASE CntlWaitDisassocProc \/ CntlWaitOidDisassoc \/ CntlWaitOidListScan
  BY <1>5, <1>11, Counted DEF CntlWaitDisassocProc, CntlWaitOidDisassoc, CntlWaitOidListScan, Goes, TableOK
<1>12. CASE CntlWaitJoinProc \/ CntlWaitAuthProc \/ CntlWaitAuthProc2
  <2>1. FirstAlg \in Algs /\ "OPEN" \in Algs /\ AuxBssid \in Bsss
    BY DEF FirstAlg, Algs, AuxOK
  <2>2. \A alg \in Algs, state \in {"WAIT_AUTH", "WAIT_AUTH2"} : Ask(AuthReq(AuxBssid, alg), state) => Goes
    BY <2>1, Sends DEF Ask, Goes, Asks
  <2>3. Ask(From("ASSOC_REQ", AuxBssid), "WAIT_ASSOC") => Goes
    BY <2>1, Sends DEF Ask, Goes, Asks
  <2> QED
    BY <1>6, <1>12, <2>1, <2>2, <2>3 DEF CntlWaitJoinProc, CntlWaitAuthProc, CntlWaitAuthProc2
<1>13. CASE CntlWaitAssocProc
  BY <1>6, <1>13 DEF CntlWaitAssocProc, Goes
<1> QED
  BY <1>7, <1>8, <1>9, <1>10, <1>11, <1>12, <1>13 DEF CntlMachine

LEMMA CntlCalm ==
  ASSUME Ranges, CalmInv, CntlMachine
  PROVE  CalmInv'
<1>1. /\ Queue # <<>> /\ UNCHANGED <<Sync, Auth, Assoc, periodic, channels>> /\ Sync = "IDLE" /\ AtRest
      /\ msg.type \notin {"SCAN_REQ", "RESET_CONF"} /\ (msg.type \in Machines \/ Free)
  BY CntlFinds
<1>2. Turns /\ Granted /\ Undisturbed
  BY DEF CalmInv
\* Nothing is left queued but what CNTL asks.
<1>3. Turns' /\ ~Sent(Grant)' /\ (Has(Queue, {"RESET_CONF"})' => Has(Queue, {"RESET_CONF"}))
  <2>1. CASE Consumed /\ Cntl' = "IDLE"
    <3>1. Free' /\ (Has(Queue, {"RESET_CONF"})' => Has(Queue, {"RESET_CONF"}))
      BY <1>1, <1>2, <2>1, AfterTaken DEF KeptTurn
    <3>2. Turns'
      BY <1>1, <2>1, <3>1 DEF Turns, AtRest, Leaving
    <3>3. ~Sent(Grant)'
      BY <3>1, GrantIs DEF Free, Has, Sent, Machines
    <3> QED
      BY <3>1, <3>2, <3>3
  <2>2. CASE \E m \in Messages : Handled(<<m>>) /\ Asks(m)
    <3>1. PICK m \in Messages : Handled(<<m>>) /\ Asks(m)
      BY <2>2
    <3>2. m.type \in Machines /\ m.type # "ASSOC_CONF" /\ m.type # "RESET_CONF"
      BY <3>1 DEF Asks, Machines
    <3>3. /\ \A T : m.type \in T => Turn(T)'
          /\ \A y : Has(Queue, {y})' => Has(Queue, {y}) \/ y = m.type
      BY <1>1, <1>2, <3>1, <3>2, AfterAnswered
    <3>4. Turns'
      BY <1>1, <3>1, <3>3 DEF Asks, Turns, Scans, Joins, Auths, Assocs, Leaves, AtRest, Leaving
    <3>5. ~Has(Queue, {"ASSOC_CONF"})'
      <4>1. Only(Queue', {m.type})
        BY <3>3 DEF Turn
      <4>2. ~Has(Queue', {"ASSOC_CONF"})
        BY <3>2, <4>1, OneOf DEF Machines
      <4> QED
        BY <4>2 DEF Has
    <3>6. ~Sent(Grant)'
      BY <3>5, GrantIs DEF Has, Sent
    <3> QED
      BY <3>2, <3>3, <3>4, <3>6
  <2> QED
    BY <2>1, <2>2, CntlGoes DEF Goes
<1>4. Paused' /\ Undisturbed'
  BY <1>1, <1>2, <1>3 DEF Paused, Undisturbed
\* The end of the scan lets data through; nobody else finds it held.
<1>5. Released'
  <2>1. CASE CntlWaitOidListScan
    BY <2>1 DEF CntlWaitOidListScan, ReleaseData, Released
  <2>2. CASE ~CntlWaitOidListScan
    <3>1. msg.type \in Machines => msg.type # "SCAN_CONF"
      BY <2>2 DEF CntlMachine, Received, msg, Machines, CntlOidSsidProc, CntlOidRTBssidProc, CntlOidScanProc,
        CntlOidDisassociate, CntlMlmeRoamingProc, CntlWaitDisassocProc, CntlWaitOidDisassoc,
        CntlWaitOidListScan, CntlWaitJoinProc, CntlWaitAuthProc, CntlWaitAuthProc2, CntlWaitAssocProc
    <3>2. Cntl # "WAIT_OID_LIST_SCAN"
      BY <2>2 DEF CntlMachine, CntlOidSsidProc, CntlOidRTBssidProc, CntlOidScanProc,
        CntlOidDisassociate, CntlMlmeRoamingProc, CntlWaitDisassocProc, CntlWaitOidDisassoc,
        CntlWaitJoinProc, CntlWaitAuthProc, CntlWaitAuthProc2, CntlWaitAssocProc
    <3>3. ~scanning
      BY <1>1, <1>2, <3>2, NoneStray DEF CalmInv, Released
    <3>4. scanning' => scanning
      BY <2>2 DEF CntlMachine, NoLinkChange, LinkDown, LinkUp, CntlOidSsidProc, CntlOidRTBssidProc,
        CntlOidScanProc, CntlOidDisassociate, CntlMlmeRoamingProc, CntlWaitDisassocProc, CntlWaitOidDisassoc,
        CntlWaitJoinProc, CntlWaitAuthProc, CntlWaitAuthProc2, CntlWaitAssocProc
    <3> QED
      BY <3>3, <3>4 DEF Released
  <2> QED
    BY <2>1, <2>2
\* A link comes up on the grant in hand, which is the MAC table's entry.
<1>6. Granted'
  <2>1. CASE CntlWaitAssocProc /\ msg.ok
    <3>1. msg = Grant
      BY <2>1, CntlFinds, GrantIs DEF CntlWaitAssocProc, Received, msg
    <3>2. Sent(Grant)
      BY <1>1, <1>2, <3>1, InHand DEF Sent
    <3>3. Bssid' = AuxBssid /\ Wcid' = Wcid
      BY <2>1 DEF CntlWaitAssocProc, LinkUp
    <3> QED
      BY <1>2, <1>3, <3>2, <3>3 DEF Granted
  <2>2. CASE ~(CntlWaitAssocProc /\ msg.ok)
    <3>1. ~Sent(Grant)
      <4>1. SUFFICES ASSUME Sent(Grant) PROVE FALSE
        OBVIOUS
      <4>2. msg = Grant /\ Cntl = "WAIT_ASSOC"
        BY <1>2, <4>1, CntlFinds, NoneStray
      <4>3. CntlWaitAssocProc
        BY <4>2 DEF CntlMachine, CntlOidSsidProc, CntlOidRTBssidProc, CntlOidScanProc,
          CntlOidDisassociate, CntlMlmeRoamingProc, CntlWaitDisassocProc, CntlWaitOidDisassoc,
          CntlWaitOidListScan, CntlWaitJoinProc, CntlWaitAuthProc, CntlWaitAuthProc2
      <4>4. msg.ok
        BY <4>2 DEF Grant, Conf
      <4> QED
        BY <2>2, <4>3, <4>4
    <3>2. LinkDown \/ UNCHANGED link
      BY <2>2 DEF CntlMachine, NoLinkChange, CntlOidSsidProc, CntlOidRTBssidProc, CntlOidScanProc,
        CntlOidDisassociate, CntlMlmeRoamingProc, CntlWaitDisassocProc, CntlWaitOidDisassoc,
        CntlWaitOidListScan, CntlWaitJoinProc, CntlWaitAuthProc, CntlWaitAuthProc2, CntlWaitAssocProc
    <3> QED
      BY <1>2, <1>3, <3>1, <3>2, GrantKept DEF LinkDown, Granted
  <2> QED
    BY <2>1, <2>2
<1> QED
  BY <1>3, <1>4, <1>5, <1>6 DEF CalmInv

\* SYNC, AUTH and ASSOC find their request when CNTL waits for them, and nothing
\* else of the machines.
LEMMA OthersCalm ==
  ASSUME Ranges, CalmInv, OtherMachines
  PROVE  CalmInv'
<1>1. Queue # <<>> /\ UNCHANGED <<Cntl, link, callers>>
  BY DEF OtherMachines, Received, SyncFrame, AuthFrame, AssocFrame, OnlyAssoc, MlmeScanReqAction,
       MlmeJoinReqAction, MlmeAuthReqAction, InvalidStateWhenAuth, MlmeAssocReqAction,
       MlmeDisassocReqAction, InvalidStateWhenAssoc, InvalidStateWhenDisassociate
<1>2. Turns /\ Granted /\ Undisturbed /\ Paused /\ Released /\ StatesOK
  BY DEF CalmInv, Ranges
<1>3. PICK x : x = msg.type
  OBVIOUS
<1>4. x \in {"SCAN_REQ", "JOIN_REQ", "AUTH_REQ", "ASSOC_REQ", "DISASSOC_REQ"}
  BY <1>3 DEF OtherMachines, Received, msg, MlmeScanReqAction, MlmeJoinReqAction, MlmeAuthReqAction,
       InvalidStateWhenAuth, MlmeAssocReqAction, MlmeDisassocReqAction, InvalidStateWhenAssoc,
       InvalidStateWhenDisassociate
<1>5. x \in Machines /\ Has(Queue, {x})
  BY <1>1, <1>2, <1>3, <1>4, InHand DEF Machines
<1>6. /\ ~Free /\ AtRest
      /\ x = "SCAN_REQ" => Cntl = "WAIT_OID_LIST_SCAN" /\ Sync \in {"IDLE", "SCAN_PENDING"}
      /\ x # "SCAN_REQ" => Sync = "IDLE"
      /\ x = "JOIN_REQ" => Cntl = "WAIT_JOIN"
      /\ x = "AUTH_REQ" => Cntl \in {"WAIT_AUTH", "WAIT_AUTH2"}
      /\ x = "ASSOC_REQ" => Cntl = "WAIT_ASSOC"
      /\ x = "DISASSOC_REQ" => Leaving
  BY <1>2, <1>4, <1>5, WhatIsQueued
\* There is no other confirm: the message in hand is the only one.
<1>7. ~Sent(Grant) /\ ~Has(Queue, {"SCAN_CONF"})
  <2>1. ~Has(Tail(Queue), Machines)
    BY <1>1, <1>2, <1>3, <1>5, InHand
  <2>2. /\ Sent(Grant) => msg = Grant \/ Has(Tail(Queue), {"ASSOC_CONF"})
        /\ Has(Queue, {"SCAN_CONF"}) => x = "SCAN_CONF" \/ Has(Tail(Queue), {"SCAN_CONF"})
    BY <1>1, <1>2, <1>3, InHand, GrantIs DEF Sent, Has
  <2>3. msg # Grant
    BY <1>3, <1>4, GrantIs
  <2> QED
    BY <1>4, <2>1, <2>2, <2>3, Some DEF Machines
<1>8. Consumed => Free' /\ ~Sent(Grant)' /\ Undisturbed'
  <2> SUFFICES ASSUME Consumed PROVE Free' /\ ~Sent(Grant)' /\ Undisturbed'
    OBVIOUS
  <2>1. /\ Free' /\ (Sent(Grant)' => Sent(Grant))
        /\ Has(Queue, {"RESET_CONF"})' => Has(Queue, {"RESET_CONF"})
    BY <1>1, <1>2, <1>3, <1>5, AfterTaken
  <2> QED
    BY <1>1, <1>2, <1>7, <2>1 DEF Undisturbed, callers
<1>9. CASE MlmeScanReqAction
  <2>1. /\ UNCHANGED <<Auth, Assoc, AuxBssid, late>>
        /\ ScanNextChannel(Tail(Queue), Channel', armed \ {"Beacon", "Scan"}, TRUE)
        /\ x = "SCAN_REQ"
    BY <1>3, <1>9, Zenon DEF MlmeScanReqAction, SyncFrame, Received, msg
  <2>2. /\ Tail(Queue) \o <<>> = Tail(Queue) /\ Msg("SCAN_CONF") \in Messages
        /\ Msg("SCAN_CONF").type = "SCAN_CONF"
        /\ Tail(Queue) \o <<Msg("SCAN_CONF")>> = Append(Tail(Queue), Msg("SCAN_CONF"))
    BY <1>1, Takes, Sends DEF Ranges
  <2>3. CASE /\ Queue' = Tail(Queue)
             /\ \/ Sync' = "SCAN_LISTEN"
                \/ Sync' = "SCAN_PENDING" /\ bImprovedScan' /\ ~scanning'
    <3>1. Free' /\ ~Sent(Grant)' /\ Undisturbed'
      BY <1>8, <2>1, <2>2, <2>3 DEF Consumed, Handled
    <3>2. Turns'
      BY <1>1, <1>6, <2>1, <2>3, <3>1 DEF Turns, Scans, AtRest, Leaving
    <3>3. Paused' /\ Released' /\ Granted'
      BY <1>1, <1>2, <1>7, <2>3, <3>1, GrantKept DEF Paused, Released
    <3> QED
      BY <3>1, <3>2, <3>3 DEF CalmInv
  <2>4. CASE Queue' = Append(Tail(Queue), Msg("SCAN_CONF")) /\ Sync' = "IDLE"
    <3>1. Handled(<<Msg("SCAN_CONF")>>)
      BY <2>1, <2>2, <2>4 DEF Handled
    <3>2. /\ \A T : "SCAN_CONF" \in T => Turn(T)'
          /\ Has(Queue, {"SCAN_CONF"})'
          /\ \A y : Has(Queue, {y})' => Has(Queue, {y}) \/ y = "SCAN_CONF"
          /\ \A n : Sent(n)' => Sent(n) \/ n = Msg("SCAN_CONF")
      <4>1. PICK m \in Messages : m = Msg("SCAN_CONF")
        BY <2>2
      <4>2. m.type = "SCAN_CONF" /\ m.type \in Machines /\ Handled(<<m>>)
        BY <2>2, <3>1, <4>1 DEF Machines
      <4>3. /\ \A T : m.type \in T => Turn(T)'
            /\ \A y : Has(Queue, {y})' => Has(Queue, {y}) \/ y = m.type
            /\ Has(Queue, {m.type})'
            /\ \A n : Sent(n)' => Sent(n) \/ n = m
        BY <1>1, <1>2, <1>3, <1>5, <4>2, AfterAnswered
      <4> QED
        BY <4>1, <4>2, <4>3
    <3>3. Turns'
      BY <1>1, <1>6, <2>1, <2>4, <3>2 DEF Turns, Scans, AtRest, Leaving
    <3>4. ~Sent(Grant)'
      BY <1>7, <2>2, <3>2, GrantIs
    <3>5. Paused' /\ Released' /\ Granted' /\ Undisturbed'
      BY <1>1, <1>2, <1>7, <2>4, <3>2, <3>4, GrantKept DEF Paused, Released, Undisturbed, callers
    <3> QED
      BY <3>3, <3>5 DEF CalmInv
  <2> QED
    BY <2>1, <2>3, <2>4 DEF ScanNextChannel
<1>10. CASE MlmeJoinReqAction
  <2>1. UNCHANGED <<Auth, Assoc, scanning>> /\ Sync' = "JOIN_WAIT_BEACON" /\ x = "JOIN_REQ" /\ Consumed
    BY <1>3, <1>10 DEF MlmeJoinReqAction, SyncFrame, Received, msg, scan, Consumed, Handled
  <2>2. Turns'
    BY <1>1, <1>6, <1>8, <2>1 DEF Turns, Joins, AtRest, Leaving
  <2>3. Paused' /\ Released' /\ Granted'
    BY <1>1, <1>2, <1>6, <1>7, <1>8, <2>1, GrantKept DEF Paused, Released
  <2> QED
    BY <1>8, <2>1, <2>2, <2>3 DEF CalmInv
<1>11. CASE MlmeAuthReqAction
  <2>1. UNCHANGED <<Sync, Assoc, scanning>> /\ Auth' = "WAIT_SEQ2" /\ x = "AUTH_REQ" /\ Consumed
    BY <1>3, <1>11 DEF MlmeAuthReqAction, AuthFrame, Received, msg, scan, Consumed, Handled
  <2>2. Turns'
    BY <1>1, <1>6, <1>8, <2>1 DEF Turns, Auths, AtRest, Leaving
  <2>3. Paused' /\ Released' /\ Granted'
    BY <1>1, <1>2, <1>6, <1>7, <1>8, <2>1, GrantKept DEF Paused, Released
  <2> QED
    BY <1>8, <2>1, <2>2, <2>3 DEF CalmInv
<1>12. CASE MlmeAssocReqAction \/ MlmeDisassocReqAction
  <2>1. /\ UNCHANGED <<Sync, Auth, scanning>> /\ Consumed
        /\ \/ x = "ASSOC_REQ" /\ Assoc' = "WAIT_RSP"
           \/ x = "DISASSOC_REQ" /\ Assoc' = "DISASSOC_WAIT_RSP"
    BY <1>3, <1>12 DEF MlmeAssocReqAction, MlmeDisassocReqAction, OnlyAssoc, AssocFrame, Received, msg,
                       Consumed, Handled
  <2>2. Turns'
    BY <1>1, <1>6, <1>8, <2>1 DEF Turns, Assocs, Leaves, AtRest, Leaving
  <2>3. Paused' /\ Released' /\ Granted'
    BY <1>1, <1>2, <1>4, <1>6, <1>7, <1>8, <2>1, GrantKept DEF Paused, Released
  <2> QED
    BY <1>8, <2>1, <2>2, <2>3 DEF CalmInv
<1>13. ~InvalidStateWhenAuth /\ ~InvalidStateWhenAssoc /\ ~InvalidStateWhenDisassociate
  BY <1>6 DEF InvalidStateWhenAuth, InvalidStateWhenAssoc, InvalidStateWhenDisassociate, AtRest
<1> QED
  BY <1>9, <1>10, <1>11, <1>12, <1>13 DEF OtherMachines

\* Drop takes nothing of the machines': whoever it is for takes it.
LEMMA DropCalm ==
  ASSUME Ranges, CalmInv, Drop
  PROVE  CalmInv'
<1>1. /\ Queue # <<>> /\ msg.type \notin Taken /\ Consumed
      /\ UNCHANGED <<Cntl, Sync, Auth, Assoc, scan, AuxBssid, link, periodic>>
  BY DEF Drop, Consumed, Handled, aux, callers
<1>2. PICK x : x = msg.type
  OBVIOUS
<1>3. Turns /\ StatesOK
  BY DEF CalmInv, Ranges
<1>4. x \notin Machines
  <2> SUFFICES ASSUME x \in Machines PROVE FALSE
    OBVIOUS
  <2>1. Has(Queue, {x})
    BY <1>1, <1>2, <1>3, InHand
  <2>2. x \notin CntlTakes[Cntl] \cup SyncTakes[Sync] \cup {"AUTH_REQ", "ASSOC_REQ", "DISASSOC_REQ"}
    BY <1>1, <1>2 DEF Taken
  <2>3. x \in {"SCAN_REQ", "JOIN_REQ"} => Sync \in {"IDLE", "SCAN_PENDING"} /\ (x = "JOIN_REQ" => Sync = "IDLE")
    BY <1>3, <2>1, WhatIsQueued
  <2>4. x \notin {"SCAN_REQ", "JOIN_REQ"}
    BY <2>2, <2>3 DEF SyncTakes
  <2>5. /\ x = "SCAN_CONF" => Cntl = "WAIT_OID_LIST_SCAN"
        /\ x = "JOIN_CONF" => Cntl = "WAIT_JOIN"
        /\ x = "AUTH_CONF" => Cntl \in {"WAIT_AUTH", "WAIT_AUTH2"}
        /\ x = "ASSOC_CONF" => Cntl = "WAIT_ASSOC"
        /\ x = "DISASSOC_CONF" => Leaving
    BY <1>3, <2>1, WhatIsQueued
  <2>6. x \notin {"SCAN_CONF", "JOIN_CONF", "AUTH_CONF", "ASSOC_CONF", "DISASSOC_CONF"}
    BY <2>2, <2>5 DEF CntlTakes, Leaving
  <2> QED
    BY <2>2, <2>4, <2>6 DEF Machines
<1>5. /\ KeptTurn
      /\ Has(Queue, {"RESET_CONF"})' => Has(Queue, {"RESET_CONF"})
      /\ Has(Queue, {"SCAN_CONF"}) => Has(Queue, {"SCAN_CONF"})'
      /\ Sent(Grant)' => Sent(Grant)
      /\ Grant # msg => (Sent(Grant) => Sent(Grant)')
  <2>1. "SCAN_CONF" # x
    BY <1>4 DEF Machines
  <2> QED
    BY <1>1, <1>2, <1>3, <1>4, <2>1, AfterTaken
<1>6. Grant # msg
  BY <1>2, <1>4, GrantIs DEF Machines
<1> QED
  BY <1>1, <1>5, <1>6, Quietly

LEMMA TimeoutCalm ==
  ASSUME Ranges, CalmInv, Timeout
  PROVE  CalmInv'
<1>1. Turns /\ Granted /\ Undisturbed /\ Paused /\ Released /\ StatesOK
  BY DEF CalmInv, Ranges
<1>2. ASSUME NEW t \in Timers, DropTimeout(t) PROVE CalmInv'
  <2>1. UNCHANGED <<Queue, Cntl, Sync, Auth, Assoc, scan, AuxBssid, link, periodic>>
    BY <1>2 DEF DropTimeout, aux, callers
  <2> QED
    BY <2>1, AfterNothing, Quietly DEF KeptRest
\* A confirm replied when nothing of the machines is queued.
<1>3. ASSUME NEW m \in Messages, Reply(<<m>>) \/ Queue' = Append(Queue, m), Free, m.type \in Machines,
             m # Grant
      PROVE  /\ \A T : m.type \in T => Turn(T)'
             /\ Has(Queue, {"RESET_CONF"})' => Has(Queue, {"RESET_CONF"})
             /\ Has(Queue, {m.type})'
             /\ Sent(Grant) <=> Sent(Grant)'
  <2>1. m.type # "RESET_CONF"
    BY <1>3 DEF Machines
  <2>2. /\ \A T : Free /\ m.type \in T /\ m.type \in Machines => Turn(T)'
        /\ \A y : Has(Queue, {y})' <=> Has(Queue, {y}) \/ m.type = y
        /\ \A x : Sent(x)' <=> Sent(x) \/ m = x
    BY <1>3, AfterAdded
  <2> QED
    BY <1>3, <2>1, <2>2
<1>4. CASE ScanTimeoutAction
  <2>1. /\ UNCHANGED <<Cntl, Auth, Assoc, AuxBssid, link, periodic>>
        /\ ScanNextChannel(Queue, Channel', armed, scanning)
    BY <1>4, Zenon DEF ScanTimeoutAction, SyncFrame, callers
  <2>2. Cntl = "WAIT_OID_LIST_SCAN" /\ Free /\ AtRest
    BY <1>1, <1>4, WhoseTurn DEF ScanTimeoutAction
  <2>3. CASE /\ UNCHANGED Queue
             /\ \/ Sync' = "SCAN_LISTEN"
                \/ Sync' = "SCAN_PENDING" /\ bImprovedScan' /\ ~scanning'
    <3>1. KeptTurn /\ KeptRest
      BY <2>3, AfterNothing
    <3>2. Turns'
      BY <2>1, <2>2, <2>3, <3>1 DEF KeptTurn, Turns, Scans, AtRest, Leaving
    <3>3. Paused' /\ Released' /\ Undisturbed' /\ Granted'
      BY <1>1, <2>1, <2>3, <3>1, GrantKept DEF KeptRest, Paused, Released, Undisturbed
    <3> QED
      BY <3>2, <3>3 DEF CalmInv
  <2>4. CASE Queue' = Append(Queue, Msg("SCAN_CONF")) /\ Sync' = "IDLE"
    <3>1. PICK m \in Messages : m = Msg("SCAN_CONF") /\ m.type = "SCAN_CONF"
      BY Sends
    <3>2. m # Grant /\ m.type \in Machines
      BY <3>1, GrantIs DEF Machines
    <3>3. /\ \A T : m.type \in T => Turn(T)'
          /\ Has(Queue, {"RESET_CONF"})' => Has(Queue, {"RESET_CONF"})
          /\ Has(Queue, {m.type})'
          /\ Sent(Grant) <=> Sent(Grant)'
      BY <1>3, <2>2, <2>4, <3>1, <3>2
    <3>4. Turns'
      BY <2>1, <2>2, <2>4, <3>1, <3>3 DEF Turns, Scans, AtRest, Leaving
    <3>5. Paused' /\ Released' /\ Undisturbed' /\ Granted'
      BY <1>1, <2>1, <2>4, <3>1, <3>3, GrantKept DEF Paused, Released, Undisturbed
    <3> QED
      BY <3>4, <3>5 DEF CalmInv
  <2> QED
    BY <2>1, <2>3, <2>4 DEF ScanNextChannel
<1>5. CASE BeaconTimeoutAtJoinAction
  <2>1. /\ UNCHANGED <<Cntl, Auth, Assoc, AuxBssid, link, periodic, scan>> /\ Sync' = "IDLE"
        /\ Reply(<<Conf("JOIN_CONF", FALSE)>>) /\ Sync = "JOIN_WAIT_BEACON"
    BY <1>5 DEF BeaconTimeoutAtJoinAction, SyncFrame, callers
  <2>2. Cntl = "WAIT_JOIN" /\ Free /\ AtRest
    BY <1>1, <2>1, WhoseTurn
  <2>3. PICK m \in Messages : m = Conf("JOIN_CONF", FALSE) /\ m.type = "JOIN_CONF"
    BY Sends
  <2>4. m # Grant /\ m.type \in Machines
    BY <2>3, GrantIs DEF Machines
  <2>5. /\ \A T : m.type \in T => Turn(T)'
        /\ Has(Queue, {"RESET_CONF"})' => Has(Queue, {"RESET_CONF"})
        /\ Sent(Grant) <=> Sent(Grant)'
    BY <1>3, <2>1, <2>2, <2>3, <2>4
  <2>6. Turns'
    BY <2>1, <2>2, <2>3, <2>5 DEF Turns, Joins, AtRest, Leaving
  <2>7. ~scanning
    BY <1>1, <2>1, <2>2, NoneStray DEF Released
  <2>8. Paused' /\ Released' /\ Undisturbed' /\ Granted'
    BY <1>1, <2>1, <2>5, <2>7, GrantKept DEF Paused, Released, Undisturbed, scan
  <2> QED
    BY <2>6, <2>8 DEF CalmInv
<1>6. CASE AuthTimeoutAction
  <2>1. /\ UNCHANGED <<Cntl, Sync, Assoc, AuxBssid, link, periodic, scan>> /\ Auth' = "IDLE"
        /\ Reply(<<Conf("AUTH_CONF", FALSE)>>) /\ Auth # "IDLE"
    BY <1>6 DEF AuthTimeoutAction, AuthConf, AuthFrame, aux, callers
  <2>2. Cntl \in {"WAIT_AUTH", "WAIT_AUTH2"} /\ Free /\ Sync = "IDLE" /\ Assoc = "IDLE"
    BY <1>1, <2>1, WhoseTurn
  <2>3. PICK m \in Messages : m = Conf("AUTH_CONF", FALSE) /\ m.type = "AUTH_CONF"
    BY Sends
  <2>4. m # Grant /\ m.type \in Machines
    BY <2>3, GrantIs DEF Machines
  <2>5. /\ \A T : m.type \in T => Turn(T)'
        /\ Has(Queue, {"RESET_CONF"})' => Has(Queue, {"RESET_CONF"})
        /\ Sent(Grant) <=> Sent(Grant)'
    BY <1>3, <2>1, <2>2, <2>3, <2>4
  <2>6. Turns'
    BY <2>1, <2>2, <2>3, <2>5 DEF Turns, Auths, AtRest, Leaving
  <2>7. ~scanning
    BY <1>1, <2>1, <2>2, NoneStray DEF Released, Ranges, CalmInv
  <2>8. Paused' /\ Released' /\ Undisturbed' /\ Granted'
    BY <1>1, <2>1, <2>5, <2>7, GrantKept DEF Paused, Released, Undisturbed, scan
  <2> QED
    BY <2>6, <2>8 DEF CalmInv
<1>7. CASE AssocTimeoutAction \/ DisassocTimeoutAction
  <2>1. /\ UNCHANGED <<Cntl, Sync, Auth, AuxBssid, link, periodic, bImprovedScan, scanning>> /\ Assoc' = "IDLE"
        /\ \/ Reply(<<Conf("ASSOC_CONF", FALSE)>>) /\ Assoc = "WAIT_RSP"
           \/ Reply(<<Conf("DISASSOC_CONF", TRUE)>>) /\ Assoc = "DISASSOC_WAIT_RSP"
    BY <1>7 DEF AssocTimeoutAction, DisassocTimeoutAction, OnlyAssoc, AssocFrame, callers
  <2>2. /\ Free /\ Sync = "IDLE" /\ Auth = "IDLE"
        /\ Assoc = "WAIT_RSP" => Cntl = "WAIT_ASSOC"
        /\ Assoc = "DISASSOC_WAIT_RSP" => Leaving
    BY <1>1, <2>1, WhoseTurn
  <2>3. PICK m \in Messages :
           /\ Reply(<<m>>) /\ m # Grant
           /\ \/ m.type = "ASSOC_CONF" /\ Cntl = "WAIT_ASSOC"
              \/ m.type = "DISASSOC_CONF" /\ Leaving
    BY <2>1, <2>2, Sends, GrantIs
  <2>4. m.type \in Machines
    BY <2>3 DEF Machines
  <2>5. /\ \A T : m.type \in T => Turn(T)'
        /\ Has(Queue, {"RESET_CONF"})' => Has(Queue, {"RESET_CONF"})
        /\ Sent(Grant) <=> Sent(Grant)'
    BY <1>3, <2>2, <2>3, <2>4
  <2>6. Turns'
    BY <2>1, <2>2, <2>3, <2>5 DEF Turns, Assocs, Leaves, AtRest, Leaving
  <2>7. Cntl # "WAIT_OID_LIST_SCAN"
    BY <2>3 DEF Leaving
  <2>8. ~scanning
    BY <1>1, <2>2, <2>7, NoneStray DEF Released
  <2>9. Paused' /\ Released' /\ Undisturbed' /\ Granted'
    BY <1>1, <2>1, <2>5, <2>8, GrantKept DEF Paused, Released, Undisturbed
  <2> QED
    BY <2>6, <2>9 DEF CalmInv
<1> QED
  BY <1>2, <1>4, <1>5, <1>6, <1>7 DEF Timeout

LEMMA PeerCalm ==
  ASSUME Disturb = {}, Ranges, CalmInv, PeerFrame
  PROVE  CalmInv'
<1>1. Turns /\ Granted /\ Undisturbed /\ Paused /\ Released /\ StatesOK
  BY DEF CalmInv, Ranges
<1>2. PICK b \in BSS :
        \/ PeerBeaconAtJoinAction(b)
        \/ \E ok \in BOOLEAN, seq \in {2, 4} :
              PeerAuthRspAtSeq2Action(b, seq, ok) \/ PeerAuthRspAtSeq4Action(b, seq, ok)
        \/ \E ok \in BOOLEAN : PeerAssocRspAction(b, ok)
  BY Calmly DEF PeerFrame
\* A confirm replied when nothing of the machines is queued.
<1>3. ASSUME NEW m \in Messages, Reply(<<m>>), Free, m.type \in Machines
      PROVE  /\ \A T : m.type \in T => Turn(T)'
             /\ Has(Queue, {"RESET_CONF"})' => Has(Queue, {"RESET_CONF"})
             /\ Sent(Grant)' <=> Sent(Grant) \/ m = Grant
  <2>1. m.type # "RESET_CONF"
    BY <1>3 DEF Machines
  <2>2. /\ \A T : Free /\ m.type \in T /\ m.type \in Machines => Turn(T)'
        /\ \A y : Has(Queue, {y})' <=> Has(Queue, {y}) \/ m.type = y
        /\ \A x : Sent(x)' <=> Sent(x) \/ m = x
    BY <1>3, AfterAdded
  <2> QED
    BY <1>3, <2>1, <2>2
<1>4. CASE PeerBeaconAtJoinAction(b)
  <2>1. /\ UNCHANGED <<Cntl, Auth, Assoc, AuxBssid, link, periodic, scan>> /\ Sync' = "IDLE"
        /\ Reply(<<Conf("JOIN_CONF", TRUE)>>) /\ Sync = "JOIN_WAIT_BEACON"
    BY <1>4 DEF PeerBeaconAtJoinAction, SyncFrame, callers
  <2>2. Cntl = "WAIT_JOIN" /\ Free /\ AtRest
    BY <1>1, <2>1, WhoseTurn
  <2>3. PICK m \in Messages : m = Conf("JOIN_CONF", TRUE) /\ m.type = "JOIN_CONF"
    BY Sends
  <2>4. m # Grant /\ m.type \in Machines
    BY <2>3, GrantIs DEF Machines
  <2>5. /\ \A T : m.type \in T => Turn(T)'
        /\ Has(Queue, {"RESET_CONF"})' => Has(Queue, {"RESET_CONF"})
        /\ Sent(Grant)' <=> Sent(Grant) \/ m = Grant
    BY <1>3, <2>1, <2>2, <2>3, <2>4
  <2>6. Turns'
    BY <2>1, <2>2, <2>3, <2>5 DEF Turns, Joins, AtRest, Leaving
  <2>7. ~scanning
    BY <1>1, <2>1, <2>2, NoneStray DEF Released
  <2>8. Paused' /\ Released' /\ Undisturbed' /\ Granted'
    BY <1>1, <2>1, <2>4, <2>5, <2>7, GrantKept DEF Paused, Released, Undisturbed, scan
  <2> QED
    BY <2>6, <2>8 DEF CalmInv
<1>5. ASSUME NEW ok \in BOOLEAN, NEW seq \in {2, 4},
             PeerAuthRspAtSeq2Action(b, seq, ok) \/ PeerAuthRspAtSeq4Action(b, seq, ok)
      PROVE  CalmInv'
  <2>1. /\ UNCHANGED <<Cntl, Sync, Assoc, AuxBssid, link, periodic, scan>> /\ Auth # "IDLE"
        /\ \/ Auth' = "WAIT_SEQ4" /\ UNCHANGED Queue
           \/ Auth' = "IDLE" /\ Reply(<<Conf("AUTH_CONF", ok)>>)
    BY <1>5 DEF PeerAuthRspAtSeq2Action, PeerAuthRspAtSeq4Action, AuthConf, ChallengeTimed, AuthFrame,
                aux, callers
  <2>2. Cntl \in {"WAIT_AUTH", "WAIT_AUTH2"} /\ Free /\ Sync = "IDLE" /\ Assoc = "IDLE"
    BY <1>1, <2>1, WhoseTurn
  <2>3. ~scanning
    BY <1>1, <2>1, <2>2, NoneStray DEF Released, CalmInv
  <2>4. CASE Auth' = "WAIT_SEQ4" /\ UNCHANGED Queue
    <3>1. KeptTurn /\ KeptRest
      BY <2>4, AfterNothing
    <3>2. Turns'
      BY <2>1, <2>2, <2>4, <3>1 DEF KeptTurn, Turns, Auths, AtRest, Leaving
    <3>3. Paused' /\ Released' /\ Undisturbed' /\ Granted'
      BY <1>1, <2>1, <2>3, <3>1, GrantKept DEF KeptRest, Paused, Released, Undisturbed, scan
    <3> QED
      BY <3>2, <3>3 DEF CalmInv
  <2>5. CASE Auth' = "IDLE" /\ Reply(<<Conf("AUTH_CONF", ok)>>)
    <3>1. PICK m \in Messages : m = Conf("AUTH_CONF", ok) /\ m.type = "AUTH_CONF"
      BY Sends
    <3>2. m # Grant /\ m.type \in Machines
      BY <3>1, GrantIs DEF Machines
    <3>3. /\ \A T : m.type \in T => Turn(T)'
          /\ Has(Queue, {"RESET_CONF"})' => Has(Queue, {"RESET_CONF"})
          /\ Sent(Grant)' <=> Sent(Grant) \/ m = Grant
      BY <1>3, <2>2, <2>5, <3>1, <3>2
    <3>4. Turns'
      BY <2>1, <2>2, <2>5, <3>1, <3>3 DEF Turns, Auths, AtRest, Leaving
    <3>5. Paused' /\ Released' /\ Undisturbed' /\ Granted'
      BY <1>1, <2>1, <2>3, <3>2, <3>3, GrantKept DEF Paused, Released, Undisturbed, scan
    <3> QED
      BY <3>4, <3>5 DEF CalmInv
  <2> QED
    BY <2>1, <2>4, <2>5
\* The grant fills the MAC table's entry with the AP that SYNC joined.
<1>6. ASSUME NEW ok \in BOOLEAN, PeerAssocRspAction(b, ok) PROVE CalmInv'
  <2>1. /\ UNCHANGED <<Cntl, Sync, Auth, AuxBssid, Bssid, periodic, bImprovedScan, scanning>>
        /\ Assoc' = "IDLE" /\ Assoc = "WAIT_RSP" /\ Reply(<<Conf("ASSOC_CONF", ok)>>)
        /\ Wcid' = IF ok THEN AuxBssid ELSE Wcid
    BY <1>6 DEF PeerAssocRspAction, FromOurAp, AssocFrame, callers
  <2>2. Cntl = "WAIT_ASSOC" /\ Free /\ Sync = "IDLE" /\ Auth = "IDLE"
    BY <1>1, <2>1, WhoseTurn
  <2>3. ~scanning
    BY <1>1, <2>1, <2>2, NoneStray DEF Released, CalmInv
  <2>4. PICK m \in Messages : m = Conf("ASSOC_CONF", ok) /\ m.type = "ASSOC_CONF"
    BY Sends
  <2>5. m.type \in Machines
    BY <2>4 DEF Machines
  <2>6. /\ \A T : m.type \in T => Turn(T)'
        /\ Has(Queue, {"RESET_CONF"})' => Has(Queue, {"RESET_CONF"})
        /\ Sent(Grant)' <=> Sent(Grant) \/ m = Grant
    BY <1>3, <2>1, <2>2, <2>4, <2>5
  <2>7. Turns'
    BY <2>1, <2>2, <2>4, <2>6 DEF Turns, Assocs, AtRest, Leaving
  <2>8. Paused' /\ Released' /\ Undisturbed'
    BY <1>1, <2>1, <2>3, <2>6 DEF Paused, Released, Undisturbed
  <2>9. Granted'
    <3>1. CASE ok
      <4>1. m = Grant
        BY <2>4, <3>1 DEF Grant
      <4> QED
        BY <2>1, <2>6, <3>1, <4>1 DEF Granted
    <3>2. CASE ~ok
      <4>1. m # Grant
        BY <2>4, <3>2 DEF Grant, Conf
      <4> QED
        BY <1>1, <2>1, <2>6, <3>2, <4>1, GrantKept DEF link
    <3> QED
      BY <3>1, <3>2
  <2> QED
    BY <2>7, <2>8, <2>9 DEF CalmInv
<1> QED
  BY <1>2, <1>4, <1>5, <1>6

LEMMA CalmKeeps ==
  ASSUME Disturb = {}
  PROVE  Ranges /\ CalmInv /\ [Next]_vars => CalmInv'
<1> SUFFICES ASSUME Ranges, CalmInv, [Next]_vars PROVE CalmInv'
  OBVIOUS
<1>1. CASE UNCHANGED vars
  BY <1>1, AfterNothing, Quietly DEF KeptRest, vars, aux, callers
<1>2. ASSUME NEW t \in Timers, TimerFires(t) PROVE CalmInv'
  <2>1. UNCHANGED <<Queue, Cntl, Sync, Auth, Assoc, scan, AuxBssid, link, periodic>>
    BY <1>2 DEF TimerFires, aux, callers
  <2> QED
    BY <2>1, AfterNothing, Quietly DEF KeptRest
<1>3. ~MlmeRestartStateMachine
  <2> SUFFICES ASSUME MlmeRestartStateMachine PROVE FALSE
    OBVIOUS
  <2>1. Queue # <<>> /\ Head(Queue).type = "RESET_CONF"
    BY DEF MlmeRestartStateMachine, Received
  <2>2. Has(Queue, {"RESET_CONF"})
    BY <2>1, TakenOff DEF Ranges, QueueOK
  <2> QED
    BY <2>2 DEF CalmInv, Undisturbed
<1> QED
  BY <1>1, <1>2, <1>3, OutsideCalm, CntlCalm, OthersCalm, DropCalm, TimeoutCalm, PeerCalm
     DEF Next, MlmeHandler

LEMMA CalmAlways == ASSUME Disturb = {} PROVE Spec => [](Ranges /\ CalmInv)
<1>1. Init => CalmInv
  <2> SUFFICES ASSUME Init PROVE CalmInv
    OBVIOUS
  <2>1. Free /\ (\A x : ~Sent(x)) /\ ~Has(Queue, {"RESET_CONF"})
    BY DEF Init, Free, Has, Sent
  <2> QED
    BY <2>1 DEF Init, CalmInv, Turns, Paused, Undisturbed, Released, Granted, AtRest, Leaving
<1> QED
  BY <1>1, RangesInit, RangesKeep, CalmKeeps, PTL DEF Spec

-----------------------------------------------------------------------------
(* What a calm station owes its user.                                        *)

\* CNTL never waits for an answer that nobody will give: with no reset and no kick,
\* its request, the machine at work or the confirm is there (cntl_machine's WAIT states).
THEOREM AnswersCome == ASSUME Disturb = {} PROVE Spec => []CntlAnswered
<1>1. Ranges /\ CalmInv => CntlAnswered
  <2> SUFFICES ASSUME Ranges, CalmInv PROVE CntlAnswered
    OBVIOUS
  <2>1. \A x, y : Turn({x, y}) => SentType(x) \/ SentType(y)
    BY DEF Turn, Only, SentType
  <2>2. \A x : Turn({x}) => SentType(x)
    BY DEF Turn, Only, SentType
  <2> QED
    BY <2>1, <2>2 DEF CalmInv, Turns, Paused, Scans, Joins, Auths, Assocs, Leaves, Leaving, CntlAnswered
<1> QED
  BY <1>1, CalmAlways, PTL

\* A link is served by the MAC table's entry of its own AP: PeerAssocRspAction filled it
\* from the answer of the AP that LinkUp makes CommonCfg.Bssid.
THEOREM EntryIsOurAps == ASSUME Disturb = {} PROVE Spec => []WcidIsOurAp
<1>1. Ranges /\ CalmInv => WcidIsOurAp
  BY DEF CalmInv, Granted, Grant, WcidIsOurAp
<1> QED
  BY <1>1, CalmAlways, PTL

\* Data held back by a scan (BSS_SCAN_IN_PROGRESS) is held only while the scan's timer
\* or its SCAN_CONF, which releases it, is on the way.
THEOREM DataComesThrough == ASSUME Disturb = {} PROVE Spec => []DataReleased
<1>1. Ranges /\ CalmInv => DataReleased
  BY DEF CalmInv, Released, Has, DataReleased, SentType
<1> QED
  BY <1>1, CalmAlways, PTL
=============================================================================
