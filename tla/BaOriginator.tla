---------------------------- MODULE BaOriginator ----------------------------
(***************************************************************************)
(* The block-ack sessions this station opens towards its AP                *)
(* (common/ba_action.c): the table BATable.BAOriEntry, the session each TID*)
(* of the AP's MAC table entry maps to, the timer that asks again.  The    *)
(* network stack and ioctls set sessions up, the MLME thread takes the     *)
(* peer's answers and tears all sessions down when the station leaves the  *)
(* AP, the timer thread retries.  Only the search of the table and the last*)
(* step of a release hold BATabLock.                                       *)
(*                                                                         *)
(* Abstracted: window sizes, time values, sequence numbers, BARs, the      *)
(* ADDBA request on its way (the peer may answer at any time: nothing      *)
(* compares the dialog token), BADeclineBitmap (it only delays), MAC table *)
(* entries but the AP's and entry 0, which never has a session, monitor and*)
(* ATE mode, NICUpdateFifoStaCounters (it returns at once on this chip),   *)
(* the updates of TXBAbitmap (each is one step).  A kernel timer that has  *)
(* expired is "late" until its handler starts; a cancellation finds it if  *)
(* it is queued by then, and not while its callback runs (see TimerTask).  *)
(***************************************************************************)
EXTENDS Integers, FiniteSets

CONSTANTS
    NUM_OF_TID,                 \* 8 in the driver
    MAX_LEN_OF_BA_ORI_TABLE,    \* 128 in the driver; index 0 is reserved
    ORI_SESSION_MAX_RETRY,      \* 8 in the driver
    Wrapped,                    \* what numAsOriginator, a ULONG, wraps at: 2^32 or 2^64
    MaxCalls,                   \* bound: calls that set up or tear down, links that come up
    CPUs                        \* bound: callers at work at once besides the timer thread

Callers == {"xmit", "ioctl", "mlme", "timer"}
Tids == 0 .. NUM_OF_TID - 1
Entries == 1 .. MAX_LEN_OF_BA_ORI_TABLE - 1
BSSID_WCID == 1     \* the AP's entry of the MAC table

ASSUME BaOriginatorAssumption ==
    /\ MAX_LEN_OF_BA_ORI_TABLE \in Nat \ {0, 1}
    /\ Wrapped \in Nat /\ MAX_LEN_OF_BA_ORI_TABLE <= Wrapped
    /\ ORI_SESSION_MAX_RETRY \in Nat \ {0}
    /\ MaxCalls \in Nat /\ CPUs \in Nat
    /\ NUM_OF_TID \in Nat \ {0}

VARIABLES
    ORI_BA_Status, TID, Wcid, Token,    \* of each entry
    valid, armed, late,         \* of each entry's ORIBATimer: initialised, pending, expired
    BAOriWcidArray, TXBAbitmap, Aid,    \* of the AP's MAC table entry
    numAsOriginator,
    connected,                  \* the link is up
    pc,                         \* per caller: where it is, its TID, entry and index
    calls,                      \* counted against MaxCalls
    marks                       \* history: races that happened

entries == <<ORI_BA_Status, TID, Wcid, Token>>
timers == <<valid, armed, late>>
mac == <<BAOriWcidArray, TXBAbitmap, Aid>>
vars == <<entries, timers, mac, numAsOriginator, connected, pc, calls, marks>>

\* "next" is the TID a loop over all of them comes to next: NUM_OF_TID at its end.
NoLoop == NUM_OF_TID + 1
Loop(n) == [at |-> IF n < NoLoop THEN "all" ELSE "idle", tid |-> 0, entry |-> 0, idx |-> 0, next |-> n]
Idle == Loop(NoLoop)
At(c, a) == pc[c].at = a
Go(c, a) == pc' = [pc EXCEPT ![c].at = a]
Stop(c) == pc' = [pc EXCEPT ![c] = Loop(pc[c].next)]
Rest(c) == pc' = [pc EXCEPT ![c] = Idle]
Start(c, a, t, e, n) == pc' = [pc EXCEPT ![c] = [at |-> a, tid |-> t, entry |-> e, idx |-> e, next |-> n]]
AtWork == {c \in Callers \ {"timer"} : ~At(c, "idle")}
MayCall(c) == At(c, "idle") /\ Cardinality(AtWork) < CPUs /\ calls < MaxCalls /\ calls' = calls + 1

InUse == {e \in Entries : ORI_BA_Status[e] # "NONE"}

Init ==
    /\ ORI_BA_Status = [e \in Entries |-> "NONE"]
    /\ TID = [e \in Entries |-> 0] /\ Wcid = [e \in Entries |-> 0] /\ Token = [e \in Entries |-> 0]
    /\ valid = {} /\ armed = {} /\ late = {}
    /\ BAOriWcidArray = [t \in Tids |-> 0] /\ TXBAbitmap = {} /\ Aid = BSSID_WCID
    /\ numAsOriginator = 0
    /\ connected = TRUE
    /\ pc = [c \in Callers |-> Idle]
    /\ calls = 0 /\ marks = {}

\* RTMPCancelTimer and RTMPSetTimer of entry e's timer.
Cancel(e) == armed' = armed \ {e} /\ late' \in {late, late \ {e}}
Set(e) == armed' = IF e \in valid THEN armed \cup {e} ELSE armed

-----------------------------------------------------------------------------
(* BAOriSessionSetUp, from STASendPacket while the TID has no session, and *)
(* from ioctls.                                                            *)

SetUpStarts(c, t) ==
    /\ c \in {"xmit", "ioctl"} /\ MayCall(c) /\ connected
    /\ c = "xmit" => t \notin TXBAbitmap
    /\ Start(c, "look", t, 0, NoLoop)
    /\ UNCHANGED <<entries, timers, mac, numAsOriginator, connected, marks>>

\* The index is read when the link may have come down since.
SetUpLooks(c) ==
    /\ At(c, "look")
    /\ LET t == pc[c].tid
       IN  Start(c, IF BAOriWcidArray[t] = 0 THEN "alloc" ELSE "test", t, BAOriWcidArray[t], pc[c].next)
    /\ UNCHANGED <<entries, timers, mac, numAsOriginator, connected, calls, marks>>

\* Mutant: the entry found is not marked used.
AllocUnmarked(c) ==
    /\ At(c, "alloc")
    /\ \/ /\ numAsOriginator < MAX_LEN_OF_BA_ORI_TABLE - 1
          /\ \E e \in Entries \ InUse :
                /\ \A f \in Entries \ InUse : e <= f
                /\ numAsOriginator' = numAsOriginator + 1
                /\ Start(c, "fill", pc[c].tid, e, pc[c].next)
                /\ UNCHANGED ORI_BA_Status
       \/ /\ numAsOriginator >= MAX_LEN_OF_BA_ORI_TABLE - 1
          /\ Stop(c) /\ UNCHANGED <<numAsOriginator, ORI_BA_Status>>
    /\ UNCHANGED <<TID, Wcid, Token, timers, mac, connected, calls, marks>>
\* BATableAllocOriEntry, under BATabLock.  With a free entry missing although the
\* counter says otherwise it returns the last entry it looked at, and no index.
BATableAllocOriEntry(c) ==
    /\ At(c, "alloc")
    /\ \/ /\ numAsOriginator >= MAX_LEN_OF_BA_ORI_TABLE - 1
          /\ Stop(c) /\ UNCHANGED <<numAsOriginator, ORI_BA_Status>>
       \/ /\ numAsOriginator < MAX_LEN_OF_BA_ORI_TABLE - 1
          /\ \E e \in Entries \ InUse :
                /\ \A f \in Entries \ InUse : e <= f
                /\ numAsOriginator' = numAsOriginator + 1
                /\ ORI_BA_Status' = [ORI_BA_Status EXCEPT ![e] = "USED"]
                /\ Start(c, "fill", pc[c].tid, e, pc[c].next)
       \/ /\ numAsOriginator < MAX_LEN_OF_BA_ORI_TABLE - 1 /\ InUse = Entries
          /\ pc' = [pc EXCEPT ![c] = [at |-> "test", tid |-> pc[c].tid, entry |-> MAX_LEN_OF_BA_ORI_TABLE - 1,
                                      idx |-> 0, next |-> pc[c].next]]
          /\ UNCHANGED <<numAsOriginator, ORI_BA_Status>>
    /\ UNCHANGED <<TID, Wcid, Token, timers, mac, connected, calls, marks>>

\* A session that waits or is done is left alone.
SetUpTests(c) ==
    /\ At(c, "test")
    /\ IF ORI_BA_Status[pc[c].entry] \in {"WaitRes", "Done"} THEN Stop(c) ELSE Go(c, "fill")
    /\ UNCHANGED <<entries, timers, mac, numAsOriginator, connected, calls, marks>>

\* Mutant: the TID is not mapped to the session.
FillsUnmapped(c) ==
    /\ At(c, "fill")
    /\ LET e == pc[c].entry
       IN  /\ ORI_BA_Status' = [ORI_BA_Status EXCEPT ![e] = "WaitRes"]
           /\ TID' = [TID EXCEPT ![e] = pc[c].tid] /\ Token' = [Token EXCEPT ![e] = 1]
           /\ Wcid' = [Wcid EXCEPT ![e] = Aid]
    /\ Go(c, "time")
    /\ UNCHANGED <<timers, mac, numAsOriginator, connected, calls, marks>>
\* The link has come down, and the sessions of TID t are torn down already.
LinkEnded(t) == ~connected /\ pc["mlme"].next > t
\* "crossed": since this caller looked another has mapped the TID, or taken or
\* released the entry, or LinkDown has come past the TID.
SetUpFills(c) ==
    /\ At(c, "fill")
    /\ LET t == pc[c].tid
           e == pc[c].entry
       IN  /\ marks' = marks \cup
                  IF /\ BAOriWcidArray[t] \in {0, e} /\ pc[c].idx = e /\ ORI_BA_Status[e] = "USED"
                     /\ ~LinkEnded(t)
                  THEN {} ELSE {"crossed"}
           /\ BAOriWcidArray' = [BAOriWcidArray EXCEPT ![t] = pc[c].idx]
           /\ ORI_BA_Status' = [ORI_BA_Status EXCEPT ![e] = "WaitRes"]
           /\ TID' = [TID EXCEPT ![e] = t] /\ Wcid' = [Wcid EXCEPT ![e] = Aid]
           /\ Token' = [Token EXCEPT ![e] = 1]
    /\ Go(c, "time")
    /\ UNCHANGED <<timers, TXBAbitmap, Aid, numAsOriginator, connected, calls>>

\* The timer is initialised while the TID's bit is clear, else cancelled, and set.
\* "reinit": it is initialised while it is pending.  "untimed": it was never
\* initialised, and cannot be set.
SetUpTimes(c) ==
    /\ At(c, "time") /\ Stop(c)
    /\ LET e == pc[c].entry
       IN  \/ /\ pc[c].tid \notin TXBAbitmap
              /\ valid' = valid \cup {e} /\ armed' = armed \cup {e} /\ UNCHANGED late
              /\ marks' = marks \cup (IF e \in armed THEN {"reinit"} ELSE {})
           \/ /\ pc[c].tid \in TXBAbitmap
              /\ armed' = IF e \in valid THEN armed \cup {e} ELSE armed
              /\ late' \in {late, late \ {e}} /\ UNCHANGED valid
              /\ marks' = marks \cup (IF e \in valid THEN {} ELSE {"untimed"})
    /\ UNCHANGED <<entries, mac, numAsOriginator, connected, calls>>

-----------------------------------------------------------------------------
(* Release and tear-down. *)

\* BATableFreeOriEntry tests the status and unmaps the TID in MAC table entry Wcid
\* without the lock ("stray": that is not the AP's) ...
\* "crossed": another caller has unmapped it.
BATableFreeOriEntry(c) ==
    /\ At(c, "free")
    /\ LET e == pc[c].idx
       IN  IF e = 0 \/ e \notin InUse
           THEN Stop(c) /\ UNCHANGED <<BAOriWcidArray, marks>>
           ELSE /\ BAOriWcidArray' = IF Wcid[e] = BSSID_WCID THEN [BAOriWcidArray EXCEPT ![TID[e]] = 0]
                                     ELSE BAOriWcidArray
                /\ Go(c, IF Wcid[e] = BSSID_WCID THEN "freeing" ELSE "stray")
                /\ marks' = marks \cup
                       IF Wcid[e] = BSSID_WCID /\ BAOriWcidArray[TID[e]] = e THEN {} ELSE {"crossed"}
    /\ UNCHANGED <<entries, timers, TXBAbitmap, Aid, numAsOriginator, connected, calls>>

\* Mutant: the bit of a session that is done stays.
FreedKeepsBit(c) ==
    /\ At(c, "freeing") \/ At(c, "stray")
    /\ LET e == pc[c].idx
       IN  /\ numAsOriginator' = IF numAsOriginator = 0 THEN Wrapped - 1 ELSE numAsOriginator - 1
           /\ ORI_BA_Status' = [ORI_BA_Status EXCEPT ![e] = "NONE"]
           /\ Token' = [Token EXCEPT ![e] = 0]
           /\ marks' = marks \cup
                  IF ORI_BA_Status[e] # "NONE" /\ BAOriWcidArray[TID[e]] = 0 THEN {} ELSE {"crossed"}
    /\ Stop(c)
    /\ UNCHANGED <<TID, Wcid, timers, mac, connected, calls>>
\* ... and frees the entry under it.  "crossed": another caller has freed it, or has
\* given the TID a new session, whose bit goes with the old one's.
OriEntryFreed(c) ==
    /\ At(c, "freeing") \/ At(c, "stray")
    /\ LET e == pc[c].idx
       IN  /\ TXBAbitmap' = IF ORI_BA_Status[e] = "Done" /\ At(c, "freeing") THEN TXBAbitmap \ {TID[e]}
                            ELSE TXBAbitmap
           /\ numAsOriginator' = IF numAsOriginator = 0 THEN Wrapped - 1 ELSE numAsOriginator - 1
           /\ ORI_BA_Status' = [ORI_BA_Status EXCEPT ![e] = "NONE"]
           /\ Token' = [Token EXCEPT ![e] = 0]
           /\ marks' = marks \cup
                  IF ORI_BA_Status[e] # "NONE" /\ BAOriWcidArray[TID[e]] = 0 THEN {} ELSE {"crossed"}
    /\ Stop(c)
    /\ UNCHANGED <<TID, Wcid, timers, BAOriWcidArray, Aid, connected, calls>>

\* BAOriSessionTearDown.
TearDown(c, t, next) ==
    LET e == BAOriWcidArray[t]
    IN  \/ e = 0 /\ pc' = [pc EXCEPT ![c] = Loop(next)] /\ UNCHANGED <<armed, late>>
        \/ e # 0 /\ Cancel(e) /\ Start(c, "free", t, e, next)
\* The peer, unless it has ended the session itself, is told of the end of an
\* established one; with no memory for that nothing else is done either.
TellsNobody(c, t, next) ==
    LET e == BAOriWcidArray[t]
    IN  /\ e # 0 /\ TID[e] = t /\ ORI_BA_Status[e] = "Done"
        /\ pc' = [pc EXCEPT ![c] = Loop(next)] /\ UNCHANGED <<armed, late>>

\* Ioctls.  The link may have come down since the call found the AP's entry.
BAOriSessionTearDown(t) ==
    /\ MayCall("ioctl")
    /\ TearDown("ioctl", t, NoLoop) \/ TellsNobody("ioctl", t, NoLoop)
    /\ UNCHANGED <<entries, valid, mac, numAsOriginator, connected, marks>>

\* BASessionTearDownALL, of MacTableDeleteEntry.  "nomem": a session outlives it.
BASessionTearDownALL(c) ==
    /\ At(c, "all")
    /\ LET t == pc[c].next
       IN  /\ t \in Tids
           /\ \/ TearDown(c, t, t + 1) /\ UNCHANGED marks
              \/ TellsNobody(c, t, t + 1) /\ marks' = marks \cup {"nomem"}
    /\ UNCHANGED <<entries, valid, mac, numAsOriginator, connected, calls>>

-----------------------------------------------------------------------------
(* The MLME thread. *)

\* PeerAddBARspAction with status 0: BAOriSessionAdd tests the session ...
PeerAccepts(t) ==
    LET e == BAOriWcidArray[t]
    IN  /\ MayCall("mlme")
        /\ e # 0 /\ TID[e] = t /\ ORI_BA_Status[e] = "WaitRes"
        /\ Start("mlme", "grant", t, e, NoLoop)
        /\ UNCHANGED <<entries, timers, mac, numAsOriginator, connected, marks>>
\* ... and establishes it.  "crossed": it has been released, or set up for another
\* TID, in between.
BAOriSessionAdd ==
    /\ At("mlme", "grant")
    /\ LET e == pc["mlme"].entry
       IN  /\ ORI_BA_Status' = [ORI_BA_Status EXCEPT ![e] = "Done"]
           /\ TXBAbitmap' = TXBAbitmap \cup {pc["mlme"].tid}
           /\ Cancel(e)
           /\ marks' = marks \cup
                  IF ORI_BA_Status[e] = "WaitRes" /\ BAOriWcidArray[pc["mlme"].tid] = e THEN {} ELSE {"crossed"}
    /\ Stop("mlme")
    /\ UNCHANGED <<TID, Wcid, Token, valid, BAOriWcidArray, Aid, numAsOriginator, connected, calls>>

\* A declining ADDBA response or the peer's DELBA.
PeerEnds(t) ==
    /\ MayCall("mlme")
    /\ TearDown("mlme", t, NoLoop)
    /\ UNCHANGED <<entries, valid, mac, numAsOriginator, connected, marks>>

\* Mutant: the first TID is left out.
LinkDownFromOne ==
    /\ MayCall("mlme") /\ connected
    /\ connected' = FALSE
    /\ pc' = [pc EXCEPT !["mlme"] = Loop(1)]
    /\ UNCHANGED <<entries, timers, mac, numAsOriginator, marks>>
\* LinkDown: MacTableDeleteEntry tears every session down ...
LinkDown ==
    /\ MayCall("mlme") /\ connected
    /\ connected' = FALSE
    /\ pc' = [pc EXCEPT !["mlme"] = Loop(0)]
    /\ UNCHANGED <<entries, timers, mac, numAsOriginator, marks>>
\* ... and the whole MAC table entry is zeroed.
MacEntryZeroed ==
    /\ At("mlme", "all") /\ pc["mlme"].next = NUM_OF_TID /\ ~connected
    /\ BAOriWcidArray' = [t \in Tids |-> 0] /\ TXBAbitmap' = {} /\ Aid' = 0
    /\ Rest("mlme")
    /\ UNCHANGED <<entries, timers, numAsOriginator, connected, calls, marks>>
\* The next connection takes the same MAC table entry.
LinkUp ==
    /\ MayCall("mlme") /\ ~connected /\ connected' = TRUE
    /\ Aid' = BSSID_WCID
    /\ UNCHANGED <<entries, timers, BAOriWcidArray, TXBAbitmap, numAsOriginator, pc, marks>>

\* A station that roams has no LinkDown: the answer of the new AP makes it delete
\* the entry of the old one, and the new one gets it as that has left it.
Roam ==
    /\ MayCall("mlme") /\ connected
    /\ pc' = [pc EXCEPT !["mlme"] = Loop(0)]
    /\ UNCHANGED <<entries, timers, mac, numAsOriginator, connected, marks>>
Roamed ==
    /\ At("mlme", "all") /\ pc["mlme"].next = NUM_OF_TID /\ connected
    /\ Rest("mlme")
    /\ UNCHANGED <<entries, timers, mac, numAsOriginator, connected, calls, marks>>

-----------------------------------------------------------------------------
(* The timer thread. *)

TimerExpires(e) ==
    /\ e \in armed
    /\ armed' = armed \ {e} /\ late' = late \cup {e}
    /\ UNCHANGED <<entries, valid, mac, numAsOriginator, connected, pc, calls, marks>>

\* Mutant: the retries are not counted out.
WaitsAlways(e) == ORI_BA_Status[e] = "WaitRes"
Waits(e) == ORI_BA_Status[e] = "WaitRes" /\ Token[e] < ORI_SESSION_MAX_RETRY

\* BAOriSessionSetupTimeout puts the retry off while the station scans ...
TimeoutInScan(e) ==
    /\ At("timer", "idle") /\ e \in late /\ late' = late \ {e}
    /\ Waits(e) /\ connected
    /\ Set(e)
    /\ UNCHANGED <<entries, valid, mac, numAsOriginator, connected, pc, calls, marks>>
\* ... and otherwise asks again, or gives up: it releases the session the TID has.
BAOriSessionSetupTimeout(e) ==
    /\ At("timer", "idle") /\ e \in late /\ late' = late \ {e}
    /\ LET i == IF Wcid[e] = BSSID_WCID THEN BAOriWcidArray[TID[e]] ELSE 0
       IN  IF Waits(e)
           THEN Start("timer", "retry", TID[e], e, NoLoop)
           ELSE Start("timer", "free", TID[e], i, NoLoop)
    /\ UNCHANGED <<entries, valid, armed, mac, numAsOriginator, connected, calls, marks>>
\* Mutant: the retry is not counted.
RetryUncounted ==
    /\ At("timer", "retry")
    /\ Set(pc["timer"].entry) /\ UNCHANGED Token
    /\ Stop("timer")
    /\ UNCHANGED <<ORI_BA_Status, TID, Wcid, valid, late, mac, numAsOriginator, connected, calls, marks>>
\* The request goes to the MLME queue (not modelled); the timer is set again
\* whatever has become of the session.
Retry ==
    /\ At("timer", "retry")
    /\ LET e == pc["timer"].entry
       IN  Set(e) /\ Token' = [Token EXCEPT ![e] = @ + 1]
    /\ Stop("timer")
    /\ UNCHANGED <<ORI_BA_Status, TID, Wcid, valid, late, mac, numAsOriginator, connected, calls, marks>>

-----------------------------------------------------------------------------
Continue(c) ==
    \/ SetUpLooks(c) \/ BATableAllocOriEntry(c) \/ SetUpTests(c) \/ SetUpFills(c) \/ SetUpTimes(c)
    \/ BATableFreeOriEntry(c) \/ OriEntryFreed(c) \/ BASessionTearDownALL(c)

Next ==
    \/ \E c \in Callers : Continue(c) \/ \E t \in Tids : SetUpStarts(c, t)
    \/ \E t \in Tids : BAOriSessionTearDown(t) \/ PeerAccepts(t) \/ PeerEnds(t)
    \/ BAOriSessionAdd \/ LinkDown \/ MacEntryZeroed \/ LinkUp \/ Roam \/ Roamed \/ Retry
    \/ \E e \in Entries : TimerExpires(e) \/ TimeoutInScan(e) \/ BAOriSessionSetupTimeout(e)

GoesOn(c) ==
    \/ Continue(c)
    \/ c = "mlme" /\ (BAOriSessionAdd \/ MacEntryZeroed \/ Roamed)
    \/ c = "timer" /\ Retry
\* The threads go on, kernel timers expire; a scan ends, so that an expiry in the end
\* finds none going on.
Fairness ==
    /\ WF_vars(\E c \in Callers : GoesOn(c))
    /\ WF_vars(\E e \in Entries : TimerExpires(e))
    /\ SF_vars(\E e \in Entries : BAOriSessionSetupTimeout(e))

Spec == Init /\ [][Next]_vars /\ Fairness

-----------------------------------------------------------------------------
(* Properties *)

Places == {"idle", "look", "alloc", "test", "fill", "time", "free", "freeing", "stray", "grant", "all", "retry"}
TypeOK ==
    /\ ORI_BA_Status \in [Entries -> {"NONE", "USED", "WaitRes", "Done"}]
    /\ TID \in [Entries -> Tids] /\ Wcid \in [Entries -> {0, BSSID_WCID}] /\ Aid \in {0, BSSID_WCID}
    /\ Token \in [Entries -> 0 .. ORI_SESSION_MAX_RETRY + 1]
    /\ valid \subseteq Entries /\ armed \subseteq valid /\ late \subseteq valid
    /\ BAOriWcidArray \in [Tids -> 0 .. MAX_LEN_OF_BA_ORI_TABLE - 1] /\ TXBAbitmap \subseteq Tids
    /\ numAsOriginator \in 0 .. Wrapped - 1 /\ connected \in BOOLEAN /\ calls \in 0 .. MaxCalls
    /\ pc \in [Callers -> [at : Places, tid : Tids, entry : {0} \cup Entries, idx : {0} \cup Entries,
                            next : 0 .. NoLoop]]

Unraced == "crossed" \notin marks
Busy(e) == \E c \in Callers : ~At(c, "idle") /\ e \in {pc[c].entry, pc[c].idx}

\* The counter that limits the table (ba_action.c:818, 875) is the number of entries
\* in use, unless two set-ups or two releases of a session have crossed.
SessionsCounted == Unraced => numAsOriginator = Cardinality(InUse)

\* No entry is lost: one that is in use is the session of its TID, or in the hands of
\* a call.  Unless calls have crossed (ba_action.c:554, 860), a set-up the end of the
\* link among them, or the memory for a DELBA was lacking when the AP's entry was
\* deleted: LinkDown then zeroes the entry over a session (connect.c:2794).
NoSessionLost == Unraced /\ "nomem" \notin marks =>
    \A e \in InUse : (Wcid[e] = BSSID_WCID /\ BAOriWcidArray[TID[e]] = e) \/ Busy(e)

\* The data path aggregates a TID (cmm_data.c:1068) exactly while its session is
\* established: no bit outlives its session (ba_action.c:620, 868).
AggregatesInSession == Unraced =>
    \A t \in Tids :
        LET e == BAOriWcidArray[t]
        IN  \/ t \in TXBAbitmap <=> e # 0 /\ ORI_BA_Status[e] = "Done"
            \/ \E c \in Callers : ~At(c, "idle") /\ (pc[c].tid = t \/ (pc[c].idx # 0 /\ TID[pc[c].idx] = t))

\* An ADDBA request is answered, or given up: no session waits for ever.  Unless
\* calls have crossed (a set-up after LinkDown has come past its TID waits in an entry
\* its timer does not find: ba_action.c:1192), or a set-up takes the timer of another
\* for its own: it is pending already, or nobody has initialised it (ba_action.c:566-575).
EveryRequestDecided == \A e \in Entries :
    ORI_BA_Status[e] = "WaitRes" ~> (ORI_BA_Status[e] # "WaitRes" \/ marks \ {"nomem"} # {})

\* No agreement with one AP is taken for one with the next, and the end of a link
\* leaves nothing of the table in use, with every call over and none crossed, unless
\* a DELBA could not be allocated (ba_action.c:991-995).  LinkDown zeroes the MAC
\* table entry (connect.c:2794), so what is left is an entry no TID maps to; roaming
\* keeps it (assoc.c:1222-1229), so it is a session the new AP has not agreed to.
AgreementsEndWithLink ==
    [][/\ LinkUp \/ Roamed
       /\ Unraced /\ "nomem" \notin marks
       /\ \A c \in Callers : At(c, "idle") \/ At(c, "all")
       => TXBAbitmap = {} /\ (LinkUp => InUse = {})]_vars
=============================================================================
