-------------------------- MODULE BaOriginatorProofs --------------------------
(***************************************************************************)
(* The table of originator sessions is accounted for whatever its size, the*)
(* number of TIDs, retries and calls, as long as calls do not cross.       *)
(***************************************************************************)
EXTENDS BaOriginator, FiniteSetTheorems, TLAPS

\* What a caller has established on its way.
CallInv == \A c \in Callers :
    /\ pc[c].at \in {"idle", "grant"} => pc[c].next = NoLoop
    /\ At(c, "all") => pc[c].next <= NUM_OF_TID
    /\ pc[c].at \in {"freeing", "stray"} => pc[c].idx \in Entries
    /\ At(c, "stray") => ~Unraced
    /\ pc[c].at \in {"test", "fill", "time", "grant", "retry"} => pc[c].entry \in Entries
    /\ At(c, "retry") => c = "timer" /\ Token[pc[c].entry] <= ORI_SESSION_MAX_RETRY

IInv == TypeOK /\ CallInv /\ SessionsCounted

Calls == [at : Places, tid : Tids, entry : {0} \cup Entries, idx : {0} \cup Entries, next : 0 .. NoLoop]

-----------------------------------------------------------------------------
LEMMA EntriesFinite == IsFiniteSet(Entries) /\ Cardinality(Entries) = MAX_LEN_OF_BA_ORI_TABLE - 1
  BY FS_Interval, BaOriginatorAssumption DEF Entries

LEMMA InUseFinite == IsFiniteSet(InUse) /\ Cardinality(InUse) \in 0 .. MAX_LEN_OF_BA_ORI_TABLE - 1
<1>1. InUse \subseteq Entries
  BY DEF InUse
<1> QED
  BY <1>1, EntriesFinite, FS_Subset, FS_CardinalityType, BaOriginatorAssumption

\* Where a call goes on after a session, in a loop over the TIDs or not.
LEMMA LoopType ==
  ASSUME NEW n \in 0 .. NoLoop
  PROVE  /\ Loop(n) \in Calls /\ Loop(n).next = n
         /\ Loop(n).at = IF n = NoLoop THEN "idle" ELSE "all"
  BY BaOriginatorAssumption DEF Loop, Calls, Places, Tids, Entries, NoLoop

LEMMA IdleType == Idle \in Calls /\ Idle.at = "idle" /\ Idle.next = NoLoop /\ NoLoop \in 0 .. NoLoop
<1>1. NoLoop \in 0 .. NoLoop
  BY BaOriginatorAssumption DEF NoLoop
<1> QED
  BY <1>1, LoopType DEF Idle

LEMMA InitIInv == Init => IInv
<1> SUFFICES ASSUME Init PROVE IInv
  OBVIOUS
<1>1. pc \in [Callers -> Calls] /\ \A c \in Callers : pc[c].at = "idle" /\ pc[c].next = NoLoop
  BY IdleType DEF Init
<1>2. InUse = {}
  BY DEF Init, InUse
<1>3. SessionsCounted
  BY <1>2, FS_EmptySet DEF Init, SessionsCounted
<1>4. CallInv
  BY <1>1 DEF CallInv, At
<1>5. TypeOK
  BY <1>1, BaOriginatorAssumption DEF Init, TypeOK, Calls, Tids, Entries
<1> QED
  BY <1>3, <1>4, <1>5 DEF IInv

-----------------------------------------------------------------------------
\* A caller that moves to a place where it may be keeps the calls in order.
Sound(c, r) ==
    /\ r \in Calls
    /\ r.at \in {"idle", "grant"} => r.next = NoLoop
    /\ r.at = "all" => r.next <= NUM_OF_TID
    /\ r.at \in {"freeing", "stray"} => r.idx \in Entries
    /\ r.at = "stray" => ~Unraced'
    /\ r.at \in {"test", "fill", "time", "grant", "retry"} => r.entry \in Entries
    /\ r.at = "retry" => c = "timer" /\ Token'[r.entry] <= ORI_SESSION_MAX_RETRY

\* The requests counted of a session: only the timer thread adds to them.
TokensKept(c) ==
    \/ c = "timer"
    \/ \A e \in Entries : Token[e] <= ORI_SESSION_MAX_RETRY => Token'[e] <= ORI_SESSION_MAX_RETRY

LEMMA Moves ==
  ASSUME TypeOK, CallInv, NEW c \in Callers, NEW r, Sound(c, r), TokensKept(c), marks \subseteq marks',
         pc' = [pc EXCEPT ![c] = r]
  PROVE  pc' \in [Callers -> Calls] /\ CallInv'
<1>1. pc \in [Callers -> Calls]
  BY DEF TypeOK, Calls
<1>2. pc' \in [Callers -> Calls]
  BY <1>1 DEF Sound
<1>3. ASSUME NEW d \in Callers
      PROVE  /\ pc'[d].at \in {"idle", "grant"} => pc'[d].next = NoLoop
             /\ pc'[d].at = "all" => pc'[d].next <= NUM_OF_TID
             /\ pc'[d].at \in {"freeing", "stray"} => pc'[d].idx \in Entries
             /\ pc'[d].at = "stray" => ~Unraced'
             /\ pc'[d].at \in {"test", "fill", "time", "grant", "retry"} => pc'[d].entry \in Entries
             /\ pc'[d].at = "retry" => d = "timer" /\ Token'[pc'[d].entry] <= ORI_SESSION_MAX_RETRY
  <2>1. CASE d = c
    BY <1>1, <2>1 DEF Sound
  <2>2. CASE d # c
    <3>1. pc'[d] = pc[d]
      BY <1>1, <2>2
    <3>2. pc[d].at = "retry" => d = "timer" /\ pc[d].entry \in Entries /\ Token[pc[d].entry] <= ORI_SESSION_MAX_RETRY
      BY DEF CallInv, At
    <3>3. pc[d].at = "retry" => Token'[pc[d].entry] <= ORI_SESSION_MAX_RETRY
      BY <3>2, <2>2 DEF TokensKept
    <3>4. ~Unraced => ~Unraced'
      BY DEF Unraced
    <3> QED
      BY <3>1, <3>2, <3>3, <3>4 DEF CallInv, At
  <2> QED
    BY <2>1, <2>2
<1> QED
  BY <1>2, <1>3 DEF CallInv, At

LEMMA Stays ==
  ASSUME CallInv, UNCHANGED <<pc, Token>>, marks \subseteq marks'
  PROVE  CallInv'
  BY DEF CallInv, At, Unraced

LEMMA StopMoves ==
  ASSUME TypeOK, CallInv, NEW c \in Callers, TokensKept(c), marks \subseteq marks', Stop(c)
  PROVE  pc' \in [Callers -> Calls] /\ CallInv'
<1>1. pc[c].next \in 0 .. NoLoop
  BY DEF TypeOK
<1>2. Loop(pc[c].next).at = "all" => pc[c].next <= NUM_OF_TID
  BY <1>1, LoopType, BaOriginatorAssumption DEF NoLoop
<1>3. Sound(c, Loop(pc[c].next))
  BY <1>1, <1>2, LoopType DEF Sound
<1> QED
  BY <1>3, Moves DEF Stop

LEMMA GoMoves ==
  ASSUME TypeOK, CallInv, NEW c \in Callers, NEW a \in Places, TokensKept(c), marks \subseteq marks', Go(c, a),
         a \notin {"idle", "grant", "all", "retry"}, a \in {"freeing", "stray"} => pc[c].idx \in Entries,
         a = "stray" => ~Unraced', a \in {"test", "fill", "time"} => pc[c].entry \in Entries
  PROVE  pc' \in [Callers -> Calls] /\ CallInv'
<1> DEFINE r == [pc[c] EXCEPT !.at = a]
<1>1. pc[c] \in Calls
  BY DEF TypeOK, Calls
<1>2. r = [at |-> a, tid |-> pc[c].tid, entry |-> pc[c].entry, idx |-> pc[c].idx, next |-> pc[c].next]
  BY <1>1 DEF Calls
<1>3. Sound(c, r)
  BY <1>1, <1>2 DEF Sound, Calls
<1>4. pc' = [pc EXCEPT ![c] = r]
  BY DEF Go
<1> QED
  BY <1>3, <1>4, Moves

LEMMA StartMoves ==
  ASSUME TypeOK, CallInv, NEW c \in Callers, NEW a \in Places, NEW t \in Tids,
         NEW e \in {0} \cup Entries, NEW n \in 0 .. NoLoop, TokensKept(c), marks \subseteq marks',
         Start(c, a, t, e, n), a \notin {"idle", "all", "freeing", "stray"}, a = "grant" => n = NoLoop,
         a \in {"test", "fill", "time", "grant", "retry"} => e \in Entries,
         a = "retry" => c = "timer" /\ Token'[e] <= ORI_SESSION_MAX_RETRY
  PROVE  pc' \in [Callers -> Calls] /\ CallInv'
<1> DEFINE r == [at |-> a, tid |-> t, entry |-> e, idx |-> e, next |-> n]
<1>1. Sound(c, r)
  BY DEF Sound, Calls
<1>2. pc' = [pc EXCEPT ![c] = r]
  BY DEF Start
<1> QED
  BY <1>1, <1>2, Moves

LEMMA TokensUnchanged == ASSUME NEW c, UNCHANGED Token PROVE TokensKept(c)
  BY DEF TokensKept

-----------------------------------------------------------------------------
LEMMA CountStays ==
  ASSUME SessionsCounted, UNCHANGED <<ORI_BA_Status, numAsOriginator>>, marks \subseteq marks'
  PROVE  SessionsCounted'
<1>1. InUse' = InUse
  BY DEF InUse
<1> QED
  BY <1>1 DEF SessionsCounted, Unraced

\* BATableAllocOriEntry: the entry found is free, and counted.
LEMMA AllocStep == ASSUME TypeOK, CallInv, SessionsCounted, NEW c \in Callers, BATableAllocOriEntry(c) PROVE IInv'
<1>1. TokensKept(c) /\ marks \subseteq marks'
  BY TokensUnchanged DEF BATableAllocOriEntry
<1>2. CASE Stop(c) /\ UNCHANGED <<numAsOriginator, ORI_BA_Status>>
  <2>1. pc' \in [Callers -> Calls] /\ CallInv'
    BY <1>1, <1>2, StopMoves
  <2>2. TypeOK'
    BY <1>2, <2>1 DEF BATableAllocOriEntry, TypeOK, Calls, timers, mac
  <2> QED
    BY <1>2, <2>1, <2>2, CountStays DEF BATableAllocOriEntry, IInv
<1>3. CASE /\ pc' = [pc EXCEPT ![c] = [at |-> "test", tid |-> pc[c].tid, entry |-> MAX_LEN_OF_BA_ORI_TABLE - 1,
                                      idx |-> 0, next |-> pc[c].next]]
           /\ UNCHANGED <<numAsOriginator, ORI_BA_Status>>
  <2> DEFINE r == [at |-> "test", tid |-> pc[c].tid, entry |-> MAX_LEN_OF_BA_ORI_TABLE - 1,
                   idx |-> 0, next |-> pc[c].next]
  <2>1. pc[c] \in Calls
    BY DEF TypeOK, Calls
  <2>2. pc' = [pc EXCEPT ![c] = r]
    BY <1>3
  <2>3. Sound(c, r)
    BY <2>1, BaOriginatorAssumption DEF Sound, Calls, Places, Entries
  <2>4. pc' \in [Callers -> Calls] /\ CallInv'
    BY <1>1, <2>2, <2>3, Moves
  <2>5. TypeOK'
    BY <1>3, <2>4 DEF BATableAllocOriEntry, TypeOK, Calls, timers, mac
  <2> QED
    BY <1>3, <2>4, <2>5, CountStays DEF BATableAllocOriEntry, IInv
<1>4. ASSUME numAsOriginator < MAX_LEN_OF_BA_ORI_TABLE - 1, NEW e \in Entries \ InUse,
             numAsOriginator' = numAsOriginator + 1,
             ORI_BA_Status' = [ORI_BA_Status EXCEPT ![e] = "USED"],
             Start(c, "fill", pc[c].tid, e, pc[c].next)
      PROVE  IInv'
  <2>1. pc[c].tid \in Tids /\ pc[c].next \in 0 .. NoLoop /\ "fill" \in Places /\ marks \subseteq marks'
    BY DEF BATableAllocOriEntry, TypeOK, Places
  <2>4. pc' \in [Callers -> Calls] /\ CallInv'
    BY <1>1, <1>4, <2>1, StartMoves
  <2>5. numAsOriginator' \in 0 .. Wrapped - 1
    BY <1>4, BaOriginatorAssumption DEF TypeOK
  <2>6. ORI_BA_Status' \in [Entries -> {"NONE", "USED", "WaitRes", "Done"}]
    BY <1>4 DEF TypeOK
  <2>7. TypeOK'
    BY <2>4, <2>5, <2>6 DEF BATableAllocOriEntry, TypeOK, Calls, timers, mac
  <2>8. InUse' = InUse \cup {e}
    BY <1>4 DEF TypeOK, InUse
  <2>9. Cardinality(InUse') = Cardinality(InUse) + 1
    BY <2>8, InUseFinite, FS_AddElement
  <2>10. SessionsCounted'
    BY <1>4, <2>9 DEF BATableAllocOriEntry, SessionsCounted, Unraced
  <2> QED
    BY <2>4, <2>7, <2>10 DEF IInv
<1> QED
  BY <1>2, <1>3, <1>4 DEF BATableAllocOriEntry

\* SetUpFills: unless calls cross, the entry it fills is in use already.
LEMMA FillStep == ASSUME TypeOK, CallInv, SessionsCounted, NEW c \in Callers, SetUpFills(c) PROVE IInv'
<1> DEFINE e == pc[c].entry
           t == pc[c].tid
<1>0. e \in Entries
  BY DEF CallInv, SetUpFills, At
<1>1. e \in Entries /\ t \in Tids /\ pc[c].idx \in 0 .. MAX_LEN_OF_BA_ORI_TABLE - 1
  BY <1>0, BaOriginatorAssumption DEF TypeOK, Entries
<1>2. Token' = [Token EXCEPT ![e] = 1]
  BY DEF SetUpFills
<1>3. TokensKept(c)
  <2>1. ASSUME NEW f \in Entries, Token[f] <= ORI_SESSION_MAX_RETRY
        PROVE  Token'[f] <= ORI_SESSION_MAX_RETRY
    BY <1>1, <1>2, <2>1, BaOriginatorAssumption DEF TypeOK
  <2> QED
    BY <2>1 DEF TokensKept
<1>4. pc' \in [Callers -> Calls] /\ CallInv'
  <2>1. Go(c, "time") /\ marks \subseteq marks' /\ "time" \in Places
    BY DEF SetUpFills, Places
  <2> QED
    BY <1>1, <1>3, <2>1, GoMoves
<1>5. Token' \in [Entries -> 0 .. ORI_SESSION_MAX_RETRY + 1]
  BY <1>1, <1>2, BaOriginatorAssumption DEF TypeOK
<1>6. ORI_BA_Status' \in [Entries -> {"NONE", "USED", "WaitRes", "Done"}] /\ TID' \in [Entries -> Tids]
  BY <1>1 DEF SetUpFills, TypeOK
<1>7. /\ BAOriWcidArray' \in [Tids -> 0 .. MAX_LEN_OF_BA_ORI_TABLE - 1]
      /\ Wcid' \in [Entries -> {0, BSSID_WCID}]
  BY <1>1 DEF SetUpFills, TypeOK
<1>8. TypeOK'
  BY <1>4, <1>5, <1>6, <1>7 DEF SetUpFills, TypeOK, Calls, timers
<1>9. Unraced' => ORI_BA_Status[e] = "USED" /\ Unraced
  BY DEF SetUpFills, Unraced
<1>10. ORI_BA_Status[e] = "USED" => InUse' = InUse
  BY <1>1 DEF SetUpFills, InUse, TypeOK
<1>11. SessionsCounted'
  BY <1>9, <1>10 DEF SetUpFills, SessionsCounted
<1> QED
  BY <1>4, <1>8, <1>11 DEF IInv

\* OriEntryFreed: unless calls cross, the entry it frees is in use, and counted.
LEMMA FreedStep == ASSUME TypeOK, CallInv, SessionsCounted, NEW c \in Callers, OriEntryFreed(c) PROVE IInv'
<1> DEFINE e == pc[c].idx
<1>1. e \in Entries
  BY DEF CallInv, OriEntryFreed, At
<1>2. Token' = [Token EXCEPT ![e] = 0]
  BY DEF OriEntryFreed
<1>3. TokensKept(c)
  <2>1. ASSUME NEW f \in Entries, Token[f] <= ORI_SESSION_MAX_RETRY
        PROVE  Token'[f] <= ORI_SESSION_MAX_RETRY
    BY <1>1, <1>2, <2>1, BaOriginatorAssumption DEF TypeOK
  <2> QED
    BY <2>1 DEF TokensKept
<1>4. pc' \in [Callers -> Calls] /\ CallInv'
  <2>1. Stop(c) /\ marks \subseteq marks'
    BY DEF OriEntryFreed
  <2> QED
    BY <1>3, <2>1, StopMoves
<1>5. Token' \in [Entries -> 0 .. ORI_SESSION_MAX_RETRY + 1]
  BY <1>1, <1>2, BaOriginatorAssumption DEF TypeOK
<1>6. ORI_BA_Status' \in [Entries -> {"NONE", "USED", "WaitRes", "Done"}] /\ TXBAbitmap' \subseteq Tids
  BY <1>1 DEF OriEntryFreed, TypeOK
<1>7. numAsOriginator' = IF numAsOriginator = 0 THEN Wrapped - 1 ELSE numAsOriginator - 1
  BY DEF OriEntryFreed
<1>8. numAsOriginator' \in 0 .. Wrapped - 1
  BY <1>7, BaOriginatorAssumption DEF TypeOK
<1>9. TypeOK'
  BY <1>4, <1>5, <1>6, <1>8 DEF OriEntryFreed, TypeOK, Calls, timers
<1>10. Unraced' => e \in InUse /\ Unraced
  BY <1>1 DEF OriEntryFreed, Unraced, InUse
<1>11. InUse' = InUse \ {e}
  BY <1>1 DEF OriEntryFreed, InUse, TypeOK
<1>12. e \in InUse => Cardinality(InUse') = Cardinality(InUse) - 1
  BY <1>11, InUseFinite, FS_RemoveElement
<1>13. ASSUME e \in InUse, numAsOriginator = Cardinality(InUse)
       PROVE  numAsOriginator' = Cardinality(InUse')
  <2>1. InUse # {} /\ Cardinality(InUse) # 0
    BY <1>13, InUseFinite, FS_EmptySet
  <2>3. numAsOriginator' = numAsOriginator - 1
    BY <1>7, <2>1, <1>13
  <2> QED
    BY <1>12, <1>13, <2>3
<1>14. SessionsCounted'
  BY <1>10, <1>13 DEF SessionsCounted
<1> QED
  BY <1>4, <1>9, <1>14 DEF IInv

\* BAOriSessionAdd: unless calls cross, the session it establishes is in use.
LEMMA AddStep == ASSUME TypeOK, CallInv, SessionsCounted, BAOriSessionAdd PROVE IInv'
<1> DEFINE e == pc["mlme"].entry
<1>0. "mlme" \in Callers
  BY DEF Callers
<1>1. pc["mlme"].tid \in Tids
  BY <1>0 DEF TypeOK
<1>2. pc' \in [Callers -> Calls] /\ CallInv'
  <2>1. Stop("mlme") /\ marks \subseteq marks' /\ TokensKept("mlme")
    BY TokensUnchanged DEF BAOriSessionAdd
  <2> QED
    BY <1>0, <2>1, StopMoves
<1>3. ORI_BA_Status' = [ORI_BA_Status EXCEPT ![e] = "Done"]
  BY DEF BAOriSessionAdd
<1>4. ORI_BA_Status' \in [Entries -> {"NONE", "USED", "WaitRes", "Done"}]
  BY <1>3 DEF TypeOK
<1>5. armed' \subseteq valid' /\ late' \subseteq valid' /\ valid' \subseteq Entries
  BY DEF BAOriSessionAdd, Cancel, TypeOK
<1>6. TypeOK'
  BY <1>1, <1>2, <1>4, <1>5 DEF BAOriSessionAdd, TypeOK, Calls
<1>7. Unraced' => ORI_BA_Status[e] = "WaitRes" /\ Unraced
  BY DEF BAOriSessionAdd, Unraced
<1>8. ORI_BA_Status[e] = "WaitRes" => InUse' = InUse
  BY <1>3 DEF InUse, TypeOK
<1>9. SessionsCounted'
  BY <1>7, <1>8 DEF BAOriSessionAdd, SessionsCounted
<1> QED
  BY <1>2, <1>6, <1>9 DEF IInv

-----------------------------------------------------------------------------
\* The steps that leave the table alone.
LEMMA TableKept ==
  ASSUME TypeOK, CallInv, SessionsCounted,
         UNCHANGED <<entries, numAsOriginator>>, marks \subseteq marks',
         armed' \subseteq valid', late' \subseteq valid', valid' \subseteq Entries,
         BAOriWcidArray' \in [Tids -> 0 .. MAX_LEN_OF_BA_ORI_TABLE - 1], TXBAbitmap' \subseteq Tids,
         Aid' \in {0, BSSID_WCID},
         connected' \in BOOLEAN, calls' \in 0 .. MaxCalls,
         pc' \in [Callers -> Calls] /\ CallInv'
  PROVE  IInv'
<1>1. TypeOK'
  BY DEF TypeOK, Calls, entries
<1>2. SessionsCounted'
  BY CountStays DEF entries
<1> QED
  BY <1>1, <1>2 DEF IInv

LEMMA SessionType ==
  ASSUME TypeOK, NEW t \in Tids
  PROVE  BAOriWcidArray[t] \in {0} \cup Entries
  BY BaOriginatorAssumption DEF TypeOK, Entries

LEMMA CallCounted == ASSUME TypeOK, NEW c, MayCall(c) PROVE calls' \in 0 .. MaxCalls
  BY BaOriginatorAssumption DEF TypeOK, MayCall

LEMMA TearDownMoves ==
  ASSUME TypeOK, CallInv, NEW c \in Callers, NEW t \in Tids, NEW n \in 0 .. NoLoop, UNCHANGED <<Token, valid>>,
         marks \subseteq marks', TearDown(c, t, n) \/ TellsNobody(c, t, n)
  PROVE  /\ pc' \in [Callers -> Calls] /\ CallInv'
         /\ armed' \subseteq valid' /\ late' \subseteq valid'
<1>1. TokensKept(c)
  BY TokensUnchanged
<1>2. CASE pc' = [pc EXCEPT ![c] = Loop(n)] /\ UNCHANGED <<armed, late>>
  <2>1. Loop(n).at = "all" => n <= NUM_OF_TID
    BY LoopType, BaOriginatorAssumption DEF NoLoop
  <2>2. Sound(c, Loop(n))
    BY <2>1, LoopType DEF Sound
  <2> QED
    BY <1>1, <1>2, <2>2, Moves DEF TypeOK
<1>3. CASE Cancel(BAOriWcidArray[t]) /\ Start(c, "free", t, BAOriWcidArray[t], n)
  <2>1. pc' \in [Callers -> Calls] /\ CallInv'
    BY <1>1, <1>3, SessionType, StartMoves DEF Places
  <2> QED
    BY <1>3, <2>1 DEF Cancel, TypeOK
<1> QED
  BY <1>2, <1>3 DEF TearDown, TellsNobody

LEMMA CallStep == ASSUME TypeOK, CallInv, SessionsCounted, NEW c \in Callers, Continue(c) PROVE IInv'
<1>0. CASE SetUpLooks(c)
  <2> DEFINE t == pc[c].tid
             a == IF BAOriWcidArray[t] = 0 THEN "alloc" ELSE "test"
  <2>1. t \in Tids /\ BAOriWcidArray[t] \in {0} \cup Entries /\ pc[c].next \in 0 .. NoLoop
    BY SessionType DEF TypeOK
  <2>2. TokensKept(c) /\ marks \subseteq marks'
    BY <1>0, TokensUnchanged DEF SetUpLooks, entries
  <2>3. a \in Places /\ a \in {"alloc", "test"} /\ (a = "test" => BAOriWcidArray[t] \in Entries)
    BY <2>1 DEF Places
  <2>4. Start(c, a, t, BAOriWcidArray[t], pc[c].next)
    BY <1>0 DEF SetUpLooks
  <2>5. pc' \in [Callers -> Calls] /\ CallInv'
    BY <2>1, <2>2, <2>3, <2>4, StartMoves
  <2> QED
    BY <1>0, <2>5, TableKept DEF SetUpLooks, TypeOK, timers, mac
<1>1. CASE BATableAllocOriEntry(c)
  BY <1>1, AllocStep
<1>2. CASE SetUpTests(c)
  <2>1. TokensKept(c) /\ marks \subseteq marks'
    BY <1>2, TokensUnchanged DEF SetUpTests, entries
  <2>2. pc[c].entry \in Entries /\ "fill" \in Places
    BY <1>2 DEF CallInv, SetUpTests, At, Places
  <2>3. pc' \in [Callers -> Calls] /\ CallInv'
    BY <1>2, <2>1, <2>2, StopMoves, GoMoves DEF SetUpTests
  <2> QED
    BY <1>2, <2>3, TableKept DEF SetUpTests, TypeOK, timers, mac
<1>3. CASE SetUpFills(c)
  BY <1>3, FillStep
<1>4. CASE SetUpTimes(c)
  <2>1. pc[c].entry \in Entries
    BY <1>4 DEF CallInv, SetUpTimes, At
  <2>2. pc' \in [Callers -> Calls] /\ CallInv'
    <3>1. Stop(c) /\ marks \subseteq marks' /\ TokensKept(c)
      BY <1>4, TokensUnchanged DEF SetUpTimes, entries
    <3> QED
      BY <3>1, StopMoves
  <2>3. valid' \subseteq Entries /\ armed' \subseteq valid' /\ late' \subseteq valid'
    BY <1>4, <2>1 DEF SetUpTimes, TypeOK
  <2>4. marks \subseteq marks'
    BY <1>4 DEF SetUpTimes
  <2> QED
    BY <1>4, <2>2, <2>3, <2>4, TableKept DEF SetUpTimes, TypeOK, mac
<1>5. CASE BATableFreeOriEntry(c)
  <2>1. TokensKept(c) /\ marks \subseteq marks'
    BY <1>5, TokensUnchanged DEF BATableFreeOriEntry, entries
  <2>2. CASE Stop(c) /\ UNCHANGED <<BAOriWcidArray, marks>>
    <3>1. pc' \in [Callers -> Calls] /\ CallInv'
      BY <2>1, <2>2, StopMoves
    <3> QED
      BY <1>5, <2>2, <3>1, TableKept DEF BATableFreeOriEntry, TypeOK, timers
  <2>3. CASE /\ pc[c].idx \in InUse
             /\ \/ /\ Go(c, "freeing")
                   /\ BAOriWcidArray' = [BAOriWcidArray EXCEPT ![TID[pc[c].idx]] = 0]
                \/ Go(c, "stray") /\ ~Unraced' /\ UNCHANGED BAOriWcidArray
    <3>1. pc[c].idx \in Entries /\ {"freeing", "stray"} \subseteq Places
      BY <2>3 DEF InUse, Places
    <3>2. pc' \in [Callers -> Calls] /\ CallInv'
      BY <2>1, <2>3, <3>1, GoMoves
    <3>3. 0 \in 0 .. MAX_LEN_OF_BA_ORI_TABLE - 1
      BY BaOriginatorAssumption
    <3>4. BAOriWcidArray' \in [Tids -> 0 .. MAX_LEN_OF_BA_ORI_TABLE - 1]
      BY <2>3, <3>3 DEF TypeOK
    <3> QED
      BY <1>5, <2>1, <3>2, <3>4, TableKept DEF BATableFreeOriEntry, TypeOK, timers
  <2> QED
    BY <1>5, <2>2, <2>3 DEF BATableFreeOriEntry, Unraced
<1>6. CASE OriEntryFreed(c)
  BY <1>6, FreedStep
<1>7. CASE BASessionTearDownALL(c)
  <2> DEFINE t == pc[c].next
  <2>1. t \in Tids /\ t + 1 \in 0 .. NoLoop /\ marks \subseteq marks' /\ UNCHANGED <<Token, valid>>
    BY <1>7, BaOriginatorAssumption DEF BASessionTearDownALL, Tids, NoLoop, entries
  <2>2. /\ pc' \in [Callers -> Calls] /\ CallInv'
        /\ armed' \subseteq valid' /\ late' \subseteq valid'
    BY <1>7, <2>1, TearDownMoves DEF BASessionTearDownALL
  <2> QED
    BY <1>7, <2>1, <2>2, TableKept DEF BASessionTearDownALL, TypeOK, mac
<1> QED
  BY <1>0, <1>1, <1>2, <1>3, <1>4, <1>5, <1>6, <1>7 DEF Continue

LEMMA StepIInv == IInv /\ [Next]_vars => IInv'
<1> SUFFICES ASSUME TypeOK, CallInv, SessionsCounted, [Next]_vars PROVE IInv'
  BY DEF IInv
<1>0. {"xmit", "ioctl", "mlme", "timer"} = Callers
  BY DEF Callers
<1>1. ASSUME NEW c \in Callers, Continue(c) PROVE IInv'
  BY <1>1, CallStep
<1>2. ASSUME NEW c \in Callers, NEW t \in Tids, SetUpStarts(c, t) PROVE IInv'
  <2>1. TokensKept(c) /\ marks \subseteq marks' /\ "look" \in Places /\ Start(c, "look", t, 0, NoLoop)
    BY <1>2, TokensUnchanged DEF SetUpStarts, entries, Places
  <2>2. pc' \in [Callers -> Calls] /\ CallInv'
    BY <2>1, StartMoves, IdleType
  <2>3. calls' \in 0 .. MaxCalls
    BY <1>2, CallCounted DEF SetUpStarts
  <2> QED
    BY <1>2, <2>2, <2>3, TableKept DEF SetUpStarts, TypeOK, timers, mac
<1>3. ASSUME NEW c \in Callers, NEW t \in Tids, MayCall(c), marks \subseteq marks',
             TearDown(c, t, NoLoop) \/ TellsNobody(c, t, NoLoop),
             UNCHANGED <<entries, valid, mac, numAsOriginator, connected>>
      PROVE  IInv'
  <2>1. /\ pc' \in [Callers -> Calls] /\ CallInv'
        /\ armed' \subseteq valid' /\ late' \subseteq valid'
    BY <1>3, IdleType, TearDownMoves DEF entries
  <2>2. calls' \in 0 .. MaxCalls
    BY <1>3, CallCounted
  <2> QED
    BY <1>3, <2>1, <2>2, TableKept DEF TypeOK, mac
<1>4. ASSUME NEW t \in Tids, BAOriSessionTearDown(t) PROVE IInv'
  BY <1>0, <1>3, <1>4 DEF BAOriSessionTearDown
<1>5. ASSUME NEW t \in Tids, PeerEnds(t) PROVE IInv'
  BY <1>0, <1>3, <1>5 DEF PeerEnds
<1>6. ASSUME NEW t \in Tids, PeerAccepts(t) PROVE IInv'
  <2>1. BAOriWcidArray[t] \in {0} \cup Entries /\ "grant" \in Places /\ marks \subseteq marks'
    BY <1>6, SessionType DEF PeerAccepts, Places
  <2>2. TokensKept("mlme")
    BY <1>6, TokensUnchanged DEF PeerAccepts, entries
  <2>3. pc' \in [Callers -> Calls] /\ CallInv'
    BY <1>0, <1>6, <2>1, <2>2, StartMoves, IdleType DEF PeerAccepts
  <2>4. calls' \in 0 .. MaxCalls
    BY <1>6, CallCounted DEF PeerAccepts
  <2> QED
    BY <1>6, <2>3, <2>4, TableKept DEF PeerAccepts, TypeOK, timers, mac
<1>7. CASE BAOriSessionAdd
  BY <1>7, AddStep
<1>8. ASSUME NEW n \in {0, NoLoop}, pc' = [pc EXCEPT !["mlme"] = Loop(n)], connected' \in BOOLEAN,
             calls' \in 0 .. MaxCalls, UNCHANGED <<entries, timers, numAsOriginator, marks>>,
             BAOriWcidArray' \in [Tids -> 0 .. MAX_LEN_OF_BA_ORI_TABLE - 1], TXBAbitmap' \subseteq Tids,
             Aid' \in {0, BSSID_WCID}
      PROVE  IInv'
  <2>1. n \in 0 .. NoLoop /\ (Loop(n).at = "all" => n <= NUM_OF_TID)
    BY LoopType, BaOriginatorAssumption DEF NoLoop
  <2>2. Sound("mlme", Loop(n)) /\ TokensKept("mlme") /\ marks \subseteq marks'
    BY <1>8, <2>1, LoopType, TokensUnchanged DEF Sound, entries
  <2>3. pc' \in [Callers -> Calls] /\ CallInv'
    BY <1>0, <1>8, <2>2, Moves
  <2> QED
    BY <1>8, <2>3, TableKept DEF TypeOK, timers
<1>9. CASE LinkDown \/ Roam
  <2>1. calls' \in 0 .. MaxCalls
    BY <1>9, CallCounted DEF LinkDown, Roam
  <2> QED
    BY <1>8, <1>9, <2>1 DEF LinkDown, Roam, TypeOK, mac
<1>10. CASE MacEntryZeroed \/ Roamed
  <2>1. [t \in Tids |-> 0] \in [Tids -> 0 .. MAX_LEN_OF_BA_ORI_TABLE - 1]
    BY BaOriginatorAssumption
  <2> QED
    BY <1>8, <1>10, <2>1 DEF MacEntryZeroed, Roamed, Rest, Idle, TypeOK, mac
<1>11. CASE LinkUp
  <2>1. pc' \in [Callers -> Calls] /\ CallInv'
    BY <1>11, Stays DEF LinkUp, entries, TypeOK, Calls
  <2>2. calls' \in 0 .. MaxCalls
    BY <1>11, CallCounted DEF LinkUp
  <2> QED
    BY <1>11, <2>1, <2>2, TableKept DEF LinkUp, TypeOK, timers
<1>12. CASE Retry
  <2> DEFINE e == pc["timer"].entry
  <2>1. e \in Entries /\ Token[e] <= ORI_SESSION_MAX_RETRY /\ "timer" \in Callers
    BY <1>0, <1>12 DEF CallInv, Retry, At
  <2>2. Token' = [Token EXCEPT ![e] = Token[e] + 1] /\ Set(e)
    BY <1>12 DEF Retry
  <2>3. Token' \in [Entries -> 0 .. ORI_SESSION_MAX_RETRY + 1]
    BY <2>1, <2>2, BaOriginatorAssumption DEF TypeOK
  <2>4. pc' \in [Callers -> Calls] /\ CallInv'
    <3>1. Stop("timer") /\ marks \subseteq marks' /\ TokensKept("timer")
      BY <1>12 DEF Retry, TokensKept
    <3> QED
      BY <2>1, <3>1, StopMoves
  <2>5. armed' \subseteq valid
    BY <2>2 DEF Set, TypeOK
  <2>6. TypeOK'
    BY <1>12, <2>3, <2>4, <2>5 DEF Retry, TypeOK, Calls, mac
  <2>7. SessionsCounted'
    BY <1>12, CountStays DEF Retry
  <2> QED
    BY <2>4, <2>6, <2>7 DEF IInv
<1>13. ASSUME NEW e \in Entries, TimerExpires(e) PROVE IInv'
  <2>1. pc' \in [Callers -> Calls] /\ CallInv'
    BY <1>13, Stays DEF TimerExpires, entries, TypeOK, Calls
  <2> QED
    BY <1>13, <2>1, TableKept DEF TimerExpires, TypeOK, mac
<1>14. ASSUME NEW e \in Entries, TimeoutInScan(e) PROVE IInv'
  <2>1. pc' \in [Callers -> Calls] /\ CallInv'
    BY <1>14, Stays DEF TimeoutInScan, entries, TypeOK, Calls
  <2> QED
    BY <1>14, <2>1, TableKept DEF TimeoutInScan, Set, TypeOK, mac
<1>15. ASSUME NEW e \in Entries, BAOriSessionSetupTimeout(e) PROVE IInv'
  <2> DEFINE t == TID[e]
             i == IF Wcid[e] = BSSID_WCID THEN BAOriWcidArray[t] ELSE 0
  <2>1. t \in Tids /\ i \in {0} \cup Entries /\ NoLoop \in 0 .. NoLoop /\ "timer" \in Callers
    BY <1>0, SessionType, IdleType DEF TypeOK
  <2>2. TokensKept("timer") /\ {"retry", "free"} \subseteq Places /\ marks \subseteq marks'
    BY <1>15 DEF BAOriSessionSetupTimeout, TokensKept, Places
  <2>3. CASE Waits(e) /\ Start("timer", "retry", t, e, NoLoop)
    <3>1. Token'[e] <= ORI_SESSION_MAX_RETRY
      BY <1>15, <2>3, BaOriginatorAssumption DEF BAOriSessionSetupTimeout, Waits, TypeOK, entries
    <3>2. pc' \in [Callers -> Calls] /\ CallInv'
      BY <2>1, <2>2, <2>3, <3>1, StartMoves
    <3> QED
      BY <1>15, <3>2, TableKept DEF BAOriSessionSetupTimeout, TypeOK, mac
  <2>4. CASE Start("timer", "free", t, i, NoLoop)
    <3>1. pc' \in [Callers -> Calls] /\ CallInv'
      BY <2>1, <2>2, <2>4, StartMoves
    <3> QED
      BY <1>15, <3>1, TableKept DEF BAOriSessionSetupTimeout, TypeOK, mac
  <2> QED
    BY <1>15, <2>3, <2>4 DEF BAOriSessionSetupTimeout
<1>16. CASE UNCHANGED vars
  <2>1. pc' \in [Callers -> Calls] /\ CallInv'
    BY <1>16, Stays DEF vars, entries, TypeOK, Calls
  <2> QED
    BY <1>16, <2>1, TableKept DEF vars, TypeOK, timers, mac
<1> QED
  BY <1>1, <1>2, <1>4, <1>5, <1>6, <1>7, <1>9, <1>10, <1>11, <1>12, <1>13, <1>14, <1>15, <1>16 DEF Next

LEMMA OthersStay ==
  ASSUME TypeOK, NEW c \in Callers, NEW r, pc' = [pc EXCEPT ![c] = r]
  PROVE  /\ \A d \in Callers \ {c} : pc'[d] = pc[d]
         /\ pc'[c] = r
  BY DEF TypeOK

-----------------------------------------------------------------------------
(* Sessions and the bits of their TIDs. *)

Live(e) == ORI_BA_Status[e] \in {"WaitRes", "Done"}
Established(t) == BAOriWcidArray[t] # 0 /\ ORI_BA_Status[BAOriWcidArray[t]] = "Done"
Freeing(c, t) == At(c, "freeing") /\ TID[pc[c].idx] = t

\* A TID maps to a session of its own.
MapInv == \A t \in Tids :
    BAOriWcidArray[t] # 0 => TID[BAOriWcidArray[t]] = t /\ Live(BAOriWcidArray[t])

\* A session that is being freed is nobody else's.
FreeingInv == \A c \in Callers : At(c, "freeing") =>
    /\ Live(pc[c].idx)
    /\ \A t \in Tids : BAOriWcidArray[t] # pc[c].idx
    /\ \A d \in Callers \ {c} : At(d, "freeing") => pc[d].idx # pc[c].idx

\* A bit belongs to an established session or goes with the one being freed.
BitInv ==
    /\ \A t \in TXBAbitmap :
          Established(t) \/ \E c \in Callers : Freeing(c, t) /\ ORI_BA_Status[pc[c].idx] = "Done"
    /\ \A t \in Tids : Established(t) => t \in TXBAbitmap \/ \E c \in Callers : Freeing(c, t)

SessionInv == Unraced => MapInv /\ FreeingInv /\ BitInv

LEMMA MapType ==
  ASSUME TypeOK PROVE 0 \notin Entries /\ \A t \in Tids : BAOriWcidArray[t] # 0 => BAOriWcidArray[t] \in Entries
  BY BaOriginatorAssumption DEF TypeOK, Entries

\* A step of a caller that frees nothing and leaves the sessions alone.
LEMMA SessionsStay ==
  ASSUME SessionInv, NEW c \in Callers, pc[c].at # "freeing", pc'[c].at # "freeing",
         \A d \in Callers \ {c} : pc'[d] = pc[d],
         UNCHANGED <<ORI_BA_Status, TID, BAOriWcidArray, TXBAbitmap>>, marks \subseteq marks'
  PROVE  SessionInv'
<1> SUFFICES ASSUME Unraced' PROVE MapInv' /\ FreeingInv' /\ BitInv'
  BY DEF SessionInv
<1>1. MapInv /\ FreeingInv /\ BitInv
  BY DEF SessionInv, Unraced
<1>2. \A d \in Callers : At(d, "freeing")' <=> At(d, "freeing")
  BY DEF At
<1>3. \A d \in Callers : At(d, "freeing") => pc'[d] = pc[d]
  BY DEF At
<1>4. MapInv'
  BY <1>1 DEF MapInv, Live
<1>5. FreeingInv'
  BY <1>1, <1>2, <1>3 DEF FreeingInv, Live
<1>6. BitInv'
  BY <1>1, <1>2, <1>3 DEF BitInv, Established, Freeing
<1> QED
  BY <1>4, <1>5, <1>6

\* The same when nobody moves.
LEMMA SessionsRest ==
  ASSUME SessionInv, UNCHANGED <<pc, ORI_BA_Status, TID, BAOriWcidArray, TXBAbitmap>>, marks \subseteq marks'
  PROVE  SessionInv'
  BY DEF SessionInv, Unraced, MapInv, FreeingInv, BitInv, Live, Established, Freeing, At

\* BATableAllocOriEntry: the entry was no session's.
LEMMA SessionsAlloc ==
  ASSUME TypeOK, SessionInv, NEW c \in Callers, BATableAllocOriEntry(c) PROVE SessionInv'
<1>1. /\ pc[c].at # "freeing" /\ UNCHANGED <<TID, BAOriWcidArray, TXBAbitmap, marks>>
      /\ \A d \in Callers \ {c} : pc'[d] = pc[d]
  BY OthersStay DEF BATableAllocOriEntry, At, Stop, Start, mac
<1>2. pc'[c].at # "freeing"
  BY DEF BATableAllocOriEntry, Stop, Start, Loop, TypeOK
<1>3. CASE UNCHANGED ORI_BA_Status
  BY <1>1, <1>2, <1>3, SessionsStay
<1>4. ASSUME NEW f \in Entries \ InUse, ORI_BA_Status' = [ORI_BA_Status EXCEPT ![f] = "USED"]
      PROVE  SessionInv'
  <2> SUFFICES ASSUME Unraced PROVE MapInv' /\ FreeingInv' /\ BitInv'
    BY <1>1 DEF SessionInv, Unraced
  <2>1. MapInv /\ FreeingInv /\ BitInv
    BY DEF SessionInv
  <2>2. /\ ORI_BA_Status[f] = "NONE" /\ ORI_BA_Status'[f] = "USED"
        /\ \A e \in Entries \ {f} : ORI_BA_Status'[e] = ORI_BA_Status[e]
    BY <1>4 DEF InUse, TypeOK
  <2>3. \A d \in Callers : At(d, "freeing")' <=> At(d, "freeing")
    BY <1>1, <1>2 DEF At
  <2>4. \A d \in Callers : At(d, "freeing") => pc'[d] = pc[d] /\ pc[d].idx # f /\ pc[d].idx \in {0} \cup Entries
    BY <1>1, <2>1, <2>2 DEF At, FreeingInv, Live, TypeOK
  <2>5. \A t \in Tids : BAOriWcidArray[t] # 0 => BAOriWcidArray[t] \in Entries \ {f}
    BY <2>1, <2>2, MapType DEF MapInv, Live
  <2>6. MapInv'
    BY <1>1, <2>1, <2>2, <2>5 DEF MapInv, Live
  <2>7. TXBAbitmap \subseteq Tids /\ \A t \in Tids : Established(t)' <=> Established(t)
    BY <1>1, <2>2, <2>5 DEF Established, TypeOK
  <2>8. \A d \in Callers : At(d, "freeing") => ORI_BA_Status'[pc[d].idx] = ORI_BA_Status[pc[d].idx]
    BY <1>4, <2>4 DEF TypeOK
  <2>9. FreeingInv'
    BY <1>1, <2>1, <2>3, <2>4, <2>8 DEF FreeingInv, Live
  <2>10. \A d \in Callers, t \in Tids : Freeing(d, t)' <=> Freeing(d, t)
    BY <1>1, <2>3, <2>4 DEF Freeing
  <2>11. BitInv'
    BY <1>1, <2>1, <2>4, <2>7, <2>8, <2>10 DEF BitInv, Freeing
  <2> QED
    BY <2>6, <2>9, <2>11
<1> QED
  BY <1>3, <1>4 DEF BATableAllocOriEntry

\* SetUpFills: without a crossing the entry was used, and so no session's.
LEMMA SessionsFill ==
  ASSUME TypeOK, CallInv, SessionInv, NEW c \in Callers, SetUpFills(c) PROVE SessionInv'
<1> SUFFICES ASSUME Unraced' PROVE MapInv' /\ FreeingInv' /\ BitInv'
  BY DEF SessionInv
<1>1. PICK f, t : f = pc[c].entry /\ t = pc[c].tid
  OBVIOUS
<1>2. f \in Entries /\ t \in Tids /\ pc[c].at = "fill"
  BY <1>1 DEF CallInv, SetUpFills, At, TypeOK
<1>3. /\ Unraced /\ BAOriWcidArray[t] \in {0, f} /\ pc[c].idx = f /\ ORI_BA_Status[f] = "USED"
  BY <1>1 DEF SetUpFills, Unraced
<1>4. /\ BAOriWcidArray' = [BAOriWcidArray EXCEPT ![t] = f]
      /\ ORI_BA_Status' = [ORI_BA_Status EXCEPT ![f] = "WaitRes"]
      /\ TID' = [TID EXCEPT ![f] = t] /\ UNCHANGED TXBAbitmap
  BY <1>1, <1>3 DEF SetUpFills
<1>5. MapInv /\ FreeingInv /\ BitInv
  BY <1>3 DEF SessionInv
<1>6. \A u \in Tids : BAOriWcidArray[u] # f
  BY <1>2, <1>3, <1>5, MapType DEF MapInv, Live
<1>7. BAOriWcidArray[t] = 0
  BY <1>2, <1>3, <1>6
<1>8. /\ BAOriWcidArray'[t] = f /\ \A u \in Tids \ {t} : BAOriWcidArray'[u] = BAOriWcidArray[u]
      /\ ORI_BA_Status'[f] = "WaitRes" /\ TID'[f] = t
      /\ \A e \in Entries \ {f} : ORI_BA_Status'[e] = ORI_BA_Status[e] /\ TID'[e] = TID[e]
  BY <1>2, <1>4 DEF TypeOK
<1>9. \A u \in Tids : BAOriWcidArray[u] # 0 => BAOriWcidArray[u] \in Entries \ {f}
  BY <1>6, MapType
<1>10. \A d \in Callers \ {c} : pc'[d] = pc[d]
  BY DEF SetUpFills, Go, TypeOK
<1>11. pc'[c].at = "time"
  BY DEF SetUpFills, Go, TypeOK
<1>12. \A d \in Callers : At(d, "freeing")' <=> At(d, "freeing")
  BY <1>2, <1>10, <1>11 DEF At
<1>13. \A d \in Callers : At(d, "freeing") => pc'[d] = pc[d] /\ pc[d].idx \in Entries \ {f}
  BY <1>2, <1>3, <1>5, <1>10 DEF At, FreeingInv, Live, CallInv
<1>14. MapInv'
  BY <1>5, <1>8, <1>9 DEF MapInv, Live
<1>15. FreeingInv'
  BY <1>5, <1>8, <1>12, <1>13 DEF FreeingInv, Live
<1>16. TXBAbitmap \subseteq Tids /\ \A u \in Tids : Established(u)' <=> Established(u)
  BY <1>7, <1>8, <1>9 DEF Established, TypeOK
<1>17. \A d \in Callers, u \in Tids : Freeing(d, u)' <=> Freeing(d, u)
  BY <1>8, <1>12, <1>13 DEF Freeing
<1>18. BitInv'
  BY <1>4, <1>5, <1>8, <1>13, <1>16, <1>17 DEF BitInv, Freeing
<1> QED
  BY <1>14, <1>15, <1>18

\* BATableFreeOriEntry: without a crossing the session was its TID's.
LEMMA SessionsFree ==
  ASSUME TypeOK, CallInv, SessionInv, NEW c \in Callers, BATableFreeOriEntry(c) PROVE SessionInv'
<1>1. /\ pc[c].at = "free" /\ UNCHANGED <<ORI_BA_Status, TID, TXBAbitmap>>
      /\ \A d \in Callers \ {c} : pc'[d] = pc[d]
  BY OthersStay DEF BATableFreeOriEntry, At, Stop, Go, entries
<1>2. CASE UNCHANGED <<BAOriWcidArray, marks>> /\ Stop(c)
  <2>1. pc'[c].at # "freeing"
    BY <1>2 DEF Stop, Loop, TypeOK
  <2> QED
    BY <1>1, <1>2, <2>1, SessionsStay
<1>3. CASE ~(UNCHANGED <<BAOriWcidArray, marks>> /\ Stop(c))
  <2> SUFFICES ASSUME Unraced' PROVE MapInv' /\ FreeingInv' /\ BitInv'
    BY DEF SessionInv
  <2>1. PICK f : f = pc[c].idx
    OBVIOUS
  <2>2. PICK t : t = TID[f]
    OBVIOUS
  <2>3. /\ f \in Entries /\ t \in Tids /\ Unraced /\ BAOriWcidArray[t] = f
        /\ BAOriWcidArray' = [BAOriWcidArray EXCEPT ![t] = 0] /\ Go(c, "freeing")
    BY <1>3, <2>1, <2>2 DEF BATableFreeOriEntry, Unraced, InUse, TypeOK
  <2>4. MapInv /\ FreeingInv /\ BitInv
    BY <2>3 DEF SessionInv
  <2>5. /\ BAOriWcidArray'[t] = 0 /\ \A u \in Tids \ {t} : BAOriWcidArray'[u] = BAOriWcidArray[u]
    BY <2>3 DEF TypeOK
  <2>6. pc'[c].at = "freeing" /\ pc'[c].idx = f
    BY <2>1, <2>3 DEF Go, TypeOK
  <2>7. f # 0 /\ Live(f) /\ \A u \in Tids \ {t} : BAOriWcidArray[u] # f
    BY <2>2, <2>3, <2>4, BaOriginatorAssumption DEF MapInv, Entries
  <2>8. \A d \in Callers \ {c} : At(d, "freeing") => pc[d].idx # f
    BY <2>3, <2>4 DEF FreeingInv
  <2>9. MapInv'
    BY <1>1, <2>4, <2>5 DEF MapInv, Live
  <2>10. FreeingInv'
    <3> SUFFICES ASSUME NEW d \in Callers, At(d, "freeing")'
                 PROVE  /\ ORI_BA_Status[pc'[d].idx] \in {"WaitRes", "Done"}
                        /\ \A u \in Tids : BAOriWcidArray'[u] # pc'[d].idx
                        /\ \A e \in Callers \ {d} : At(e, "freeing")' => pc'[e].idx # pc'[d].idx
      BY <1>1 DEF FreeingInv, Live
    <3>1. CASE d = c
      <4>1. ORI_BA_Status[pc'[d].idx] \in {"WaitRes", "Done"}
        BY <2>6, <2>7, <3>1 DEF Live
      <4>2. \A u \in Tids : BAOriWcidArray'[u] # pc'[d].idx
        BY <2>5, <2>6, <2>7, <3>1
      <4>3. \A e \in Callers \ {d} : At(e, "freeing")' => pc'[e].idx # pc'[d].idx
        BY <1>1, <2>6, <2>8, <3>1 DEF At
      <4> QED
        BY <4>1, <4>2, <4>3
    <3>2. CASE d # c
      <4>1. pc'[d] = pc[d] /\ At(d, "freeing")
        BY <1>1, <3>2 DEF At
      <4>2. /\ Live(pc[d].idx) /\ \A u \in Tids : BAOriWcidArray[u] # pc[d].idx
            /\ \A e \in Callers \ {d} : At(e, "freeing") => pc[e].idx # pc[d].idx
        BY <2>4, <4>1 DEF FreeingInv
      <4>3. pc[d].idx # 0 /\ pc[d].idx # f
        BY <2>8, <3>2, <4>1, MapType DEF CallInv, At
      <4>4. \A e \in Callers \ {d} : At(e, "freeing")' => pc'[e].idx # pc[d].idx
        <5> SUFFICES ASSUME NEW e \in Callers \ {d}, At(e, "freeing")' PROVE pc'[e].idx # pc[d].idx
          OBVIOUS
        <5>1. CASE e = c
          BY <2>6, <4>3, <5>1
        <5>2. CASE e # c
          BY <1>1, <4>2, <5>2 DEF At
        <5> QED
          BY <5>1, <5>2
      <4>5. \A u \in Tids : BAOriWcidArray'[u] # pc[d].idx
        <5> SUFFICES ASSUME NEW u \in Tids PROVE BAOriWcidArray'[u] # pc[d].idx
          OBVIOUS
        <5> QED
          BY <2>5, <4>2, <4>3
      <4> QED
        BY <4>1, <4>2, <4>4, <4>5 DEF Live
    <3> QED
      BY <3>1, <3>2
  <2>11. \A u \in Tids \ {t} : Established(u)' <=> Established(u)
    BY <1>1, <2>5 DEF Established
  <2>12. ~Established(t)' /\ Freeing(c, t)' /\ (Established(t) => ORI_BA_Status[f] = "Done")
    BY <1>1, <2>2, <2>3, <2>5, <2>6 DEF Established, Freeing, At
  <2>13. \A d \in Callers \ {c}, u \in Tids : Freeing(d, u)' <=> Freeing(d, u)
    BY <1>1 DEF Freeing, At
  <2>14. \A u \in Tids : ~Freeing(c, u)
    BY <1>1 DEF Freeing, At
  <2>15. BitInv'
    <3>1. ASSUME NEW u \in TXBAbitmap
          PROVE  Established(u)' \/ \E d \in Callers : Freeing(d, u)' /\ ORI_BA_Status[pc'[d].idx] = "Done"
      <4>1. u \in Tids
        BY DEF TypeOK
      <4>2. CASE Established(u)
        BY <2>6, <2>11, <2>12, <4>1, <4>2
      <4>3. ASSUME NEW d \in Callers, Freeing(d, u), ORI_BA_Status[pc[d].idx] = "Done"
            PROVE  Freeing(d, u)' /\ ORI_BA_Status[pc'[d].idx] = "Done"
        BY <1>1, <2>13, <2>14, <4>1, <4>3
      <4> QED
        BY <2>4, <4>2, <4>3 DEF BitInv
    <3>2. ASSUME NEW u \in Tids, Established(u)' PROVE u \in TXBAbitmap \/ \E d \in Callers : Freeing(d, u)'
      BY <2>4, <2>11, <2>12, <2>13, <2>14, <3>2 DEF BitInv
    <3> QED
      BY <1>1, <3>1, <3>2 DEF BitInv
  <2> QED
    BY <2>9, <2>10, <2>15
<1> QED
  BY <1>2, <1>3

\* OriEntryFreed: without a crossing the TID has no session by now.
LEMMA SessionsFreed ==
  ASSUME TypeOK, CallInv, SessionInv, NEW c \in Callers, OriEntryFreed(c) PROVE SessionInv'
<1> SUFFICES ASSUME Unraced' PROVE MapInv' /\ FreeingInv' /\ BitInv'
  BY DEF SessionInv
<1>1. PICK f, t : f = pc[c].idx /\ t = TID[f]
  OBVIOUS
<1>2. /\ Unraced /\ At(c, "freeing") /\ f \in Entries /\ t \in Tids /\ BAOriWcidArray[t] = 0
      /\ ORI_BA_Status' = [ORI_BA_Status EXCEPT ![f] = "NONE"]
      /\ TXBAbitmap' = IF ORI_BA_Status[f] = "Done" THEN TXBAbitmap \ {t} ELSE TXBAbitmap
      /\ UNCHANGED <<TID, BAOriWcidArray>> /\ Stop(c)
  <2>1. Unraced /\ BAOriWcidArray[TID[f]] = 0
    BY <1>1 DEF OriEntryFreed, Unraced
  <2>2. At(c, "freeing")
    BY <2>1 DEF OriEntryFreed, CallInv
  <2>3. f \in Entries /\ t \in Tids
    BY <1>1, <2>2 DEF CallInv, At, TypeOK
  <2> QED
    BY <1>1, <2>1, <2>2, <2>3 DEF OriEntryFreed
<1>3. MapInv /\ FreeingInv /\ BitInv
  BY <1>2 DEF SessionInv
<1>4. \A d \in Callers \ {c} : pc'[d] = pc[d]
  BY <1>2, OthersStay DEF Stop
<1>5. pc'[c].at # "freeing"
  BY <1>2 DEF Stop, Loop, TypeOK
<1>6. \A e \in Entries \ {f} : ORI_BA_Status'[e] = ORI_BA_Status[e]
  BY <1>2 DEF TypeOK
<1>7. \A u \in Tids : BAOriWcidArray[u] # f /\ (BAOriWcidArray[u] # 0 => BAOriWcidArray[u] \in Entries \ {f})
  BY <1>1, <1>2, <1>3, BaOriginatorAssumption DEF FreeingInv, TypeOK, Entries
<1>8. \A d \in Callers : At(d, "freeing")' => d # c /\ At(d, "freeing")
  BY <1>4, <1>5 DEF At
<1>9. \A d \in Callers \ {c} : At(d, "freeing") => pc[d].idx \in Entries \ {f}
  BY <1>1, <1>2, <1>3 DEF FreeingInv, CallInv, At
<1>10. MapInv'
  BY <1>2, <1>3, <1>6, <1>7 DEF MapInv, Live
<1>11. FreeingInv'
  BY <1>2, <1>3, <1>4, <1>6, <1>8, <1>9 DEF FreeingInv, Live
<1>12. \A u \in Tids : Established(u)' <=> Established(u)
  BY <1>2, <1>6, <1>7 DEF Established
<1>13. \A d \in Callers \ {c}, u \in Tids : Freeing(d, u)' <=> Freeing(d, u)
  BY <1>2, <1>4 DEF Freeing, At
<1>14. BitInv'
  <2>1. ASSUME NEW u \in TXBAbitmap'
        PROVE  Established(u)' \/ \E d \in Callers : Freeing(d, u)' /\ ORI_BA_Status'[pc'[d].idx] = "Done"
    <3>1. u \in TXBAbitmap /\ u \in Tids /\ (u = t => ORI_BA_Status[f] # "Done")
      BY <1>2, <2>1 DEF TypeOK
    <3>2. CASE Established(u)
      BY <1>12, <3>1, <3>2
    <3>3. ASSUME NEW d \in Callers, Freeing(d, u), ORI_BA_Status[pc[d].idx] = "Done"
          PROVE  Freeing(d, u)' /\ ORI_BA_Status'[pc'[d].idx] = "Done"
      <4>1. d # c
        BY <1>1, <3>1, <3>3 DEF Freeing
      <4> QED
        BY <1>4, <1>6, <1>9, <1>13, <3>1, <3>3, <4>1 DEF Freeing
    <3> QED
      BY <1>3, <3>1, <3>2, <3>3 DEF BitInv
  <2>2. ASSUME NEW u \in Tids, Established(u)' PROVE u \in TXBAbitmap' \/ \E d \in Callers : Freeing(d, u)'
    <3>1. u # t /\ Established(u)
      BY <1>2, <1>12, <2>2 DEF Established
    <3>2. ~Freeing(c, u)
      BY <1>1, <3>1 DEF Freeing
    <3> QED
      BY <1>2, <1>3, <1>13, <3>1, <3>2 DEF BitInv
  <2> QED
    BY <2>1, <2>2 DEF BitInv
<1> QED
  BY <1>10, <1>11, <1>14

\* BAOriSessionAdd: without a crossing the session is its TID's.
LEMMA SessionsAdd == ASSUME TypeOK, CallInv, SessionInv, BAOriSessionAdd PROVE SessionInv'
<1> SUFFICES ASSUME Unraced' PROVE MapInv' /\ FreeingInv' /\ BitInv'
  BY DEF SessionInv
<1>1. PICK f, t : f = pc["mlme"].entry /\ t = pc["mlme"].tid
  OBVIOUS
<1>2. /\ Unraced /\ At("mlme", "grant") /\ t \in Tids /\ BAOriWcidArray[t] = f
      /\ ORI_BA_Status[f] = "WaitRes"
      /\ ORI_BA_Status' = [ORI_BA_Status EXCEPT ![f] = "Done"]
      /\ TXBAbitmap' = TXBAbitmap \cup {t}
      /\ UNCHANGED <<TID, BAOriWcidArray>> /\ Stop("mlme") /\ "mlme" \in Callers
  BY <1>1 DEF BAOriSessionAdd, Unraced, TypeOK, Callers
<1>3. MapInv /\ FreeingInv /\ BitInv
  BY <1>2 DEF SessionInv
<1>4. \A d \in Callers \ {"mlme"} : pc'[d] = pc[d]
  BY <1>2, OthersStay DEF Stop
<1>5. pc'["mlme"].at # "freeing" /\ ~At("mlme", "freeing")
  BY <1>2 DEF Stop, Loop, TypeOK, At
<1>6. \A d \in Callers : At(d, "freeing") => pc'[d] = pc[d] /\ pc[d].idx # f
  BY <1>2, <1>3, <1>4, <1>5 DEF FreeingInv
<1>7. \A d \in Callers : At(d, "freeing")' <=> At(d, "freeing")
  BY <1>4, <1>5 DEF At
<1>8. \A e : Live(e)' <=> Live(e)
  BY <1>2 DEF Live, TypeOK
<1>9. MapInv'
  BY <1>2, <1>3, <1>8 DEF MapInv
<1>10. FreeingInv'
  BY <1>2, <1>3, <1>6, <1>7, <1>8 DEF FreeingInv
<1>11. \A d \in Callers, u \in Tids : Freeing(d, u)' <=> Freeing(d, u)
  BY <1>2, <1>6, <1>7 DEF Freeing
<1>12. \A u \in Tids \ {t} : BAOriWcidArray[u] # 0 => BAOriWcidArray[u] # f
  BY <1>2, <1>3 DEF MapInv
<1>13. \A e \in Entries \ {f} : ORI_BA_Status'[e] = ORI_BA_Status[e]
  BY <1>2 DEF TypeOK
<1>14. \A u \in Tids : BAOriWcidArray[u] # 0 => BAOriWcidArray[u] \in Entries
  BY MapType
<1>15. \A u \in Tids \ {t} : Established(u)' <=> Established(u)
  BY <1>2, <1>12, <1>13, <1>14 DEF Established
<1>16. Established(t)'
  <2>1. f # 0 /\ f \in Entries
    BY <1>1, <1>2, MapType DEF CallInv, At
  <2> QED
    BY <1>2, <2>1 DEF Established, TypeOK
<1>17. \A d \in Callers, u \in Tids : Freeing(d, u) /\ ORI_BA_Status[pc[d].idx] = "Done"
                                        => ORI_BA_Status'[pc'[d].idx] = "Done"
  BY <1>2, <1>6 DEF Freeing, TypeOK
<1>18. BitInv'
  BY <1>2, <1>3, <1>11, <1>15, <1>16, <1>17 DEF BitInv, TypeOK
<1> QED
  BY <1>9, <1>10, <1>18

\* MacEntryZeroed: no TID has a session, and none a bit.
LEMMA SessionsZeroed == ASSUME TypeOK, CallInv, SessionInv, MacEntryZeroed PROVE SessionInv'
<1> SUFFICES ASSUME Unraced' PROVE MapInv' /\ FreeingInv' /\ BitInv'
  BY DEF SessionInv
<1>1. /\ Unraced /\ UNCHANGED <<ORI_BA_Status, TID>> /\ TXBAbitmap' = {}
      /\ \A t \in Tids : BAOriWcidArray'[t] = 0
      /\ pc' = [pc EXCEPT !["mlme"] = Idle] /\ "mlme" \in Callers /\ pc["mlme"].at = "all"
  BY DEF MacEntryZeroed, Unraced, entries, Rest, At, Callers
<1>2. FreeingInv
  BY <1>1 DEF SessionInv
<1>3. (\A d \in Callers \ {"mlme"} : pc'[d] = pc[d]) /\ pc'["mlme"].at = "idle"
  BY <1>1, OthersStay, IdleType
<1>4. \A d \in Callers : At(d, "freeing")' => At(d, "freeing") /\ pc'[d] = pc[d] /\ pc[d].idx # 0
  <2>1. \A d \in Callers : At(d, "freeing") => pc[d].idx # 0
    BY MapType DEF CallInv, At
  <2> QED
    BY <1>3, <2>1 DEF At
<1>5. MapInv'
  BY <1>1 DEF MapInv
<1>6. FreeingInv'
  BY <1>1, <1>2, <1>4 DEF FreeingInv, Live
<1>7. BitInv'
  BY <1>1 DEF BitInv, Established
<1> QED
  BY <1>5, <1>6, <1>7

LEMMA SessionStep == TypeOK /\ CallInv /\ SessionInv /\ [Next]_vars => SessionInv'
<1> SUFFICES ASSUME TypeOK, CallInv, SessionInv, [Next]_vars PROVE SessionInv'
  OBVIOUS
<1>1. ASSUME NEW c \in Callers, pc[c].at # "freeing",
             NEW r, pc' = [pc EXCEPT ![c] = r], r.at # "freeing",
             UNCHANGED <<ORI_BA_Status, TID, BAOriWcidArray, TXBAbitmap>>, marks \subseteq marks'
      PROVE  SessionInv'
  BY <1>1, OthersStay, SessionsStay
<1>2. \A n : Loop(n).at # "freeing"
  BY DEF Loop
<1>3. {"xmit", "ioctl", "mlme", "timer"} = Callers
  BY DEF Callers
<1>4. ASSUME NEW c \in Callers, SetUpTests(c) PROVE SessionInv'
  <2>1. pc[c].at # "freeing" /\ \A d \in Callers \ {c} : pc'[d] = pc[d]
    BY <1>4 DEF SetUpTests, Stop, Go, At, TypeOK
  <2>2. pc'[c].at # "freeing"
    BY <1>2, <1>4 DEF SetUpTests, Stop, Go, TypeOK
  <2> QED
    BY <1>4, <2>1, <2>2, SessionsStay DEF SetUpTests, entries, mac
<1>5. ASSUME NEW c \in Callers, SetUpTimes(c) PROVE SessionInv'
  BY <1>1, <1>2, <1>5 DEF SetUpTimes, Stop, At, entries, mac
<1>6. ASSUME NEW c \in Callers, BASessionTearDownALL(c) PROVE SessionInv'
  <2>1. /\ pc[c].at # "freeing" /\ marks \subseteq marks'
        /\ UNCHANGED <<ORI_BA_Status, TID, BAOriWcidArray, TXBAbitmap>>
    BY <1>6 DEF BASessionTearDownALL, At, entries, mac
  <2> QED
    BY <1>1, <1>2, <1>6, <2>1 DEF BASessionTearDownALL, TearDown, TellsNobody, Start
<1>7. ASSUME NEW c \in Callers, NEW a \in {"look", "alloc", "test"}, NEW t, NEW e, NEW n, Start(c, a, t, e, n),
              pc[c].at # "freeing", UNCHANGED <<ORI_BA_Status, TID, BAOriWcidArray, TXBAbitmap, marks>>
       PROVE  SessionInv'
  <2> DEFINE r == [at |-> a, tid |-> t, entry |-> e, idx |-> e, next |-> n]
  <2>1. pc' = [pc EXCEPT ![c] = r] /\ r.at # "freeing"
    BY <1>7 DEF Start
  <2> HIDE DEF r
  <2> QED
    BY <1>1, <1>7, <2>1
<1>8. ASSUME NEW c \in Callers, SetUpLooks(c) PROVE SessionInv'
  <2>1. pc[c].at # "freeing" /\ UNCHANGED <<ORI_BA_Status, TID, BAOriWcidArray, TXBAbitmap, marks>>
    BY <1>8 DEF SetUpLooks, At, entries, mac
  <2>2. \E a \in {"alloc", "test"} : Start(c, a, pc[c].tid, BAOriWcidArray[pc[c].tid], pc[c].next)
    BY <1>8 DEF SetUpLooks
  <2> QED
    BY <1>7, <2>1, <2>2
<1>9. ASSUME NEW c \in Callers, Continue(c) PROVE SessionInv'
  BY <1>4, <1>5, <1>6, <1>9, <1>8, SessionsAlloc, SessionsFill, SessionsFree, SessionsFreed DEF Continue
<1>10. ASSUME NEW c \in Callers, NEW t \in Tids, SetUpStarts(c, t) PROVE SessionInv'
  <2>1. /\ pc[c].at # "freeing" /\ Start(c, "look", t, 0, NoLoop)
        /\ UNCHANGED <<ORI_BA_Status, TID, BAOriWcidArray, TXBAbitmap, marks>>
    BY <1>10 DEF SetUpStarts, MayCall, At, entries, mac
  <2> QED
    BY <1>7, <2>1
<1>11. ASSUME NEW t \in Tids, BAOriSessionTearDown(t) PROVE SessionInv'
  <2>1. /\ pc["ioctl"].at # "freeing" /\ marks \subseteq marks'
        /\ UNCHANGED <<ORI_BA_Status, TID, BAOriWcidArray, TXBAbitmap>>
    BY <1>11 DEF BAOriSessionTearDown, MayCall, At, entries, mac
  <2> QED
    BY <1>1, <1>2, <1>3, <1>11, <2>1 DEF BAOriSessionTearDown, TearDown, TellsNobody, Start
<1>12. ASSUME NEW t \in Tids, PeerAccepts(t) \/ PeerEnds(t) PROVE SessionInv'
  BY <1>1, <1>2, <1>3, <1>12 DEF PeerAccepts, PeerEnds, TearDown, MayCall, At, Start, entries, mac
<1>13. CASE LinkDown \/ Roam \/ Roamed
  BY <1>1, <1>2, <1>3, <1>13 DEF LinkDown, Roam, Roamed, Rest, Idle, MayCall, At, entries, mac
<1>14. CASE MacEntryZeroed
  BY <1>14, SessionsZeroed
<1>15. CASE Retry
  BY <1>1, <1>2, <1>3, <1>15 DEF Retry, At, Stop, mac
<1>16. ASSUME NEW e \in Entries, BAOriSessionSetupTimeout(e) PROVE SessionInv'
  BY <1>1, <1>3, <1>16 DEF BAOriSessionSetupTimeout, At, Start, entries, mac
<1>17. ASSUME NEW e \in Entries, TimerExpires(e) \/ TimeoutInScan(e) PROVE SessionInv'
  BY <1>17, SessionsRest DEF TimerExpires, TimeoutInScan, entries, mac
<1>18. CASE LinkUp \/ UNCHANGED vars
  BY <1>18, SessionsRest DEF LinkUp, vars, entries, mac
<1> QED
  BY <1>9, <1>10, <1>11, <1>12, <1>13, <1>15, <1>16, <1>17, <1>18, <1>14, SessionsAdd DEF Next

LEMMA InitSession == Init => SessionInv
<1> SUFFICES ASSUME Init PROVE SessionInv
  OBVIOUS
<1>1. \A c \in Callers : ~At(c, "freeing")
  BY DEF Init, At, Idle, Loop
<1> QED
  BY <1>1 DEF Init, SessionInv, MapInv, FreeingInv, BitInv, Established

-----------------------------------------------------------------------------
(* Sessions after the end of the link. *)

\* The AP's MAC table entry has its Aid but after it was zeroed.
AidInv == Aid = BSSID_WCID \/ (~connected /\ pc["mlme"].next = NoLoop)

\* What the MLME thread's loop over the TIDs has come past: it is about to release the
\* session it found, or a new AP may have been asked for another, or there is none.
Torn(t) ==
    \/ At("mlme", "free") /\ pc["mlme"].idx = BAOriWcidArray[t]
    \/ connected /\ (pc["mlme"].next = NoLoop \/ ~Established(t))
    \/ BAOriWcidArray[t] = 0

TornInv == Unraced /\ "nomem" \notin marks => \A t \in Tids : pc["mlme"].next > t => Torn(t)

DownInv == AidInv /\ TornInv

\* The steps of set-up and release establish nothing.
LEMMA NothingEstablished ==
  ASSUME TypeOK, CallInv, NEW c \in Callers, Continue(c), Unraced', NEW t \in Tids, Established(t)'
  PROVE  Established(t)
<1>1. CASE BATableAllocOriEntry(c)
  <2>1. BAOriWcidArray'[t] = BAOriWcidArray[t] /\ BAOriWcidArray[t] \in Entries
    BY <1>1, MapType DEF BATableAllocOriEntry, mac, Established
  <2>2. \A e \in Entries : ORI_BA_Status'[e] = "Done" => ORI_BA_Status[e] = "Done"
    BY <1>1 DEF BATableAllocOriEntry, TypeOK
  <2> QED
    BY <2>1, <2>2 DEF Established
<1>2. CASE SetUpFills(c)
  <2>1. PICK f, u : f = pc[c].entry /\ u = pc[c].tid
    OBVIOUS
  <2>2. f \in Entries /\ u \in Tids
    BY <1>2, <2>1 DEF CallInv, SetUpFills, At, TypeOK
  <2>3. /\ BAOriWcidArray' = [BAOriWcidArray EXCEPT ![u] = f]
        /\ ORI_BA_Status' = [ORI_BA_Status EXCEPT ![f] = "WaitRes"]
    BY <1>2, <2>1 DEF SetUpFills, Unraced
  <2>4. /\ BAOriWcidArray'[u] = f /\ \A v \in Tids \ {u} : BAOriWcidArray'[v] = BAOriWcidArray[v]
        /\ ORI_BA_Status'[f] = "WaitRes" /\ \A e \in Entries \ {f} : ORI_BA_Status'[e] = ORI_BA_Status[e]
    BY <2>2, <2>3 DEF TypeOK
  <2>5. t # u
    BY <2>4 DEF Established
  <2> QED
    BY <2>4, <2>5, MapType DEF Established
<1>3. CASE BATableFreeOriEntry(c)
  <2>1. ORI_BA_Status' = ORI_BA_Status
    BY <1>3 DEF BATableFreeOriEntry, entries
  <2>2. BAOriWcidArray'[t] \in {0, BAOriWcidArray[t]}
    BY <1>3 DEF BATableFreeOriEntry, TypeOK
  <2> QED
    BY <2>1, <2>2 DEF Established
<1>4. CASE OriEntryFreed(c)
  <2>1. BAOriWcidArray' = BAOriWcidArray /\ BAOriWcidArray[t] \in Entries
    BY <1>4, MapType DEF OriEntryFreed, Established
  <2>2. \A e \in Entries : ORI_BA_Status'[e] = "Done" => ORI_BA_Status[e] = "Done"
    BY <1>4 DEF OriEntryFreed, TypeOK
  <2> QED
    BY <2>1, <2>2 DEF Established
<1>5. CASE SetUpLooks(c) \/ SetUpTests(c) \/ SetUpTimes(c) \/ BASessionTearDownALL(c)
  BY <1>5 DEF SetUpLooks, SetUpTests, SetUpTimes, BASessionTearDownALL, entries, mac, Established
<1> QED
  BY <1>1, <1>2, <1>3, <1>4, <1>5 DEF Continue

\* Only the loop over the TIDs counts.
LEMMA CallsCount ==
  ASSUME TypeOK, NEW c \in Callers, Continue(c)
  PROVE  /\ UNCHANGED <<connected, Aid>> /\ marks \subseteq marks'
         /\ \A d \in Callers \ {c} : pc'[d] = pc[d]
         /\ ~BASessionTearDownALL(c) => pc'[c].next = pc[c].next
<1>1. pc[c].next \in 0 .. NoLoop /\ \A n \in 0 .. NoLoop : Loop(n).next = n
  BY LoopType DEF TypeOK
<1>2. CASE SetUpLooks(c) \/ BATableAllocOriEntry(c) \/ SetUpTests(c)
  BY <1>1, <1>2 DEF SetUpLooks, BATableAllocOriEntry, SetUpTests, Stop, Go, Start, TypeOK, mac
<1>3. CASE SetUpFills(c) \/ SetUpTimes(c)
  BY <1>1, <1>3 DEF SetUpFills, SetUpTimes, Stop, Go, TypeOK, mac
<1>4. CASE BATableFreeOriEntry(c) \/ OriEntryFreed(c)
  BY <1>1, <1>4 DEF BATableFreeOriEntry, OriEntryFreed, Stop, Go, TypeOK
<1>5. CASE BASessionTearDownALL(c)
  BY <1>5 DEF BASessionTearDownALL, TearDown, TellsNobody, Start, TypeOK, mac
<1> QED
  BY <1>2, <1>3, <1>4, <1>5 DEF Continue

\* A step that counts no loop on, releases nothing for it and establishes nothing.
LEMMA DownStays ==
  ASSUME DownInv, UNCHANGED <<connected, Aid>>, marks \subseteq marks', pc'["mlme"].next = pc["mlme"].next,
         pc'["mlme"] = pc["mlme"] \/ ~At("mlme", "free"),
         Unraced' => \A t \in Tids :
             (Established(t)' => Established(t)) /\ BAOriWcidArray'[t] \in {0, BAOriWcidArray[t]}
  PROVE  DownInv'
<1>1. AidInv'
  BY DEF DownInv, AidInv
<1>2. ASSUME Unraced', "nomem" \notin marks', NEW t \in Tids, pc'["mlme"].next > t
      PROVE  Torn(t)'
  <2>1. Torn(t) /\ (Established(t)' => Established(t)) /\ BAOriWcidArray'[t] \in {0, BAOriWcidArray[t]}
    BY <1>2 DEF DownInv, TornInv, Unraced
  <2> QED
    BY <2>1 DEF Torn, At
<1> QED
  BY <1>1, <1>2 DEF DownInv, TornInv

\* SetUpFills: without a crossing the link is up, or the loop yet to come to the TID.
LEMMA DownFill ==
  ASSUME TypeOK, CallInv, SessionInv, DownInv, NEW c \in Callers, SetUpFills(c) PROVE DownInv'
<1>1. /\ UNCHANGED <<connected, Aid>> /\ marks \subseteq marks' /\ \A d \in Callers \ {c} : pc'[d] = pc[d]
      /\ pc'[c].next = pc[c].next /\ pc[c].at = "fill" /\ "mlme" \in Callers
  BY CallsCount DEF Continue, SetUpFills, BASessionTearDownALL, At, Callers
<1>2. pc'["mlme"].next = pc["mlme"].next /\ (At("mlme", "free") => pc'["mlme"] = pc["mlme"])
  BY <1>1 DEF At
<1>3. AidInv'
  BY <1>1, <1>2 DEF DownInv, AidInv
<1>4. ASSUME Unraced', "nomem" \notin marks', NEW t \in Tids, pc'["mlme"].next > t
      PROVE  Torn(t)'
  <2>1. PICK f, u : f = pc[c].entry /\ u = pc[c].tid
    OBVIOUS
  <2>2. f \in Entries /\ u \in Tids
    BY <1>1, <2>1 DEF CallInv, TypeOK
  <2>3. /\ BAOriWcidArray' = [BAOriWcidArray EXCEPT ![u] = f] /\ ~LinkEnded(u) /\ Unraced
        /\ ORI_BA_Status' = [ORI_BA_Status EXCEPT ![f] = "WaitRes"]
    BY <1>4, <2>1 DEF SetUpFills, Unraced
  <2>4. Torn(t)
    BY <1>1, <1>2, <1>4, <2>3 DEF DownInv, TornInv
  <2>5. CASE t = u
    <3>1. connected' /\ ~Established(t)'
      BY <1>1, <1>2, <1>4, <2>2, <2>3, <2>5 DEF LinkEnded, Established, TypeOK
    <3> QED
      BY <3>1 DEF Torn
  <2>6. CASE t # u
    <3>1. BAOriWcidArray'[t] = BAOriWcidArray[t]
      BY <2>2, <2>3, <2>6 DEF TypeOK
    <3>2. Established(t)' => Established(t)
      BY <1>4, NothingEstablished DEF Continue
    <3> QED
      BY <1>1, <1>2, <2>4, <3>1, <3>2 DEF Torn, At
  <2> QED
    BY <2>5, <2>6
<1> QED
  BY <1>3, <1>4 DEF DownInv, TornInv

\* BATableFreeOriEntry by the MLME thread: the TID it has come from is unmapped.
LEMMA DownFree ==
  ASSUME TypeOK, CallInv, SessionInv, DownInv, BATableFreeOriEntry("mlme") PROVE DownInv'
<1>1. /\ UNCHANGED <<connected, Aid, ORI_BA_Status>> /\ marks \subseteq marks' /\ pc'["mlme"].next = pc["mlme"].next
      /\ "mlme" \in Callers
  BY CallsCount DEF Continue, BATableFreeOriEntry, BASessionTearDownALL, At, Callers, entries
<1>2. AidInv'
  BY <1>1 DEF DownInv, AidInv
<1>3. ASSUME Unraced', "nomem" \notin marks', NEW t \in Tids, pc'["mlme"].next > t
      PROVE  Torn(t)'
  <2>1. PICK f : f = pc["mlme"].idx
    OBVIOUS
  <2>2. Torn(t) /\ Unraced /\ MapInv
    BY <1>1, <1>3 DEF DownInv, TornInv, SessionInv, Unraced
  <2>3. BAOriWcidArray'[t] \in {0, BAOriWcidArray[t]}
    BY DEF BATableFreeOriEntry, TypeOK
  <2>4. CASE f = BAOriWcidArray[t]
    <3>1. CASE f = 0
      BY <2>3, <2>4, <3>1 DEF Torn
    <3>2. CASE f # 0
      <4>1. f \in InUse /\ TID[f] = t
        BY <2>2, <2>4, <3>2, MapType DEF MapInv, Live, InUse
      <4>2. BAOriWcidArray' = [BAOriWcidArray EXCEPT ![t] = 0]
        BY <1>3, <2>1, <3>2, <4>1 DEF BATableFreeOriEntry, Unraced
      <4> QED
        BY <4>2 DEF Torn, TypeOK
    <3> QED
      BY <3>1, <3>2
  <2>5. CASE f # BAOriWcidArray[t]
    <3>1. Established(t)' => Established(t)
      BY <1>1, <2>3 DEF Established
    <3> QED
      BY <1>1, <2>1, <2>2, <2>3, <2>5, <3>1 DEF Torn
  <2> QED
    BY <2>4, <2>5
<1> QED
  BY <1>2, <1>3 DEF DownInv, TornInv

\* BASessionTearDownALL: the TID it comes to has no session, or one to be released.
LEMMA DownAll ==
  ASSUME TypeOK, CallInv, DownInv, BASessionTearDownALL("mlme") PROVE DownInv'
<1>1. PICK n : n = pc["mlme"].next
  OBVIOUS
<1>2. /\ n \in Tids /\ pc["mlme"].at = "all" /\ "mlme" \in Callers /\ n \in Nat /\ n < NUM_OF_TID
      /\ UNCHANGED <<connected, Aid, ORI_BA_Status, BAOriWcidArray>>
      /\ n + 1 \in 0 .. NoLoop /\ n # NoLoop
  BY <1>1, BaOriginatorAssumption DEF BASessionTearDownALL, At, Callers, Tids, NoLoop, entries, mac
<1>3. AidInv'
  BY <1>1, <1>2 DEF DownInv, AidInv
<1>4. ASSUME Unraced', "nomem" \notin marks', NEW t \in Tids, pc'["mlme"].next > t
      PROVE  Torn(t)'
  <2>1. TearDown("mlme", n, n + 1) /\ UNCHANGED marks
    BY <1>1, <1>4 DEF BASessionTearDownALL
  <2>2. pc'["mlme"].next = n + 1 /\ t \in Nat /\ (t = n \/ n > t)
    <3>1. pc'["mlme"].next = n + 1
      <4>1. CASE pc' = [pc EXCEPT !["mlme"] = Loop(n + 1)]
        BY <1>2, <4>1, LoopType DEF TypeOK
      <4>2. CASE Start("mlme", "free", n, BAOriWcidArray[n], n + 1)
        BY <1>2, <4>2 DEF Start, TypeOK
      <4> QED
        BY <2>1, <4>1, <4>2 DEF TearDown
    <3> QED
      BY <1>2, <1>4, <3>1 DEF Tids
  <2>3. CASE t = n
    <3>1. CASE BAOriWcidArray[n] = 0
      BY <1>2, <2>3, <3>1 DEF Torn
    <3>2. CASE Start("mlme", "free", n, BAOriWcidArray[n], n + 1)
      <4>1. pc'["mlme"].at = "free" /\ pc'["mlme"].idx = BAOriWcidArray[n]
        BY <1>2, <3>2 DEF Start, TypeOK
      <4> QED
        BY <1>2, <2>3, <4>1 DEF Torn, At
    <3> QED
      BY <2>1, <3>1, <3>2 DEF TearDown
  <2>4. CASE n > t
    <3>1. Torn(t)
      BY <1>1, <1>4, <2>1, <2>4 DEF DownInv, TornInv, Unraced
    <3> QED
      BY <1>1, <1>2, <3>1 DEF Torn, At, Established
  <2> QED
    BY <2>2, <2>3, <2>4
<1> QED
  BY <1>3, <1>4 DEF DownInv, TornInv

LEMMA DownByCall ==
  ASSUME TypeOK, CallInv, SessionInv, DownInv, NEW c \in Callers, Continue(c) PROVE DownInv'
<1>1. /\ UNCHANGED <<connected, Aid>> /\ marks \subseteq marks'
      /\ \A d \in Callers \ {c} : pc'[d] = pc[d]
      /\ ~BASessionTearDownALL(c) => pc'[c].next = pc[c].next
      /\ "mlme" \in Callers
  BY CallsCount DEF Callers
<1>2. CASE SetUpFills(c)
  BY <1>2, DownFill
<1>3. CASE c = "mlme" /\ (BATableFreeOriEntry(c) \/ BASessionTearDownALL(c))
  BY <1>3, DownFree, DownAll
<1>4. CASE ~SetUpFills(c) /\ ~(c = "mlme" /\ (BATableFreeOriEntry(c) \/ BASessionTearDownALL(c)))
  <2>1. \A t \in Tids : BAOriWcidArray'[t] \in {0, BAOriWcidArray[t]}
    BY <1>4 DEF Continue, SetUpLooks, BATableAllocOriEntry, SetUpTests, SetUpTimes, BATableFreeOriEntry,
                OriEntryFreed, BASessionTearDownALL, TypeOK, mac
  <2>2. pc'["mlme"].next = pc["mlme"].next
    BY <1>1, <1>4
  <2>3. pc'["mlme"] = pc["mlme"] \/ ~At("mlme", "free")
    BY <1>1, <1>4 DEF Continue, SetUpLooks, BATableAllocOriEntry, SetUpTests, SetUpTimes, OriEntryFreed, At
  <2>4. Unraced' => \A t \in Tids : Established(t)' => Established(t)
    BY NothingEstablished
  <2> QED
    BY <1>1, <2>1, <2>2, <2>3, <2>4, DownStays
<1> QED
  BY <1>2, <1>3, <1>4

\* PeerAddBARspAction does not care whether the link is up.
LEMMA DownAdd == ASSUME TypeOK, CallInv, DownInv, BAOriSessionAdd PROVE DownInv'
<1>1. /\ UNCHANGED <<connected, Aid, BAOriWcidArray>> /\ marks \subseteq marks' /\ "mlme" \in Callers
      /\ At("mlme", "grant") /\ pc' = [pc EXCEPT !["mlme"] = Loop(pc["mlme"].next)]
  BY DEF BAOriSessionAdd, Stop, Callers
<1>2. pc["mlme"].next = NoLoop /\ pc'["mlme"].next = NoLoop
  BY <1>1, IdleType, LoopType, OthersStay DEF CallInv, At
<1>3. AidInv'
  BY <1>1, <1>2 DEF DownInv, AidInv
<1>4. ASSUME Unraced', "nomem" \notin marks', NEW t \in Tids, pc'["mlme"].next > t
      PROVE  Torn(t)'
  <2>1. Torn(t)
    BY <1>1, <1>2, <1>4 DEF DownInv, TornInv, Unraced
  <2> QED
    BY <1>1, <1>2, <2>1 DEF Torn, At
<1> QED
  BY <1>3, <1>4 DEF DownInv, TornInv

LEMMA DownStep == TypeOK /\ CallInv /\ SessionInv /\ DownInv /\ [Next]_vars => DownInv'
<1> SUFFICES ASSUME TypeOK, CallInv, SessionInv, DownInv, [Next]_vars PROVE DownInv'
  OBVIOUS
<1>1. Callers = {"xmit", "ioctl", "mlme", "timer"}
  BY DEF Callers
<1>2. ASSUME NEW c \in Callers, Continue(c) PROVE DownInv'
  BY <1>2, DownByCall
<1>3. CASE BAOriSessionAdd
  BY <1>3, DownAdd
<1>4. ASSUME UNCHANGED <<ORI_BA_Status, BAOriWcidArray, connected, Aid>>, marks \subseteq marks',
             pc'["mlme"] = pc["mlme"] \/ (~At("mlme", "free") /\ pc'["mlme"].next = pc["mlme"].next)
      PROVE  DownInv'
  <2>1. \A t \in Tids : (Established(t)' => Established(t)) /\ BAOriWcidArray'[t] \in {0, BAOriWcidArray[t]}
    BY <1>4 DEF Established
  <2> QED
    BY <1>4, <2>1, DownStays
<1>5. ASSUME NEW c \in Callers \ {"mlme"}, NEW r, pc' = [pc EXCEPT ![c] = r],
             UNCHANGED <<ORI_BA_Status, BAOriWcidArray, connected, Aid, marks>>
      PROVE  DownInv'
  <2>1. pc'["mlme"] = pc["mlme"]
    BY <1>1, <1>5, OthersStay
  <2> QED
    BY <1>4, <1>5, <2>1
<1>6. ASSUME NEW c \in Callers, NEW t \in Tids, SetUpStarts(c, t) PROVE DownInv'
  <2>1. /\ c \in Callers \ {"mlme"}
        /\ UNCHANGED <<ORI_BA_Status, BAOriWcidArray, connected, Aid, marks>>
    BY <1>6 DEF SetUpStarts, entries, mac
  <2> QED
    BY <1>5, <1>6, <2>1 DEF SetUpStarts, Start
<1>7. ASSUME NEW t \in Tids, BAOriSessionTearDown(t) PROVE DownInv'
  <2>1. /\ "ioctl" \in Callers \ {"mlme"}
        /\ UNCHANGED <<ORI_BA_Status, BAOriWcidArray, connected, Aid, marks>>
    BY <1>1, <1>7 DEF BAOriSessionTearDown, entries, mac
  <2> QED
    BY <1>5, <1>7, <2>1 DEF BAOriSessionTearDown, TearDown, TellsNobody, Start
<1>8. MayCall("mlme") => pc["mlme"].next = NoLoop /\ pc["mlme"].at = "idle"
  BY <1>1 DEF MayCall, CallInv, At
<1>9. ASSUME NEW t \in Tids, PeerAccepts(t) \/ PeerEnds(t) PROVE DownInv'
  <2>1. /\ pc["mlme"].next = NoLoop /\ pc["mlme"].at = "idle"
        /\ UNCHANGED <<ORI_BA_Status, BAOriWcidArray, connected, Aid, marks>>
    BY <1>8, <1>9 DEF PeerAccepts, PeerEnds, entries, mac
  <2>2. pc'["mlme"].next = NoLoop
    <3>1. CASE Start("mlme", "grant", t, BAOriWcidArray[t], NoLoop)
      BY <1>1, <3>1 DEF Start, TypeOK
    <3>2. CASE Start("mlme", "free", t, BAOriWcidArray[t], NoLoop)
      BY <1>1, <3>2 DEF Start, TypeOK
    <3>3. CASE pc' = [pc EXCEPT !["mlme"] = Loop(NoLoop)]
      BY <1>1, <3>3, LoopType, IdleType DEF TypeOK
    <3> QED
      BY <1>9, <3>1, <3>2, <3>3 DEF PeerAccepts, PeerEnds, TearDown
  <2> QED
    BY <1>4, <2>1, <2>2 DEF At
<1>10. CASE LinkDown \/ Roam
  <2>1. pc'["mlme"] = Loop(0) /\ Aid' = Aid /\ connected
    BY <1>1, <1>10, OthersStay DEF LinkDown, Roam, mac
  <2>2. pc'["mlme"].next = 0
    BY <2>1 DEF Loop
  <2>3. TornInv'
    BY <2>2 DEF TornInv, Tids
  <2> QED
    BY <2>1, <2>3 DEF DownInv, AidInv
<1>11. CASE MacEntryZeroed
  <2>1. pc'["mlme"] = Idle /\ ~connected' /\ \A t \in Tids : BAOriWcidArray'[t] = 0
    BY <1>1, <1>11, OthersStay DEF MacEntryZeroed, Rest
  <2> QED
    BY <2>1, IdleType DEF DownInv, AidInv, TornInv, Torn
<1>12. CASE Roamed
  <2>1. pc'["mlme"] = Idle /\ connected' /\ Aid' = Aid /\ connected
    BY <1>1, <1>12, OthersStay DEF Roamed, Rest, mac
  <2> QED
    BY <2>1, IdleType DEF DownInv, AidInv, TornInv, Torn
<1>13. CASE LinkUp
  <2>1. pc'["mlme"].next = NoLoop /\ connected' /\ Aid' = BSSID_WCID
    BY <1>8, <1>13 DEF LinkUp
  <2> QED
    BY <2>1 DEF DownInv, AidInv, TornInv, Torn
<1>14. CASE Retry
  BY <1>1, <1>5, <1>14 DEF Retry, Stop, mac
<1>15. ASSUME NEW e \in Entries, BAOriSessionSetupTimeout(e) PROVE DownInv'
  BY <1>1, <1>5, <1>15 DEF BAOriSessionSetupTimeout, Start, entries, mac
<1>16. ASSUME NEW e \in Entries, TimerExpires(e) \/ TimeoutInScan(e) PROVE DownInv'
  BY <1>4, <1>16 DEF TimerExpires, TimeoutInScan, entries, mac
<1>17. CASE UNCHANGED vars
  BY <1>4, <1>17 DEF vars, entries, mac
<1> QED
  BY <1>2, <1>3, <1>6, <1>7, <1>9, <1>10, <1>11, <1>12, <1>13, <1>14, <1>15, <1>16, <1>17 DEF Next

-----------------------------------------------------------------------------
(* NoSessionLost is not inductive: a caller that merely looks at an entry is *)
(* busy with it.  OwnedInv names the two that answer for an unmapped entry.  *)

\* The caller that has allocated the entry, or the one that has unmapped it.
Owned(e) == \E c \in Callers :
    \/ At(c, "fill") /\ pc[c].entry = e /\ pc[c].idx = e /\ ORI_BA_Status[e] = "USED"
    \/ At(c, "freeing") /\ pc[c].idx = e

Mapped(e) == Wcid[e] = BSSID_WCID /\ BAOriWcidArray[TID[e]] = e

OwnedInv == Unraced /\ "nomem" \notin marks => \A e \in InUse : Mapped(e) \/ Owned(e)

\* A step of a caller that owns no entry, and that leaves table and mapping alone.
LEMMA OwnersKept ==
  ASSUME OwnedInv, NEW c \in Callers, pc[c].at \notin {"fill", "freeing"},
         \A d \in Callers \ {c} : pc'[d] = pc[d],
         UNCHANGED <<ORI_BA_Status, TID, Wcid, BAOriWcidArray>>, marks \subseteq marks'
  PROVE  OwnedInv'
<1> SUFFICES ASSUME Unraced', "nomem" \notin marks', NEW e \in InUse' PROVE (Mapped(e) \/ Owned(e))'
  BY DEF OwnedInv
<1>1. Unraced /\ "nomem" \notin marks /\ e \in InUse
  BY DEF Unraced, InUse
<1>2. CASE Mapped(e)
  BY <1>2 DEF Mapped
<1>3. CASE Owned(e)
  <2>1. PICK d \in Callers : \/ At(d, "fill") /\ pc[d].entry = e /\ pc[d].idx = e /\ ORI_BA_Status[e] = "USED"
                             \/ At(d, "freeing") /\ pc[d].idx = e
    BY <1>3 DEF Owned
  <2>2. pc'[d] = pc[d]
    BY <2>1 DEF At
  <2> QED
    BY <2>1, <2>2 DEF Owned, At
<1> QED
  BY <1>1, <1>2, <1>3 DEF OwnedInv

LEMMA OwnedByStep ==
  ASSUME TypeOK, CallInv, AidInv, OwnedInv, NEW c \in Callers, Continue(c)
  PROVE  OwnedInv'
<1> DEFINE Owns(d, e) == \/ At(d, "fill") /\ pc[d].entry = e /\ pc[d].idx = e /\ ORI_BA_Status[e] = "USED"
                         \/ At(d, "freeing") /\ pc[d].idx = e
<1>1. CASE BATableAllocOriEntry(c)
  <2>1. \A d \in Callers \ {c} : pc'[d] = pc[d]
    BY <1>1, OthersStay DEF BATableAllocOriEntry, Stop, Start
  <2>2. CASE UNCHANGED ORI_BA_Status
    BY <1>1, <2>1, <2>2, OwnersKept DEF BATableAllocOriEntry, At, mac
  <2>3. ASSUME NEW f \in Entries \ InUse, ORI_BA_Status' = [ORI_BA_Status EXCEPT ![f] = "USED"],
               Start(c, "fill", pc[c].tid, f, pc[c].next)
        PROVE  OwnedInv'
    <3> SUFFICES ASSUME Unraced, "nomem" \notin marks, NEW e \in InUse' PROVE (Mapped(e) \/ Owned(e))'
      BY <1>1 DEF OwnedInv, BATableAllocOriEntry, Unraced
    <3>1. CASE e = f
      <4>1. /\ pc'[c].at = "fill" /\ pc'[c].entry = e /\ pc'[c].idx = e
            /\ ORI_BA_Status'[e] = "USED"
        BY <2>3, <3>1, OthersStay DEF Start, TypeOK
      <4> QED
        BY <4>1 DEF Owned, At
    <3>2. CASE e # f
      <4>1. e \in InUse /\ ORI_BA_Status'[e] = ORI_BA_Status[e]
        BY <2>3, <3>2 DEF InUse, TypeOK
      <4>2. ASSUME NEW d \in Callers, Owns(d, e) PROVE Owned(e)'
        <5>1. pc'[d] = pc[d]
          BY <1>1, <2>1, <4>2 DEF BATableAllocOriEntry, At
        <5> QED
          BY <4>1, <4>2, <5>1 DEF Owned, At
      <4> QED
        BY <1>1, <4>1, <4>2 DEF OwnedInv, Owned, Mapped, BATableAllocOriEntry, mac
    <3> QED
      BY <3>1, <3>2
  <2> QED
    BY <1>1, <2>2, <2>3 DEF BATableAllocOriEntry
<1>2. CASE SetUpLooks(c)
  <2>1. pc[c].at \notin {"fill", "freeing"}
    BY <1>2 DEF SetUpLooks, At
  <2>2. \A d \in Callers \ {c} : pc'[d] = pc[d]
    BY <1>2 DEF SetUpLooks, Start, TypeOK
  <2> QED
    BY <1>2, <2>1, <2>2, OwnersKept DEF SetUpLooks, entries, mac
<1>3. CASE SetUpTests(c)
  <2>1. pc[c].at \notin {"fill", "freeing"}
    BY <1>3 DEF SetUpTests, At
  <2>2. \A d \in Callers \ {c} : pc'[d] = pc[d]
    BY <1>3 DEF SetUpTests, Stop, Go, TypeOK
  <2> QED
    BY <1>3, <2>1, <2>2, OwnersKept DEF SetUpTests, entries, mac
<1>4. CASE SetUpFills(c)
  <2> DEFINE f == pc[c].entry
             t == pc[c].tid
  <2>1. f \in Entries /\ t \in Tids
    BY <1>4 DEF CallInv, SetUpFills, At, TypeOK
  <2> SUFFICES ASSUME Unraced', "nomem" \notin marks', NEW e \in InUse' PROVE (Mapped(e) \/ Owned(e))'
    BY DEF OwnedInv
  <2>2. Unraced /\ BAOriWcidArray[t] \in {0, f} /\ pc[c].idx = f /\ ~LinkEnded(t) /\ "nomem" \notin marks
    BY <1>4 DEF SetUpFills, Unraced
  <2>3. /\ BAOriWcidArray' = [BAOriWcidArray EXCEPT ![t] = f] /\ TID' = [TID EXCEPT ![f] = t]
        /\ Wcid' = [Wcid EXCEPT ![f] = Aid]
    BY <1>4, <2>2 DEF SetUpFills
  <2>6. Aid = BSSID_WCID
    <3>1. NoLoop > t
      BY <2>1, BaOriginatorAssumption DEF Tids, NoLoop
    <3> QED
      BY <2>2, <3>1 DEF AidInv, LinkEnded
  <2>4. CASE e = f
    BY <2>1, <2>3, <2>4, <2>6 DEF Mapped, TypeOK
  <2>5. CASE e # f
    <3>1. /\ e \in InUse /\ ORI_BA_Status'[e] = ORI_BA_Status[e] /\ Wcid'[e] = Wcid[e]
          /\ TID'[e] = TID[e] /\ TID[e] \in Tids
      BY <1>4, <2>1, <2>3, <2>5 DEF SetUpFills, InUse, TypeOK
    <3>2. CASE Mapped(e)
      <4>1. TID[e] # t
        BY <2>2, <2>5, <3>1, <3>2 DEF Mapped, InUse, Entries
      <4> QED
        BY <2>3, <3>1, <3>2, <4>1 DEF Mapped, TypeOK
    <3>3. ASSUME NEW d \in Callers, Owns(d, e) PROVE Owned(e)'
      <4>1. d # c
        BY <1>4, <2>5, <3>3 DEF SetUpFills, At
      <4>2. pc'[d] = pc[d]
        BY <1>4, <4>1 DEF SetUpFills, Go, TypeOK
      <4> QED
        BY <3>1, <3>3, <4>2 DEF Owned, At
    <3> QED
      BY <2>2, <3>1, <3>2, <3>3 DEF OwnedInv, Owned
  <2> QED
    BY <2>4, <2>5
<1>5. CASE SetUpTimes(c)
  <2>1. pc[c].at \notin {"fill", "freeing"} /\ marks \subseteq marks'
    BY <1>5 DEF SetUpTimes, At
  <2>2. \A d \in Callers \ {c} : pc'[d] = pc[d]
    BY <1>5 DEF SetUpTimes, Stop, TypeOK
  <2> QED
    BY <1>5, <2>1, <2>2, OwnersKept DEF SetUpTimes, entries, mac
<1>6. CASE BATableFreeOriEntry(c)
  <2> DEFINE f == pc[c].idx
  <2>1. pc[c].at = "free" /\ \A d \in Callers \ {c} : pc'[d] = pc[d]
    BY <1>6 DEF BATableFreeOriEntry, Stop, Go, At, TypeOK
  <2>2. CASE UNCHANGED <<BAOriWcidArray, marks>>
    BY <1>6, <2>1, <2>2, OwnersKept DEF BATableFreeOriEntry, entries
  <2>3. CASE ~(UNCHANGED <<BAOriWcidArray, marks>>)
    <3> SUFFICES ASSUME Unraced', "nomem" \notin marks', NEW e \in InUse' PROVE (Mapped(e) \/ Owned(e))'
      BY DEF OwnedInv
    <3>1. /\ Unraced /\ "nomem" \notin marks /\ BAOriWcidArray[TID[f]] = f /\ f \in InUse
          /\ BAOriWcidArray' = [BAOriWcidArray EXCEPT ![TID[f]] = 0] /\ Go(c, "freeing")
      BY <1>6, <2>3 DEF BATableFreeOriEntry, Unraced
    <3>2. e \in InUse /\ UNCHANGED <<TID, Wcid, ORI_BA_Status>>
      BY <1>6 DEF BATableFreeOriEntry, InUse, entries
    <3>3. CASE e = f
      <4>1. pc'[c].at = "freeing" /\ pc'[c].idx = e
        BY <3>1, <3>3 DEF Go, TypeOK
      <4> QED
        BY <4>1 DEF Owned, At
    <3>4. CASE e # f
      <4>1. CASE Mapped(e)
        <5>1. TID[e] # TID[f]
          BY <3>1, <3>4, <4>1 DEF Mapped
        <5> QED
          BY <3>1, <3>2, <4>1, <5>1 DEF Mapped, TypeOK, InUse
      <4>2. ASSUME NEW d \in Callers, Owns(d, e) PROVE Owned(e)'
        <5>1. pc'[d] = pc[d]
          BY <2>1, <4>2 DEF At
        <5> QED
          BY <3>2, <4>2, <5>1 DEF Owned, At
      <4> QED
        BY <3>1, <3>2, <4>1, <4>2 DEF OwnedInv, Owned
    <3> QED
      BY <3>3, <3>4
  <2> QED
    BY <2>2, <2>3
<1>7. CASE OriEntryFreed(c)
  <2> DEFINE f == pc[c].idx
  <2> SUFFICES ASSUME Unraced', "nomem" \notin marks', NEW e \in InUse' PROVE (Mapped(e) \/ Owned(e))'
    BY DEF OwnedInv
  <2>1. Unraced /\ "nomem" \notin marks /\ UNCHANGED <<TID, Wcid, BAOriWcidArray>> /\ Stop(c)
    BY <1>7 DEF OriEntryFreed, Unraced
  <2>2. e # f /\ e \in InUse /\ ORI_BA_Status'[e] = ORI_BA_Status[e]
    BY <1>7 DEF OriEntryFreed, InUse, TypeOK
  <2>3. ASSUME NEW d \in Callers, Owns(d, e) PROVE Owned(e)'
    <3>1. d # c
      BY <1>7, <2>1, <2>2, <2>3 DEF OriEntryFreed, CallInv, At
    <3>2. pc'[d] = pc[d]
      BY <2>1, <3>1 DEF Stop, TypeOK
    <3> QED
      BY <2>2, <2>3, <3>2 DEF Owned, At
  <2> QED
    BY <2>1, <2>2, <2>3 DEF OwnedInv, Owned, Mapped
<1>8. CASE BASessionTearDownALL(c)
  <2>1. pc[c].at \notin {"fill", "freeing"} /\ marks \subseteq marks'
    BY <1>8 DEF BASessionTearDownALL, At
  <2>2. \A d \in Callers \ {c} : pc'[d] = pc[d]
    BY <1>8 DEF BASessionTearDownALL, TearDown, TellsNobody, Start, TypeOK
  <2> QED
    BY <1>8, <2>1, <2>2, OwnersKept DEF BASessionTearDownALL, entries, mac
<1> QED
  BY <1>1, <1>3, <1>4, <1>5, <1>6, <1>7, <1>8, <1>2 DEF Continue

LEMMA OwnedByAdd == ASSUME TypeOK, OwnedInv, BAOriSessionAdd PROVE OwnedInv'
<1> DEFINE f == pc["mlme"].entry
<1> SUFFICES ASSUME Unraced', "nomem" \notin marks', NEW e \in InUse' PROVE (Mapped(e) \/ Owned(e))'
  BY DEF OwnedInv
<1>1. Unraced /\ "nomem" \notin marks /\ ORI_BA_Status[f] = "WaitRes" /\ UNCHANGED <<TID, Wcid, BAOriWcidArray>>
  BY DEF BAOriSessionAdd, Unraced
<1>2. e \in InUse /\ (e # f => ORI_BA_Status'[e] = ORI_BA_Status[e])
  BY <1>1 DEF BAOriSessionAdd, InUse, TypeOK
<1>3. ASSUME NEW d \in Callers,
             \/ At(d, "fill") /\ pc[d].entry = e /\ pc[d].idx = e /\ ORI_BA_Status[e] = "USED"
             \/ At(d, "freeing") /\ pc[d].idx = e
      PROVE  Owned(e)'
  <2>1. d # "mlme"
    BY <1>3 DEF BAOriSessionAdd, At
  <2>2. pc'[d] = pc[d]
    BY <2>1 DEF BAOriSessionAdd, Stop, TypeOK
  <2> QED
    BY <1>1, <1>2, <1>3, <2>2 DEF Owned, At
<1> QED
  BY <1>1, <1>2, <1>3 DEF OwnedInv, Owned, Mapped

LEMMA OwnedStep == TypeOK /\ CallInv /\ DownInv /\ OwnedInv /\ [Next]_vars => OwnedInv'
<1> SUFFICES ASSUME TypeOK, CallInv, DownInv, OwnedInv, [Next]_vars PROVE OwnedInv'
  OBVIOUS
<1>1. ASSUME NEW c \in Callers, Continue(c) PROVE OwnedInv'
  BY <1>1, OwnedByStep DEF DownInv
<1>2. CASE BAOriSessionAdd
  BY <1>2, OwnedByAdd
<1>3. ASSUME NEW c \in Callers, pc[c].at \notin {"fill", "freeing"},
             NEW r, pc' = [pc EXCEPT ![c] = r],
             UNCHANGED <<ORI_BA_Status, TID, Wcid, BAOriWcidArray>>, marks \subseteq marks'
      PROVE  OwnedInv'
  BY <1>3, OthersStay, OwnersKept
<1>4. {"xmit", "ioctl", "mlme", "timer"} = Callers
  BY DEF Callers
<1>5. ASSUME NEW c \in Callers, NEW t \in Tids, SetUpStarts(c, t) PROVE OwnedInv'
  BY <1>3, <1>5 DEF SetUpStarts, MayCall, At, Start, entries, mac
<1>6. ASSUME NEW t \in Tids, BAOriSessionTearDown(t) PROVE OwnedInv'
  <2>1. pc["ioctl"].at = "idle" /\ marks \subseteq marks' /\ UNCHANGED <<ORI_BA_Status, TID, Wcid, BAOriWcidArray>>
    BY <1>6 DEF BAOriSessionTearDown, MayCall, At, entries, mac
  <2> QED
    BY <1>3, <1>4, <1>6, <2>1 DEF BAOriSessionTearDown, TearDown, TellsNobody, Start
<1>7. ASSUME NEW t \in Tids, PeerEnds(t) PROVE OwnedInv'
  BY <1>3, <1>4, <1>7 DEF PeerEnds, TearDown, MayCall, At, Start, entries, mac
<1>8. ASSUME NEW t \in Tids, PeerAccepts(t) PROVE OwnedInv'
  BY <1>3, <1>4, <1>8 DEF PeerAccepts, MayCall, At, Start, entries, mac
<1>9. CASE LinkDown \/ Roam \/ Roamed
  BY <1>3, <1>4, <1>9 DEF LinkDown, Roam, Roamed, Rest, MayCall, At, entries, mac
<1>10. CASE MacEntryZeroed
  <2>1. /\ pc' = [pc EXCEPT !["mlme"] = Idle] /\ pc["mlme"].at = "all" /\ "mlme" \in Callers
        /\ UNCHANGED <<ORI_BA_Status, TID, Wcid, marks>> /\ BAOriWcidArray' = [t \in Tids |-> 0]
    BY <1>4, <1>10 DEF MacEntryZeroed, Rest, At, entries
  <2>2. CASE Unraced /\ "nomem" \notin marks
    <3>1. \A t \in Tids : pc["mlme"].next > t
      BY <1>10, BaOriginatorAssumption DEF MacEntryZeroed, Tids
    <3>2. \A t \in Tids : BAOriWcidArray[t] = 0
      BY <1>10, <2>2, <3>1 DEF MacEntryZeroed, DownInv, TornInv, Torn, At
    <3>3. BAOriWcidArray' = BAOriWcidArray
      BY <2>1, <3>2 DEF TypeOK
    <3> QED
      BY <1>3, <2>1, <3>3
  <2> QED
    BY <2>1, <2>2 DEF OwnedInv, Unraced
<1>11. CASE Retry
  BY <1>3, <1>4, <1>11 DEF Retry, At, Stop, mac
<1>12. ASSUME NEW e \in Entries, BAOriSessionSetupTimeout(e) PROVE OwnedInv'
  BY <1>3, <1>4, <1>12 DEF BAOriSessionSetupTimeout, At, Start, entries, mac
<1>13. CASE UNCHANGED <<ORI_BA_Status, TID, Wcid, BAOriWcidArray, pc, marks>>
  BY <1>13 DEF OwnedInv, Owned, Mapped, Unraced, InUse, At
<1>14. ASSUME NEW e \in Entries, TimerExpires(e) \/ TimeoutInScan(e) PROVE OwnedInv'
  BY <1>13, <1>14 DEF TimerExpires, TimeoutInScan, entries, mac
<1>15. CASE LinkUp \/ UNCHANGED vars
  BY <1>13, <1>15 DEF LinkUp, vars, entries, mac
<1> QED
  BY <1>1, <1>2, <1>5, <1>6, <1>7, <1>8, <1>9, <1>11, <1>12, <1>14, <1>15, <1>10 DEF Next

-----------------------------------------------------------------------------
\* ba_action.c:844-1004: no caller uses an index outside the table, and each is at one
\* of the places of its calls, whatever the size of the table.
THEOREM OriginatorTypes == Spec => []TypeOK
<1>1. IInv => TypeOK
  BY DEF IInv
<1> QED
  BY InitIInv, StepIInv, <1>1, PTL DEF Spec

\* ba_action.c:818, 875: the counter that limits the table is the number of entries in
\* use, for every size of the table, until two calls for one session cross.
THEOREM SessionsAreCounted == Spec => []SessionsCounted
<1>1. IInv => SessionsCounted
  BY DEF IInv
<1> QED
  BY InitIInv, StepIInv, <1>1, PTL DEF Spec

\* ba_action.c:554, 860: no entry of the table is lost, whatever its size, until two
\* calls for one session cross or a DELBA has no memory: one that is in use is mapped in
\* the AP's MAC table entry, also when that is zeroed (connect.c:2794), or being filled by
\* the caller that allocated it, or being freed by the one that unmapped it.
THEOREM SessionsAreKept == Spec => []NoSessionLost
<1>1. Init => OwnedInv /\ DownInv
  BY IdleType DEF Init, OwnedInv, InUse, DownInv, AidInv, TornInv, Torn
<1>2. OwnedInv => NoSessionLost
  BY DEF OwnedInv, Owned, Mapped, NoSessionLost, Busy, At
<1>3. IInv /\ SessionInv /\ [Next]_vars => SessionInv'
  BY SessionStep DEF IInv
<1>4. IInv /\ SessionInv /\ DownInv /\ [Next]_vars => DownInv'
  BY DownStep DEF IInv
<1>5. IInv /\ DownInv /\ OwnedInv /\ [Next]_vars => OwnedInv'
  BY OwnedStep DEF IInv
<1> QED
  BY InitIInv, StepIInv, InitSession, <1>1, <1>2, <1>3, <1>4, <1>5, PTL DEF Spec

\* ba_action.c:620, 868: until two calls for one session cross, a TID is aggregated
\* exactly while its session is established, except while a call for that TID or its
\* session is under way, for every size of the table and number of TIDs.
THEOREM BitsFollowSessions == Spec => []AggregatesInSession
<1>1. CallInv /\ SessionInv => AggregatesInSession
  <2> SUFFICES ASSUME CallInv, SessionInv, Unraced, NEW t \in Tids,
                      ~\E c \in Callers : ~At(c, "idle") /\ (pc[c].tid = t \/ (pc[c].idx # 0 /\ TID[pc[c].idx] = t))
               PROVE  t \in TXBAbitmap <=> Established(t)
    BY DEF AggregatesInSession, Established
  <2>1. \A c \in Callers : ~Freeing(c, t)
    BY MapType DEF Freeing, CallInv, At, Entries
  <2> QED
    BY <2>1 DEF SessionInv, BitInv
<1>2. IInv /\ SessionInv /\ [Next]_vars => SessionInv'
  BY SessionStep DEF IInv
<1>3. IInv => CallInv
  BY DEF IInv
<1> QED
  BY InitIInv, StepIInv, InitSession, <1>1, <1>2, <1>3, PTL DEF Spec

\* ba_action.c:958-983: until two calls for one session cross, and unless a DELBA could
\* not be allocated, no agreement with one AP is left when the next link comes up, nor
\* any entry in use of a table of any size, with the calls over; nor is an agreement
\* left for the AP the station has roamed to.
THEOREM NoneOutlivesTheLink == Spec => AgreementsEndWithLink
<1>1. Init => OwnedInv /\ DownInv
  BY IdleType DEF Init, OwnedInv, InUse, DownInv, AidInv, TornInv, Torn
<1>2. IInv /\ SessionInv /\ [Next]_vars => SessionInv'
  BY SessionStep DEF IInv
<1>3. IInv /\ SessionInv /\ DownInv /\ [Next]_vars => DownInv'
  BY DownStep DEF IInv
<1>4. IInv /\ DownInv /\ OwnedInv /\ [Next]_vars => OwnedInv'
  BY OwnedStep DEF IInv
<1>5. IInv /\ SessionInv /\ DownInv /\ OwnedInv =>
         [/\ LinkUp \/ Roamed
          /\ Unraced /\ "nomem" \notin marks
          /\ \A c \in Callers : At(c, "idle") \/ At(c, "all")
          => TXBAbitmap = {} /\ (LinkUp => InUse = {})]_vars
  <2> SUFFICES ASSUME TypeOK, CallInv, SessionInv, DownInv, OwnedInv, LinkUp \/ Roamed,
                      Unraced, "nomem" \notin marks, \A c \in Callers : At(c, "idle") \/ At(c, "all")
               PROVE  TXBAbitmap = {} /\ (LinkUp => InUse = {})
    BY DEF IInv
  <2>1. /\ "mlme" \in Callers /\ ~At("mlme", "free") /\ \A c \in Callers, t \in Tids : ~Freeing(c, t)
        /\ \A e : ~Owned(e)
    BY DEF Callers, Freeing, Owned, At
  <2>2. ASSUME NEW t \in Tids
        PROVE  ~Established(t) /\ (LinkUp => BAOriWcidArray[t] = 0)
    <3>1. pc["mlme"].next > t /\ (connected => pc["mlme"].next # NoLoop) /\ (LinkUp => ~connected)
      <4>1. NUM_OF_TID > t /\ NoLoop > t /\ NUM_OF_TID # NoLoop
        BY BaOriginatorAssumption DEF Tids, NoLoop
      <4>2. CASE LinkUp
        BY <2>1, <4>1, <4>2 DEF LinkUp, MayCall, CallInv, At
      <4>3. CASE Roamed
        BY <4>1, <4>3 DEF Roamed, LinkUp, MayCall, At
      <4> QED
        BY <4>2, <4>3
    <3>2. Torn(t)
      BY <3>1 DEF DownInv, TornInv
    <3> QED
      BY <2>1, <3>1, <3>2 DEF Torn, Established
  <2>3. TXBAbitmap = {}
    BY <2>1, <2>2 DEF SessionInv, BitInv, TypeOK
  <2>4. LinkUp => InUse = {}
    BY <2>1, <2>2 DEF OwnedInv, Mapped, InUse, TypeOK, Entries
  <2> QED
    BY <2>3, <2>4
<1> QED
  BY InitIInv, StepIInv, InitSession, <1>1, <1>2, <1>3, <1>4, <1>5, PTL DEF Spec, AgreementsEndWithLink

\* ba_action.c:818-838: while no calls cross, an allocation that passes the test of the
\* counter finds a free entry; the search does not fall through to its last one.
THEOREM AllocationFinds ==
  Spec => [](Unraced /\ numAsOriginator < MAX_LEN_OF_BA_ORI_TABLE - 1 => InUse # Entries)
<1>1. IInv => (Unraced /\ numAsOriginator < MAX_LEN_OF_BA_ORI_TABLE - 1 => InUse # Entries)
  BY EntriesFinite, BaOriginatorAssumption DEF IInv, SessionsCounted
<1> QED
  BY InitIInv, StepIInv, <1>1, PTL DEF Spec
=============================================================================
