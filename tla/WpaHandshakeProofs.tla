-------------------------- MODULE WpaHandshakeProofs --------------------------
(***************************************************************************)
(* Proofs about WpaHandshake, for every value of its constants: the types; *)
(* that WPARetryExec never counts beyond its last case, whatever the MLME  *)
(* thread does while its handler is at work; that no handshake is left to  *)
(* itself but after a lost start or one of three failed calls; that both   *)
(* ends install the same pairwise key; that the station's port opens on    *)
(* both keys; and that what the access point takes for established is      *)
(* established at the station.                                             *)
(***************************************************************************)
EXTENDS WpaHandshake, TLAPS

\* What RetriesBounded rests on: a timer that runs has a count left, and so has
\* whatever the handler has chosen that sets the timer again.  MLME actions may have
\* set the counter anew by then, never beyond these bounds.  And the flag of a start is
\* that of a timer or of an expiry whose handler has not ended.
RetryInv ==
    /\ ap.ReTryCounter <= GROUP_RETRY + 2
    /\ retryTimer => ap.ReTryCounter <= GROUP_RETRY + 1
    /\ timerPc \in {"start", "send"} => ap.ReTryCounter <= GROUP_RETRY
    /\ timerPc = "group" => ap.ReTryCounter <= GROUP_RETRY + 1
    /\ timerPc = "rekey" => RekeyCountDown = 3
    /\ startFlag => startTimer \/ timerPc \in {"enqueue", "clear"}

IInv == TypeOK /\ RetryInv

USE DEF NOTUSE, INITPMK, INITPSK, PTKSTART, NEGOTIATING, DONE,
        MSG1_RETRY, MSG3_RETRY, GROUP_RETRY, starting, OpensAtMsg3

-----------------------------------------------------------------------------
\* A transmission leaves a channel of frames within its bound.
LEMMA TransmitType ==
    ASSUME NEW ch \in Seq(Frames), Len(ch) <= Cap, NEW f \in Frames,
           NEW x \in Transmit(ch, f)
    PROVE  x \in Seq(Frames) /\ Len(x) <= Cap
<1>1. CASE x = ch
  BY <1>1
<1>2. CASE Len(ch) < Cap /\ x = Append(ch, f)
  BY <1>2, WpaAssumption
<1>3. QED
  BY <1>1, <1>2 DEF Transmit

\* The frames of associations.
LEMMA FrameType == ASSUME NEW t \in FrameTypes PROVE Frame(t) \in Frames
BY DEF Frame, Frames, Keys, NoKey

\* The frames of handshakes.
LEMMA EapolType ==
    ASSUME NEW t \in FrameTypes, NEW e, e.R_Counter \in Nat, e.PTK \in Keys
    PROVE  Eapol(t, e) \in Frames
<1>1. NoKey \in Keys
  BY DEF NoKey, Keys
<1>2. QED
  BY <1>1, FrameType DEF Eapol, Frames, Frame

\* Counting up changes the replay counter only.
LEMMA CountUpType ==
    ASSUME NEW e \in Entries
    PROVE  CountUp(e) \in Entries /\ CountUp(e).ReTryCounter = e.ReTryCounter
BY DEF CountUp, Entries

\* A frame with another nonce, group key or encryption is a frame.
LEMMA FrameUpdates ==
    ASSUME NEW f \in Frames, NEW n \in Nat, NEW g \in Nat, NEW k \in Keys
    PROVE  /\ [f EXCEPT !.nonce = n] \in Frames
           /\ [f EXCEPT !.gtk = g] \in Frames
           /\ [f EXCEPT !.nonce = n, !.gtk = g] \in Frames
           /\ [f EXCEPT !.enc = k] \in Frames
BY DEF Frames

\* Encryption makes a frame of a frame.
LEMMA EncryptedType ==
    ASSUME NEW f \in Frames, NEW e, e.PairwiseKey \in Keys
    PROVE  Encrypted(f, e) \in Frames /\ EncryptedIfSecured(f, e) \in Frames
BY DEF Encrypted, EncryptedIfSecured, Frames

-----------------------------------------------------------------------------
\* Group message 1 keeps the types and the count of retries (WPAStart2WayGroupHS).
LEMMA GroupStep ==
    ASSUME TypeOK, NEW e \in Entries, WPAStart2WayGroupHS(e)
    PROVE  /\ ap' \in Entries /\ ap'.ReTryCounter = e.ReTryCounter
           /\ down' \in Seq(Frames) /\ Len(down') <= Cap
<1> DEFINE n == CountUp(e)
           f == Encrypted([Eapol("group1", n) EXCEPT !.gtk = GTK], n)
<1>1. n \in Entries /\ n.ReTryCounter = e.ReTryCounter
  BY CountUpType
<1>2. f \in Frames
  <2>1. n.R_Counter \in Nat /\ n.PTK \in Keys /\ n.PairwiseKey \in Keys
    BY <1>1 DEF Entries
  <2>2. GTK \in Nat
    BY WpaAssumption DEF TypeOK
  <2>3. Eapol("group1", n) \in Frames
    BY <2>1, EapolType DEF FrameTypes
  <2>4. [Eapol("group1", n) EXCEPT !.gtk = GTK] \in Frames
    BY <2>2, <2>3 DEF Frames
  <2>5. QED
    BY <2>1, <2>4, EncryptedType
<1>3. CASE ap' = n /\ down' \in Transmit(down, f)
  BY <1>1, <1>2, <1>3, TransmitType DEF TypeOK
<1>4. CASE ap' = e /\ UNCHANGED down
  BY <1>4 DEF TypeOK
<1>5. QED
  BY <1>3, <1>4 DEF WPAStart2WayGroupHS

\* Message 1 keeps the types and the count of retries (WPAStart4WayHS).
LEMMA Msg1Step ==
    ASSUME TypeOK, NEW e \in Entries, SendMsg1(e)
    PROVE  /\ ap' \in Entries /\ ap'.ReTryCounter = e.ReTryCounter
           /\ down' \in Seq(Frames) /\ Len(down') <= Cap
           /\ nonces' \in [ap : Nat, sta : Nat] /\ retryTimer' \in BOOLEAN
<1> DEFINE n == [CountUp(e) EXCEPT !.ANonce = nonces.ap + 1]
           f == EncryptedIfSecured([Eapol("pair1", n) EXCEPT !.nonce = n.ANonce], n)
<1>1. n \in Entries /\ n.ReTryCounter = e.ReTryCounter
  <2>1. CountUp(e) \in Entries /\ CountUp(e).ReTryCounter = e.ReTryCounter
    BY CountUpType
  <2>2. nonces.ap + 1 \in Nat
    BY DEF TypeOK
  <2>3. QED
    BY <2>1, <2>2 DEF Entries
<1>2. f \in Frames
  <2>1. n.R_Counter \in Nat /\ n.PTK \in Keys /\ n.PairwiseKey \in Keys /\ n.ANonce \in Nat
    BY <1>1 DEF Entries
  <2>2. Eapol("pair1", n) \in Frames
    BY <2>1, EapolType DEF FrameTypes
  <2>3. [Eapol("pair1", n) EXCEPT !.nonce = n.ANonce] \in Frames
    BY <2>1, <2>2 DEF Frames
  <2>4. QED
    BY <2>1, <2>3, EncryptedType
<1>3. nonces' \in [ap : Nat, sta : Nat]
  BY DEF SendMsg1, TypeOK
<1>4. CASE ap' = [n EXCEPT !.WpaState = PTKSTART] /\ down' \in Transmit(down, f) /\ retryTimer' = TimerAfterMsg1
  <2> HIDE DEF n
  <2>1. ap' \in Entries /\ ap'.ReTryCounter = n.ReTryCounter
    BY <1>1, <1>4 DEF Entries
  <2>2. down' \in Seq(Frames) /\ Len(down') <= Cap
    BY <1>2, <1>4, TransmitType DEF TypeOK
  <2>3. QED
    BY <1>1, <1>3, <1>4, <2>1, <2>2 DEF TimerAfterMsg1
<1>5. CASE ap' = n /\ UNCHANGED <<down, retryTimer>>
  BY <1>1, <1>3, <1>5 DEF TypeOK
<1>6. QED
  BY <1>4, <1>5 DEF SendMsg1

-----------------------------------------------------------------------------
\* An entry that is not in the table has counted nothing.
LEMMA NoEntryType == NoEntry \in Entries /\ NoEntry.ReTryCounter = 0
BY DEF NoEntry, Entries, Keys, NoKey

\* Nor has a station that is down any keys.
LEMMA StaDownType == StaDown \in Stations
BY DEF StaDown, Stations, Keys, NoKey

\* Initially nothing runs.
LEMMA InitIInv == Init => IInv
<1> SUFFICES ASSUME Init PROVE IInv
  OBVIOUS
<1>1. NoEntry \in Entries /\ NoEntry.ReTryCounter = 0
  BY NoEntryType
<1>2. StaDown \in Stations
  BY StaDownType
<1>3. down \in Seq(Frames) /\ up \in Seq(Frames) /\ Len(down) <= Cap /\ Len(up) <= Cap
  <2>1. down = <<>> /\ up = <<>>
    BY DEF Init
  <2>2. Cap \in Nat
    BY WpaAssumption
  <2>3. QED
    BY <2>1, <2>2
<1>4. TypeOK
  <2>1. ap \in Entries /\ sta \in Stations
    BY <1>1, <1>2 DEF Init
  <2>2. GTK \in 1 .. MaxRekeys + 1 /\ txGTK \in 1 .. GTK /\ joins \in 0 .. MaxJoins
    BY WpaAssumption DEF Init
  <2>3. nonces \in [ap : Nat, sta : Nat]
    BY DEF Init
  <2>4. retryTimer \in BOOLEAN /\ startTimer \in BOOLEAN /\ startFlag \in BOOLEAN
    BY Zenon DEF Init
  <2>5. started \in Nat /\ timerPc = "idle" /\ mlmePc = "idle" /\ RekeyCountDown \in 0 .. 3
    <3>1. started = 0 /\ timerPc = "idle" /\ mlmePc = "idle" /\ RekeyCountDown = 0
      BY Zenon DEF Init
    <3> QED
      BY <3>1
  <2>6. QED
    BY <1>3, <2>1, <2>2, <2>3, <2>4, <2>5 DEF TypeOK, Init
<1>5. RetryInv
  BY <1>1 DEF Init, RetryInv
<1> QED
  BY <1>4, <1>5 DEF IInv

\* Taking the first frame off a channel.
LEMMA TakenType ==
    ASSUME NEW ch \in Seq(Frames), ch # <<>>, Len(ch) <= Cap
    PROVE  Head(ch) \in Frames /\ Tail(ch) \in Seq(Frames) /\ Len(Tail(ch)) <= Cap
<1>1. Head(ch) \in Frames /\ Tail(ch) \in Seq(Frames)
  OBVIOUS
<1>2. Len(Tail(ch)) = Len(ch) - 1 /\ Len(ch) \in Nat
  OBVIOUS
<1>3. QED
  BY <1>1, <1>2, WpaAssumption

\* A frame that arrives at either end is a frame, and its channel keeps its type.
LEMMA ArrivesType ==
    ASSUME TypeOK, NEW t, Arrives(t)
    PROVE  Head(up) \in Frames /\ up' \in Seq(Frames) /\ Len(up') <= Cap
BY WpaAssumption, TakenType DEF TypeOK, Arrives

LEMMA ReceivesType ==
    ASSUME TypeOK, NEW t, Receives(t)
    PROVE  Head(down) \in Frames /\ down' \in Seq(Frames) /\ Len(down') <= Cap
BY WpaAssumption, TakenType DEF TypeOK, Receives

-----------------------------------------------------------------------------
(* The access point's MLME thread. *)

LEMMA ApAssocStep == IInv /\ ApAssoc => IInv'
<1> SUFFICES ASSUME IInv, ApAssoc PROVE IInv'
  OBVIOUS
<1>1. ap' \in Entries /\ ap'.ReTryCounter = 0
  <2>1. CASE ap.in
    <3> DEFINE e1 == [ap EXCEPT !.WpaState = INITPSK]
               e2 == [e1 EXCEPT !.Established = FALSE]
               e0 == [e2 EXCEPT !.ReTryCounter = MSG1_RETRY]
               e3 == [e0 EXCEPT !.PairwiseKey = NoKey]
               e4 == [e3 EXCEPT !.PortSecured = FALSE]
    <3>1. ap' = e4
      BY <2>1, Zenon DEF ApAssoc, EntryAfterAssoc
    <3>2. NoKey \in Keys /\ ap \in Entries
      BY DEF NoKey, Keys, IInv, TypeOK
    <3>3. e1 \in Entries
      BY <3>2 DEF Entries
    <3> HIDE DEF e1
    <3>4. e2 \in Entries
      BY <3>3 DEF Entries
    <3> HIDE DEF e2
    <3>7. e0 \in Entries /\ e0.ReTryCounter = 0
      BY <3>4 DEF Entries
    <3> HIDE DEF e0
    <3>5. e3 \in Entries /\ e3.ReTryCounter = e0.ReTryCounter
      BY <3>2, <3>7 DEF Entries
    <3> HIDE DEF e3
    <3>6. e4 \in Entries /\ e4.ReTryCounter = e3.ReTryCounter
      BY <3>5 DEF Entries
    <3> HIDE DEF e4
    <3> QED
      BY <3>1, <3>5, <3>6, <3>7
  <2>2. CASE ~ap.in
    <3> DEFINE e1 == [NoEntry EXCEPT !.in = TRUE]
               e2 == [e1 EXCEPT !.WpaState = INITPSK]
    <3>1. ap' = e2
      BY <2>2, Zenon DEF ApAssoc, EntryAfterAssoc
    <3>2. e1 \in Entries /\ e1.ReTryCounter = 0
      BY NoEntryType DEF Entries
    <3> HIDE DEF e1
    <3>3. e2 \in Entries /\ e2.ReTryCounter = e1.ReTryCounter
      BY <3>2 DEF Entries
    <3> HIDE DEF e2
    <3> QED
      BY <3>1, <3>2, <3>3
  <2> QED
    BY <2>1, <2>2
<1>3. up' \in Seq(Frames) /\ Len(up') <= Cap
  BY ArrivesType DEF IInv, ApAssoc
<1>4. down' \in Seq(Frames) /\ Len(down') <= Cap
  BY FrameType, TransmitType DEF IInv, TypeOK, ApAssoc, FrameTypes
<1>2. /\ startTimer' \in BOOLEAN /\ startFlag' = TRUE /\ marks' \subseteq {"lost", "crossed"}
      /\ startTimer' \/ timerPc' \in {"enqueue", "clear"}
  <2>1. startTimer' = (startTimer \/ ~startFlag) /\ timerPc' = timerPc /\ startFlag' = TRUE
    BY DEF ApAssoc
  <2>2. marks' = marks \cup {"lost"} \/ marks' = marks \ {"lost"}
    BY DEF ApAssoc
  <2> QED
    BY <2>1, <2>2 DEF IInv, TypeOK, RetryInv
<1>5. TypeOK'
  BY <1>1, <1>2, <1>3, <1>4 DEF IInv, TypeOK, ApAssoc, group
<1>6. RetryInv'
  BY <1>1, <1>2 DEF IInv, RetryInv, ApAssoc, group
<1> QED
  BY <1>5, <1>6 DEF IInv

LEMMA ApDisassocStep == IInv /\ ApDisassoc => IInv'
<1> SUFFICES ASSUME IInv, ApDisassoc PROVE IInv'
  OBVIOUS
<1>1. ap' \in Entries /\ ap'.ReTryCounter = 0
  BY DEF ApDisassoc, Delete, NoEntry, NoKey, Keys, Entries
<1>2. up' \in Seq(Frames) /\ Len(up') <= Cap
  BY ArrivesType DEF IInv, ApDisassoc
<1>3. TypeOK'
  BY <1>1, <1>2 DEF IInv, TypeOK, ApDisassoc, Delete, group
<1>4. RetryInv'
  BY <1>1 DEF IInv, RetryInv, ApDisassoc, Delete, group
<1> QED
  BY <1>3, <1>4 DEF IInv

LEMMA StartStep == IInv /\ WpaEAPOLStartAction => IInv'
<1> SUFFICES ASSUME IInv, WpaEAPOLStartAction PROVE IInv'
  OBVIOUS
<1> DEFINE e == [ap EXCEPT !.WpaState = INITPSK, !.R_Counter = 0, !.ReTryCounter = MSG1_RETRY]
<1>1. e \in Entries /\ e.ReTryCounter = 0
  <2> DEFINE e1 == [ap EXCEPT !.WpaState = INITPSK]
             e2 == [e1 EXCEPT !.R_Counter = 0]
             e3 == [e2 EXCEPT !.ReTryCounter = 0]
  <2>1. e = e3
    BY Zenon
  <2>2. ap \in Entries
    BY DEF IInv, TypeOK
  <2>3. e1 \in Entries
    BY <2>2 DEF Entries
  <2> HIDE DEF e1
  <2>4. e2 \in Entries
    BY <2>3 DEF Entries
  <2> HIDE DEF e2
  <2>5. e3 \in Entries /\ e3.ReTryCounter = 0
    BY <2>4 DEF Entries
  <2> HIDE DEF e3
  <2> QED
    BY <2>1, <2>5
<1>2. /\ ap' \in Entries /\ down' \in Seq(Frames) /\ Len(down') <= Cap
      /\ nonces' \in [ap : Nat, sta : Nat] /\ retryTimer' \in BOOLEAN
      /\ ap'.ReTryCounter = 0 \/ UNCHANGED <<ap, retryTimer>>
  <2>1. CASE SendMsg1(e)
    <3> HIDE DEF e
    <3> QED
      BY <1>1, <2>1, Msg1Step DEF IInv
  <2>2. CASE UNCHANGED <<ap, retryTimer, down, nonces>>
    BY <2>2 DEF IInv, TypeOK
  <2> QED
    BY <2>1, <2>2 DEF WpaEAPOLStartAction
<1>3. TypeOK'
  BY <1>2 DEF IInv, TypeOK, WpaEAPOLStartAction, group
<1>4. RetryInv'
  BY <1>2 DEF IInv, RetryInv, WpaEAPOLStartAction, group
<1> QED
  BY <1>3, <1>4 DEF IInv

LEMMA Msg2CheckStep == IInv /\ PeerPairMsg2Check => IInv'
<1> SUFFICES ASSUME IInv, PeerPairMsg2Check PROVE IInv'
  OBVIOUS
<1>1. Head(up) \in Frames /\ up' \in Seq(Frames) /\ Len(up') <= Cap
  BY ArrivesType DEF IInv, PeerPairMsg2Check
<1>2. ap' \in Entries /\ ap'.ReTryCounter = ap.ReTryCounter /\ mlmePc' \in {"idle", "answer"}
  <2> DEFINE ptk == <<ap.ANonce, Head(up).nonce>>
  <2>1. ptk \in Keys
    BY <1>1 DEF Keys, Frames, Entries, IInv, TypeOK
  <2>2. CASE ap' = [ap EXCEPT !.PTK = ptk] /\ mlmePc' \in {"idle", "answer"}
    <3> HIDE DEF ptk
    <3> QED
      BY <2>1, <2>2 DEF Entries, IInv, TypeOK
  <2>3. CASE UNCHANGED <<ap, mlmePc>>
    BY <2>3 DEF IInv, TypeOK
  <2> QED
    BY <2>2, <2>3 DEF PeerPairMsg2Check
<1>3. TypeOK'
  BY <1>1, <1>2 DEF IInv, TypeOK, PeerPairMsg2Check, group, timers
<1>4. RetryInv'
  BY <1>2 DEF IInv, RetryInv, PeerPairMsg2Check, group, timers
<1> QED
  BY <1>3, <1>4 DEF IInv

LEMMA Msg2AnswerStep == IInv /\ PeerPairMsg2Answer => IInv'
<1> SUFFICES ASSUME IInv, PeerPairMsg2Answer PROVE IInv'
  OBVIOUS
<1> DEFINE n == CountUp(ap)
           g == IF WPA2 THEN GTK ELSE 0
           f == EncryptedIfSecured([Eapol("pair3", n) EXCEPT !.nonce = n.ANonce, !.gtk = g], n)
<1>1. n \in Entries /\ g \in Nat
  BY CountUpType, WpaAssumption DEF IInv, TypeOK
<1>2. f \in Frames
  <2> HIDE DEF n, g
  <2>1. n.R_Counter \in Nat /\ n.PTK \in Keys /\ n.PairwiseKey \in Keys /\ n.ANonce \in Nat
    BY <1>1 DEF Entries
  <2>2. Eapol("pair3", n) \in Frames
    BY <2>1, EapolType DEF FrameTypes
  <2>3. [Eapol("pair3", n) EXCEPT !.nonce = n.ANonce, !.gtk = g] \in Frames
    BY <1>1, <2>1, <2>2, FrameUpdates
  <2>4. QED
    BY <2>1, <2>3, EncryptedType
<1>3. /\ ap' \in Entries /\ down' \in Seq(Frames) /\ Len(down') <= Cap /\ retryTimer' \in BOOLEAN
      /\ ap'.ReTryCounter = 10 \/ UNCHANGED <<ap, retryTimer>>
  <2>1. CASE /\ ap' = [n EXCEPT !.WpaState = NEGOTIATING, !.ReTryCounter = MSG3_RETRY]
             /\ down' \in Transmit(down, f) /\ retryTimer' = TRUE
    <3> HIDE DEF n, f
    <3> DEFINE e1 == [n EXCEPT !.WpaState = NEGOTIATING]
               e2 == [e1 EXCEPT !.ReTryCounter = MSG3_RETRY]
    <3>1. ap' = e2
      BY <2>1, Zenon
    <3>2. e1 \in Entries
      BY <1>1 DEF Entries
    <3> HIDE DEF e1
    <3>3. e2 \in Entries /\ e2.ReTryCounter = 10
      BY <3>2 DEF Entries
    <3> HIDE DEF e2
    <3> QED
      BY <1>2, <2>1, <3>1, <3>3, TransmitType DEF IInv, TypeOK
  <2>2. CASE UNCHANGED <<ap, down, retryTimer>>
    BY <2>2 DEF IInv, TypeOK
  <2> QED
    BY <2>1, <2>2 DEF PeerPairMsg2Answer
<1>4. TypeOK'
  BY <1>3 DEF IInv, TypeOK, PeerPairMsg2Answer, group
<1>5. RetryInv'
  BY <1>3 DEF IInv, RetryInv, PeerPairMsg2Answer, group
<1> QED
  BY <1>4, <1>5 DEF IInv

LEMMA Msg4Step == IInv /\ PeerPairMsg4Action => IInv'
<1> SUFFICES ASSUME IInv, PeerPairMsg4Action PROVE IInv'
  OBVIOUS
<1> DEFINE n1 == [ap EXCEPT !.PairwiseKey = ap.PTK]
           n2 == [n1 EXCEPT !.WpaState = DONE]
           n3 == [n2 EXCEPT !.PortSecured = TRUE]
           n4 == [n3 EXCEPT !.Established = TRUE]
           n5 == [n3 EXCEPT !.ReTryCounter = GROUP_RETRY]
<1>1. \/ ap' = n4 /\ retryTimer' = FALSE /\ UNCHANGED down
      \/ WPAStart2WayGroupHS(n5) /\ retryTimer' = TRUE
      \/ UNCHANGED <<ap, retryTimer, down>>
  BY Zenon DEF PeerPairMsg4Action
<1>2. up' \in Seq(Frames) /\ Len(up') <= Cap
  BY ArrivesType DEF IInv, PeerPairMsg4Action
<1>3. /\ n4 \in Entries /\ n4.ReTryCounter = ap.ReTryCounter
      /\ n5 \in Entries /\ n5.ReTryCounter = 20
  <2>1. ap \in Entries
    BY DEF IInv, TypeOK
  <2>2. n1 \in Entries /\ n1.ReTryCounter = ap.ReTryCounter
    BY <2>1 DEF Entries
  <2> HIDE DEF n1
  <2>3. n2 \in Entries /\ n2.ReTryCounter = n1.ReTryCounter
    BY <2>2 DEF Entries
  <2> HIDE DEF n2
  <2>4. n3 \in Entries /\ n3.ReTryCounter = n2.ReTryCounter
    BY <2>3 DEF Entries
  <2> HIDE DEF n3
  <2>5. n4 \in Entries /\ n4.ReTryCounter = n3.ReTryCounter
    BY <2>4 DEF Entries
  <2>6. n5 \in Entries /\ n5.ReTryCounter = 20
    BY <2>4 DEF Entries
  <2> HIDE DEF n4, n5
  <2> QED
    BY <2>2, <2>3, <2>4, <2>5, <2>6
<1> HIDE DEF n4, n5
<1>4. /\ ap' \in Entries /\ down' \in Seq(Frames) /\ Len(down') <= Cap /\ retryTimer' \in BOOLEAN
      /\ \/ ap'.ReTryCounter = 20
         \/ ap'.ReTryCounter = ap.ReTryCounter /\ (retryTimer' = FALSE \/ UNCHANGED retryTimer)
  <2>1. CASE ap' = n4 /\ retryTimer' = FALSE /\ UNCHANGED down
    BY <1>3, <2>1 DEF IInv, TypeOK
  <2>2. CASE WPAStart2WayGroupHS(n5) /\ retryTimer' = TRUE
    BY <1>3, <2>2, GroupStep DEF IInv
  <2>3. CASE UNCHANGED <<ap, retryTimer, down>>
    BY <2>3 DEF IInv, TypeOK
  <2> QED
    BY <1>1, <2>1, <2>2, <2>3
<1>5. TypeOK'
  BY <1>2, <1>4 DEF IInv, TypeOK, PeerPairMsg4Action, group
<1>6. RetryInv'
  BY <1>4 DEF IInv, RetryInv, PeerPairMsg4Action, group
<1> QED
  BY <1>5, <1>6 DEF IInv

LEMMA Group2Step == IInv /\ PeerGroupMsg2Action => IInv'
<1> SUFFICES ASSUME IInv, PeerGroupMsg2Action PROVE IInv'
  OBVIOUS
<1> DEFINE n == [ap EXCEPT !.Established = TRUE]
<1>1. n \in Entries /\ n.ReTryCounter = ap.ReTryCounter
  <2>1. ap \in Entries
    BY DEF IInv, TypeOK
  <2> QED
    BY <2>1 DEF Entries
<1>2. (ap' = n /\ retryTimer' = FALSE) \/ UNCHANGED <<ap, retryTimer>>
  BY Zenon DEF PeerGroupMsg2Action
<1> HIDE DEF n
<1>3. /\ ap' \in Entries /\ ap'.ReTryCounter = ap.ReTryCounter
      /\ (retryTimer' = FALSE) \/ UNCHANGED retryTimer
  BY <1>1, <1>2 DEF IInv, TypeOK
<1>4. up' \in Seq(Frames) /\ Len(up') <= Cap
  BY ArrivesType DEF IInv, PeerGroupMsg2Action
<1>5. TypeOK'
  BY <1>3, <1>4 DEF IInv, TypeOK, PeerGroupMsg2Action, group
<1>6. RetryInv'
  BY <1>3 DEF IInv, RetryInv, PeerGroupMsg2Action, group
<1> QED
  BY <1>5, <1>6 DEF IInv

-----------------------------------------------------------------------------
(* The access point's timer thread. *)

LEMMA EnqueueStartStep == IInv /\ EnqueueStartForPSKExec => IInv'
<1> SUFFICES ASSUME IInv, EnqueueStartForPSKExec PROVE IInv'
  OBVIOUS
<1>1. startTimer' = FALSE /\ timerPc = "idle" /\ timerPc' \in {"enqueue", "clear"}
  BY DEF EnqueueStartForPSKExec, TimerFree
<1>2. TypeOK'
  BY <1>1 DEF IInv, TypeOK, EnqueueStartForPSKExec, group
<1>3. RetryInv'
  BY <1>1 DEF IInv, RetryInv, EnqueueStartForPSKExec, group
<1> QED
  BY <1>2, <1>3 DEF IInv

LEMMA StartEnqueueStep == IInv /\ StartEnqueue => IInv'
<1> SUFFICES ASSUME IInv, StartEnqueue PROVE IInv'
  OBVIOUS
<1>1. started' \in Nat
  <2>1. started \in Nat
    BY DEF IInv, TypeOK
  <2>2. PICK k \in {0, 1} : started' = started + k
    BY DEF StartEnqueue
  <2> QED
    BY <2>1, <2>2
<1>2. timerPc = "enqueue" /\ timerPc' = "clear"
  BY DEF StartEnqueue
<1>3. TypeOK'
  BY <1>1, <1>2 DEF IInv, TypeOK, StartEnqueue, group, timers
<1>4. RetryInv'
  BY <1>2 DEF IInv, RetryInv, StartEnqueue, group, timers
<1> QED
  BY <1>3, <1>4 DEF IInv

LEMMA StartClearStep == IInv /\ StartClear => IInv'
<1> SUFFICES ASSUME IInv, StartClear PROVE IInv'
  OBVIOUS
<1>1. timerPc' = "idle" /\ startFlag' = FALSE /\ marks' \subseteq {"lost", "crossed"}
  BY DEF IInv, TypeOK, StartClear
<1>2. TypeOK'
  BY <1>1 DEF IInv, TypeOK, StartClear, group
<1>3. RetryInv'
  BY <1>1 DEF IInv, RetryInv, StartClear, group
<1> QED
  BY <1>2, <1>3 DEF IInv

LEMMA RetryExecStep == IInv /\ WPARetryExec => IInv'
<1> SUFFICES ASSUME IInv, WPARetryExec PROVE IInv'
  OBVIOUS
<1> DEFINE c == ap.ReTryCounter + 1
<1>1. ap \in Entries /\ ap.ReTryCounter \in Nat
  BY DEF IInv, TypeOK, Entries
<1>2. ap.ReTryCounter <= 21
  BY DEF IInv, RetryInv, WPARetryExec
<1>3. ap' \in Entries /\ ap'.ReTryCounter = c
  BY <1>1 DEF WPARetryExec, Entries
<1>4. retryTimer' \in BOOLEAN /\ retryTimer' = FALSE
  BY Zenon DEF WPARetryExec
<1>5. /\ timerPc' \in {"deauth", "group", "start"}
      /\ timerPc' = "group" => c = 21
      /\ timerPc' = "start" => c <= 20
  <2>1. timerPc' = RetryDoes(c) /\ c \in Nat /\ c <= 22
    BY <1>1, <1>2 DEF WPARetryExec
  <2>2. CASE c > 21
    BY <2>1, <2>2 DEF RetryDoes
  <2>3. CASE c = 21
    BY <2>1, <2>3 DEF RetryDoes
  <2>4. CASE c > 3 /\ c <= 20
    BY <2>1, <2>4 DEF RetryDoes
  <2>5. CASE c <= 3
    BY <2>1, <2>5 DEF RetryDoes
  <2> QED
    BY <2>1, <2>2, <2>3, <2>4, <2>5
<1>6. TypeOK'
  BY <1>3, <1>4, <1>5 DEF IInv, TypeOK, WPARetryExec, group
<1>7. RetryInv'
  BY <1>1, <1>2, <1>3, <1>4, <1>5 DEF IInv, RetryInv, WPARetryExec, TimerFree, group
<1> QED
  BY <1>6, <1>7 DEF IInv

LEMMA RetryDeauthStep == IInv /\ RetryDeauth => IInv'
<1> SUFFICES ASSUME IInv, RetryDeauth PROVE IInv'
  OBVIOUS
<1>1. /\ ap' \in Entries /\ ap'.ReTryCounter \in {0, ap.ReTryCounter}
      /\ retryTimer' = FALSE \/ UNCHANGED <<ap, retryTimer>>
      /\ retryTimer' \in BOOLEAN /\ startTimer' \in BOOLEAN /\ startFlag' \in BOOLEAN
      /\ startFlag' => startFlag /\ UNCHANGED startTimer
      /\ down' \in Seq(Frames) /\ Len(down') <= Cap
  <2>1. CASE Delete /\ down' \in Transmit(down, Frame("deauth"))
    <3>1. Frame("deauth") \in Frames
      BY FrameType DEF FrameTypes
    <3> QED
      BY <2>1, <3>1, NoEntryType, TransmitType DEF IInv, TypeOK, Delete
  <2>2. CASE UNCHANGED <<ap, timers, down>>
    BY <2>2 DEF IInv, TypeOK, timers
  <2> QED
    BY <2>1, <2>2 DEF RetryDeauth
<1>2. TypeOK'
  BY <1>1 DEF IInv, TypeOK, RetryDeauth, group
<1>3. RetryInv'
  BY <1>1 DEF IInv, RetryInv, RetryDeauth, group
<1> QED
  BY <1>2, <1>3 DEF IInv

LEMMA RetryGroupStep == IInv /\ RetryGroup => IInv'
<1> SUFFICES ASSUME IInv, RetryGroup PROVE IInv'
  OBVIOUS
<1>1. /\ ap' \in Entries /\ ap'.ReTryCounter = ap.ReTryCounter
      /\ retryTimer' \in BOOLEAN
      /\ down' \in Seq(Frames) /\ Len(down') <= Cap
  <2>1. CASE WPAStart2WayGroupHS(ap) /\ retryTimer' = TRUE
    BY <2>1, GroupStep DEF IInv, TypeOK
  <2>2. CASE UNCHANGED <<ap, retryTimer, down>>
    BY <2>2 DEF IInv, TypeOK
  <2> QED
    BY <2>1, <2>2 DEF RetryGroup
<1>2. TypeOK'
  BY <1>1 DEF IInv, TypeOK, RetryGroup, group
<1>3. RetryInv'
  BY <1>1 DEF IInv, RetryInv, RetryGroup, group
<1> QED
  BY <1>2, <1>3 DEF IInv

LEMMA RetryTestStep == IInv /\ RetryTest => IInv'
<1> SUFFICES ASSUME IInv, RetryTest PROVE IInv'
  OBVIOUS
<1>1. timerPc' \in {"send", "idle"}
  BY DEF RetryTest
<1>2. TypeOK'
  BY <1>1 DEF IInv, TypeOK, RetryTest, group, timers
<1>3. RetryInv'
  BY <1>1 DEF IInv, RetryInv, RetryTest, group, timers
<1> QED
  BY <1>2, <1>3 DEF IInv

LEMMA RetrySendStep == IInv /\ RetrySend => IInv'
<1> SUFFICES ASSUME IInv, RetrySend PROVE IInv'
  OBVIOUS
<1>1. /\ ap' \in Entries /\ ap'.ReTryCounter = ap.ReTryCounter
      /\ retryTimer' \in BOOLEAN
      /\ down' \in Seq(Frames) /\ Len(down') <= Cap
      /\ nonces' \in [ap : Nat, sta : Nat]
  <2>1. CASE SendMsg1(ap)
    BY <2>1, Msg1Step DEF IInv, TypeOK
  <2>2. CASE UNCHANGED <<ap, retryTimer, down, nonces>>
    BY <2>2 DEF IInv, TypeOK
  <2> QED
    BY <2>1, <2>2 DEF RetrySend
<1>2. TypeOK'
  BY <1>1 DEF IInv, TypeOK, RetrySend, group
<1>3. RetryInv'
  <2>1. ap.ReTryCounter \in Nat
    BY DEF IInv, TypeOK, Entries
  <2> QED
    BY <1>1, <2>1 DEF IInv, RetryInv, RetrySend, group
<1> QED
  BY <1>2, <1>3 DEF IInv

LEMMA NewGTKStep == IInv /\ NewGTK => IInv'
<1> SUFFICES ASSUME IInv, NewGTK PROVE IInv'
  OBVIOUS
<1>1. GTK' \in 1 .. MaxRekeys + 1 /\ txGTK' \in 1 .. GTK' /\ RekeyCountDown' = 3
  BY WpaAssumption DEF IInv, TypeOK, NewGTK
<1>2. TypeOK'
  BY <1>1 DEF IInv, TypeOK, NewGTK, timers
<1>3. RetryInv'
  BY <1>1 DEF IInv, RetryInv, NewGTK, TimerFree, timers
<1> QED
  BY <1>2, <1>3 DEF IInv

LEMMA RekeyStationsStep == IInv /\ RekeyStations => IInv'
<1> SUFFICES ASSUME IInv, RekeyStations PROVE IInv'
  OBVIOUS
<1> DEFINE e == [ap EXCEPT !.Established = FALSE]
<1>1. e \in Entries /\ e.ReTryCounter = ap.ReTryCounter
  <2>1. ap \in Entries
    BY DEF IInv, TypeOK
  <2> QED
    BY <2>1 DEF Entries
<1>2. WPAStart2WayGroupHS(e) \/ UNCHANGED <<ap, down>>
  BY Zenon DEF RekeyStations
<1> HIDE DEF e
<1>3. /\ ap' \in Entries /\ ap'.ReTryCounter = ap.ReTryCounter
      /\ down' \in Seq(Frames) /\ Len(down') <= Cap
  BY <1>1, <1>2, GroupStep DEF IInv, TypeOK
<1>4. RekeyCountDown = 3 /\ RekeyCountDown' = 2
  BY DEF IInv, RetryInv, RekeyStations
<1>5. TypeOK'
  BY <1>3, <1>4 DEF IInv, TypeOK, RekeyStations, timers
<1>6. RetryInv'
  BY <1>3 DEF IInv, RetryInv, RekeyStations, timers
<1> QED
  BY <1>5, <1>6 DEF IInv

LEMMA CountDownStep == IInv /\ CountDown => IInv'
<1> SUFFICES ASSUME IInv, CountDown PROVE IInv'
  OBVIOUS
<1>1. RekeyCountDown' \in 0 .. 3 /\ txGTK' \in 1 .. GTK
  BY WpaAssumption DEF IInv, TypeOK, CountDown, CountsDown
<1>2. TypeOK'
  BY <1>1 DEF IInv, TypeOK, CountDown, timers
<1>3. RetryInv'
  BY DEF IInv, RetryInv, CountDown, timers, TimerFree
<1> QED
  BY <1>2, <1>3 DEF IInv

-----------------------------------------------------------------------------
(* The station: the access point is as it was. *)

\* What a step of the station owes.
LEMMA StationOwes ==
    ASSUME IInv, UNCHANGED <<apVars, marks>>, sta' \in Stations,
           down' \in Seq(Frames), Len(down') <= Cap, up' \in Seq(Frames), Len(up') <= Cap,
           nonces' \in [ap : Nat, sta : Nat], joins' \in 0 .. MaxJoins
    PROVE  IInv'
<1>1. /\ UNCHANGED <<ap, retryTimer, startTimer, startFlag, started, timerPc, mlmePc>>
      /\ UNCHANGED <<GTK, txGTK, RekeyCountDown, marks>>
  BY DEF apVars, timers, group
<1>2. TypeOK'
  BY <1>1 DEF IInv, TypeOK
<1>3. RetryInv'
  BY <1>1 DEF IInv, RetryInv
<1> QED
  BY <1>2, <1>3 DEF IInv

\* No key, as a value of a key.
LEMMA NoKeyType == NoKey \in Keys
BY DEF NoKey, Keys

LEMMA JoinStep == IInv /\ Join => IInv'
<1> SUFFICES ASSUME IInv, Join PROVE IInv'
  OBVIOUS
<1> DEFINE s1 == [sta EXCEPT !.link = "joining"]
           s2 == [s1 EXCEPT !.PairwiseKey = NoKey]
           s3 == [s2 EXCEPT !.GTK = 0]
<1>1. sta' = s3
  BY Zenon DEF Join
<1>2. s3 \in Stations
  <2>1. sta \in Stations
    BY DEF IInv, TypeOK
  <2>2. s1 \in Stations
    BY <2>1 DEF Stations
  <2> HIDE DEF s1
  <2>3. s2 \in Stations
    BY <2>2, NoKeyType DEF Stations
  <2> HIDE DEF s2
  <2> QED
    BY <2>3 DEF Stations
<1>3. up' \in Seq(Frames) /\ Len(up') <= Cap
  BY FrameType, TransmitType DEF IInv, TypeOK, Join, FrameTypes
<1>4. joins' \in 0 .. MaxJoins
  BY WpaAssumption DEF IInv, TypeOK, Join
<1> HIDE DEF s3
<1> QED
  BY <1>1, <1>2, <1>3, <1>4, StationOwes DEF IInv, TypeOK, Join

LEMMA JoinTimeoutStep == IInv /\ JoinTimeout => IInv'
<1> SUFFICES ASSUME IInv, JoinTimeout PROVE IInv'
  OBVIOUS
<1>1. sta' \in Stations
  <2>1. sta \in Stations /\ sta' = [sta EXCEPT !.link = "down"]
    BY DEF IInv, TypeOK, JoinTimeout
  <2> QED
    BY <2>1 DEF Stations
<1> QED
  BY <1>1, StationOwes DEF IInv, TypeOK, JoinTimeout

LEMMA LinkUpStep == IInv /\ LinkUp => IInv'
<1> SUFFICES ASSUME IInv, LinkUp PROVE IInv'
  OBVIOUS
<1> DEFINE s1 == [sta EXCEPT !.link = "up"]
           s2 == [s1 EXCEPT !.WpaState = INITPSK]
           s3 == [s2 EXCEPT !.R_Counter = 0]
           s4 == [s3 EXCEPT !.PortSecured = FALSE]
<1>1. sta' = s4 \/ sta' = sta
  BY Zenon DEF LinkUp
<1>2. sta \in Stations
  BY DEF IInv, TypeOK
<1>3. s4 \in Stations
  <2>1. s1 \in Stations
    BY <1>2 DEF Stations
  <2> HIDE DEF s1
  <2>2. s2 \in Stations
    BY <2>1 DEF Stations
  <2> HIDE DEF s2
  <2>3. s3 \in Stations
    BY <2>2 DEF Stations
  <2> HIDE DEF s3
  <2> QED
    BY <2>3 DEF Stations
<1> HIDE DEF s4
<1>4. down' \in Seq(Frames) /\ Len(down') <= Cap
  BY ReceivesType DEF IInv, LinkUp
<1> QED
  BY <1>1, <1>2, <1>3, <1>4, StationOwes DEF IInv, TypeOK, LinkUp

LEMMA LeaveStep == IInv /\ Leave => IInv'
<1> SUFFICES ASSUME IInv, Leave PROVE IInv'
  OBVIOUS
<1> DEFINE s1 == [StaDown EXCEPT !.PairwiseKey = sta.PairwiseKey]
           s2 == [s1 EXCEPT !.GTK = sta.GTK]
<1>1. sta' = s2
  BY Zenon DEF Leave
<1>2. s2 \in Stations
  <2>1. sta.PairwiseKey \in Keys /\ sta.GTK \in Nat
    BY DEF IInv, TypeOK, Stations
  <2>2. s1 \in Stations
    BY <2>1, StaDownType DEF Stations
  <2> HIDE DEF s1
  <2> QED
    BY <2>1, <2>2 DEF Stations
<1> HIDE DEF s2
<1>3. up' \in Seq(Frames) /\ Len(up') <= Cap
  BY FrameType, TransmitType DEF IInv, TypeOK, Leave, FrameTypes
<1> QED
  BY <1>1, <1>2, <1>3, StationOwes DEF IInv, TypeOK, Leave

LEMMA PeerDeauthStep == IInv /\ PeerDeauth => IInv'
<1> SUFFICES ASSUME IInv, PeerDeauth PROVE IInv'
  OBVIOUS
<1>1. sta' \in Stations
  BY StaDownType DEF IInv, TypeOK, PeerDeauth
<1>2. down' \in Seq(Frames) /\ Len(down') <= Cap
  BY ReceivesType DEF IInv, PeerDeauth
<1> QED
  BY <1>1, <1>2, StationOwes DEF IInv, TypeOK, PeerDeauth

LEMMA StaMsg1Step == IInv /\ PeerPairMsg1Action => IInv'
<1> SUFFICES ASSUME IInv, PeerPairMsg1Action PROVE IInv'
  OBVIOUS
<1>1. Head(down) \in Frames /\ down' \in Seq(Frames) /\ Len(down') <= Cap
  BY ReceivesType DEF IInv, PeerPairMsg1Action
<1> DEFINE f == Head(down)
           k == nonces.sta + 1
           s1 == [sta EXCEPT !.R_Counter = f.rc]
           s2 == [s1 EXCEPT !.ANonce = f.nonce]
           s3 == [s2 EXCEPT !.PTK = <<f.nonce, k>>]
           s4 == [s3 EXCEPT !.WpaState = NEGOTIATING]
           g == [Eapol("pair2", s4) EXCEPT !.nonce = k]
<1>2. \/ sta' = s4 /\ nonces' = [nonces EXCEPT !.sta = k] /\ (up' \in Transmit(up, g) \/ UNCHANGED up)
      \/ UNCHANGED <<sta, up, nonces>>
  <2>1. CASE StaTakes(f) /\ StaSanity(f)
    <3>1. sta' = s4
      BY <2>1, Zenon DEF PeerPairMsg1Action
    <3>2. nonces' = [nonces EXCEPT !.sta = k]
      BY <2>1, Zenon DEF PeerPairMsg1Action
    <3>3. up' \in Transmit(up, g) \/ UNCHANGED up
      BY <2>1, Zenon DEF PeerPairMsg1Action
    <3> QED
      BY <3>1, <3>2, <3>3, Zenon
  <2>2. CASE ~(StaTakes(f) /\ StaSanity(f))
    BY <2>2, Zenon DEF PeerPairMsg1Action
  <2> QED
    BY <2>1, <2>2, Zenon
<1>3. f.rc \in Nat /\ f.nonce \in Nat /\ k \in Nat /\ <<f.nonce, k>> \in Keys
  <2>1. f.rc \in Nat /\ f.nonce \in Nat
    BY <1>1 DEF Frames
  <2>2. k \in Nat
    BY DEF IInv, TypeOK
  <2> HIDE DEF f, k
  <2> QED
    BY <2>1, <2>2 DEF Keys
<1> HIDE DEF f, k
<1>4. s4 \in Stations
  <2>1. sta \in Stations
    BY DEF IInv, TypeOK
  <2>2. s1 \in Stations
    BY <1>3, <2>1 DEF Stations
  <2> HIDE DEF s1
  <2>3. s2 \in Stations
    BY <1>3, <2>2 DEF Stations
  <2> HIDE DEF s2
  <2>4. s3 \in Stations
    BY <1>3, <2>3 DEF Stations
  <2> HIDE DEF s3
  <2> QED
    BY <2>4 DEF Stations
<1> HIDE DEF s4
<1>5. g \in Frames
  <2>1. Eapol("pair2", s4) \in Frames
    BY <1>4, EapolType DEF Stations, FrameTypes
  <2> QED
    BY <1>3, <2>1 DEF Frames
<1> HIDE DEF g
<1>6. up' \in Seq(Frames) /\ Len(up') <= Cap
  <2>1. CASE up' \in Transmit(up, g)
    BY <1>5, <2>1, TransmitType DEF IInv, TypeOK
  <2>2. CASE UNCHANGED up
    BY <2>2 DEF IInv, TypeOK
  <2> QED
    BY <1>2, <2>1, <2>2
<1>7. nonces' \in [ap : Nat, sta : Nat]
  BY <1>2, <1>3 DEF IInv, TypeOK
<1>8. sta' \in Stations
  BY <1>2, <1>4 DEF IInv, TypeOK
<1> QED
  BY <1>1, <1>6, <1>7, <1>8, StationOwes DEF IInv, TypeOK, PeerPairMsg1Action

\* What a frame leaves of the station's counter and group key.
LEMMA WithGroupKeyType ==
    ASSUME TypeOK, NEW f \in Frames
    PROVE  [WithGroupKey(f) EXCEPT !.R_Counter = f.rc] \in Stations
<1> DEFINE v == IF f.gtk > 0 THEN f.gtk ELSE sta.GTK
           s1 == [sta EXCEPT !.GTK = v]
<1>1. WithGroupKey(f) = s1
  BY Zenon DEF WithGroupKey
<1>2. v \in Nat /\ sta \in Stations /\ f.rc \in Nat
  BY DEF TypeOK, Stations, Frames
<1> HIDE DEF v
<1>3. s1 \in Stations
  BY <1>2 DEF Stations
<1> HIDE DEF s1
<1> QED
  BY <1>1, <1>2, <1>3 DEF Stations

LEMMA StaMsg3Step == IInv /\ PeerPairMsg3Action => IInv'
<1> SUFFICES ASSUME IInv, PeerPairMsg3Action PROVE IInv'
  OBVIOUS
<1>1. Head(down) \in Frames /\ down' \in Seq(Frames) /\ Len(down') <= Cap
  BY ReceivesType DEF IInv, PeerPairMsg3Action
<1> DEFINE f == Head(down)
           n == [WithGroupKey(f) EXCEPT !.R_Counter = f.rc]
           s1 == [n EXCEPT !.WpaState = DONE]
           s2 == [s1 EXCEPT !.PairwiseKey = n.PTK]
           p == s2.PortSecured \/ WPA2
           s3 == [s2 EXCEPT !.PortSecured = p]
<1>2. \/ sta' = s3 /\ up' \in Transmit(up, Eapol("pair4", s3))
      \/ sta' = n /\ UNCHANGED up
      \/ UNCHANGED <<sta, up>>
  BY Zenon DEF PeerPairMsg3Action
<1>3. n \in Stations
  BY <1>1, WithGroupKeyType DEF IInv
<1> HIDE DEF n
<1>4. s3 \in Stations
  <2>1. s1 \in Stations
    BY <1>3 DEF Stations
  <2> HIDE DEF s1
  <2>2. n.PTK \in Keys
    BY <1>3 DEF Stations
  <2>3. s2 \in Stations
    BY <2>1, <2>2 DEF Stations
  <2> HIDE DEF s2
  <2>4. p \in BOOLEAN
    BY Zenon
  <2> HIDE DEF p
  <2> QED
    BY <2>3, <2>4 DEF Stations
<1> HIDE DEF s3
<1>5. up' \in Seq(Frames) /\ Len(up') <= Cap
  <2>1. CASE up' \in Transmit(up, Eapol("pair4", s3))
    <3>1. Eapol("pair4", s3) \in Frames
      BY <1>4, EapolType DEF Stations, FrameTypes
    <3> QED
      BY <2>1, <3>1, TransmitType DEF IInv, TypeOK
  <2>2. CASE UNCHANGED up
    BY <2>2 DEF IInv, TypeOK
  <2> QED
    BY <1>2, <2>1, <2>2
<1>6. sta' \in Stations
  BY <1>2, <1>3, <1>4 DEF IInv, TypeOK
<1> QED
  BY <1>1, <1>5, <1>6, StationOwes DEF IInv, TypeOK, PeerPairMsg3Action

LEMMA StaGroup1Step == IInv /\ PeerGroupMsg1Action => IInv'
<1> SUFFICES ASSUME IInv, PeerGroupMsg1Action PROVE IInv'
  OBVIOUS
<1>1. Head(down) \in Frames /\ down' \in Seq(Frames) /\ Len(down') <= Cap
  BY ReceivesType DEF IInv, PeerGroupMsg1Action
<1> DEFINE f == Head(down)
           n == [WithGroupKey(f) EXCEPT !.R_Counter = f.rc]
           s1 == [n EXCEPT !.PortSecured = TRUE]
           g == Encrypted(Eapol("group2", s1), s1)
<1>2. \/ sta' = s1 /\ up' \in Transmit(up, g)
      \/ sta' = n /\ UNCHANGED up
      \/ UNCHANGED <<sta, up>>
  BY Zenon DEF PeerGroupMsg1Action
<1>3. n \in Stations
  BY <1>1, WithGroupKeyType DEF IInv
<1> HIDE DEF n
<1>4. s1 \in Stations
  BY <1>3 DEF Stations
<1> HIDE DEF s1
<1>5. g \in Frames
  <2>1. Eapol("group2", s1) \in Frames
    BY <1>4, EapolType DEF Stations, FrameTypes
  <2> QED
    BY <1>4, <2>1, EncryptedType DEF Stations
<1> HIDE DEF g
<1>6. up' \in Seq(Frames) /\ Len(up') <= Cap
  <2>1. CASE up' \in Transmit(up, g)
    BY <1>5, <2>1, TransmitType DEF IInv, TypeOK
  <2>2. CASE UNCHANGED up
    BY <2>2 DEF IInv, TypeOK
  <2> QED
    BY <1>2, <2>1, <2>2
<1>7. sta' \in Stations
  BY <1>2, <1>3, <1>4 DEF IInv, TypeOK
<1> QED
  BY <1>1, <1>6, <1>7, StationOwes DEF IInv, TypeOK, PeerGroupMsg1Action

-----------------------------------------------------------------------------
(* Who looks after an unfinished handshake. *)

Handlers == {"deauth", "group", "start", "send"}
Owed == ap.in /\ ~ap.Established /\ (ap.WpaState # DONE \/ GTK = 1)

\* A timer of the start is worth something while its flag is set.
\* Message 1 brings a retry timer with it, and from then on nothing but the end of the
\* handshake or the timer's handler stops it.  When the handler has chosen to send
\* message 1 again, the handshake was not beyond it: a later message has set the timer.
TimedInv ==
    /\ Owed /\ ap.WpaState < PTKSTART =>
        \/ retryTimer \/ (startTimer /\ startFlag) \/ started > 0
        \/ timerPc \in Handlers \cup {"enqueue"} \/ "lost" \in marks
    /\ Owed /\ ap.WpaState >= PTKSTART => retryTimer \/ timerPc \in Handlers
    /\ Owed /\ ap.WpaState >= NEGOTIATING /\ timerPc = "start" => retryTimer
    /\ ap.WpaState >= NEGOTIATING => ap.ReTryCounter >= MSG3_RETRY
    /\ ap.PortSecured => ap.WpaState >= PTKSTART
    /\ timerPc = "rekey" => GTK > 1
    /\ ap.in => ap.WpaState >= INITPSK

\* The calls whose failure leaves a handshake to the station: message 1 before its
\* timer is set, the start that the MLME queue refuses, the disconnection.
NoneGivesUp == Fails \cap {"pair1", "start", "deauth"} = {}

\* Two entries at the same stage of a handshake.
SameStage(x, e) ==
    /\ x.in = e.in /\ x.Established = e.Established /\ x.WpaState = e.WpaState
    /\ x.ReTryCounter = e.ReTryCounter /\ x.PortSecured = e.PortSecured

LEMMA StageType ==
    ASSUME NEW e \in Entries
    PROVE  /\ e.in \in BOOLEAN /\ e.Established \in BOOLEAN /\ e.PortSecured \in BOOLEAN
           /\ e.WpaState \in Int /\ e.ReTryCounter \in Nat
BY DEF Entries

LEMMA CountUpStage == ASSUME NEW e \in Entries PROVE SameStage(CountUp(e), e)
BY DEF CountUp, Entries, SameStage

\* Group message 1 does not change the stage, whether it can be sent or not.
LEMMA GroupStage ==
    ASSUME NEW e \in Entries, WPAStart2WayGroupHS(e) PROVE SameStage(ap', e)
<1>1. ap' = CountUp(e) \/ ap' = e
  BY Zenon DEF WPAStart2WayGroupHS
<1> QED
  BY <1>1, CountUpStage DEF SameStage

\* Message 1 sets the timer.
LEMMA Msg1Stage ==
    ASSUME NoneGivesUp, TypeOK, NEW e \in Entries, SendMsg1(e)
    PROVE  /\ retryTimer' = TRUE /\ ap'.WpaState = PTKSTART
           /\ ap'.PortSecured = e.PortSecured
<1> DEFINE m == [CountUp(e) EXCEPT !.ANonce = nonces.ap + 1]
           n == [m EXCEPT !.WpaState = PTKSTART]
<1>1. Outcomes("pair1") = {TRUE}
  BY DEF NoneGivesUp, Outcomes
<1>2. ap' = n /\ retryTimer' = TRUE
  BY <1>1, Zenon DEF SendMsg1, TimerAfterMsg1
<1>3. CountUp(e) \in Entries /\ CountUp(e).PortSecured = e.PortSecured
  BY CountUpType, CountUpStage DEF SameStage
<1>4. m \in Entries /\ m.PortSecured = e.PortSecured
  <2>1. nonces.ap + 1 \in Nat
    BY DEF TypeOK
  <2> QED
    BY <1>3, <2>1 DEF Entries
<1> HIDE DEF m
<1>5. n.WpaState = PTKSTART /\ n.PortSecured = m.PortSecured
  BY <1>4 DEF Entries
<1> QED
  BY <1>2, <1>4, <1>5

\* A handshake whose timer has been set is looked after.
LEMMA TimerSet ==
    ASSUME TimedInv, retryTimer', ap'.WpaState \in Int,
           ap'.WpaState >= NEGOTIATING => ap'.ReTryCounter >= MSG3_RETRY,
           ap'.PortSecured => ap'.WpaState >= PTKSTART, ap'.in => ap'.WpaState >= INITPSK,
           timerPc' = "rekey" => timerPc = "rekey" /\ GTK' = GTK
    PROVE  TimedInv'
BY DEF TimedInv

\* So is one that owes nothing.
LEMMA NothingOwed ==
    ASSUME TimedInv, ~Owed', ap'.WpaState \in Int,
           ap'.WpaState >= NEGOTIATING => ap'.ReTryCounter >= MSG3_RETRY,
           ap'.PortSecured => ap'.WpaState >= PTKSTART, ap'.in => ap'.WpaState >= INITPSK,
           timerPc' = "rekey" => timerPc = "rekey" /\ GTK' = GTK
    PROVE  TimedInv'
BY DEF TimedInv

\* A step that leaves stage, timers and timer thread as they are.
LEMMA StageKept ==
    ASSUME TimedInv, SameStage(ap', ap), UNCHANGED <<timers, started, timerPc, GTK, marks>>
    PROVE  TimedInv'
BY DEF TimedInv, Owed, SameStage, timers

LEMMA NoEntryStage == ~NoEntry.in /\ NoEntry.WpaState = 0 /\ ~NoEntry.PortSecured
BY DEF NoEntry

LEMMA DeleteTimed ==
    ASSUME TimedInv, Delete, UNCHANGED GTK, timerPc' = "rekey" => timerPc = "rekey" PROVE TimedInv'
<1>1. ~ap'.in /\ ap'.WpaState = 0 /\ ~ap'.PortSecured
  BY NoEntryStage DEF Delete
<1> QED
  BY <1>1, NothingOwed DEF Owed

LEMMA MlmeTimed ==
    ASSUME NoneGivesUp, IInv, TimedInv, ApMlme PROVE TimedInv'
<1>1. ap \in Entries /\ ap' \in Entries /\ ap'.WpaState \in Int /\ ap.WpaState \in Int
  <2>1. ap \in Entries /\ ap' \in Entries
    BY ApAssocStep, ApDisassocStep, StartStep, Msg2CheckStep, Msg2AnswerStep, Msg4Step, Group2Step
       DEF ApMlme, IInv, TypeOK
  <2> QED
    BY <2>1, StageType
<1>2. CASE ApAssoc
  <2>1. /\ ap'.WpaState = INITPSK /\ ap'.PortSecured = FALSE
        /\ UNCHANGED <<timerPc, GTK>>
    <3>1. CASE ap.in
      BY <1>1, <1>2, <3>1 DEF ApAssoc, EntryAfterAssoc, Entries, group
    <3>2. CASE ~ap.in
      BY <1>2, <3>2 DEF ApAssoc, EntryAfterAssoc, NoEntry, group
    <3> QED
      BY <3>1, <3>2
  <2>2. (startTimer' /\ startFlag') \/ timerPc' = "enqueue" \/ "lost" \in marks'
    <3>1. /\ startTimer' = (startTimer \/ ~startFlag) /\ startFlag' = TRUE /\ timerPc' = timerPc
          /\ startFlag /\ timerPc = "clear" => marks' = marks \cup {"lost"}
      BY <1>2 DEF ApAssoc
    <3> QED
      BY <3>1 DEF IInv, RetryInv
  <2> QED
    BY <2>1, <2>2 DEF TimedInv
<1>3. CASE ApDisassoc
  BY <1>3, DeleteTimed DEF ApDisassoc, group
<1>4. CASE WpaEAPOLStartAction
  <2> DEFINE e1 == [ap EXCEPT !.WpaState = INITPSK]
             e2 == [e1 EXCEPT !.R_Counter = 0]
             e == [e2 EXCEPT !.ReTryCounter = MSG1_RETRY]
  <2>1. UNCHANGED <<starting, timerPc, GTK, marks>>
    BY <1>4 DEF WpaEAPOLStartAction, group
  <2>2. CASE SendMsg1(e) /\ ~ap.PortSecured
    <3>1. e1 \in Entries /\ e1.PortSecured = ap.PortSecured
      BY <1>1 DEF Entries
    <3> HIDE DEF e1
    <3>2. e2 \in Entries /\ e2.PortSecured = e1.PortSecured
      BY <3>1 DEF Entries
    <3> HIDE DEF e2
    <3>3. e \in Entries /\ e.PortSecured = e2.PortSecured
      BY <3>2 DEF Entries
    <3> HIDE DEF e
    <3>4. retryTimer' = TRUE /\ ap'.WpaState = PTKSTART /\ ~ap'.PortSecured
      BY <2>2, <3>1, <3>2, <3>3, Msg1Stage DEF IInv
    <3> QED
      BY <1>1, <2>1, <3>4, TimerSet
  <2>3. CASE UNCHANGED <<ap, retryTimer>> /\ ~(ap.in /\ ~ap.PortSecured /\ ap.WpaState < PTKSTART)
    BY <1>1, <2>1, <2>3 DEF TimedInv, Owed
  <2> QED
    BY <1>4, <2>2, <2>3, Zenon DEF WpaEAPOLStartAction
<1>5. CASE PeerPairMsg2Check
  <2>1. PICK k : ap' = [ap EXCEPT !.PTK = k] \/ ap' = ap
    BY <1>5, Zenon DEF PeerPairMsg2Check
  <2>2. SameStage(ap', ap)
    BY <1>1, <2>1 DEF SameStage, Entries
  <2> QED
    BY <1>5, <2>2, StageKept DEF PeerPairMsg2Check, timers, group
<1>6. CASE PeerPairMsg2Answer
  <2>1. UNCHANGED <<starting, started, timerPc, GTK, marks>>
    BY <1>6 DEF PeerPairMsg2Answer, group
  <2> DEFINE n == CountUp(ap)
             e1 == [n EXCEPT !.WpaState = NEGOTIATING]
  <2>2. CASE ap' = [e1 EXCEPT !.ReTryCounter = MSG3_RETRY] /\ retryTimer' = TRUE
    <3>1. n \in Entries
      BY <1>1, CountUpType
    <3> HIDE DEF n
    <3>2. e1 \in Entries /\ e1.WpaState = NEGOTIATING
      BY <3>1 DEF Entries
    <3> HIDE DEF e1
    <3>3. ap'.WpaState = NEGOTIATING /\ ap'.ReTryCounter = MSG3_RETRY
      BY <2>2, <3>2 DEF Entries
    <3> QED
      BY <1>1, <2>1, <2>2, <3>3, TimerSet
  <2>3. CASE UNCHANGED <<ap, retryTimer>>
    BY <2>1, <2>3, StageKept DEF SameStage, timers
  <2> QED
    BY <1>6, <2>2, <2>3, Zenon DEF PeerPairMsg2Answer
<1>7. CASE PeerPairMsg4Action
  <2>1. UNCHANGED <<starting, started, timerPc, GTK, marks>>
    BY <1>7 DEF PeerPairMsg4Action, group
  <2> DEFINE n1 == [ap EXCEPT !.PairwiseKey = ap.PTK]
             n2 == [n1 EXCEPT !.WpaState = DONE]
             n3 == [n2 EXCEPT !.PortSecured = TRUE]
             n4 == [n3 EXCEPT !.Established = TRUE]
             n5 == [n3 EXCEPT !.ReTryCounter = GROUP_RETRY]
  <2>2. \/ ap' = n4 /\ ap.WpaState >= NEGOTIATING
        \/ WPAStart2WayGroupHS(n5) /\ retryTimer' = TRUE
        \/ UNCHANGED <<ap, retryTimer>>
    BY <1>7, Zenon DEF PeerPairMsg4Action
  <2>3. n1 \in Entries /\ n1.ReTryCounter = ap.ReTryCounter
    BY <1>1 DEF Entries
  <2> HIDE DEF n1
  <2>4. n2 \in Entries /\ n2.WpaState = DONE /\ n2.ReTryCounter = n1.ReTryCounter
    BY <2>3 DEF Entries
  <2> HIDE DEF n2
  <2>5. n3 \in Entries /\ n3.WpaState = DONE /\ n3.ReTryCounter = n2.ReTryCounter
    BY <2>4 DEF Entries
  <2> HIDE DEF n3
  <2>6. n4.WpaState = DONE /\ n4.ReTryCounter = n3.ReTryCounter /\ n4.Established = TRUE
    BY <2>5 DEF Entries
  <2>7. n5 \in Entries /\ n5.WpaState = DONE /\ n5.ReTryCounter = GROUP_RETRY
    BY <2>5 DEF Entries
  <2> HIDE DEF n4, n5
  <2>8. CASE ap' = n4 /\ ap.WpaState >= NEGOTIATING
    <3>1. ap'.ReTryCounter >= MSG3_RETRY
      BY <2>3, <2>4, <2>5, <2>6, <2>8 DEF TimedInv
    <3> QED
      BY <1>1, <2>1, <2>6, <2>8, <3>1, NothingOwed DEF Owed
  <2>9. CASE WPAStart2WayGroupHS(n5) /\ retryTimer' = TRUE
    <3>1. ap'.WpaState = DONE /\ ap'.ReTryCounter = GROUP_RETRY
      BY <2>7, <2>9, GroupStage DEF SameStage
    <3> QED
      BY <1>1, <2>1, <2>9, <3>1, TimerSet
  <2>10. CASE UNCHANGED <<ap, retryTimer>>
    BY <2>1, <2>10, StageKept DEF SameStage, timers
  <2> QED
    BY <2>2, <2>8, <2>9, <2>10
<1>8. CASE PeerGroupMsg2Action
  <2>1. UNCHANGED <<starting, started, timerPc, GTK, marks>>
    BY <1>8 DEF PeerGroupMsg2Action, group
  <2>2. ap' = [ap EXCEPT !.Established = TRUE] \/ UNCHANGED <<ap, retryTimer>>
    BY <1>8, Zenon DEF PeerGroupMsg2Action
  <2>3. CASE ap' = [ap EXCEPT !.Established = TRUE]
    <3>1. /\ ap'.in = ap.in /\ ap'.Established = TRUE /\ ap'.WpaState = ap.WpaState
          /\ ap'.ReTryCounter = ap.ReTryCounter /\ ap'.PortSecured = ap.PortSecured
      BY <1>1, <2>3 DEF Entries
    <3> QED
      BY <2>1, <3>1 DEF TimedInv, Owed
  <2>4. CASE UNCHANGED <<ap, retryTimer>>
    BY <2>1, <2>4, StageKept DEF SameStage, timers
  <2> QED
    BY <2>2, <2>3, <2>4
<1> QED
  BY <1>2, <1>3, <1>4, <1>5, <1>6, <1>7, <1>8 DEF ApMlme

LEMMA TimersTimed ==
    ASSUME NoneGivesUp, IInv, TimedInv, ApTimers PROVE TimedInv'
<1>1. ap \in Entries /\ ap' \in Entries /\ ap'.WpaState \in Int /\ ap.WpaState \in Int
  <2>1. ap \in Entries /\ ap' \in Entries
    BY EnqueueStartStep, StartEnqueueStep, StartClearStep,
       RetryExecStep, RetryDeauthStep, RetryGroupStep, RetryTestStep, RetrySendStep,
       NewGTKStep, RekeyStationsStep, CountDownStep DEF ApTimers, IInv, TypeOK
  <2> QED
    BY <2>1, StageType
<1>2. CASE EnqueueStartForPSKExec
  <2>1. /\ UNCHANGED <<ap, retryTimer, started, GTK, marks>> /\ timerPc = "idle"
        /\ timerPc' = IF ap.in /\ ap.WpaState < PTKSTART /\ startFlag THEN "enqueue" ELSE "clear"
    BY <1>2 DEF EnqueueStartForPSKExec, group, TimerFree
  <2> QED
    BY <2>1 DEF TimedInv, Owed, Handlers
<1>11. CASE StartEnqueue
  <2>1. Outcomes("start") = {TRUE}
    BY DEF NoneGivesUp, Outcomes
  <2>2. started \in Nat /\ started' = started + (IF ap.in THEN 1 ELSE 0)
    BY <1>11, <2>1 DEF StartEnqueue, IInv, TypeOK
  <2>3. UNCHANGED <<ap, timers, GTK, marks>> /\ timerPc = "enqueue" /\ timerPc' = "clear"
    BY <1>11 DEF StartEnqueue, group
  <2>4. Owed => started' > 0
    BY <2>2 DEF Owed
  <2> QED
    BY <2>3, <2>4 DEF TimedInv, Owed, Handlers, timers
<1>12. CASE StartClear
  <2>1. /\ UNCHANGED <<ap, retryTimer, startTimer, started, GTK>>
        /\ timerPc = "clear" /\ timerPc' = "idle"
        /\ startTimer \/ "lost" \in marks => "lost" \in marks'
    BY <1>12 DEF StartClear, group
  <2> QED
    BY <2>1 DEF TimedInv, Owed, Handlers
<1>3. CASE WPARetryExec
  <2>1. PICK n : n = ap.ReTryCounter + 1
    OBVIOUS
  <2>2. ap.ReTryCounter \in Nat /\ n \in Nat
    BY <1>1, <2>1, StageType
  <2>3. /\ ap'.in = ap.in /\ ap'.Established = ap.Established /\ ap'.WpaState = ap.WpaState
        /\ ap'.PortSecured = ap.PortSecured /\ ap'.ReTryCounter = n
    BY <1>1, <1>3, <2>1 DEF WPARetryExec, Entries
  <2>4. UNCHANGED <<starting, started, GTK, marks>> /\ timerPc = "idle" /\ timerPc' = RetryDoes(n)
    BY <1>3, <2>1 DEF WPARetryExec, TimerFree, group
  <2>5. RetryDoes(n) \in {"deauth", "group", "start"} /\ (RetryDoes(n) = "start" => n <= MSG3_RETRY)
    <3>1. CASE n > 21
      BY <3>1 DEF RetryDoes
    <3>2. CASE n = 21
      BY <3>2 DEF RetryDoes
    <3>3. CASE n > 3 /\ n <= 20
      BY <3>3 DEF RetryDoes
    <3>4. CASE n <= 3
      BY <2>2, <3>4 DEF RetryDoes
    <3> QED
      BY <2>2, <3>1, <3>2, <3>3, <3>4
  <2>6. ap.WpaState >= NEGOTIATING => n > MSG3_RETRY
    BY <2>1, <2>2 DEF TimedInv
  <2> QED
    BY <1>1, <2>2, <2>3, <2>4, <2>5, <2>6 DEF TimedInv, Owed, Handlers
<1>4. CASE RetryDeauth
  <2>1. Outcomes("deauth") = {TRUE}
    BY DEF NoneGivesUp, Outcomes
  <2>2. timerPc' = "idle" /\ UNCHANGED <<started, GTK>>
    BY <1>4 DEF RetryDeauth, group
  <2>3. CASE Delete
    BY <2>2, <2>3, DeleteTimed
  <2>4. CASE ~ap.in /\ UNCHANGED ap
    BY <2>2, <2>4 DEF TimedInv, Owed
  <2> QED
    BY <1>4, <2>1, <2>3, <2>4 DEF RetryDeauth
<1>5. CASE RetryGroup
  <2>1. timerPc' = "idle" /\ UNCHANGED <<startTimer, started, GTK>>
    BY <1>5 DEF RetryGroup, group
  <2>2. CASE WPAStart2WayGroupHS(ap) /\ retryTimer' = TRUE
    <3>1. SameStage(ap', ap)
      BY <1>1, <2>2, GroupStage
    <3> QED
      BY <1>1, <2>1, <2>2, <3>1, TimerSet DEF SameStage, TimedInv
  <2>3. CASE ~(ap.in /\ ~ap.Established) /\ UNCHANGED <<ap, retryTimer>>
    BY <2>1, <2>3 DEF TimedInv, Owed
  <2> QED
    BY <1>5, <2>2, <2>3, Zenon DEF RetryGroup
<1>6. CASE RetryTest
  <2>1. UNCHANGED <<ap, timers, started, GTK, marks>> /\ timerPc = "start"
    BY <1>6 DEF RetryTest, timers, group
  <2>2. CASE timerPc' = "send"
    BY <2>1, <2>2 DEF TimedInv, Owed, Handlers, timers
  <2>3. CASE timerPc' = "idle" /\ ~MayStart4Way(ap)
    <3>1. ap.in => ap.WpaState >= NEGOTIATING
      BY <1>1, <2>3 DEF MayStart4Way, TimedInv
    <3> QED
      BY <2>1, <2>3, <3>1 DEF TimedInv, Owed, timers
  <2> QED
    BY <1>6, <2>2, <2>3, Zenon DEF RetryTest
<1>7. CASE RetrySend
  <2>1. timerPc' = "idle" /\ UNCHANGED <<startTimer, started, GTK>>
    BY <1>7 DEF RetrySend, group
  <2>2. CASE SendMsg1(ap)
    <3>1. retryTimer' = TRUE /\ ap'.WpaState = PTKSTART
      BY <1>1, <2>2, Msg1Stage DEF IInv
    <3> QED
      BY <1>1, <2>1, <3>1, TimerSet
  <2>3. CASE ~ap.in /\ UNCHANGED <<ap, retryTimer>>
    BY <2>1, <2>3 DEF TimedInv, Owed
  <2> QED
    BY <1>7, <2>2, <2>3, Zenon DEF RetrySend
<1>8. CASE NewGTK
  <2>1. /\ UNCHANGED <<ap, retryTimer, startTimer, startFlag, started, marks>> /\ timerPc = "idle" /\ timerPc' = "rekey"
        /\ GTK >= 1 /\ GTK \in Int /\ GTK' = GTK + 1
    BY <1>8 DEF NewGTK, timers, TimerFree, IInv, TypeOK
  <2> QED
    BY <2>1 DEF TimedInv, Owed, Handlers
<1>9. CASE RekeyStations
  <2>1. /\ UNCHANGED <<retryTimer, startTimer, startFlag, started, GTK, marks>> /\ timerPc = "rekey" /\ timerPc' = "idle"
    BY <1>9 DEF RekeyStations, timers
  <2> DEFINE e == [ap EXCEPT !.Established = FALSE]
  <2>2. CASE WPAStart2WayGroupHS(e) /\ ap.WpaState = DONE
    <3>1. /\ e \in Entries /\ e.WpaState = ap.WpaState /\ e.ReTryCounter = ap.ReTryCounter
          /\ e.PortSecured = ap.PortSecured
      BY <1>1 DEF Entries
    <3> HIDE DEF e
    <3>2. /\ ap'.WpaState = DONE /\ ap'.ReTryCounter = ap.ReTryCounter /\ ap'.PortSecured = ap.PortSecured
      BY <2>2, <3>1, GroupStage DEF SameStage
    <3>3. GTK > 1 /\ GTK \in Int
      BY <2>1 DEF TimedInv, IInv, TypeOK
    <3> QED
      BY <1>1, <2>1, <2>2, <3>2, <3>3, NothingOwed DEF Owed, TimedInv
  <2>3. CASE UNCHANGED ap
    BY <2>1, <2>3 DEF TimedInv, Owed, Handlers
  <2> QED
    BY <1>9, <2>2, <2>3, Zenon DEF RekeyStations
<1>10. CASE CountDown
  BY <1>10, StageKept DEF CountDown, timers, SameStage
<1> QED
  BY <1>2, <1>3, <1>4, <1>5, <1>6, <1>7, <1>8, <1>9, <1>10, <1>11, <1>12 DEF ApTimers

LEMMA TimedStep ==
    ASSUME NoneGivesUp PROVE IInv /\ TimedInv /\ [Next]_vars => TimedInv'
<1> SUFFICES ASSUME IInv, TimedInv, [Next]_vars PROVE TimedInv'
  OBVIOUS
<1>1. CASE UNCHANGED <<apVars, marks>>
  BY <1>1, StageKept DEF apVars, timers, group, SameStage
<1>2. CASE Station
  BY <1>1, <1>2 DEF Station, Join, JoinTimeout, LinkUp, Leave, PeerDeauth,
                    PeerPairMsg1Action, PeerPairMsg3Action, PeerGroupMsg1Action
<1> QED
  BY <1>1, <1>2, MlmeTimed, TimersTimed DEF Next, vars

-----------------------------------------------------------------------------
\* Every step, and a stuttering one, keeps the invariant.
LEMMA NextIInv == IInv /\ [Next]_vars => IInv'
<1> SUFFICES ASSUME IInv, [Next]_vars PROVE IInv'
  OBVIOUS
<1>1. CASE ApMlme
  BY <1>1, ApAssocStep, ApDisassocStep, StartStep, Msg2CheckStep, Msg2AnswerStep,
     Msg4Step, Group2Step DEF ApMlme
<1>2. CASE ApTimers
  BY <1>2, EnqueueStartStep, StartEnqueueStep, StartClearStep,
       RetryExecStep, RetryDeauthStep, RetryGroupStep, RetryTestStep,
     RetrySendStep, NewGTKStep, RekeyStationsStep, CountDownStep DEF ApTimers
<1>3. CASE Station
  BY <1>3, JoinStep, JoinTimeoutStep, LinkUpStep, LeaveStep, PeerDeauthStep,
     StaMsg1Step, StaMsg3Step, StaGroup1Step DEF Station
<1>4. CASE UNCHANGED vars
  BY <1>4 DEF IInv, TypeOK, RetryInv, vars, apVars, timers, group
<1> QED
  BY <1>1, <1>2, <1>3, <1>4 DEF Next

\* In every reachable state the variables have their types, the channels keep their
\* bound and the countdown of GREKEYPeriodicExec is not below zero.
THEOREM TypeCorrect == Spec => []TypeOK
<1>1. IInv => TypeOK
  BY DEF IInv
<1> QED
  BY InitIInv, NextIInv, <1>1, PTL DEF Spec

\* WPARetryExec counts no further than its last case, whatever message 2, message 4 and
\* new associations make of the counter between its two halves.
THEOREM RetriesAreBounded == Spec => []RetriesBounded
<1>1. IInv => RetriesBounded
  BY DEF IInv, RetryInv, RetriesBounded
<1> QED
  BY InitIInv, NextIInv, <1>1, PTL DEF Spec

\* WPARetryExec against the MLME handlers that set and stop its timer: unless message 1,
\* the queued start or the disconnection fails, an unfinished handshake has a timer, a
\* queued start or the timer's handler to go on with it, or its start is one that
\* EnqueueStartForPSKExec has lost to an association that came before its end; for any
\* number of associations and frames in flight, and whichever other allocations fail.
THEOREM HandshakesAreTimed ==
    ASSUME NoneGivesUp PROVE Spec => []HandshakeTimed
<1>1. Init => TimedInv
  BY DEF Init, TimedInv, Owed, NoEntry
<1>2. IInv /\ TimedInv => HandshakeTimed
  <2>1. IInv => ap.WpaState \in Int
    BY StageType DEF IInv, TypeOK
  <2> QED
    BY <2>1 DEF TimedInv, Owed, HandshakeTimed, Handlers
<1> QED
  BY InitIInv, NextIInv, TimedStep, <1>1, <1>2, PTL DEF Spec

-----------------------------------------------------------------------------
(* What a step does to a channel and to the two entries, read off once for *)
(* all the invariants below.                                               *)

\* The channel loses its first frame, or may get a frame of a set at its end.
Takes(c, d) == Len(d) = Len(c) - 1 /\ \A i \in 1 .. Len(d) : d[i] = c[i + 1]
MaySend(c, d, F) ==
    \/ d = c
    \/ /\ Len(d) = Len(c) + 1 /\ d[Len(c) + 1] \in F
       /\ \A i \in 1 .. Len(c) : d[i] = c[i]
\* Either: what has been in flight stays in its order.
Moves(c, d, F) ==
    \E k \in {0, 1} : \A i \in 1 .. Len(d) :
        \/ i + k <= Len(c) /\ d[i] = c[i + k]
        \/ i = Len(d) /\ i + k > Len(c) /\ d[i] \in F

OfType(T) == {f \in Frames : f.t \in T /\ f.rc = 0}
Pair1Of(e) == {f \in Frames : f.t = "pair1" /\ f.rc = e.R_Counter /\ f.nonce = e.ANonce}
Pair2Of(s) == {f \in Frames : f.t = "pair2" /\ f.rc = s.R_Counter /\ f.mic = s.PTK /\ f.nonce = s.PTK[2]}
Pair3Of(e) == {f \in Frames : f.t = "pair3" /\ f.rc = e.R_Counter /\ f.mic = e.PTK /\ (WPA2 => f.gtk = GTK)}
Pair4Of(s) == {f \in Frames : f.t = "pair4" /\ f.rc = s.R_Counter /\ f.mic = s.PTK}
Group1Of(e) == {f \in Frames : /\ f.t = "group1" /\ f.rc = e.R_Counter /\ f.mic = e.PTK
                               /\ f.gtk = GTK /\ f.enc = e.PairwiseKey}
Group2Of(s) == {f \in Frames : f.t = "group2" /\ f.rc = s.R_Counter}

LEMMA TransmitSends ==
    ASSUME NEW c \in Seq(Frames), NEW f \in Frames, NEW F, f \in F, NEW d \in Transmit(c, f)
    PROVE  MaySend(c, d, F)
<1>1. CASE d = Append(c, f)
  <2>1. Len(d) = Len(c) + 1 /\ d[Len(c) + 1] = f /\ \A i \in 1 .. Len(c) : d[i] = c[i]
    BY <1>1
  <2> QED
    BY <2>1 DEF MaySend
<1>2. d = c \/ d = Append(c, f)
  BY DEF Transmit
<1> QED
  BY <1>1, <1>2 DEF MaySend

LEMMA SendMoves ==
    ASSUME NEW c \in Seq(Frames), NEW d \in Seq(Frames), NEW F, MaySend(c, d, F)
    PROVE  Moves(c, d, F)
<1>1. Len(c) \in Nat /\ Len(d) \in Nat
  OBVIOUS
<1>2. \A i \in 1 .. Len(d) :
        \/ i + 0 <= Len(c) /\ d[i] = c[i + 0]
        \/ i = Len(d) /\ i + 0 > Len(c) /\ d[i] \in F
  BY <1>1 DEF MaySend
<1> QED
  BY <1>2 DEF Moves

LEMMA TakeMoves ==
    ASSUME NEW c \in Seq(Frames), NEW d \in Seq(Frames), NEW F, Takes(c, d)
    PROVE  Moves(c, d, F)
<1>1. Len(c) \in Nat /\ Len(d) \in Nat
  OBVIOUS
<1>2. ASSUME NEW i \in 1 .. Len(d) PROVE i + 1 <= Len(c) /\ d[i] = c[i + 1]
  BY <1>1 DEF Takes
<1> QED
  BY <1>2 DEF Moves

LEMMA StayMoves ==
    ASSUME NEW c \in Seq(Frames), NEW d, d = c, NEW F
    PROVE  Moves(c, d, F)
BY SendMoves DEF MaySend

\* A larger set of frames to send.
LEMMA MovesMore ==
    ASSUME NEW c, NEW d, NEW F, NEW G, F \subseteq G, Moves(c, d, F)
    PROVE  Moves(c, d, G)
BY DEF Moves

LEMMA TailTakes ==
    ASSUME NEW c \in Seq(Frames), c # <<>>
    PROVE  Takes(c, Tail(c)) /\ Head(c) = c[1] /\ Len(c) >= 1
<1>1. Len(Tail(c)) = Len(c) - 1 /\ Head(c) = c[1] /\ Len(c) >= 1
  OBVIOUS
<1>2. ASSUME NEW i \in 1 .. Len(Tail(c)) PROVE Tail(c)[i] = c[i + 1]
  BY <1>1
<1> QED
  BY <1>1, <1>2 DEF Takes

LEMMA ArrivesDoes ==
    ASSUME TypeOK, NEW t, Arrives(t)
    PROVE  Takes(up, up') /\ Len(up) >= 1 /\ Head(up) = up[1] /\ up[1].t = t /\ mlmePc = "idle"
BY TailTakes DEF TypeOK, Arrives, MlmeFree

LEMMA ReceivesDoes ==
    ASSUME TypeOK, NEW t, Receives(t)
    PROVE  /\ Takes(down, down') /\ Len(down) >= 1 /\ Head(down) = down[1] /\ down[1].t = t
           /\ Prompt => timerPc = "idle"
BY TailTakes DEF TypeOK, Receives, Air, TimerFree

\* The numbers in a key and in the frames of a channel.
LEMMA KeyNumbers == ASSUME NEW k \in Keys PROVE k[1] \in Nat /\ k[2] \in Nat /\ k = <<k[1], k[2]>>
BY DEF Keys

LEMMA FrameNumbers ==
    ASSUME NEW f \in Frames
    PROVE  /\ f.rc \in Nat /\ f.nonce \in Nat /\ f.gtk \in Nat /\ f.mic \in Keys /\ f.enc \in Keys
           /\ f.mic[1] \in Nat /\ f.mic[2] \in Nat /\ f.t \in FrameTypes
<1>1. f.rc \in Nat /\ f.nonce \in Nat /\ f.gtk \in Nat /\ f.mic \in Keys /\ f.enc \in Keys /\ f.t \in FrameTypes
  BY DEF Frames
<1> QED
  BY <1>1, KeyNumbers

LEMMA ChannelNumbers ==
    ASSUME NEW c \in Seq(Frames)
    PROVE  /\ Len(c) \in Nat
           /\ \A i \in 1 .. Len(c) :
                /\ c[i] \in Frames /\ c[i].rc \in Nat /\ c[i].nonce \in Nat /\ c[i].gtk \in Nat
                /\ c[i].mic \in Keys /\ c[i].mic[1] \in Nat /\ c[i].mic[2] \in Nat
<1>1. Len(c) \in Nat /\ \A i \in 1 .. Len(c) : c[i] \in Frames
  OBVIOUS
<1> QED
  BY <1>1, FrameNumbers

LEMMA Numbers ==
    ASSUME TypeOK
    PROVE  /\ ap.WpaState \in 0 .. 10 /\ ap.R_Counter \in Nat /\ ap.ReTryCounter \in Nat /\ ap.ANonce \in Nat
           /\ ap.PTK \in Keys /\ ap.PTK[1] \in Nat /\ ap.PTK[2] \in Nat
           /\ ap.PairwiseKey \in Keys /\ ap.PairwiseKey[1] \in Nat /\ ap.PairwiseKey[2] \in Nat
           /\ ap.in \in BOOLEAN /\ ap.Established \in BOOLEAN
           /\ sta.WpaState \in 0 .. 10 /\ sta.R_Counter \in Nat /\ sta.ANonce \in Nat /\ sta.GTK \in Nat
           /\ sta.PTK \in Keys /\ sta.PTK[1] \in Nat /\ sta.PTK[2] \in Nat
           /\ sta.PairwiseKey \in Keys /\ sta.PortSecured \in BOOLEAN
           /\ nonces.ap \in Nat /\ nonces.sta \in Nat /\ GTK \in Nat /\ GTK >= 1
<1>1. ap \in Entries /\ sta \in Stations /\ nonces \in [ap : Nat, sta : Nat] /\ GTK \in 1 .. MaxRekeys + 1
  BY DEF TypeOK
<1>2. ap.PTK \in Keys /\ ap.PairwiseKey \in Keys /\ sta.PTK \in Keys /\ sta.PairwiseKey \in Keys
  BY <1>1 DEF Entries, Stations
<1>3. /\ ap.WpaState \in 0 .. 10 /\ ap.R_Counter \in Nat /\ ap.ReTryCounter \in Nat /\ ap.ANonce \in Nat
      /\ ap.in \in BOOLEAN /\ ap.Established \in BOOLEAN
  BY <1>1 DEF Entries
<1>4. /\ sta.WpaState \in 0 .. 10 /\ sta.R_Counter \in Nat /\ sta.ANonce \in Nat /\ sta.GTK \in Nat
      /\ sta.PortSecured \in BOOLEAN
  BY <1>1 DEF Stations
<1>5. nonces.ap \in Nat /\ nonces.sta \in Nat /\ GTK \in Nat /\ GTK >= 1
  BY <1>1, WpaAssumption
<1> QED
  BY <1>2, <1>3, <1>4, <1>5, KeyNumbers

\* Two states of an entry that differ in no more than its replay counter, its retries
\* and what concerns the port.
SameEntry(x, e) ==
    /\ x.in = e.in /\ x.WpaState = e.WpaState /\ x.ANonce = e.ANonce
    /\ x.PTK = e.PTK /\ x.PairwiseKey = e.PairwiseKey

LEMMA CountUpDoes ==
    ASSUME NEW e \in Entries
    PROVE  /\ CountUp(e) \in Entries /\ SameEntry(CountUp(e), e)
           /\ CountUp(e).R_Counter = e.R_Counter + 1 /\ CountUp(e).Established = e.Established
           /\ CountUp(e).ReTryCounter = e.ReTryCounter
BY DEF CountUp, Entries, SameEntry

LEMMA NoEntryDoes ==
    /\ ~NoEntry.in /\ NoEntry.WpaState = 0 /\ NoEntry.R_Counter = 0 /\ NoEntry.ReTryCounter = 0
    /\ NoEntry.ANonce = 0 /\ NoEntry.PTK = NoKey /\ NoEntry.PairwiseKey = NoKey /\ ~NoEntry.Established
BY DEF NoEntry

\* What the sender of a frame makes of it.
LEMMA Group1Frame ==
    ASSUME NEW e \in Entries, GTK \in Nat
    PROVE  Encrypted([Eapol("group1", e) EXCEPT !.gtk = GTK], e) \in Group1Of(e)
<1> DEFINE f == Eapol("group1", e)
           g == [f EXCEPT !.gtk = GTK]
<1>1. e.R_Counter \in Nat /\ e.PTK \in Keys /\ e.PairwiseKey \in Keys
  BY DEF Entries
<1>2. f \in Frames
  BY <1>1, EapolType DEF FrameTypes
<1>3. f.t = "group1" /\ f.rc = e.R_Counter /\ f.mic = e.PTK
  BY DEF Eapol, Frame
<1> HIDE DEF f
<1>4. g \in Frames /\ g.t = "group1" /\ g.rc = e.R_Counter /\ g.mic = e.PTK /\ g.gtk = GTK
  BY <1>2, <1>3 DEF Frames
<1> HIDE DEF g
<1>5. Encrypted(g, e) \in Group1Of(e)
  BY <1>1, <1>4 DEF Encrypted, Frames, Group1Of
<1> QED
  BY <1>5 DEF f, g

LEMMA GroupDoes ==
    ASSUME TypeOK, NEW e \in Entries, WPAStart2WayGroupHS(e)
    PROVE  /\ SameEntry(ap', e) /\ ap'.Established = e.Established /\ ap'.ReTryCounter = e.ReTryCounter
           /\ MaySend(down, down', Group1Of(ap'))
           /\ \/ ap'.R_Counter = e.R_Counter + 1
              \/ "group1" \in Fails /\ ap'.R_Counter = e.R_Counter /\ down' = down
<1> DEFINE n == CountUp(e)
           f == Encrypted([Eapol("group1", n) EXCEPT !.gtk = GTK], n)
<1>1. n \in Entries /\ SameEntry(n, e) /\ n.R_Counter = e.R_Counter + 1 /\ n.Established = e.Established /\ n.ReTryCounter = e.ReTryCounter
  BY CountUpDoes
<1>2. GTK \in Nat /\ down \in Seq(Frames)
  BY Numbers DEF TypeOK
<1>3. f \in Group1Of(n) /\ f \in Frames
  BY <1>1, <1>2, Group1Frame DEF Group1Of
<1>4. CASE ap' = n /\ down' \in Transmit(down, f)
  <2>1. MaySend(down, down', Group1Of(n))
    BY <1>2, <1>3, <1>4, TransmitSends
  <2>2. MaySend(down, down', Group1Of(ap'))
    BY <1>4, <2>1, Zenon
  <2> HIDE DEF n
  <2> QED
    BY <1>1, <1>4, <2>2
<1>5. CASE "group1" \in Fails /\ ap' = e /\ down' = down
  BY <1>5 DEF MaySend, SameEntry
<1>6. (ap' = n /\ down' \in Transmit(down, f)) \/ ("group1" \in Fails /\ ap' = e /\ down' = down)
  <2>1. PICK ok \in Outcomes("group1") : IF ok THEN ap' = n /\ down' \in Transmit(down, f)
                                                ELSE ap' = e /\ UNCHANGED down
    BY DEF WPAStart2WayGroupHS
  <2>2. ok \/ (~ok /\ "group1" \in Fails)
    BY DEF Outcomes
  <2> QED
    BY <2>1, <2>2
<1> QED
  BY <1>4, <1>5, <1>6

LEMMA Pair1Frame ==
    ASSUME NEW e \in Entries
    PROVE  EncryptedIfSecured([Eapol("pair1", e) EXCEPT !.nonce = e.ANonce], e) \in Pair1Of(e)
<1> DEFINE f == Eapol("pair1", e)
           g == [f EXCEPT !.nonce = e.ANonce]
<1>1. e.R_Counter \in Nat /\ e.PTK \in Keys /\ e.PairwiseKey \in Keys /\ e.ANonce \in Nat
  BY DEF Entries
<1>2. f \in Frames
  BY <1>1, EapolType DEF FrameTypes
<1>3. f.t = "pair1" /\ f.rc = e.R_Counter
  BY DEF Eapol, Frame
<1> HIDE DEF f
<1>4. g \in Frames /\ g.t = "pair1" /\ g.rc = e.R_Counter /\ g.nonce = e.ANonce
  BY <1>1, <1>2, <1>3 DEF Frames
<1> HIDE DEF g
<1>5. EncryptedIfSecured(g, e) \in Pair1Of(e)
  BY <1>1, <1>4 DEF Encrypted, EncryptedIfSecured, Frames, Pair1Of
<1> QED
  BY <1>5 DEF f, g

LEMMA Msg1Does ==
    ASSUME TypeOK, NEW e \in Entries, SendMsg1(e)
    PROVE  /\ ap'.in = e.in /\ ap'.PTK = e.PTK /\ ap'.PairwiseKey = e.PairwiseKey
           /\ ap'.Established = e.Established /\ ap'.ReTryCounter = e.ReTryCounter
           /\ ap'.R_Counter = e.R_Counter + 1
           /\ ap'.ANonce = nonces.ap + 1 /\ nonces'.ap = nonces.ap + 1 /\ nonces'.sta = nonces.sta
           /\ MaySend(down, down', Pair1Of(ap'))
           /\ \/ ap'.WpaState = PTKSTART
              \/ ap'.WpaState = e.WpaState /\ down' = down
<1> DEFINE n == [CountUp(e) EXCEPT !.ANonce = nonces.ap + 1]
           n2 == [n EXCEPT !.WpaState = PTKSTART]
           f == EncryptedIfSecured([Eapol("pair1", n) EXCEPT !.nonce = n.ANonce], n)
<1>1. /\ n \in Entries /\ n.in = e.in /\ n.PTK = e.PTK /\ n.PairwiseKey = e.PairwiseKey
      /\ n.Established = e.Established /\ n.ReTryCounter = e.ReTryCounter
      /\ n.R_Counter = e.R_Counter + 1 /\ n.ANonce = nonces.ap + 1 /\ n.WpaState = e.WpaState
  <2> DEFINE c == CountUp(e)
  <2>1. c \in Entries /\ SameEntry(c, e) /\ c.R_Counter = e.R_Counter + 1 /\ c.Established = e.Established /\ c.ReTryCounter = e.ReTryCounter
    BY CountUpDoes
  <2>2. nonces.ap + 1 \in Nat
    BY Numbers
  <2> HIDE DEF c
  <2>3. [c EXCEPT !.ANonce = nonces.ap + 1] \in Entries
    BY <2>1, <2>2 DEF Entries
  <2>4. LET m == [c EXCEPT !.ANonce = nonces.ap + 1]
        IN  /\ m.in = e.in /\ m.PTK = e.PTK /\ m.PairwiseKey = e.PairwiseKey
            /\ m.Established = e.Established /\ m.ReTryCounter = e.ReTryCounter
            /\ m.R_Counter = e.R_Counter + 1 /\ m.ANonce = nonces.ap + 1 /\ m.WpaState = e.WpaState
    BY <2>1 DEF Entries, SameEntry
  <2> QED
    BY <2>3, <2>4 DEF c
<1>2. f \in Pair1Of(n) /\ f \in Frames
  BY <1>1, Pair1Frame DEF Pair1Of
<1>3. down \in Seq(Frames)
  BY DEF TypeOK
<1>4. nonces'.ap = nonces.ap + 1 /\ nonces'.sta = nonces.sta
  BY DEF SendMsg1, TypeOK
<1>5. (ap' = n2 /\ down' \in Transmit(down, f)) \/ (ap' = n /\ down' = down)
  BY DEF SendMsg1
<1>6. CASE ap' = n2 /\ down' \in Transmit(down, f)
  <2>1. MaySend(down, down', Pair1Of(n))
    BY <1>2, <1>3, <1>6, TransmitSends
  <2>2. /\ n2.in = n.in /\ n2.PTK = n.PTK /\ n2.PairwiseKey = n.PairwiseKey /\ n2.WpaState = PTKSTART
        /\ n2.Established = n.Established /\ n2.ReTryCounter = n.ReTryCounter
        /\ n2.R_Counter = n.R_Counter /\ n2.ANonce = n.ANonce
    <3> HIDE DEF n
    <3> QED
      BY <1>1 DEF Entries
  <2> HIDE DEF n, n2
  <2>3. MaySend(down, down', Pair1Of(ap'))
    BY <1>6, <2>1, <2>2 DEF Pair1Of
  <2> QED
    BY <1>1, <1>4, <1>6, <2>2, <2>3
<1>7. CASE ap' = n /\ down' = down
  <2> HIDE DEF n
  <2> QED
    BY <1>1, <1>4, <1>7 DEF MaySend
<1> QED
  BY <1>5, <1>6, <1>7

\* The frames without content.
LEMMA PlainFrame ==
    ASSUME NEW t \in FrameTypes
    PROVE  Frame(t) \in Frames /\ Frame(t) \in OfType({t})
BY FrameType DEF Frame, OfType

\* Sending a frame without content.
LEMMA PlainSends ==
    ASSUME NEW c \in Seq(Frames), NEW t \in FrameTypes, NEW d \in Transmit(c, Frame(t))
    PROVE  MaySend(c, d, OfType({t}))
BY PlainFrame, TransmitSends

\* What the actions of the access point's MLME thread do.
LEMMA ApAssocDoes ==
    ASSUME TypeOK, ApAssoc
    PROVE  /\ Takes(up, up') /\ Len(up) >= 1 /\ up[1].t = "assocreq" /\ mlmePc = "idle"
           /\ ap'.in /\ ap'.WpaState = INITPSK /\ ~ap'.Established /\ ap'.PairwiseKey = NoKey
           /\ \/ /\ ap.in /\ ap'.R_Counter = ap.R_Counter
                 /\ ap'.ANonce = ap.ANonce /\ ap'.PTK = ap.PTK
              \/ ap'.R_Counter = 0 /\ ap'.ANonce = 0 /\ ap'.PTK = NoKey
           /\ MaySend(down, down', OfType({"assocrsp"}))
           /\ UNCHANGED <<retryTimer, timerPc, mlmePc, GTK, sta, nonces>>
<1>1. Takes(up, up') /\ Len(up) >= 1 /\ up[1].t = "assocreq" /\ mlmePc = "idle"
  BY ArrivesDoes DEF ApAssoc
<1>2. MaySend(down, down', OfType({"assocrsp"}))
  BY PlainSends DEF ApAssoc, TypeOK, FrameTypes
<1>3. ap' = EntryAfterAssoc /\ UNCHANGED <<retryTimer, timerPc, mlmePc, GTK, sta, nonces>>
  BY DEF ApAssoc, group
<1>4. ap \in Entries
  BY DEF TypeOK
<1>5. CASE ap.in
  BY <1>1, <1>2, <1>3, <1>4, <1>5 DEF EntryAfterAssoc, Entries
<1>6. CASE ~ap.in
  BY <1>1, <1>2, <1>3, <1>6 DEF EntryAfterAssoc, NoEntry
<1> QED
  BY <1>5, <1>6

LEMMA ApDisassocDoes ==
    ASSUME TypeOK, ApDisassoc
    PROVE  /\ Takes(up, up') /\ ap' = NoEntry /\ retryTimer' = FALSE
           /\ UNCHANGED <<timerPc, mlmePc, GTK, sta, down, nonces>>
BY ArrivesDoes DEF ApDisassoc, Delete, group

LEMMA StartDoes ==
    ASSUME TypeOK, WpaEAPOLStartAction
    PROVE  /\ mlmePc = "idle"
           /\ \/ /\ ap.in /\ ap.WpaState < PTKSTART
                 /\ ap'.in /\ ap'.PTK = ap.PTK /\ ap'.PairwiseKey = ap.PairwiseKey
                 /\ ap'.Established = ap.Established /\ ap'.ReTryCounter = 0 /\ ap'.R_Counter = 1
                 /\ ap'.ANonce = nonces.ap + 1 /\ nonces'.ap = nonces.ap + 1 /\ nonces'.sta = nonces.sta
                 /\ MaySend(down, down', Pair1Of(ap'))
                 /\ ap'.WpaState = PTKSTART \/ (ap'.WpaState = INITPSK /\ down' = down)
              \/ UNCHANGED <<ap, down, nonces, retryTimer>>
           /\ UNCHANGED <<timerPc, mlmePc, GTK, sta, up>>
<1> DEFINE x == [ap EXCEPT !.WpaState = INITPSK]
           y == [x EXCEPT !.R_Counter = 0]
           e == [y EXCEPT !.ReTryCounter = MSG1_RETRY]
<1>1. mlmePc = "idle" /\ UNCHANGED <<timerPc, mlmePc, GTK, sta, up>>
  BY DEF WpaEAPOLStartAction, MlmeFree, group
<1>2. ap \in Entries
  BY DEF TypeOK
<1>3. /\ e \in Entries /\ e.in = ap.in /\ e.PTK = ap.PTK /\ e.PairwiseKey = ap.PairwiseKey
      /\ e.Established = ap.Established /\ e.ReTryCounter = 0 /\ e.R_Counter = 0 /\ e.WpaState = INITPSK
  <2>1. /\ x \in Entries /\ x.in = ap.in /\ x.PTK = ap.PTK /\ x.PairwiseKey = ap.PairwiseKey
        /\ x.Established = ap.Established /\ x.WpaState = INITPSK
    BY <1>2 DEF Entries
  <2> HIDE DEF x
  <2>2. /\ y \in Entries /\ y.in = x.in /\ y.PTK = x.PTK /\ y.PairwiseKey = x.PairwiseKey
        /\ y.Established = x.Established /\ y.WpaState = x.WpaState /\ y.R_Counter = 0
    BY <2>1 DEF Entries
  <2> HIDE DEF y
  <2>3. /\ e \in Entries /\ e.in = y.in /\ e.PTK = y.PTK /\ e.PairwiseKey = y.PairwiseKey
        /\ e.Established = y.Established /\ e.WpaState = y.WpaState /\ e.R_Counter = y.R_Counter
        /\ e.ReTryCounter = 0
    BY <2>2 DEF Entries
  <2> HIDE DEF e
  <2> QED
    BY <2>1, <2>2, <2>3
<1>4. (ap.in /\ ap.WpaState < PTKSTART /\ SendMsg1(e)) \/ UNCHANGED <<ap, down, nonces, retryTimer>>
  BY Zenon DEF WpaEAPOLStartAction
<1> HIDE DEF e
<1>5. CASE ap.in /\ ap.WpaState < PTKSTART /\ SendMsg1(e)
  <2>1. /\ ap'.in = e.in /\ ap'.PTK = e.PTK /\ ap'.PairwiseKey = e.PairwiseKey
        /\ ap'.Established = e.Established /\ ap'.ReTryCounter = e.ReTryCounter
        /\ ap'.R_Counter = e.R_Counter + 1
        /\ ap'.ANonce = nonces.ap + 1 /\ nonces'.ap = nonces.ap + 1 /\ nonces'.sta = nonces.sta
        /\ MaySend(down, down', Pair1Of(ap'))
        /\ ap'.WpaState = PTKSTART \/ (ap'.WpaState = e.WpaState /\ down' = down)
    BY <1>3, <1>5, Msg1Does
  <2> QED
    BY <1>1, <1>3, <1>5, <2>1
<1> QED
  BY <1>1, <1>4, <1>5

LEMMA CheckDoes ==
    ASSUME TypeOK, PeerPairMsg2Check
    PROVE  /\ Takes(up, up') /\ Len(up) >= 1 /\ up[1].t = "pair2" /\ mlmePc = "idle"
           /\ \/ UNCHANGED <<ap, mlmePc>>
              \/ /\ ap.in /\ ap.WpaState >= PTKSTART
                 /\ ap'.PTK = <<ap.ANonce, up[1].nonce>>
                 /\ ap'.in /\ ap'.WpaState = ap.WpaState /\ ap'.R_Counter = ap.R_Counter
                 /\ ap'.ReTryCounter = ap.ReTryCounter /\ ap'.ANonce = ap.ANonce
                 /\ ap'.PairwiseKey = ap.PairwiseKey /\ ap'.Established = ap.Established
                 /\ \/ mlmePc' = "answer" /\ up[1].rc = ap.R_Counter /\ up[1].mic = ap'.PTK
                    \/ mlmePc' = "idle"
           /\ UNCHANGED <<retryTimer, timerPc, GTK, sta, down, nonces>>
<1>1. Takes(up, up') /\ Len(up) >= 1 /\ up[1].t = "pair2" /\ mlmePc = "idle" /\ Head(up) = up[1]
  BY ArrivesDoes DEF PeerPairMsg2Check
<1>2. UNCHANGED <<retryTimer, timerPc, GTK, sta, down, nonces>>
  BY DEF PeerPairMsg2Check, group, timers
<1>3. ap \in Entries
  BY DEF TypeOK
<1>4. \/ UNCHANGED <<ap, mlmePc>>
      \/ /\ ap.in /\ ap.WpaState >= PTKSTART
         /\ ap' = [ap EXCEPT !.PTK = <<ap.ANonce, up[1].nonce>>]
         /\ mlmePc' = IF up[1].rc = ap.R_Counter /\ up[1].mic = <<ap.ANonce, up[1].nonce>> THEN "answer" ELSE "idle"
  BY <1>1 DEF PeerPairMsg2Check, ApTakes, ApSanity
<1> QED
  BY <1>1, <1>2, <1>3, <1>4 DEF Entries

LEMMA Pair3Frame ==
    ASSUME NEW e \in Entries, GTK \in Nat
    PROVE  EncryptedIfSecured([Eapol("pair3", e) EXCEPT !.nonce = e.ANonce,
                                   !.gtk = IF WPA2 THEN GTK ELSE 0], e) \in Pair3Of(e)
<1> DEFINE f == Eapol("pair3", e)
           x == IF WPA2 THEN GTK ELSE 0
           g == [f EXCEPT !.nonce = e.ANonce]
           h == [g EXCEPT !.gtk = x]
<1>1. e.R_Counter \in Nat /\ e.PTK \in Keys /\ e.PairwiseKey \in Keys /\ e.ANonce \in Nat /\ x \in Nat
  BY DEF Entries
<1>2. f \in Frames
  BY <1>1, EapolType DEF FrameTypes
<1>3. f.t = "pair3" /\ f.rc = e.R_Counter /\ f.mic = e.PTK
  BY DEF Eapol, Frame
<1>4. WPA2 => x = GTK
  OBVIOUS
<1> HIDE DEF f, x
<1>5. g \in Frames /\ g.t = "pair3" /\ g.rc = e.R_Counter /\ g.mic = e.PTK
  BY <1>1, <1>2, <1>3 DEF Frames
<1> HIDE DEF g
<1>6. h \in Frames /\ h.t = "pair3" /\ h.rc = e.R_Counter /\ h.mic = e.PTK /\ h.gtk = x
  BY <1>1, <1>5 DEF Frames
<1> HIDE DEF h
<1>7. EncryptedIfSecured(h, e) \in Pair3Of(e)
  BY <1>1, <1>4, <1>6 DEF Encrypted, EncryptedIfSecured, Frames, Pair3Of
<1> QED
  BY <1>7 DEF f, g, h, x

LEMMA AnswerDoes ==
    ASSUME TypeOK, PeerPairMsg2Answer
    PROVE  /\ mlmePc = "answer" /\ mlmePc' = "idle"
           /\ \/ /\ ap.in /\ ap'.in /\ ap'.WpaState = NEGOTIATING /\ ap'.ReTryCounter = MSG3_RETRY
                 /\ ap'.R_Counter = ap.R_Counter + 1 /\ ap'.ANonce = ap.ANonce /\ ap'.PTK = ap.PTK
                 /\ ap'.PairwiseKey = ap.PairwiseKey /\ ap'.Established = ap.Established
                 /\ MaySend(down, down', Pair3Of(ap'))
              \/ UNCHANGED <<ap, down, retryTimer>>
           /\ UNCHANGED <<timerPc, GTK, sta, up, nonces>>
<1> DEFINE n == CountUp(ap)
           m == [n EXCEPT !.WpaState = NEGOTIATING, !.ReTryCounter = MSG3_RETRY]
           f == EncryptedIfSecured([Eapol("pair3", n) EXCEPT !.nonce = n.ANonce,
                                       !.gtk = IF WPA2 THEN GTK ELSE 0], n)
<1>1. mlmePc = "answer" /\ mlmePc' = "idle" /\ UNCHANGED <<timerPc, GTK, sta, up, nonces>>
  BY DEF PeerPairMsg2Answer, group
<1>2. (ap.in /\ ap' = m /\ down' \in Transmit(down, f)) \/ UNCHANGED <<ap, down, retryTimer>>
  BY DEF PeerPairMsg2Answer
<1>3. CASE ap.in /\ ap' = m /\ down' \in Transmit(down, f)
  <2>1. ap \in Entries /\ down \in Seq(Frames) /\ GTK \in Nat
    BY Numbers DEF TypeOK
  <2>2. n \in Entries /\ SameEntry(n, ap) /\ n.R_Counter = ap.R_Counter + 1 /\ n.Established = ap.Established
    BY <2>1, CountUpDoes
  <2>3. f \in Pair3Of(n) /\ f \in Frames
    BY <2>1, <2>2, Pair3Frame DEF Pair3Of
  <2>4. MaySend(down, down', Pair3Of(n))
    BY <1>3, <2>1, <2>3, TransmitSends
  <2>5. /\ m.in = n.in /\ m.WpaState = NEGOTIATING /\ m.ReTryCounter = MSG3_RETRY /\ m.R_Counter = n.R_Counter
        /\ m.ANonce = n.ANonce /\ m.PTK = n.PTK /\ m.PairwiseKey = n.PairwiseKey /\ m.Established = n.Established
    <3> HIDE DEF n
    <3> QED
      BY <2>2 DEF Entries
  <2> HIDE DEF n, m
  <2>6. MaySend(down, down', Pair3Of(ap'))
    BY <1>3, <2>4, <2>5 DEF Pair3Of
  <2> QED
    BY <1>1, <1>3, <2>2, <2>5, <2>6 DEF SameEntry
<1> QED
  BY <1>1, <1>2, <1>3

LEMMA Msg4Does ==
    ASSUME TypeOK, PeerPairMsg4Action
    PROVE  /\ Takes(up, up') /\ Len(up) >= 1 /\ up[1].t = "pair4" /\ mlmePc = "idle"
           /\ \/ UNCHANGED <<ap, down, retryTimer>>
              \/ /\ ap.in /\ ap.WpaState >= NEGOTIATING /\ up[1].rc = ap.R_Counter /\ up[1].mic = ap.PTK
                 /\ ap'.in /\ ap'.WpaState = DONE /\ ap'.ANonce = ap.ANonce /\ ap'.PTK = ap.PTK
                 /\ ap'.PairwiseKey = ap.PTK
                 /\ \/ /\ WPA2 /\ ap'.Established /\ down' = down /\ retryTimer' = FALSE
                       /\ ap'.R_Counter = ap.R_Counter /\ ap'.ReTryCounter = ap.ReTryCounter
                    \/ /\ ~WPA2 /\ ap'.Established = ap.Established /\ ap'.ReTryCounter = GROUP_RETRY
                       /\ MaySend(down, down', Group1Of(ap'))
                       /\ \/ ap'.R_Counter = ap.R_Counter + 1
                          \/ "group1" \in Fails /\ ap'.R_Counter = ap.R_Counter /\ down' = down
           /\ UNCHANGED <<timerPc, mlmePc, GTK, sta, nonces>>
<1> DEFINE x == [ap EXCEPT !.PairwiseKey = ap.PTK]
           y == [x EXCEPT !.WpaState = DONE]
           n == [y EXCEPT !.PortSecured = TRUE]
           e == [n EXCEPT !.Established = TRUE]
           g == [n EXCEPT !.ReTryCounter = GROUP_RETRY]
<1>1. Takes(up, up') /\ Len(up) >= 1 /\ up[1].t = "pair4" /\ mlmePc = "idle" /\ Head(up) = up[1]
  BY ArrivesDoes DEF PeerPairMsg4Action
<1>2. UNCHANGED <<timerPc, mlmePc, GTK, sta, nonces>>
  BY DEF PeerPairMsg4Action, group
<1>3. \/ UNCHANGED <<ap, down, retryTimer>>
      \/ /\ ap.in /\ ap.WpaState >= NEGOTIATING /\ up[1].rc = ap.R_Counter /\ up[1].mic = ap.PTK
         /\ \/ WPA2 /\ ap' = e /\ down' = down /\ retryTimer' = FALSE
            \/ ~WPA2 /\ WPAStart2WayGroupHS(g)
  BY <1>1, WpaAssumption DEF PeerPairMsg4Action, ApTakes, ApSanity
<1>4. ap \in Entries /\ ap.PTK \in Keys
  BY Numbers DEF TypeOK
<1>5. /\ n \in Entries /\ n.in = ap.in /\ n.WpaState = DONE /\ n.ANonce = ap.ANonce /\ n.PTK = ap.PTK
      /\ n.PairwiseKey = ap.PTK /\ n.Established = ap.Established
      /\ n.R_Counter = ap.R_Counter /\ n.ReTryCounter = ap.ReTryCounter
  <2>1. /\ x \in Entries /\ x.in = ap.in /\ x.ANonce = ap.ANonce /\ x.PTK = ap.PTK
        /\ x.PairwiseKey = ap.PTK /\ x.Established = ap.Established
        /\ x.R_Counter = ap.R_Counter /\ x.ReTryCounter = ap.ReTryCounter
    BY <1>4 DEF Entries
  <2> HIDE DEF x
  <2>2. /\ y \in Entries /\ y.in = x.in /\ y.WpaState = DONE /\ y.ANonce = x.ANonce /\ y.PTK = x.PTK
        /\ y.PairwiseKey = x.PairwiseKey /\ y.Established = x.Established
        /\ y.R_Counter = x.R_Counter /\ y.ReTryCounter = x.ReTryCounter
    BY <2>1 DEF Entries
  <2> HIDE DEF y
  <2>3. /\ n \in Entries /\ n.in = y.in /\ n.WpaState = y.WpaState /\ n.ANonce = y.ANonce /\ n.PTK = y.PTK
        /\ n.PairwiseKey = y.PairwiseKey /\ n.Established = y.Established
        /\ n.R_Counter = y.R_Counter /\ n.ReTryCounter = y.ReTryCounter
    BY <2>2 DEF Entries
  <2> HIDE DEF n
  <2> QED
    BY <2>1, <2>2, <2>3
<1> HIDE DEF x, y, n
<1>6. /\ e.in = n.in /\ e.WpaState = n.WpaState /\ e.ANonce = n.ANonce /\ e.PTK = n.PTK
      /\ e.PairwiseKey = n.PairwiseKey /\ e.Established
      /\ e.R_Counter = n.R_Counter /\ e.ReTryCounter = n.ReTryCounter
  BY <1>5 DEF Entries
<1>7. /\ g \in Entries /\ SameEntry(g, n) /\ g.Established = n.Established
      /\ g.R_Counter = n.R_Counter /\ g.ReTryCounter = GROUP_RETRY
  BY <1>5 DEF Entries, SameEntry
<1> HIDE DEF e, g
<1>8. ASSUME WPAStart2WayGroupHS(g)
      PROVE  /\ SameEntry(ap', g) /\ ap'.Established = g.Established /\ ap'.ReTryCounter = g.ReTryCounter
             /\ MaySend(down, down', Group1Of(ap'))
             /\ \/ ap'.R_Counter = g.R_Counter + 1
                \/ "group1" \in Fails /\ ap'.R_Counter = g.R_Counter /\ down' = down
  BY <1>7, <1>8, GroupDoes
<1>9. CASE UNCHANGED <<ap, down, retryTimer>>
  BY <1>1, <1>2, <1>9
<1>10. CASE /\ ap.in /\ ap.WpaState >= NEGOTIATING /\ up[1].rc = ap.R_Counter /\ up[1].mic = ap.PTK
            /\ WPA2 /\ ap' = e /\ down' = down /\ retryTimer' = FALSE
  BY <1>1, <1>2, <1>5, <1>6, <1>10
<1>11. CASE /\ ap.in /\ ap.WpaState >= NEGOTIATING /\ up[1].rc = ap.R_Counter /\ up[1].mic = ap.PTK
            /\ ~WPA2 /\ WPAStart2WayGroupHS(g)
  BY <1>1, <1>2, <1>5, <1>7, <1>8, <1>11 DEF SameEntry
<1> QED
  BY <1>3, <1>9, <1>10, <1>11

LEMMA Group2Does ==
    ASSUME TypeOK, PeerGroupMsg2Action
    PROVE  /\ Takes(up, up') /\ Len(up) >= 1 /\ up[1].t = "group2"
           /\ \/ UNCHANGED <<ap, retryTimer>>
              \/ /\ ap.in /\ ap.WpaState = DONE /\ up[1].rc = ap.R_Counter
                 /\ SameEntry(ap', ap) /\ ap'.Established /\ retryTimer' = FALSE
                 /\ ap'.R_Counter = ap.R_Counter /\ ap'.ReTryCounter = ap.ReTryCounter
           /\ UNCHANGED <<timerPc, mlmePc, GTK, sta, down, nonces>>
<1>1. Takes(up, up') /\ Len(up) >= 1 /\ up[1].t = "group2" /\ Head(up) = up[1]
  BY ArrivesDoes DEF PeerGroupMsg2Action
<1>2. UNCHANGED <<timerPc, mlmePc, GTK, sta, down, nonces>>
  BY DEF PeerGroupMsg2Action, group
<1>3. ap \in Entries
  BY DEF TypeOK
<1>4. \/ UNCHANGED <<ap, retryTimer>>
      \/ /\ ap.in /\ ap.WpaState = DONE /\ up[1].rc = ap.R_Counter
         /\ ap' = [ap EXCEPT !.Established = TRUE] /\ retryTimer' = FALSE
  BY <1>1 DEF PeerGroupMsg2Action, ApTakes, ApSanity
<1> QED
  BY <1>1, <1>2, <1>3, <1>4 DEF Entries, SameEntry

\* What those of its timer thread do.
LEMMA RetryExecDoes ==
    ASSUME TypeOK, WPARetryExec
    PROVE  /\ timerPc = "idle" /\ timerPc' = RetryDoes(ap.ReTryCounter + 1) /\ retryTimer /\ ~retryTimer'
           /\ SameEntry(ap', ap) /\ ap'.Established = ap.Established /\ ap'.R_Counter = ap.R_Counter
           /\ ap'.ReTryCounter = ap.ReTryCounter + 1
           /\ UNCHANGED <<mlmePc, GTK, sta, down, up, nonces>>
<1>1. ap \in Entries /\ ap' = [ap EXCEPT !.ReTryCounter = @ + 1]
  BY DEF TypeOK, WPARetryExec
<1>2. /\ timerPc = "idle" /\ timerPc' = RetryDoes(ap.ReTryCounter + 1) /\ retryTimer /\ ~retryTimer'
      /\ UNCHANGED <<mlmePc, GTK, sta, down, up, nonces>>
  BY DEF WPARetryExec, TimerFree, group
<1> QED
  BY <1>1, <1>2 DEF Entries, SameEntry

LEMMA RetryDeauthDoes ==
    ASSUME TypeOK, RetryDeauth
    PROVE  /\ timerPc = "deauth" /\ timerPc' = "idle"
           /\ \/ ap' = NoEntry /\ ~retryTimer' /\ MaySend(down, down', OfType({"deauth"}))
              \/ UNCHANGED <<ap, retryTimer, down>>
           /\ UNCHANGED <<mlmePc, GTK, sta, up, nonces>>
<1>1. \/ ap' = NoEntry /\ ~retryTimer' /\ down' \in Transmit(down, Frame("deauth"))
      \/ UNCHANGED <<ap, retryTimer, down>>
  BY DEF RetryDeauth, Delete, timers
<1>2. /\ timerPc = "deauth" /\ timerPc' = "idle" /\ UNCHANGED <<mlmePc, GTK, sta, up, nonces>>
  BY DEF RetryDeauth, group
<1>3. down \in Seq(Frames) /\ "deauth" \in FrameTypes
  BY DEF TypeOK, FrameTypes
<1> QED
  BY <1>1, <1>2, <1>3, PlainSends

LEMMA RetryGroupDoes ==
    ASSUME TypeOK, RetryGroup
    PROVE  /\ timerPc = "group" /\ timerPc' = "idle"
           /\ \/ /\ ap.in /\ ~ap.Established
                 /\ SameEntry(ap', ap) /\ ap'.Established = ap.Established /\ ap'.ReTryCounter = ap.ReTryCounter
                 /\ MaySend(down, down', Group1Of(ap'))
                 /\ \/ ap'.R_Counter = ap.R_Counter + 1
                    \/ "group1" \in Fails /\ ap'.R_Counter = ap.R_Counter /\ down' = down
              \/ UNCHANGED <<ap, down, retryTimer>>
           /\ UNCHANGED <<mlmePc, GTK, sta, up, nonces>>
<1>1. ap \in Entries
  BY DEF TypeOK
<1>2. (ap.in /\ ~ap.Established /\ WPAStart2WayGroupHS(ap)) \/ UNCHANGED <<ap, down, retryTimer>>
  BY DEF RetryGroup
<1>3. /\ timerPc = "group" /\ timerPc' = "idle" /\ UNCHANGED <<mlmePc, GTK, sta, up, nonces>>
  BY DEF RetryGroup, group
<1> QED
  BY <1>1, <1>2, <1>3, GroupDoes

LEMMA RetryTestDoes ==
    ASSUME RetryTest
    PROVE  /\ timerPc = "start"
           /\ timerPc' = "idle" \/ (timerPc' = "send" /\ ap.in /\ ap.WpaState \in INITPMK .. PTKSTART)
           /\ UNCHANGED <<ap, retryTimer, mlmePc, GTK, sta, down, up, nonces>>
BY DEF RetryTest, MayStart4Way, timers, group

LEMMA RetrySendDoes ==
    ASSUME TypeOK, RetrySend
    PROVE  /\ timerPc = "send" /\ timerPc' = "idle"
           /\ \/ /\ ap.in
                 /\ ap'.in = ap.in /\ ap'.PTK = ap.PTK /\ ap'.PairwiseKey = ap.PairwiseKey
                 /\ ap'.Established = ap.Established /\ ap'.ReTryCounter = ap.ReTryCounter
                 /\ ap'.R_Counter = ap.R_Counter + 1
                 /\ ap'.ANonce = nonces.ap + 1 /\ nonces'.ap = nonces.ap + 1 /\ nonces'.sta = nonces.sta
                 /\ MaySend(down, down', Pair1Of(ap'))
                 /\ \/ ap'.WpaState = PTKSTART
                    \/ ap'.WpaState = ap.WpaState /\ down' = down
              \/ UNCHANGED <<ap, down, nonces, retryTimer>>
           /\ UNCHANGED <<mlmePc, GTK, sta, up>>
<1>1. ap \in Entries
  BY DEF TypeOK
<1>2. (ap.in /\ SendMsg1(ap)) \/ UNCHANGED <<ap, down, nonces, retryTimer>>
  BY DEF RetrySend
<1>3. /\ timerPc = "send" /\ timerPc' = "idle" /\ UNCHANGED <<mlmePc, GTK, sta, up>>
  BY DEF RetrySend, group
<1> QED
  BY <1>1, <1>2, <1>3, Msg1Does

LEMMA NewGTKDoes ==
    ASSUME NewGTK
    PROVE  /\ timerPc = "idle" /\ timerPc' = "rekey" /\ GTK' = GTK + 1
           /\ UNCHANGED <<ap, retryTimer, mlmePc, sta, down, up, nonces>>
BY DEF NewGTK, TimerFree, timers

LEMMA RekeyDoes ==
    ASSUME TypeOK, RekeyStations
    PROVE  /\ timerPc = "rekey" /\ timerPc' = "idle"
           /\ \/ /\ ap.in /\ ap.WpaState = DONE
                 /\ SameEntry(ap', ap) /\ ~ap'.Established /\ ap'.ReTryCounter = ap.ReTryCounter
                 /\ MaySend(down, down', Group1Of(ap'))
                 /\ \/ ap'.R_Counter = ap.R_Counter + 1
                    \/ "group1" \in Fails /\ ap'.R_Counter = ap.R_Counter /\ down' = down
              \/ ~(ap.in /\ ap.WpaState = DONE) /\ UNCHANGED <<ap, down>>
           /\ UNCHANGED <<retryTimer, mlmePc, GTK, sta, up, nonces>>
<1> DEFINE e == [ap EXCEPT !.Established = FALSE]
<1>1. ap \in Entries
  BY DEF TypeOK
<1>2. e \in Entries /\ SameEntry(e, ap) /\ ~e.Established /\ e.ReTryCounter = ap.ReTryCounter /\ e.R_Counter = ap.R_Counter
  BY <1>1 DEF Entries, SameEntry
<1>3. \/ ap.in /\ ap.WpaState = DONE /\ WPAStart2WayGroupHS(e)
      \/ ~(ap.in /\ ap.WpaState = DONE) /\ UNCHANGED <<ap, down>>
  BY Zenon DEF RekeyStations
<1>4. /\ timerPc = "rekey" /\ timerPc' = "idle" /\ UNCHANGED <<retryTimer, mlmePc, GTK, sta, up, nonces>>
  BY DEF RekeyStations, timers
<1> HIDE DEF e
<1>5. CASE ap.in /\ ap.WpaState = DONE /\ WPAStart2WayGroupHS(e)
  <2>1. /\ SameEntry(ap', e) /\ ap'.Established = e.Established /\ ap'.ReTryCounter = e.ReTryCounter
        /\ MaySend(down, down', Group1Of(ap'))
        /\ \/ ap'.R_Counter = e.R_Counter + 1
           \/ "group1" \in Fails /\ ap'.R_Counter = e.R_Counter /\ down' = down
    BY <1>2, <1>5, GroupDoes
  <2> QED
    BY <1>2, <1>4, <1>5, <2>1 DEF SameEntry
<1> QED
  BY <1>3, <1>4, <1>5

\* What the station does leaves the access point alone.
ApKept == UNCHANGED <<ap, retryTimer, timerPc, mlmePc, GTK>>

LEMMA JoinDoes ==
    ASSUME TypeOK, Join
    PROVE  /\ ApKept /\ (Prompt => timerPc = "idle")
           /\ sta.link = "down" /\ sta'.link = "joining" /\ sta'.PTK = sta.PTK /\ sta'.R_Counter = sta.R_Counter
           /\ sta'.PortSecured = sta.PortSecured /\ sta'.PairwiseKey = NoKey
           /\ MaySend(up, up', OfType({"assocreq"}))
           /\ UNCHANGED <<down, nonces>>
<1> DEFINE x == [sta EXCEPT !.link = "joining"]
           y == [x EXCEPT !.PairwiseKey = NoKey]
           z == [y EXCEPT !.GTK = 0]
<1>1. sta \in Stations
  BY DEF TypeOK
<1>2. sta' = z /\ sta.link = "down"
  BY Zenon DEF Join
<1>3. x \in Stations /\ x.link = "joining" /\ x.PTK = sta.PTK /\ x.R_Counter = sta.R_Counter /\ x.PortSecured = sta.PortSecured
  BY <1>1 DEF Stations
<1> HIDE DEF x
<1>4. y \in Stations /\ y.link = x.link /\ y.PTK = x.PTK /\ y.R_Counter = x.R_Counter /\ y.PortSecured = x.PortSecured /\ y.PairwiseKey = NoKey
  BY <1>3, NoKeyType DEF Stations
<1> HIDE DEF y
<1>5. z.link = y.link /\ z.PTK = y.PTK /\ z.R_Counter = y.R_Counter /\ z.PortSecured = y.PortSecured /\ z.PairwiseKey = y.PairwiseKey
  BY <1>4 DEF Stations
<1> HIDE DEF z
<1>6. MaySend(up, up', OfType({"assocreq"}))
  BY PlainSends DEF Join, TypeOK, FrameTypes
<1>7. ApKept /\ (Prompt => timerPc = "idle") /\ UNCHANGED <<down, nonces>>
  BY DEF Join, Air, TimerFree, ApKept, apVars, timers, group
<1> QED
  BY <1>2, <1>3, <1>4, <1>5, <1>6, <1>7

LEMMA JoinTimeoutDoes ==
    ASSUME TypeOK, JoinTimeout
    PROVE  /\ ApKept /\ sta.link = "joining" /\ sta'.link = "down" /\ sta'.PTK = sta.PTK
           /\ sta'.PortSecured = sta.PortSecured
           /\ UNCHANGED <<down, up, nonces>>
<1>1. sta \in Stations /\ sta' = [sta EXCEPT !.link = "down"] /\ sta.link = "joining"
  BY DEF TypeOK, JoinTimeout
<1>2. ApKept /\ UNCHANGED <<down, up, nonces>>
  BY DEF JoinTimeout, ApKept, apVars, timers, group
<1> QED
  BY <1>1, <1>2 DEF Stations

LEMMA LinkUpDoes ==
    ASSUME TypeOK, LinkUp
    PROVE  /\ ApKept /\ (Prompt => timerPc = "idle")
           /\ Takes(down, down') /\ Len(down) >= 1 /\ down[1].t = "assocrsp"
           /\ \/ /\ sta.link = "joining" /\ sta'.link = "up" /\ sta'.PTK = sta.PTK /\ sta'.R_Counter = 0
                 /\ ~sta'.PortSecured
              \/ sta' = sta
           /\ UNCHANGED <<up, nonces>>
<1> DEFINE x == [sta EXCEPT !.link = "up"]
           y == [x EXCEPT !.WpaState = INITPSK]
           z == [y EXCEPT !.R_Counter = 0]
           w == [z EXCEPT !.PortSecured = FALSE]
<1>1. Takes(down, down') /\ Len(down) >= 1 /\ down[1].t = "assocrsp" /\ (Prompt => timerPc = "idle")
  BY ReceivesDoes DEF LinkUp
<1>2. (sta.link = "joining" /\ sta' = w) \/ sta' = sta
  BY Zenon DEF LinkUp
<1>3. sta \in Stations
  BY DEF TypeOK
<1>4. x \in Stations /\ x.link = "up" /\ x.PTK = sta.PTK
  BY <1>3 DEF Stations
<1> HIDE DEF x
<1>5. y \in Stations /\ y.link = x.link /\ y.PTK = x.PTK
  BY <1>4 DEF Stations
<1> HIDE DEF y
<1>6. z \in Stations /\ z.link = y.link /\ z.PTK = y.PTK /\ z.R_Counter = 0
  BY <1>5 DEF Stations
<1> HIDE DEF z
<1>7. w.link = z.link /\ w.PTK = z.PTK /\ w.R_Counter = z.R_Counter /\ ~w.PortSecured
  BY <1>6 DEF Stations
<1> HIDE DEF w
<1>8. ApKept /\ UNCHANGED <<up, nonces>>
  BY DEF LinkUp, ApKept, apVars, timers, group
<1> QED
  BY <1>1, <1>2, <1>4, <1>5, <1>6, <1>7, <1>8

LEMMA StaDownDoes == StaDown.link = "down" /\ StaDown.PTK = NoKey /\ ~StaDown.PortSecured
BY DEF StaDown

LEMMA LeaveDoes ==
    ASSUME TypeOK, Leave
    PROVE  /\ ApKept /\ sta'.link = "down" /\ sta'.PTK = NoKey /\ ~sta'.PortSecured
           /\ MaySend(up, up', OfType({"disassoc"}))
           /\ UNCHANGED <<down, nonces>>
<1> DEFINE x == [StaDown EXCEPT !.PairwiseKey = sta.PairwiseKey]
           y == [x EXCEPT !.GTK = sta.GTK]
<1>1. sta' = y
  BY Zenon DEF Leave
<1>2. sta.PairwiseKey \in Keys /\ sta.GTK \in Nat
  BY Numbers
<1>3. x \in Stations /\ x.link = "down" /\ x.PTK = NoKey /\ ~x.PortSecured
  BY <1>2, StaDownType, StaDownDoes DEF Stations
<1> HIDE DEF x
<1>4. y.link = x.link /\ y.PTK = x.PTK /\ y.PortSecured = x.PortSecured
  BY <1>3 DEF Stations
<1> HIDE DEF y
<1>5. MaySend(up, up', OfType({"disassoc"}))
  BY PlainSends DEF Leave, TypeOK, FrameTypes
<1>6. ApKept /\ UNCHANGED <<down, nonces>>
  BY DEF Leave, ApKept, apVars, timers, group
<1> QED
  BY <1>1, <1>3, <1>4, <1>5, <1>6

LEMMA PeerDeauthDoes ==
    ASSUME TypeOK, PeerDeauth
    PROVE  /\ ApKept /\ Takes(down, down')
           /\ sta' = sta \/ (sta'.link = "down" /\ sta'.PTK = NoKey /\ ~sta'.PortSecured)
           /\ UNCHANGED <<up, nonces>>
<1>1. Takes(down, down')
  BY ReceivesDoes DEF PeerDeauth
<1>2. ApKept /\ UNCHANGED <<up, nonces>> /\ (sta' = sta \/ sta' = StaDown)
  BY DEF PeerDeauth, ApKept, apVars, timers, group
<1> QED
  BY <1>1, <1>2, StaDownDoes

\* A message is taken by a station that is up, in its order, and with its key but for
\* message 1.
StaAccepts(f) ==
    /\ sta.link = "up" /\ (f.rc > sta.R_Counter \/ f.rc = 0)
    /\ f.t # "pair1" => f.mic = sta.PTK
    /\ f.enc \in {NoKey, sta.PairwiseKey}

LEMMA AcceptsDoes == ASSUME NEW f, StaTakes(f), StaSanity(f) PROVE StaAccepts(f)
BY DEF StaTakes, StaSanity, StaAccepts, CanRead

LEMMA StaMsg1Does ==
    ASSUME TypeOK, PeerPairMsg1Action
    PROVE  /\ ApKept /\ (Prompt => timerPc = "idle")
           /\ Takes(down, down') /\ Len(down) >= 1 /\ down[1].t = "pair1"
           /\ \/ UNCHANGED <<sta, up, nonces>>
              \/ /\ StaAccepts(down[1]) /\ sta'.link = "up" /\ sta'.R_Counter = down[1].rc
                 /\ sta'.PTK = <<down[1].nonce, nonces.sta + 1>>
                 /\ sta'.PairwiseKey = sta.PairwiseKey /\ sta'.GTK = sta.GTK
                 /\ sta'.PortSecured = sta.PortSecured
                 /\ nonces'.sta = nonces.sta + 1 /\ nonces'.ap = nonces.ap
                 /\ MaySend(up, up', Pair2Of(sta'))
<1> DEFINE f == Head(down)
           k == nonces.sta + 1
           s1 == [sta EXCEPT !.R_Counter = f.rc]
           s2 == [s1 EXCEPT !.ANonce = f.nonce]
           s3 == [s2 EXCEPT !.PTK = <<f.nonce, k>>]
           s4 == [s3 EXCEPT !.WpaState = NEGOTIATING]
           h == Eapol("pair2", s4)
           g == [h EXCEPT !.nonce = k]
<1>1. /\ Takes(down, down') /\ Len(down) >= 1 /\ down[1].t = "pair1" /\ Head(down) = down[1]
      /\ Prompt => timerPc = "idle"
  BY ReceivesDoes DEF PeerPairMsg1Action
<1>2. ApKept
  BY DEF PeerPairMsg1Action, ApKept, apVars, timers, group
<1>3. \/ /\ StaTakes(f) /\ StaSanity(f)
         /\ sta' = s4 /\ nonces' = [nonces EXCEPT !.sta = k] /\ (up' \in Transmit(up, g) \/ UNCHANGED up)
      \/ UNCHANGED <<sta, up, nonces>>
  <2>1. CASE StaTakes(f) /\ StaSanity(f)
    <3>1. sta' = s4
      BY <2>1, Zenon DEF PeerPairMsg1Action
    <3>2. nonces' = [nonces EXCEPT !.sta = k]
      BY <2>1, Zenon DEF PeerPairMsg1Action
    <3>3. up' \in Transmit(up, g) \/ UNCHANGED up
      BY <2>1, Zenon DEF PeerPairMsg1Action
    <3> QED
      BY <2>1, <3>1, <3>2, <3>3, Zenon
  <2>2. CASE ~(StaTakes(f) /\ StaSanity(f))
    BY <2>2, Zenon DEF PeerPairMsg1Action
  <2> QED
    BY <2>1, <2>2, Zenon
<1>4. CASE UNCHANGED <<sta, up, nonces>>
  BY <1>1, <1>2, <1>4
<1>5. CASE /\ StaTakes(f) /\ StaSanity(f)
           /\ sta' = s4 /\ nonces' = [nonces EXCEPT !.sta = k] /\ (up' \in Transmit(up, g) \/ UNCHANGED up)
  <2>1. f.rc \in Nat /\ f.nonce \in Nat /\ k \in Nat /\ f \in Frames /\ f = down[1]
    <3>1. f \in Frames
      BY ReceivesType DEF PeerPairMsg1Action
    <3>2. nonces.sta \in Nat
      BY Numbers
    <3> QED
      BY <1>1, <3>1, <3>2, FrameNumbers
  <2>2. StaAccepts(f)
    BY <1>5, AcceptsDoes
  <2>3. nonces'.sta = nonces.sta + 1 /\ nonces'.ap = nonces.ap
    BY <1>5 DEF TypeOK
  <2>4. up \in Seq(Frames) /\ sta \in Stations
    BY DEF TypeOK
  <2> HIDE DEF f
  <2>5. k = nonces.sta + 1
    OBVIOUS
  <2> HIDE DEF k
  <2>6. <<f.nonce, k>> \in Keys /\ <<f.nonce, k>>[2] = k
    BY <2>1 DEF Keys
  <2>7. /\ s1 \in Stations /\ s1.link = sta.link /\ s1.R_Counter = f.rc
        /\ s1.PairwiseKey = sta.PairwiseKey /\ s1.GTK = sta.GTK /\ s1.PortSecured = sta.PortSecured
    BY <2>1, <2>4 DEF Stations
  <2> HIDE DEF s1
  <2>8. /\ s2 \in Stations /\ s2.link = s1.link /\ s2.R_Counter = s1.R_Counter
        /\ s2.PairwiseKey = s1.PairwiseKey /\ s2.GTK = s1.GTK /\ s2.PortSecured = s1.PortSecured
    BY <2>1, <2>7 DEF Stations
  <2> HIDE DEF s2
  <2>9. /\ s3 \in Stations /\ s3.link = s2.link /\ s3.R_Counter = s2.R_Counter /\ s3.PTK = <<f.nonce, k>>
        /\ s3.PairwiseKey = s2.PairwiseKey /\ s3.GTK = s2.GTK /\ s3.PortSecured = s2.PortSecured
    BY <2>6, <2>8 DEF Stations
  <2> HIDE DEF s3
  <2>10. /\ s4 \in Stations /\ s4.link = s3.link /\ s4.R_Counter = s3.R_Counter /\ s4.PTK = s3.PTK
         /\ s4.PairwiseKey = s3.PairwiseKey /\ s4.GTK = s3.GTK /\ s4.PortSecured = s3.PortSecured
    BY <2>9 DEF Stations
  <2> HIDE DEF s4
  <2>11. s4.R_Counter \in Nat /\ s4.PTK \in Keys
    BY <2>10 DEF Stations
  <2>12. h \in Frames /\ h.t = "pair2" /\ h.rc = s4.R_Counter /\ h.mic = s4.PTK
    <3>1. h \in Frames
      BY <2>11, EapolType DEF FrameTypes
    <3> QED
      BY <3>1 DEF Eapol, Frame
  <2> HIDE DEF h
  <2>13. g \in Frames /\ g.t = "pair2" /\ g.rc = s4.R_Counter /\ g.mic = s4.PTK /\ g.nonce = k
    BY <2>1, <2>12 DEF Frames
  <2> HIDE DEF g
  <2>14. g \in Pair2Of(s4)
    BY <2>6, <2>9, <2>10, <2>13 DEF Pair2Of
  <2>15. MaySend(up, up', Pair2Of(sta'))
    <3>1. CASE up' \in Transmit(up, g)
      BY <1>5, <2>4, <2>13, <2>14, <3>1, TransmitSends
    <3>2. CASE UNCHANGED up
      BY <3>2 DEF MaySend
    <3> QED
      BY <1>5, <3>1, <3>2
  <2>16. sta' = s4 /\ sta.link = "up"
    BY <1>5, <2>2, Zenon DEF StaAccepts
  <2>17. /\ sta'.link = "up" /\ sta'.R_Counter = f.rc /\ sta'.PTK = <<f.nonce, k>>
         /\ sta'.PairwiseKey = sta.PairwiseKey /\ sta'.GTK = sta.GTK /\ sta'.PortSecured = sta.PortSecured
    BY <2>7, <2>8, <2>9, <2>10, <2>16, Zenon
  <2>18. StaAccepts(down[1]) /\ sta'.R_Counter = down[1].rc /\ sta'.PTK = <<down[1].nonce, nonces.sta + 1>>
    BY <2>1, <2>2, <2>5, <2>17, Zenon
  <2> QED
    BY <1>1, <1>2, <2>3, <2>15, <2>17, <2>18
<1> QED
  BY <1>3, <1>4, <1>5, Zenon

\* What a frame leaves of the station's entry.
LEMMA WithGroupKeyDoes ==
    ASSUME TypeOK, NEW f \in Frames, NEW n, n = [WithGroupKey(f) EXCEPT !.R_Counter = f.rc]
    PROVE  /\ n \in Stations /\ n.link = sta.link /\ n.R_Counter = f.rc /\ n.PTK = sta.PTK
           /\ n.PairwiseKey = sta.PairwiseKey /\ n.PortSecured = sta.PortSecured
           /\ n.GTK = IF f.gtk > 0 THEN f.gtk ELSE sta.GTK
<1> DEFINE v == IF f.gtk > 0 THEN f.gtk ELSE sta.GTK
           s1 == [sta EXCEPT !.GTK = v]
<1>1. WithGroupKey(f) = s1
  BY Zenon DEF WithGroupKey
<1>2. v \in Nat /\ sta \in Stations /\ f.rc \in Nat
  BY DEF TypeOK, Stations, Frames
<1>3. v = IF f.gtk > 0 THEN f.gtk ELSE sta.GTK
  OBVIOUS
<1> HIDE DEF v
<1>4. /\ s1 \in Stations /\ s1.link = sta.link /\ s1.PTK = sta.PTK /\ s1.GTK = v
      /\ s1.PairwiseKey = sta.PairwiseKey /\ s1.PortSecured = sta.PortSecured
  BY <1>2 DEF Stations
<1> HIDE DEF s1
<1>5. n = [s1 EXCEPT !.R_Counter = f.rc]
  BY <1>1
<1>6. /\ n \in Stations /\ n.link = s1.link /\ n.PTK = s1.PTK /\ n.GTK = s1.GTK /\ n.R_Counter = f.rc
      /\ n.PairwiseKey = s1.PairwiseKey /\ n.PortSecured = s1.PortSecured
  BY <1>2, <1>4, <1>5 DEF Stations
<1> QED
  BY <1>3, <1>4, <1>6

\* Message 3 and group message 1 leave the station its keys and take the group key.
StaTaken(f) ==
    /\ StaAccepts(f) /\ sta'.link = "up" /\ sta'.R_Counter = f.rc /\ sta'.PTK = sta.PTK
    /\ sta'.GTK = IF f.gtk > 0 THEN f.gtk ELSE sta.GTK

LEMMA StaMsg3Does ==
    ASSUME TypeOK, PeerPairMsg3Action
    PROVE  /\ ApKept /\ (Prompt => timerPc = "idle")
           /\ Takes(down, down') /\ Len(down) >= 1 /\ down[1].t = "pair3"
           /\ \/ UNCHANGED <<sta, up>>
              \/ /\ StaTaken(down[1])
                 /\ \/ /\ sta'.PairwiseKey = sta.PTK /\ sta'.PortSecured = (sta.PortSecured \/ WPA2)
                       /\ MaySend(up, up', Pair4Of(sta'))
                    \/ sta'.PairwiseKey = sta.PairwiseKey /\ sta'.PortSecured = sta.PortSecured /\ up' = up
           /\ UNCHANGED nonces
<1> DEFINE f == Head(down)
           n == [WithGroupKey(f) EXCEPT !.R_Counter = f.rc]
           s1 == [n EXCEPT !.WpaState = DONE]
           s2 == [s1 EXCEPT !.PairwiseKey = n.PTK]
           p == s2.PortSecured \/ WPA2
           s3 == [s2 EXCEPT !.PortSecured = p]
           g == Eapol("pair4", s3)
<1>1. /\ Takes(down, down') /\ Len(down) >= 1 /\ down[1].t = "pair3" /\ f = down[1]
      /\ Prompt => timerPc = "idle"
  BY ReceivesDoes DEF PeerPairMsg3Action
<1>2. ApKept /\ UNCHANGED nonces
  BY DEF PeerPairMsg3Action, ApKept, apVars, timers, group
<1>3. \/ /\ StaTakes(f) /\ StaSanity(f)
         /\ (sta' = s3 /\ up' \in Transmit(up, g)) \/ (sta' = n /\ UNCHANGED up)
      \/ UNCHANGED <<sta, up>>
  BY Zenon DEF PeerPairMsg3Action
<1>4. CASE UNCHANGED <<sta, up>>
  BY <1>1, <1>2, <1>4
<1>5. CASE /\ StaTakes(f) /\ StaSanity(f)
           /\ (sta' = s3 /\ up' \in Transmit(up, g)) \/ (sta' = n /\ UNCHANGED up)
  <2>1. f \in Frames
    BY ReceivesType DEF PeerPairMsg3Action
  <2>2. StaAccepts(f) /\ sta.link = "up"
    BY <1>5, AcceptsDoes DEF StaAccepts
  <2>3. up \in Seq(Frames) /\ WPA2 \in BOOLEAN /\ sta.PortSecured \in BOOLEAN
    BY Numbers, WpaAssumption DEF TypeOK
  <2>4. /\ n \in Stations /\ n.link = sta.link /\ n.R_Counter = f.rc /\ n.PTK = sta.PTK
        /\ n.PairwiseKey = sta.PairwiseKey /\ n.PortSecured = sta.PortSecured
        /\ n.GTK = IF f.gtk > 0 THEN f.gtk ELSE sta.GTK
    BY <2>1, WithGroupKeyDoes
  <2> HIDE DEF f, n
  <2>5. CASE sta' = n /\ UNCHANGED up
    <3>1. StaTaken(f) /\ sta'.PairwiseKey = sta.PairwiseKey /\ sta'.PortSecured = sta.PortSecured /\ up' = up
      BY <2>2, <2>4, <2>5 DEF StaTaken
    <3> QED
      BY <1>1, <1>2, <3>1
  <2>6. CASE sta' = s3 /\ up' \in Transmit(up, g)
    <3>1. /\ s1 \in Stations /\ s1.link = n.link /\ s1.R_Counter = n.R_Counter /\ s1.PTK = n.PTK
          /\ s1.PortSecured = n.PortSecured /\ s1.GTK = n.GTK
      BY <2>4 DEF Stations
    <3>2. n.PTK \in Keys
      BY <2>4 DEF Stations
    <3> HIDE DEF s1
    <3>3. /\ s2 \in Stations /\ s2.link = s1.link /\ s2.R_Counter = s1.R_Counter /\ s2.PTK = s1.PTK
          /\ s2.PortSecured = s1.PortSecured /\ s2.GTK = s1.GTK /\ s2.PairwiseKey = n.PTK
      BY <3>1, <3>2 DEF Stations
    <3> HIDE DEF s2
    <3>4. p \in BOOLEAN /\ p = (sta.PortSecured \/ WPA2)
      BY <2>4, <3>1, <3>3, Zenon
    <3> HIDE DEF p
    <3>5. /\ s3 \in Stations /\ s3.link = s2.link /\ s3.R_Counter = s2.R_Counter /\ s3.PTK = s2.PTK
          /\ s3.PortSecured = p /\ s3.GTK = s2.GTK /\ s3.PairwiseKey = s2.PairwiseKey
      BY <3>3, <3>4 DEF Stations
    <3> HIDE DEF s3
    <3>6. s3.R_Counter \in Nat /\ s3.PTK \in Keys
      BY <3>5 DEF Stations
    <3>7. g \in Frames /\ g \in Pair4Of(s3)
      <4>1. g \in Frames
        BY <3>6, EapolType DEF FrameTypes
      <4> QED
        BY <4>1 DEF Eapol, Frame, Pair4Of
    <3> HIDE DEF g
    <3>8. MaySend(up, up', Pair4Of(sta'))
      BY <2>3, <2>6, <3>7, TransmitSends
    <3>9. /\ sta'.link = sta.link /\ sta'.R_Counter = f.rc /\ sta'.PTK = sta.PTK
          /\ sta'.PortSecured = p /\ sta'.PairwiseKey = sta.PTK
          /\ sta'.GTK = n.GTK
      BY <2>4, <2>6, <3>1, <3>3, <3>5, Zenon
    <3>10. StaTaken(f)
      BY <2>2, <2>4, <3>9 DEF StaTaken
    <3>11. sta'.PairwiseKey = sta.PTK /\ sta'.PortSecured = (sta.PortSecured \/ WPA2)
      BY <3>4, <3>9, Zenon
    <3> QED
      BY <1>1, <1>2, <3>8, <3>10, <3>11, Zenon
  <2> QED
    BY <1>5, <2>5, <2>6
<1> QED
  BY <1>3, <1>4, <1>5, Zenon

LEMMA StaGroup1Does ==
    ASSUME TypeOK, PeerGroupMsg1Action
    PROVE  /\ ApKept /\ (Prompt => timerPc = "idle")
           /\ Takes(down, down') /\ Len(down) >= 1 /\ down[1].t = "group1"
           /\ \/ UNCHANGED <<sta, up>>
              \/ /\ StaTaken(down[1]) /\ sta'.PairwiseKey = sta.PairwiseKey
                 /\ \/ sta'.PortSecured /\ MaySend(up, up', Group2Of(sta'))
                    \/ sta'.PortSecured = sta.PortSecured /\ up' = up
           /\ UNCHANGED nonces
<1> DEFINE f == Head(down)
           n == [WithGroupKey(f) EXCEPT !.R_Counter = f.rc]
           s1 == [n EXCEPT !.PortSecured = TRUE]
           g == Encrypted(Eapol("group2", s1), s1)
<1>1. /\ Takes(down, down') /\ Len(down) >= 1 /\ down[1].t = "group1" /\ f = down[1]
      /\ Prompt => timerPc = "idle"
  BY ReceivesDoes DEF PeerGroupMsg1Action
<1>2. ApKept /\ UNCHANGED nonces
  BY DEF PeerGroupMsg1Action, ApKept, apVars, timers, group
<1>3. \/ /\ StaTakes(f) /\ StaSanity(f)
         /\ (sta' = s1 /\ up' \in Transmit(up, g)) \/ (sta' = n /\ UNCHANGED up)
      \/ UNCHANGED <<sta, up>>
  BY Zenon DEF PeerGroupMsg1Action
<1>4. CASE UNCHANGED <<sta, up>>
  BY <1>1, <1>2, <1>4
<1>5. CASE /\ StaTakes(f) /\ StaSanity(f)
           /\ (sta' = s1 /\ up' \in Transmit(up, g)) \/ (sta' = n /\ UNCHANGED up)
  <2>1. f \in Frames
    BY ReceivesType DEF PeerGroupMsg1Action
  <2>2. StaAccepts(f) /\ sta.link = "up"
    BY <1>5, AcceptsDoes DEF StaAccepts
  <2>3. up \in Seq(Frames)
    BY DEF TypeOK
  <2>4. /\ n \in Stations /\ n.link = sta.link /\ n.R_Counter = f.rc /\ n.PTK = sta.PTK
        /\ n.PairwiseKey = sta.PairwiseKey /\ n.PortSecured = sta.PortSecured
        /\ n.GTK = IF f.gtk > 0 THEN f.gtk ELSE sta.GTK
    BY <2>1, WithGroupKeyDoes
  <2> HIDE DEF f, n
  <2>5. CASE sta' = n /\ UNCHANGED up
    <3>1. /\ StaTaken(f) /\ sta'.PairwiseKey = sta.PairwiseKey /\ sta'.PortSecured = sta.PortSecured
          /\ up' = up
      BY <2>2, <2>4, <2>5 DEF StaTaken
    <3> QED
      BY <1>1, <1>2, <3>1
  <2>6. CASE sta' = s1 /\ up' \in Transmit(up, g)
    <3>1. /\ s1 \in Stations /\ s1.link = n.link /\ s1.R_Counter = n.R_Counter /\ s1.PTK = n.PTK
          /\ s1.PortSecured /\ s1.GTK = n.GTK /\ s1.PairwiseKey = n.PairwiseKey
      BY <2>4 DEF Stations
    <3> HIDE DEF s1
    <3>2. s1.R_Counter \in Nat /\ s1.PTK \in Keys /\ s1.PairwiseKey \in Keys
      BY <3>1 DEF Stations
    <3>3. g \in Frames /\ g \in Group2Of(s1)
      <4> DEFINE h == Eapol("group2", s1)
      <4>1. h \in Frames
        BY <3>2, EapolType DEF FrameTypes
      <4>2. h.t = "group2" /\ h.rc = s1.R_Counter
        BY DEF Eapol, Frame
      <4> HIDE DEF h
      <4>3. Encrypted(h, s1) \in Group2Of(s1)
        BY <3>2, <4>1, <4>2 DEF Encrypted, Group2Of, Frames
      <4> QED
        BY <4>3 DEF h, Group2Of
    <3> HIDE DEF g
    <3>4. MaySend(up, up', Group2Of(sta'))
      BY <2>3, <2>6, <3>3, TransmitSends
    <3>5. /\ sta'.link = sta.link /\ sta'.R_Counter = f.rc /\ sta'.PTK = sta.PTK
          /\ sta'.PortSecured /\ sta'.PairwiseKey = sta.PairwiseKey
          /\ sta'.GTK = n.GTK
      BY <2>4, <2>6, <3>1, Zenon
    <3>6. StaTaken(f)
      BY <2>2, <2>4, <3>5 DEF StaTaken
    <3> QED
      BY <1>1, <1>2, <3>4, <3>5, <3>6
  <2> QED
    BY <1>5, <2>5, <2>6
<1> QED
  BY <1>3, <1>4, <1>5, Zenon

-----------------------------------------------------------------------------
(* The pairwise keys are ordered by the station's nonces: message 2 in     *)
(* flight is newer than the access point's PTK, message 3 and message 4    *)
(* are not, and are older than a PTK whose message 3 is not sent yet.      *)

Ups(t) == {i \in 1 .. Len(up) : up[i].t = t}
Downs(t) == {i \in 1 .. Len(down) : down[i].t = t}

Old(s) ==
    /\ 0 < s /\ s <= nonces.sta /\ (ap.PTK[2] = 0 \/ s <= ap.PTK[2])
    /\ mlmePc = "answer" /\ ap.in => s < ap.PTK[2]
    /\ \A j \in Ups("pair2") : s < up[j].nonce

KeyOrder ==
    /\ ap.PTK[2] <= nonces.sta /\ sta.PTK[2] <= nonces.sta
    /\ mlmePc = "answer" /\ ap.in => ap.PTK[2] > 0
Msg2Order ==
    /\ \A i \in Ups("pair2") : ap.PTK[2] < up[i].nonce /\ up[i].nonce <= nonces.sta
    /\ \A i, j \in Ups("pair2") : i < j => up[i].nonce < up[j].nonce
Msg3Order ==
    /\ \A i \in Downs("pair3") : Old(down[i].mic[2])
    /\ \A i, j \in Downs("pair3") : i < j => down[i].mic[2] < down[j].mic[2]
Msg4Order ==
    /\ \A i \in Ups("pair4") : Old(up[i].mic[2])
    /\ \A i \in Ups("pair4"), j \in Downs("pair3") : up[i].mic[2] < down[j].mic[2]

Ord == KeyOrder /\ Msg2Order /\ Msg3Order /\ Msg4Order

\* What may be sent without a word about keys.
OtherUps == {f \in Frames : f.t \notin {"pair2", "pair4"}}
OtherDowns == {f \in Frames : f.t # "pair3"}

LEMMA NoKeyDoes == NoKey[1] = 0 /\ NoKey[2] = 0
BY DEF NoKey

LEMMA OrdKept ==
    ASSUME TypeOK, Ord,
           ap'.PTK \in {ap.PTK, NoKey}, sta'.PTK \in {sta.PTK, NoKey}, nonces'.sta = nonces.sta,
           mlmePc' = "answer" /\ ap'.in => mlmePc = "answer" /\ ap.in /\ ap'.PTK = ap.PTK,
           Moves(up, up', OtherUps), Moves(down, down', OtherDowns)
    PROVE  Ord'
<1> USE DEF Ups, Downs
<1>1. PICK k \in {0, 1} : \A i \in 1 .. Len(up') :
        \/ i + k <= Len(up) /\ up'[i] = up[i + k]
        \/ i = Len(up') /\ i + k > Len(up) /\ up'[i] \in OtherUps
  BY DEF Moves
<1>2. PICK l \in {0, 1} : \A i \in 1 .. Len(down') :
        \/ i + l <= Len(down) /\ down'[i] = down[i + l]
        \/ i = Len(down') /\ i + l > Len(down) /\ down'[i] \in OtherDowns
  BY DEF Moves
<1>3. /\ ap.PTK[2] \in Nat /\ sta.PTK[2] \in Nat /\ nonces.sta \in Nat
      /\ ap'.PTK[2] \in {ap.PTK[2], 0} /\ sta'.PTK[2] \in {sta.PTK[2], 0}
      /\ Len(up) \in Nat /\ Len(down) \in Nat
  BY Numbers, NoKeyDoes, ChannelNumbers DEF TypeOK
<1>4. ASSUME NEW i \in Ups("pair2")' PROVE i + k \in Ups("pair2") /\ up'[i] = up[i + k] /\ i \in Int
  BY <1>1, <1>3 DEF OtherUps
<1>5. ASSUME NEW i \in Ups("pair4")' PROVE i + k \in Ups("pair4") /\ up'[i] = up[i + k] /\ i \in Int
  BY <1>1, <1>3 DEF OtherUps
<1>6. ASSUME NEW i \in Downs("pair3")' PROVE i + l \in Downs("pair3") /\ down'[i] = down[i + l] /\ i \in Int
  BY <1>2, <1>3 DEF OtherDowns
<1>7. \A i \in 1 .. Len(up) : up[i].nonce \in Nat /\ up[i].mic[2] \in Nat
  BY ChannelNumbers DEF TypeOK
<1>8. \A i \in 1 .. Len(down) : down[i].mic[2] \in Nat
  BY ChannelNumbers DEF TypeOK
<1>9. KeyOrder'
  BY <1>3 DEF Ord, KeyOrder
<1>10. Msg2Order'
  <2>1. ASSUME NEW i \in Ups("pair2")' PROVE (ap.PTK[2])' < up'[i].nonce /\ up'[i].nonce <= nonces'.sta
    <3>1. ap.PTK[2] < up[i + k].nonce /\ up[i + k].nonce <= nonces.sta
      BY <1>4, <2>1, Zenon DEF Ord, Msg2Order
    <3>2. up'[i] = up[i + k] /\ up[i + k].nonce \in Nat
      BY <1>4, <1>7, <2>1
    <3>3. ap'.PTK[2] < up[i + k].nonce
      <4>1. ap'.PTK[2] \in {ap.PTK[2], 0} /\ ap.PTK[2] \in Nat
        BY <1>3
      <4> QED
        BY <3>1, <3>2, <4>1
    <3> QED
      BY <3>1, <3>2, <3>3
  <2>2. ASSUME NEW i \in Ups("pair2")', NEW j \in Ups("pair2")', i < j PROVE up'[i].nonce < up'[j].nonce
    <3>1. /\ i + k \in Ups("pair2") /\ up'[i] = up[i + k] /\ j + k \in Ups("pair2") /\ up'[j] = up[j + k]
          /\ i \in Int /\ j \in Int
      BY <1>4, <2>2
    <3>2. i + k < j + k
      BY <2>2, <3>1
    <3> QED
      BY <3>1, <3>2 DEF Ord, Msg2Order
  <2> QED
    BY <2>1, <2>2 DEF Msg2Order
<1>11. ASSUME NEW s \in Nat, Old(s) PROVE Old(s)'
  <2>1. ASSUME NEW j \in Ups("pair2")' PROVE s < up'[j].nonce
    BY <1>4, <1>11, <2>1 DEF Old
  <2>2. 0 < s /\ s <= nonces'.sta /\ ((ap.PTK[2])' = 0 \/ s <= (ap.PTK[2])')
    BY <1>3, <1>11 DEF Old
  <2>3. mlmePc' = "answer" /\ ap'.in => s < (ap.PTK[2])'
    BY <1>11 DEF Old
  <2> QED
    BY <2>1, <2>2, <2>3 DEF Old
<1>12. Msg3Order'
  <2>1. ASSUME NEW i \in Downs("pair3")' PROVE Old(down[i].mic[2])'
    <3>1. i + l \in Downs("pair3") /\ down'[i] = down[i + l] /\ down[i + l].mic[2] \in Nat
      BY <1>6, <1>8, <2>1
    <3>2. Old(down[i + l].mic[2])
      BY <3>1 DEF Ord, Msg3Order
    <3> DEFINE s == down[i + l].mic[2]
    <3>3. PICK r \in Nat : r = s
      BY <3>1
    <3>4. Old(r)
      BY <3>2, <3>3, Zenon
    <3>5. Old(r)'
      BY <1>11, <3>4
    <3>6. r = down'[i].mic[2]
      BY <3>1, <3>3
    <3> QED
      BY <3>5, <3>6, Zenon DEF Old
  <2>2. ASSUME NEW i \in Downs("pair3")', NEW j \in Downs("pair3")', i < j
        PROVE  down'[i].mic[2] < down'[j].mic[2]
    <3>1. /\ i + l \in Downs("pair3") /\ down'[i] = down[i + l] /\ j + l \in Downs("pair3") /\ down'[j] = down[j + l]
          /\ i \in Int /\ j \in Int
      BY <1>6, <2>2
    <3>2. i + l < j + l
      BY <2>2, <3>1
    <3> QED
      BY <3>1, <3>2 DEF Ord, Msg3Order
  <2> QED
    BY <2>1, <2>2 DEF Msg3Order
<1>13. Msg4Order'
  <2>1. ASSUME NEW i \in Ups("pair4")' PROVE Old(up[i].mic[2])'
    <3>1. i + k \in Ups("pair4") /\ up'[i] = up[i + k] /\ up[i + k].mic[2] \in Nat
      BY <1>5, <1>7, <2>1
    <3>2. Old(up[i + k].mic[2])
      BY <3>1 DEF Ord, Msg4Order
    <3>3. PICK r \in Nat : r = up[i + k].mic[2]
      BY <3>1
    <3>4. Old(r)
      BY <3>2, <3>3, Zenon
    <3>5. Old(r)'
      BY <1>11, <3>4
    <3>6. r = up'[i].mic[2]
      BY <3>1, <3>3
    <3> QED
      BY <3>5, <3>6, Zenon DEF Old
  <2>2. ASSUME NEW i \in Ups("pair4")', NEW j \in Downs("pair3")' PROVE up'[i].mic[2] < down'[j].mic[2]
    <3>1. i + k \in Ups("pair4") /\ up'[i] = up[i + k] /\ j + l \in Downs("pair3") /\ down'[j] = down[j + l]
      BY <1>5, <1>6, <2>2
    <3>2. up[i + k].mic[2] < down[j + l].mic[2]
      BY <3>1, Zenon DEF Ord, Msg4Order
    <3> QED
      BY <3>1, <3>2
  <2> QED
    BY <2>1, <2>2 DEF Msg4Order
<1> QED
  BY <1>9, <1>10, <1>12, <1>13 DEF Ord

\* Where the frames of a channel come from.
LEMMA SentAt ==
    ASSUME NEW c \in Seq(Frames), NEW d, NEW F, MaySend(c, d, F), NEW i \in 1 .. Len(d)
    PROVE  \/ i \in 1 .. Len(c) /\ d[i] = c[i]
           \/ i = Len(c) + 1 /\ d[i] \in F
<1>1. Len(c) \in Nat
  OBVIOUS
<1> QED
  BY <1>1 DEF MaySend

LEMMA TakenAt ==
    ASSUME NEW c \in Seq(Frames), NEW d, Takes(c, d), NEW i \in 1 .. Len(d)
    PROVE  i + 1 \in 1 .. Len(c) /\ d[i] = c[i + 1] /\ i \in Nat
<1>1. Len(c) \in Nat
  OBVIOUS
<1> QED
  BY <1>1 DEF Takes

LEMMA OrdMsg1 == ASSUME TypeOK, TypeOK', Ord, PeerPairMsg1Action PROVE Ord'
<1> USE DEF Ups, Downs
<1> DEFINE k == nonces.sta + 1
<1>1. /\ Takes(down, down') /\ ap' = ap /\ mlmePc' = mlmePc
      /\ \/ UNCHANGED <<sta, up, nonces>>
         \/ /\ sta'.PTK = <<down[1].nonce, k>> /\ nonces'.sta = k
            /\ MaySend(up, up', Pair2Of(sta'))
  BY StaMsg1Does DEF ApKept
<1>2. up \in Seq(Frames) /\ down \in Seq(Frames) /\ up' \in Seq(Frames) /\ down' \in Seq(Frames)
  BY DEF TypeOK
<1>3. CASE UNCHANGED <<sta, up, nonces>>
  <2>1. Moves(up, up', OtherUps) /\ Moves(down, down', OtherDowns)
    BY <1>1, <1>2, <1>3, StayMoves, TakeMoves
  <2> QED
    BY <1>1, <1>3, <2>1, OrdKept
<1>4. CASE /\ sta'.PTK = <<down[1].nonce, k>> /\ nonces'.sta = k
           /\ MaySend(up, up', Pair2Of(sta'))
  <2>1. nonces.sta \in Nat /\ ap.PTK[2] \in Nat /\ sta'.PTK[2] = k /\ k = nonces.sta + 1 /\ Len(up) \in Nat /\ Len(down) \in Nat
    <3>1. nonces.sta \in Nat /\ ap.PTK[2] \in Nat
      BY Numbers
    <3>2. sta'.PTK[2] = k /\ k = nonces.sta + 1
      BY <1>4
    <3>3. Len(up) \in Nat /\ Len(down) \in Nat
      BY <1>2
    <3> QED
      BY <3>1, <3>2, <3>3
  <2> HIDE DEF k
  <2>2. ASSUME NEW i \in Ups("pair2")'
        PROVE  (i \in Ups("pair2") /\ up'[i] = up[i]) \/ (i = Len(up) + 1 /\ up'[i].nonce = k)
    BY <1>2, <1>4, <2>1, SentAt DEF Pair2Of
  <2>3. ASSUME NEW i \in Ups("pair4")' PROVE i \in Ups("pair4") /\ up'[i] = up[i]
    BY <1>2, <1>4, SentAt DEF Pair2Of
  <2>4. ASSUME NEW i \in Downs("pair3")' PROVE i + 1 \in Downs("pair3") /\ down'[i] = down[i + 1] /\ i \in Nat
    BY <1>1, <1>2, TakenAt
  <2>5. /\ \A i \in 1 .. Len(up) : up[i].nonce \in Nat /\ up[i].mic[2] \in Nat
        /\ \A i \in 1 .. Len(down) : down[i].mic[2] \in Nat
    BY <1>2, ChannelNumbers
  <2>6. KeyOrder'
    BY <1>1, <1>4, <2>1 DEF Ord, KeyOrder
  <2>7. Msg2Order'
    <3>1. ASSUME NEW i \in Ups("pair2")' PROVE (ap.PTK[2])' < up'[i].nonce /\ up'[i].nonce <= nonces'.sta
      <4>1. ap'.PTK = ap.PTK /\ nonces'.sta = k
        BY <1>1, <1>4
      <4>2. CASE i \in Ups("pair2") /\ up'[i] = up[i]
        <5>1. ap.PTK[2] < up[i].nonce /\ up[i].nonce <= nonces.sta
          BY <4>2 DEF Ord, Msg2Order
        <5>2. up[i].nonce \in Nat
          BY <2>5, <4>2
        <5> QED
          BY <2>1, <4>1, <4>2, <5>1, <5>2
      <4>3. CASE up'[i].nonce = k
        <5>1. ap.PTK[2] <= nonces.sta
          BY DEF Ord, KeyOrder
        <5> QED
          BY <2>1, <4>1, <4>3, <5>1
      <4> QED
        BY <2>2, <3>1, <4>2, <4>3
    <3>2. ASSUME NEW i \in Ups("pair2")', NEW j \in Ups("pair2")', i < j PROVE up'[i].nonce < up'[j].nonce
      <4>1. i \in Ups("pair2") /\ up'[i] = up[i] /\ i \in 1 .. Len(up)
        <5>1. i \in Int /\ j \in Int /\ j <= Len(up) + 1
          BY <2>1, <2>2, <3>2
        <5>2. i # Len(up) + 1
          BY <2>1, <3>2, <5>1
        <5> QED
          BY <2>2, <3>2, <5>2
      <4>2. CASE j \in Ups("pair2") /\ up'[j] = up[j]
        BY <3>2, <4>1, <4>2 DEF Ord, Msg2Order
      <4>3. CASE up'[j].nonce = k
        <5>1. up[i].nonce <= nonces.sta /\ up[i].nonce \in Nat
          BY <2>5, <4>1 DEF Ord, Msg2Order
        <5> QED
          BY <2>1, <4>1, <4>3, <5>1
      <4> QED
        BY <2>2, <3>2, <4>2, <4>3
    <3> QED
      BY <3>1, <3>2 DEF Msg2Order
  <2>8. ASSUME NEW s \in Nat, Old(s) PROVE Old(s)'
    <3>1. ASSUME NEW j \in Ups("pair2")' PROVE s < up'[j].nonce
      BY <2>1, <2>2, <2>8, <3>1 DEF Old
    <3>2. 0 < s /\ s <= nonces'.sta /\ ((ap.PTK[2])' = 0 \/ s <= (ap.PTK[2])')
      BY <1>1, <1>4, <2>1, <2>8 DEF Old
    <3>3. mlmePc' = "answer" /\ ap'.in => s < (ap.PTK[2])'
      BY <1>1, <2>8 DEF Old
    <3> QED
      BY <3>1, <3>2, <3>3 DEF Old
  <2>9. ASSUME NEW i \in Downs("pair3")' PROVE Old(down[i].mic[2])'
    <3>1. i + 1 \in Downs("pair3") /\ down'[i] = down[i + 1] /\ down[i + 1].mic[2] \in Nat
      BY <2>4, <2>5, <2>9
    <3>2. PICK r \in Nat : r = down[i + 1].mic[2]
      BY <3>1
    <3>3. Old(r)
      BY <3>1, <3>2 DEF Ord, Msg3Order
    <3>4. Old(r)' /\ r = down'[i].mic[2]
      BY <2>8, <3>1, <3>2, <3>3
    <3> QED
      BY <3>4, Zenon DEF Old
  <2>10. ASSUME NEW i \in Ups("pair4")' PROVE Old(up[i].mic[2])'
    <3>1. i \in Ups("pair4") /\ up'[i] = up[i] /\ up[i].mic[2] \in Nat
      BY <2>3, <2>5, <2>10
    <3>2. PICK r \in Nat : r = up[i].mic[2]
      BY <3>1
    <3>3. Old(r)
      BY <3>1, <3>2 DEF Ord, Msg4Order
    <3>4. Old(r)' /\ r = up'[i].mic[2]
      BY <2>8, <3>1, <3>2, <3>3
    <3> QED
      BY <3>4, Zenon DEF Old
  <2>11. Msg3Order'
    <3>1. ASSUME NEW i \in Downs("pair3")', NEW j \in Downs("pair3")', i < j PROVE down'[i].mic[2] < down'[j].mic[2]
      <4>1. /\ i + 1 \in Downs("pair3") /\ down'[i] = down[i + 1] /\ j + 1 \in Downs("pair3") /\ down'[j] = down[j + 1]
            /\ i + 1 < j + 1
        BY <2>4, <3>1
      <4> QED
        BY <4>1 DEF Ord, Msg3Order
    <3> QED
      BY <2>9, <3>1 DEF Msg3Order
  <2>12. Msg4Order'
    <3>1. ASSUME NEW i \in Ups("pair4")', NEW j \in Downs("pair3")' PROVE up'[i].mic[2] < down'[j].mic[2]
      BY <2>3, <2>4, <3>1 DEF Ord, Msg4Order
    <3> QED
      BY <2>10, <3>1 DEF Msg4Order
  <2> QED
    BY <2>6, <2>7, <2>11, <2>12 DEF Ord
<1> QED
  BY <1>1, <1>3, <1>4

\* Message 2 makes its nonce the newest key of the access point's, and the older ones
\* are below it.
LEMMA OrdCheck == ASSUME TypeOK, TypeOK', Ord, PeerPairMsg2Check PROVE Ord'
<1> USE DEF Ups, Downs
<1>1. /\ Takes(up, up') /\ Len(up) >= 1 /\ up[1].t = "pair2" /\ mlmePc = "idle"
      /\ \/ UNCHANGED <<ap, mlmePc>>
         \/ ap.in /\ ap'.in /\ ap'.PTK = <<ap.ANonce, up[1].nonce>>
      /\ down' = down /\ sta' = sta /\ nonces' = nonces
  BY CheckDoes
<1>2. up \in Seq(Frames) /\ down \in Seq(Frames) /\ up' \in Seq(Frames) /\ down' \in Seq(Frames)
  BY DEF TypeOK
<1>3. CASE UNCHANGED <<ap, mlmePc>>
  <2>1. Moves(up, up', OtherUps) /\ Moves(down, down', OtherDowns)
    BY <1>1, <1>2, <1>3, StayMoves, TakeMoves
  <2> QED
    BY <1>1, <1>3, <2>1, OrdKept
<1>4. CASE ap.in /\ ap'.in /\ ap'.PTK = <<ap.ANonce, up[1].nonce>>
  <2> DEFINE k == up[1].nonce
  <2>1. 1 \in Ups("pair2") /\ Len(up) \in Nat
    BY <1>1, <1>2
  <2>2. k \in Nat /\ ap.PTK[2] \in Nat /\ nonces.sta \in Nat /\ ap'.PTK[2] = k /\ ap.PTK[2] < k /\ k <= nonces.sta
    <3>1. k \in Nat
      BY <1>2, <2>1, ChannelNumbers
    <3>2. ap.PTK[2] < k /\ k <= nonces.sta
      BY <2>1 DEF Ord, Msg2Order
    <3> QED
      BY <1>4, <3>1, <3>2, Numbers
  <2> HIDE DEF k
  <2>3. ASSUME NEW i \in Ups("pair2")'
        PROVE  i + 1 \in Ups("pair2") /\ up'[i] = up[i + 1] /\ i \in Nat /\ k < up'[i].nonce
    <3>1. i + 1 \in Ups("pair2") /\ up'[i] = up[i + 1] /\ i \in Nat /\ 1 < i + 1
      BY <1>1, <1>2, <2>3, TakenAt
    <3>2. up[1].nonce < up[i + 1].nonce
      BY <2>1, <3>1 DEF Ord, Msg2Order
    <3> QED
      BY <3>1, <3>2 DEF k
  <2>4. ASSUME NEW i \in Ups("pair4")' PROVE i + 1 \in Ups("pair4") /\ up'[i] = up[i + 1]
    BY <1>1, <1>2, TakenAt
  <2>5. /\ \A i \in 1 .. Len(up) : up[i].nonce \in Nat /\ up[i].mic[2] \in Nat
        /\ \A i \in 1 .. Len(down) : down[i].mic[2] \in Nat
    BY <1>2, ChannelNumbers
  <2>6. KeyOrder'
    BY <1>1, <2>2 DEF Ord, KeyOrder
  <2>7. Msg2Order'
    <3>1. ASSUME NEW i \in Ups("pair2")' PROVE (ap.PTK[2])' < up'[i].nonce /\ up'[i].nonce <= nonces'.sta
      BY <1>1, <2>2, <2>3, <3>1 DEF Ord, Msg2Order
    <3>2. ASSUME NEW i \in Ups("pair2")', NEW j \in Ups("pair2")', i < j PROVE up'[i].nonce < up'[j].nonce
      <4>1. /\ i + 1 \in Ups("pair2") /\ up'[i] = up[i + 1] /\ j + 1 \in Ups("pair2") /\ up'[j] = up[j + 1]
            /\ i + 1 < j + 1
        BY <2>3, <3>2
      <4> QED
        BY <4>1 DEF Ord, Msg2Order
    <3> QED
      BY <3>1, <3>2 DEF Msg2Order
  <2>8. ASSUME NEW s \in Nat, Old(s) PROVE Old(s)'
    <3>1. s < k
      BY <2>1, <2>8 DEF Old, k
    <3>2. ASSUME NEW j \in Ups("pair2")' PROVE s < up'[j].nonce
      BY <2>3, <2>8, <3>2 DEF Old
    <3>3. 0 < s /\ s <= nonces'.sta /\ s < (ap.PTK[2])'
      BY <1>1, <2>2, <2>8, <3>1 DEF Old
    <3> QED
      BY <2>2, <3>2, <3>3 DEF Old
  <2>9. ASSUME NEW i \in Downs("pair3")' PROVE Old(down[i].mic[2])'
    <3>1. i \in Downs("pair3") /\ down'[i] = down[i] /\ down[i].mic[2] \in Nat
      BY <1>1, <2>5, <2>9
    <3>2. PICK r \in Nat : r = down[i].mic[2]
      BY <3>1
    <3>3. Old(r)
      BY <3>1, <3>2 DEF Ord, Msg3Order
    <3>4. Old(r)' /\ r = down'[i].mic[2]
      BY <2>8, <3>1, <3>2, <3>3
    <3> QED
      BY <3>4, Zenon DEF Old
  <2>10. ASSUME NEW i \in Ups("pair4")' PROVE Old(up[i].mic[2])'
    <3>1. i + 1 \in Ups("pair4") /\ up'[i] = up[i + 1] /\ up[i + 1].mic[2] \in Nat
      BY <2>4, <2>5, <2>10
    <3>2. PICK r \in Nat : r = up[i + 1].mic[2]
      BY <3>1
    <3>3. Old(r)
      BY <3>1, <3>2 DEF Ord, Msg4Order
    <3>4. Old(r)' /\ r = up'[i].mic[2]
      BY <2>8, <3>1, <3>2, <3>3
    <3> QED
      BY <3>4, Zenon DEF Old
  <2>11. Msg3Order'
    BY <1>1, <2>9 DEF Ord, Msg3Order
  <2>12. Msg4Order'
    <3>1. ASSUME NEW i \in Ups("pair4")', NEW j \in Downs("pair3")' PROVE up'[i].mic[2] < down'[j].mic[2]
      BY <1>1, <2>4, <3>1 DEF Ord, Msg4Order
    <3> QED
      BY <2>10, <3>1 DEF Msg4Order
  <2> QED
    BY <2>6, <2>7, <2>11, <2>12 DEF Ord
<1> QED
  BY <1>1, <1>3, <1>4

\* Message 3 is made with a key above all those of the frames in flight.
LEMMA OrdAnswer == ASSUME TypeOK, TypeOK', Ord, PeerPairMsg2Answer PROVE Ord'
<1> USE DEF Ups, Downs
<1>1. /\ mlmePc = "answer" /\ mlmePc' = "idle" /\ up' = up /\ sta' = sta /\ nonces' = nonces
      /\ \/ ap.in /\ ap'.PTK = ap.PTK /\ MaySend(down, down', Pair3Of(ap'))
         \/ UNCHANGED <<ap, down>>
  BY AnswerDoes
<1>2. up \in Seq(Frames) /\ down \in Seq(Frames) /\ up' \in Seq(Frames) /\ down' \in Seq(Frames)
  BY DEF TypeOK
<1>3. CASE UNCHANGED <<ap, down>>
  <2>1. Moves(up, up', OtherUps) /\ Moves(down, down', OtherDowns)
    BY <1>1, <1>2, <1>3, StayMoves
  <2> QED
    BY <1>1, <1>3, <2>1, OrdKept
<1>4. CASE ap.in /\ ap'.PTK = ap.PTK /\ MaySend(down, down', Pair3Of(ap'))
  <2> DEFINE k == ap.PTK[2]
  <2>1. k \in Nat /\ nonces.sta \in Nat /\ 0 < k /\ k <= nonces.sta /\ ap'.PTK[2] = k
    <3>1. k \in Nat /\ nonces.sta \in Nat
      BY Numbers
    <3>2. 0 < k /\ k <= nonces.sta
      BY <1>1, <1>4, <3>1 DEF Ord, KeyOrder
    <3> QED
      BY <1>4, <3>1, <3>2
  <2> HIDE DEF k
  <2>2. ASSUME NEW i \in Downs("pair3")'
        PROVE  (i \in Downs("pair3") /\ down'[i] = down[i]) \/ (i = Len(down) + 1 /\ down'[i].mic[2] = k)
    <3>1. (i \in 1 .. Len(down) /\ down'[i] = down[i]) \/ (i = Len(down) + 1 /\ down'[i] \in Pair3Of(ap'))
      BY <1>2, <1>4, <2>2, SentAt
    <3> QED
      BY <2>1, <2>2, <3>1 DEF Pair3Of
  <2>3. /\ \A i \in 1 .. Len(up) : up[i].mic[2] \in Nat
        /\ \A i \in 1 .. Len(down) : down[i].mic[2] \in Nat
        /\ Len(down) \in Nat
    BY <1>2, ChannelNumbers
  <2>4. ASSUME NEW i \in Downs("pair3") PROVE down[i].mic[2] < k
    BY <1>1, <1>4, <2>4 DEF Ord, Msg3Order, Old, k
  <2>5. ASSUME NEW i \in Ups("pair4") PROVE up[i].mic[2] < k
    BY <1>1, <1>4, <2>5 DEF Ord, Msg4Order, Old, k
  <2>6. KeyOrder'
    BY <1>1, <1>4 DEF Ord, KeyOrder
  <2>7. Msg2Order'
    BY <1>1, <1>4 DEF Ord, Msg2Order
  <2>8. ASSUME NEW s \in Nat, Old(s) \/ s = k PROVE Old(s)'
    <3>1. 0 < s /\ s <= nonces'.sta /\ ((ap.PTK[2])' = 0 \/ s <= (ap.PTK[2])')
      BY <1>1, <2>1, <2>8 DEF Old, k
    <3>2. ASSUME NEW j \in Ups("pair2")' PROVE s < up'[j].nonce
      BY <1>1, <2>8, <3>2 DEF Old, Ord, Msg2Order, k
    <3> QED
      BY <1>1, <3>1, <3>2 DEF Old
  <2>9. ASSUME NEW i \in Downs("pair3")' PROVE Old(down[i].mic[2])'
    <3>1. PICK r \in Nat : r = down'[i].mic[2]
      BY <2>1, <2>2, <2>3, <2>9
    <3>2. Old(r) \/ r = k
      BY <2>2, <2>9, <3>1 DEF Ord, Msg3Order
    <3>3. Old(r)'
      BY <2>8, <3>2
    <3> QED
      BY <3>1, <3>3, Zenon DEF Old
  <2>10. ASSUME NEW i \in Ups("pair4")' PROVE Old(up[i].mic[2])'
    <3>1. i \in Ups("pair4") /\ up'[i] = up[i] /\ up[i].mic[2] \in Nat
      BY <1>1, <2>3, <2>10
    <3>2. PICK r \in Nat : r = up[i].mic[2]
      BY <3>1
    <3>3. Old(r)
      BY <3>1, <3>2 DEF Ord, Msg4Order
    <3>4. Old(r)' /\ r = up'[i].mic[2]
      BY <2>8, <3>1, <3>2, <3>3
    <3> QED
      BY <3>4, Zenon DEF Old
  <2>11. Msg3Order'
    <3>1. ASSUME NEW i \in Downs("pair3")', NEW j \in Downs("pair3")', i < j PROVE down'[i].mic[2] < down'[j].mic[2]
      <4>1. i \in Downs("pair3") /\ down'[i] = down[i]
        <5>1. i \in Int /\ j \in Int /\ j <= Len(down) + 1
          BY <2>2, <2>3, <3>1
        <5>2. i # Len(down) + 1
          BY <2>3, <3>1, <5>1
        <5> QED
          BY <2>2, <3>1, <5>2
      <4>2. CASE j \in Downs("pair3") /\ down'[j] = down[j]
        BY <3>1, <4>1, <4>2 DEF Ord, Msg3Order
      <4>3. CASE down'[j].mic[2] = k
        BY <2>4, <4>1, <4>3
      <4> QED
        BY <2>2, <3>1, <4>2, <4>3
    <3> QED
      BY <2>9, <3>1 DEF Msg3Order
  <2>12. Msg4Order'
    <3>1. ASSUME NEW i \in Ups("pair4")', NEW j \in Downs("pair3")' PROVE up'[i].mic[2] < down'[j].mic[2]
      <4>1. i \in Ups("pair4") /\ up'[i] = up[i]
        BY <1>1, <3>1
      <4>2. CASE j \in Downs("pair3") /\ down'[j] = down[j]
        BY <4>1, <4>2 DEF Ord, Msg4Order
      <4>3. CASE down'[j].mic[2] = k
        BY <2>5, <4>1, <4>3
      <4> QED
        BY <2>2, <3>1, <4>2, <4>3
    <3> QED
      BY <2>10, <3>1 DEF Msg4Order
  <2> QED
    BY <2>6, <2>7, <2>11, <2>12 DEF Ord
<1> QED
  BY <1>1, <1>3, <1>4

\* Message 4 has the key of the message 3 it answers.
LEMMA OrdMsg3 == ASSUME TypeOK, TypeOK', Ord, PeerPairMsg3Action PROVE Ord'
<1> USE DEF Ups, Downs
<1>1. /\ Takes(down, down') /\ Len(down) >= 1 /\ down[1].t = "pair3"
      /\ ap' = ap /\ mlmePc' = mlmePc /\ nonces' = nonces /\ sta'.PTK = sta.PTK
      /\ \/ up' = up
         \/ sta.PTK = down[1].mic /\ MaySend(up, up', Pair4Of(sta'))
  BY StaMsg3Does DEF ApKept, StaTaken, StaAccepts
<1>2. up \in Seq(Frames) /\ down \in Seq(Frames) /\ up' \in Seq(Frames) /\ down' \in Seq(Frames)
  BY DEF TypeOK
<1>3. CASE up' = up
  <2>1. Moves(up, up', OtherUps) /\ Moves(down, down', OtherDowns)
    BY <1>1, <1>2, <1>3, StayMoves, TakeMoves
  <2> QED
    BY <1>1, <1>3, <2>1, OrdKept
<1>4. CASE sta.PTK = down[1].mic /\ MaySend(up, up', Pair4Of(sta'))
  <2> DEFINE k == down[1].mic[2]
  <2>1. 1 \in Downs("pair3") /\ Len(down) \in Nat /\ Len(up) \in Nat
    BY <1>1, <1>2
  <2>2. k \in Nat /\ Old(k)
    <3>1. k \in Nat
      BY <1>2, <2>1, ChannelNumbers
    <3> QED
      BY <2>1, <3>1 DEF Ord, Msg3Order
  <2>3. ASSUME NEW i \in Downs("pair3")'
        PROVE  i + 1 \in Downs("pair3") /\ down'[i] = down[i + 1] /\ i \in Nat /\ k < down'[i].mic[2]
    <3>1. i + 1 \in Downs("pair3") /\ down'[i] = down[i + 1] /\ i \in Nat /\ 1 < i + 1
      BY <1>1, <1>2, <2>3, TakenAt
    <3>2. k < down[i + 1].mic[2]
      BY <2>1, <3>1 DEF Ord, Msg3Order
    <3> QED
      BY <3>1, <3>2
  <2> HIDE DEF k
  <2>4. ASSUME NEW i \in Ups("pair4")'
        PROVE  (i \in Ups("pair4") /\ up'[i] = up[i]) \/ up'[i].mic[2] = k
    <3>1. (i \in 1 .. Len(up) /\ up'[i] = up[i]) \/ up'[i] \in Pair4Of(sta')
      BY <1>2, <1>4, <2>4, SentAt
    <3>2. up'[i] \in Pair4Of(sta') => up'[i].mic[2] = k
      BY <1>1, <1>4 DEF Pair4Of, k
    <3> QED
      BY <2>4, <3>1, <3>2
  <2>5. ASSUME NEW i \in Ups("pair2")' PROVE i \in Ups("pair2") /\ up'[i] = up[i]
    <3>1. (i \in 1 .. Len(up) /\ up'[i] = up[i]) \/ up'[i] \in Pair4Of(sta')
      BY <1>2, <1>4, <2>5, SentAt
    <3> QED
      BY <2>5, <3>1 DEF Pair4Of
  <2>6. /\ \A i \in 1 .. Len(up) : up[i].mic[2] \in Nat
        /\ \A i \in 1 .. Len(down) : down[i].mic[2] \in Nat
    BY <1>2, ChannelNumbers
  <2>7. KeyOrder'
    BY <1>1 DEF Ord, KeyOrder
  <2>8. Msg2Order'
    BY <1>1, <2>5 DEF Ord, Msg2Order
  <2>9. ASSUME NEW s \in Nat, Old(s) PROVE Old(s)'
    BY <1>1, <2>5, <2>9 DEF Old
  <2>10. ASSUME NEW i \in Downs("pair3")' PROVE Old(down[i].mic[2])'
    <3>1. i + 1 \in Downs("pair3") /\ down'[i] = down[i + 1] /\ down[i + 1].mic[2] \in Nat
      BY <2>3, <2>6, <2>10
    <3>2. PICK r \in Nat : r = down[i + 1].mic[2]
      BY <3>1
    <3>3. Old(r)
      BY <3>1, <3>2 DEF Ord, Msg3Order
    <3>4. Old(r)' /\ r = down'[i].mic[2]
      BY <2>9, <3>1, <3>2, <3>3
    <3> QED
      BY <3>4, Zenon DEF Old
  <2>11. ASSUME NEW i \in Ups("pair4")' PROVE Old(up[i].mic[2])'
    <3>1. PICK r \in Nat : r = up'[i].mic[2]
      BY <2>2, <2>4, <2>6, <2>11
    <3>2. Old(r)
      BY <2>2, <2>4, <2>11, <3>1 DEF Ord, Msg4Order
    <3>3. Old(r)'
      BY <2>9, <3>2
    <3> QED
      BY <3>1, <3>3, Zenon DEF Old
  <2>12. Msg3Order'
    <3>1. ASSUME NEW i \in Downs("pair3")', NEW j \in Downs("pair3")', i < j PROVE down'[i].mic[2] < down'[j].mic[2]
      <4>1. /\ i + 1 \in Downs("pair3") /\ down'[i] = down[i + 1] /\ j + 1 \in Downs("pair3") /\ down'[j] = down[j + 1]
            /\ i + 1 < j + 1
        BY <2>3, <3>1
      <4> QED
        BY <4>1 DEF Ord, Msg3Order
    <3> QED
      BY <2>10, <3>1 DEF Msg3Order
  <2>13. Msg4Order'
    <3>1. ASSUME NEW i \in Ups("pair4")', NEW j \in Downs("pair3")' PROVE up'[i].mic[2] < down'[j].mic[2]
      <4>1. CASE i \in Ups("pair4") /\ up'[i] = up[i]
        BY <2>3, <3>1, <4>1 DEF Ord, Msg4Order
      <4>2. CASE up'[i].mic[2] = k
        BY <2>3, <3>1, <4>2
      <4> QED
        BY <2>4, <3>1, <4>1, <4>2
    <3> QED
      BY <2>11, <3>1 DEF Msg4Order
  <2> QED
    BY <2>7, <2>8, <2>12, <2>13 DEF Ord
<1> QED
  BY <1>1, <1>3, <1>4

\* The steps that leave the order alone.
LEMMA OrdMlme ==
    ASSUME TypeOK, TypeOK', Ord,
           \/ ApAssoc \/ ApDisassoc \/ WpaEAPOLStartAction \/ PeerPairMsg4Action \/ PeerGroupMsg2Action
    PROVE  Ord'
<1>1. up \in Seq(Frames) /\ down \in Seq(Frames) /\ up' \in Seq(Frames) /\ down' \in Seq(Frames)
  BY DEF TypeOK
<1>2. CASE ApAssoc
  <2>1. /\ Takes(up, up') /\ MaySend(down, down', OfType({"assocrsp"}))
        /\ mlmePc = "idle" /\ mlmePc' = "idle" /\ ap'.PTK \in {ap.PTK, NoKey} /\ sta' = sta /\ nonces' = nonces
    BY <1>2, ApAssocDoes
  <2>2. OfType({"assocrsp"}) \subseteq OtherDowns
    BY DEF OfType, OtherDowns
  <2>3. Moves(up, up', OtherUps) /\ Moves(down, down', OtherDowns)
    BY <1>1, <2>1, <2>2, TakeMoves, SendMoves, MovesMore
  <2> QED
    BY <2>1, <2>3, OrdKept
<1>3. CASE ApDisassoc
  <2>1. /\ Takes(up, up') /\ ap' = NoEntry /\ mlmePc' = mlmePc /\ sta' = sta /\ nonces' = nonces /\ down' = down
    BY <1>3, ApDisassocDoes
  <2>2. Moves(up, up', OtherUps) /\ Moves(down, down', OtherDowns)
    BY <1>1, <2>1, TakeMoves, StayMoves
  <2> QED
    BY <2>1, <2>2, OrdKept, NoEntryDoes
<1>4. CASE WpaEAPOLStartAction
  <2>1. /\ up' = up /\ MaySend(down, down', Pair1Of(ap'))
        /\ mlmePc = "idle" /\ mlmePc' = "idle" /\ ap'.PTK = ap.PTK /\ sta' = sta /\ nonces'.sta = nonces.sta
    BY <1>4, StartDoes DEF MaySend
  <2>2. Pair1Of(ap') \subseteq OtherDowns
    BY DEF Pair1Of, OtherDowns
  <2>3. Moves(up, up', OtherUps) /\ Moves(down, down', OtherDowns)
    BY <1>1, <2>1, <2>2, StayMoves, SendMoves, MovesMore
  <2> QED
    BY <2>1, <2>3, OrdKept
<1>5. CASE PeerPairMsg4Action
  <2>1. /\ Takes(up, up') /\ MaySend(down, down', Group1Of(ap'))
        /\ mlmePc = "idle" /\ mlmePc' = "idle" /\ ap'.PTK = ap.PTK /\ sta' = sta /\ nonces' = nonces
    BY <1>5, Msg4Does DEF MaySend
  <2>2. Group1Of(ap') \subseteq OtherDowns
    BY DEF Group1Of, OtherDowns
  <2>3. Moves(up, up', OtherUps) /\ Moves(down, down', OtherDowns)
    BY <1>1, <2>1, <2>2, TakeMoves, SendMoves, MovesMore
  <2> QED
    BY <2>1, <2>3, OrdKept
<1>6. CASE PeerGroupMsg2Action
  <2>1. /\ Takes(up, up') /\ down' = down /\ mlmePc' = mlmePc
        /\ ap'.PTK = ap.PTK /\ ap'.in = ap.in /\ sta' = sta /\ nonces' = nonces
    BY <1>6, Group2Does DEF SameEntry
  <2>2. Moves(up, up', OtherUps) /\ Moves(down, down', OtherDowns)
    BY <1>1, <2>1, TakeMoves, StayMoves
  <2> QED
    BY <2>1, <2>2, OrdKept
<1> QED
  BY <1>2, <1>3, <1>4, <1>5, <1>6

\* The handler of a start, and the timer thread's other work.
StartExec == EnqueueStartForPSKExec \/ StartEnqueue \/ StartClear

LEMMA OtherTimersDo ==
    ASSUME StartExec \/ CountDown
    PROVE  /\ UNCHANGED <<ap, retryTimer, mlmePc, GTK, sta, down, up, nonces>>
           /\ {timerPc, timerPc'} \subseteq {"idle", "enqueue", "clear"}
BY DEF StartExec, EnqueueStartForPSKExec, StartEnqueue, StartClear, CountDown, TimerFree, timers, group

\* The timer thread neither moves a key nor sends message 2, 3 or 4.
LEMMA TimersMove ==
    ASSUME TypeOK, TypeOK', ApTimers
    PROVE  /\ up' = up /\ sta' = sta /\ nonces'.sta = nonces.sta /\ mlmePc' = mlmePc
           /\ \/ /\ ap'.PTK = ap.PTK /\ ap'.in = ap.in /\ ap'.PairwiseKey = ap.PairwiseKey
                 /\ ap'.WpaState \in {ap.WpaState, PTKSTART}
                 /\ ap'.Established => ap.Established
              \/ ap' = NoEntry
           /\ Moves(down, down', {f \in Frames : f.t \in {"deauth", "pair1", "group1"}})
<1> DEFINE D == {f \in Frames : f.t \in {"deauth", "pair1", "group1"}}
<1>1. down \in Seq(Frames) /\ down' \in Seq(Frames)
  BY DEF TypeOK
<1>2. OfType({"deauth"}) \subseteq D /\ Pair1Of(ap') \subseteq D /\ Group1Of(ap') \subseteq D
  BY DEF OfType, Pair1Of, Group1Of
<1> HIDE DEF D
<1>3. ASSUME NEW F, F \subseteq D, MaySend(down, down', F) PROVE Moves(down, down', D)
  BY <1>1, <1>3, SendMoves, MovesMore
<1>4. down' = down => Moves(down, down', D)
  BY <1>1, StayMoves
<1>5. CASE StartExec \/ CountDown
  <2>1. UNCHANGED <<ap, mlmePc, sta, down, up, nonces>>
    BY <1>5, OtherTimersDo
  <2> QED
    BY <1>4, <2>1 DEF D
<1>6. CASE WPARetryExec
  BY <1>4, <1>6, RetryExecDoes DEF SameEntry, D
<1>7. CASE RetryDeauth
  BY <1>2, <1>3, <1>4, <1>7, RetryDeauthDoes DEF D
<1>8. CASE RetryGroup
  BY <1>2, <1>3, <1>4, <1>8, RetryGroupDoes DEF SameEntry, D
<1>9. CASE RetryTest
  BY <1>4, <1>9, RetryTestDoes DEF D
<1>10. CASE RetrySend
  BY <1>2, <1>3, <1>4, <1>10, RetrySendDoes DEF D
<1>11. CASE NewGTK
  BY <1>4, <1>11, NewGTKDoes DEF D
<1>12. CASE RekeyStations
  BY <1>2, <1>3, <1>4, <1>12, RekeyDoes DEF SameEntry, D
<1> QED
  BY <1>5, <1>6, <1>7, <1>8, <1>9, <1>10, <1>11, <1>12 DEF ApTimers, StartExec

LEMMA OrdStation ==
    ASSUME TypeOK, TypeOK', Ord,
           Join \/ JoinTimeout \/ LinkUp \/ Leave \/ PeerDeauth \/ PeerGroupMsg1Action
    PROVE  Ord'
<1>1. up \in Seq(Frames) /\ down \in Seq(Frames) /\ up' \in Seq(Frames) /\ down' \in Seq(Frames)
  BY DEF TypeOK
<1>2. OfType({"assocreq"}) \subseteq OtherUps /\ OfType({"disassoc"}) \subseteq OtherUps /\ Group2Of(sta') \subseteq OtherUps
  BY DEF OfType, Group2Of, OtherUps
<1>3. ASSUME NEW F, F \subseteq OtherUps, MaySend(up, up', F) PROVE Moves(up, up', OtherUps)
  BY <1>1, <1>3, SendMoves, MovesMore
<1>4. /\ up' = up => Moves(up, up', OtherUps)
      /\ down' = down \/ Takes(down, down') => Moves(down, down', OtherDowns)
  BY <1>1, StayMoves, TakeMoves
<1>5. CASE Join
  BY <1>2, <1>3, <1>4, <1>5, JoinDoes, OrdKept DEF ApKept
<1>6. CASE JoinTimeout
  BY <1>4, <1>6, JoinTimeoutDoes, OrdKept DEF ApKept
<1>7. CASE LinkUp
  BY <1>4, <1>7, LinkUpDoes, OrdKept DEF ApKept
<1>8. CASE Leave
  BY <1>2, <1>3, <1>4, <1>8, LeaveDoes, OrdKept DEF ApKept
<1>9. CASE PeerDeauth
  BY <1>4, <1>9, PeerDeauthDoes, OrdKept DEF ApKept
<1>10. CASE PeerGroupMsg1Action
  <2>1. sta'.PTK = sta.PTK /\ ApKept /\ nonces' = nonces /\ Takes(down, down')
    BY <1>10, StaGroup1Does DEF StaTaken
  <2>2. up' = up \/ MaySend(up, up', Group2Of(sta'))
    BY <1>10, StaGroup1Does
  <2>3. Moves(up, up', OtherUps) /\ Moves(down, down', OtherDowns)
    BY <1>2, <1>3, <1>4, <2>1, <2>2
  <2> QED
    BY <2>1, <2>3, OrdKept DEF ApKept
<1> QED
  BY <1>5, <1>6, <1>7, <1>8, <1>9, <1>10

LEMMA OrdTimers == ASSUME TypeOK, TypeOK', Ord, ApTimers PROVE Ord'
<1> DEFINE D == {f \in Frames : f.t \in {"deauth", "pair1", "group1"}}
<1>1. /\ up' = up /\ sta' = sta /\ nonces'.sta = nonces.sta /\ mlmePc' = mlmePc
      /\ (ap'.PTK = ap.PTK /\ ap'.in = ap.in) \/ ap' = NoEntry
      /\ Moves(down, down', D)
  BY TimersMove
<1>2. D \subseteq OtherDowns
  BY DEF OtherDowns
<1>3. Moves(down, down', OtherDowns)
  BY <1>1, <1>2, MovesMore
<1>4. Moves(up, up', OtherUps)
  BY <1>1, StayMoves DEF TypeOK
<1>5. ap'.PTK \in {ap.PTK, NoKey} /\ (ap'.in => ap.in /\ ap'.PTK = ap.PTK)
  BY <1>1, NoEntryDoes
<1> QED
  BY <1>1, <1>3, <1>4, <1>5, OrdKept

LEMMA OrdStep == ASSUME TypeOK, TypeOK', Ord, [Next]_vars PROVE Ord'
<1>1. CASE ApMlme
  BY <1>1, OrdMlme, OrdCheck, OrdAnswer DEF ApMlme
<1>2. CASE ApTimers
  BY <1>2, OrdTimers
<1>3. CASE Station
  BY <1>3, OrdStation, OrdMsg1, OrdMsg3 DEF Station
<1>4. CASE UNCHANGED vars
  BY <1>4 DEF vars, apVars, Ord, KeyOrder, Msg2Order, Msg3Order, Msg4Order, Old, Ups, Downs
<1> QED
  BY <1>1, <1>2, <1>3, <1>4 DEF Next

-----------------------------------------------------------------------------
(* What KeysAgree rests on: the answers to the handshake that is under way *)
(* meet the station they are for.  Before them in the channel to it are    *)
(* all the associations it may still hear of, after them there are none.   *)

\* The frame belongs to the handshake whose message 3 is sent.
Current(f) == f.mic = ap.PTK /\ ap.in /\ ap.WpaState >= NEGOTIATING
Done == ap.in /\ ap.WpaState = DONE

Msg3Agrees ==
    \A i \in Downs("pair3") : Current(down[i]) => \A j \in Downs("assocrsp") : j < i
Msg4Agrees ==
    \A i \in Ups("pair4") : Current(up[i]) =>
        /\ Downs("assocrsp") = {}
        /\ sta.link = "up" => sta.PairwiseKey = up[i].mic /\ (WPA2 => sta.PortSecured)
DoneAgrees ==
    Done =>
        /\ Downs("assocrsp") = {} /\ Downs("pair3") = {} /\ ap.PairwiseKey[2] > 0
        /\ sta.link = "up" => sta.PairwiseKey = ap.PairwiseKey

Agr == Msg3Agrees /\ Msg4Agrees /\ DoneAgrees

\* No handshake is past its message 3.
LEMMA AgrReset ==
    ASSUME ~(ap'.in /\ ap'.WpaState >= NEGOTIATING) PROVE Agr'
BY DEF Agr, Msg3Agrees, Msg4Agrees, DoneAgrees, Current, Done

LEMMA AgrKept ==
    ASSUME TypeOK, TypeOK', Agr, NEW F, NEW G,
           ap'.in /\ ap'.WpaState >= NEGOTIATING =>
               /\ ap.in /\ ap'.WpaState = ap.WpaState
               /\ ap'.PTK = ap.PTK /\ ap'.PairwiseKey = ap.PairwiseKey,
           sta'.link = "up" =>
               /\ sta.link = "up" /\ sta'.PairwiseKey = sta.PairwiseKey
               /\ sta.PortSecured => sta'.PortSecured,
           Moves(up, up', F), \A f \in F : f.t # "pair4",
           Moves(down, down', G), \A g \in G : g.t \notin {"assocrsp", "pair3"}
    PROVE  Agr'
<1> USE DEF Ups, Downs
<1>1. CASE ~(ap'.in /\ ap'.WpaState >= NEGOTIATING)
  BY <1>1, AgrReset
<1>2. CASE ap'.in /\ ap'.WpaState >= NEGOTIATING
  <2>1. ap.in /\ ap'.WpaState = ap.WpaState /\ ap'.PTK = ap.PTK /\ ap'.PairwiseKey = ap.PairwiseKey
    BY <1>2
  <2>2. PICK k \in {0, 1} : \A i \in 1 .. Len(up') :
          \/ i + k <= Len(up) /\ up'[i] = up[i + k]
          \/ i = Len(up') /\ i + k > Len(up) /\ up'[i] \in F
    BY DEF Moves
  <2>3. PICK l \in {0, 1} : \A i \in 1 .. Len(down') :
          \/ i + l <= Len(down) /\ down'[i] = down[i + l]
          \/ i = Len(down') /\ i + l > Len(down) /\ down'[i] \in G
    BY DEF Moves
  <2>4. ASSUME NEW i \in Ups("pair4")' PROVE i + k \in Ups("pair4") /\ up'[i] = up[i + k]
    BY <2>2, <2>4
  <2>5. ASSUME NEW i \in Downs("pair3")' PROVE i + l \in Downs("pair3") /\ down'[i] = down[i + l] /\ i \in Int
    BY <2>3, <2>5
  <2>6. ASSUME NEW i \in Downs("assocrsp")' PROVE i + l \in Downs("assocrsp") /\ i \in Int
    BY <2>3, <2>6
  <2>7. Msg3Agrees'
    <3>1. ASSUME NEW i \in Downs("pair3")', Current(down[i])', NEW j \in Downs("assocrsp")' PROVE j < i
      <4>1. i + l \in Downs("pair3") /\ Current(down[i + l]) /\ j + l \in Downs("assocrsp") /\ i \in Int /\ j \in Int
        BY <2>1, <2>5, <2>6, <3>1 DEF Current
      <4>2. j + l < i + l
        BY <4>1 DEF Agr, Msg3Agrees
      <4> QED
        BY <4>1, <4>2
    <3> QED
      BY <3>1 DEF Msg3Agrees
  <2>8. Msg4Agrees'
    <3>1. ASSUME NEW i \in Ups("pair4")', Current(up[i])'
          PROVE  /\ (Downs("assocrsp") = {})'
                 /\ sta'.link = "up" => sta'.PairwiseKey = up'[i].mic /\ (WPA2 => sta'.PortSecured)
      <4>1. i + k \in Ups("pair4") /\ Current(up[i + k]) /\ up'[i] = up[i + k]
        BY <2>1, <2>4, <3>1 DEF Current
      <4>2. /\ Downs("assocrsp") = {}
            /\ sta.link = "up" => sta.PairwiseKey = up'[i].mic /\ (WPA2 => sta.PortSecured)
        BY <4>1 DEF Agr, Msg4Agrees
      <4>3. (Downs("assocrsp") = {})'
        BY <2>6, <4>2
      <4> QED
        BY <4>2, <4>3
    <3> QED
      BY <3>1 DEF Msg4Agrees
  <2>9. DoneAgrees'
    <3>1. ASSUME Done' PROVE Done
      BY <2>1, <3>1 DEF Done
    <3>2. Downs("assocrsp") = {} => (Downs("assocrsp") = {})'
      BY <2>6
    <3>3. Downs("pair3") = {} => (Downs("pair3") = {})'
      BY <2>5
    <3> QED
      BY <2>1, <3>1, <3>2, <3>3 DEF Agr, DoneAgrees
  <2> QED
    BY <2>7, <2>8, <2>9 DEF Agr
<1> QED
  BY <1>1, <1>2

\* A new PTK, from a message 2 newer than all the answers in flight.
LEMMA AgrCheck == ASSUME TypeOK, TypeOK', Ord, Agr, PeerPairMsg2Check PROVE Agr'
<1> USE DEF Ups, Downs
<1>1. /\ Takes(up, up') /\ Len(up) >= 1 /\ up[1].t = "pair2"
      /\ \/ ap' = ap
         \/ /\ ap.in /\ ap'.in /\ ap'.PTK = <<ap.ANonce, up[1].nonce>> /\ ap'.WpaState = ap.WpaState
            /\ ap'.PairwiseKey = ap.PairwiseKey
      /\ down' = down /\ sta' = sta
  BY CheckDoes
<1>2. up \in Seq(Frames) /\ down \in Seq(Frames) /\ up' \in Seq(Frames) /\ down' \in Seq(Frames)
  BY DEF TypeOK
<1>3. CASE ap' = ap
  <2>1. Moves(up, up', {}) /\ Moves(down, down', {})
    BY <1>1, <1>2, StayMoves, TakeMoves
  <2> QED
    BY <1>1, <1>3, <2>1, AgrKept
<1>4. CASE /\ ap.in /\ ap'.in /\ ap'.PTK = <<ap.ANonce, up[1].nonce>> /\ ap'.WpaState = ap.WpaState
           /\ ap'.PairwiseKey = ap.PairwiseKey
  <2> DEFINE k == up[1].nonce
  <2>1. 1 \in Ups("pair2") /\ k \in Nat /\ ap'.PTK[2] = k
    BY <1>1, <1>2, <1>4, ChannelNumbers
  <2>2. ASSUME NEW i \in Downs("pair3") PROVE down[i].mic[2] < k
    BY <2>1, <2>2 DEF Ord, Msg3Order, Old
  <2>3. ASSUME NEW i \in Ups("pair4") PROVE up[i].mic[2] < k
    BY <2>1, <2>3 DEF Ord, Msg4Order, Old
  <2> HIDE DEF k
  <2>4. Msg3Agrees'
    <3>1. ASSUME NEW i \in Downs("pair3")' PROVE ~Current(down[i])'
      BY <1>1, <2>1, <2>2, <3>1 DEF Current
    <3> QED
      BY <3>1 DEF Msg3Agrees
  <2>5. Msg4Agrees'
    <3>1. ASSUME NEW i \in Ups("pair4")' PROVE ~Current(up[i])'
      <4>1. i + 1 \in Ups("pair4") /\ up'[i] = up[i + 1]
        BY <1>1, <1>2, <3>1, TakenAt
      <4>2. up'[i].mic[2] < k
        BY <2>3, <4>1
      <4> QED
        BY <2>1, <4>2 DEF Current
    <3> QED
      BY <3>1 DEF Msg4Agrees
  <2>6. DoneAgrees'
    BY <1>1, <1>4 DEF Agr, DoneAgrees, Done
  <2> QED
    BY <2>4, <2>5, <2>6 DEF Agr
<1> QED
  BY <1>1, <1>3, <1>4

\* Message 3 is the last frame to the station, and the first with its key.
LEMMA AgrAnswer == ASSUME TypeOK, TypeOK', Ord, Agr, PeerPairMsg2Answer PROVE Agr'
<1> USE DEF Ups, Downs
<1>1. /\ mlmePc = "answer" /\ up' = up /\ sta' = sta
      /\ \/ /\ ap.in /\ ap'.PTK = ap.PTK /\ ap'.WpaState = NEGOTIATING
            /\ MaySend(down, down', Pair3Of(ap'))
         \/ UNCHANGED <<ap, down>>
  BY AnswerDoes
<1>2. up \in Seq(Frames) /\ down \in Seq(Frames) /\ up' \in Seq(Frames) /\ down' \in Seq(Frames)
  BY DEF TypeOK
<1>3. CASE UNCHANGED <<ap, down>>
  BY <1>1, <1>3 DEF Agr, Msg3Agrees, Msg4Agrees, DoneAgrees, Current, Done
<1>4. CASE /\ ap.in /\ ap'.PTK = ap.PTK /\ ap'.WpaState = NEGOTIATING
           /\ MaySend(down, down', Pair3Of(ap'))
  <2>1. ap.PTK[2] \in Nat /\ Len(down) \in Nat
    BY <1>2, Numbers
  <2>2. ASSUME NEW i \in Downs("pair3") PROVE down[i].mic # ap.PTK
    <3>1. down[i].mic[2] < ap.PTK[2] /\ down[i].mic[2] \in Nat
      BY <1>1, <1>2, <1>4, <2>2, ChannelNumbers DEF Ord, Msg3Order, Old
    <3> QED
      BY <2>1, <3>1
  <2>3. ASSUME NEW i \in Ups("pair4") PROVE up[i].mic # ap.PTK
    <3>1. up[i].mic[2] < ap.PTK[2] /\ up[i].mic[2] \in Nat
      BY <1>1, <1>2, <1>4, <2>3, ChannelNumbers DEF Ord, Msg4Order, Old
    <3> QED
      BY <2>1, <3>1
  <2>4. ASSUME NEW i \in 1 .. Len(down')
        PROVE  (i \in 1 .. Len(down) /\ down'[i] = down[i]) \/ (i = Len(down) + 1 /\ down'[i].t = "pair3")
    BY <1>2, <1>4, SentAt DEF Pair3Of
  <2>5. Msg3Agrees'
    <3>1. ASSUME NEW i \in Downs("pair3")', Current(down[i])', NEW j \in Downs("assocrsp")' PROVE j < i
      <4>1. ~(i \in 1 .. Len(down) /\ down'[i] = down[i])
        BY <1>4, <2>2, <3>1 DEF Current
      <4>2. i = Len(down) + 1
        BY <2>4, <3>1, <4>1
      <4>3. j \in 1 .. Len(down)
        BY <2>4, <3>1
      <4> QED
        BY <2>1, <4>2, <4>3
    <3> QED
      BY <3>1 DEF Msg3Agrees
  <2>6. Msg4Agrees'
    BY <1>1, <1>4, <2>3 DEF Msg4Agrees, Current
  <2>7. DoneAgrees'
    BY <1>4 DEF DoneAgrees, Done
  <2> QED
    BY <2>5, <2>6, <2>7 DEF Agr
<1> QED
  BY <1>1, <1>3, <1>4

\* Message 4 ends the handshake: what the order says of the frames behind it.
LEMMA AgrMsg4 == ASSUME TypeOK, TypeOK', Ord, Agr, PeerPairMsg4Action PROVE Agr'
<1> USE DEF Ups, Downs
<1>1. /\ Takes(up, up') /\ Len(up) >= 1 /\ up[1].t = "pair4" /\ sta' = sta
      /\ \/ UNCHANGED <<ap, down>>
         \/ /\ ap.in /\ ap.WpaState >= NEGOTIATING /\ up[1].mic = ap.PTK
            /\ ap'.PTK = ap.PTK /\ ap'.PairwiseKey = ap.PTK
            /\ MaySend(down, down', Group1Of(ap'))
  BY Msg4Does DEF MaySend
<1>2. up \in Seq(Frames) /\ down \in Seq(Frames) /\ up' \in Seq(Frames) /\ down' \in Seq(Frames)
  BY DEF TypeOK
<1>3. CASE UNCHANGED <<ap, down>>
  <2>1. Moves(up, up', {}) /\ Moves(down, down', {})
    BY <1>1, <1>2, <1>3, StayMoves, TakeMoves
  <2> QED
    BY <1>1, <1>3, <2>1, AgrKept
<1>4. CASE /\ ap.in /\ ap.WpaState >= NEGOTIATING /\ up[1].mic = ap.PTK
           /\ ap'.PTK = ap.PTK /\ ap'.PairwiseKey = ap.PTK
           /\ MaySend(down, down', Group1Of(ap'))
  <2>1. 1 \in Ups("pair4") /\ Current(up[1])
    BY <1>1, <1>2, <1>4 DEF Current
  <2>2. ap.PTK[2] \in Nat /\ nonces.sta \in Nat /\ ap.PTK[2] > 0
    BY <1>4, <2>1, Numbers DEF Ord, Msg4Order, Old
  <2>3. Downs("pair3") = {}
    <3>1. ASSUME NEW j \in Downs("pair3") PROVE FALSE
      <4>1. down[j].mic[2] \in Nat
        BY <1>2, <3>1, ChannelNumbers
      <4>2. up[1].mic[2] < down[j].mic[2] /\ Old(down[j].mic[2])
        BY <2>1, <3>1 DEF Ord, Msg4Order, Msg3Order
      <4> QED
        BY <1>4, <2>2, <4>1, <4>2 DEF Old
    <3> QED
      BY <3>1
  <2>4. /\ Downs("assocrsp") = {}
        /\ sta.link = "up" => sta.PairwiseKey = ap.PTK /\ (WPA2 => sta.PortSecured)
    BY <1>4, <2>1 DEF Agr, Msg4Agrees
  <2>5. ASSUME NEW i \in 1 .. Len(down')
        PROVE  (i \in 1 .. Len(down) /\ down'[i] = down[i]) \/ down'[i].t = "group1"
    BY <1>2, <1>4, SentAt DEF Group1Of
  <2>6. (Downs("pair3") = {})' /\ (Downs("assocrsp") = {})'
    BY <2>3, <2>4, <2>5
  <2>7. Msg3Agrees'
    BY <2>6 DEF Msg3Agrees
  <2>8. Msg4Agrees'
    BY <1>1, <1>4, <2>4, <2>6 DEF Msg4Agrees, Current
  <2>9. DoneAgrees'
    BY <1>1, <1>4, <2>2, <2>4, <2>6 DEF DoneAgrees, Done
  <2> QED
    BY <2>7, <2>8, <2>9 DEF Agr
<1> QED
  BY <1>1, <1>3, <1>4

\* The station installs the key of the message 3 it answers.
LEMMA AgrMsg3 == ASSUME TypeOK, TypeOK', Ord, Agr, PeerPairMsg3Action PROVE Agr'
<1> USE DEF Ups, Downs
<1>1. /\ Takes(down, down') /\ Len(down) >= 1 /\ down[1].t = "pair3" /\ ap' = ap
      /\ \/ UNCHANGED <<sta, up>>
         \/ /\ sta.link = "up" /\ sta'.PairwiseKey = sta.PairwiseKey /\ sta'.PortSecured = sta.PortSecured
            /\ up' = up
         \/ /\ sta.PTK = down[1].mic /\ sta'.PTK = sta.PTK /\ sta'.PairwiseKey = sta.PTK
            /\ sta'.PortSecured = (sta.PortSecured \/ WPA2) /\ MaySend(up, up', Pair4Of(sta'))
  BY StaMsg3Does DEF ApKept, StaTaken, StaAccepts
<1>2. up \in Seq(Frames) /\ down \in Seq(Frames) /\ up' \in Seq(Frames) /\ down' \in Seq(Frames)
  BY DEF TypeOK
<1>3. CASE \/ UNCHANGED <<sta, up>>
           \/ /\ sta.link = "up" /\ sta'.PairwiseKey = sta.PairwiseKey /\ sta'.PortSecured = sta.PortSecured
              /\ up' = up
  <2>1. Moves(up, up', {}) /\ Moves(down, down', {})
    BY <1>1, <1>2, <1>3, StayMoves, TakeMoves
  <2> QED
    BY <1>1, <1>3, <2>1, AgrKept
<1>4. CASE /\ sta.PTK = down[1].mic /\ sta'.PTK = sta.PTK /\ sta'.PairwiseKey = sta.PTK
           /\ sta'.PortSecured = (sta.PortSecured \/ WPA2) /\ MaySend(up, up', Pair4Of(sta'))
  <2>1. 1 \in Downs("pair3") /\ Len(down) \in Nat
    BY <1>1, <1>2
  <2>2. ap.PTK[2] \in Nat /\ down[1].mic[2] \in Nat
    BY <1>2, <2>1, Numbers, ChannelNumbers
  <2>3. ASSUME NEW i \in Downs("pair3")' PROVE i + 1 \in Downs("pair3") /\ down'[i] = down[i + 1] /\ i \in Int
    BY <1>1, <1>2, <2>3, TakenAt
  <2>4. ASSUME NEW i \in Downs("assocrsp")' PROVE i + 1 \in Downs("assocrsp") /\ i \in Int /\ i >= 1
    BY <1>1, <1>2, <2>4, TakenAt
  <2>5. Msg3Agrees'
    <3>1. ASSUME NEW i \in Downs("pair3")', Current(down[i])', NEW j \in Downs("assocrsp")' PROVE j < i
      <4>1. i + 1 \in Downs("pair3") /\ Current(down[i + 1]) /\ j + 1 \in Downs("assocrsp") /\ i \in Int /\ j \in Int
        BY <1>1, <2>3, <2>4, <3>1 DEF Current
      <4>2. j + 1 < i + 1
        BY <4>1 DEF Agr, Msg3Agrees
      <4> QED
        BY <4>1, <4>2
    <3> QED
      BY <3>1 DEF Msg3Agrees
  <2>6. Msg4Agrees'
    <3>1. ASSUME NEW i \in Ups("pair4")', Current(up[i])'
          PROVE  /\ (Downs("assocrsp") = {})'
                 /\ sta'.link = "up" => sta'.PairwiseKey = up'[i].mic /\ (WPA2 => sta'.PortSecured)
      <4>1. (i \in Ups("pair4") /\ up'[i] = up[i]) \/ up'[i].mic = down[1].mic
        <5>1. (i \in 1 .. Len(up) /\ up'[i] = up[i]) \/ up'[i] \in Pair4Of(sta')
          BY <1>2, <1>4, <3>1, SentAt
        <5> QED
          BY <1>4, <3>1, <5>1 DEF Pair4Of
      <4>2. CASE i \in Ups("pair4") /\ up'[i] = up[i]
        <5>1. up[i].mic = ap.PTK /\ up[i].mic[2] \in Nat
          BY <1>1, <1>2, <3>1, <4>2, ChannelNumbers DEF Current
        <5>2. up[i].mic[2] < down[1].mic[2] /\ Old(down[1].mic[2]) /\ Old(up[i].mic[2])
          BY <2>1, <4>2 DEF Ord, Msg4Order, Msg3Order
        <5> QED
          BY <2>2, <5>1, <5>2 DEF Old
      <4>3. CASE up'[i].mic = down[1].mic
        <5>1. Current(down[1])
          BY <1>1, <3>1, <4>3 DEF Current
        <5>2. \A j \in Downs("assocrsp") : j < 1
          BY <2>1, <5>1 DEF Agr, Msg3Agrees
        <5>3. (Downs("assocrsp") = {})'
          <6>1. ASSUME NEW j \in Downs("assocrsp")' PROVE FALSE
            BY <2>4, <5>2, <6>1
          <6> QED
            BY <6>1
        <5> QED
          BY <1>4, <4>3, <5>3
      <4> QED
        BY <4>1, <4>2, <4>3
    <3> QED
      BY <3>1 DEF Msg4Agrees
  <2>7. DoneAgrees'
    BY <1>1, <2>1 DEF Agr, DoneAgrees, Done
  <2> QED
    BY <2>5, <2>6, <2>7 DEF Agr
<1> QED
  BY <1>1, <1>3, <1>4

\* A station comes up only before the handshake that could be current.
LEMMA AgrLinkUp == ASSUME TypeOK, TypeOK', Agr, LinkUp PROVE Agr'
<1> USE DEF Ups, Downs
<1>1. /\ Takes(down, down') /\ Len(down) >= 1 /\ down[1].t = "assocrsp" /\ ap' = ap /\ up' = up
  BY LinkUpDoes DEF ApKept
<1>2. up \in Seq(Frames) /\ down \in Seq(Frames) /\ up' \in Seq(Frames) /\ down' \in Seq(Frames)
  BY DEF TypeOK
<1>3. 1 \in Downs("assocrsp")
  BY <1>1, <1>2
<1>4. ASSUME NEW i \in Downs("pair3")' PROVE i + 1 \in Downs("pair3") /\ down'[i] = down[i + 1] /\ i \in Int
  BY <1>1, <1>2, <1>4, TakenAt
<1>5. ASSUME NEW i \in Downs("assocrsp")' PROVE i + 1 \in Downs("assocrsp") /\ i \in Int
  BY <1>1, <1>2, <1>5, TakenAt
<1>6. Msg3Agrees'
  <2>1. ASSUME NEW i \in Downs("pair3")', Current(down[i])', NEW j \in Downs("assocrsp")' PROVE j < i
    <3>1. i + 1 \in Downs("pair3") /\ Current(down[i + 1]) /\ j + 1 \in Downs("assocrsp") /\ i \in Int /\ j \in Int
      BY <1>1, <1>4, <1>5, <2>1 DEF Current
    <3>2. j + 1 < i + 1
      BY <3>1 DEF Agr, Msg3Agrees
    <3> QED
      BY <3>1, <3>2
  <2> QED
    BY <2>1 DEF Msg3Agrees
<1>7. Msg4Agrees'
  BY <1>1, <1>3 DEF Agr, Msg4Agrees, Current
<1>8. DoneAgrees'
  BY <1>1, <1>3 DEF Agr, DoneAgrees, Done
<1> QED
  BY <1>6, <1>7, <1>8 DEF Agr

LEMMA AgrMlme ==
    ASSUME TypeOK, TypeOK', Agr,
           ApAssoc \/ ApDisassoc \/ WpaEAPOLStartAction \/ PeerGroupMsg2Action
    PROVE  Agr'
<1>1. up \in Seq(Frames) /\ down \in Seq(Frames) /\ up' \in Seq(Frames) /\ down' \in Seq(Frames)
  BY DEF TypeOK
<1>2. CASE ApAssoc
  BY <1>2, ApAssocDoes, AgrReset
<1>3. CASE ApDisassoc
  BY <1>3, ApDisassocDoes, NoEntryDoes, AgrReset
<1>4. CASE WpaEAPOLStartAction
  <2>1. \/ ~(ap'.in /\ ap'.WpaState >= NEGOTIATING)
        \/ UNCHANGED <<ap, down, sta, up>>
    BY <1>4, StartDoes
  <2>2. CASE UNCHANGED <<ap, down, sta, up>>
    <3>1. Moves(up, up', {}) /\ Moves(down, down', {})
      BY <1>1, <2>2, StayMoves
    <3> QED
      BY <2>2, <3>1, AgrKept
  <2> QED
    BY <2>1, <2>2, AgrReset
<1>5. CASE PeerGroupMsg2Action
  <2>1. /\ Takes(up, up') /\ UNCHANGED <<sta, down>>
        /\ ap' = ap \/ (ap.in /\ SameEntry(ap', ap))
    BY <1>5, Group2Does
  <2>2. Moves(up, up', {}) /\ Moves(down, down', {})
    BY <1>1, <2>1, StayMoves, TakeMoves
  <2> QED
    BY <2>1, <2>2, AgrKept DEF SameEntry
<1> QED
  BY <1>2, <1>3, <1>4, <1>5

LEMMA AgrTimers == ASSUME TypeOK, TypeOK', Agr, ApTimers PROVE Agr'
<1> DEFINE G == {f \in Frames : f.t \in {"deauth", "pair1", "group1"}}
<1>1. up \in Seq(Frames) /\ down \in Seq(Frames) /\ up' \in Seq(Frames) /\ down' \in Seq(Frames)
  BY DEF TypeOK
<1>2. /\ up' = up /\ sta' = sta
      /\ \/ /\ ap'.PTK = ap.PTK /\ ap'.in = ap.in /\ ap'.PairwiseKey = ap.PairwiseKey
            /\ ap'.WpaState \in {ap.WpaState, PTKSTART}
         \/ ap' = NoEntry
      /\ Moves(down, down', G)
  BY TimersMove
<1>3. Moves(up, up', {}) /\ \A g \in G : g.t \notin {"assocrsp", "pair3"}
  BY <1>1, <1>2, StayMoves
<1> HIDE DEF G
<1>4. ap'.in /\ ap'.WpaState >= NEGOTIATING =>
        /\ ap.in /\ ap'.WpaState = ap.WpaState
        /\ ap'.PTK = ap.PTK /\ ap'.PairwiseKey = ap.PairwiseKey
  <2>1. CASE ap' = NoEntry
    BY <2>1, NoEntryDoes
  <2>2. CASE ap'.WpaState = PTKSTART
    BY <2>2
  <2> QED
    BY <1>2, <2>1, <2>2
<1> QED
  BY <1>2, <1>3, <1>4, AgrKept

LEMMA AgrStation ==
    ASSUME TypeOK, TypeOK', Agr,
           \/ Join \/ JoinTimeout \/ Leave \/ PeerDeauth
           \/ PeerPairMsg1Action \/ PeerGroupMsg1Action
    PROVE  Agr'
<1> DEFINE F == {f \in Frames : f.t # "pair4"}
<1>1. up \in Seq(Frames) /\ down \in Seq(Frames) /\ up' \in Seq(Frames) /\ down' \in Seq(Frames)
  BY DEF TypeOK
<1>2. /\ OfType({"assocreq"}) \subseteq F /\ OfType({"disassoc"}) \subseteq F
      /\ Pair2Of(sta') \subseteq F /\ Group2Of(sta') \subseteq F /\ \A f \in F : f.t # "pair4"
  BY DEF OfType, Pair2Of, Group2Of
<1> HIDE DEF F
<1>3. ASSUME ap' = ap, Moves(up, up', F), Moves(down, down', {}),
             sta'.link = "up" =>
               /\ sta.link = "up" /\ sta'.PairwiseKey = sta.PairwiseKey
               /\ sta.PortSecured => sta'.PortSecured
      PROVE  Agr'
  BY <1>2, <1>3, AgrKept
<1>4. CASE Join
  <2>1. ap' = ap /\ sta'.link = "joining" /\ MaySend(up, up', OfType({"assocreq"})) /\ down' = down
    BY <1>4, JoinDoes DEF ApKept
  <2>2. Moves(up, up', F) /\ Moves(down, down', {})
    BY <1>1, <1>2, <2>1, StayMoves, SendMoves, MovesMore
  <2> QED
    BY <1>3, <2>1, <2>2
<1>5. CASE JoinTimeout
  <2>1. ap' = ap /\ sta'.link = "down" /\ up' = up /\ down' = down
    BY <1>5, JoinTimeoutDoes DEF ApKept
  <2>2. Moves(up, up', F) /\ Moves(down, down', {})
    BY <1>1, <2>1, StayMoves
  <2> QED
    BY <1>3, <2>1, <2>2
<1>6. CASE Leave
  <2>1. ap' = ap /\ sta'.link = "down" /\ MaySend(up, up', OfType({"disassoc"})) /\ down' = down
    BY <1>6, LeaveDoes DEF ApKept
  <2>2. Moves(up, up', F) /\ Moves(down, down', {})
    BY <1>1, <1>2, <2>1, StayMoves, SendMoves, MovesMore
  <2> QED
    BY <1>3, <2>1, <2>2
<1>7. CASE PeerDeauth
  <2>1. ap' = ap /\ (sta' = sta \/ sta'.link = "down") /\ up' = up /\ Takes(down, down')
    BY <1>7, PeerDeauthDoes DEF ApKept
  <2>2. Moves(up, up', F) /\ Moves(down, down', {})
    BY <1>1, <2>1, StayMoves, TakeMoves
  <2> QED
    BY <1>3, <2>1, <2>2
<1>8. CASE PeerPairMsg1Action
  <2>1. /\ ap' = ap /\ Takes(down, down')
        /\ \/ sta' = sta /\ up' = up
           \/ /\ sta.link = "up" /\ sta'.PairwiseKey = sta.PairwiseKey /\ sta'.PortSecured = sta.PortSecured
              /\ MaySend(up, up', Pair2Of(sta'))
    BY <1>8, StaMsg1Does DEF ApKept, StaAccepts
  <2>2. Moves(up, up', F) /\ Moves(down, down', {})
    BY <1>1, <1>2, <2>1, StayMoves, TakeMoves, SendMoves, MovesMore
  <2> QED
    BY <1>3, <2>1, <2>2
<1>9. CASE PeerGroupMsg1Action
  <2>1. /\ ap' = ap /\ Takes(down, down')
        /\ \/ sta' = sta /\ up' = up
           \/ /\ sta.link = "up" /\ sta'.PairwiseKey = sta.PairwiseKey
              /\ \/ sta'.PortSecured /\ MaySend(up, up', Group2Of(sta'))
                 \/ sta'.PortSecured = sta.PortSecured /\ up' = up
    BY <1>9, StaGroup1Does DEF ApKept, StaTaken, StaAccepts
  <2>2. Moves(up, up', F) /\ Moves(down, down', {})
    BY <1>1, <1>2, <2>1, StayMoves, TakeMoves, SendMoves, MovesMore
  <2> QED
    BY <1>3, <2>1, <2>2
<1> QED
  BY <1>4, <1>5, <1>6, <1>7, <1>8, <1>9

LEMMA AgrStep == ASSUME TypeOK, TypeOK', Ord, Agr, [Next]_vars PROVE Agr'
<1>1. CASE ApMlme
  BY <1>1, AgrMlme, AgrCheck, AgrAnswer, AgrMsg4 DEF ApMlme
<1>2. CASE ApTimers
  BY <1>2, AgrTimers
<1>3. CASE Station
  BY <1>3, AgrStation, AgrLinkUp, AgrMsg3 DEF Station
<1>4. CASE UNCHANGED vars
  BY <1>4 DEF vars, apVars, Agr, Msg3Agrees, Msg4Agrees, DoneAgrees, Current, Done, Ups, Downs
<1> QED
  BY <1>1, <1>2, <1>3, <1>4 DEF Next

LEMMA InitOrdAgr == Init => Ord /\ Agr
<1> SUFFICES ASSUME Init PROVE Ord /\ Agr
  OBVIOUS
<1>1. /\ \A t : Ups(t) = {} /\ Downs(t) = {}
      /\ ap = NoEntry /\ sta.PTK = NoKey /\ nonces.sta = 0
  BY DEF Init, Ups, Downs, StaDown
<1>2. Ord
  BY <1>1, NoEntryDoes, NoKeyDoes DEF Ord, KeyOrder, Msg2Order, Msg3Order, Msg4Order
<1>3. Agr
  BY <1>1, NoEntryDoes DEF Agr, Msg3Agrees, Msg4Agrees, DoneAgrees, Done
<1> QED
  BY <1>2, <1>3

\* When the access point's handshake is done and the station has not left, both have
\* the same pairwise key installed (PeerPairMsg4Action), for any number of stations'
\* associations, retries and group keys, any allocation failing, and the handlers of
\* the timer thread crossing everything (no assumption on Prompt).
THEOREM KeysAlwaysAgree == Spec => []KeysAgree
<1> DEFINE Inv == IInv /\ Ord /\ Agr
<1>1. Init => Inv
  BY InitIInv, InitOrdAgr
<1>2. Inv /\ [Next]_vars => Inv'
  BY NextIInv, OrdStep, AgrStep DEF IInv
<1>3. Inv => KeysAgree
  BY NoKeyDoes DEF KeysAgree, Agr, DoneAgrees, Done
<1> HIDE DEF Inv
<1> QED
  BY <1>1, <1>2, <1>3, PTL DEF Spec

-----------------------------------------------------------------------------
(* The station's port is open before the access point can take its keys    *)
(* for established: message 4 opens it in WPA2, group message 2 in WPA.    *)

EstablishedOpen ==
    ap.in /\ ap.Established => Downs("assocrsp") = {} /\ (sta.link = "up" => sta.PortSecured)
Group2BehindMsg4 ==
    \A i \in Ups("pair4"), j \in Ups("group2") :
        i < j /\ Current(up[i]) /\ sta.link = "up" => sta.PortSecured
Group2Open == \A j \in Ups("group2") : Done /\ sta.link = "up" => sta.PortSecured

Own == EstablishedOpen /\ Group2BehindMsg4 /\ Group2Open

LEMMA OwnKept ==
    ASSUME TypeOK, TypeOK', Own, NEW F, NEW G,
           ap'.in /\ ap'.Established => ap.in /\ ap.Established,
           ap'.in /\ ap'.WpaState >= NEGOTIATING =>
               ap.in /\ ap'.WpaState = ap.WpaState /\ ap'.PTK = ap.PTK,
           sta'.link = "up" => sta.link = "up" /\ (sta.PortSecured => sta'.PortSecured),
           Moves(up, up', F), \A f \in F : f.t # "group2",
           Moves(down, down', G), \A g \in G : g.t # "assocrsp"
    PROVE  Own'
<1> USE DEF Ups, Downs
<1>1. PICK k \in {0, 1} : \A i \in 1 .. Len(up') :
        \/ i + k <= Len(up) /\ up'[i] = up[i + k]
        \/ i = Len(up') /\ i + k > Len(up) /\ up'[i] \in F
  BY DEF Moves
<1>2. PICK l \in {0, 1} : \A i \in 1 .. Len(down') :
        \/ i + l <= Len(down) /\ down'[i] = down[i + l]
        \/ i = Len(down') /\ i + l > Len(down) /\ down'[i] \in G
  BY DEF Moves
<1>3. Len(up') \in Nat /\ Len(down') \in Nat
  BY DEF TypeOK
<1>4. ASSUME NEW j \in Ups("group2")' PROVE j + k \in Ups("group2") /\ j \in 1 .. Len(up')
  BY <1>1, <1>4
<1>5. EstablishedOpen'
  <2>1. ASSUME NEW i \in Downs("assocrsp")' PROVE i + l \in Downs("assocrsp")
    BY <1>2, <2>1
  <2>2. Downs("assocrsp") = {} => (Downs("assocrsp") = {})'
    BY <2>1
  <2> QED
    BY <2>2 DEF Own, EstablishedOpen
<1>6. Group2BehindMsg4'
  <2>1. ASSUME NEW i \in Ups("pair4")', NEW j \in Ups("group2")', i < j, Current(up[i])', sta'.link = "up"
        PROVE  sta'.PortSecured
    <3>1. j + k \in Ups("group2") /\ i \in Int /\ j \in Int /\ i < Len(up')
      BY <1>3, <1>4, <2>1
    <3>2. i + k \in Ups("pair4") /\ up'[i] = up[i + k]
      BY <1>1, <2>1, <3>1
    <3>3. Current(up[i + k]) /\ i + k < j + k
      BY <2>1, <3>1, <3>2 DEF Current
    <3> QED
      BY <2>1, <3>1, <3>2, <3>3 DEF Own, Group2BehindMsg4
  <2> QED
    BY <2>1 DEF Group2BehindMsg4
<1>7. Group2Open'
  <2>1. Done' => Done
    BY DEF Done
  <2> QED
    BY <1>4, <2>1 DEF Own, Group2Open
<1> QED
  BY <1>5, <1>6, <1>7 DEF Own

LEMMA OwnReset ==
    ASSUME ~(ap'.in /\ ap'.WpaState >= NEGOTIATING), ~ap'.Established PROVE Own'
BY DEF Own, EstablishedOpen, Group2BehindMsg4, Group2Open, Current, Done

LEMMA OwnCheck == ASSUME TypeOK, TypeOK', Ord, Own, PeerPairMsg2Check PROVE Own'
<1> USE DEF Ups, Downs
<1>1. /\ Takes(up, up') /\ Len(up) >= 1 /\ up[1].t = "pair2"
      /\ \/ ap' = ap
         \/ /\ ap.in /\ ap'.in /\ ap'.PTK = <<ap.ANonce, up[1].nonce>> /\ ap'.WpaState = ap.WpaState
            /\ ap'.Established = ap.Established
      /\ down' = down /\ sta' = sta
  BY CheckDoes
<1>2. up \in Seq(Frames) /\ down \in Seq(Frames) /\ up' \in Seq(Frames) /\ down' \in Seq(Frames)
  BY DEF TypeOK
<1>3. CASE ap' = ap
  <2>1. Moves(up, up', {}) /\ Moves(down, down', {})
    BY <1>1, <1>2, StayMoves, TakeMoves
  <2> QED
    BY <1>1, <1>3, <2>1, OwnKept
<1>4. CASE /\ ap.in /\ ap'.in /\ ap'.PTK = <<ap.ANonce, up[1].nonce>> /\ ap'.WpaState = ap.WpaState
           /\ ap'.Established = ap.Established
  <2> DEFINE k == up[1].nonce
  <2>1. 1 \in Ups("pair2") /\ k \in Nat /\ ap'.PTK[2] = k
    BY <1>1, <1>2, <1>4, ChannelNumbers
  <2>2. ASSUME NEW i \in Ups("pair4") PROVE up[i].mic[2] < k
    BY <2>1, <2>2 DEF Ord, Msg4Order, Old
  <2> HIDE DEF k
  <2>3. EstablishedOpen'
    BY <1>1, <1>4 DEF Own, EstablishedOpen
  <2>4. Group2BehindMsg4'
    <3>1. ASSUME NEW i \in Ups("pair4")' PROVE ~Current(up[i])'
      <4>1. i + 1 \in Ups("pair4") /\ up'[i] = up[i + 1]
        BY <1>1, <1>2, <3>1, TakenAt
      <4>2. up'[i].mic[2] < k
        BY <2>2, <4>1
      <4> QED
        BY <2>1, <4>2 DEF Current
    <3> QED
      BY <3>1 DEF Group2BehindMsg4
  <2>5. Group2Open'
    <3>1. ASSUME NEW j \in Ups("group2")' PROVE j + 1 \in Ups("group2")
      BY <1>1, <1>2, <3>1, TakenAt
    <3>2. Done' => Done
      BY <1>4 DEF Done
    <3> QED
      BY <1>1, <3>1, <3>2 DEF Own, Group2Open
  <2> QED
    BY <2>3, <2>4, <2>5 DEF Own
<1> QED
  BY <1>1, <1>3, <1>4

LEMMA OwnAnswer == ASSUME TypeOK, TypeOK', Ord, Own, PeerPairMsg2Answer PROVE Own'
<1> USE DEF Ups, Downs
<1>1. /\ mlmePc = "answer" /\ up' = up /\ sta' = sta
      /\ \/ /\ ap.in /\ ap'.PTK = ap.PTK /\ ap'.WpaState = NEGOTIATING /\ ap'.Established = ap.Established
            /\ MaySend(down, down', Pair3Of(ap'))
         \/ UNCHANGED <<ap, down>>
  BY AnswerDoes
<1>2. up \in Seq(Frames) /\ down \in Seq(Frames) /\ down' \in Seq(Frames)
  BY DEF TypeOK
<1>3. CASE UNCHANGED <<ap, down>>
  BY <1>1, <1>3 DEF Own, EstablishedOpen, Group2BehindMsg4, Group2Open, Current, Done
<1>4. CASE /\ ap.in /\ ap'.PTK = ap.PTK /\ ap'.WpaState = NEGOTIATING /\ ap'.Established = ap.Established
           /\ MaySend(down, down', Pair3Of(ap'))
  <2>1. ASSUME NEW i \in Ups("pair4") PROVE up[i].mic # ap.PTK
    <3>1. up[i].mic[2] < ap.PTK[2] /\ up[i].mic[2] \in Nat /\ ap.PTK[2] \in Nat
      BY <1>1, <1>2, <1>4, <2>1, ChannelNumbers, Numbers DEF Ord, Msg4Order, Old
    <3> QED
      BY <3>1
  <2>2. EstablishedOpen'
    <3>1. ASSUME NEW i \in Downs("assocrsp")' PROVE i \in Downs("assocrsp")
      <4>1. (i \in 1 .. Len(down) /\ down'[i] = down[i]) \/ down'[i] \in Pair3Of(ap')
        BY <1>2, <1>4, <3>1, SentAt
      <4> QED
        BY <3>1, <4>1 DEF Pair3Of
    <3>2. Downs("assocrsp") = {} => (Downs("assocrsp") = {})'
      BY <3>1
    <3> QED
      BY <1>1, <1>4, <3>2 DEF Own, EstablishedOpen
  <2>3. Group2BehindMsg4'
    BY <1>1, <1>4, <2>1 DEF Group2BehindMsg4, Current
  <2>4. Group2Open'
    BY <1>4 DEF Group2Open, Done
  <2> QED
    BY <2>2, <2>3, <2>4 DEF Own
<1> QED
  BY <1>1, <1>3, <1>4

LEMMA OwnMsg4 == ASSUME TypeOK, TypeOK', Agr, Own, PeerPairMsg4Action PROVE Own'
<1> USE DEF Ups, Downs
<1>1. /\ Takes(up, up') /\ Len(up) >= 1 /\ up[1].t = "pair4" /\ sta' = sta
      /\ \/ UNCHANGED <<ap, down>>
         \/ /\ ap.in /\ ap.WpaState >= NEGOTIATING /\ up[1].mic = ap.PTK /\ ap'.PTK = ap.PTK
            /\ WPA2 \/ ap'.Established = ap.Established
            /\ MaySend(down, down', Group1Of(ap'))
  BY Msg4Does DEF MaySend
<1>2. up \in Seq(Frames) /\ down \in Seq(Frames) /\ up' \in Seq(Frames) /\ down' \in Seq(Frames)
  BY DEF TypeOK
<1>3. CASE UNCHANGED <<ap, down>>
  <2>1. Moves(up, up', {}) /\ Moves(down, down', {})
    BY <1>1, <1>2, <1>3, StayMoves, TakeMoves
  <2> QED
    BY <1>1, <1>3, <2>1, OwnKept
<1>4. CASE /\ ap.in /\ ap.WpaState >= NEGOTIATING /\ up[1].mic = ap.PTK /\ ap'.PTK = ap.PTK
           /\ WPA2 \/ ap'.Established = ap.Established
           /\ MaySend(down, down', Group1Of(ap'))
  <2>1. 1 \in Ups("pair4") /\ Current(up[1])
    BY <1>1, <1>2, <1>4 DEF Current
  <2>2. Downs("assocrsp") = {} /\ (sta.link = "up" => (WPA2 => sta.PortSecured))
    BY <2>1 DEF Agr, Msg4Agrees
  <2>3. EstablishedOpen'
    <3>1. ASSUME NEW i \in Downs("assocrsp")' PROVE i \in Downs("assocrsp")
      <4>1. (i \in 1 .. Len(down) /\ down'[i] = down[i]) \/ down'[i] \in Group1Of(ap')
        BY <1>2, <1>4, <3>1, SentAt
      <4> QED
        BY <3>1, <4>1 DEF Group1Of
    <3>2. (Downs("assocrsp") = {})'
      BY <2>2, <3>1
    <3> QED
      BY <1>1, <1>4, <2>2, <3>2 DEF Own, EstablishedOpen
  <2>4. ASSUME NEW i \in 1 .. Len(up') PROVE i + 1 \in 1 .. Len(up) /\ up'[i] = up[i + 1] /\ i \in Nat /\ i >= 1
    BY <1>1, <1>2, <2>4, TakenAt
  <2>5. Group2BehindMsg4'
    <3>1. ASSUME NEW i \in Ups("pair4")', NEW j \in Ups("group2")', i < j, Current(up[i])', sta'.link = "up"
          PROVE  sta'.PortSecured
      <4>1. i + 1 \in Ups("pair4") /\ j + 1 \in Ups("group2") /\ i + 1 < j + 1
        BY <2>4, <3>1
      <4>2. Current(up[i + 1])
        BY <1>4, <2>4, <3>1 DEF Current
      <4> QED
        BY <1>1, <3>1, <4>1, <4>2 DEF Own, Group2BehindMsg4
    <3> QED
      BY <3>1 DEF Group2BehindMsg4
  <2>6. Group2Open'
    <3>1. ASSUME NEW j \in Ups("group2")' PROVE j + 1 \in Ups("group2") /\ 1 < j + 1
      BY <2>4, <3>1
    <3>2. ASSUME NEW j \in Ups("group2")', sta.link = "up" PROVE sta.PortSecured
      BY <2>1, <3>1, <3>2 DEF Own, Group2BehindMsg4
    <3> QED
      BY <1>1, <3>2 DEF Group2Open
  <2> QED
    BY <2>3, <2>5, <2>6 DEF Own
<1> QED
  BY <1>1, <1>3, <1>4

LEMMA OwnGroup2 == ASSUME TypeOK, TypeOK', Agr, Own, PeerGroupMsg2Action PROVE Own'
<1> USE DEF Ups, Downs
<1>1. /\ Takes(up, up') /\ Len(up) >= 1 /\ up[1].t = "group2" /\ sta' = sta /\ down' = down
      /\ ap' = ap \/ (ap.in /\ ap.WpaState = DONE /\ SameEntry(ap', ap))
  BY Group2Does
<1>2. up \in Seq(Frames) /\ down \in Seq(Frames) /\ up' \in Seq(Frames) /\ down' \in Seq(Frames)
  BY DEF TypeOK
<1>3. CASE ap' = ap
  <2>1. Moves(up, up', {}) /\ Moves(down, down', {})
    BY <1>1, <1>2, StayMoves, TakeMoves
  <2> QED
    BY <1>1, <1>3, <2>1, OwnKept
<1>4. CASE ap.in /\ ap.WpaState = DONE /\ SameEntry(ap', ap)
  <2>1. 1 \in Ups("group2") /\ Done
    BY <1>1, <1>2, <1>4 DEF Done
  <2>2. Downs("assocrsp") = {} /\ (sta.link = "up" => sta.PortSecured)
    BY <2>1 DEF Agr, DoneAgrees, Own, Group2Open
  <2> QED
    BY <1>1, <2>2 DEF Own, EstablishedOpen, Group2BehindMsg4, Group2Open
<1> QED
  BY <1>1, <1>3, <1>4

LEMMA OwnMlme == ASSUME TypeOK, TypeOK', Own, ApAssoc \/ ApDisassoc \/ WpaEAPOLStartAction PROVE Own'
<1>1. up \in Seq(Frames) /\ down \in Seq(Frames) /\ up' \in Seq(Frames) /\ down' \in Seq(Frames)
  BY DEF TypeOK
<1>2. CASE ApAssoc
  BY <1>2, ApAssocDoes, OwnReset
<1>3. CASE ApDisassoc
  BY <1>3, ApDisassocDoes, NoEntryDoes, OwnReset
<1>4. CASE WpaEAPOLStartAction
  <2>1. /\ sta' = sta /\ up' = up
        /\ \/ /\ ap.in /\ ap'.WpaState < NEGOTIATING /\ ap'.Established = ap.Established
              /\ MaySend(down, down', Pair1Of(ap'))
           \/ UNCHANGED <<ap, down>>
    BY <1>4, StartDoes
  <2>2. CASE UNCHANGED <<ap, down>>
    <3>1. Moves(up, up', {}) /\ Moves(down, down', {})
      BY <1>1, <2>1, <2>2, StayMoves
    <3> QED
      BY <2>1, <2>2, <3>1, OwnKept
  <2>3. CASE /\ ap.in /\ ap'.WpaState < NEGOTIATING /\ ap'.Established = ap.Established
             /\ MaySend(down, down', Pair1Of(ap'))
    <3>1. Moves(up, up', {}) /\ Moves(down, down', Pair1Of(ap'))
      BY <1>1, <2>1, <2>3, StayMoves, SendMoves
    <3>2. \A g \in Pair1Of(ap') : g.t # "assocrsp"
      BY DEF Pair1Of
    <3>3. ~(ap'.WpaState >= NEGOTIATING)
      <4>1. ap'.WpaState \in 0 .. 10
        BY DEF TypeOK, Entries
      <4> QED
        BY <2>3, <4>1
    <3> QED
      BY <2>1, <2>3, <3>1, <3>2, <3>3, OwnKept
  <2> QED
    BY <2>1, <2>2, <2>3
<1> QED
  BY <1>2, <1>3, <1>4

LEMMA OwnTimers == ASSUME TypeOK, TypeOK', Own, ApTimers PROVE Own'
<1> DEFINE G == {f \in Frames : f.t \in {"deauth", "pair1", "group1"}}
<1>1. up \in Seq(Frames) /\ down \in Seq(Frames) /\ up' \in Seq(Frames) /\ down' \in Seq(Frames)
  BY DEF TypeOK
<1>2. /\ up' = up /\ sta' = sta
      /\ \/ /\ ap'.PTK = ap.PTK /\ ap'.in = ap.in
            /\ ap'.WpaState \in {ap.WpaState, PTKSTART}
            /\ ap'.Established => ap.Established
         \/ ap' = NoEntry
      /\ Moves(down, down', G)
  BY TimersMove
<1>3. Moves(up, up', {}) /\ \A g \in G : g.t # "assocrsp"
  BY <1>1, <1>2, StayMoves
<1> HIDE DEF G
<1>4. ap'.in /\ ap'.WpaState >= NEGOTIATING =>
        ap.in /\ ap'.WpaState = ap.WpaState /\ ap'.PTK = ap.PTK
  <2>1. CASE ap' = NoEntry
    BY <2>1, NoEntryDoes
  <2>2. CASE ap'.WpaState = PTKSTART
    BY <2>2
  <2> QED
    BY <1>2, <2>1, <2>2
<1>5. ap'.in /\ ap'.Established => ap.in /\ ap.Established
  BY <1>2, NoEntryDoes
<1> QED
  BY <1>2, <1>3, <1>4, <1>5, OwnKept

LEMMA OwnStation == ASSUME TypeOK, TypeOK', Agr, Own, Station PROVE Own'
<1> DEFINE F == {f \in Frames : f.t # "group2"}
<1>1. up \in Seq(Frames) /\ down \in Seq(Frames) /\ up' \in Seq(Frames) /\ down' \in Seq(Frames)
  BY DEF TypeOK
<1>2. /\ OfType({"assocreq"}) \subseteq F /\ OfType({"disassoc"}) \subseteq F
      /\ Pair2Of(sta') \subseteq F /\ Pair4Of(sta') \subseteq F /\ \A f \in F : f.t # "group2"
  BY DEF OfType, Pair2Of, Pair4Of
<1> HIDE DEF F
<1>3. ASSUME ap' = ap, Moves(up, up', F), Moves(down, down', {}),
             sta'.link = "up" => sta.link = "up" /\ (sta.PortSecured => sta'.PortSecured)
      PROVE  Own'
  BY <1>2, <1>3, OwnKept
<1>4. CASE Join
  <2>1. ap' = ap /\ sta'.link = "joining" /\ MaySend(up, up', OfType({"assocreq"})) /\ down' = down
    BY <1>4, JoinDoes DEF ApKept
  <2>2. Moves(up, up', F) /\ Moves(down, down', {})
    BY <1>1, <1>2, <2>1, StayMoves, SendMoves, MovesMore
  <2> QED
    BY <1>3, <2>1, <2>2
<1>5. CASE JoinTimeout
  <2>1. ap' = ap /\ sta'.link = "down" /\ up' = up /\ down' = down
    BY <1>5, JoinTimeoutDoes DEF ApKept
  <2>2. Moves(up, up', F) /\ Moves(down, down', {})
    BY <1>1, <2>1, StayMoves
  <2> QED
    BY <1>3, <2>1, <2>2
<1>6. CASE Leave
  <2>1. ap' = ap /\ sta'.link = "down" /\ MaySend(up, up', OfType({"disassoc"})) /\ down' = down
    BY <1>6, LeaveDoes DEF ApKept
  <2>2. Moves(up, up', F) /\ Moves(down, down', {})
    BY <1>1, <1>2, <2>1, StayMoves, SendMoves, MovesMore
  <2> QED
    BY <1>3, <2>1, <2>2
<1>7. CASE PeerDeauth
  <2>1. ap' = ap /\ (sta' = sta \/ sta'.link = "down") /\ up' = up /\ Takes(down, down')
    BY <1>7, PeerDeauthDoes DEF ApKept
  <2>2. Moves(up, up', F) /\ Moves(down, down', {})
    BY <1>1, <2>1, StayMoves, TakeMoves
  <2> QED
    BY <1>3, <2>1, <2>2
<1>8. CASE PeerPairMsg1Action
  <2>1. /\ ap' = ap /\ Takes(down, down')
        /\ \/ sta' = sta /\ up' = up
           \/ /\ sta.link = "up" /\ sta'.PortSecured = sta.PortSecured
              /\ MaySend(up, up', Pair2Of(sta'))
    BY <1>8, StaMsg1Does DEF ApKept, StaAccepts
  <2>2. Moves(up, up', F) /\ Moves(down, down', {})
    BY <1>1, <1>2, <2>1, StayMoves, TakeMoves, SendMoves, MovesMore
  <2> QED
    BY <1>3, <2>1, <2>2
<1>9. CASE PeerPairMsg3Action
  <2>1. /\ ap' = ap /\ Takes(down, down')
        /\ \/ sta' = sta /\ up' = up
           \/ /\ sta.link = "up" /\ (sta.PortSecured => sta'.PortSecured)
              /\ up' = up \/ MaySend(up, up', Pair4Of(sta'))
    BY <1>9, StaMsg3Does DEF ApKept, StaTaken, StaAccepts
  <2>2. Moves(up, up', F) /\ Moves(down, down', {})
    BY <1>1, <1>2, <2>1, StayMoves, TakeMoves, SendMoves, MovesMore
  <2> QED
    BY <1>3, <2>1, <2>2
<1>10. ASSUME NEW i \in Downs("assocrsp")', Takes(down, down') PROVE Downs("assocrsp") # {}
  BY <1>1, <1>10, TakenAt DEF Downs
<1>11. CASE PeerGroupMsg1Action
  <2>1. /\ ap' = ap /\ Takes(down, down')
        /\ \/ sta' = sta /\ up' = up
           \/ /\ sta.link = "up"
              /\ sta'.PortSecured \/ (sta'.PortSecured = sta.PortSecured /\ up' = up)
    BY <1>11, StaGroup1Does DEF ApKept, StaTaken, StaAccepts
  <2>2. CASE sta'.PortSecured
    <3>1. Downs("assocrsp") = {} => (Downs("assocrsp") = {})'
      BY <1>10, <2>1
    <3> QED
      BY <2>1, <2>2, <3>1 DEF Own, EstablishedOpen, Group2BehindMsg4, Group2Open
  <2>3. CASE up' = up /\ (sta' = sta \/ (sta.link = "up" /\ sta'.PortSecured = sta.PortSecured))
    <3>1. Moves(up, up', F) /\ Moves(down, down', {})
      BY <1>1, <2>1, <2>3, StayMoves, TakeMoves
    <3> QED
      BY <1>3, <2>1, <2>3, <3>1
  <2> QED
    BY <2>1, <2>2, <2>3
<1>12. CASE LinkUp
  <2>1. /\ Takes(down, down') /\ 1 \in Downs("assocrsp") /\ ap' = ap /\ up' = up
    BY <1>1, <1>12, LinkUpDoes DEF ApKept, Downs
  <2>2. ~(ap.in /\ ap.Established) /\ ~Done /\ \A i \in Ups("pair4") : ~Current(up[i])
    BY <2>1 DEF Own, EstablishedOpen, Agr, DoneAgrees, Msg4Agrees
  <2> QED
    BY <2>1, <2>2 DEF Own, EstablishedOpen, Group2BehindMsg4, Group2Open, Ups, Current, Done
<1> QED
  BY <1>4, <1>5, <1>6, <1>7, <1>8, <1>9, <1>11, <1>12 DEF Station

LEMMA OwnStep == ASSUME TypeOK, TypeOK', Ord, Agr, Own, [Next]_vars PROVE Own'
<1>1. CASE ApMlme
  BY <1>1, OwnMlme, OwnCheck, OwnAnswer, OwnMsg4, OwnGroup2 DEF ApMlme
<1>2. CASE ApTimers
  BY <1>2, OwnTimers
<1>3. CASE Station
  BY <1>3, OwnStation
<1>4. CASE UNCHANGED vars
  BY <1>4 DEF vars, apVars, Own, EstablishedOpen, Group2BehindMsg4, Group2Open, Current, Done, Ups, Downs
<1> QED
  BY <1>1, <1>2, <1>3, <1>4 DEF Next

-----------------------------------------------------------------------------
(* What PortOpensOnKeys rests on: until a retry sends the group message    *)
(* into another handshake, every group message is encrypted.               *)

LEMMA RetryDoesWhat ==
    ASSUME NEW n \in Nat
    PROVE  /\ RetryDoes(n) \in {"deauth", "group", "start"}
           /\ RetryDoes(n) = "group" => n = GROUP_RETRY + 1
           /\ RetryDoes(n) = "start" => n <= MSG1_RETRY + 3
BY DEF RetryDoes

LEMMA StationKeepsAp == ASSUME TypeOK, Station PROVE ApKept
BY JoinDoes, JoinTimeoutDoes, LinkUpDoes, LeaveDoes, PeerDeauthDoes, StaMsg1Does, StaMsg3Does,
   StaGroup1Does DEF Station

LEMMA MlmeKeepsSta == ASSUME TypeOK, ApMlme PROVE sta' = sta /\ nonces'.sta = nonces.sta
BY ApAssocDoes, ApDisassocDoes, StartDoes, CheckDoes, AnswerDoes, Msg4Does, Group2Does DEF ApMlme

\* The frames that bring the group key: a group message comes encrypted.
GroupFrame(f) ==
    /\ f.t = "group1" => f.gtk > 0 /\ f.enc # NoKey
    /\ WPA2 /\ f.t = "pair3" => f.gtk > 0

GroupFrames == \A i \in 1 .. Len(down) : GroupFrame(down[i])

Crossed == "crossed" \in marks

\* No retry that has crossed is undone.
LEMMA CrossedStays == ASSUME Crossed, [Next]_vars PROVE Crossed'
<1> USE DEF Crossed
<1>1. CASE ApAssoc
  <2>1. marks' = marks \cup {"lost"} \/ marks' = marks \ {"lost"}
    BY <1>1 DEF ApAssoc
  <2> QED
    BY <2>1
<1>2. CASE StartClear \/ RetryGroup
  <2>1. marks \subseteq marks'
    BY <1>2 DEF StartClear, RetryGroup
  <2> QED
    BY <2>1
<1>3. CASE ApMlme /\ ~ApAssoc
  BY <1>3 DEF ApMlme, ApDisassoc, WpaEAPOLStartAction, PeerPairMsg2Check, PeerPairMsg2Answer,
              PeerPairMsg4Action, PeerGroupMsg2Action
<1>4. CASE ApTimers /\ ~StartClear /\ ~RetryGroup
  BY <1>4 DEF ApTimers, EnqueueStartForPSKExec, StartEnqueue, WPARetryExec, RetryDeauth, RetryTest,
              RetrySend, NewGTK, RekeyStations, CountDown
<1>5. CASE Station
  BY <1>5 DEF Station, Join, JoinTimeout, LinkUp, Leave, PeerDeauth, PeerPairMsg1Action,
              PeerPairMsg3Action, PeerGroupMsg1Action
<1>6. CASE UNCHANGED vars
  BY <1>6 DEF vars
<1> QED
  BY <1>1, <1>2, <1>3, <1>4, <1>5, <1>6 DEF Next

\* Group message 1 of an entry with a key.
LEMMA Group1OfEntry ==
    ASSUME TypeOK, NEW e, e.PairwiseKey # NoKey PROVE \A g \in Group1Of(e) : GroupFrame(g)
BY Numbers DEF Group1Of, GroupFrame

LEMMA GroupFramesStep ==
    ASSUME TypeOK, TypeOK', Ord, Agr, GroupFrames, ~Crossed', [Next]_vars PROVE GroupFrames'
<1>1. down \in Seq(Frames) /\ down' \in Seq(Frames)
  BY DEF TypeOK
<1>2. ASSUME NEW G, Moves(down, down', G), \A g \in G : GroupFrame(g) PROVE GroupFrames'
  <2>1. PICK l \in {0, 1} : \A i \in 1 .. Len(down') :
          \/ i + l <= Len(down) /\ down'[i] = down[i + l]
          \/ i = Len(down') /\ i + l > Len(down) /\ down'[i] \in G
    BY <1>2 DEF Moves
  <2>2. ASSUME NEW i \in 1 .. Len(down') PROVE GroupFrame(down'[i])
    <3>1. CASE i + l \in 1 .. Len(down) /\ down'[i] = down[i + l]
      BY <3>1 DEF GroupFrames
    <3>2. CASE down'[i] \in G
      BY <1>2, <3>2
    <3> QED
      BY <1>1, <2>1, <3>1, <3>2
  <2> QED
    BY <2>2 DEF GroupFrames, GroupFrame
<1>3. ASSUME NEW G, MaySend(down, down', G), \A g \in G : GroupFrame(g) PROVE GroupFrames'
  BY <1>1, <1>2, <1>3, SendMoves
<1>4. ASSUME down' = down \/ Takes(down, down') PROVE GroupFrames'
  <2>1. Moves(down, down', {})
    BY <1>1, <1>4, StayMoves, TakeMoves
  <2> QED
    BY <1>2, <2>1
<1>5. /\ \A T : T \cap {"pair3", "group1"} = {} => \A g \in OfType(T) : GroupFrame(g)
      /\ \A g \in Pair1Of(ap') : GroupFrame(g)
  BY DEF OfType, Pair1Of, GroupFrame
<1>6. ASSUME Done, SameEntry(ap', ap) PROVE \A g \in Group1Of(ap') : GroupFrame(g)
  <2>1. ap'.PairwiseKey # NoKey
    BY <1>6, NoKeyDoes DEF SameEntry, Agr, DoneAgrees
  <2> QED
    BY <2>1, Group1OfEntry
<1>7. CASE ApMlme
  <2>1. CASE ApAssoc
    <3>1. \A g \in OfType({"assocrsp"}) : GroupFrame(g)
      BY <1>5
    <3> QED
      BY <1>3, <2>1, <3>1, ApAssocDoes
  <2>2. CASE ApDisassoc \/ PeerPairMsg2Check \/ PeerGroupMsg2Action
    BY <1>4, <2>2, ApDisassocDoes, CheckDoes, Group2Does
  <2>3. CASE WpaEAPOLStartAction
    BY <1>3, <1>4, <1>5, <2>3, StartDoes
  <2>4. CASE PeerPairMsg2Answer
    <3>1. \A g \in Pair3Of(ap') : GroupFrame(g)
      BY Numbers DEF Pair3Of, GroupFrame
    <3> QED
      BY <1>3, <1>4, <2>4, <3>1, AnswerDoes
  <2>5. CASE PeerPairMsg4Action
    <3>1. \/ down' = down
          \/ /\ up[1].mic = ap.PTK /\ ap'.PTK = ap.PTK /\ ap'.PairwiseKey = ap.PTK
             /\ MaySend(down, down', Group1Of(ap'))
      BY <2>5, Msg4Does
    <3>2. up[1].mic[2] > 0
      <4>1. Len(up) >= 1 /\ Len(up) \in Nat /\ up[1].t = "pair4"
        BY <2>5, Msg4Does, ChannelNumbers DEF TypeOK
      <4>2. 1 \in Ups("pair4")
        BY <4>1 DEF Ups
      <4> QED
        BY <4>2 DEF Ord, Msg4Order, Old
    <3>3. CASE /\ up[1].mic = ap.PTK /\ ap'.PTK = ap.PTK /\ ap'.PairwiseKey = ap.PTK
               /\ MaySend(down, down', Group1Of(ap'))
      <4>1. ap'.PairwiseKey # NoKey
        BY <3>2, <3>3, NoKeyDoes
      <4>2. \A g \in Group1Of(ap') : GroupFrame(g)
        BY <4>1, Group1OfEntry
      <4> QED
        BY <1>3, <3>3, <4>2
    <3> QED
      BY <1>4, <3>1, <3>3
  <2> QED
    BY <1>7, <2>1, <2>2, <2>3, <2>4, <2>5 DEF ApMlme
<1>8. CASE ApTimers
  <2>1. CASE RetryGroup
    <3>1. \/ down' = down
          \/ ap.in /\ SameEntry(ap', ap) /\ MaySend(down, down', Group1Of(ap'))
      BY <2>1, RetryGroupDoes
    <3>2. ap.WpaState = DONE \/ down' = down
      BY <2>1, Zenon DEF RetryGroup, Crossed
    <3> QED
      BY <1>3, <1>4, <1>6, <3>1, <3>2 DEF Done
  <2>2. CASE RekeyStations
    <3>1. \/ down' = down
          \/ Done /\ SameEntry(ap', ap) /\ MaySend(down, down', Group1Of(ap'))
      BY <2>2, RekeyDoes DEF Done
    <3> QED
      BY <1>3, <1>4, <1>6, <3>1
  <2>3. CASE RetryDeauth
    <3>1. \A g \in OfType({"deauth"}) : GroupFrame(g)
      BY <1>5
    <3> QED
      BY <1>3, <1>4, <2>3, <3>1, RetryDeauthDoes
  <2>4. CASE RetrySend
    BY <1>3, <1>4, <1>5, <2>4, RetrySendDoes
  <2>5. CASE StartExec \/ CountDown \/ WPARetryExec \/ RetryTest \/ NewGTK
    BY <1>4, <2>5, OtherTimersDo, RetryExecDoes, RetryTestDoes, NewGTKDoes
  <2> QED
    BY <1>8, <2>1, <2>2, <2>3, <2>4, <2>5 DEF ApTimers, StartExec
<1>9. CASE Station
  BY <1>4, <1>9, JoinDoes, JoinTimeoutDoes, LinkUpDoes, LeaveDoes, PeerDeauthDoes, StaMsg1Does,
     StaMsg3Does, StaGroup1Does DEF Station
<1>10. CASE UNCHANGED vars
  BY <1>4, <1>10 DEF vars
<1> QED
  BY <1>7, <1>8, <1>9, <1>10 DEF Next

\* A station that is not up has its port closed.
PortClosed == sta.link # "up" => ~sta.PortSecured

LEMMA PortStep ==
    ASSUME TypeOK, Ord, PortClosed, GroupFrames, PortOpensOnKeys, ~Crossed, ~Crossed', [Next]_vars
    PROVE  PortOpensOnKeys'
<1> USE DEF Downs, Crossed
<1>1. sta.GTK \in Nat /\ sta.PortSecured \in BOOLEAN
  BY Numbers
<1>2. CASE ApMlme \/ ApTimers \/ UNCHANGED vars
  <2>1. sta' = sta
    BY <1>2, MlmeKeepsSta, RetryDeauthDoes, RetryExecDoes, RetryGroupDoes, RetryTestDoes,
       RetrySendDoes, NewGTKDoes, RekeyDoes, OtherTimersDo DEF ApTimers, StartExec, vars
  <2> QED
    BY <2>1 DEF PortOpensOnKeys
<1>3. CASE Join \/ JoinTimeout \/ LinkUp \/ Leave \/ PeerDeauth
  <2>1. ~sta'.PortSecured \/ sta' = sta
    BY <1>3, JoinDoes, JoinTimeoutDoes, LinkUpDoes, LeaveDoes, PeerDeauthDoes DEF PortClosed
  <2> QED
    BY <2>1 DEF PortOpensOnKeys
<1>4. CASE PeerPairMsg1Action
  BY <1>4, StaMsg1Does DEF PortOpensOnKeys
<1>5. CASE PeerPairMsg3Action
  <2>1. 1 \in Downs("pair3")
    <3>1. Len(down) >= 1 /\ Len(down) \in Nat /\ down[1].t = "pair3"
      BY <1>5, StaMsg3Does, ChannelNumbers DEF TypeOK
    <3> QED
      BY <3>1
  <2>2. down[1].mic[2] > 0 /\ (WPA2 => down[1].gtk > 0) /\ down[1].gtk \in Nat
    BY <2>1, ChannelNumbers DEF Ord, Msg3Order, Old, GroupFrames, GroupFrame, TypeOK
  <2>3. \/ sta' = sta
        \/ /\ sta'.link = "up" /\ sta.PTK = down[1].mic
           /\ sta'.GTK = IF down[1].gtk > 0 THEN down[1].gtk ELSE sta.GTK
           /\ \/ sta'.PairwiseKey = sta.PTK /\ sta'.PortSecured = (sta.PortSecured \/ WPA2)
              \/ sta'.PairwiseKey = sta.PairwiseKey /\ sta'.PortSecured = sta.PortSecured
    <3>1. down[1].t = "pair3"
      BY <2>1
    <3> QED
      BY <1>5, <3>1, StaMsg3Does DEF StaTaken, StaAccepts
  <2>4. sta.PTK = down[1].mic => sta.PTK # NoKey
    BY <2>2, NoKeyDoes
  <2>5. ASSUME sta'.PortSecured, sta' # sta PROVE sta'.link = "up" /\ sta'.PairwiseKey # NoKey /\ sta'.GTK > 0
    BY <1>1, <2>2, <2>3, <2>4, <2>5 DEF PortOpensOnKeys
  <2> QED
    BY <2>5 DEF PortOpensOnKeys
<1>6. CASE PeerGroupMsg1Action
  <2>1. 1 \in Downs("group1") /\ down[1].t = "group1"
    <3>1. Len(down) >= 1 /\ Len(down) \in Nat /\ down[1].t = "group1"
      BY <1>6, StaGroup1Does, ChannelNumbers DEF TypeOK
    <3> QED
      BY <3>1
  <2>2. \/ sta' = sta
        \/ /\ sta'.link = "up" /\ sta.PTK = down[1].mic /\ down[1].enc \in {NoKey, sta.PairwiseKey}
           /\ sta'.GTK = IF down[1].gtk > 0 THEN down[1].gtk ELSE sta.GTK
           /\ sta'.PairwiseKey = sta.PairwiseKey
    BY <1>6, <2>1, StaGroup1Does DEF StaTaken, StaAccepts
  <2>3. down[1].gtk > 0 /\ down[1].enc # NoKey
    BY <2>1 DEF GroupFrames, GroupFrame
  <2> QED
    BY <2>2, <2>3 DEF PortOpensOnKeys
<1> QED
  BY <1>2, <1>3, <1>4, <1>5, <1>6 DEF Next, Station

\* The station's port and how its link stands.
LEMMA ClosedStep == ASSUME TypeOK, PortClosed, [Next]_vars PROVE PortClosed'
<1>1. CASE ApMlme \/ ApTimers \/ UNCHANGED vars
  <2>1. sta' = sta
    BY <1>1, MlmeKeepsSta, RetryDeauthDoes, RetryExecDoes, RetryGroupDoes, RetryTestDoes,
       RetrySendDoes, NewGTKDoes, RekeyDoes, OtherTimersDo DEF ApTimers, StartExec, vars
  <2> QED
    BY <2>1 DEF PortClosed
<1>2. CASE Station
  BY <1>2, JoinDoes, JoinTimeoutDoes, LinkUpDoes, LeaveDoes, PeerDeauthDoes, StaMsg1Does,
     StaMsg3Does, StaGroup1Does DEF Station, StaTaken, PortClosed
<1> QED
  BY <1>1, <1>2 DEF Next

PortInv == PortClosed /\ (~Crossed => GroupFrames) /\ PortOpensOnKeys

LEMMA InitPortInv == Init => PortInv
<1> SUFFICES ASSUME Init PROVE PortInv
  OBVIOUS
<1>1. down = <<>> /\ sta = StaDown
  BY DEF Init
<1> QED
  BY <1>1, StaDownDoes DEF PortInv, PortClosed, GroupFrames, PortOpensOnKeys

\* The station's port is open only with both keys installed, although
\* PeerGroupMsg1Action opens it without a look at WpaState: in WPA and WPA2, whatever
\* fails or is crossed, until a retry that was chosen for one association sends its
\* group message, without encryption, in the handshake of the next.
THEOREM PortOpensWithKeys == Spec => []PortOpensOnKeys
<1> DEFINE Inv == IInv /\ Ord /\ Agr /\ PortInv
<1>1. Init => Inv
  BY InitIInv, InitOrdAgr, InitPortInv
<1>2. Inv /\ [Next]_vars => Inv'
  <2> SUFFICES ASSUME Inv, [Next]_vars PROVE Inv'
    OBVIOUS
  <2>1. IInv' /\ TypeOK /\ TypeOK'
    BY NextIInv DEF IInv
  <2>2. Ord' /\ Agr'
    BY <2>1, OrdStep, AgrStep
  <2>3. PortClosed'
    BY <2>1, ClosedStep DEF PortInv
  <2>4. CASE Crossed'
    BY <2>1, <2>2, <2>3, <2>4 DEF PortInv, PortOpensOnKeys, Crossed
  <2>5. CASE ~Crossed'
    <3>1. ~Crossed
      BY <2>5, CrossedStays
    <3>2. GroupFrames' /\ PortOpensOnKeys'
      BY <2>1, <2>5, <3>1, GroupFramesStep, PortStep DEF PortInv
    <3> QED
      BY <2>1, <2>2, <2>3, <2>5, <3>2 DEF PortInv
  <2> QED
    BY <2>4, <2>5
<1>3. Inv => PortOpensOnKeys
  BY DEF PortInv
<1> HIDE DEF Inv
<1> QED
  BY <1>1, <1>2, <1>3, PTL DEF Spec

-----------------------------------------------------------------------------
(* What EstablishedAtBothEnds rests on in WPA, where the group key has a   *)
(* handshake of its own: nonces and replay counters.                       *)

\* A nonce of the access point is drawn before it is used.
ApNonces ==
    /\ ap.ANonce <= nonces.ap /\ sta.PTK[1] <= nonces.ap
    /\ \A i \in Downs("pair1") : 0 < down[i].nonce /\ down[i].nonce <= nonces.ap
    /\ \A i \in Ups("pair2") : 0 < up[i].mic[1] /\ up[i].mic[1] <= nonces.ap

LEMMA NoncesKept ==
    ASSUME TypeOK, TypeOK', ApNonces, NEW F, NEW G,
           nonces.ap <= nonces'.ap, ap'.ANonce <= nonces'.ap, sta'.PTK \in {sta.PTK, NoKey},
           Moves(up, up', F), \A f \in F : f.t # "pair2",
           Moves(down, down', G),
           \A g \in G : g.t = "pair1" => 0 < g.nonce /\ g.nonce <= nonces'.ap
    PROVE  ApNonces'
<1> USE DEF Ups, Downs
<1>1. PICK k \in {0, 1} : \A i \in 1 .. Len(up') :
        \/ i + k <= Len(up) /\ up'[i] = up[i + k]
        \/ i = Len(up') /\ i + k > Len(up) /\ up'[i] \in F
  BY DEF Moves
<1>2. PICK l \in {0, 1} : \A i \in 1 .. Len(down') :
        \/ i + l <= Len(down) /\ down'[i] = down[i + l]
        \/ i = Len(down') /\ i + l > Len(down) /\ down'[i] \in G
  BY DEF Moves
<1>3. /\ nonces.ap \in Nat /\ nonces'.ap \in Nat /\ sta.PTK[1] \in Nat
      /\ \A i \in 1 .. Len(up) : up[i].mic[1] \in Nat
      /\ \A i \in 1 .. Len(down) : down[i].nonce \in Nat
  BY Numbers, ChannelNumbers DEF TypeOK
<1>4. sta'.PTK[1] <= nonces'.ap
  BY <1>3, NoKeyDoes DEF ApNonces
<1>5. ASSUME NEW i \in Downs("pair1")' PROVE 0 < down'[i].nonce /\ down'[i].nonce <= nonces'.ap
  <2>1. CASE i + l \in Downs("pair1") /\ down'[i] = down[i + l]
    BY <1>3, <2>1 DEF ApNonces
  <2>2. CASE down'[i] \in G
    BY <1>5, <2>2
  <2> QED
    BY <1>2, <1>5, <2>1, <2>2
<1>6. ASSUME NEW i \in Ups("pair2")' PROVE 0 < up'[i].mic[1] /\ up'[i].mic[1] <= nonces'.ap
  <2>1. i + k \in Ups("pair2") /\ up'[i] = up[i + k]
    BY <1>1, <1>6
  <2> QED
    BY <1>3, <2>1 DEF ApNonces
<1> QED
  BY <1>4, <1>5, <1>6 DEF ApNonces

LEMMA NoncesMsg1 == ASSUME TypeOK, TypeOK', ApNonces, PeerPairMsg1Action PROVE ApNonces'
<1> USE DEF Ups, Downs
<1>1. /\ Takes(down, down') /\ Len(down) >= 1 /\ down[1].t = "pair1" /\ ap' = ap
      /\ \/ UNCHANGED <<sta, up, nonces>>
         \/ /\ sta'.PTK = <<down[1].nonce, nonces.sta + 1>> /\ nonces'.ap = nonces.ap
            /\ MaySend(up, up', Pair2Of(sta'))
  BY StaMsg1Does DEF ApKept
<1>2. up \in Seq(Frames) /\ down \in Seq(Frames) /\ up' \in Seq(Frames) /\ down' \in Seq(Frames)
  BY DEF TypeOK
<1>3. CASE UNCHANGED <<sta, up, nonces>>
  <2>1. Moves(up, up', {}) /\ Moves(down, down', {}) /\ nonces.ap \in Nat
    BY <1>1, <1>2, <1>3, StayMoves, TakeMoves, Numbers
  <2>2. nonces.ap <= nonces'.ap /\ ap'.ANonce <= nonces'.ap
    BY <1>1, <1>3, <2>1 DEF ApNonces
  <2> QED
    BY <1>3, <2>1, <2>2, NoncesKept
<1>4. CASE /\ sta'.PTK = <<down[1].nonce, nonces.sta + 1>> /\ nonces'.ap = nonces.ap
           /\ MaySend(up, up', Pair2Of(sta'))
  <2>1. sta'.PTK[1] = down[1].nonce /\ 0 < sta'.PTK[1] /\ sta'.PTK[1] <= nonces'.ap
    BY <1>1, <1>2, <1>4 DEF ApNonces
  <2>2. ASSUME NEW i \in Downs("pair1")' PROVE i + 1 \in Downs("pair1") /\ down'[i] = down[i + 1]
    BY <1>1, <1>2, <2>2, TakenAt
  <2>3. ASSUME NEW i \in Ups("pair2")' PROVE (i \in Ups("pair2") /\ up'[i] = up[i]) \/ up'[i].mic = sta'.PTK
    BY <1>2, <1>4, <2>3, SentAt DEF Pair2Of
  <2> QED
    BY <1>1, <1>4, <2>1, <2>2, <2>3 DEF ApNonces
<1> QED
  BY <1>1, <1>3, <1>4

LEMMA NoncesStep == ASSUME TypeOK, TypeOK', ApNonces, [Next]_vars PROVE ApNonces'
<1> DEFINE F == {f \in Frames : f.t # "pair2"}
           G == {g \in Frames : g.t = "pair1" => 0 < g.nonce /\ g.nonce <= nonces'.ap}
<1>1. up \in Seq(Frames) /\ down \in Seq(Frames) /\ up' \in Seq(Frames) /\ down' \in Seq(Frames)
  BY DEF TypeOK
<1>2. ap.ANonce \in Nat /\ nonces.ap \in Nat /\ nonces'.ap \in Nat /\ ap.ANonce <= nonces.ap
  BY Numbers DEF TypeOK, ApNonces
<1>3. /\ \A T : "pair2" \notin T => OfType(T) \subseteq F
      /\ \A T : "pair1" \notin T => OfType(T) \subseteq G
      /\ Pair3Of(ap') \subseteq G /\ Group1Of(ap') \subseteq G
      /\ Pair4Of(sta') \subseteq F /\ Group2Of(sta') \subseteq F
      /\ \A f \in F : f.t # "pair2"
      /\ \A g \in G : g.t = "pair1" => 0 < g.nonce /\ g.nonce <= nonces'.ap
  BY DEF OfType, Pair3Of, Group1Of, Pair4Of, Group2Of
<1>4. ASSUME ap'.ANonce = nonces.ap + 1, nonces'.ap = nonces.ap + 1
      PROVE  Pair1Of(ap') \subseteq G /\ ap'.ANonce <= nonces'.ap /\ nonces.ap <= nonces'.ap
  BY <1>2, <1>4 DEF Pair1Of
<1> HIDE DEF F, G
<1>5. ASSUME nonces.ap <= nonces'.ap, ap'.ANonce <= nonces'.ap, sta'.PTK \in {sta.PTK, NoKey},
             Moves(up, up', F), Moves(down, down', G)
      PROVE  ApNonces'
  BY <1>3, <1>5, NoncesKept
<1>6. ASSUME ap'.ANonce \in {ap.ANonce, 0}, nonces'.ap = nonces.ap
      PROVE  nonces.ap <= nonces'.ap /\ ap'.ANonce <= nonces'.ap
  BY <1>2, <1>6
<1>7. ASSUME NEW S, S \subseteq F PROVE MaySend(up, up', S) => Moves(up, up', F)
  BY <1>1, <1>7, SendMoves, MovesMore
<1>8. ASSUME NEW S, S \subseteq G PROVE MaySend(down, down', S) => Moves(down, down', G)
  BY <1>1, <1>8, SendMoves, MovesMore
<1>9. /\ up' = up \/ Takes(up, up') => Moves(up, up', F)
      /\ down' = down \/ Takes(down, down') => Moves(down, down', G)
  BY <1>1, StayMoves, TakeMoves
<1>10. CASE ApMlme
  <2>1. CASE ApAssoc
    <3>1. /\ Takes(up, up') /\ MaySend(down, down', OfType({"assocrsp"})) /\ sta' = sta
          /\ nonces' = nonces /\ ap'.ANonce \in {ap.ANonce, 0}
      BY <2>1, ApAssocDoes
    <3>2. OfType({"assocrsp"}) \subseteq G
      BY <1>3
    <3> QED
      BY <1>5, <1>6, <1>8, <1>9, <3>1, <3>2
  <2>2. CASE ApDisassoc
    <3>1. Takes(up, up') /\ down' = down /\ sta' = sta /\ nonces' = nonces /\ ap'.ANonce = 0
      BY <2>2, ApDisassocDoes, NoEntryDoes
    <3> QED
      BY <1>5, <1>6, <1>9, <3>1
  <2>3. CASE WpaEAPOLStartAction
    <3>1. /\ up' = up /\ sta' = sta
          /\ \/ /\ MaySend(down, down', Pair1Of(ap'))
                /\ ap'.ANonce = nonces.ap + 1 /\ nonces'.ap = nonces.ap + 1
             \/ UNCHANGED <<ap, down, nonces>>
      BY <2>3, StartDoes
    <3> QED
      BY <1>4, <1>5, <1>6, <1>8, <1>9, <3>1
  <2>4. CASE PeerPairMsg2Check
    <3>1. Takes(up, up') /\ down' = down /\ sta' = sta /\ nonces' = nonces /\ ap'.ANonce = ap.ANonce
      BY <2>4, CheckDoes
    <3> QED
      BY <1>5, <1>6, <1>9, <3>1
  <2>5. CASE PeerPairMsg2Answer
    <3>1. /\ up' = up /\ (down' = down \/ MaySend(down, down', Pair3Of(ap'))) /\ sta' = sta
          /\ nonces' = nonces /\ ap'.ANonce = ap.ANonce
      BY <2>5, AnswerDoes
    <3> QED
      BY <1>3, <1>5, <1>6, <1>8, <1>9, <3>1
  <2>6. CASE PeerPairMsg4Action
    <3>1. /\ Takes(up, up') /\ (down' = down \/ MaySend(down, down', Group1Of(ap'))) /\ sta' = sta
          /\ nonces' = nonces /\ ap'.ANonce = ap.ANonce
      BY <2>6, Msg4Does
    <3> QED
      BY <1>3, <1>5, <1>6, <1>8, <1>9, <3>1
  <2>7. CASE PeerGroupMsg2Action
    <3>1. Takes(up, up') /\ down' = down /\ sta' = sta /\ nonces' = nonces /\ ap'.ANonce = ap.ANonce
      BY <2>7, Group2Does DEF SameEntry
    <3> QED
      BY <1>5, <1>6, <1>9, <3>1
  <2> QED
    BY <1>10, <2>1, <2>2, <2>3, <2>4, <2>5, <2>6, <2>7 DEF ApMlme
<1>11. CASE ApTimers
  <2>1. CASE RetrySend
    <3>1. /\ up' = up /\ sta' = sta
          /\ \/ /\ MaySend(down, down', Pair1Of(ap'))
                /\ ap'.ANonce = nonces.ap + 1 /\ nonces'.ap = nonces.ap + 1
             \/ UNCHANGED <<ap, down, nonces>>
      BY <2>1, RetrySendDoes
    <3> QED
      BY <1>4, <1>5, <1>6, <1>8, <1>9, <3>1
  <2>2. CASE RetryDeauth
    <3>1. /\ up' = up /\ sta' = sta /\ nonces' = nonces /\ ap'.ANonce \in {ap.ANonce, 0}
          /\ down' = down \/ MaySend(down, down', OfType({"deauth"}))
      BY <2>2, RetryDeauthDoes, NoEntryDoes
    <3>2. OfType({"deauth"}) \subseteq G
      BY <1>3
    <3> QED
      BY <1>5, <1>6, <1>8, <1>9, <3>1, <3>2
  <2>3. CASE RetryGroup \/ RekeyStations
    <3>1. /\ up' = up /\ sta' = sta /\ nonces' = nonces /\ ap'.ANonce = ap.ANonce
          /\ down' = down \/ MaySend(down, down', Group1Of(ap'))
      BY <2>3, RetryGroupDoes, RekeyDoes DEF SameEntry
    <3> QED
      BY <1>3, <1>5, <1>6, <1>8, <1>9, <3>1
  <2>4. CASE StartExec \/ CountDown \/ WPARetryExec \/ RetryTest \/ NewGTK
    <3>1. up' = up /\ down' = down /\ sta' = sta /\ nonces' = nonces /\ ap'.ANonce = ap.ANonce
      BY <2>4, OtherTimersDo, RetryExecDoes, RetryTestDoes, NewGTKDoes DEF SameEntry
    <3> QED
      BY <1>5, <1>6, <1>9, <3>1
  <2> QED
    BY <1>11, <2>1, <2>2, <2>3, <2>4 DEF ApTimers, StartExec
<1>12. CASE Station
  <2>1. ap' = ap
    BY <1>12, StationKeepsAp DEF ApKept
  <2>2. ASSUME nonces' = nonces, sta'.PTK \in {sta.PTK, NoKey}, Moves(up, up', F), Moves(down, down', G)
        PROVE  ApNonces'
    BY <1>5, <1>6, <2>1, <2>2
  <2>3. CASE Join
    <3>1. nonces' = nonces /\ sta'.PTK = sta.PTK /\ MaySend(up, up', OfType({"assocreq"})) /\ down' = down
      BY <2>3, JoinDoes
    <3>2. OfType({"assocreq"}) \subseteq F
      BY <1>3
    <3> QED
      BY <1>7, <1>9, <2>2, <3>1, <3>2
  <2>4. CASE JoinTimeout
    <3>1. nonces' = nonces /\ sta'.PTK = sta.PTK /\ up' = up /\ down' = down
      BY <2>4, JoinTimeoutDoes
    <3> QED
      BY <1>9, <2>2, <3>1
  <2>5. CASE LinkUp
    <3>1. nonces' = nonces /\ sta'.PTK = sta.PTK /\ up' = up /\ Takes(down, down')
      BY <2>5, LinkUpDoes
    <3> QED
      BY <1>9, <2>2, <3>1
  <2>6. CASE Leave
    <3>1. nonces' = nonces /\ sta'.PTK = NoKey /\ MaySend(up, up', OfType({"disassoc"})) /\ down' = down
      BY <2>6, LeaveDoes
    <3>2. OfType({"disassoc"}) \subseteq F
      BY <1>3
    <3> QED
      BY <1>7, <1>9, <2>2, <3>1, <3>2
  <2>7. CASE PeerDeauth
    <3>1. nonces' = nonces /\ sta'.PTK \in {sta.PTK, NoKey} /\ up' = up /\ Takes(down, down')
      BY <2>7, PeerDeauthDoes
    <3> QED
      BY <1>9, <2>2, <3>1
  <2>8. CASE PeerPairMsg3Action
    <3>1. /\ nonces' = nonces /\ sta'.PTK = sta.PTK /\ Takes(down, down')
          /\ up' = up \/ MaySend(up, up', Pair4Of(sta'))
      BY <2>8, StaMsg3Does DEF StaTaken
    <3> QED
      BY <1>3, <1>7, <1>9, <2>2, <3>1
  <2>9. CASE PeerGroupMsg1Action
    <3>1. /\ nonces' = nonces /\ sta'.PTK = sta.PTK /\ Takes(down, down')
          /\ up' = up \/ MaySend(up, up', Group2Of(sta'))
      BY <2>9, StaGroup1Does DEF StaTaken
    <3> QED
      BY <1>3, <1>7, <1>9, <2>2, <3>1
  <2> QED
    BY <1>12, <2>3, <2>4, <2>5, <2>6, <2>7, <2>8, <2>9, NoncesMsg1 DEF Station
<1>13. CASE UNCHANGED vars
  BY <1>13 DEF vars, apVars, ApNonces, Ups, Downs
<1> QED
  BY <1>10, <1>11, <1>12, <1>13 DEF Next

\* The replay counters of message 1 and 2, which a new message 1 always has behind its
\* nonce.
PairRcs ==
    /\ \A i \in Downs("pair1") : down[i].nonce = ap.ANonce =>
         /\ down[i].rc <= ap.R_Counter
         /\ ap.WpaState >= NEGOTIATING => down[i].rc < ap.R_Counter
    /\ \A i \in Ups("pair2") : up[i].mic[1] = ap.ANonce =>
         /\ up[i].rc <= ap.R_Counter
         /\ ap.WpaState >= NEGOTIATING => up[i].rc < ap.R_Counter

LEMMA PairRcsKept ==
    ASSUME TypeOK, TypeOK', ApNonces, PairRcs, NEW F, NEW G,
           \/ /\ ap'.ANonce = ap.ANonce /\ ap.R_Counter <= ap'.R_Counter
              /\ ap'.WpaState >= NEGOTIATING =>
                     ap.WpaState >= NEGOTIATING \/ ap.R_Counter < ap'.R_Counter
           \/ ap'.ANonce = 0
           \/ ap'.ANonce = nonces.ap + 1,
           Moves(up, up', F), \A f \in F : f.t # "pair2",
           Moves(down, down', G),
           \A g \in G : g.t = "pair1" => g.rc = ap'.R_Counter /\ ap'.WpaState = PTKSTART
    PROVE  PairRcs'
<1> USE DEF Ups, Downs
<1>1. PICK k \in {0, 1} : \A i \in 1 .. Len(up') :
        \/ i + k <= Len(up) /\ up'[i] = up[i + k]
        \/ i = Len(up') /\ i + k > Len(up) /\ up'[i] \in F
  BY DEF Moves
<1>2. PICK l \in {0, 1} : \A i \in 1 .. Len(down') :
        \/ i + l <= Len(down) /\ down'[i] = down[i + l]
        \/ i = Len(down') /\ i + l > Len(down) /\ down'[i] \in G
  BY DEF Moves
<1>3. /\ nonces.ap \in Nat /\ ap.R_Counter \in Nat /\ ap'.R_Counter \in Nat /\ ap.ANonce \in Nat
      /\ \A i \in 1 .. Len(up) : up[i].mic[1] \in Nat /\ up[i].rc \in Nat
      /\ \A i \in 1 .. Len(down) : down[i].nonce \in Nat /\ down[i].rc \in Nat
  BY Numbers, ChannelNumbers DEF TypeOK, Entries
<1>4. ASSUME NEW n \in Nat, 0 < n, n <= nonces.ap, n = ap'.ANonce
      PROVE  /\ n = ap.ANonce /\ ap.R_Counter <= ap'.R_Counter
             /\ ap'.WpaState >= NEGOTIATING =>
                     ap.WpaState >= NEGOTIATING \/ ap.R_Counter < ap'.R_Counter
  BY <1>3, <1>4
<1>5. ASSUME NEW i \in Downs("pair1")', down'[i].nonce = ap'.ANonce
      PROVE  /\ down'[i].rc <= ap'.R_Counter
             /\ ap'.WpaState >= NEGOTIATING => down'[i].rc < ap'.R_Counter
  <2>1. CASE i + l \in Downs("pair1") /\ down'[i] = down[i + l]
    <3>1. 0 < down[i + l].nonce /\ down[i + l].nonce <= nonces.ap /\ down[i + l].nonce \in Nat
      BY <1>3, <2>1 DEF ApNonces
    <3>2. /\ down[i + l].nonce = ap.ANonce /\ ap.R_Counter <= ap'.R_Counter
          /\ ap'.WpaState >= NEGOTIATING =>
                 ap.WpaState >= NEGOTIATING \/ ap.R_Counter < ap'.R_Counter
      BY <1>4, <1>5, <2>1, <3>1
    <3>3. /\ down[i + l].rc <= ap.R_Counter /\ down[i + l].rc \in Nat
          /\ ap.WpaState >= NEGOTIATING => down[i + l].rc < ap.R_Counter
      BY <1>3, <2>1, <3>2 DEF PairRcs
    <3> QED
      BY <1>3, <2>1, <3>2, <3>3
  <2>2. CASE down'[i] \in G
    BY <1>3, <1>5, <2>2
  <2> QED
    BY <1>2, <1>5, <2>1, <2>2
<1>6. ASSUME NEW i \in Ups("pair2")', up'[i].mic[1] = ap'.ANonce
      PROVE  /\ up'[i].rc <= ap'.R_Counter
             /\ ap'.WpaState >= NEGOTIATING => up'[i].rc < ap'.R_Counter
  <2>1. i + k \in Ups("pair2") /\ up'[i] = up[i + k]
    BY <1>1, <1>6
  <2>2. 0 < up[i + k].mic[1] /\ up[i + k].mic[1] <= nonces.ap /\ up[i + k].mic[1] \in Nat
    BY <1>3, <2>1 DEF ApNonces
  <2>3. /\ up[i + k].mic[1] = ap.ANonce /\ ap.R_Counter <= ap'.R_Counter
        /\ ap'.WpaState >= NEGOTIATING =>
               ap.WpaState >= NEGOTIATING \/ ap.R_Counter < ap'.R_Counter
    BY <1>4, <1>6, <2>1, <2>2
  <2>4. /\ up[i + k].rc <= ap.R_Counter /\ up[i + k].rc \in Nat
        /\ ap.WpaState >= NEGOTIATING => up[i + k].rc < ap.R_Counter
    BY <1>3, <2>1, <2>3 DEF PairRcs
  <2> QED
    BY <1>3, <2>1, <2>3, <2>4
<1> QED
  BY <1>5, <1>6 DEF PairRcs

LEMMA PairRcsMsg1 == ASSUME TypeOK, TypeOK', ApNonces, PairRcs, PeerPairMsg1Action PROVE PairRcs'
<1> USE DEF Ups, Downs
<1>1. /\ Takes(down, down') /\ Len(down) >= 1 /\ down[1].t = "pair1" /\ ap' = ap
      /\ \/ UNCHANGED <<sta, up, nonces>>
         \/ /\ sta'.PTK = <<down[1].nonce, nonces.sta + 1>> /\ sta'.R_Counter = down[1].rc
            /\ MaySend(up, up', Pair2Of(sta'))
  BY StaMsg1Does DEF ApKept
<1>2. up \in Seq(Frames) /\ down \in Seq(Frames) /\ up' \in Seq(Frames) /\ down' \in Seq(Frames)
  BY DEF TypeOK
<1>3. CASE up' = up
  <2>1. Moves(up, up', {}) /\ Moves(down, down', {}) /\ ap.R_Counter \in Nat
    BY <1>1, <1>2, <1>3, StayMoves, TakeMoves, Numbers
  <2> QED
    BY <1>1, <2>1, PairRcsKept
<1>4. CASE /\ sta'.PTK = <<down[1].nonce, nonces.sta + 1>> /\ sta'.R_Counter = down[1].rc
           /\ MaySend(up, up', Pair2Of(sta'))
  <2>1. 1 \in Downs("pair1") /\ sta'.PTK[1] = down[1].nonce
    BY <1>1, <1>2, <1>4
  <2>2. ASSUME NEW i \in Downs("pair1")' PROVE i + 1 \in Downs("pair1") /\ down'[i] = down[i + 1]
    BY <1>1, <1>2, <2>2, TakenAt
  <2>3. ASSUME NEW i \in Ups("pair2")'
        PROVE  \/ i \in Ups("pair2") /\ up'[i] = up[i]
               \/ up'[i].mic[1] = down[1].nonce /\ up'[i].rc = down[1].rc
    BY <1>2, <1>4, <2>1, <2>3, SentAt DEF Pair2Of
  <2> QED
    BY <1>1, <2>1, <2>2, <2>3 DEF PairRcs
<1> QED
  BY <1>1, <1>3, <1>4

LEMMA PairRcsStep == ASSUME TypeOK, TypeOK', ApNonces, PairRcs, [Next]_vars PROVE PairRcs'
<1> DEFINE F == {f \in Frames : f.t # "pair2"}
           G == {g \in Frames : g.t = "pair1" => g.rc = ap'.R_Counter /\ ap'.WpaState = PTKSTART}
<1>1. up \in Seq(Frames) /\ down \in Seq(Frames) /\ up' \in Seq(Frames) /\ down' \in Seq(Frames)
  BY DEF TypeOK
<1>2. ap.R_Counter \in Nat /\ ap'.R_Counter \in Nat /\ ap.WpaState \in 0 .. 10
  BY Numbers DEF TypeOK, Entries
<1>3. /\ \A T : "pair2" \notin T => OfType(T) \subseteq F
      /\ \A T : "pair1" \notin T => OfType(T) \subseteq G
      /\ Pair3Of(ap') \subseteq G /\ Group1Of(ap') \subseteq G
      /\ ap'.WpaState = PTKSTART => Pair1Of(ap') \subseteq G
      /\ Pair4Of(sta') \subseteq F /\ Group2Of(sta') \subseteq F
      /\ \A f \in F : f.t # "pair2"
      /\ \A g \in G : g.t = "pair1" => g.rc = ap'.R_Counter /\ ap'.WpaState = PTKSTART
  BY DEF OfType, Pair1Of, Pair3Of, Group1Of, Pair4Of, Group2Of
<1> HIDE DEF F, G
<1>4. ASSUME ap'.ANonce = 0 \/ ap'.ANonce = nonces.ap + 1, Moves(up, up', F), Moves(down, down', G)
      PROVE  PairRcs'
  BY <1>3, <1>4, PairRcsKept
<1>5. ASSUME ap'.ANonce = ap.ANonce, ap.R_Counter <= ap'.R_Counter,
             ap'.WpaState >= NEGOTIATING =>
                 ap.WpaState >= NEGOTIATING \/ ap.R_Counter < ap'.R_Counter,
             Moves(up, up', F), Moves(down, down', G)
      PROVE  PairRcs'
  BY <1>3, <1>5, PairRcsKept
<1>6. ASSUME NEW S, S \subseteq F PROVE MaySend(up, up', S) => Moves(up, up', F)
  BY <1>1, <1>6, SendMoves, MovesMore
<1>7. ASSUME NEW S, S \subseteq G PROVE MaySend(down, down', S) => Moves(down, down', G)
  BY <1>1, <1>7, SendMoves, MovesMore
<1>8. /\ up' = up \/ Takes(up, up') => Moves(up, up', F)
      /\ down' = down \/ Takes(down, down') => Moves(down, down', G)
  BY <1>1, StayMoves, TakeMoves
<1>9. ASSUME ap' = ap, Moves(up, up', F), Moves(down, down', G) PROVE PairRcs'
  BY <1>2, <1>5, <1>9
<1>10. ASSUME SameEntry(ap', ap), ap.R_Counter <= ap'.R_Counter, Moves(up, up', F), Moves(down, down', G)
       PROVE PairRcs'
  BY <1>2, <1>5, <1>10 DEF SameEntry
<1>11. CASE ApMlme
  <2>1. CASE ApAssoc
    <3>1. /\ Takes(up, up') /\ MaySend(down, down', OfType({"assocrsp"})) /\ ap'.WpaState = INITPSK
          /\ \/ ap'.ANonce = ap.ANonce /\ ap'.R_Counter = ap.R_Counter
             \/ ap'.ANonce = 0
      BY <2>1, ApAssocDoes
    <3>2. OfType({"assocrsp"}) \subseteq G
      BY <1>3
    <3>3. Moves(up, up', F) /\ Moves(down, down', G)
      BY <1>7, <1>8, <3>1, <3>2
    <3> QED
      BY <1>2, <1>4, <1>5, <3>1, <3>3
  <2>2. CASE ApDisassoc
    BY <1>4, <1>8, <2>2, ApDisassocDoes, NoEntryDoes
  <2>3. CASE WpaEAPOLStartAction
    <3>1. /\ up' = up
          /\ \/ /\ ap'.ANonce = nonces.ap + 1
                /\ \/ ap'.WpaState = PTKSTART /\ MaySend(down, down', Pair1Of(ap'))
                   \/ down' = down
             \/ ap' = ap /\ down' = down
      BY <2>3, StartDoes
    <3>2. Moves(up, up', F) /\ Moves(down, down', G)
      BY <1>3, <1>7, <1>8, <3>1
    <3> QED
      BY <1>4, <1>9, <3>1, <3>2
  <2>4. CASE PeerPairMsg2Check
    <3>1. /\ Takes(up, up') /\ down' = down /\ ap'.ANonce = ap.ANonce /\ ap'.WpaState = ap.WpaState
          /\ ap'.R_Counter = ap.R_Counter
      BY <2>4, CheckDoes
    <3> QED
      BY <1>2, <1>5, <1>8, <3>1
  <2>5. CASE PeerPairMsg2Answer
    <3>1. /\ up' = up
          /\ \/ /\ MaySend(down, down', Pair3Of(ap')) /\ ap'.R_Counter = ap.R_Counter + 1
                /\ ap'.ANonce = ap.ANonce
             \/ ap' = ap /\ down' = down
      BY <2>5, AnswerDoes
    <3>2. Moves(up, up', F) /\ Moves(down, down', G)
      BY <1>3, <1>7, <1>8, <3>1
    <3>3. ap.R_Counter < ap.R_Counter + 1 /\ ap.R_Counter <= ap.R_Counter + 1
      BY <1>2
    <3> QED
      BY <1>5, <1>9, <3>1, <3>2, <3>3
  <2>6. CASE PeerPairMsg4Action
    <3>1. /\ Takes(up, up')
          /\ \/ /\ down' = down \/ MaySend(down, down', Group1Of(ap'))
                /\ ap'.R_Counter = ap.R_Counter + 1 \/ ap'.R_Counter = ap.R_Counter
                /\ ap'.ANonce = ap.ANonce /\ ap.WpaState >= NEGOTIATING
             \/ ap' = ap /\ down' = down
      BY <2>6, Msg4Does
    <3>2. Moves(up, up', F) /\ Moves(down, down', G)
      BY <1>3, <1>7, <1>8, <3>1
    <3> QED
      BY <1>2, <1>5, <1>9, <3>1, <3>2
  <2>7. CASE PeerGroupMsg2Action
    <3>1. /\ Takes(up, up') /\ down' = down
          /\ ap' = ap \/ (SameEntry(ap', ap) /\ ap'.R_Counter = ap.R_Counter)
      BY <2>7, Group2Does
    <3> QED
      BY <1>2, <1>8, <1>9, <1>10, <3>1
  <2> QED
    BY <1>11, <2>1, <2>2, <2>3, <2>4, <2>5, <2>6, <2>7 DEF ApMlme
<1>12. CASE ApTimers
  <2>1. CASE RetrySend
    <3>1. /\ up' = up
          /\ \/ /\ ap'.ANonce = nonces.ap + 1
                /\ \/ ap'.WpaState = PTKSTART /\ MaySend(down, down', Pair1Of(ap'))
                   \/ down' = down
             \/ ap' = ap /\ down' = down
      BY <2>1, RetrySendDoes
    <3>2. Moves(up, up', F) /\ Moves(down, down', G)
      BY <1>3, <1>7, <1>8, <3>1
    <3> QED
      BY <1>4, <1>9, <3>1, <3>2
  <2>2. CASE RetryDeauth
    <3>1. /\ up' = up
          /\ \/ ap'.ANonce = 0 /\ MaySend(down, down', OfType({"deauth"}))
             \/ ap' = ap /\ down' = down
      BY <2>2, RetryDeauthDoes, NoEntryDoes
    <3>2. OfType({"deauth"}) \subseteq G
      BY <1>3
    <3> QED
      BY <1>4, <1>7, <1>8, <1>9, <3>1, <3>2
  <2>3. CASE RetryGroup \/ RekeyStations
    <3>1. /\ up' = up
          /\ \/ /\ MaySend(down, down', Group1Of(ap')) /\ SameEntry(ap', ap)
                /\ ap'.R_Counter = ap.R_Counter + 1 \/ ap'.R_Counter = ap.R_Counter
             \/ ap' = ap /\ down' = down
      BY <2>3, RetryGroupDoes, RekeyDoes
    <3> QED
      BY <1>2, <1>3, <1>7, <1>8, <1>9, <1>10, <3>1
  <2>4. CASE StartExec \/ CountDown \/ RetryTest \/ NewGTK
    BY <1>8, <1>9, <2>4, OtherTimersDo, RetryTestDoes, NewGTKDoes
  <2>5. CASE WPARetryExec
    BY <1>2, <1>8, <1>10, <2>5, RetryExecDoes
  <2> QED
    BY <1>12, <2>1, <2>2, <2>3, <2>4, <2>5 DEF ApTimers, StartExec
<1>13. CASE Station
  <2>1. ap' = ap
    BY <1>13, StationKeepsAp DEF ApKept
  <2>2. CASE PeerPairMsg1Action
    BY <2>2, PairRcsMsg1
  <2>3. CASE ~PeerPairMsg1Action
    <3>1. OfType({"assocreq"}) \subseteq F /\ OfType({"disassoc"}) \subseteq F
      BY <1>3
    <3>2. Moves(up, up', F) /\ Moves(down, down', G)
      <4>1. down' = down \/ Takes(down, down')
        BY <1>13, <2>3, JoinDoes, JoinTimeoutDoes, LinkUpDoes, LeaveDoes, PeerDeauthDoes, StaMsg3Does,
           StaGroup1Does DEF Station
      <4>2. \/ up' = up \/ MaySend(up, up', OfType({"assocreq"})) \/ MaySend(up, up', OfType({"disassoc"}))
            \/ MaySend(up, up', Pair4Of(sta')) \/ MaySend(up, up', Group2Of(sta'))
        BY <1>13, <2>3, JoinDoes, JoinTimeoutDoes, LinkUpDoes, LeaveDoes, PeerDeauthDoes, StaMsg3Does,
           StaGroup1Does DEF Station
      <4> QED
        BY <1>3, <1>6, <1>8, <3>1, <4>1, <4>2
    <3> QED
      BY <1>9, <2>1, <3>2
  <2> QED
    BY <2>2, <2>3
<1>14. CASE UNCHANGED vars
  BY <1>14 DEF vars, apVars, PairRcs, Ups, Downs
<1> QED
  BY <1>11, <1>12, <1>13, <1>14 DEF Next

\* Message 2 is answered before message 3 only, keys are established after message 4
\* only, and message 1 is repeated when no message 4 can arrive.
InOrder ==
    /\ mlmePc = "answer" /\ ap.in => ap.WpaState = PTKSTART
    /\ ap.WpaState # DONE => ~ap.Established
    /\ timerPc = "send" => ap.WpaState # DONE /\ \A i \in Ups("pair4") : ~Current(up[i])

LEMMA InOrderMlme ==
    ASSUME ~WPA2, Prompt, TypeOK, TypeOK', Ord, PairRcs, InOrder, ApMlme PROVE InOrder'
<1> USE DEF Ups
<1>1. ap.WpaState \in 0 .. 10 /\ ap.R_Counter \in Nat /\ ap.PTK[2] \in Nat /\ ap'.WpaState \in 0 .. 10
  BY Numbers DEF TypeOK, Entries
<1>2. up \in Seq(Frames) /\ up' \in Seq(Frames) /\ Len(up) \in Nat
  BY DEF TypeOK
<1>3. ASSUME Takes(up, up'), NEW i \in Ups("pair4")' PROVE i + 1 \in Ups("pair4") /\ up'[i] = up[i + 1]
  BY <1>2, <1>3, TakenAt
<1>4. CASE ApAssoc
  <2>1. ap'.WpaState = INITPSK /\ ~ap'.Established /\ mlmePc' = "idle"
    BY <1>4, ApAssocDoes
  <2> QED
    BY <2>1 DEF InOrder, Current
<1>5. CASE ApDisassoc
  <2>1. ap' = NoEntry
    BY <1>5, ApDisassocDoes
  <2> QED
    BY <2>1, NoEntryDoes DEF InOrder, Current
<1>6. CASE WpaEAPOLStartAction
  <2>1. /\ mlmePc' = "idle" /\ timerPc' = timerPc /\ up' = up
        /\ \/ ap.WpaState < PTKSTART /\ ap'.Established = ap.Established /\ ap'.WpaState \in {PTKSTART, INITPSK}
           \/ ap' = ap
    BY <1>6, StartDoes
  <2> QED
    BY <1>1, <2>1 DEF InOrder, Current
<1>7. CASE PeerPairMsg2Check
  <2>1. /\ Takes(up, up') /\ Len(up) >= 1 /\ up[1].t = "pair2" /\ timerPc' = timerPc /\ mlmePc = "idle"
        /\ \/ ap' = ap /\ mlmePc' = mlmePc
           \/ /\ ap.WpaState >= PTKSTART /\ ap'.PTK = <<ap.ANonce, up[1].nonce>> /\ ap'.WpaState = ap.WpaState
              /\ ap'.Established = ap.Established
              /\ \/ up[1].rc = ap.R_Counter /\ up[1].mic = ap'.PTK
                 \/ mlmePc' = "idle"
    BY <1>7, CheckDoes
  <2>2. CASE ap' = ap /\ mlmePc' = mlmePc
    <3>1. ASSUME timerPc = "send", NEW i \in Ups("pair4")' PROVE ~Current(up[i])'
      BY <1>3, <2>1, <2>2, <3>1 DEF InOrder, Current
    <3> QED
      BY <2>1, <2>2, <3>1 DEF InOrder
  <2>3. CASE /\ ap.WpaState >= PTKSTART /\ ap'.PTK = <<ap.ANonce, up[1].nonce>> /\ ap'.WpaState = ap.WpaState
             /\ ap'.Established = ap.Established
             /\ \/ up[1].rc = ap.R_Counter /\ up[1].mic = ap'.PTK
                \/ mlmePc' = "idle"
    <3>1. 1 \in Ups("pair2") /\ ap'.PTK[1] = ap.ANonce /\ ap'.PTK[2] = up[1].nonce /\ up[1].nonce \in Nat
      BY <1>2, <2>1, <2>3, ChannelNumbers
    <3>2. ASSUME mlmePc' = "answer" PROVE ap'.WpaState = PTKSTART
      <4>1. up[1].mic[1] = ap.ANonce /\ up[1].rc = ap.R_Counter
        BY <2>3, <3>1, <3>2
      <4>2. ~(ap.WpaState >= NEGOTIATING)
        BY <1>1, <3>1, <4>1 DEF PairRcs
      <4> QED
        BY <1>1, <2>3, <4>2
    <3>3. ASSUME NEW i \in Ups("pair4")' PROVE ~Current(up[i])'
      <4>1. i + 1 \in Ups("pair4") /\ up'[i] = up[i + 1]
        BY <1>3, <2>1, <3>3
      <4>2. up[i + 1].mic[2] < up[1].nonce
        BY <3>1, <4>1 DEF Ord, Msg4Order, Old
      <4>3. up[i + 1].mic[2] \in Nat
        BY <1>2, <4>1, ChannelNumbers
      <4>4. up'[i].mic # ap'.PTK
        BY <3>1, <4>1, <4>2, <4>3
      <4> QED
        BY <4>4 DEF Current
    <3> QED
      BY <2>1, <2>3, <3>2, <3>3 DEF InOrder
  <2> QED
    BY <2>1, <2>2, <2>3
<1>8. CASE PeerPairMsg2Answer
  <2>1. /\ mlmePc = "answer" /\ mlmePc' = "idle" /\ up' = up /\ timerPc' = timerPc
        /\ \/ ap' = ap
           \/ /\ ap.in /\ ap'.WpaState = NEGOTIATING /\ ap'.PTK = ap.PTK /\ ap'.Established = ap.Established
    BY <1>8, AnswerDoes
  <2>2. CASE ap' = ap
    BY <2>1, <2>2 DEF InOrder, Current
  <2>3. CASE /\ ap.in /\ ap'.WpaState = NEGOTIATING /\ ap'.PTK = ap.PTK /\ ap'.Established = ap.Established
    <3>1. ASSUME NEW i \in Ups("pair4") PROVE up[i].mic # ap.PTK
      <4>1. up[i].mic[2] < ap.PTK[2] /\ up[i].mic[2] \in Nat
        BY <1>2, <2>1, <2>3, <3>1, ChannelNumbers DEF Ord, Msg4Order, Old
      <4> QED
        BY <1>1, <4>1
    <3>2. ~ap.Established
      BY <2>1, <2>3 DEF InOrder
    <3> QED
      BY <2>1, <2>3, <3>1, <3>2 DEF InOrder, Current
  <2> QED
    BY <2>1, <2>2, <2>3
<1>9. CASE PeerPairMsg4Action
  <2>1. /\ Takes(up, up') /\ Len(up) >= 1 /\ up[1].t = "pair4" /\ mlmePc = "idle" /\ mlmePc' = mlmePc
        /\ timerPc' = timerPc
        /\ \/ ap' = ap
           \/ ap.in /\ ap.WpaState >= NEGOTIATING /\ up[1].mic = ap.PTK /\ ap'.WpaState = DONE
    BY <1>9, Msg4Does
  <2>2. CASE ap' = ap
    <3>1. ASSUME timerPc = "send", NEW i \in Ups("pair4")' PROVE ~Current(up[i])'
      BY <1>3, <2>1, <2>2, <3>1 DEF InOrder, Current
    <3> QED
      BY <2>1, <2>2, <3>1 DEF InOrder
  <2>3. CASE ap.in /\ ap.WpaState >= NEGOTIATING /\ up[1].mic = ap.PTK /\ ap'.WpaState = DONE
    <3>1. 1 \in Ups("pair4") /\ Current(up[1])
      BY <1>2, <2>1, <2>3 DEF Current
    <3>2. timerPc # "send"
      BY <3>1 DEF InOrder
    <3> QED
      BY <2>1, <2>3, <3>2 DEF InOrder
  <2> QED
    BY <2>1, <2>2, <2>3
<1>10. CASE PeerGroupMsg2Action
  <2>1. /\ Takes(up, up') /\ mlmePc' = mlmePc /\ timerPc' = timerPc
        /\ ap' = ap \/ (SameEntry(ap', ap) /\ ap.WpaState = DONE)
    BY <1>10, Group2Does
  <2>2. ASSUME timerPc = "send", NEW i \in Ups("pair4")' PROVE ~Current(up[i])'
    BY <1>3, <2>1, <2>2 DEF InOrder, Current, SameEntry
  <2> QED
    BY <2>1, <2>2 DEF InOrder, SameEntry
<1> QED
  BY <1>4, <1>5, <1>6, <1>7, <1>8, <1>9, <1>10 DEF ApMlme

LEMMA InOrderTimers == ASSUME TypeOK, InOrder, ApTimers PROVE InOrder'
<1>1. ap.WpaState \in 0 .. 10 /\ ap.ReTryCounter \in Nat
  BY Numbers
<1>2. CASE StartExec \/ CountDown
  BY <1>2, OtherTimersDo DEF InOrder, Current, Ups
<1>3. CASE WPARetryExec
  <2>1. /\ SameEntry(ap', ap) /\ ap'.Established = ap.Established /\ mlmePc' = mlmePc
        /\ timerPc' # "send"
    BY <1>1, <1>3, RetryExecDoes, RetryDoesWhat
  <2> QED
    BY <2>1 DEF InOrder, SameEntry
<1>4. CASE RetryDeauth
  BY <1>4, RetryDeauthDoes, NoEntryDoes DEF InOrder
<1>5. CASE RetryGroup \/ RekeyStations
  <2>1. /\ mlmePc' = mlmePc /\ timerPc' = "idle"
        /\ ap' = ap \/ (SameEntry(ap', ap) /\ (ap'.Established => ap.Established))
    BY <1>5, RetryGroupDoes, RekeyDoes
  <2> QED
    BY <2>1 DEF InOrder, SameEntry
<1>6. CASE RetryTest
  <2>1. /\ ap' = ap /\ mlmePc' = mlmePc /\ up' = up
        /\ timerPc' = "send" => ap.WpaState <= PTKSTART
    BY <1>1, <1>6, RetryTestDoes
  <2>2. ap.WpaState <= PTKSTART => ~(ap.WpaState >= NEGOTIATING) /\ ap.WpaState # DONE
    BY <1>1
  <2> QED
    BY <2>1, <2>2 DEF InOrder, Current
<1>7. CASE RetrySend
  <2>1. /\ timerPc = "send" /\ timerPc' = "idle" /\ mlmePc' = mlmePc
        /\ \/ /\ ap'.Established = ap.Established /\ ap'.in = ap.in
              /\ ap'.WpaState = PTKSTART \/ ap'.WpaState = ap.WpaState
           \/ ap' = ap
    BY <1>7, RetrySendDoes
  <2> QED
    BY <2>1 DEF InOrder
<1>8. CASE NewGTK
  BY <1>8, NewGTKDoes DEF InOrder
<1> QED
  BY <1>2, <1>3, <1>4, <1>5, <1>6, <1>7, <1>8 DEF ApTimers, StartExec

LEMMA InOrderStation == ASSUME Prompt, TypeOK, InOrder, Station PROVE InOrder'
<1>1. ap' = ap /\ timerPc' = timerPc /\ mlmePc' = mlmePc
  BY StationKeepsAp DEF ApKept
<1>2. CASE timerPc # "send"
  BY <1>1, <1>2 DEF InOrder
<1>3. CASE timerPc = "send"
  <2>1. up' = up \/ MaySend(up, up', OfType({"disassoc"}))
    BY <1>3, JoinDoes, JoinTimeoutDoes, LinkUpDoes, LeaveDoes, PeerDeauthDoes, StaMsg1Does, StaMsg3Does,
       StaGroup1Does DEF Station
  <2>2. ASSUME NEW i \in Ups("pair4")' PROVE i \in Ups("pair4") /\ up'[i] = up[i]
    <3>1. CASE up' = up
      BY <2>2, <3>1 DEF Ups
    <3>2. CASE MaySend(up, up', OfType({"disassoc"}))
      <4>1. up \in Seq(Frames) /\ i \in 1 .. Len(up') /\ up'[i].t = "pair4"
        BY <2>2 DEF TypeOK, Ups
      <4>2. (i \in 1 .. Len(up) /\ up'[i] = up[i]) \/ up'[i] \in OfType({"disassoc"})
        BY <3>2, <4>1, SentAt
      <4> QED
        BY <4>1, <4>2 DEF OfType, Ups
    <3> QED
      BY <2>1, <3>1, <3>2
  <2> QED
    BY <1>1, <1>3, <2>2 DEF InOrder, Current
<1> QED
  BY <1>2, <1>3

LEMMA InOrderStep ==
    ASSUME ~WPA2, Prompt, TypeOK, TypeOK', Ord, PairRcs, InOrder, [Next]_vars PROVE InOrder'
<1>1. CASE UNCHANGED vars
  BY <1>1 DEF vars, apVars, InOrder, Current, Ups
<1> QED
  BY <1>1, InOrderMlme, InOrderTimers, InOrderStation DEF Next

\* A frame of a handshake is numbered.
Numbered == \A i \in 1 .. Len(down) : down[i].t \in {"pair1", "pair3", "group1"} => down[i].rc > 0

LEMMA NumberedKept ==
    ASSUME Numbered, NEW G, Moves(down, down', G),
           \A g \in G : g.t \in {"pair1", "pair3", "group1"} => g.rc > 0
    PROVE  Numbered'
BY DEF Moves, Numbered

LEMMA StationSendsNothingDown ==
    ASSUME TypeOK, Station PROVE down' = down \/ Takes(down, down')
BY JoinDoes, JoinTimeoutDoes, LinkUpDoes, LeaveDoes, PeerDeauthDoes, StaMsg1Does, StaMsg3Does,
   StaGroup1Does DEF Station

LEMMA NumberedStep ==
    ASSUME "group1" \notin Fails, TypeOK, TypeOK', Numbered, [Next]_vars PROVE Numbered'
<1>1. down \in Seq(Frames) /\ down' \in Seq(Frames) /\ ap.R_Counter \in Nat
  BY Numbers DEF TypeOK
<1>2. ASSUME NEW G, MaySend(down, down', G), \A g \in G : g.t \in {"pair1", "pair3", "group1"} => g.rc > 0
      PROVE  Numbered'
  <2>1. Moves(down, down', G)
    BY <1>1, <1>2, SendMoves
  <2> QED
    BY <1>2, <2>1, NumberedKept
<1>3. ASSUME down' = down \/ Takes(down, down') PROVE Numbered'
  <2>1. Moves(down, down', {})
    BY <1>1, <1>3, StayMoves, TakeMoves
  <2> QED
    BY <2>1, NumberedKept
<1>4. ASSUME ap'.R_Counter = 1 \/ ap'.R_Counter = ap.R_Counter + 1
      PROVE  \A g \in Pair1Of(ap') \cup Pair3Of(ap') \cup Group1Of(ap') : g.rc > 0
  BY <1>1, <1>4 DEF Pair1Of, Pair3Of, Group1Of
<1>5. \A T : T \cap {"pair1", "pair3", "group1"} = {} =>
        \A g \in OfType(T) : g.t \in {"pair1", "pair3", "group1"} => g.rc > 0
  BY DEF OfType
<1>6. CASE ApAssoc \/ RetryDeauth
  <2>1. \/ down' = down \/ MaySend(down, down', OfType({"assocrsp"}))
        \/ MaySend(down, down', OfType({"deauth"}))
    BY <1>6, ApAssocDoes, RetryDeauthDoes
  <2>2. /\ \A g \in OfType({"assocrsp"}) : g.t \in {"pair1", "pair3", "group1"} => g.rc > 0
        /\ \A g \in OfType({"deauth"}) : g.t \in {"pair1", "pair3", "group1"} => g.rc > 0
    BY <1>5
  <2> QED
    BY <1>2, <1>3, <2>1, <2>2
<1>7. CASE \/ WpaEAPOLStartAction \/ PeerPairMsg2Answer \/ PeerPairMsg4Action
           \/ RetryGroup \/ RetrySend \/ RekeyStations
  <2>1. \/ down' = down
        \/ /\ ap'.R_Counter = 1 \/ ap'.R_Counter = ap.R_Counter + 1
           /\ \/ MaySend(down, down', Pair1Of(ap')) \/ MaySend(down, down', Pair3Of(ap'))
              \/ MaySend(down, down', Group1Of(ap'))
    <3>1. CASE WpaEAPOLStartAction
      BY <3>1, StartDoes
    <3>2. CASE PeerPairMsg2Answer
      BY <3>2, AnswerDoes
    <3>3. CASE PeerPairMsg4Action
      BY <3>3, Msg4Does
    <3>4. CASE RetryGroup
      BY <3>4, RetryGroupDoes
    <3>5. CASE RetrySend
      BY <3>5, RetrySendDoes
    <3>6. CASE RekeyStations
      BY <3>6, RekeyDoes
    <3> QED
      BY <1>7, <3>1, <3>2, <3>3, <3>4, <3>5, <3>6
  <2> QED
    BY <1>2, <1>3, <1>4, <2>1
<1>8. CASE \/ ApDisassoc \/ PeerPairMsg2Check \/ PeerGroupMsg2Action \/ Station
           \/ StartExec \/ CountDown \/ WPARetryExec \/ RetryTest \/ NewGTK
  BY <1>3, <1>8, ApDisassocDoes, CheckDoes, Group2Does, StationSendsNothingDown, OtherTimersDo,
     RetryExecDoes, RetryTestDoes, NewGTKDoes
<1>9. CASE UNCHANGED vars
  BY <1>9 DEF vars, Numbered
<1> QED
  BY <1>6, <1>7, <1>8, <1>9 DEF Next, ApMlme, ApTimers, StartExec

\* While the answer to message 3 is on its way nothing in flight is newer than the
\* entry's replay counter, nor an answer behind it than the station's.
CurrentRcs ==
    /\ \A i \in Downs("pair3") : Current(down[i]) =>
         \A j \in 1 .. Len(down) : i < j => down[j].rc <= ap.R_Counter
    /\ \A i \in Ups("pair4") : Current(up[i]) =>
         /\ \A j \in 1 .. Len(down) : down[j].rc <= ap.R_Counter
         /\ \A j \in 1 .. Len(up) : i < j => up[j].rc <= ap.R_Counter
    /\ \A i \in Ups("pair4"), j \in Ups("group2") :
         i < j /\ Current(up[i]) /\ sta.link = "up" => up[j].rc <= sta.R_Counter

LEMMA CurrentRcsReset == ASSUME ~(ap'.in /\ ap'.WpaState >= NEGOTIATING) PROVE CurrentRcs'
BY DEF CurrentRcs, Current

LEMMA CurrentRcsKept ==
    ASSUME TypeOK, TypeOK', CurrentRcs, NEW F, NEW G,
           ap'.in /\ ap'.WpaState >= NEGOTIATING =>
               /\ ap.in /\ ap.WpaState >= NEGOTIATING /\ ap'.PTK = ap.PTK
               /\ ap.R_Counter <= ap'.R_Counter,
           sta'.link = "up" => sta.link = "up" /\ sta.R_Counter <= sta'.R_Counter,
           Moves(up, up', F),
           \A f \in F :
               /\ f.t # "pair4" /\ (f.t = "group2" => f.rc = sta'.R_Counter)
               /\ f.rc = 0 \/ \E m \in 1 .. Len(down) : f.rc = down[m].rc,
           Moves(down, down', G),
           \A g \in G : g.t # "pair3" /\ g.rc <= ap'.R_Counter
    PROVE  CurrentRcs'
<1> USE DEF Ups, Downs
<1>1. PICK k \in {0, 1} : \A i \in 1 .. Len(up') :
        \/ i + k <= Len(up) /\ up'[i] = up[i + k]
        \/ i = Len(up') /\ i + k > Len(up) /\ up'[i] \in F
  BY DEF Moves
<1>2. PICK l \in {0, 1} : \A i \in 1 .. Len(down') :
        \/ i + l <= Len(down) /\ down'[i] = down[i + l]
        \/ i = Len(down') /\ i + l > Len(down) /\ down'[i] \in G
  BY DEF Moves
<1>3. /\ ap.R_Counter \in Nat /\ ap'.R_Counter \in Nat /\ sta.R_Counter \in Nat /\ sta'.R_Counter \in Nat
      /\ \A i \in 1 .. Len(up) : up[i].rc \in Nat
      /\ \A i \in 1 .. Len(down) : down[i].rc \in Nat
  BY Numbers, ChannelNumbers DEF TypeOK, Entries, Stations
<1>4. /\ \A i \in 1 .. Len(up') : i \in Int /\ i >= 1 /\ i <= Len(up')
      /\ \A i \in 1 .. Len(down') : i \in Int /\ i >= 1 /\ i <= Len(down')
      /\ Len(up') \in Nat /\ Len(down') \in Nat
  BY DEF TypeOK
<1>5. ASSUME NEW f, Current(f)' PROVE Current(f) /\ ap.R_Counter <= ap'.R_Counter
  BY <1>5 DEF Current
<1>6. ASSUME NEW i \in Downs("pair3")', Current(down[i])', NEW j \in 1 .. Len(down'), i < j
      PROVE  down'[j].rc <= ap'.R_Counter
  <2>1. i + l \in Downs("pair3") /\ down'[i] = down[i + l] /\ i \in Int /\ j \in Int
    BY <1>2, <1>4, <1>6
  <2>2. Current(down[i + l]) /\ ap.R_Counter <= ap'.R_Counter
    BY <1>6, <2>1 DEF Current
  <2>3. CASE j + l \in 1 .. Len(down) /\ down'[j] = down[j + l]
    <3>1. i + l < j + l
      BY <1>6, <2>1
    <3>2. down[j + l].rc <= ap.R_Counter
      BY <2>1, <2>2, <2>3, <3>1 DEF CurrentRcs
    <3> QED
      BY <1>3, <2>2, <2>3, <3>2
  <2>4. CASE down'[j] \in G
    BY <2>4
  <2> QED
    BY <1>2, <2>1, <2>3, <2>4
<1>7. ASSUME NEW i \in Ups("pair4")', Current(up[i])'
      PROVE  /\ i + k \in Ups("pair4") /\ Current(up[i + k]) /\ ap.R_Counter <= ap'.R_Counter /\ i \in Int
             /\ \A j \in 1 .. Len(down) : down[j].rc <= ap.R_Counter
             /\ \A j \in 1 .. Len(up) : i + k < j => up[j].rc <= ap.R_Counter
  <2>1. i + k \in Ups("pair4") /\ up'[i] = up[i + k] /\ i \in Int
    BY <1>1, <1>4, <1>7
  <2>2. Current(up[i + k]) /\ ap.R_Counter <= ap'.R_Counter
    BY <1>7, <2>1 DEF Current
  <2> QED
    BY <2>1, <2>2 DEF CurrentRcs
<1>8. ASSUME NEW i \in Ups("pair4")', Current(up[i])', NEW j \in 1 .. Len(down')
      PROVE  down'[j].rc <= ap'.R_Counter
  <2>1. CASE j + l \in 1 .. Len(down) /\ down'[j] = down[j + l]
    <3>1. down[j + l].rc <= ap.R_Counter /\ ap.R_Counter <= ap'.R_Counter
      BY <1>7, <1>8, <2>1
    <3> QED
      BY <1>3, <2>1, <3>1
  <2>2. CASE down'[j] \in G
    BY <2>2
  <2> QED
    BY <1>2, <2>1, <2>2
<1>9. ASSUME NEW i \in Ups("pair4")', Current(up[i])', NEW j \in 1 .. Len(up'), i < j
      PROVE  up'[j].rc <= ap'.R_Counter
  <2>1. CASE j + k \in 1 .. Len(up) /\ up'[j] = up[j + k]
    <3>1. i + k < j + k
      BY <1>4, <1>7, <1>9
    <3>2. up[j + k].rc <= ap.R_Counter /\ ap.R_Counter <= ap'.R_Counter
      BY <1>7, <1>9, <2>1, <3>1
    <3> QED
      BY <1>3, <2>1, <3>2
  <2>2. CASE up'[j] \in F
    <3>1. CASE up'[j].rc = 0
      BY <1>3, <3>1
    <3>2. CASE \E m \in 1 .. Len(down) : up'[j].rc = down[m].rc
      <4>1. PICK m \in 1 .. Len(down) : up'[j].rc = down[m].rc
        BY <3>2
      <4>2. down[m].rc <= ap.R_Counter /\ ap.R_Counter <= ap'.R_Counter
        BY <1>7, <1>9
      <4> QED
        BY <1>3, <4>1, <4>2
    <3> QED
      BY <2>2, <3>1, <3>2
  <2> QED
    BY <1>1, <2>1, <2>2
<1>10. ASSUME NEW i \in Ups("pair4")', Current(up[i])', NEW j \in Ups("group2")', i < j, sta'.link = "up"
       PROVE  up'[j].rc <= sta'.R_Counter
  <2>1. CASE j + k \in Ups("group2") /\ up'[j] = up[j + k]
    <3>1. i + k < j + k
      BY <1>4, <1>7, <1>10
    <3>2. up[j + k].rc <= sta.R_Counter
      BY <1>7, <1>10, <2>1, <3>1 DEF CurrentRcs
    <3> QED
      BY <1>3, <1>10, <2>1, <3>2
  <2>2. CASE up'[j] \in F
    BY <1>3, <1>10, <2>2
  <2> QED
    BY <1>1, <1>10, <2>1, <2>2
<1> QED
  BY <1>6, <1>8, <1>9, <1>10 DEF CurrentRcs

LEMMA CurrentRcsCheck == ASSUME TypeOK, TypeOK', Ord, CurrentRcs, PeerPairMsg2Check PROVE CurrentRcs'
<1> USE DEF Ups, Downs
<1>1. /\ Takes(up, up') /\ Len(up) >= 1 /\ up[1].t = "pair2" /\ down' = down /\ sta' = sta
      /\ ap' = ap \/ ap'.PTK = <<ap.ANonce, up[1].nonce>>
  BY CheckDoes
<1>2. up \in Seq(Frames) /\ down \in Seq(Frames) /\ up' \in Seq(Frames) /\ down' \in Seq(Frames)
  BY DEF TypeOK
<1>3. CASE ap' = ap
  <2>1. Moves(up, up', {}) /\ Moves(down, down', {}) /\ ap.R_Counter \in Nat /\ sta.R_Counter \in Nat
    BY <1>1, <1>2, StayMoves, TakeMoves, Numbers
  <2> QED
    BY <1>1, <1>3, <2>1, CurrentRcsKept
<1>4. CASE ap'.PTK = <<ap.ANonce, up[1].nonce>>
  <2> DEFINE k == up[1].nonce
  <2>1. 1 \in Ups("pair2") /\ k \in Nat /\ ap'.PTK[2] = k
    BY <1>1, <1>2, <1>4, ChannelNumbers
  <2>2. ASSUME NEW i \in Downs("pair3") PROVE down[i].mic[2] < k
    BY <2>1, <2>2 DEF Ord, Msg3Order, Old
  <2>3. ASSUME NEW i \in Ups("pair4") PROVE up[i].mic[2] < k
    BY <2>1, <2>3 DEF Ord, Msg4Order, Old
  <2> HIDE DEF k
  <2>4. ASSUME NEW i \in Downs("pair3")' PROVE ~Current(down[i])'
    BY <1>1, <2>1, <2>2, <2>4 DEF Current
  <2>5. ASSUME NEW i \in Ups("pair4")' PROVE ~Current(up[i])'
    <3>1. i + 1 \in Ups("pair4") /\ up'[i] = up[i + 1]
      BY <1>1, <1>2, <2>5, TakenAt
    <3>2. up'[i].mic[2] < k
      BY <2>3, <3>1
    <3> QED
      BY <2>1, <3>2 DEF Current
  <2> QED
    BY <2>4, <2>5 DEF CurrentRcs
<1> QED
  BY <1>1, <1>3, <1>4

LEMMA CurrentRcsAnswer == ASSUME TypeOK, TypeOK', Ord, CurrentRcs, PeerPairMsg2Answer PROVE CurrentRcs'
<1> USE DEF Ups, Downs
<1>1. /\ mlmePc = "answer" /\ up' = up /\ sta' = sta
      /\ \/ ap.in /\ ap'.PTK = ap.PTK /\ MaySend(down, down', Pair3Of(ap'))
         \/ UNCHANGED <<ap, down>>
  BY AnswerDoes
<1>2. up \in Seq(Frames) /\ down \in Seq(Frames) /\ up' \in Seq(Frames) /\ down' \in Seq(Frames)
  BY DEF TypeOK
<1>3. CASE UNCHANGED <<ap, down>>
  BY <1>1, <1>3 DEF CurrentRcs, Current
<1>4. CASE ap.in /\ ap'.PTK = ap.PTK /\ MaySend(down, down', Pair3Of(ap'))
  <2>1. ap.PTK[2] \in Nat /\ Len(down) \in Nat
    BY <1>2, Numbers
  <2>2. ASSUME NEW i \in Downs("pair3") PROVE down[i].mic # ap.PTK
    <3>1. down[i].mic[2] < ap.PTK[2] /\ down[i].mic[2] \in Nat
      BY <1>1, <1>2, <1>4, <2>2, ChannelNumbers DEF Ord, Msg3Order, Old
    <3> QED
      BY <2>1, <3>1
  <2>3. ASSUME NEW i \in Ups("pair4") PROVE up[i].mic # ap.PTK
    <3>1. up[i].mic[2] < ap.PTK[2] /\ up[i].mic[2] \in Nat
      BY <1>1, <1>2, <1>4, <2>3, ChannelNumbers DEF Ord, Msg4Order, Old
    <3> QED
      BY <2>1, <3>1
  <2>4. ASSUME NEW i \in 1 .. Len(down')
        PROVE  (i \in 1 .. Len(down) /\ down'[i] = down[i]) \/ i = Len(down) + 1
    BY <1>2, <1>4, SentAt
  <2>5. ASSUME NEW i \in Downs("pair3")', Current(down[i])', NEW j \in 1 .. Len(down'), i < j
        PROVE  FALSE
    <3>1. ~(i \in 1 .. Len(down) /\ down'[i] = down[i])
      BY <1>4, <2>2, <2>5 DEF Current
    <3>2. i = Len(down) + 1
      BY <2>4, <2>5, <3>1
    <3>3. j \in Int /\ j <= Len(down) + 1
      BY <2>1, <2>4
    <3> QED
      BY <2>1, <2>5, <3>2, <3>3
  <2>6. ASSUME NEW i \in Ups("pair4")' PROVE ~Current(up[i])'
    BY <1>1, <1>4, <2>3, <2>6 DEF Current
  <2> QED
    BY <2>5, <2>6 DEF CurrentRcs
<1> QED
  BY <1>1, <1>3, <1>4

\* Message 4 carries the replay counter of message 3.
LEMMA CurrentRcsMsg3 ==
    ASSUME TypeOK, TypeOK', Numbered, CurrentRcs, PeerPairMsg3Action PROVE CurrentRcs'
<1> USE DEF Ups, Downs
<1>1. /\ Takes(down, down') /\ Len(down) >= 1 /\ down[1].t = "pair3" /\ ap' = ap
      /\ \/ UNCHANGED <<sta, up>>
         \/ /\ StaTaken(down[1])
            /\ \/ MaySend(up, up', Pair4Of(sta'))
               \/ up' = up
  BY StaMsg3Does DEF ApKept
<1>2. up \in Seq(Frames) /\ down \in Seq(Frames) /\ up' \in Seq(Frames) /\ down' \in Seq(Frames)
  BY DEF TypeOK
<1>3. /\ ap.R_Counter \in Nat /\ sta.R_Counter \in Nat /\ down[1].rc \in Nat /\ 1 \in Downs("pair3")
      /\ Len(up) \in Nat /\ Len(down) \in Nat
  <2>1. ap.R_Counter \in Nat /\ sta.R_Counter \in Nat
    BY Numbers
  <2>2. Len(up) \in Nat /\ Len(down) \in Nat /\ 1 \in 1 .. Len(down)
    BY <1>1, <1>2
  <2>3. down[1].rc \in Nat
    BY <1>2, <2>2, ChannelNumbers
  <2> QED
    BY <1>1, <2>1, <2>2, <2>3
<1>4. CASE UNCHANGED <<sta, up>>
  <2>1. Moves(up, up', {}) /\ Moves(down, down', {})
    BY <1>1, <1>2, <1>4, StayMoves, TakeMoves
  <2> QED
    BY <1>1, <1>3, <1>4, <2>1, CurrentRcsKept
<1>5. CASE StaTaken(down[1])
  <2>1. /\ sta'.link = "up" /\ sta.link = "up" /\ sta'.R_Counter = down[1].rc /\ sta.R_Counter < sta'.R_Counter
        /\ sta'.PTK = sta.PTK /\ down[1].mic = sta.PTK
    <3>1. down[1].rc > 0
      BY <1>3 DEF Numbered
    <3> QED
      BY <1>1, <1>3, <1>5, <3>1 DEF StaTaken, StaAccepts
  <2>2. CASE up' = up
    <3>1. Moves(up, up', {}) /\ Moves(down, down', {})
      BY <1>1, <1>2, <2>2, StayMoves, TakeMoves
    <3> QED
      BY <1>1, <1>3, <2>1, <3>1, CurrentRcsKept
  <2>3. CASE MaySend(up, up', Pair4Of(sta'))
    <3>1. ASSUME NEW i \in 1 .. Len(down') PROVE i + 1 \in 1 .. Len(down) /\ down'[i] = down[i + 1] /\ i \in Nat /\ i >= 1
      BY <1>1, <1>2, <3>1, TakenAt
    <3>2. ASSUME NEW i \in 1 .. Len(up')
          PROVE  \/ i \in 1 .. Len(up) /\ up'[i] = up[i]
                 \/ /\ i = Len(up) + 1 /\ up'[i].t = "pair4" /\ up'[i].rc = down[1].rc
                    /\ up'[i].mic = down[1].mic
      BY <1>2, <2>1, <2>3, SentAt DEF Pair4Of
    <3>3. ASSUME NEW i \in Downs("pair3")', Current(down[i])', NEW j \in 1 .. Len(down'), i < j
          PROVE  down'[j].rc <= ap'.R_Counter
      <4>1. /\ i + 1 \in Downs("pair3") /\ Current(down[i + 1]) /\ j + 1 \in 1 .. Len(down)
            /\ down'[j] = down[j + 1] /\ i + 1 < j + 1
        BY <1>1, <3>1, <3>3 DEF Current
      <4> QED
        BY <1>1, <4>1 DEF CurrentRcs
    <3>4. ASSUME Current(down[1]), NEW j \in 1 .. Len(down') PROVE down'[j].rc <= ap'.R_Counter
      <4>1. j + 1 \in 1 .. Len(down) /\ down'[j] = down[j + 1] /\ 1 < j + 1
        BY <3>1
      <4> QED
        BY <1>1, <1>3, <3>4, <4>1 DEF CurrentRcs
    <3>5. ASSUME NEW i \in Ups("pair4")', Current(up[i])', NEW j \in 1 .. Len(down')
          PROVE  down'[j].rc <= ap'.R_Counter
      <4>1. CASE i \in 1 .. Len(up) /\ up'[i] = up[i]
        <5>1. i \in Ups("pair4") /\ Current(up[i])
          BY <1>1, <3>5, <4>1 DEF Current
        <5>2. \A m \in 1 .. Len(down) : down[m].rc <= ap.R_Counter
          BY <5>1 DEF CurrentRcs
        <5> QED
          BY <1>1, <3>1, <5>2
      <4>2. CASE up'[i].mic = down[1].mic
        <5>1. Current(down[1])
          BY <1>1, <3>5, <4>2 DEF Current
        <5> QED
          BY <3>4, <5>1
      <4> QED
        BY <3>2, <3>5, <4>1, <4>2
    <3>6. ASSUME NEW i \in Ups("pair4")', Current(up[i])', NEW j \in 1 .. Len(up'), i < j
          PROVE  /\ up'[j].rc <= ap'.R_Counter
                 /\ up'[j].t = "group2" => up'[j].rc <= sta'.R_Counter
      <4>1. i \in 1 .. Len(up) /\ up'[i] = up[i] /\ j \in Int /\ i \in Int
        BY <1>3, <3>2, <3>6
      <4>2. i \in Ups("pair4") /\ Current(up[i])
        BY <1>1, <3>6, <4>1 DEF Current
      <4>3. CASE j \in 1 .. Len(up) /\ up'[j] = up[j]
        <5>1. up[j].rc <= ap.R_Counter
          BY <3>6, <4>2, <4>3 DEF CurrentRcs
        <5>2. up[j].t = "group2" => up[j].rc <= sta.R_Counter
          BY <2>1, <3>6, <4>2, <4>3 DEF CurrentRcs
        <5>3. up[j].rc \in Nat
          BY <1>2, <4>3, ChannelNumbers
        <5> QED
          BY <1>1, <1>3, <2>1, <4>3, <5>1, <5>2, <5>3
      <4>4. CASE up'[j].t = "pair4" /\ up'[j].rc = down[1].rc
        <5>1. down[1].rc <= ap.R_Counter
          BY <1>3, <4>2 DEF CurrentRcs
        <5> QED
          BY <1>1, <4>4, <5>1
      <4> QED
        BY <3>2, <4>3, <4>4
    <3> QED
      BY <3>3, <3>5, <3>6 DEF CurrentRcs
  <2> QED
    BY <1>1, <1>5, <2>2, <2>3, <1>4
<1> QED
  BY <1>1, <1>4, <1>5

LEMMA CurrentRcsLinkUp == ASSUME TypeOK, TypeOK', Agr, CurrentRcs, LinkUp PROVE CurrentRcs'
<1> USE DEF Ups, Downs
<1>1. /\ Takes(down, down') /\ Len(down) >= 1 /\ down[1].t = "assocrsp" /\ ap' = ap /\ up' = up
  BY LinkUpDoes DEF ApKept
<1>2. down \in Seq(Frames)
  BY DEF TypeOK
<1>3. 1 \in Downs("assocrsp")
  BY <1>1, <1>2
<1>4. ASSUME NEW i \in 1 .. Len(down') PROVE i + 1 \in 1 .. Len(down) /\ down'[i] = down[i + 1] /\ i \in Nat
  BY <1>1, <1>2, <1>4, TakenAt
<1>5. ASSUME NEW i \in Downs("pair3")', Current(down[i])', NEW j \in 1 .. Len(down'), i < j
      PROVE  down'[j].rc <= ap'.R_Counter
  <2>1. /\ i + 1 \in Downs("pair3") /\ Current(down[i + 1]) /\ j + 1 \in 1 .. Len(down)
        /\ down'[j] = down[j + 1] /\ i + 1 < j + 1
    BY <1>1, <1>4, <1>5 DEF Current
  <2> QED
    BY <1>1, <2>1 DEF CurrentRcs
<1>6. ASSUME NEW i \in Ups("pair4")' PROVE ~Current(up[i])'
  BY <1>1, <1>3, <1>6 DEF Agr, Msg4Agrees, Current
<1> QED
  BY <1>5, <1>6 DEF CurrentRcs

\* Whatever leaves the handshake alone, or numbers a frame of its own with a new counter.
LEMMA CurrentRcsSend ==
    ASSUME TypeOK, TypeOK', CurrentRcs, sta' = sta, up' = up \/ Takes(up, up'),
           ap'.in /\ ap'.WpaState >= NEGOTIATING =>
               /\ ap.in /\ ap.WpaState >= NEGOTIATING /\ ap'.PTK = ap.PTK
               /\ ap.R_Counter <= ap'.R_Counter,
           down' = down \/ MaySend(down, down', Group1Of(ap'))
    PROVE  CurrentRcs'
<1>1. /\ up \in Seq(Frames) /\ down \in Seq(Frames) /\ up' \in Seq(Frames) /\ down' \in Seq(Frames)
      /\ sta.R_Counter \in Nat /\ ap'.R_Counter \in Nat
  BY Numbers DEF TypeOK, Entries
<1>2. Moves(up, up', {}) /\ Moves(down, down', Group1Of(ap'))
  BY <1>1, StayMoves, TakeMoves, SendMoves
<1>3. \A g \in Group1Of(ap') : g.t # "pair3" /\ g.rc <= ap'.R_Counter
  BY <1>1 DEF Group1Of
<1>4. sta'.link = "up" => sta.link = "up" /\ sta.R_Counter <= sta'.R_Counter
  BY <1>1
<1>5. \A f \in {} :
         /\ f.t # "pair4" /\ (f.t = "group2" => f.rc = sta'.R_Counter)
         /\ f.rc = 0 \/ \E m \in 1 .. Len(down) : f.rc = down[m].rc
  OBVIOUS
<1> QED
  BY <1>2, <1>3, <1>4, <1>5, CurrentRcsKept

LEMMA CurrentRcsMlme == ASSUME TypeOK, TypeOK', Ord, CurrentRcs, ApMlme PROVE CurrentRcs'
<1>1. ap.R_Counter \in Nat
  BY Numbers
<1>2. CASE ApAssoc
  <2>1. ap'.WpaState = INITPSK
    BY <1>2, ApAssocDoes
  <2> QED
    BY <2>1, CurrentRcsReset
<1>3. CASE ApDisassoc
  BY <1>3, ApDisassocDoes, NoEntryDoes, CurrentRcsReset
<1>4. CASE WpaEAPOLStartAction
  <2>1. \/ ap'.WpaState = PTKSTART \/ ap'.WpaState = INITPSK
        \/ UNCHANGED <<ap, down, sta, up>>
    BY <1>4, StartDoes
  <2>2. CASE ap'.WpaState = PTKSTART \/ ap'.WpaState = INITPSK
    BY <2>2, CurrentRcsReset
  <2>3. CASE UNCHANGED <<ap, down, sta, up>>
    BY <1>1, <2>3, CurrentRcsSend
  <2> QED
    BY <2>1, <2>2, <2>3
<1>5. CASE PeerPairMsg2Check
  BY <1>5, CurrentRcsCheck
<1>6. CASE PeerPairMsg2Answer
  BY <1>6, CurrentRcsAnswer
<1>7. CASE PeerPairMsg4Action
  <2>1. /\ Takes(up, up') /\ sta' = sta
        /\ \/ ap' = ap /\ down' = down
           \/ /\ ap.in /\ ap.WpaState >= NEGOTIATING /\ ap'.PTK = ap.PTK
              /\ ap'.R_Counter = ap.R_Counter \/ ap'.R_Counter = ap.R_Counter + 1
              /\ down' = down \/ MaySend(down, down', Group1Of(ap'))
    BY <1>7, Msg4Does
  <2>2. ap.R_Counter <= ap'.R_Counter
    BY <1>1, <2>1
  <2>3. /\ ap'.in /\ ap'.WpaState >= NEGOTIATING => ap.in /\ ap.WpaState >= NEGOTIATING /\ ap'.PTK = ap.PTK
        /\ down' = down \/ MaySend(down, down', Group1Of(ap'))
    BY <2>1
  <2> QED
    BY <2>1, <2>2, <2>3, CurrentRcsSend
<1>8. CASE PeerGroupMsg2Action
  <2>1. /\ Takes(up, up') /\ sta' = sta /\ down' = down
        /\ ap' = ap \/ (SameEntry(ap', ap) /\ ap'.R_Counter = ap.R_Counter)
    BY <1>8, Group2Does
  <2>2. /\ ap'.in = ap.in /\ ap'.WpaState = ap.WpaState /\ ap'.PTK = ap.PTK
        /\ ap.R_Counter <= ap'.R_Counter
    BY <1>1, <2>1 DEF SameEntry
  <2> QED
    BY <2>1, <2>2, CurrentRcsSend
<1> QED
  BY <1>2, <1>3, <1>4, <1>5, <1>6, <1>7, <1>8 DEF ApMlme

LEMMA CurrentRcsTimers == ASSUME TypeOK, TypeOK', CurrentRcs, ApTimers PROVE CurrentRcs'
<1>1. ap.R_Counter \in Nat
  BY Numbers
<1>2. ASSUME UNCHANGED <<ap, sta, down, up>> PROVE CurrentRcs'
  BY <1>1, <1>2, CurrentRcsSend
<1>3. CASE StartExec \/ CountDown \/ RetryTest \/ NewGTK
  BY <1>2, <1>3, OtherTimersDo, RetryTestDoes, NewGTKDoes
<1>4. CASE WPARetryExec \/ RetryGroup \/ RekeyStations
  <2>1. /\ up' = up /\ sta' = sta
        /\ ap' = ap \/ SameEntry(ap', ap)
        /\ ap' = ap \/ ap'.R_Counter = ap.R_Counter \/ ap'.R_Counter = ap.R_Counter + 1
        /\ down' = down \/ MaySend(down, down', Group1Of(ap'))
    BY <1>4, RetryExecDoes, RetryGroupDoes, RekeyDoes
  <2>2. /\ ap'.in = ap.in /\ ap'.WpaState = ap.WpaState /\ ap'.PTK = ap.PTK
        /\ ap.R_Counter <= ap'.R_Counter
    BY <1>1, <2>1 DEF SameEntry
  <2> QED
    BY <2>1, <2>2, CurrentRcsSend
<1>5. CASE RetryDeauth
  <2>1. ap' = NoEntry \/ UNCHANGED <<ap, sta, down, up>>
    BY <1>5, RetryDeauthDoes
  <2> QED
    BY <1>2, <2>1, NoEntryDoes, CurrentRcsReset
<1>6. CASE RetrySend
  <2>1. \/ ap'.WpaState = PTKSTART
        \/ /\ ap'.in = ap.in /\ ap'.WpaState = ap.WpaState /\ ap'.PTK = ap.PTK
           /\ ap'.R_Counter = ap.R_Counter + 1 /\ UNCHANGED <<sta, down, up>>
        \/ UNCHANGED <<ap, sta, down, up>>
    BY <1>6, RetrySendDoes
  <2>2. CASE /\ ap'.in = ap.in /\ ap'.WpaState = ap.WpaState /\ ap'.PTK = ap.PTK
             /\ ap'.R_Counter = ap.R_Counter + 1 /\ UNCHANGED <<sta, down, up>>
    BY <1>1, <2>2, CurrentRcsSend
  <2> QED
    BY <1>2, <2>1, <2>2, CurrentRcsReset
<1> QED
  BY <1>3, <1>4, <1>5, <1>6 DEF ApTimers, StartExec

LEMMA CurrentRcsStation == ASSUME TypeOK, TypeOK', Numbered, Agr, CurrentRcs, Station PROVE CurrentRcs'
<1>1. /\ up \in Seq(Frames) /\ down \in Seq(Frames) /\ up' \in Seq(Frames) /\ down' \in Seq(Frames)
      /\ sta.R_Counter \in Nat /\ ap.R_Counter \in Nat
  BY Numbers DEF TypeOK
<1>2. ap' = ap
  BY StationKeepsAp DEF ApKept
<1>3. ASSUME NEW F, Moves(up, up', F), down' = down \/ Takes(down, down'),
             sta'.link = "up" => sta.link = "up" /\ sta.R_Counter <= sta'.R_Counter,
             \A f \in F :
               /\ f.t # "pair4" /\ (f.t = "group2" => f.rc = sta'.R_Counter)
               /\ f.rc = 0 \/ \E m \in 1 .. Len(down) : f.rc = down[m].rc
      PROVE  CurrentRcs'
  <2>1. Moves(down, down', {}) /\ ap.R_Counter <= ap'.R_Counter
    BY <1>1, <1>2, <1>3, StayMoves, TakeMoves
  <2>2. \A g \in {} : g.t # "pair3" /\ g.rc <= ap'.R_Counter
    OBVIOUS
  <2> QED
    BY <1>2, <1>3, <2>1, <2>2, CurrentRcsKept
<1>4. ASSUME NEW T, T \cap {"pair4", "group2"} = {}, NEW f \in OfType(T)
      PROVE  f.t # "pair4" /\ f.t # "group2" /\ f.rc = 0
  BY <1>4 DEF OfType
<1>5. CASE Join \/ Leave
  <2>1. /\ sta'.link # "up" /\ down' = down
        /\ MaySend(up, up', OfType({"assocreq"})) \/ MaySend(up, up', OfType({"disassoc"}))
    BY <1>5, JoinDoes, LeaveDoes
  <2>2. Moves(up, up', OfType({"assocreq"})) \/ Moves(up, up', OfType({"disassoc"}))
    BY <1>1, <2>1, SendMoves
  <2> QED
    BY <1>3, <1>4, <2>1, <2>2
<1>6. CASE JoinTimeout \/ PeerDeauth
  <2>1. /\ sta'.link # "up" \/ sta' = sta
        /\ down' = down \/ Takes(down, down')
        /\ up' = up
    BY <1>6, JoinTimeoutDoes, PeerDeauthDoes
  <2>2. Moves(up, up', {})
    BY <1>1, <2>1, StayMoves
  <2>3. sta'.link = "up" => sta.link = "up" /\ sta.R_Counter <= sta'.R_Counter
    BY <1>1, <2>1
  <2> QED
    BY <1>3, <2>1, <2>2, <2>3
<1>7. CASE LinkUp
  BY <1>7, CurrentRcsLinkUp
<1>8. CASE PeerPairMsg3Action
  BY <1>8, CurrentRcsMsg3
<1>9. CASE PeerPairMsg1Action \/ PeerGroupMsg1Action
  <2>1. /\ Takes(down, down') /\ Len(down) >= 1 /\ down[1].t \in {"pair1", "group1"}
        /\ \/ UNCHANGED <<sta, up>>
           \/ /\ StaAccepts(down[1]) /\ sta'.R_Counter = down[1].rc
              /\ \/ up' = up \/ MaySend(up, up', Pair2Of(sta')) \/ MaySend(up, up', Group2Of(sta'))
    BY <1>9, StaMsg1Does, StaGroup1Does DEF StaTaken
  <2>2. 1 \in 1 .. Len(down) /\ down[1].rc > 0 /\ down[1].rc \in Nat
    <3>1. 1 \in 1 .. Len(down) /\ down[1].rc \in Nat
      BY <1>1, <2>1, ChannelNumbers
    <3> QED
      BY <2>1, <3>1 DEF Numbered
  <2>3. CASE UNCHANGED <<sta, up>>
    <3>1. Moves(up, up', {}) /\ (sta'.link = "up" => sta.link = "up" /\ sta.R_Counter <= sta'.R_Counter)
      BY <1>1, <2>3, StayMoves
    <3> QED
      BY <1>3, <2>1, <3>1
  <2>4. CASE /\ StaAccepts(down[1]) /\ sta'.R_Counter = down[1].rc
             /\ \/ up' = up \/ MaySend(up, up', Pair2Of(sta')) \/ MaySend(up, up', Group2Of(sta'))
    <3>1. sta.link = "up" /\ sta.R_Counter <= sta'.R_Counter
      BY <1>1, <2>2, <2>4 DEF StaAccepts
    <3>2. Moves(up, up', Pair2Of(sta')) \/ Moves(up, up', Group2Of(sta'))
      BY <1>1, <2>4, StayMoves, SendMoves
    <3>3. \A f \in Pair2Of(sta') \cup Group2Of(sta') :
            /\ f.t # "pair4" /\ (f.t = "group2" => f.rc = sta'.R_Counter)
            /\ f.rc = down[1].rc
      BY <2>4 DEF Pair2Of, Group2Of
    <3>4. \A f \in Pair2Of(sta') \cup Group2Of(sta') :
            /\ f.t # "pair4" /\ (f.t = "group2" => f.rc = sta'.R_Counter)
            /\ f.rc = 0 \/ \E m \in 1 .. Len(down) : f.rc = down[m].rc
      BY <2>2, <3>3
    <3> QED
      BY <1>3, <2>1, <3>1, <3>2, <3>4
  <2> QED
    BY <2>1, <2>3, <2>4
<1> QED
  BY <1>5, <1>6, <1>7, <1>8, <1>9 DEF Station

LEMMA CurrentRcsStep ==
    ASSUME TypeOK, TypeOK', Ord, Agr, Numbered, CurrentRcs, [Next]_vars PROVE CurrentRcs'
<1>1. CASE UNCHANGED vars
  BY <1>1 DEF vars, apVars, CurrentRcs, Current, Ups, Downs
<1> QED
  BY <1>1, CurrentRcsMlme, CurrentRcsTimers, CurrentRcsStation DEF Next

\* When the access point is done nothing in flight is newer than its replay counter.  What
\* has the counter itself is of the newest group key, and so is the station that has it,
\* until GREKEYPeriodicExec makes another.
Newest == timerPc # "rekey" => sta.GTK = GTK
DoneRcs ==
    Done =>
        /\ \A j \in 1 .. Len(down) :
             /\ down[j].rc <= ap.R_Counter
             /\ timerPc # "rekey" /\ down[j].t = "group1" /\ down[j].rc = ap.R_Counter => down[j].gtk = GTK
        /\ \A j \in 1 .. Len(up) :
             /\ up[j].rc <= ap.R_Counter
             /\ up[j].t = "pair4" => up[j].rc < ap.R_Counter
             /\ up[j].t = "group2" /\ sta.link = "up" =>
                  up[j].rc <= sta.R_Counter /\ (up[j].rc = ap.R_Counter => Newest)
        /\ ap.Established /\ sta.link = "up" => ap.R_Counter <= sta.R_Counter /\ Newest

LEMMA DoneReset == ASSUME ~Done' PROVE DoneRcs'
BY DEF DoneRcs

\* Nothing new is numbered, and nothing older than what was numbered is sent.
LEMMA DoneKept ==
    ASSUME TypeOK, TypeOK', DoneRcs, Done' => Done, NEW F, NEW G,
           ap'.R_Counter = ap.R_Counter, GTK' = GTK,
           ap'.Established =>
               ap.Established \/ (sta.link = "up" => ap.R_Counter <= sta.R_Counter /\ Newest),
           timerPc = "rekey" => timerPc' = "rekey",
           sta'.link = "up" => sta.link = "up" /\ sta'.R_Counter = sta.R_Counter /\ sta'.GTK = sta.GTK,
           Moves(up, up', F), \A f \in F : f.t \notin {"pair4", "group2"} /\ f.rc = 0,
           Moves(down, down', G), \A g \in G : g.t # "group1" /\ g.rc = 0
    PROVE  DoneRcs'
<1>1. PICK k \in {0, 1} : \A i \in 1 .. Len(up') :
        \/ i + k <= Len(up) /\ up'[i] = up[i + k]
        \/ i = Len(up') /\ i + k > Len(up) /\ up'[i] \in F
  BY DEF Moves
<1>2. PICK l \in {0, 1} : \A i \in 1 .. Len(down') :
        \/ i + l <= Len(down) /\ down'[i] = down[i + l]
        \/ i = Len(down') /\ i + l > Len(down) /\ down'[i] \in G
  BY DEF Moves
<1>3. ap.R_Counter \in Nat
  BY Numbers
<1>4. SUFFICES ASSUME Done, Done' PROVE DoneRcs'
  BY DoneReset
<1>5. sta'.link = "up" => (Newest => Newest')
  BY DEF Newest
<1>6. ASSUME NEW j \in 1 .. Len(down')
      PROVE  /\ down'[j].rc <= ap'.R_Counter
             /\ timerPc' # "rekey" /\ down'[j].t = "group1" /\ down'[j].rc = ap'.R_Counter =>
                  down'[j].gtk = GTK'
  <2>1. CASE j + l \in 1 .. Len(down) /\ down'[j] = down[j + l]
    BY <1>4, <2>1 DEF DoneRcs
  <2>2. CASE down'[j] \in G
    BY <1>3, <2>2
  <2> QED
    BY <1>2, <1>6, <2>1, <2>2
<1>7. ASSUME NEW j \in 1 .. Len(up')
      PROVE  /\ up'[j].rc <= ap'.R_Counter
             /\ up'[j].t = "pair4" => up'[j].rc < ap'.R_Counter
             /\ up'[j].t = "group2" /\ sta'.link = "up" =>
                  up'[j].rc <= sta'.R_Counter /\ (up'[j].rc = ap'.R_Counter => Newest')
  <2>1. CASE j + k \in 1 .. Len(up) /\ up'[j] = up[j + k]
    <3>1. /\ up[j + k].rc <= ap.R_Counter
          /\ up[j + k].t = "pair4" => up[j + k].rc < ap.R_Counter
          /\ up[j + k].t = "group2" /\ sta.link = "up" =>
                  up[j + k].rc <= sta.R_Counter /\ (up[j + k].rc = ap.R_Counter => Newest)
      BY <1>4, <2>1 DEF DoneRcs
    <3> QED
      BY <1>5, <2>1, <3>1
  <2>2. CASE up'[j] \in F
    BY <1>3, <2>2
  <2> QED
    BY <1>1, <1>7, <2>1, <2>2
<1>8. ap'.Established /\ sta'.link = "up" => ap'.R_Counter <= sta'.R_Counter /\ Newest'
  BY <1>4, <1>5 DEF DoneRcs
<1> QED
  BY <1>6, <1>7, <1>8 DEF DoneRcs

\* A new counter, for the newest group key, leaves all that is in flight behind.
LEMMA DoneAgain ==
    ASSUME TypeOK, TypeOK', ap'.R_Counter = ap.R_Counter + 1, ~ap'.Established,
           sta' = sta, GTK' = GTK,
           up' = up \/ Takes(up, up'),
           MaySend(down, down', Group1Of(ap')),
           \A j \in 1 .. Len(down) : down[j].rc <= ap.R_Counter,
           \A j \in 1 .. Len(up') :
               up'[j].rc <= ap.R_Counter /\ (up'[j].t = "group2" /\ sta.link = "up" => up'[j].rc <= sta.R_Counter)
    PROVE  DoneRcs'
<1>1. /\ ap.R_Counter \in Nat /\ up' \in Seq(Frames) /\ down \in Seq(Frames) /\ down' \in Seq(Frames)
  BY Numbers DEF TypeOK
<1>2. /\ \A j \in 1 .. Len(down) : down[j].rc \in Nat
      /\ \A j \in 1 .. Len(up') : up'[j].rc \in Nat
  BY <1>1, ChannelNumbers
<1>3. ASSUME NEW j \in 1 .. Len(down')
      PROVE  /\ down'[j].rc <= ap'.R_Counter
             /\ timerPc' # "rekey" /\ down'[j].t = "group1" /\ down'[j].rc = ap'.R_Counter =>
                  down'[j].gtk = GTK'
  <2>1. CASE j \in 1 .. Len(down) /\ down'[j] = down[j]
    BY <1>1, <1>2, <2>1
  <2>2. CASE down'[j] \in Group1Of(ap')
    BY <1>1, <2>2 DEF Group1Of
  <2> QED
    BY <1>1, <2>1, <2>2, SentAt
<1>4. ASSUME NEW j \in 1 .. Len(up')
      PROVE  /\ up'[j].rc <= ap'.R_Counter
             /\ up'[j].t = "pair4" => up'[j].rc < ap'.R_Counter
             /\ up'[j].t = "group2" /\ sta'.link = "up" =>
                  up'[j].rc <= sta'.R_Counter /\ (up'[j].rc = ap'.R_Counter => Newest')
  <2>1. up'[j].rc <= ap.R_Counter /\ up'[j].rc \in Nat /\ up'[j].rc # ap'.R_Counter
    BY <1>1, <1>2
  <2> QED
    BY <1>1, <2>1
<1> QED
  BY <1>3, <1>4 DEF DoneRcs

\* A step of the access point that sends nothing numbered.
LEMMA DoneSilent ==
    ASSUME TypeOK, TypeOK', DoneRcs, Done' => Done, ap'.R_Counter = ap.R_Counter,
           ap'.Established =>
               ap.Established \/ (sta.link = "up" => ap.R_Counter <= sta.R_Counter /\ Newest),
           timerPc = "rekey" => timerPc' = "rekey",
           UNCHANGED <<GTK, sta, down>>, up' = up \/ Takes(up, up')
    PROVE  DoneRcs'
<1>1. /\ up \in Seq(Frames) /\ down \in Seq(Frames)
      /\ up' \in Seq(Frames) /\ down' \in Seq(Frames)
  BY DEF TypeOK
<1>2. Moves(up, up', {}) /\ Moves(down, down', {})
  BY <1>1, StayMoves, TakeMoves
<1>3. /\ \A f \in {} : f.t \notin {"pair4", "group2"} /\ f.rc = 0
      /\ \A g \in {} : g.t # "group1" /\ g.rc = 0
  OBVIOUS
<1> QED
  BY <1>2, <1>3, DoneKept

LEMMA DoneMsg4 ==
    ASSUME ~WPA2, "group1" \notin Fails, TypeOK, TypeOK', InOrder, CurrentRcs, DoneRcs, PeerPairMsg4Action
    PROVE  DoneRcs'
<1>1. /\ Takes(up, up') /\ Len(up) >= 1 /\ up[1].t = "pair4" /\ UNCHANGED <<GTK, sta, timerPc>>
      /\ \/ UNCHANGED <<ap, down>>
         \/ /\ ap.in /\ ap.WpaState >= NEGOTIATING /\ up[1].rc = ap.R_Counter /\ up[1].mic = ap.PTK
            /\ ap'.Established = ap.Established /\ MaySend(down, down', Group1Of(ap'))
            /\ ap'.R_Counter = ap.R_Counter + 1
  BY Msg4Does
<1>2. CASE UNCHANGED <<ap, down>>
  BY <1>1, <1>2, DoneSilent DEF Done
<1>3. CASE /\ ap.in /\ ap.WpaState >= NEGOTIATING /\ up[1].rc = ap.R_Counter /\ up[1].mic = ap.PTK
           /\ ap'.Established = ap.Established /\ MaySend(down, down', Group1Of(ap'))
           /\ ap'.R_Counter = ap.R_Counter + 1
  <2>1. up \in Seq(Frames) /\ Len(up) \in Nat /\ ap.R_Counter \in Nat
    BY Numbers DEF TypeOK
  <2>2. 1 \in 1 .. Len(up) /\ 1 \in Ups("pair4") /\ Current(up[1])
    BY <1>1, <1>3, <2>1 DEF Ups, Current
  <2>3. ap.WpaState # DONE
    BY <1>1, <1>3, <2>1, <2>2 DEF DoneRcs, Done
  <2>4. ~ap'.Established
    BY <1>3, <2>3 DEF InOrder
  <2>5. \A j \in 1 .. Len(down) : down[j].rc <= ap.R_Counter
    BY <2>2 DEF CurrentRcs
  <2>6. ASSUME NEW j \in 1 .. Len(up')
        PROVE  up'[j].rc <= ap.R_Counter /\ (up'[j].t = "group2" /\ sta.link = "up" => up'[j].rc <= sta.R_Counter)
    <3>1. j + 1 \in 1 .. Len(up) /\ up'[j] = up[j + 1] /\ 1 < j + 1
      BY <1>1, <2>1, TakenAt
    <3>2. up[j + 1].rc <= ap.R_Counter
      BY <2>2, <3>1 DEF CurrentRcs
    <3>3. up[j + 1].t = "group2" => j + 1 \in Ups("group2")
      BY <3>1 DEF Ups
    <3>4. up[j + 1].t = "group2" /\ sta.link = "up" => up[j + 1].rc <= sta.R_Counter
      BY <2>2, <3>1, <3>3 DEF CurrentRcs
    <3> QED
      BY <3>1, <3>2, <3>4
  <2> QED
    BY <1>1, <1>3, <2>4, <2>5, <2>6, DoneAgain
<1> QED
  BY <1>1, <1>2, <1>3

LEMMA DoneMlme ==
    ASSUME ~WPA2, "group1" \notin Fails, TypeOK, TypeOK', InOrder, CurrentRcs, DoneRcs, ApMlme
    PROVE  DoneRcs'
<1>1. ap.WpaState \in 0 .. 10
  BY Numbers
<1>2. CASE ApAssoc
  <2>1. ap'.WpaState = INITPSK
    BY <1>2, ApAssocDoes
  <2> QED
    BY <2>1, DoneReset DEF Done
<1>3. CASE ApDisassoc
  BY <1>3, ApDisassocDoes, NoEntryDoes, DoneReset DEF Done
<1>4. CASE WpaEAPOLStartAction
  <2>1. /\ UNCHANGED <<timerPc, GTK, sta, up>>
        /\ ap'.WpaState = PTKSTART \/ ap'.WpaState = INITPSK \/ UNCHANGED <<ap, down>>
    BY <1>4, StartDoes
  <2>2. CASE UNCHANGED <<ap, down>>
    BY <2>1, <2>2, DoneSilent DEF Done
  <2> QED
    BY <2>1, <2>2, DoneReset DEF Done
<1>5. CASE PeerPairMsg2Check
  <2>1. /\ Takes(up, up') /\ UNCHANGED <<timerPc, GTK, sta, down>>
        /\ \/ ap' = ap
           \/ /\ ap.in /\ ap'.WpaState = ap.WpaState /\ ap'.R_Counter = ap.R_Counter
              /\ ap'.Established = ap.Established
    BY <1>5, CheckDoes
  <2>2. (Done' => Done) /\ ap'.R_Counter = ap.R_Counter /\ ap'.Established = ap.Established
    BY <2>1 DEF Done
  <2> QED
    BY <2>1, <2>2, DoneSilent
<1>6. CASE PeerPairMsg2Answer
  <2>1. /\ UNCHANGED <<timerPc, GTK, sta, up>>
        /\ ap'.WpaState = NEGOTIATING \/ UNCHANGED <<ap, down>>
    BY <1>6, AnswerDoes
  <2>2. CASE UNCHANGED <<ap, down>>
    BY <2>1, <2>2, DoneSilent DEF Done
  <2> QED
    BY <2>1, <2>2, DoneReset DEF Done
<1>7. CASE PeerPairMsg4Action
  BY <1>7, DoneMsg4
<1>8. CASE PeerGroupMsg2Action
  <2>1. /\ Takes(up, up') /\ Len(up) >= 1 /\ up[1].t = "group2" /\ UNCHANGED <<timerPc, GTK, sta, down>>
        /\ \/ ap' = ap
           \/ /\ ap.in /\ ap.WpaState = DONE /\ up[1].rc = ap.R_Counter
              /\ SameEntry(ap', ap) /\ ap'.R_Counter = ap.R_Counter
    BY <1>8, Group2Does
  <2>2. CASE ap' = ap
    BY <2>1, <2>2, DoneSilent DEF Done
  <2>3. CASE /\ ap.in /\ ap.WpaState = DONE /\ up[1].rc = ap.R_Counter
             /\ SameEntry(ap', ap) /\ ap'.R_Counter = ap.R_Counter
    <3>1. 1 \in 1 .. Len(up) /\ Done
      BY <2>1, <2>3, ChannelNumbers DEF TypeOK, Done
    <3>2. sta.link = "up" => ap.R_Counter <= sta.R_Counter /\ Newest
      BY <2>1, <2>3, <3>1 DEF DoneRcs
    <3> QED
      BY <2>1, <2>3, <3>1, <3>2, DoneSilent
  <2> QED
    BY <2>1, <2>2, <2>3
<1> QED
  BY <1>2, <1>3, <1>4, <1>5, <1>6, <1>7, <1>8 DEF ApMlme

LEMMA DoneTimers ==
    ASSUME ~WPA2, "group1" \notin Fails, TypeOK, TypeOK', InOrder, DoneRcs, ApTimers PROVE DoneRcs'
<1>1. ap.ReTryCounter \in Nat
  BY Numbers
<1>2. CASE StartExec \/ CountDown \/ RetryTest
  <2>1. UNCHANGED <<ap, GTK, sta, down, up>> /\ (timerPc = "rekey" => timerPc' = "rekey")
    BY <1>2, OtherTimersDo, RetryTestDoes
  <2> QED
    BY <2>1, DoneSilent DEF Done
<1>3. CASE WPARetryExec
  <2>1. /\ UNCHANGED <<GTK, sta, down, up>> /\ timerPc = "idle"
        /\ SameEntry(ap', ap) /\ ap'.R_Counter = ap.R_Counter /\ ap'.Established = ap.Established
    BY <1>3, RetryExecDoes
  <2>2. Done' => Done
    BY <2>1 DEF Done, SameEntry
  <2> QED
    BY <2>1, <2>2, DoneSilent
<1>4. CASE RetryDeauth
  <2>1. /\ timerPc = "deauth" /\ UNCHANGED <<GTK, sta, up>>
        /\ ap' = NoEntry \/ UNCHANGED <<ap, down>>
    BY <1>4, RetryDeauthDoes
  <2>2. CASE UNCHANGED <<ap, down>>
    BY <2>1, <2>2, DoneSilent DEF Done
  <2> QED
    BY <2>1, <2>2, NoEntryDoes, DoneReset DEF Done
<1>5. CASE RetryGroup \/ RekeyStations
  <2>1. /\ UNCHANGED <<GTK, sta, up>> /\ (timerPc = "rekey" => RekeyStations)
        /\ \/ /\ SameEntry(ap', ap) /\ ~ap'.Established /\ MaySend(down, down', Group1Of(ap'))
              /\ ap'.R_Counter = ap.R_Counter + 1
           \/ timerPc # "rekey" /\ UNCHANGED <<ap, down>>
           \/ ~Done'
    <3>1. CASE RetryGroup
      BY <3>1, RetryGroupDoes
    <3>2. CASE RekeyStations
      BY <3>2, RekeyDoes DEF Done
    <3> QED
      BY <1>5, <3>1, <3>2
  <2>2. CASE timerPc # "rekey" /\ UNCHANGED <<ap, down>>
    BY <2>1, <2>2, DoneSilent DEF Done
  <2>3. CASE ~Done'
    BY <2>3, DoneReset
  <2>4. CASE /\ SameEntry(ap', ap) /\ ~ap'.Established /\ MaySend(down, down', Group1Of(ap'))
             /\ ap'.R_Counter = ap.R_Counter + 1 /\ Done'
    <3>1. Done
      BY <2>4 DEF Done, SameEntry
    <3>2. /\ \A j \in 1 .. Len(down) : down[j].rc <= ap.R_Counter
          /\ \A j \in 1 .. Len(up') :
               up'[j].rc <= ap.R_Counter /\ (up'[j].t = "group2" /\ sta.link = "up" => up'[j].rc <= sta.R_Counter)
      BY <2>1, <3>1 DEF DoneRcs
    <3> QED
      BY <2>1, <2>4, <3>2, DoneAgain
  <2> QED
    BY <2>1, <2>2, <2>3, <2>4
<1>6. CASE RetrySend
  <2>1. ap.WpaState # DONE
    BY <1>6, RetrySendDoes DEF InOrder
  <2>2. ap'.WpaState # DONE
    BY <1>6, <2>1, RetrySendDoes
  <2> QED
    BY <2>2, DoneReset DEF Done
<1>7. CASE NewGTK
  BY <1>7, NewGTKDoes DEF DoneRcs, Done, Newest
<1> QED
  BY <1>2, <1>3, <1>4, <1>5, <1>6, <1>7 DEF ApTimers, StartExec

\* The station takes a message: it has not answered one with the counter yet.
LEMMA DoneTaken ==
    ASSUME TypeOK, TypeOK', Numbered, DoneRcs, PeerPairMsg1Action \/ PeerGroupMsg1Action
    PROVE  DoneRcs'
<1>1. /\ Takes(down, down') /\ Len(down) >= 1 /\ down[1].t \in {"pair1", "group1"}
      /\ UNCHANGED <<ap, GTK, timerPc>>
      /\ \/ UNCHANGED <<sta, up>>
         \/ /\ StaAccepts(down[1]) /\ sta'.R_Counter = down[1].rc
            /\ \/ MaySend(up, up', Pair2Of(sta'))
               \/ /\ down[1].t = "group1" /\ sta'.GTK = IF down[1].gtk > 0 THEN down[1].gtk ELSE sta.GTK
                  /\ up' = up \/ MaySend(up, up', Group2Of(sta'))
  <2>1. CASE PeerPairMsg1Action
    BY <2>1, StaMsg1Does DEF ApKept
  <2>2. CASE PeerGroupMsg1Action
    BY <2>2, StaGroup1Does DEF ApKept, StaTaken
  <2> QED
    BY <2>1, <2>2
<1>2. /\ up \in Seq(Frames) /\ down \in Seq(Frames) /\ up' \in Seq(Frames) /\ down' \in Seq(Frames)
      /\ sta.R_Counter \in Nat /\ ap.R_Counter \in Nat /\ GTK \in Nat /\ GTK >= 1
  BY Numbers DEF TypeOK
<1>3. CASE UNCHANGED <<sta, up>>
  <2>1. Moves(up, up', {}) /\ Moves(down, down', {})
    BY <1>1, <1>2, <1>3, StayMoves, TakeMoves
  <2>2. /\ \A f \in {} : f.t \notin {"pair4", "group2"} /\ f.rc = 0
        /\ \A g \in {} : g.t # "group1" /\ g.rc = 0
    OBVIOUS
  <2> QED
    BY <1>1, <1>3, <2>1, <2>2, DoneKept DEF Done
<1>4. CASE ~Done
  BY <1>1, <1>4, DoneReset DEF Done
<1>5. CASE /\ Done /\ StaAccepts(down[1]) /\ sta'.R_Counter = down[1].rc
           /\ \/ MaySend(up, up', Pair2Of(sta'))
              \/ /\ down[1].t = "group1" /\ sta'.GTK = IF down[1].gtk > 0 THEN down[1].gtk ELSE sta.GTK
                 /\ up' = up \/ MaySend(up, up', Group2Of(sta'))
  <2>1. 1 \in 1 .. Len(down) /\ down[1].rc \in Nat /\ down[1].gtk \in Nat
    BY <1>1, <1>2, ChannelNumbers
  <2>2. down[1].rc > 0 /\ down[1].rc <= ap.R_Counter
    BY <1>1, <1>5, <2>1 DEF Numbered, DoneRcs
  <2>3. sta.link = "up" /\ sta.R_Counter < sta'.R_Counter /\ sta'.R_Counter <= ap.R_Counter
    BY <1>2, <1>5, <2>1, <2>2 DEF StaAccepts
  <2>4. ~ap.Established
    BY <1>2, <1>5, <2>1, <2>3 DEF DoneRcs
  <2>5. ASSUME NEW j \in 1 .. Len(down')
        PROVE  /\ down'[j].rc <= ap'.R_Counter
               /\ timerPc' # "rekey" /\ down'[j].t = "group1" /\ down'[j].rc = ap'.R_Counter =>
                    down'[j].gtk = GTK'
    <3>1. j + 1 \in 1 .. Len(down) /\ down'[j] = down[j + 1]
      BY <1>1, <1>2, TakenAt
    <3> QED
      BY <1>1, <1>5, <3>1 DEF DoneRcs
  <2>6. ASSUME NEW j \in 1 .. Len(up)
        PROVE  /\ up[j].rc <= ap'.R_Counter
               /\ up[j].t = "pair4" => up[j].rc < ap'.R_Counter
               /\ up[j].t = "group2" => up[j].rc <= sta'.R_Counter /\ up[j].rc # ap'.R_Counter
    <3>1. /\ up[j].rc <= ap.R_Counter /\ up[j].rc \in Nat
          /\ up[j].t = "pair4" => up[j].rc < ap.R_Counter
          /\ up[j].t = "group2" => up[j].rc <= sta.R_Counter
      BY <1>2, <1>5, <2>3, ChannelNumbers DEF DoneRcs
    <3> QED
      BY <1>1, <1>2, <1>5, <2>1, <2>3, <3>1
  <2>7. ASSUME NEW j \in 1 .. Len(up')
        PROVE  /\ up'[j].rc <= ap'.R_Counter
               /\ up'[j].t = "pair4" => up'[j].rc < ap'.R_Counter
               /\ up'[j].t = "group2" /\ sta'.link = "up" =>
                    up'[j].rc <= sta'.R_Counter /\ (up'[j].rc = ap'.R_Counter => Newest')
    <3>1. CASE j \in 1 .. Len(up) /\ up'[j] = up[j]
      BY <2>6, <3>1
    <3>2. CASE up'[j] \in Pair2Of(sta')
      BY <1>1, <2>3, <3>2 DEF Pair2Of
    <3>3. CASE /\ up'[j] \in Group2Of(sta') /\ down[1].t = "group1"
               /\ sta'.GTK = IF down[1].gtk > 0 THEN down[1].gtk ELSE sta.GTK
      <4>1. up'[j].rc = down[1].rc /\ up'[j].t = "group2" /\ up'[j].rc = sta'.R_Counter
        BY <1>5, <3>3 DEF Group2Of
      <4>2. ASSUME timerPc # "rekey", down[1].rc = ap.R_Counter PROVE sta'.GTK = GTK
        <5>1. down[1].gtk = GTK
          BY <1>5, <2>1, <3>3, <4>2 DEF DoneRcs
        <5> QED
          BY <1>2, <3>3, <5>1
      <4>3. up'[j].rc = ap'.R_Counter => Newest'
        BY <1>1, <4>1, <4>2 DEF Newest
      <4> QED
        BY <1>1, <1>2, <2>1, <2>2, <4>1, <4>3
    <3> QED
      BY <1>2, <1>5, <3>1, <3>2, <3>3, SentAt
  <2> QED
    BY <1>1, <2>4, <2>5, <2>7 DEF DoneRcs
<1> QED
  BY <1>1, <1>3, <1>4, <1>5

LEMMA DoneStation ==
    ASSUME TypeOK, TypeOK', Agr, Numbered, DoneRcs, Station PROVE DoneRcs'
<1>1. /\ up \in Seq(Frames) /\ down \in Seq(Frames) /\ up' \in Seq(Frames) /\ down' \in Seq(Frames)
  BY DEF TypeOK
<1>2. ap' = ap /\ timerPc' = timerPc /\ GTK' = GTK
  BY StationKeepsAp DEF ApKept
<1>3. \A T : T \cap {"pair4", "group2"} = {} => \A f \in OfType(T) : f.t \notin {"pair4", "group2"} /\ f.rc = 0
  BY DEF OfType
<1>4. CASE Join \/ JoinTimeout \/ Leave \/ PeerDeauth
  <2>1. /\ sta'.link # "up" \/ sta' = sta
        /\ down' = down \/ Takes(down, down')
        /\ up' = up \/ MaySend(up, up', OfType({"assocreq"})) \/ MaySend(up, up', OfType({"disassoc"}))
    BY <1>4, JoinDoes, JoinTimeoutDoes, LeaveDoes, PeerDeauthDoes
  <2>2. \E F : Moves(up, up', F) /\ \A f \in F : f.t \notin {"pair4", "group2"} /\ f.rc = 0
    <3>1. Moves(up, up', OfType({"assocreq"})) \/ Moves(up, up', OfType({"disassoc"}))
      BY <1>1, <2>1, StayMoves, SendMoves
    <3> QED
      BY <1>3, <3>1
  <2>3. PICK F : Moves(up, up', F) /\ \A f \in F : f.t \notin {"pair4", "group2"} /\ f.rc = 0
    BY <2>2
  <2>4. Moves(down, down', {}) /\ \A g \in {} : g.t # "group1" /\ g.rc = 0
    BY <1>1, <2>1, StayMoves, TakeMoves
  <2> QED
    BY <1>2, <2>1, <2>3, <2>4, DoneKept DEF Done
<1>5. CASE LinkUp \/ PeerPairMsg3Action
  <2>1. Len(down) >= 1 /\ down[1].t \in {"assocrsp", "pair3"}
    BY <1>5, LinkUpDoes, StaMsg3Does
  <2>2. 1 \in Downs("assocrsp") \/ 1 \in Downs("pair3")
    BY <1>1, <2>1, ChannelNumbers DEF Downs
  <2>3. ~Done
    BY <2>2 DEF Agr, DoneAgrees
  <2> QED
    BY <1>2, <2>3, DoneReset DEF Done
<1>6. CASE PeerPairMsg1Action \/ PeerGroupMsg1Action
  BY <1>6, DoneTaken
<1> QED
  BY <1>4, <1>5, <1>6 DEF Station

LEMMA DoneStep ==
    ASSUME ~WPA2, "group1" \notin Fails, TypeOK, TypeOK', Agr, InOrder, Numbered, CurrentRcs, DoneRcs,
           [Next]_vars
    PROVE  DoneRcs'
<1>1. CASE UNCHANGED vars
  BY <1>1 DEF vars, apVars, group, DoneRcs, Done, Newest
<1> QED
  BY <1>1, DoneMlme, DoneTimers, DoneStation DEF Next

\* What the replay counters are for: WPA, where group1 carries the group key.
Counters == ApNonces /\ PairRcs /\ InOrder /\ Numbered /\ CurrentRcs /\ DoneRcs

LEMMA InitOwnCounters == Init => Own /\ Counters
<1> SUFFICES ASSUME Init PROVE Own /\ Counters
  OBVIOUS
<1>1. /\ \A t : Ups(t) = {} /\ Downs(t) = {}
      /\ \A j : j \notin 1 .. Len(down)
      /\ ap = NoEntry /\ sta = StaDown /\ nonces.ap = 0 /\ timerPc = "idle" /\ mlmePc = "idle"
  BY DEF Init, Ups, Downs
<1>2. Own
  BY <1>1, NoEntryDoes DEF Own, EstablishedOpen, Group2BehindMsg4, Group2Open
<1>3. ApNonces
  BY <1>1, NoEntryDoes, NoKeyDoes, StaDownDoes DEF ApNonces
<1>4. PairRcs /\ InOrder /\ Numbered
  BY <1>1, NoEntryDoes DEF PairRcs, InOrder, Numbered
<1>5. CurrentRcs /\ DoneRcs
  BY <1>1, NoEntryDoes DEF CurrentRcs, DoneRcs, Done
<1> QED
  BY <1>2, <1>3, <1>4, <1>5 DEF Counters

LEMMA CountersStep ==
    ASSUME ~WPA2, Prompt, "group1" \notin Fails, TypeOK, TypeOK', Ord, Agr, Counters, [Next]_vars
    PROVE  Counters'
<1>1. ApNonces' /\ PairRcs'
  BY NoncesStep, PairRcsStep DEF Counters
<1>2. InOrder' /\ Numbered'
  BY InOrderStep, NumberedStep DEF Counters
<1>3. CurrentRcs' /\ DoneRcs'
  BY CurrentRcsStep, DoneStep DEF Counters
<1> QED
  BY <1>1, <1>2, <1>3 DEF Counters

\* When the access point takes the keys of a station that has not left for established
\* (PeerPairMsg4Action in WPA2, PeerGroupMsg2Action in WPA), the station's port is open,
\* and in WPA it has the newest group key unless GREKEYPeriodicExec is about to send
\* that.  In WPA when the handlers of the timer thread end before an answer from the
\* air, and WPAStart2WayGroupHS never fails to allocate its frame: with its replay
\* counter unchanged an older group message 2 would be taken for the answer.
THEOREM EstablishedEnds ==
    ASSUME WPA2 \/ (Prompt /\ "group1" \notin Fails) PROVE Spec => []EstablishedAtBothEnds
<1> DEFINE Inv == IInv /\ Ord /\ Agr /\ Own /\ (~WPA2 => Counters)
<1>1. Init => Inv
  BY InitIInv, InitOrdAgr, InitOwnCounters
<1>2. Inv /\ [Next]_vars => Inv'
  <2> SUFFICES ASSUME Inv, [Next]_vars PROVE Inv'
    OBVIOUS
  <2>1. IInv' /\ TypeOK /\ TypeOK'
    BY NextIInv DEF IInv
  <2>2. Ord' /\ Agr' /\ Own'
    BY <2>1, OrdStep, AgrStep, OwnStep
  <2>3. ~WPA2 => Counters'
    BY <2>1, CountersStep
  <2> QED
    BY <2>1, <2>2, <2>3
<1>3. Inv => EstablishedAtBothEnds
  <2> SUFFICES ASSUME Inv, ap.in, ap.Established, sta.link = "up"
               PROVE  sta.PortSecured /\ (~WPA2 /\ timerPc # "rekey" => sta.GTK = GTK)
    BY DEF EstablishedAtBothEnds
  <2>1. sta.PortSecured
    BY DEF Own, EstablishedOpen
  <2>2. ASSUME ~WPA2, timerPc # "rekey" PROVE sta.GTK = GTK
    <3>1. ap.WpaState = DONE
      BY <2>2 DEF Counters, InOrder
    <3> QED
      BY <2>2, <3>1 DEF Counters, DoneRcs, Done, Newest
  <2> QED
    BY <2>1, <2>2
<1> HIDE DEF Inv
<1> QED
  BY <1>1, <1>2, <1>3, PTL DEF Spec

\* The port is open before the access point takes the keys for established, whatever
\* fails or is crossed, in WPA too.
THEOREM EstablishedIsOpen ==
    Spec => [](ap.in /\ ap.Established /\ sta.link = "up" => sta.PortSecured)
<1> DEFINE Inv == IInv /\ Ord /\ Agr /\ Own
<1>1. Init => Inv
  BY InitIInv, InitOrdAgr, InitOwnCounters
<1>2. Inv /\ [Next]_vars => Inv'
  BY NextIInv, OrdStep, AgrStep, OwnStep DEF IInv
<1>3. Inv => (ap.in /\ ap.Established /\ sta.link = "up" => sta.PortSecured)
  BY DEF Own, EstablishedOpen
<1> HIDE DEF Inv
<1> QED
  BY <1>1, <1>2, <1>3, PTL DEF Spec
===============================================================================
