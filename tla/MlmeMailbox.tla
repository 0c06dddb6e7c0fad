----------------------------- MODULE MlmeMailbox -----------------------------
(***************************************************************************)
(* What the MLME queue promises its users, without slots, indices or       *)
(* locks: while the interface is open, the messages that were accepted are *)
(* handed to the MLME thread one at a time, unchanged, in the order they   *)
(* were accepted, each exactly once.  Closing the interface discards what  *)
(* is left, and nothing is promised until it is opened again.              *)
(***************************************************************************)
EXTENDS Sequences

CONSTANTS Msgs,      \* the messages that can be sent
          NoMsg      \* no message in service

VARIABLES box,       \* accepted, not yet handed over: oldest first
          cur,       \* the message in service, or NoMsg
          open       \* between MlmeInit and MlmeQueueDestroy

mailboxVars == <<box, cur, open>>

MailboxInit == box = <<>> /\ cur = NoMsg /\ open = TRUE

Put(m) == open /\ box' = Append(box, m) /\ UNCHANGED <<cur, open>>

Take == /\ open /\ cur = NoMsg /\ box # <<>>
        /\ cur' = Head(box)
        /\ box' = Tail(box)
        /\ UNCHANGED open

Done == open /\ cur # NoMsg /\ cur' = NoMsg /\ UNCHANGED <<box, open>>

Close == open /\ open' = FALSE /\ box' = <<>> /\ UNCHANGED cur

Closed == ~open /\ ~open' /\ box' = <<>> /\ cur' \in Msgs \cup {NoMsg}

Open == ~open /\ open' = TRUE /\ box' = <<>> /\ cur' = NoMsg

MailboxNext == (\E m \in Msgs : Put(m)) \/ Take \/ Done \/ Close \/ Closed \/ Open

MailboxSpec == MailboxInit /\ [][MailboxNext]_mailboxVars
=============================================================================
