---------------------------- MODULE BridgeProofs ----------------------------
(***************************************************************************)
(* Proofs about Bridge for any commands and bounds: its types, that a      *)
(* workflow reported as started was taken, that no answer disappears, and  *)
(* that threads, tables and subscription implement Mailbox.                *)
(*                                                                         *)
(* Of the steps all but the relay's only move answers about (Moves); what  *)
(* such a move preserves is shown once.                                    *)
(***************************************************************************)
EXTENDS Bridge, TLAPS

\* What is on its way to a caller comes from a relay that has the command.
MailInv ==
    /\ \A c \in replied : done[c] > 0
    /\ \A c \in Acks(mail) \cup pendingAcks : done[c] > 0
    /\ Finals(mail) \subseteq replied

IInv == TypeOK /\ MailInv /\ StartedMeansTaken /\ AnswerAccounted

\* What a step of the session does, whichever thread makes it.
Moves ==
    /\ TypeOK'
    /\ UNCHANGED <<done, replied>>
    /\ mail' \subseteq mail
    /\ pendingAcks' \subseteq pendingAcks \cup Acks(mail)
    /\ \A c \in Starts : outcome'[c] = "started" =>
          \/ outcome[c] = "started"
          \/ c \in pendingAcks \cup Acks(mail) \cup Finals(mail)
    /\ Box!Move

-----------------------------------------------------------------------------
(* Answers in a set of messages.                                           *)

\* Taking messages away takes away the answers among them.
LEMMA FinalsLess ==
    ASSUME NEW A, NEW B PROVE Finals(A \ B) = Finals(A) \ Finals(B)
BY DEF Finals

\* Part of the messages has part of the answers and acknowledgements.
LEMMA Monotone ==
    ASSUME NEW A, NEW B, A \subseteq B
    PROVE  Finals(A) \subseteq Finals(B) /\ Acks(A) \subseteq Acks(B)
BY DEF Finals, Acks

\* An answer more is an answer more; an acknowledgement more is none.
LEMMA FinalsMore ==
    ASSUME NEW A, NEW c \in Commands
    PROVE  /\ Finals(A \cup {Msg(c, "final")}) = Finals(A) \cup {c}
           /\ Acks(A \cup {Msg(c, "final")}) = Acks(A)
           /\ Finals(A \cup {Msg(c, "ack")}) = Finals(A)
           /\ Acks(A \cup {Msg(c, "ack")}) = Acks(A) \cup {c}
<1>1. \A d \in Commands, t, u \in {"ack", "final"} :
         Msg(d, t) = Msg(c, u) <=> d = c /\ t = u
  BY DEF Msg
<1> QED BY <1>1 DEF Finals, Acks

\* Messages are in the subscription until they are acknowledged.
LEMMA Acknowledged ==
    ASSUME TypeOK, NEW S \in SUBSET mail, NEW ok \in BOOLEAN, Acknowledge(S, ok)
    PROVE  /\ mail' \subseteq mail /\ mail' \in SUBSET Message
           /\ InMail' \subseteq InMail /\ InMail \subseteq InMail' \cup Finals(S)
           /\ ~ok => InMail' = InMail
           /\ Finals(S) \subseteq InMail /\ Finals(S) \subseteq Commands
           /\ Acks(S) \subseteq Acks(mail) /\ Acks(S) \subseteq Commands
<1>1. mail' = mail \ S \/ mail' = mail
  BY DEF Acknowledge
<1>2. ~ok => mail' = mail
  BY DEF Acknowledge
<1> QED BY <1>1, <1>2, FinalsLess, Monotone DEF InMail, Finals, Acks, TypeOK

-----------------------------------------------------------------------------
(* The session's steps.                                                    *)

\* Whoever is told something is no longer waiting.
LEMMA Told ==
    ASSUME TypeOK, NEW c \in Commands, NEW told \in {"answer", "started", "failed"},
           Tell(c, told)
    PROVE  /\ outcome' \in [Commands -> {"none", "answer", "started", "failed"}]
           /\ {heard, again}' \subseteq SUBSET Calls
           /\ \A d \in Commands : outcome'[d] = IF d = c THEN told ELSE outcome[d]
BY DEF Tell, TypeOK

\* Publishing a command moves nothing.
LEMMA PublishMoves ==
    ASSUME TypeOK, NEW c \in Commands, Publish(c) PROVE Moves
<1>1. /\ sent' \in SUBSET Commands /\ UNCHANGED <<done, replied, mail, poller, tables, got, lost, bounds>>
      /\ sub' \in {"none", "live", "deleted"}
      /\ UNCHANGED callers \/ Tell(c, "failed")
  BY DEF Publish, Subscribed, Relay!Request, relay, TypeOK, Relay!TypeOK
<1>2. TypeOK'
  BY <1>1, Told DEF TypeOK, Relay!TypeOK, tables, bounds, callers
<1>3. \A d \in Starts : outcome'[d] = "started" => outcome[d] = "started"
  BY <1>1, Told DEF callers, Commands
<1> QED BY <1>1, <1>2, <1>3 DEF Moves, Box!Move, InMail, tables

\* A look into the tables.
LEMMA LookMoves ==
    ASSUME TypeOK, NEW c \in Commands,
           FindAnswer(c) \/ FindAck(c) \/ FleetPops(c)
    PROVE  Moves
<1> USE DEF relay, callers, bounds
<1>1. CASE FindAnswer(c)
  <2>1. TypeOK'
    BY <1>1, Told DEF TypeOK, Relay!TypeOK, FindAnswer
  <2>2. \A d \in Starts : outcome'[d] = "started" => outcome[d] = "started"
    BY <1>1, Told DEF FindAnswer, Commands
  <2> QED BY <1>1, <2>1, <2>2 DEF Moves, Box!Move, InMail, FindAnswer
<1>2. CASE FindAck(c)
  <2>1. TypeOK'
    BY <1>2, Told DEF TypeOK, Relay!TypeOK, FindAck
  <2>2. \A d \in Starts : outcome'[d] = "started" =>
           outcome[d] = "started" \/ d \in pendingAcks
    BY <1>2, Told DEF FindAck, Commands
  <2> QED BY <1>2, <2>1, <2>2 DEF Moves, Box!Move, InMail, FindAck
<1>3. CASE FleetPops(c)
  <2>1. TypeOK'
    BY <1>3 DEF TypeOK, Relay!TypeOK, FleetPops
  <2> QED BY <1>3, <2>1 DEF Moves, Box!Move, InMail, FleetPops
<1> QED BY <1>1, <1>2, <1>3

\* A pull that finds the caller's own answer.
LEMMA ReturnMoves ==
    ASSUME TypeOK, NEW c \in Commands, NEW S \in SUBSET mail, c \in Finals(S),
           ReturnOwn(c, S, Tell(c, "failed")) \/ ReturnOwn(c, S, UNCHANGED callers),
           UNCHANGED <<relay, sub, poller, pendingAcks, bounds>>
    PROVE  Moves
<1> USE DEF relay, callers, bounds
<1>1. PICK ok, raised \in BOOLEAN :
         /\ pendingResults' = pendingResults \cup (Finals(S) \ {c})
         /\ Acknowledge(S, ok)
         /\ IF raised THEN (Tell(c, "failed") \/ UNCHANGED callers) /\ UNCHANGED got
                      ELSE Tell(c, "answer") /\ got' = got \cup {c}
         /\ IF raised /\ ok THEN Lose({c}) ELSE UNCHANGED lost
  BY DEF ReturnOwn
<1>3. /\ mail' \subseteq mail /\ mail' \in SUBSET Message
      /\ InMail' \subseteq InMail /\ InMail \subseteq InMail' \cup Finals(S)
      /\ ~ok => InMail' = InMail
      /\ Finals(S) \subseteq InMail /\ Finals(S) \subseteq Commands
  BY <1>1, Acknowledged
<1>4. /\ got' \in SUBSET Commands /\ lost' \in SUBSET Commands
      /\ pendingResults' \in SUBSET Commands
  BY <1>1, <1>3 DEF TypeOK, Lose
<1>5. UNCHANGED callers \/ Tell(c, "failed") \/ Tell(c, "answer")
  BY <1>1
<1>6. TypeOK'
  BY <1>3, <1>4, <1>5, Told DEF TypeOK, Relay!TypeOK
<1>7. \A d \in Starts : outcome'[d] = "started" => outcome[d] = "started"
  BY <1>5, Told DEF Commands
<1>8. Box!Move
  BY <1>1, <1>3 DEF Box!Move, Lose
<1> QED BY <1>3, <1>6, <1>7, <1>8 DEF Moves

\* A pull that puts every answer it finds into the table.
LEMMA TableMoves ==
    ASSUME TypeOK, NEW S \in SUBSET mail, NEW ok \in BOOLEAN, Acknowledge(S, ok),
           pendingResults' = pendingResults \cup Finals(S),
           pendingAcks' \in SUBSET Commands,
           pendingAcks' \subseteq pendingAcks \cup Acks(S),
           outcome' \in [Commands -> {"none", "answer", "started", "failed"}],
           {heard, again}' \subseteq SUBSET Calls,
           \A d \in Starts : outcome'[d] = "started" =>
              outcome[d] = "started" \/ d \in Acks(S) \cup Finals(S),
           poller' \in BOOLEAN, UNCHANGED <<relay, sub, got, lost, bounds>>
    PROVE  Moves
<1> USE DEF relay, bounds
<1>1. /\ mail' \subseteq mail /\ mail' \in SUBSET Message
      /\ InMail' \subseteq InMail /\ InMail \subseteq InMail' \cup Finals(S)
      /\ Finals(S) \subseteq InMail /\ Finals(S) \subseteq Commands
      /\ Acks(S) \subseteq Acks(mail)
  BY Acknowledged
<1>2. TypeOK'
  BY <1>1 DEF TypeOK, Relay!TypeOK
<1>3. Box!Move
  BY <1>1 DEF Box!Move
<1> QED BY <1>1, <1>2, <1>3 DEF Moves, InMail

\* _poll_for_result.
LEMMA PollForResultMoves ==
    ASSUME TypeOK, NEW c \in Commands, NEW S \in SUBSET mail, PollForResult(c, S)
    PROVE  Moves
<1>1. CASE c \in Finals(S) /\ ReturnOwn(c, S, Tell(c, "failed"))
  BY <1>1, ReturnMoves DEF PollForResult
<1>2. CASE c \notin Finals(S)
  <2>1. PICK ok \in BOOLEAN : Acknowledge(S, ok)
    BY <1>2 DEF PollForResult
  <2>2. /\ pendingResults' = pendingResults \cup Finals(S)
        /\ UNCHANGED <<relay, sub, poller, pendingAcks, got, lost, bounds>>
        /\ \/ Tell(c, "failed")
           \/ /\ heard' = IF c \in Acks(S) THEN heard \cup {c} ELSE heard
              /\ UNCHANGED <<outcome, again>>
    BY <1>2 DEF PollForResult
  <2>3. /\ outcome' \in [Commands -> {"none", "answer", "started", "failed"}]
        /\ {heard, again}' \subseteq SUBSET Calls /\ poller' \in BOOLEAN
        /\ \A d \in Starts : outcome'[d] = "started" => outcome[d] = "started"
    <3>1. c \in Calls
      BY DEF PollForResult
    <3> QED BY <2>2, <3>1, Told DEF TypeOK, Commands
  <2>4. pendingAcks' \in SUBSET Commands /\ pendingAcks' \subseteq pendingAcks \cup Acks(S)
    BY <2>2 DEF TypeOK
  <2> QED BY <2>1, <2>2, <2>3, <2>4, TableMoves
<1> QED BY <1>1, <1>2 DEF PollForResult

\* _wait_for_ack: told "started" only for an acknowledgement or an answer.
LEMMA WaitForAckMoves ==
    ASSUME TypeOK, NEW c \in Commands, NEW S \in SUBSET mail, WaitForAck(c, S)
    PROVE  Moves
<1>1. PICK ok \in BOOLEAN : Acknowledge(S, ok)
  BY DEF WaitForAck
<1>2. /\ pendingResults' = pendingResults \cup Finals(S)
      /\ UNCHANGED <<relay, sub, poller, pendingAcks, got, lost, bounds>>
      /\ \/ Tell(c, "failed")
         \/ c \in Finals(S) \cup Acks(S) /\ Tell(c, "started")
         \/ UNCHANGED callers
  BY DEF WaitForAck
<1>3. /\ outcome' \in [Commands -> {"none", "answer", "started", "failed"}]
      /\ {heard, again}' \subseteq SUBSET Calls /\ poller' \in BOOLEAN
      /\ \A d \in Starts : outcome'[d] = "started" =>
            outcome[d] = "started" \/ d \in Acks(S) \cup Finals(S)
  BY <1>2, Told DEF TypeOK, Commands, callers
<1>4. pendingAcks' \in SUBSET Commands /\ pendingAcks' \subseteq pendingAcks \cup Acks(S)
  BY <1>2 DEF TypeOK
<1> QED BY <1>1, <1>2, <1>3, <1>4, TableMoves

\* _single_poll.
LEMMA SinglePollMoves ==
    ASSUME TypeOK, NEW c \in Commands, NEW S \in SUBSET mail, SinglePoll(c, S)
    PROVE  Moves
<1>1. CASE c \in Finals(S) /\ ReturnOwn(c, S, UNCHANGED callers)
  BY <1>1, ReturnMoves DEF SinglePoll
<1>2. CASE c \notin Finals(S)
  <2>1. PICK ok \in BOOLEAN : Acknowledge(S, ok)
    BY <1>2 DEF SinglePoll
  <2>2. /\ pendingResults' = pendingResults \cup Finals(S)
        /\ UNCHANGED <<relay, sub, poller, pendingAcks, callers, got, lost, bounds>>
    BY <1>2 DEF SinglePoll
  <2>3. /\ outcome' \in [Commands -> {"none", "answer", "started", "failed"}]
        /\ {heard, again}' \subseteq SUBSET Calls /\ poller' \in BOOLEAN
        /\ \A d \in Starts : outcome'[d] = "started" => outcome[d] = "started"
        /\ pendingAcks' \in SUBSET Commands /\ pendingAcks' \subseteq pendingAcks \cup Acks(S)
    BY <2>2 DEF TypeOK, callers
  <2> QED BY <2>1, <2>2, <2>3, TableMoves
<1> QED BY <1>1, <1>2 DEF SinglePoll

\* The background poller.
LEMMA PollerPullMoves ==
    ASSUME TypeOK, NEW S \in SUBSET mail, PollerPull(S) PROVE Moves
<1>1. PICK ok \in BOOLEAN : Acknowledge(S, ok)
  BY DEF PollerPull
<1>2. /\ pendingResults' = pendingResults \cup Finals(S)
      /\ pendingAcks' = pendingAcks \cup (Acks(S) \cap Starts)
      /\ UNCHANGED <<relay, sub, poller, callers, got, lost, bounds>>
  BY DEF PollerPull
<1>3. /\ outcome' \in [Commands -> {"none", "answer", "started", "failed"}]
      /\ {heard, again}' \subseteq SUBSET Calls /\ poller' \in BOOLEAN
      /\ \A d \in Starts : outcome'[d] = "started" => outcome[d] = "started"
      /\ pendingAcks' \in SUBSET Commands /\ pendingAcks' \subseteq pendingAcks \cup Acks(S)
  BY <1>2 DEF TypeOK, callers, Commands
<1> QED BY <1>1, <1>2, <1>3, TableMoves

\* A pull in the middle of which the counting of a message raises.
LEMMA RaiseMoves ==
    ASSUME TypeOK, NEW S \in SUBSET mail,
           (\E c \in Commands : PullRaises(c, S)) \/ PollerDies(S)
    PROVE  Moves
<1>1. ASSUME CountingRaises(S, TRUE), {heard, again}' \subseteq SUBSET Calls,
             outcome' \in [Commands -> {"none", "answer", "started", "failed"}],
             \A d \in Starts : outcome'[d] = "started" => outcome[d] = "started",
             pendingAcks' \in SUBSET Commands,
             pendingAcks' \subseteq pendingAcks \cup Acks(S),
             poller' \in BOOLEAN, UNCHANGED <<relay, sub, bounds>>
      PROVE  Moves
  <2>1. Acknowledge(S, FALSE) /\ pendingResults' = pendingResults \cup Finals(S)
        /\ UNCHANGED <<got, lost>>
    BY <1>1 DEF CountingRaises, Acknowledge
  <2> QED BY <1>1, <2>1, TableMoves
<1>2. CASE \E c \in Commands : PullRaises(c, S)
  <2>1. PICK c \in Commands : PullRaises(c, S)
    BY <1>2
  <2>2. /\ UNCHANGED <<relay, sub, poller, pendingAcks, bounds>>
        /\ CountingRaises(S, TRUE)
        /\ UNCHANGED callers \/ Tell(c, "failed")
    BY <2>1 DEF PullRaises, CountingRaises
  <2>3. /\ outcome' \in [Commands -> {"none", "answer", "started", "failed"}]
        /\ {heard, again}' \subseteq SUBSET Calls /\ poller' \in BOOLEAN
        /\ \A d \in Starts : outcome'[d] = "started" => outcome[d] = "started"
        /\ pendingAcks' \in SUBSET Commands /\ pendingAcks' \subseteq pendingAcks \cup Acks(S)
    BY <2>2, Told DEF TypeOK, callers, Commands
  <2> QED BY <1>1, <2>2, <2>3
<1>3. CASE PollerDies(S)
  <2>1. /\ poller' = FALSE
        /\ UNCHANGED <<relay, bounds, callers>>
        /\ \/ /\ CountingRaises(S, TRUE) /\ UNCHANGED sub
              /\ pendingAcks' = pendingAcks \cup (Acks(S) \cap Starts)
           \/ NotRecreated /\ UNCHANGED <<mail, tables, got, lost>>
    BY <1>3 DEF PollerDies, CountingRaises
  <2>2. CASE CountingRaises(S, TRUE) /\ UNCHANGED sub
             /\ pendingAcks' = pendingAcks \cup (Acks(S) \cap Starts)
    <3>1. /\ outcome' \in [Commands -> {"none", "answer", "started", "failed"}]
          /\ {heard, again}' \subseteq SUBSET Calls
          /\ \A d \in Starts : outcome'[d] = "started" => outcome[d] = "started"
          /\ pendingAcks' \in SUBSET Commands
          /\ pendingAcks' \subseteq pendingAcks \cup Acks(S)
      BY <2>1, <2>2 DEF TypeOK, callers, Commands
    <3> QED BY <1>1, <2>1, <2>2, <3>1
  <2>3. CASE NotRecreated /\ UNCHANGED <<mail, tables, got, lost>>
    <3>1. TypeOK'
      BY <2>1, <2>3 DEF TypeOK, Relay!TypeOK, NotRecreated, relay, bounds, callers, tables
    <3> QED BY <2>1, <2>3, <3>1 DEF Moves, Box!Move, InMail, relay, callers, tables
  <2> QED BY <2>1, <2>2, <2>3
<1> QED BY <1>2, <1>3

\* What a drain acknowledges unread is lost.
LEMMA DrainLoses ==
    ASSUME TypeOK, NEW S \in SUBSET mail, Drain(S)
    PROVE  /\ mail' \subseteq mail /\ mail' \in SUBSET Message
           /\ InMail' \subseteq InMail /\ lost' \in SUBSET Commands
           /\ lost \subseteq lost' /\ lost' \subseteq lost \cup InMail
           /\ InMail \subseteq InMail' \cup lost'
<1>1. Finals(mail \ S) = Finals(mail) \ Finals(S) /\ Finals(S) \subseteq Finals(mail)
  BY FinalsLess, Monotone
<1>2. CASE mail' = mail \ S /\ lost' = lost \cup Finals(S)
  <2>1. InMail' = Finals(mail) \ Finals(S)
    BY <1>1, <1>2 DEF InMail
  <2> QED BY <1>1, <1>2, <2>1 DEF InMail, TypeOK, Finals
<1>3. CASE UNCHANGED <<mail, lost>>
  BY <1>3 DEF InMail, TypeOK
<1> QED BY <1>2, <1>3 DEF Drain, Lose

\* The deadline, an empty pull.
LEMMA GiveUpMoves ==
    ASSUME TypeOK, NEW c \in Commands, DeadlineMet(c) \/ RelayLost(c) PROVE Moves
<1> USE DEF relay, callers, bounds, tables
<1>1. CASE \/ RelayLost(c)
           \/ /\ Tell(c, "failed") /\ UNCHANGED <<mail, lost>>
              /\ UNCHANGED <<relay, sub, poller, tables, got, bounds>>
  <2>1. Tell(c, "failed") /\ UNCHANGED <<relay, sub, mail, poller, tables, got, lost, bounds>>
    BY <1>1 DEF RelayLost
  <2>2. TypeOK'
    BY <2>1, Told DEF TypeOK, Relay!TypeOK
  <2>3. \A d \in Starts : outcome'[d] = "started" => outcome[d] = "started"
    BY <2>1, Told DEF Commands
  <2> QED BY <2>1, <2>2, <2>3 DEF Moves, Box!Move, InMail
<1>2. CASE /\ c \in Calls
           /\ \E S \in SUBSET mail :
                 /\ Drain(S)
                 /\ \/ Tell(c, "failed")
                    \/ /\ again' = again \cup {c}
                       /\ heard' = heard \ {c}
                       /\ UNCHANGED outcome
           /\ UNCHANGED <<relay, sub, poller, tables, got, bounds>>
  <2>1. PICK S \in SUBSET mail :
           /\ Drain(S)
           /\ \/ Tell(c, "failed")
              \/ /\ again' = again \cup {c}
                 /\ heard' = heard \ {c}
                 /\ UNCHANGED outcome
    BY <1>2
  <2>2. /\ mail' \subseteq mail /\ mail' \in SUBSET Message
        /\ InMail' \subseteq InMail /\ lost' \in SUBSET Commands
        /\ lost \subseteq lost' /\ lost' \subseteq lost \cup InMail
        /\ InMail \subseteq InMail' \cup lost'
    BY <2>1, DrainLoses
  <2>3. /\ outcome' \in [Commands -> {"none", "answer", "started", "failed"}]
        /\ {heard, again}' \subseteq SUBSET Calls
        /\ \A d \in Starts : outcome'[d] = "started" => outcome[d] = "started"
    BY <1>2, <2>1, Told DEF TypeOK, Commands
  <2>4. TypeOK'
    BY <1>2, <2>2, <2>3 DEF TypeOK, Relay!TypeOK
  <2>5. Box!Move
    BY <1>2, <2>2 DEF Box!Move
  <2> QED BY <1>2, <2>2, <2>3, <2>4, <2>5 DEF Moves
<1>3. CASE DeadlineMet(c) /\ ~(c \in Starts \cup again /\ Tell(c, "failed") /\ UNCHANGED <<mail, lost>>)
  <2>1. c \in Calls /\ UNCHANGED <<relay, sub, poller, tables, got, bounds>>
    BY <1>3 DEF DeadlineMet
  <2>2. \E S \in SUBSET mail :
                 /\ Drain(S)
                 /\ \/ Tell(c, "failed")
                    \/ /\ again' = again \cup {c}
                       /\ heard' = heard \ {c}
                       /\ UNCHANGED outcome
    BY <1>3 DEF DeadlineMet
  <2> QED BY <1>2, <2>1, <2>2
<1>4. DeadlineMet(c) => UNCHANGED <<relay, sub, poller, tables, got, bounds>>
  BY DEF DeadlineMet
<1> QED BY <1>1, <1>3, <1>4

\* What a reset clears is lost.
LEMMA ResetMoves == ASSUME TypeOK, ResetBetweenRuns PROVE Moves
<1> USE DEF relay, callers, bounds, tables
<1>1. PICK S \in SUBSET mail : mail' = mail \ S /\ lost' = lost \cup pendingResults \cup Finals(S)
  BY DEF ResetBetweenRuns, Lose
<1>2. /\ UNCHANGED <<sent, done, replied, poller, outcome, heard, again, got, deletes>>
      /\ pendingResults' = {} /\ pendingAcks' = {}
      /\ resets' = resets + 1 /\ sub' \in {"none", "live", "deleted"}
  BY DEF ResetBetweenRuns, Refreshed, NotRecreated, TypeOK
<1>3. /\ InMail' = InMail \ Finals(S) /\ Finals(S) \subseteq InMail
      /\ Finals(S) \subseteq Commands
  BY <1>1, FinalsLess, Monotone DEF InMail, Finals
<1>4. TypeOK'
  BY <1>1, <1>2, <1>3 DEF TypeOK, Relay!TypeOK
<1>5. Box!Move
  BY <1>1, <1>2, <1>3 DEF Box!Move
<1> QED BY <1>1, <1>2, <1>4, <1>5 DEF Moves

\* The subscription comes back, or is deleted with what is in it.
LEMMA SubscriptionMoves ==
    ASSUME TypeOK,
           \/ OtherSessionCleansUp \/ PollerSubscribes
           \/ \E c \in Commands : Resubscribe(c) \/ PullNotFound(c)
    PROVE  Moves
<1> USE DEF relay, callers, bounds, tables
<1>1. CASE OtherSessionCleansUp
  <2>1. /\ UNCHANGED <<sent, done, replied, poller, outcome, heard, again, tables, got, resets>>
        /\ mail' = {} /\ lost' = lost \cup InMail
        /\ deletes' = deletes + 1 /\ sub' = "deleted"
    BY <1>1 DEF OtherSessionCleansUp, Lose, InMail
  <2>2. InMail' = {} /\ InMail \subseteq Commands
    BY <2>1 DEF InMail, Finals
  <2>3. TypeOK'
    BY <2>1, <2>2 DEF TypeOK, Relay!TypeOK
  <2> QED BY <2>1, <2>2, <2>3 DEF Moves, Box!Move
<1>2. CASE PollerSubscribes \/ \E c \in Commands : Resubscribe(c) \/ PullNotFound(c)
  <2>1. /\ UNCHANGED <<relay, mail, poller, tables, got, lost, bounds>>
        /\ UNCHANGED callers \/ \E c \in Commands : Tell(c, "failed")
        /\ sub' \in {"none", "live", "deleted"}
    BY <1>2 DEF PollerSubscribes, Resubscribe, Subscribed, PullNotFound, NotRecreated, TypeOK
  <2>2. TypeOK'
    BY <2>1, Told DEF TypeOK, Relay!TypeOK
  <2>3. \A d \in Starts : outcome'[d] = "started" => outcome[d] = "started"
    BY <2>1, Told DEF Commands
  <2> QED BY <2>1, <2>2, <2>3 DEF Moves, Box!Move, InMail
<1> QED BY <1>1, <1>2

\* All that is not the relay's doing.
LEMMA SessionMoves ==
    ASSUME TypeOK, Next, ~(\E c \in Commands : RelayTakes(c) \/ RelayAnswers(c))
    PROVE  Moves
BY PublishMoves, LookMoves, GiveUpMoves, SubscriptionMoves, ResetMoves,
   PollerPullMoves, RaiseMoves, PollForResultMoves, WaitForAckMoves, SinglePollMoves DEF Next

-----------------------------------------------------------------------------
(* The relay's steps, and the invariant.                                   *)

\* The relay takes a command: an acknowledgement at most.
LEMMA TakesStep ==
    ASSUME TypeOK, NEW c \in Commands, RelayTakes(c)
    PROVE  /\ TypeOK'
           /\ UNCHANGED <<replied, outcome, pendingAcks, pendingResults, got, lost>>
           /\ done' \in [Commands -> Nat] /\ done'[c] > 0
           /\ \A d \in Commands : done[d] > 0 => done'[d] > 0
           /\ Acks(mail') \subseteq Acks(mail) \cup {c}
           /\ InMail' = InMail
<1> USE DEF callers, tables, bounds, relay
<1>1. mail' = mail \cup {Msg(c, "ack")} \/ mail' = mail
  BY DEF RelayTakes, Deliver
<1>2. /\ done' = [done EXCEPT ![c] = @ + 1]
      /\ UNCHANGED <<sent, replied, sub, poller, outcome, heard, again, tables, got, lost, bounds>>
  BY DEF RelayTakes, Relay!CarryOut
<1>3. done' \in [Commands -> Nat] /\ done'[c] > 0
      /\ \A d \in Commands : done[d] > 0 => done'[d] > 0
  BY <1>2 DEF TypeOK, Relay!TypeOK
<1>4. Acks(mail') \subseteq Acks(mail) \cup {c} /\ InMail' = InMail
  <2>1. /\ Finals(mail \cup {Msg(c, "ack")}) = Finals(mail)
        /\ Acks(mail \cup {Msg(c, "ack")}) = Acks(mail) \cup {c}
    BY FinalsMore
  <2>2. CASE mail' = mail \cup {Msg(c, "ack")}
    BY <2>1, <2>2 DEF InMail
  <2>3. CASE mail' = mail
    BY <2>3 DEF InMail
  <2> QED BY <1>1, <2>2, <2>3
<1>5. Msg(c, "ack") \in Message
  BY DEF Msg, Message
<1>6. TypeOK'
  BY <1>1, <1>2, <1>3, <1>5 DEF TypeOK, Relay!TypeOK
<1> QED BY <1>2, <1>3, <1>4, <1>6

\* The relay answers: the answer is in the subscription, or lost.
LEMMA AnswersStep ==
    ASSUME TypeOK, NEW c \in Commands, RelayAnswers(c)
    PROVE  /\ TypeOK'
           /\ UNCHANGED <<done, outcome, pendingAcks, pendingResults, got>>
           /\ done[c] > 0 /\ replied' = replied \cup {c}
           /\ Acks(mail') = Acks(mail)
           /\ \/ InMail' = InMail \cup {c} /\ UNCHANGED lost
              \/ InMail' = InMail /\ lost' = lost \cup {c}
<1> USE DEF callers, tables, bounds, relay
<1>1. \/ mail' = mail \cup {Msg(c, "final")} /\ UNCHANGED lost
      \/ mail' = mail /\ lost' = lost \cup {c}
  BY DEF RelayAnswers, Deliver, Lose
<1>2. /\ done[c] > 0 /\ replied' = replied \cup {c}
      /\ UNCHANGED <<sent, done, sub, poller, outcome, heard, again, tables, got, bounds>>
  BY DEF RelayAnswers, Relay!Reply
<1>3. /\ Acks(mail') = Acks(mail)
      /\ \/ InMail' = InMail \cup {c} /\ UNCHANGED lost
         \/ InMail' = InMail /\ lost' = lost \cup {c}
  <2>1. /\ Finals(mail \cup {Msg(c, "final")}) = Finals(mail) \cup {c}
        /\ Acks(mail \cup {Msg(c, "final")}) = Acks(mail)
    BY FinalsMore
  <2>2. CASE mail' = mail \cup {Msg(c, "final")} /\ UNCHANGED lost
    BY <2>1, <2>2 DEF InMail
  <2>3. CASE mail' = mail /\ lost' = lost \cup {c}
    BY <2>3 DEF InMail
  <2> QED BY <1>1, <2>2, <2>3
<1>4. Msg(c, "final") \in Message
  BY DEF Msg, Message
<1>5. TypeOK'
  BY <1>1, <1>2, <1>4 DEF TypeOK, Relay!TypeOK
<1> QED BY <1>2, <1>3, <1>5

LEMMA InitIInv == Init => IInv
<1> SUFFICES ASSUME Init PROVE IInv
  OBVIOUS
<1> USE DEF Init, Relay!Init
<1>1. TypeOK
  BY DEF TypeOK, Relay!TypeOK
<1> QED BY <1>1 DEF IInv, MailInv, StartedMeansTaken, AnswerAccounted,
                    InMail, Finals, Acks, Commands

\* A session that only moves answers about keeps the account of them.
LEMMA MovesStep == ASSUME IInv, Moves PROVE IInv'
<1> USE DEF IInv, Moves
<1>1. Finals(mail') \subseteq Finals(mail) /\ Acks(mail') \subseteq Acks(mail)
  BY Monotone
<1>2. MailInv'
  BY <1>1 DEF MailInv
<1>3. StartedMeansTaken'
  BY DEF StartedMeansTaken, MailInv
<1>4. AnswerAccounted'
  BY DEF AnswerAccounted, Box!Move
<1> QED BY <1>2, <1>3, <1>4

\* The relay's steps add to what is known of a command.
LEMMA RelayStep ==
    ASSUME IInv, NEW c \in Commands, RelayTakes(c) \/ RelayAnswers(c)
    PROVE  IInv'
<1> USE DEF IInv
<1>1. CASE RelayTakes(c)
  <2>1. MailInv' /\ StartedMeansTaken' /\ AnswerAccounted'
    BY <1>1, TakesStep
       DEF MailInv, StartedMeansTaken, AnswerAccounted, InMail, Commands, TypeOK, Relay!TypeOK, Acks
  <2> QED BY <1>1, <2>1, TakesStep
<1>2. CASE RelayAnswers(c)
  <2>1. MailInv' /\ StartedMeansTaken' /\ AnswerAccounted'
    BY <1>2, AnswersStep DEF MailInv, StartedMeansTaken, AnswerAccounted, InMail
  <2> QED BY <1>2, <2>1, AnswersStep
<1> QED BY <1>1, <1>2

LEMMA StepIInv == IInv /\ [Next]_vars => IInv'
<1> SUFFICES ASSUME IInv, [Next]_vars PROVE IInv'
  OBVIOUS
<1>1. CASE \E c \in Commands : RelayTakes(c) \/ RelayAnswers(c)
  BY <1>1, RelayStep
<1>2. CASE Next /\ ~(\E c \in Commands : RelayTakes(c) \/ RelayAnswers(c))
  BY <1>2, SessionMoves, MovesStep DEF IInv
<1>3. CASE UNCHANGED vars
  BY <1>3 DEF vars, relay, callers, tables, bounds, IInv, TypeOK, Relay!TypeOK,
              MailInv, StartedMeansTaken, AnswerAccounted, InMail, Finals, Acks
<1> QED BY <1>1, <1>2, <1>3

\* IInv holds throughout: it is what the theorems read their claims off.
LEMMA AlwaysIInv == Spec => []IInv
<1> QED BY InitIInv, StepIInv, PTL DEF Spec

-----------------------------------------------------------------------------

\* The variables of a session keep their types.
THEOREM TypeCorrect == Spec => []TypeOK
<1>1. IInv => TypeOK
  BY DEF IInv
<1> QED BY <1>1, AlwaysIInv, PTL

\* send_command_start says "started" only of a workflow the relay has taken,
\* whichever thread pulled the acknowledgement.
THEOREM StartedIsTaken == Spec => []StartedMeansTaken
<1>1. IInv => StartedMeansTaken
  BY DEF IInv
<1> QED BY <1>1, AlwaysIInv, PTL

\* No thread, however the threads interleave, makes an answer disappear: it is
\* in the subscription, in the table, with its caller, or lost to one of the
\* steps that throw answers away.
THEOREM AnswersAccounted == Spec => []AnswerAccounted
<1>1. IInv => AnswerAccounted
  BY DEF IInv
<1> QED BY <1>1, AlwaysIInv, PTL

-----------------------------------------------------------------------------
(* No answer out of nothing.                                               *)

\* Who is told an answer was handed the one to that very command; and what is
\* kept, handed over or lost was published by a relay that had been sent the
\* command and carried it out.
AnswersAreReal ==
    /\ \A c \in Commands : outcome[c] = "answer" => c \in got
    /\ pendingResults \cup got \cup lost \subseteq replied
    /\ \A c \in replied : done[c] > 0 /\ c \in sent

RealInv == AnswersAreReal /\ \A c \in Commands : done[c] > 0 => c \in sent

\* No other step says "answer" than one that hands it over.
LEMMA AnswerTold ==
    ASSUME TypeOK, Next, NEW d \in Commands, outcome'[d] = "answer"
    PROVE  outcome[d] = "answer" \/ d \in got'
<1> DEFINE Fine == outcome'[d] = "answer" => outcome[d] = "answer" \/ d \in got'
<1>1. ASSUME NEW c \in Commands, NEW told \in {"started", "failed"}, Tell(c, told) PROVE Fine
  BY <1>1, Told
<1>2. ASSUME UNCHANGED outcome PROVE Fine
  BY <1>2
<1>3. ASSUME NEW c \in Commands, Tell(c, "answer"), c \in got' PROVE Fine
  BY <1>3, Told
<1> HIDE DEF Fine
<1>4. ASSUME NEW c \in Commands, NEW S \in SUBSET mail, ReturnOwn(c, S, Tell(c, "failed"))
      PROVE  Fine
  BY <1>1, <1>3, <1>4 DEF ReturnOwn
<1>5. ASSUME NEW c \in Commands, NEW S \in SUBSET mail, ReturnOwn(c, S, UNCHANGED callers)
      PROVE  Fine
  BY <1>2, <1>3, <1>5 DEF ReturnOwn, callers
<1>6. ASSUME NEW c \in Commands,
             \/ Publish(c) \/ RelayTakes(c) \/ RelayAnswers(c) \/ FindAck(c) \/ FleetPops(c)
             \/ Resubscribe(c) \/ PullNotFound(c) \/ RelayLost(c) \/ DeadlineMet(c)
      PROVE  Fine
  BY <1>1, <1>2, <1>6 DEF Publish, RelayTakes, RelayAnswers, FindAck, FleetPops, RelayLost,
                          Resubscribe, PullNotFound, DeadlineMet, callers
<1>7. ASSUME NEW c \in Commands, FindAnswer(c) PROVE Fine
  BY <1>3, <1>7 DEF FindAnswer
<1>8. ASSUME NEW S \in SUBSET mail, NEW c \in Commands,
             \/ PollForResult(c, S) \/ WaitForAck(c, S) \/ SinglePoll(c, S)
             \/ PullRaises(c, S)
      PROVE  Fine
  BY <1>1, <1>2, <1>4, <1>5, <1>8
     DEF PollForResult, WaitForAck, SinglePoll, PullRaises, CountingRaises, callers
<1>9. ASSUME \/ \E S \in SUBSET mail : PollerPull(S) \/ PollerDies(S)
             \/ PollerSubscribes \/ ResetBetweenRuns \/ OtherSessionCleansUp
      PROVE  Fine
  BY <1>2, <1>9 DEF PollerPull, PollerDies, CountingRaises, PollerSubscribes, ResetBetweenRuns,
                    OtherSessionCleansUp, callers
<1> QED BY <1>6, <1>7, <1>8, <1>9 DEF Next, Fine

LEMMA StepRealInv == IInv /\ RealInv /\ [Next]_vars => RealInv'
<1> SUFFICES ASSUME IInv, RealInv, [Next]_vars PROVE RealInv'
  OBVIOUS
<1>1. CASE \E c \in Commands : RelayTakes(c) \/ RelayAnswers(c)
  <2>1. PICK c \in Commands : RelayTakes(c) \/ RelayAnswers(c)
    BY <1>1
  <2>2. /\ UNCHANGED <<sent, outcome, pendingResults, got>>
        /\ \/ /\ done' = [done EXCEPT ![c] = @ + 1] /\ c \in sent
              /\ UNCHANGED <<replied, lost>>
           \/ /\ UNCHANGED done /\ done[c] > 0 /\ replied' = replied \cup {c}
              /\ lost' \subseteq lost \cup {c}
    BY <2>1 DEF RelayTakes, RelayAnswers, Relay!CarryOut, Relay!Reply, callers, tables, Lose
  <2> QED BY <2>2 DEF RealInv, AnswersAreReal, IInv, TypeOK, Relay!TypeOK
<1>2. CASE Next /\ ~(\E c \in Commands : RelayTakes(c) \/ RelayAnswers(c))
  <2>1. Moves
    BY <1>2, SessionMoves DEF IInv
  <2>2. sent \subseteq sent'
    BY <1>2 DEF Next, Publish, Relay!Request, FindAnswer, FindAck, FleetPops, RelayLost,
                Resubscribe, PullNotFound, DeadlineMet, PollerPull, PollerDies, PollForResult,
                WaitForAck, SinglePoll, PullRaises,
                PollerSubscribes, ResetBetweenRuns, OtherSessionCleansUp, relay
  <2>3. got \subseteq got' /\ (pendingResults \cup got \cup lost)'
           \subseteq pendingResults \cup got \cup lost \cup InMail
    BY <2>1 DEF Moves, Box!Move
  <2>4. \A d \in Commands : outcome'[d] = "answer" => d \in got'
    BY <1>2, <2>3, AnswerTold DEF IInv, RealInv, AnswersAreReal
  <2>5. UNCHANGED <<done, replied>> /\ InMail \subseteq replied
    BY <2>1 DEF Moves, IInv, MailInv, InMail
  <2> QED BY <2>2, <2>3, <2>4, <2>5 DEF RealInv, AnswersAreReal
<1>3. CASE UNCHANGED vars
  BY <1>3 DEF vars, relay, callers, tables, RealInv, AnswersAreReal
<1> QED BY <1>1, <1>2, <1>3

\* No caller is ever given an answer that the relay did not publish to its own
\* command, after carrying it out: not from the table other threads fill, not by
\* the second try after a drain, not by the fleet status.
THEOREM NothingInvented == Spec => []AnswersAreReal
<1>1. Init => RealInv
  BY DEF Init, Relay!Init, RealInv, AnswersAreReal
<1>2. RealInv => AnswersAreReal
  BY DEF RealInv
<1> QED BY <1>1, <1>2, StepRealInv, AlwaysIInv, PTL DEF Spec

\* Threads, tables and subscription together do what Mailbox promises: the
\* relay posts, and every other step moves answers from where they are.
THEOREM RefinesMailbox == Spec => ImplementsMailbox
<1>1. Init => Box!Init
  BY DEF Init, Box!Init, InMail, Finals
<1>2. IInv /\ [Next]_vars => [Box!Next]_<<InMail, pendingResults, got, lost>>
  <2> SUFFICES ASSUME IInv, [Next]_vars
               PROVE  [Box!Next]_<<InMail, pendingResults, got, lost>>
    OBVIOUS
  <2>1. ASSUME NEW c \in Commands, RelayTakes(c)
        PROVE  UNCHANGED <<InMail, pendingResults, got, lost>>
    BY <2>1, TakesStep DEF IInv
  <2>2. ASSUME NEW c \in Commands, RelayAnswers(c)
        PROVE  Box!Post(c)
    BY <2>2, AnswersStep DEF IInv, Box!Post
  <2>3. CASE Next /\ ~(\E c \in Commands : RelayTakes(c) \/ RelayAnswers(c))
    BY <2>3, SessionMoves DEF IInv, Moves, Box!Next
  <2>4. CASE UNCHANGED vars
    BY <2>4 DEF vars, tables, InMail, Finals
  <2> QED BY <2>1, <2>2, <2>3, <2>4 DEF Box!Next
<1> QED BY <1>1, <1>2, AlwaysIInv, PTL DEF Spec, ImplementsMailbox, Box!Spec
=============================================================================
