------------------------------- MODULE Bridge -------------------------------
(***************************************************************************)
(* agents/bridge/pubsub_client.py: one agent session's end of the results  *)
(* topic. Every command has a thread of its own that pulls from the        *)
(* session's one subscription until it has what it waits for (send_command *)
(* the answer, send_command_start the acknowledgement); a background       *)
(* poller pulls from it all the time; drains and resets acknowledge what   *)
(* they find unread; another session's start deletes the subscription.     *)
(* The relay is the CommandService that RelayDaemon implements; heartbeats *)
(* do to a call what an acknowledgement does, and are left out.            *)
(*                                                                         *)
(* A pull, the handling of its messages and their acknowledgement are one  *)
(* step: in between the messages are leased to the thread, and all that    *)
(* others see of it is answers and acknowledgements added to the tables. A *)
(* loop's look into a table is a step of its own, and a pull may go on     *)
(* after the table has what the loop looked for. An acknowledgement may    *)
(* raise, and may fail to take effect, one without the other; what is not  *)
(* acknowledged is delivered again. Counting a message (usage_tracker's    *)
(* record_received, a file) may raise in the middle of a pull, and so may  *)
(* making a subscription: a caller is then given the exception, and the    *)
(* poller, whose loop catches neither, is gone for the session.            *)
(***************************************************************************)
EXTENDS Naturals, FiniteSets

CONSTANTS
    Calls,          \* commands sent with send_command
    Starts,         \* commands sent with send_command_start (workflow.run)
    MaxPull,        \* max_messages of a pull (10)
    MaxResets,      \* bound: calls of reset_between_runs
    MaxDeletes      \* bound: how often another session deletes the subscription

Commands == Calls \cup Starts

ASSUME CommandsAssumption == Calls \cap Starts = {}
ASSUME BoundAssumption == MaxPull \in Nat \ {0} /\ MaxResets \in Nat /\ MaxDeletes \in Nat

VARIABLES
    sent, done, replied,    \* the relay, as in CommandService
    sub,            \* the subscription: "none" yet, "live", or "deleted" under us
    mail,           \* messages it has to deliver
    outcome,        \* what the sender of a command was told
    poller,         \* the background poller's thread is running
    heard,          \* calls with a last_heartbeat_time
    again,          \* calls in their second try
    pendingResults, pendingAcks,
    got,            \* history: commands whose answer was handed over
    lost,           \* history: answers, or copies of them, thrown away unseen
    resets, deletes

relay   == <<sent, done, replied>>
callers == <<outcome, heard, again>>
tables  == <<pendingResults, pendingAcks>>
bounds  == <<resets, deletes>>
vars == <<relay, sub, mail, poller, callers, tables, got, lost, bounds>>

Relay == INSTANCE CommandService WITH Once <- Starts

Message == [corr : Commands, type : {"ack", "final"}]

Msg(c, t) == [corr |-> c, type |-> t]
Finals(S) == {c \in Commands : Msg(c, "final") \in S}
Acks(S)   == {c \in Commands : Msg(c, "ack") \in S}

Lose(C) == lost' = lost \cup C

TypeOK ==
    /\ Relay!TypeOK
    /\ sub \in {"none", "live", "deleted"}
    /\ mail \in SUBSET Message
    /\ poller \in BOOLEAN
    /\ outcome \in [Commands -> {"none", "answer", "started", "failed"}]
    /\ {heard, again} \subseteq SUBSET Calls
    /\ {pendingResults, pendingAcks, got, lost} \subseteq SUBSET Commands
    /\ resets \in Nat /\ deletes \in Nat

Init ==
    /\ Relay!Init
    /\ sub = "none" /\ mail = {} /\ poller = TRUE
    /\ outcome = [c \in Commands |-> "none"]
    /\ heard = {} /\ again = {}
    /\ pendingResults = {} /\ pendingAcks = {}
    /\ got = {} /\ lost = {}
    /\ resets = 0 /\ deletes = 0

\* The thread of c is in _poll_for_result or _wait_for_ack.
Polling(c) == c \in sent /\ outcome[c] = "none"

\* send_command_start has returned; check_for_result may be called.
Checking(c) == c \in Starts /\ outcome[c] = "started"

\* The sender of c is told this; the variables of its thread are gone.
Tell(c, told) ==
    /\ outcome' = [outcome EXCEPT ![c] = told]
    /\ heard' = heard \ {c} /\ again' = again \ {c}

-----------------------------------------------------------------------------
(* The relay and Pub/Sub.                                                  *)

Deliver(m) == mail' = IF sub = "live" THEN mail \cup {m} ELSE mail

\* The relay says "received" before it begins; its publish may fail.
RelayTakes(c) ==
    /\ done[c] = 0
    /\ Relay!CarryOut(c)
    /\ Deliver(Msg(c, "ack")) \/ UNCHANGED mail
    /\ UNCHANGED <<sub, poller, callers, tables, got, lost, bounds>>

RelayAnswers(c) ==
    /\ c \notin replied
    /\ Relay!Reply(c)
    /\ Deliver(Msg(c, "final"))
    /\ IF sub = "live" THEN UNCHANGED lost ELSE Lose({c})
    /\ UNCHANGED <<sub, poller, callers, tables, got, bounds>>

\* _cleanup_orphaned_subscriptions of another session: what was in it is gone.
OtherSessionCleansUp ==
    /\ sub = "live" /\ deletes < MaxDeletes
    /\ deletes' = deletes + 1
    /\ sub' = "deleted"
    /\ mail' = {}
    /\ Lose(Finals(mail))
    /\ UNCHANGED <<relay, poller, callers, tables, got, resets>>

\* _results_sub for the background poller; after ten NOT_FOUNDs in a row it
\* recreates the subscription.
PollerSubscribes ==
    /\ poller /\ sub # "live"
    /\ sub' = "live"
    /\ UNCHANGED <<relay, mail, poller, callers, tables, got, lost, bounds>>

-----------------------------------------------------------------------------
(* Sending, and looking into the tables.                                   *)

\* _results_sub: created on first use.
Subscribed == sub' = IF sub = "none" THEN "live" ELSE sub

\* _recreate_subscription forgets the subscription's path and makes it anew
\* under the same name: one that still exists stays what it is. Where that
\* fails there is none, until the next _results_sub.
NotRecreated == sub' = IF sub = "live" THEN sub ELSE "none"

\* refresh_subscription: not run, or it found nothing wrong; recreated; failed.
Refreshed == UNCHANGED sub \/ sub' = "live" \/ NotRecreated

\* _results_sub, which may raise, then _publish_command: the usage tracker may
\* block it, and it may raise with or without having taken effect.
Publish(c) ==
    /\ c \notin sent /\ outcome[c] = "none"
    /\ \/ Subscribed /\ Relay!Request(c) /\ UNCHANGED callers
       \/ Subscribed /\ Relay!Request(c) /\ Tell(c, "failed")
       \/ (Subscribed \/ UNCHANGED sub) /\ UNCHANGED relay /\ Tell(c, "failed")
    /\ UNCHANGED <<mail, poller, tables, got, lost, bounds>>

\* The first line of a poll, of a check and of a drain: _results_sub again.
Resubscribe(c) ==
    /\ Polling(c) \/ Checking(c)
    /\ sub = "none" /\ Subscribed
    /\ UNCHANGED <<relay, mail, poller, callers, tables, got, lost, bounds>>

\* The head of _poll_for_result, and check_for_result.
FindAnswer(c) ==
    /\ c \in pendingResults
    /\ (c \in Calls /\ Polling(c)) \/ Checking(c)
    /\ pendingResults' = pendingResults \ {c}
    /\ got' = got \cup {c}
    /\ Tell(c, "answer")
    /\ UNCHANGED <<relay, sub, mail, poller, pendingAcks, lost, bounds>>

\* Mutant: the caller is given the message's type for an outcome.
FindAck_RawType(c) ==
    /\ c \in pendingAcks \cap Starts /\ Polling(c)
    /\ pendingAcks' = pendingAcks \ {c}
    /\ Tell(c, "ack")
    /\ UNCHANGED <<relay, sub, mail, poller, pendingResults, got, lost, bounds>>

\* The head of _wait_for_ack.
FindAck(c) ==
    /\ c \in pendingAcks \cap Starts /\ Polling(c)
    /\ pendingAcks' = pendingAcks \ {c}
    /\ Tell(c, "started")
    /\ UNCHANGED <<relay, sub, mail, poller, pendingResults, got, lost, bounds>>

\* pop_pending_completions, on behalf of the fleet status, for the workflows
\* that dci_workflow_run has seen acknowledged.
FleetPops(c) ==
    /\ c \in pendingResults /\ Checking(c)
    /\ pendingResults' = pendingResults \ {c}
    /\ got' = got \cup {c}
    /\ UNCHANGED <<relay, sub, mail, poller, callers, pendingAcks, lost, bounds>>

-----------------------------------------------------------------------------
(* Pull, handle, acknowledge.                                              *)

\* A pull returned the messages S.
Pulled(S) == sub = "live" /\ S # {} /\ Cardinality(S) <= MaxPull

\* The messages S are acknowledged, or will be delivered again.
Acknowledge(S, ok) == mail' = IF ok THEN mail \ S ELSE mail

\* The loop stops at c's own answer: what comes after it is neither looked at
\* nor acknowledged, so S is what comes before it, and it. acknowledge is called
\* before the answer is returned; if it raises, the caller gets the exception.
ReturnOwn(c, S, Exception) ==
    \E ok, raised \in BOOLEAN :
        /\ pendingResults' = pendingResults \cup (Finals(S) \ {c})
        /\ Acknowledge(S, ok)
        /\ IF raised THEN Exception /\ UNCHANGED got
                     ELSE Tell(c, "answer") /\ got' = got \cup {c}
        /\ IF raised /\ ok THEN Lose({c}) ELSE UNCHANGED lost

\* record_received raises on the message after the messages S: those are in the
\* table, none is acknowledged.
CountingRaises(S, Exception) ==
    /\ sub = "live" /\ Cardinality(S) < MaxPull /\ S # mail
    /\ pendingResults' = pendingResults \cup Finals(S)
    /\ Exception
    /\ UNCHANGED <<mail, got, lost>>

\* Mutant: an answer to somebody else is acknowledged and dropped.
PollForResult_OwnOnly(c, S) ==
    /\ c \in Calls /\ Polling(c) /\ Pulled(S)
    /\ c \notin Finals(S)
    /\ Acknowledge(S, TRUE)
    /\ UNCHANGED <<relay, sub, poller, callers, tables, got, lost, bounds>>

\* _poll_for_result. The answers to others go into the table, their
\* acknowledgements are dropped. A call that has heard of the relay, but not
\* this time, may find that long ago.
PollForResult(c, S) ==
    /\ c \in Calls /\ Polling(c) /\ Pulled(S)
    /\ \/ c \in Finals(S) /\ ReturnOwn(c, S, Tell(c, "failed"))
       \/ /\ c \notin Finals(S)
          /\ pendingResults' = pendingResults \cup Finals(S)
          /\ \E ok \in BOOLEAN : Acknowledge(S, ok)
          /\ \/ Tell(c, "failed")               \* acknowledge raised, or relay lost
             \/ /\ heard' = IF c \in Acks(S) THEN heard \cup {c} ELSE heard
                /\ UNCHANGED <<outcome, again>>
          /\ UNCHANGED <<got, lost>>
    /\ UNCHANGED <<relay, sub, poller, pendingAcks, bounds>>

\* Mutant: any message at all counts as the relay's acknowledgement.
WaitForAck_AnyMessage(c, S) ==
    /\ c \in Starts /\ Polling(c) /\ Pulled(S)
    /\ pendingResults' = pendingResults \cup Finals(S)
    /\ Acknowledge(S, TRUE)
    /\ Tell(c, "started")
    /\ UNCHANGED <<relay, sub, poller, pendingAcks, got, lost, bounds>>

\* _wait_for_ack. The command's own answer serves as an acknowledgement and
\* stays in the table.
WaitForAck(c, S) ==
    /\ c \in Starts /\ Polling(c) /\ Pulled(S)
    /\ pendingResults' = pendingResults \cup Finals(S)
    /\ \E ok \in BOOLEAN : Acknowledge(S, ok)
    /\ \/ Tell(c, "failed")                     \* acknowledge raised
       \/ c \in Finals(S) \cup Acks(S) /\ Tell(c, "started")
       \/ c \notin Finals(S) \cup Acks(S) /\ UNCHANGED callers
    /\ UNCHANGED <<relay, sub, poller, pendingAcks, got, lost, bounds>>

\* _single_poll, once per check_for_result.
SinglePoll(c, S) ==
    /\ Checking(c) /\ Pulled(S)
    /\ \/ c \in Finals(S) /\ ReturnOwn(c, S, UNCHANGED callers)
       \/ /\ c \notin Finals(S)
          /\ pendingResults' = pendingResults \cup Finals(S)
          /\ \E ok \in BOOLEAN : Acknowledge(S, ok)
          /\ UNCHANGED <<callers, got, lost>>
    /\ UNCHANGED <<relay, sub, poller, pendingAcks, bounds>>

\* record_received raises in one of the three: the exception is the caller's.
PullRaises(c, S) ==
    /\ \/ Polling(c) /\ (c \in Starts \/ c \notin Finals(S))
          /\ CountingRaises(S, Tell(c, "failed"))
       \/ Checking(c) /\ c \notin Finals(S)
          /\ CountingRaises(S, UNCHANGED callers)
    /\ UNCHANGED <<relay, sub, poller, pendingAcks, bounds>>

\* Mutant: the background poller leaves answers for others to pull.
PollerPull_AcksOnly(S) ==
    /\ poller /\ Pulled(S)
    /\ pendingAcks' = pendingAcks \cup (Acks(S) \cap Starts)
    /\ Acknowledge(S \ {Msg(c, "final") : c \in Finals(S)}, TRUE)
    /\ UNCHANGED <<relay, sub, poller, callers, pendingResults, got, lost, bounds>>

\* The background poller tables answers and acknowledgements (those of
\* send_command too, but nobody looks these up).
PollerPull(S) ==
    /\ poller /\ Pulled(S)
    /\ pendingResults' = pendingResults \cup Finals(S)
    /\ pendingAcks' = pendingAcks \cup (Acks(S) \cap Starts)
    /\ \E ok \in BOOLEAN : Acknowledge(S, ok)
    /\ UNCHANGED <<relay, sub, poller, callers, got, lost, bounds>>

\* The poller's thread ends, for good: record_received raised, or
\* _recreate_subscription did, which the watchdog and the circuit breaker call.
\* Nothing starts another one.
PollerDies(S) ==
    /\ poller /\ poller' = FALSE
    /\ \/ /\ CountingRaises(S, UNCHANGED <<sub, callers>>)
          /\ pendingAcks' = pendingAcks \cup (Acks(S) \cap Starts)
       \/ NotRecreated /\ UNCHANGED <<mail, callers, tables, got, lost>>
    /\ UNCHANGED <<relay, bounds>>

\* An empty pull. A call that has heard of the relay may find that long ago.
RelayLost(c) ==
    /\ Polling(c) /\ c \in heard
    /\ Tell(c, "failed")
    /\ UNCHANGED <<relay, sub, mail, poller, tables, got, lost, bounds>>

\* NOT_FOUND: _poll_for_result recreates the subscription at once, or is ended
\* by the attempt; _wait_for_ack and _single_poll do nothing about it.
PullNotFound(c) ==
    /\ c \in Calls /\ Polling(c) /\ sub # "live"
    /\ \/ sub' = "live" /\ UNCHANGED callers
       \/ NotRecreated /\ Tell(c, "failed")
    /\ UNCHANGED <<relay, mail, poller, tables, got, lost, bounds>>

-----------------------------------------------------------------------------
(* The deadline, and draining.                                             *)

\* drain_subscription acknowledges unread what it pulls, up to 100 messages a
\* time: some of what is there, or nothing if the pull raised.
Drain(S) ==
    /\ sub # "live" => S = {}
    /\ \/ mail' = mail \ S /\ Lose(Finals(S))
       \/ UNCHANGED <<mail, lost>>

\* Mutant: a second try is not remembered to be one, and needs no reason.
DeadlineMet_AlwaysAgain(c) ==
    /\ Polling(c)
    /\ IF c \in Starts THEN Tell(c, "failed") ELSE UNCHANGED callers
    /\ \E S \in SUBSET mail : Drain(S)
    /\ UNCHANGED <<relay, sub, poller, tables, got, bounds>>

\* while time.time() < deadline: past it the tables are not looked at once
\* more. A call drains and, if there was something to drain, polls for 15
\* seconds more with a new heartbeat clock.
DeadlineMet(c) ==
    /\ Polling(c)
    /\ UNCHANGED <<relay, sub, poller, tables, got, bounds>>
    /\ \/ c \in Starts \cup again /\ Tell(c, "failed") /\ UNCHANGED <<mail, lost>>
       \/ /\ c \in Calls \ again
          /\ \E S \in SUBSET mail :
                /\ Drain(S)
                /\ \/ Tell(c, "failed")         \* nothing drained, or it raised
                   \/ /\ S # {}
                      /\ again' = again \cup {c}
                      /\ heard' = heard \ {c}
                      /\ UNCHANGED outcome

\* reset_between_runs: the tables, the subscription, and a test pull that
\* leads to a new subscription if there is none. An answer tabled after the
\* tables were cleared is one that came after the reset.
ResetBetweenRuns ==
    /\ resets < MaxResets
    /\ resets' = resets + 1
    /\ pendingResults' = {} /\ pendingAcks' = {}
    /\ \E S \in SUBSET mail :
          /\ sub # "live" => S = {}
          /\ mail' = mail \ S
          /\ Lose(pendingResults \cup Finals(S))
    /\ Refreshed                                \* not, if the drain raised
    /\ UNCHANGED <<relay, poller, callers, got, deletes>>

-----------------------------------------------------------------------------

Next ==
    \/ \E c \in Commands : \/ Publish(c) \/ RelayTakes(c) \/ RelayAnswers(c)
                           \/ FindAnswer(c) \/ FindAck(c) \/ FleetPops(c)
                           \/ Resubscribe(c) \/ PullNotFound(c)
                           \/ RelayLost(c) \/ DeadlineMet(c)
    \/ \E S \in SUBSET mail : \/ PollerPull(S) \/ PollerDies(S)
                              \/ \E c \in Commands : \/ PollForResult(c, S)
                                                     \/ WaitForAck(c, S) \/ SinglePoll(c, S)
                                                     \/ PullRaises(c, S)
    \/ PollerSubscribes \/ ResetBetweenRuns \/ OtherSessionCleansUp

Spec == Init /\ [][Next]_vars

\* Clocks advance, and Pub/Sub does not hold back an answer for ever from a
\* background poller that keeps running. The relay owes nothing, nobody has to
\* poll, and the poller may end.
FairSpec ==
    /\ Spec
    /\ \A c \in Commands :
          /\ WF_vars(DeadlineMet(c))
          /\ SF_vars(\E S \in SUBSET mail : c \in Finals(S) /\ PollerPull(S))

-----------------------------------------------------------------------------
(* Properties.                                                             *)

InMail == Finals(mail)

\* Every answer the relay gave is still to be delivered, in the table,
\* with its caller, or lost to a drain, a reset, a subscription
\* that was not there, or an acknowledgement that raised: whichever thread
\* pulled it, and however the threads interleave.
AnswerAccounted == replied \subseteq InMail \cup pendingResults \cup got \cup lost

\* send_command_start reports "started" only of a command the relay has taken,
\* although the acknowledgement may have been pulled by another thread.
StartedMeansTaken == \A c \in Starts : outcome[c] = "started" => done[c] > 0

\* Every caller is told something in the end, whatever the relay, Pub/Sub, the
\* poller and the other callers do: there is no time from which on somebody
\* waits (a command is sent once, and what its sender was told stays told).
EveryCallReturns == []<>(\A c \in sent : outcome[c] # "none")

\* No answer rots in the subscription of a session whose poller runs: there is
\* no time from which on one lies there that no thread has tabled or handed
\* over and that is not lost to one of the known causes.
NoAnswerRots ==
    []<>(poller => InMail \subseteq pendingResults \cup got \cup lost)

\* The threads and tables together do what Mailbox promises.
Box == INSTANCE Mailbox WITH posted <- InMail, kept <- pendingResults,
                             handed <- got, lost <- lost
ImplementsMailbox == Box!Spec
=============================================================================
