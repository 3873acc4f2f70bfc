---------------------------- MODULE RelayDaemon ----------------------------
(***************************************************************************)
(* The relay daemon (relay/daemon.py) between the Pub/Sub subscription it  *)
(* pulls commands from and the topic it answers on: the main loop with its *)
(* two acknowledgement rules, the thread pool, _process_message with its   *)
(* bounded publish retries, the start-up drain, a graceful stop, a crash   *)
(* and the restart that relay.update schedules.                            *)
(*                                                                         *)
(* A handler is one step here; WorkflowHandlers opens it up.               *)
(***************************************************************************)
EXTENDS Naturals, Sequences, FiniteSets

CONSTANTS
    Commands,       \* correlation ids of the commands the operators send
    Kind,           \* Kind[c]: the command_type of c
    Workers,        \* threads of the ThreadPoolExecutor (max_workers=8)
    MaxPull,        \* max_messages of the main loop's pull (5)
    MaxDeliveries,  \* bound: how often the subscription delivers a command
    MaxRestarts,    \* bound: how often the process dies or is stopped
    None            \* no command

LongRunning(c) == Kind[c] = "workflow.run"

ASSUME NoneAssumption == None \notin Commands
ASSUME KindAssumption ==
    Kind \in [Commands -> {"workflow.run", "relay.update", "other"}]
ASSUME BoundAssumption ==
    /\ MaxPull \in Nat \ {0}
    /\ MaxDeliveries \in Nat \ {0}
    /\ MaxRestarts \in Nat

VARIABLES
    msg,            \* Pub/Sub's view of each command message
    deliveries,     \* how often it has been handed out
    phase,          \* where daemon.main() is
    batch,          \* pulled messages the main loop has not dispatched yet
    tasks,          \* the executor's FIFO work queue
    job, at,        \* per worker: its command and its place in _process_message
    restartDue,     \* relay.update's two-second Timer is running
    restarts,
    execs,          \* history: how often a handler was entered for a command
    answered,       \* commands whose final message reached dci-results
    lostTo          \* history: what made an attempt at a command come to nothing

queueVars == <<msg, deliveries>>
procVars  == <<phase, batch, tasks, job, at, restartDue, restarts>>
histVars  == <<execs, answered, lostTo>>
vars == <<msg, deliveries, phase, batch, tasks, job, at, restartDue, restarts,
          execs, answered, lostTo>>

Causes == {"drain", "publish", "restart", "dispatch", "raised"}

TypeOK ==
    /\ msg \in [Commands -> {"unsent", "queued", "leased", "acked", "expired"}]
    /\ deliveries \in [Commands -> Nat]
    /\ phase \in {"down", "draining", "serving", "stopping"}
    /\ batch \in SUBSET Commands
    /\ tasks \in Seq(Commands)
    /\ job \in [Workers -> Commands \cup {None}]
    /\ at \in [Workers -> {"idle", "handle", "publish", "ack"}]
    /\ restartDue \in BOOLEAN
    /\ restarts \in Nat
    /\ execs \in [Commands -> Nat]
    /\ answered \in SUBSET Commands
    /\ lostTo \in [Commands -> SUBSET Causes]

Init ==
    /\ msg = [c \in Commands |-> "unsent"]
    /\ deliveries = [c \in Commands |-> 0]
    /\ phase = "draining"
    /\ batch = {}
    /\ tasks = <<>>
    /\ job = [w \in Workers |-> None]
    /\ at = [w \in Workers |-> "idle"]
    /\ restartDue = FALSE
    /\ restarts = 0
    /\ execs = [c \in Commands |-> 0]
    /\ answered = {}
    /\ lostTo = [c \in Commands |-> {}]

Mark(S, cause) ==
    [c \in Commands |-> IF c \in S THEN lostTo[c] \cup {cause} ELSE lostTo[c]]

-----------------------------------------------------------------------------
(* The subscription (external): at-least-once delivery, a lease with an    *)
(* acknowledgement deadline, and a bounded retention.                      *)

Send(c) ==
    /\ msg[c] = "unsent"
    /\ msg' = [msg EXCEPT ![c] = "queued"]
    /\ UNCHANGED <<deliveries, procVars, histVars>>

\* The deadline (600 s) passes. The message is offered again, unless it has
\* outlived the retention (600 s too). The main loop dispatches a batch at
\* once, so no lease runs out on a message that is still in it.
LeaseExpires(c) ==
    /\ msg[c] = "leased"
    /\ c \notin batch
    /\ \/ /\ deliveries[c] < MaxDeliveries
          /\ msg' = [msg EXCEPT ![c] = "queued"]
       \/ msg' = [msg EXCEPT ![c] = "expired"]
    /\ UNCHANGED <<deliveries, procVars, histVars>>

RetentionExpires(c) ==
    /\ msg[c] = "queued"
    /\ msg' = [msg EXCEPT ![c] = "expired"]
    /\ UNCHANGED <<deliveries, procVars, histVars>>

Deliver(S, state) ==
    /\ msg' = [c \in Commands |-> IF c \in S THEN state ELSE msg[c]]
    /\ deliveries' =
           [c \in Commands |-> deliveries[c] + (IF c \in S THEN 1 ELSE 0)]

Available == {c \in Commands : msg[c] = "queued"}

-----------------------------------------------------------------------------
(* daemon.main(): start-up, pull, dispatch, stop.                          *)

Boot ==
    /\ phase = "down"
    /\ phase' = "draining"
    /\ UNCHANGED <<queueVars, batch, tasks, job, at, restartDue, restarts, histVars>>

\* "drained %d stale command(s)": whatever one pull hands out is acknowledged
\* and forgotten; if the pull or the acknowledge raises, it is passed over.
Drain ==
    /\ phase = "draining"
    /\ phase' = "serving"
    /\ \E S \in SUBSET Available :
          \/ /\ Deliver(S, "acked")
             /\ lostTo' = Mark(S, "drain")
          \/ /\ Deliver(S, "leased")
             /\ UNCHANGED lostTo
    /\ UNCHANGED <<batch, tasks, job, at, restartDue, restarts, execs, answered>>

\* A pull that fails is no pull. After three in a row the subscriber is closed
\* and replaced: the acknowledgements still to come on the old one then fail,
\* which AckShort allows for.
Pull ==
    /\ phase = "serving"
    /\ batch = {}
    /\ \E S \in (SUBSET Available) \ {{}} :
          /\ Cardinality(S) <= MaxPull
          /\ Deliver(S, "leased")
          /\ batch' = S
    /\ UNCHANGED <<phase, tasks, job, at, restartDue, restarts, histVars>>

\* Mutant: submitted before the acknowledge, so that one that raises leaves
\* the message to be redelivered to a second run.
DispatchLong_SubmitFirst(c) ==
    /\ c \in batch
    /\ LongRunning(c)
    /\ batch' = batch \ {c}
    /\ tasks' = Append(tasks, c)
    /\ msg' \in {msg, [msg EXCEPT ![c] = "acked"]}
    /\ UNCHANGED <<deliveries, phase, job, at, restartDue, restarts, histVars>>

\* Mutant: a submit refused by the pool goes unnoticed after the acknowledge.
DispatchLong_SubmitSkipped(c) ==
    /\ c \in batch
    /\ LongRunning(c)
    /\ batch' = batch \ {c}
    /\ msg' = [msg EXCEPT ![c] = "acked"]
    /\ tasks' \in {tasks, Append(tasks, c)}
    /\ UNCHANGED <<deliveries, phase, job, at, restartDue, restarts, histVars>>

\* workflow.run: acknowledged first, submitted only if that did not raise.
DispatchLong(c) ==
    /\ c \in batch
    /\ LongRunning(c)
    /\ batch' = batch \ {c}
    /\ \/ /\ msg' = [msg EXCEPT ![c] = "acked"]
          /\ tasks' = Append(tasks, c)
          /\ UNCHANGED lostTo
       \/ /\ UNCHANGED <<msg, tasks, lostTo>>
       \/ /\ msg' = [msg EXCEPT ![c] = "acked"]    \* only the reply was lost
          /\ lostTo' = Mark({c}, "dispatch")
          /\ UNCHANGED tasks
    /\ UNCHANGED <<deliveries, phase, job, at, restartDue, restarts, execs, answered>>

\* Mutant: the short command is acknowledged as it is dispatched.
DispatchShort_AckFirst(c) ==
    /\ c \in batch
    /\ ~LongRunning(c)
    /\ batch' = batch \ {c}
    /\ msg' = [msg EXCEPT ![c] = "acked"]
    /\ tasks' = Append(tasks, c)
    /\ UNCHANGED <<deliveries, phase, job, at, restartDue, restarts, histVars>>

\* Every other command: submitted now, acknowledged by its worker.
DispatchShort(c) ==
    /\ c \in batch
    /\ ~LongRunning(c)
    /\ batch' = batch \ {c}
    /\ tasks' = Append(tasks, c)
    /\ UNCHANGED <<queueVars, phase, job, at, restartDue, restarts, histVars>>

Dispatch(c) == DispatchLong(c) \/ DispatchShort(c)

\* SIGTERM or SIGINT clears _running, or main() is on its way out with a FATAL
\* error (between two batches): the loop leaves after the batch in hand, and
\* executor.shutdown(wait=True) lets every queued task finish.
Signal ==
    /\ phase = "serving"
    /\ restarts < MaxRestarts
    /\ phase' = "stopping"
    /\ UNCHANGED <<queueVars, batch, tasks, job, at, restartDue, restarts, histVars>>

\* Mutant: shutdown(wait=False, cancel_futures=True).
Stopped_Cancels ==
    /\ phase = "stopping"
    /\ phase' = "down"
    /\ restarts' = restarts + 1
    /\ restartDue' = FALSE
    /\ batch' = {}
    /\ tasks' = <<>>
    /\ job' = [w \in Workers |-> None]
    /\ at' = [w \in Workers |-> "idle"]
    /\ UNCHANGED <<queueVars, histVars>>

Stopped ==
    /\ phase = "stopping"
    /\ batch = {}
    /\ tasks = <<>>
    /\ \A w \in Workers : at[w] = "idle"
    /\ phase' = "down"
    /\ restarts' = restarts + 1
    /\ restartDue' = FALSE
    /\ UNCHANGED <<queueVars, batch, tasks, job, at, histVars>>

InProcess == batch \cup {tasks[i] : i \in DOMAIN tasks}
                   \cup {job[w] : w \in {v \in Workers : at[v] # "idle"}}

\* The process image is gone, with the queue and the workers' stacks.
Die ==
    /\ phase' = "down"
    /\ restarts' = restarts + 1
    /\ batch' = {}
    /\ tasks' = <<>>
    /\ job' = [w \in Workers |-> None]
    /\ at' = [w \in Workers |-> "idle"]
    /\ restartDue' = FALSE
    /\ lostTo' = Mark(InProcess, "restart")
    /\ UNCHANGED <<queueVars, execs, answered>>

\* (external) Killed, or the host is gone: nothing of main()'s exit runs.
Crash ==
    /\ phase # "down"
    /\ restarts < MaxRestarts
    /\ Die

\* _restart_daemon: os._exit(0) or os.execv, whatever the workers are doing.
RestartTimer ==
    /\ phase # "down"
    /\ restarts < MaxRestarts
    /\ restartDue
    /\ Die

-----------------------------------------------------------------------------
(* A pool thread: _process_message, wrapped for a short command by         *)
(* _process_message_then_ack.                                              *)

\* The worker takes the head of the queue and writes its receipt to the audit
\* log, outside any try: it enters the handler, or the log raises first. Then
\* the finally clause still acknowledges a short command, and nothing but the
\* future that nobody reads knows about a workflow.run.
TakeHead(w) ==
    /\ at[w] = "idle"
    /\ tasks # <<>>
    /\ tasks' = Tail(tasks)

Enter(w) ==
    /\ job' = [job EXCEPT ![w] = Head(tasks)]
    /\ at' = [at EXCEPT ![w] = "handle"]
    /\ execs' = [execs EXCEPT ![Head(tasks)] = @ + 1]
    /\ UNCHANGED lostTo

ReceiptRaises(w) ==
    /\ lostTo' = Mark({Head(tasks)}, "raised")
    /\ IF LongRunning(Head(tasks))
       THEN UNCHANGED <<job, at>>
       ELSE /\ job' = [job EXCEPT ![w] = Head(tasks)]
            /\ at' = [at EXCEPT ![w] = "ack"]
    /\ UNCHANGED execs

\* Mutant: the threads leave their loop as soon as _running is cleared.
Take_NotWhenStopping(w) ==
    /\ phase # "stopping"
    /\ TakeHead(w)
    /\ Enter(w) \/ ReceiptRaises(w)
    /\ UNCHANGED <<queueVars, phase, batch, restartDue, restarts, answered>>

Take(w) ==
    /\ TakeHead(w)
    /\ Enter(w) \/ ReceiptRaises(w)
    /\ UNCHANGED <<queueVars, phase, batch, restartDue, restarts, answered>>

\* handle_relay_update starts the timer, unless it finds no repository or git
\* hangs.
StartTimer(w) == Kind[job[w]] = "relay.update" /\ restartDue' = TRUE

\* A handler returns or raises; either way there is a result.
Handle(w) ==
    /\ at[w] = "handle"
    /\ at' = [at EXCEPT ![w] = "publish"]
    /\ \/ UNCHANGED restartDue
       \/ StartTimer(w)
    /\ UNCHANGED <<queueVars, phase, batch, tasks, job, restarts, histVars>>

\* The worker's next place once the publish loop is over.
AfterPublish(w) ==
    IF LongRunning(job[w])
    THEN /\ at' = [at EXCEPT ![w] = "idle"]
         /\ job' = [job EXCEPT ![w] = None]
    ELSE /\ at' = [at EXCEPT ![w] = "ack"]
         /\ UNCHANGED job

\* Mutant: the response carries the default correlation id ("unknown").
Publish_UnknownId(w) ==
    /\ at[w] = "publish"
    /\ answered' = answered \cup {None}
    /\ AfterPublish(w)
    /\ UNCHANGED <<queueVars, phase, batch, tasks, restartDue, restarts, execs, lostTo>>

\* The audit log or json.dumps of the result raises before any attempt, or one
\* of the three attempts reaches the topic, or none does: "result lost".
Publish(w) ==
    /\ at[w] = "publish"
    /\ \/ /\ answered' = answered \cup {job[w]}
          /\ UNCHANGED lostTo
       \/ /\ lostTo' \in {Mark({job[w]}, "publish"), Mark({job[w]}, "raised")}
          /\ UNCHANGED answered
    /\ AfterPublish(w)
    /\ UNCHANGED <<queueVars, phase, batch, tasks, restartDue, restarts, execs>>

\* The finally clause: it runs whatever became of the result, and a failing
\* (or too late) acknowledge only leaves the message to be redelivered.
AckShort(w) ==
    /\ at[w] = "ack"
    /\ \/ /\ msg[job[w]] \in {"leased", "queued"}
          /\ msg' = [msg EXCEPT ![job[w]] = "acked"]
       \/ UNCHANGED msg
    /\ at' = [at EXCEPT ![w] = "idle"]
    /\ job' = [job EXCEPT ![w] = None]
    /\ UNCHANGED <<deliveries, phase, batch, tasks, restartDue, restarts, histVars>>

-----------------------------------------------------------------------------
Pool(w) == Take(w) \/ Handle(w) \/ Publish(w) \/ AckShort(w)

MainLoop == Boot \/ Drain \/ Pull \/ (\E c \in Commands : Dispatch(c)) \/ Stopped

Next ==
    \/ \E c \in Commands : Send(c) \/ LeaseExpires(c) \/ RetentionExpires(c)
    \/ MainLoop
    \/ Signal \/ Crash \/ RestartTimer
    \/ \E w \in Workers : Pool(w)

Spec == Init /\ [][Next]_vars

\* Threads are scheduled, pull, publish and acknowledge carry a deadline, and
\* Pub/Sub's own timers run out. Nothing says that a handler ends or that a
\* process that is down comes back.
Fairness ==
    /\ WF_vars(Drain) /\ WF_vars(Pull)
    /\ WF_vars(\E c \in Commands : Dispatch(c)) /\ WF_vars(Stopped)
    /\ \A w \in Workers : WF_vars(Take(w) \/ Publish(w) \/ AckShort(w))
    /\ \A c \in Commands : WF_vars(LeaseExpires(c)) /\ WF_vars(RetentionExpires(c))

FairSpec == Spec /\ Fairness

\* What the commands that handlers run over SSH have to do for liveness.
HandlersEnd == \A w \in Workers : []<>(at[w] # "handle")

-----------------------------------------------------------------------------
(* Properties.                                                             *)

\* A workflow is deployed at most once per command, whatever is redelivered
\* and however often the relay restarts: acknowledging before submitting
\* (daemon.py, LONG_RUNNING_COMMANDS) makes workflow.run at-most-once.
RunAtMostOnce == \A c \in Commands : LongRunning(c) => execs[c] <= 1

\* An acknowledged command is never silently forgotten: it is still in the
\* process, or answered, or one of the five known ways to lose it happened
\* (drained at start-up, three publishes failed, the process died with it,
\* the acknowledge took effect but raised, or the audit log or json.dumps
\* raised outside the handler's try).
AckedIsAccounted ==
    \A c \in Commands :
        msg[c] = "acked" => c \in InProcess \/ c \in answered \/ lostTo[c] # {}

\* A short command is taken off the subscription only by the drain or by its
\* worker, once it has published, given up or raised: until then a crash leaves
\* it to be delivered again.
ShortAckedLast ==
    \A c \in Commands :
        msg[c] = "acked" /\ ~LongRunning(c)
        => c \in answered \/ lostTo[c] \cap {"publish", "drain", "raised"} # {}

\* If handlers end, nothing hangs: every command that reaches the subscription
\* is answered, or lost to a known cause, or ages out of it.
EveryCommandSettles ==
    HandlersEnd =>
        \A c \in Commands :
            msg[c] = "queued" ~> (c \in answered \/ lostTo[c] # {} \/ msg[c] = "expired")

\* If handlers end, so does a graceful stop: executor.shutdown(wait=True) waits
\* for every queued and running task, and each of them comes to its end.
StopCompletes == HandlersEnd => (phase = "stopping" ~> phase = "down")

\* The daemon, seen from the commands' senders, is the CommandService.
Service == INSTANCE CommandService WITH
    Once    <- {c \in Commands : LongRunning(c)},
    sent    <- {c \in Commands : msg[c] # "unsent"},
    done    <- execs,
    replied <- answered

ImplementsService == Service!Spec

\* RUNBOOK.md on deferred acknowledgement: "If the relay crashes mid-command,
\* the message is redelivered automatically." Were that so, a short command
\* the relay died with would not be acknowledged without being answered.
InterruptedIsRedelivered ==
    \A c \in Commands :
        /\ ~LongRunning(c)
        /\ execs[c] > 0
        /\ "restart" \in lostTo[c]
        /\ msg[c] = "acked"
        => c \in answered \/ lostTo[c] \cap {"publish", "raised"} # {}
=============================================================================
