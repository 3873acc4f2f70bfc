# Verification of the DCI workflow agent

TLA+ models, TLC runs and TLAPS proofs for the program under `src/`: an agent
(Claude Code with an MCP server) on an operator's machine that sends commands
over Google Pub/Sub to a relay daemon, which runs multi-hour installation
workflows on target hosts through a jumpbox, and a fix loop that repairs what
failed.

```
 operator's machine                         relay host              jumpbox        targets
 agent -- mcp_server -- pubsub_client ==> dci-commands ==> daemon -- ssh --> dci-rhel-agent-ctl
            |                 ^                              |  handlers
   agents/local stores        +======= dci-results <=========+
   (fix loop, events, fleet, journal)
```

## 1. Inventory

Each component with the state it keeps, its operations, what is hard about it
and what makes it correct.  `M` modelled, `P` partly, `-` not.

| Component | State | Operations | Hard behaviour | Correct means |
|---|---|---|---|---|
| P relay daemon, `relay/daemon.py` | `_running`, pulled batch, executor queue, 8 threads, heartbeat threads, watchdog | start-up drain, pull, dispatch, `_process_message`, publish with 3 attempts, acknowledge, stop, watchdog pass | at-least-once delivery, two acknowledgement orders, crash between any two steps, a restart timer that does not wait, full pool, flags shared with the heartbeat thread without a lock | a workflow runs at most once; nothing acknowledged is forgotten but for five known causes; a stop ends; a failing task is announced |
| P workflow handlers, `relay/handlers.py` | `_active_workflows`, `_completed_workflows`, `_workflow_run_count`, each under its lock | `workflow.run/stop/stop_all/list`, diagnostics, `relay.update` | check and registration in two locked sections, pop by target, `/tmp` staging files shared by base name, kills by a pattern, agents that outlive the relay | limit respected, every live agent can be found and stopped, own settings, truthful result |
| M SSH manager, `relay/ssh_manager.py` | shared control client, one client per target, two locks, keepalive thread | exec, streaming exec, sftp, target exec with password fallback, close | one client shared by all threads and replaced under them, timeouts, lost connections | a broken connection is never a success; who asks for a connection gets one that was just tested; no thread keeps a lock |
| - command safety, `relay/safety.py` | none | allow-lists, path checks, no-delete check | text scanning | - |
| P Pub/Sub bridge, `agents/bridge/pubsub_client.py` | `_pending_results`, `_pending_acks`, `_latest_heartbeats`, the session's subscription, background poller | `send_command`, `send_command_start`, `check_for_result`, drain, reset, orphan clean-up, recreate on NOT_FOUND | three pollers on one subscription; timeouts racing late answers; drains that acknowledge unread answers of others; one session deleting another's subscription; exceptions that end the poller's thread | an answer that reached the topic reaches the caller it is for, or is lost to a known cause |
| M usage tracker, `agents/bridge/usage_tracker.py` | byte counters in a file | count, hard block at 95 % | unlocked load, emptying and writing by all threads; check before, record after a publish; month's end | the block comes in time |
| P MCP server, `agents/mcp_server.py` | `_inflight_workflows` and its file, `_corr_to_target`, `_stuck_alerted`, `_phase_start_times` | run, status, fleet status, stop, events, completion and heartbeat callbacks | guard, await, then write; two consumers of one completion; death and restart, with a file whose write may have failed or be torn | no target dispatched twice and no workflow forgotten but for known causes; no workflow in flight for ever |
| P fix loop, `agents/local/fix_loop.py` | `fix_loop_state.json` | start, end, mark subagent, submit triage / plan / fix / result | arbitrary call sequences by a language model; everything of an attempt to be reset | the gates hold, at most `max_attempts` verdicts, exact reverts |
| M event and fleet stores, `agents/local/{workflow_events,fleet_state,filelock}.py` | two JSON files | push/pop events, goals, completions, re-dispatch decision | several threads and processes, no lock around read-modify-write | each event delivered once, each completion counted before it is told |
| P phase timings and expectations, `agents/local/phase_expectations.py` | `phase_timings.json` | running averages, learned and static expectations | rounding, few runs, phases a run skips | a learned expectation has enough runs and lies within what was seen |
| P workflow poller, `tools/workflow_poller.py` | tracker of phases and its file | poll `workflow.list`, track, finalize, give up | a completion that belongs to an earlier run; death between two writes | a run is finalized by its own completion |
| - knowledge bases, run journal | JSON and append-only files | record, search | merges | - |
| - configuration, git/file tools, agent driver and hooks, operator scripts, container and cloud set-up | little or none | | | environment of the above |

Interactions: operator and relay share only the two topics; the daemon calls
handlers in pool threads; handlers and watchdog share the two dictionaries; the
agents on the jumpbox are processes of their own that outlive handler and relay;
bridge and MCP server share the pending-result tables through a callback; the
stores are files shared by all local processes. The list of hazards, each at
its line, is in `PROJECT.json`.

## 2. Modules

| Module | Models | State and actions |
|---|---|---|
| `CommandService` | what the relay promises about a command | `sent`, `done`, `replied`; Request, CarryOut, Reply |
| `RelayDaemon` | `daemon.py` between subscription and topic | below |
| `RelayDaemonProofs` | - | theorems about `RelayDaemon` |
| `WorkflowHandlers` | one `workflow.run` from the run limit to its record, stop, watchdog, jumpbox | below |
| `FixLoopGate` | what the fix loop promises | `step`, `spent`; Open, Advance, Judge, Close |
| `FixLoop` | `fix_loop.py` | the fields of its JSON file that a gate reads, one action per function |
| `FixLoopProofs` | - | theorems about `FixLoop` |
| `Mailbox` | what the bridge promises about an answer | `posted`, `kept`, `told`, `lost`; an answer is on its way, in a table, told or lost |
| `Bridge` | `pubsub_client.py` of one session, with the relay reduced to `CommandService` | below |
| `McServer` | the workflow tools of `mcp_server.py` over the bridge as `Mailbox` sees it | below |
| `Heartbeat` | `HeartbeatPublisher` of `daemon.py` | below |
| `SshPool` | the shared connections of `ssh_manager.py` | below |
| `LocalStores` | the event file and the fleet file with the two callbacks that write them | below |
| `PhaseTimings` | the workflow poller, what it reads from `workflow.list`, and the timings it learns | below |
| `UsageTracker` | the count of the month's traffic and the block it feeds | below |
| `WorkflowHandlersProofs`, `BridgeProofs`, `McServerProofs`, `SshPoolProofs`, `UsageTrackerProofs` | - | theorems about the module each is named after |
| `PartsProofs` | - | theorems about `LocalStores`, `PhaseTimings`, `Heartbeat`, and the composition in `MCParts`, for which it uses those of `FixLoopProofs` |
| `MCRelayDaemon`, `MCWorkflowHandlers`, `MCMcServer` | - | values of the function-valued constants for TLC |
| `MCParts` | - | `Heartbeat`, `SshPool`, `LocalStores`, `PhaseTimings`, `UsageTracker` and `FixLoop`, each on an instance of its own |

**RelayDaemon.** `msg[c]` is Pub/Sub's view of a command (unsent, queued, leased,
acked, expired), `phase` the place of `main()`, `batch` the messages pulled but not
dispatched, `tasks` the executor's FIFO queue, `job`/`at` each thread's command and
its place in `_process_message`. `Drain` is the start-up pull that acknowledges
everything it gets; `DispatchLong` acknowledges and then submits, `DispatchShort`
submits and leaves the acknowledgement to `AckShort`, which runs in a `finally`.
Each acknowledge may fail, or take effect and raise. `Publish` stands for the three attempts.
The audit log (`daemon.py:246-252`, `311-317`) and `json.dumps` of the result (319) are outside every `try`:
where one raises, before the handler (`ReceiptRaises`) or after it (`Publish`), a short command is acknowledged by the
`finally` without an answer, and of a workflow only a future that nobody reads knows. That is the fifth cause, after
the start-up drain, three failed publishes, a death, and an acknowledgement that took effect and raised.
`Die` takes the queue and the threads' stacks with it; `Signal`/`Stopped` are the
graceful stop. `lostTo` is a history variable with the causes for which a
command came to nothing. A handler is one step (`Handle`); what happens inside it
is `WorkflowHandlers`.

**WorkflowHandlers.** Every section under `_active_workflows_lock` or the count's lock
is one step, every SSH call is one step; `pc[r]` is the place of run r's handler.
`Check` and `Register` are separate because the lock is released between them;
`Unregister` pops whoever is registered for the target. `staged` says whose settings lie at
`/tmp/<basename>`, one file for all settings files of that base name (`Basename`), and `deployed` whose are at the full path
of the deploy target. `pkill -f <basename>` looks for a pattern anywhere in a command line: `Matched[n]` are the runs whose agents
it finds, any set, and not just those whose file it is. `agent[r]` is
the process on the jumpbox: it can end, hang, be killed by `pkill -f`, or outlive its
SSH stream (`StreamLost`, `StreamTimeout`) and the relay (`Restart`). `stop` and `watch` hold
what the stop handler and the watchdog read before they let go of the lock. A run is
handled at most once: this is `RunAtMostOnce` of `RelayDaemon`.

**FixLoop.** The caller may call any function at any time; a rejected call
changes none of these fields. What distinguishes a triage to the gates is its kind,
whether the phase has an expert and whether the finding names it. `accepted`,
`toRevert`, `delegated` are history variables; `committed` is git. One call runs at a time (one
agent session); two sessions on one file are a listed hazard.

**Bridge.** `mail` holds the unacknowledged messages of the session's subscription
(`sub`: none, live, deleted), `pendingResults` and `pendingAcks` the two tables. A pull takes
any subset of the mail; each of the four pullers (`PollForResult` of a command waited for,
`WaitForAck` of a start, `SinglePoll` of `check_for_result`, `PollerPull` of the background
poller) keeps, hands on or drops every message as its code does. Acknowledging may fail, which
leaves the message in the mail. `DeadlineMet` is the end of a deadline with the drain and the second
try, `OtherSessionCleansUp` what the orphan clean-up of another session does to this
one. `lost` records the answers that went with a drain, a reset or a deleted
subscription, or with an acknowledgement that raised after it took effect. Counting a message (`usage_tracker.record_received`, which writes a file)
and making a subscription may raise: a caller is then given the exception (`PullRaises`, `PullNotFound`, `Publish`), while
the background poller, whose loop catches neither, ends for good (`PollerDies`; `poller` says whether its thread runs). The relay's side is `CommandService` through `INSTANCE`.

**McServer.** Tool calls are coroutines, so a step is what runs between two awaits: `RunDispatch`
(guard, then the await of the publish), `RunRegister`, `RunMap`; `StatusBegin`, `StatusTakes` (the
await of the server profile follows), `StatusCompletes`. `inflight` is the table, `disk` what its
file would be loaded as, `known` the map the callback reads, which `Boot` rebuilds. `_persist_inflight` swallows its errors and does not write
atomically: after a `Persist` the file has the new table, still the old one, or is torn, which `_load_inflight` takes
for no table, and a death may tear it too. `Boot` goes on with whatever the file has. `untracked` is the history of the
runs the table is allowed to lack.

**Heartbeat.** One action per access to `_stopped`, `_wake` and `_failure_detected`, from the handler's
thread and from the publisher's. `hbReport` follows the latest failure seen: owed, carried by the heartbeat
being built, sent or lost with its publish.

**SshPool.** `control` and `target` are the two attributes, `controlLock` and `targetsLock` their locks,
`state`/`via` the clients paramiko has open and what they are tunnelled through, `pc`/`held` the
threads and the client each has in a local variable. A lock is held over the test and the connection, as in
the code, so these are steps of their own. Garbage collection of clients is external, and forced
to come at once, as CPython's reference counts do: a failing `exec_on_jumpbox` only drops the shared
client, but if nobody else holds it this closes it, with the tunnels to targets that run through it.

**LocalStores.** Load and save of a file are two steps; `evCopy` and `fleetCopy` are what a thread has
loaded. The callbacks follow each other in the poller's thread: record the completion, push the
event; either may raise, and the server may die in between (`ServerDies` forgets the alerts). Sessions pop the
events and change the goals. What a pop took out of the file is told a step later (`PopReturns`): a session that dies in
between takes its events with it (`unheard`). `raced` are the events of which an outdated copy was written.

**PhaseTimings.** The relay's list is `shows` (phase of the active workflow) and `listed` (a completion), with
`closing` for the moment in which a run is in neither. `Polls` is `poll_once` up to the save of the
tracker, `PollSaves`/`PollIsLast` the save; `PollerDies` may come in between. `TimePasses` ages the
phase in memory and on disk, since both hold its start time.

**UsageTracker.** `CheckBeforePublish` reads the file, `PublishGoesOut` follows, and the record is three steps:
`UsageLoads`, `UsageEmpties` (`write_text` truncates first) and `UsageWrites`. `Torn` is a file that is no JSON, which a load takes
for zero. `fresh` and `overlapped` are the history of whether two threads met in the file, `missed` counts the messages whose thread
never recorded them.

## 3. Runs

| Run | Instance | Shows |
|---|---|---|
| `relay_daemon` | a `workflow.run` and a `relay.update`, 2 threads, 2 deliveries each, 2 deaths or stops | `RunAtMostOnce`, `AckedIsAccounted`, `ShortAckedLast`, refinement of `CommandService`, and under fairness `StopCompletes`, `EveryCommandSettles` |
| `workflow_handlers` | 3 runs, two of them for one target, two with settings of one base name in different directories and for different targets, the third's name being part of the others' command lines and its payload without settings, limit 2, one stop command, watchdog | `AliveIsListed`, `AgentUsesOwnSettings`, `StopSparesOthers` |
| `workflow_restart` | 2 runs racing for one target, 1 restart | `SuccessMeansExited`, `AnsweredIsRecorded`, and under fairness `EveryRunAnswered` |
| `bridge` | a command waited for and a workflow started, one reset, one deletion of the subscription, a poller that may die at any time | `AnswerAccounted`, `StartedMeansTaken`, refinement of `Mailbox`, and under fairness `EveryCallReturns`, `NoAnswerRots` |
| `mcp_server` | 2 runs for one target, one status call at a time, 2 troubles (deaths, failed or torn writes, stops, resets, timeouts, answers delivered twice) | `RunningIsTracked`, `InFlightIsKnown`, `CompletionAccounted`, and under fairness `InFlightEnds` |
| `parts` | six instances side by side, see below | `FailureGoesOut`; `HandedOutIsUsable`, `CommandsReturn`; `EventsOnceUnlessRaced`, `ToldIsCounted`; `LearnedNeedsRuns`, `AveragesAreHonest`; `BlockHolds`; `AttemptsAreCounted`, `ExpertInThisAttempt`, `RevertsWhatWasDropped`, refinement of `FixLoopGate` |

Six more runs each show one statement of the repository that the code does not keep:

| Run | Statement | What the code does |
|---|---|---|
| `relay_redelivery` | RUNBOOK.md:295 "If the relay crashes mid-command, the message is redelivered automatically" | the restarted relay's drain acknowledges the redelivered message unread |
| `workflow_twice` | handlers.py:152 "Reject if a workflow is already running for this target" | two runs both pass the check before either registers |
| `workflow_stop` | handlers.py:594 "Stop a specific running workflow by killing its process" | a stop during the pre-flight kills nothing, answers success, and the agent starts |
| `workflow_watch` | daemon.py:64 "Background thread that auto-kills stuck workflows" | its `pkill -f` by base name, from a snapshot, also ends agents of runs that are not overdue: of one that took the stuck run's place, or of any whose command line contains the name |
| `mcp_fleet` | mcp_server.py:1001-1002 "One call replaces N individual dci_workflow_status() calls" | `dci_fleet_status` takes the completion out of the bridge and leaves the workflow in flight, where no status call can complete it any more |
| `fix_loop_judged` | PROJECT_INTRODUCTION.md:121-122: a change is "reverted if it does not improve the outcome" | a second `submit_fix` replaces the first, whose commit is never judged |

**Bounds and why they suffice.** `relay_daemon` has one command of each acknowledgement
rule, and the second is the one that kills the process; two threads let a
short command and a workflow overlap, two deliveries give one redelivery, two
restarts a death after a death. What more commands, threads and deliveries would add is covered by the
proofs, which fix none of them. `MaxPull` is 2: both commands in one batch.
`workflow_handlers` needs two runs on one target for the check-then-register race and
a third on another target to see what a stop or a settings file does to
others: it shares a base name with one and is matched by the pattern of the other, as "hana.yml" matches
"prod-hana.yml", but not the other way round; the limit of 2 is reached by the three. A restart is left out there and has
its own run, which keeps both within minutes.
`bridge` has one caller of each kind, which between them run all four pullers; each puller meets
messages that are for the other. One reset and one deletion reach every state in which an answer is
lost to somebody else's call. `mcp_server` needs two runs for one target to race dispatch, registration and
stop; two troubles let a restart follow a stop, a duplicate or a failed write (a write that fails is a trouble of its own only in tools that are not bounded otherwise); what a second target would add is one more row of
the table, which no tool but `stop_all` and the fleet status touches for another.
In `parts` a behaviour belongs to one of the six; they share no state, and one run keeps them together.
Heartbeat: 2 failures, so that the second can fall on any step of the first. SshPool: a caller of
`exec_on_jumpbox`, a caller of the target and of SFTP, keepalive and close, 4 clients (control and target, old and
new), one fallback password, one failure; that all three operations by both callers give no other
outcome for `HandedOutIsUsable` was checked once on 1.8 million states. LocalStores: one run delivered
twice, one phase, one session, one death or error, a history of one completion so that it overflows. PhaseTimings:
2 phases, 2 runs, 2 finalizations, 1 death, two runs as `MinPoints` (the code has 3), durations of 0 and 1,
whose averages round; durations up to 2 pass too. UsageTracker:
2 publishers and the poller, blocked at 2 of 3 messages (the file's limits in units of a message), a month's end, one death or failed publish; 5 messages
with the block at 3 were checked once on 900 000 states. FixLoop: 3 attempts, as
the rules change at the second and at the third (`attempt >= 2`,
`attempt > 2`), and the third is also the last; 2 commits, the least with which an attempt's fix differs from another's, and 3 in `fix_loop_judged`.
The repository's limits (8 threads, pulls of 5, 50 runs, 5 attempts) are constants.
Every run turns the deadlock check off: the commands, runs and retries of an instance run out,
and a program with nothing to do is not stuck; that it does not hang before is what the
liveness properties say.

**Fairness.** `RelayDaemon!FairSpec`: weak fairness of the main loop's steps, of every
pool thread outside a handler, and of Pub/Sub's timers. The code justifies it: threads
are scheduled by the OS, and pull, publish and acknowledge have deadlines. It does not
bound a handler (`exec_on_jumpbox` waits for the exit status without a timeout), so
that handlers end is a hypothesis of the two liveness properties (`HandlersEnd`), not
part of the specification. No fairness is put on `Boot`: nothing in the code
makes a dead relay come back, which is why a queued command may expire.
`WorkflowHandlers!FairSpec`: weak fairness of a handler from the start of its agent on
(`Finish`) and of the passing of time (`Overdue`): the streaming call polls against a
wall-clock deadline. None is put on the pre-flight, the agents, the watchdog or the stop
commands, so `EveryRunAnswered` holds of an agent that hangs for ever.

`Bridge`: weak fairness of the steps of a caller up to its deadline, which the code computes at the start
(`DeadlineMet`), and strong fairness of the background poller's pull of each answer, which asks for nothing once the poller is dead: while it lives
it pulls again every few seconds while others pull too. That it lives is an assumption of `NoAnswerRots`, in its statement, for the code does
not guarantee it. `McServer!FairSpec`: the agent polls the status of a run in flight, as the
docstring of `dci_workflow_status` tells it to (strong fairness of `StatusBegin`), a status call
goes on (its awaits have timeouts), an answer that stays available is got by some poll, and a dead server is started
again by the agent's client. `Heartbeat`: weak fairness of the publisher's thread (every wait and every publish has
a timeout), none of the handler. `SshPool`: a caller that is again and again able to go on goes on: locks are handed out, tests and
connections have timeouts, the collector runs. Whether a remote command ends is free (`endless`), and only then may its
caller not return.

**What the properties assume.** `AliveIsListed` excepts runs that overlapped on one target past its check
(`crowded`), whose race is the finding of `workflow_twice`. `AgentUsesOwnSettings` excepts runs that were in pre-flight together with one of their base
name (`mixed`), whatever its target and directory: such runs do deploy each other's settings. `StopSparesOthers` assumes nothing of file names; it says that
a stop ends an agent on another target only if its pattern matches that agent, by the name of a file used on the stopped target, and that no change of the registry between lookup and
kill adds to this. Of the watchdog's kill nothing of the kind holds, for it acts on a snapshot: this is the finding of `workflow_watch`.
`AnsweredIsRecorded` is about the run's own outcome and excepts those whose record was replaced, evicted or lost with the relay (`forgotten`).
`RunningIsTracked` excepts the runs in `untracked`: dispatched while another call for the target
was under way, never acknowledged, stopped, given up, replaced by a status call that had begun before, or missing from the file a restarted server loads.
`InFlightEnds` excepts answers that were lost or that the fleet status took. `NoAnswerRots` claims nothing of the time after the poller's
death. `EventsOnceUnlessRaced` excepts the events of which an outdated copy was written (`raced`), one by one, and those that died with the session that took them; the docstring of `dci_check_events` ("each
event is returned exactly once", mcp_server.py:1191-1193) does not make this exception. `ToldIsCounted` excepts runs whose
record raised, that had no goal, or whose count another writer undid (`uncounted`).
`LearnedNeedsRuns` excepts targets whose earlier completion was still listed at a poll during the next run (`relisted`): every
such poll finalizes the run in progress and counts as a run, so that phase_expectations.py:199-200 ("when fewer than
min_data_points historical runs exist") then does not hold. `AveragesAreHonest` excepts phases that the first
run did not show (`late`), whose average starts from 0.
`BlockHolds` claims nothing once a thread has found the file torn or replaced what another had counted (`overlapped`): then the count
restarts from zero or lags, and the block may never come. It also allows one command over the block for every other publisher, and those `missed`.
Three things the models made visible and no property is about: the docstring of `_process_message_then_ack` (daemon.py:210) says "ACK only after the
result is published", but the `finally` acknowledges also when nothing was published; `_finalize_workflow` looks up the topic after it popped the tracker, so the
topic in the key is always empty; and since the loaded list is the average repeated, the "90th percentile" a learned
expectation uses is the average.

## 4. Proofs

The theorems hold for every value of the constants that meets the named
assumptions of the models, which TLC evaluates on every run. These say that model values which stand for
"none" differ from what they stand in for, that bounds are numbers, that functions from payload to target and
settings file are defined, that publishers and runs are finitely many, and that threads with different roles are different.
No theorem assumes more than these.

`RelayDaemonProofs`. The inductive invariant is `IInv == TypeOK /\ WorkerInv /\ SentInv /\
RunInv`. `RunAtMostOnce` alone is not inductive: a state in which a workflow waits in the
queue twice, or in the queue and still unacknowledged, would satisfy it and break it
in a step. `RunInv` rules these out: a workflow is in the batch only while leased, in the queue
only when acknowledged, at one place, and not yet executed. `WorkerInv` says what a busy
thread holds and that one about to acknowledge has answered or given up; `SentInv`
that nothing in the process is unsent. One lemma per group of actions, then
`TypeCorrect` and `AtMostOnce`. On top of it `AckInv` (the two acknowledgement properties)
is inductive relative to `IInv`: `QuietStep` deals with the steps that acknowledge and
lose nothing, the others mark what they lose. This gives `Accounted` and `ShortLast`.
`Refinement` proves `Spec => ImplementsService`: `Send` is a Request, `Take` a CarryOut
(the first one, by `RunInv`), `Publish` a Reply, all the rest stutters.

`OncePerDelivery` covers the short commands too, which a redelivery may repeat: a command is carried out at most once
per delivery. Its invariant (`DeliveredInv`) charges to a delivery each execution, each place in the
queue and the one in the batch; `AppendPlaces` and `TailPlaces` count what the queue's operations do to the places.

`FixLoopProofs`. `FixInv` joins `FixTypeOK`, the order of the gates (`GateInv`), "the subagent
flag speaks of this attempt" (`DelegationInv`) and the three safety properties. `JudgedFacts`
says what appending a verdict does to the history and to the set read off it. Theorems:
`FixTypeCorrect`, `AttemptsCounted`, `ExpertAsked`, `RevertsExact`, `OnlyOwnReverted` (nothing is to be reverted but what this loop accepted and git has),
and `Refinement` of `FixLoopGate` through the step function `Step`.

`WorkflowHandlersProofs`. `IInv` adds to the types: an agent runs only while its handler streams or has given it up
(`AgentInv`); two handlers in their sections on one target have both been marked as met (`CrowdInv`), and two in pre-flight with one base name
likewise (`MixedInv`); who met nobody on its target finds its own entry (`SectionInv`), and who met no namesake finds its own settings staged and deployed (`OwnInv`). `AliveIsListed` alone is not inductive, for
nothing in it keeps another handler from popping the entry: that needs `CrowdInv`. From these follow `AgentsAreListed`, `OwnSettings`,
`SuccessIsTrue` and `AnsweredOnRecord`. `StopSpares` has its own invariant: registry entries are under their own target
(`RegistryInv`), and whatever a pending stop will kill belongs to a target it was given for or is matched by the name of a file used on one (`StopInv`), although
it read the registry before it let go of the lock. It holds of any function `Matched`, so of any way in which the patterns match. `OneAgentUnlessRaced`, which no run lists, says
how far the finding of `workflow_twice` goes: a target has two agents only after that race or if the stream of one ended before it.
`RunsAreLimited` counts the agents ever started against `max_total_runs`: `LimitInv` charges every run past the limit's check
(`Admitted`) to a number that the counter gave out in its locked section, and a restart to a fresh counter.

`BridgeProofs`. What is on its way to a caller comes from a relay that has the command (`MailInv`). All steps but the
relay's have one form, `Moves`: they take messages from the mail to the tables, to a caller or to `lost`, and
report nothing as started for which there is no acknowledgement or answer. `Moves` preserves the invariant once and for all; each puller is shown to be a
`Moves`, and so are the exceptions in the middle of one (`RaiseMoves`). Since `Moves` includes the `Move` of `Mailbox`, `RefinesMailbox` follows from the same lemmas.
So does `NothingInvented`: what callers hold was published by the relay, after it carried the command out, and who is told "answer" was
handed the one to its own command. `AnswerTold` shows this last part for each step that tells a caller anything.

`McServerProofs`. `RunningIsTracked` is strengthened from running to asked-for runs (`PendingTracked`), and needs that
dispatches that cross each other (`CrossInv`) or an entry made since their guard (`SentInv`) have been marked untracked.
Of the file, which may be outdated or torn at any time, no more is known than that its entries are for their own targets (`FileInv`); that a server
which is down is not dispatching (`DownInv`) lets a restart take the file's table over, and mark what it lacks.
`NoDoubleDispatch` reads off `TrackInv` that the guard of `dci_workflow_run` does what it is for, although it comes before an await and the
entry after it: among runs that are not in `untracked` a target has one. `RefinesMailbox` shows that the server is to its agent the `Mailbox` that
`Bridge` is to the server, an answer being kept also while the status call that took it is under way (`Capturing`); `ServerMoves` has a step per action.

`SshPoolProofs`. A lock is held exactly by the thread in the section it guards (`LockInv`, which `LocksReleased` states: no
failing test, refused connection or exception leaves a lock behind, the safety half of `CommandsReturn`); clients in the two attributes and
those about to be stored are different ones (`ApartInv`), so that closing a replaced client closes no other, and
what is referred to has been opened (`UsedInv`). `HandedOut` then looks at the step that hands the client out.

`UsageTrackerProofs`. `BlockHolds` counts every thread between load and write, also one that loaded before the month
changed and will write a count of the old month. So the invariant counts only threads whose copy is of this month
(`Counting`), separately for the messages published (`CountInv`), and with one thread at most between emptying and writing
(`WriterInv`); `BlockInv` adds the publishers that passed the check and have not published. All of this is claimed until two threads meet
(`overlapped`), while the type of the numbers holds throughout: what a file or copy counts leaves room for the threads still
to write (`Room`).

`PartsProofs`. For the stores, `StepInv` ties what a thread has loaded to where it is, `EventsInv` balances events taken, waiting and
pushed for every event no outdated copy was written of, `HandInv` follows what was taken to the session's return or death, `StuckInv` gives each alert one event per life of the server, `ToldInv` says that a run's event
follows its record, and `CountedInv` that the goal counts the recorded successes. `EventsOnce` and
`ToldWasCounted` follow; the second compares cardinalities. For the timings, `CountInv` bounds the count of runs by the
runs ended and the deaths of the poller, with one to spare while a tracker outlives its workflow. `AveragesAreHonest` is itself inductive,
given that integer division rounds a mean of numbers between two bounds to a number between them (`Times` and the
lemmas after it), which is where its difficulty lies: the code rounds the average again after every run.
For the heartbeat, `NoLostFailure` is the safety half of `FailureGoesOut`: a failure owed to the operator is still in the flag, and a publisher
that sleeps or is about to is being woken. It is inductive once it is known that only a heartbeat which says so clears the flag (`HbInv`).
`PartsStep` and `PartsBehave` show that the composition which the run `parts` checks behaves like each of its parts, so `PartsAreSafe`, `PartsHandOut` and `PartsGate`
carry every safety property of that run over to it.

The theorems `LocksReleased`, `NoLostFailure`, `OneAgentUnlessRaced`, `RunsAreLimited`, `NoDoubleDispatch`, `OncePerDelivery`, `OnlyOwnReverted`, `NothingInvented` and
`RefinesMailbox` of `McServerProofs` state properties that no run lists.

Only model-checked, and why: `StopCompletes`, `EveryCommandSettles`, `EveryRunAnswered`, `EveryCallReturns`, `NoAnswerRots`, `InFlightEnds`,
`FailureGoesOut` and `CommandsReturn`, as liveness under fairness and ENABLED are out of the prover's reach; and the statements of the six runs
that show a violation, which are false. Every other property of the runs is proved. Nothing here needed
induction over data, which is out of reach too.

## 5. Not modelled, and the plan

Not modelled for good: text classification in `safety.py`, parsing of recaps and
failure lines, embeddings and search in the knowledge bases, their load-append-replace (the
race of `LocalStores` again, with the embedding between load and replacement), the append-only journal, formatting, logging, wrappers around git and the file
system, interactive scripts, container and cloud scripts. Within the modelled parts: the
content of the shared checkout on the jumpbox, the payload of messages, malformed
messages (the daemon answers or drops them without state), the tools of the MCP server that only pass
a command on, pull telemetry and health check of the bridge, failing writes of the poller's tracker file.

Left to do:

1. The refinement of an abstract event channel by `LocalStores`, up to the first overlap.
2. `RelayDaemon` against `WorkflowHandlers`: that one step for a handler is an abstraction of the handlers' steps.
