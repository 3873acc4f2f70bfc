-------------------------- MODULE WorkflowHandlers --------------------------
(***************************************************************************)
(* What goes on inside the relay while workflow.run is being handled:      *)
(* relay/handlers.py (handle_workflow, _run_workflow, the two stop         *)
(* handlers), the streaming call of relay/ssh_manager.py and the watchdog  *)
(* of relay/daemon.py, all threads of one process that share the two       *)
(* dictionaries _active_workflows and _completed_workflows, and the        *)
(* dci-rhel-agent-ctl processes on the jumpbox that outlive all of them.   *)
(*                                                                         *)
(* A run is one workflow.run command; it is handled at most once, which is *)
(* RelayDaemon's RunAtMostOnce. Every section under a lock is one step,    *)
(* and so is every call over SSH.                                          *)
(***************************************************************************)
EXTENDS Naturals, FiniteSets

CONSTANTS
    Runs,           \* workflow.run commands
    Targets, Files, \* target hosts; settings files on the jumpbox, as full paths
    Names,          \* their base names
    Target,         \* Target[r]: the target_host of the payload
    Settings,       \* Settings[r]: its settings_file
    Basename,       \* Basename[f]: os.path.basename(f)
    Matched,        \* Matched[n]: runs whose agent "pkill -f n" finds: n is a
                    \* pattern, looked for anywhere in the command line
    Carries,        \* runs whose payload has settings_content
    MaxRuns,        \* max_total_runs (50)
    MaxStops,       \* bound: stop commands
    MaxRestarts,    \* bound: restarts of the relay process
    None

ASSUME NoneAssumption == None \notin Runs
ASSUME PayloadAssumption ==
    /\ Target \in [Runs -> Targets]
    /\ Settings \in [Runs -> Files]
    /\ Basename \in [Files -> Names]
    /\ Matched \in [Names -> SUBSET Runs]
    /\ Carries \subseteq Runs
ASSUME BoundAssumption == MaxRuns \in Nat /\ MaxStops \in Nat /\ MaxRestarts \in Nat

VARIABLES
    runCount,   \* _workflow_run_count
    active,     \* _active_workflows: target -> the run registered for it
    completed,  \* _completed_workflows: target -> the run last recorded for it
    pc, out,    \* per run: where its handler is, and what it will answer
    agent,      \* per run: its dci-rhel-agent-ctl on the jumpbox
    staged,     \* per base name: whose content is at /tmp/<basename>
    deployed,   \* per settings file: whose content is there; None if it is
                \* missing or older than all of them
    overdue,    \* runs registered longer ago than WORKFLOW_TIMEOUT
    stop,       \* the stop command being handled, if any
    watch,      \* the watchdog: its place in the loop and its snapshot
    stops, restarts,
    usedBy,     \* history: whose settings each agent was started with
    crowded,    \* history: runs that met another past the check of their target
    mixed,      \* history: runs that met another of their base name in pre-flight
    abandoned,  \* history: runs whose SSH stream ended before their agent
    stopped,    \* history: runs a stop command reported as signalled
    forgotten   \* history: runs whose completion record is gone again

registry == <<active, completed>>
jumpbox  == <<agent, staged, deployed, usedBy>>
control  == <<stop, watch, stops, restarts>>
history  == <<crowded, mixed, abandoned, stopped, forgotten>>
vars == <<runCount, registry, pc, out, jumpbox, overdue, control, history>>

MaybeRun == Runs \cup {None}

\* Handlers between the registration and the pop of their entry.
BeforeStart == {"registered", "staged", "deployed"}
Section == BeforeStart \cup {"streaming", "unwind"}
InSection(r) == pc[r] \in Section

Name(r) == Basename[Settings[r]]

TypeOK ==
    /\ runCount \in Nat
    /\ active \in [Targets -> MaybeRun]
    /\ completed \in [Targets -> MaybeRun]
    /\ pc \in [Runs -> Section \cup
                  {"new", "counted", "checked", "record", "done", "refused", "dead"}]
    /\ out \in [Runs -> {"none", "success", "failed"}]
    /\ agent \in [Runs -> {"none", "alive", "exit_ok", "exit_bad"}]
    /\ staged \in [Names -> MaybeRun]
    /\ deployed \in [Files -> MaybeRun]
    /\ overdue \in SUBSET Runs
    /\ stop \in {None} \cup [hit : SUBSET Runs, runs : SUBSET Runs, on : SUBSET Targets]
    /\ watch \in [at : {"sleep", "kill"}, stuck : SUBSET Runs]
    /\ stops \in Nat /\ restarts \in Nat
    /\ usedBy \in [Runs -> MaybeRun]
    /\ {crowded, mixed, abandoned, stopped, forgotten} \subseteq SUBSET Runs

Init ==
    /\ runCount = 0
    /\ active = [t \in Targets |-> None]
    /\ completed = [t \in Targets |-> None]
    /\ pc = [r \in Runs |-> "new"]
    /\ out = [r \in Runs |-> "none"]
    /\ agent = [r \in Runs |-> "none"]
    /\ staged = [n \in Names |-> None]
    /\ deployed = [f \in Files |-> None]
    /\ overdue = {}
    /\ stop = None
    /\ watch = [at |-> "sleep", stuck |-> {}]
    /\ stops = 0 /\ restarts = 0
    /\ usedBy = [r \in Runs |-> None]
    /\ crowded = {} /\ mixed = {} /\ abandoned = {} /\ stopped = {}
    /\ forgotten = {}

Goto(r, place) == pc' = [pc EXCEPT ![r] = place]

\* The handler is about to leave _run_workflow with a failure (or an
\* exception: handle_workflow's finally clause does the same for both).
Fails(r) == Goto(r, "unwind") /\ out' = [out EXCEPT ![r] = "failed"]

-----------------------------------------------------------------------------
(* handle_workflow, up to the registration.                                *)

\* The increment and the read are in one locked section; a refused run has
\* used up its number too.
Count(r) ==
    /\ pc[r] = "new"
    /\ runCount' = runCount + 1
    /\ Goto(r, IF runCount' > MaxRuns THEN "refused" ELSE "counted")
    /\ UNCHANGED <<registry, out, jumpbox, overdue, control, history>>

\* check_workflow_paths refuses the payload's paths, which may be any, or the
\* target is in _active_workflows.
Refuse(r) ==
    /\ pc[r] = "counted"
    /\ Goto(r, "refused")
    /\ UNCHANGED <<runCount, registry, out, jumpbox, overdue, control, history>>

Check(r) ==
    /\ pc[r] = "counted"
    /\ active[Target[r]] = None
    /\ Goto(r, "checked")
    /\ UNCHANGED <<runCount, registry, out, jumpbox, overdue, control, history>>

Neighbours(r) == {q \in Runs \ {r} : InSection(q) /\ Target[q] = Target[r]}

Namesakes(r) == {q \in Runs \ {r} : pc[q] \in BeforeStart /\ Name(q) = Name(r)}

With(r, met) == IF met = {} THEN {} ELSE met \cup {r}

\* The lock was released after the check: whatever is in the dictionary by
\* now is overwritten.
Register(r) ==
    /\ pc[r] = "checked"
    /\ active' = [active EXCEPT ![Target[r]] = r]
    /\ crowded' = crowded \cup With(r, Neighbours(r))
    /\ mixed' = mixed \cup With(r, Namesakes(r))
    /\ Goto(r, "registered")
    /\ UNCHANGED <<runCount, completed, out, jumpbox, overdue, control,
                   abandoned, stopped, forgotten>>

-----------------------------------------------------------------------------
(* _run_workflow: the pre-flight on the jumpbox, then the agent.           *)

\* git pull of the repository or of the hooks failed: "never run with stale
\* code". (When they succeed, nothing the model has a name for changes.)
PullFails(r) ==
    /\ pc[r] = "registered"
    /\ Fails(r)
    /\ UNCHANGED <<runCount, registry, jumpbox, overdue, control, history>>

\* Mutant: a payload that could not be written goes unnoticed.
StageSettings_NoError(r) ==
    /\ pc[r] = "registered"
    /\ r \in Carries
    /\ staged' \in {staged, [staged EXCEPT ![Name(r)] = r]}
    /\ Goto(r, "staged")
    /\ UNCHANGED <<runCount, registry, out, agent, deployed, usedBy, overdue, control, history>>

\* sftp_write of the payload's settings; it may raise, with or without having
\* touched the file.
StageSettings(r) ==
    /\ pc[r] = "registered"
    /\ r \in Carries
    /\ \/ /\ staged' = [staged EXCEPT ![Name(r)] = r]
          /\ Goto(r, "staged")
          /\ UNCHANGED out
       \/ /\ staged' \in {staged, [staged EXCEPT ![Name(r)] = r]}
          /\ Fails(r)
    /\ UNCHANGED <<runCount, registry, agent, deployed, usedBy, overdue, control, history>>

\* sudo cp of the staged file, which is then removed, or left there if rm
\* fails. Another run may have staged its own settings there, or removed them:
\* then cp fails.
CopySettings(r) ==
    /\ pc[r] = "staged"
    /\ \/ /\ staged[Name(r)] # None
          /\ deployed' = [deployed EXCEPT ![Settings[r]] = staged[Name(r)]]
          /\ staged' \in {staged, [staged EXCEPT ![Name(r)] = None]}
          /\ Goto(r, "deployed")
          /\ UNCHANGED out
       \/ UNCHANGED <<staged, deployed>> /\ Fails(r)
    /\ UNCHANGED <<runCount, registry, agent, usedBy, overdue, control, history>>

\* No settings in the payload: those at the deploy target, if there are any.
UseExisting(r) ==
    /\ pc[r] = "registered"
    /\ r \notin Carries
    /\ \/ Goto(r, "deployed") /\ UNCHANGED out
       \/ Fails(r)
    /\ UNCHANGED <<runCount, registry, jumpbox, overdue, control, history>>

\* exec_command of dci-rhel-agent-ctl on a connection of its own.
StartAgent(r) ==
    /\ pc[r] = "deployed"
    /\ \/ /\ agent' = [agent EXCEPT ![r] = "alive"]
          /\ usedBy' = [usedBy EXCEPT ![r] = deployed[Settings[r]]]
          /\ Goto(r, "streaming")
          /\ UNCHANGED out
       \/ UNCHANGED <<agent, usedBy>> /\ Fails(r)    \* no connection
    /\ UNCHANGED <<runCount, registry, staged, deployed, overdue, control, history>>

\* The exit status arrived. Success asks for exit code 0 and, unless the
\* recap is all green, for no failure line in the output.
StreamEnds(r) ==
    /\ pc[r] = "streaming"
    /\ agent[r] # "alive"
    /\ \/ /\ agent[r] = "exit_ok"
          /\ out' = [out EXCEPT ![r] = "success"]
       \/ out' = [out EXCEPT ![r] = "failed"]
    /\ Goto(r, "unwind")
    /\ UNCHANGED <<runCount, registry, jumpbox, overdue, control, history>>

\* Mutant: the exit code of a connection that broke (-1) is not looked at.
StreamLost_NoExitCode(r) ==
    /\ pc[r] = "streaming"
    /\ agent[r] = "alive"
    /\ Goto(r, "unwind")
    /\ out' = [out EXCEPT ![r] = "success"]
    /\ abandoned' = abandoned \cup {r}
    /\ UNCHANGED <<runCount, registry, jumpbox, overdue, control,
                   crowded, mixed, stopped, forgotten>>

\* The connection broke, or the wall-clock timeout passed: the call returns
\* exit code -1. The agent has lost its terminal and may or may not go on.
StreamLost(r) ==
    /\ pc[r] = "streaming"
    /\ agent[r] = "alive"
    /\ Fails(r)
    /\ agent' \in {agent, [agent EXCEPT ![r] = "exit_bad"]}
    /\ abandoned' = abandoned \cup {r}
    /\ UNCHANGED <<runCount, registry, staged, deployed, usedBy, overdue, control,
                   crowded, mixed, stopped, forgotten>>

\* Mutant: the deadline is looked at only when output has arrived.
StreamTimeout_OnOutput(r) == r \in overdue /\ agent[r] = "exit_ok" /\ StreamLost(r)

StreamTimeout(r) == r \in overdue /\ StreamLost(r)

-----------------------------------------------------------------------------
(* handle_workflow's finally clause.                                       *)

\* pop(target_host): whoever is registered there by now.
Unregister(r) ==
    /\ pc[r] = "unwind"
    /\ active' = [active EXCEPT ![Target[r]] = None]
    /\ overdue' = overdue \ {r}
    /\ Goto(r, "record")
    /\ UNCHANGED <<runCount, completed, out, jumpbox, control, history>>

\* Mutant: only a run that returned a result with its exit code is recorded.
Record_OnlySuccess(r) ==
    /\ pc[r] = "record"
    /\ IF out[r] = "success"
       THEN completed' = [completed EXCEPT ![Target[r]] = r]
       ELSE UNCHANGED completed
    /\ Goto(r, "done")
    /\ UNCHANGED <<runCount, active, out, jumpbox, overdue, control, history>>

\* There is one record per target: that of the run before it is replaced.
Record(r) ==
    /\ pc[r] = "record"
    /\ completed' = [completed EXCEPT ![Target[r]] = r]
    /\ forgotten' = forgotten \cup ({completed[Target[r]]} \ {None})
    /\ Goto(r, "done")
    /\ UNCHANGED <<runCount, active, out, jumpbox, overdue, control,
                   crowded, mixed, abandoned, stopped>>

-----------------------------------------------------------------------------
(* workflow.stop and workflow.stop_all: look up, then kill.                *)

Active == {active[t] : t \in Targets} \ {None}

\* Mutant: a killed agent gets a status of its own.
Kill_OwnStatus(hit) ==
    agent' = [r \in Runs |-> IF agent[r] = "alive" /\ r \in hit THEN "killed" ELSE agent[r]]

\* pkill -f: the agents whose command line its pattern matches. With the jumpbox
\* out of reach nothing is killed.
Kill(hit) ==
    \/ agent' = [r \in Runs |->
                    IF agent[r] = "alive" /\ r \in hit THEN "exit_bad" ELSE agent[r]]
    \/ UNCHANGED agent

\* The base name of the entry's settings file is the pattern. A target that is
\* not registered is answered at once, without a kill.
StopLookup(t) ==
    /\ stop = None
    /\ stops < MaxStops
    /\ active[t] # None
    /\ stop' = [hit |-> Matched[Name(active[t])], runs |-> {active[t]}, on |-> {t}]
    /\ stops' = stops + 1
    /\ UNCHANGED <<runCount, registry, pc, out, jumpbox, overdue, watch, restarts, history>>

\* pkill -f dci-rhel-agent-ctl names no settings file: it matches them all.
StopAllLookup ==
    /\ stop = None
    /\ stops < MaxStops
    /\ Active # {}
    /\ stop' = [hit |-> Runs, runs |-> Active, on |-> Targets]
    /\ stops' = stops + 1
    /\ UNCHANGED <<runCount, registry, pc, out, jumpbox, overdue, watch, restarts, history>>

\* Mutant: workflow.stop kills by program name, as workflow.stop_all does.
StopKill_ByProgram ==
    /\ stop # None
    /\ Kill(Runs)
    /\ stopped' = stopped \cup stop.runs
    /\ stop' = None
    /\ UNCHANGED <<runCount, registry, pc, out, staged, deployed, usedBy, overdue, watch,
                   stops, restarts, crowded, mixed, abandoned, forgotten>>

\* Mutant: the stopped workflow is taken off the registry then and there.
StopKill_Forgets ==
    /\ stop # None
    /\ Kill(stop.hit)
    /\ active' = [t \in Targets |-> IF active[t] \in stop.runs THEN None ELSE active[t]]
    /\ stopped' = stopped \cup stop.runs
    /\ stop' = None
    /\ UNCHANGED <<runCount, completed, pc, out, staged, deployed, usedBy, overdue, watch,
                   stops, restarts, crowded, mixed, abandoned, forgotten>>

\* The answer is "success" whatever pkill did.
StopKill ==
    /\ stop # None
    /\ Kill(stop.hit)
    /\ stopped' = stopped \cup stop.runs
    /\ stop' = None
    /\ UNCHANGED <<runCount, registry, pc, out, staged, deployed, usedBy, overdue, watch,
                   stops, restarts, crowded, mixed, abandoned, forgotten>>

-----------------------------------------------------------------------------
(* The watchdog: list the stuck entries, kill them one by one, evict old   *)
(* completions. An exception ends the pass.                                *)

WatchScan ==
    /\ watch.at = "sleep"
    /\ watch' = [at |-> "kill", stuck |-> Active \cap overdue]
    /\ UNCHANGED <<runCount, registry, pc, out, jumpbox, overdue, stop, stops, restarts, history>>

WatchKill(r) ==
    /\ r \in watch.stuck
    /\ Kill(Matched[Name(r)])
    /\ watch' = [watch EXCEPT !.stuck = @ \ {r}]
    /\ UNCHANGED <<runCount, registry, pc, out, staged, deployed, usedBy, overdue,
                   stop, stops, restarts, history>>

\* The records past their hour go, whichever these are by now.
WatchEvict ==
    /\ watch.at = "kill"
    /\ watch.stuck = {}
    /\ \E old \in SUBSET Targets :
          /\ completed' = [t \in Targets |-> IF t \in old THEN None ELSE completed[t]]
          /\ forgotten' = forgotten \cup ({completed[t] : t \in old} \ {None})
    /\ watch' = [at |-> "sleep", stuck |-> {}]
    /\ UNCHANGED <<runCount, active, pc, out, jumpbox, overdue, stop, stops, restarts,
                   crowded, mixed, abandoned, stopped>>

WatchAbort ==
    /\ watch.at = "kill"
    /\ watch' = [at |-> "sleep", stuck |-> {}]
    /\ UNCHANGED <<runCount, registry, pc, out, jumpbox, overdue, stop, stops, restarts, history>>

-----------------------------------------------------------------------------
(* Time, the agents, and the end of the relay process.                     *)

Overdue(r) ==
    /\ InSection(r)
    /\ overdue' = overdue \cup {r}
    /\ UNCHANGED <<runCount, registry, pc, out, jumpbox, control, history>>

AgentEnds(r) ==
    /\ agent[r] = "alive"
    /\ \E code \in {"exit_ok", "exit_bad"} : agent' = [agent EXCEPT ![r] = code]
    /\ UNCHANGED <<runCount, registry, pc, out, staged, deployed, usedBy, overdue,
                   control, history>>

\* Threads and dictionaries are gone; what runs on the jumpbox may go on.
Restart ==
    /\ restarts < MaxRestarts
    /\ restarts' = restarts + 1
    /\ runCount' = 0
    /\ active' = [t \in Targets |-> None]
    /\ completed' = [t \in Targets |-> None]
    /\ pc' = [r \in Runs |->
                 IF pc[r] \in {"new", "done", "refused"} THEN pc[r] ELSE "dead"]
    /\ abandoned' = abandoned \cup {r \in Runs : pc[r] = "streaming"}
    /\ forgotten' = forgotten \cup {r \in Runs : pc[r] = "done"}
    /\ agent' \in {agent, [r \in Runs |->
                              IF pc[r] = "streaming" /\ agent[r] = "alive"
                              THEN "exit_bad" ELSE agent[r]]}
    /\ overdue' = {}
    /\ stop' = None
    /\ watch' = [at |-> "sleep", stuck |-> {}]
    /\ UNCHANGED <<out, staged, deployed, usedBy, stops, crowded, mixed, stopped>>

-----------------------------------------------------------------------------
Preflight(r) == PullFails(r) \/ StageSettings(r) \/ CopySettings(r) \/ UseExisting(r)
                           \/ StartAgent(r)

\* From the start of the agent on, the handler waits for nothing but time.
Finish(r) == StreamEnds(r) \/ StreamTimeout(r) \/ Unregister(r) \/ Record(r)

Handler(r) == Count(r) \/ Refuse(r) \/ Check(r) \/ Register(r) \/ Preflight(r) \/ Finish(r)

Watchdog == WatchScan \/ (\E r \in Runs : WatchKill(r)) \/ WatchEvict \/ WatchAbort

Next ==
    \/ \E r \in Runs : Handler(r) \/ StreamLost(r) \/ Overdue(r) \/ AgentEnds(r)
    \/ \E t \in Targets : StopLookup(t)
    \/ StopAllLookup \/ StopKill
    \/ Watchdog
    \/ Restart

Spec == Init /\ [][Next]_vars

\* The pool's threads are scheduled and time passes. Nothing is asked of the
\* agents, the watchdog or the operators, nor of the pre-flight: the timeout of
\* exec_on_jumpbox does not bound its wait for the exit status.
FairSpec == Spec /\ \A r \in Runs : WF_vars(Finish(r)) /\ WF_vars(Overdue(r))

-----------------------------------------------------------------------------
(* Properties.                                                             *)

\* Every agent that runs on the jumpbox can be found through the registry, by
\* workflow.stop, workflow.list and the watchdog: an agent is out of their
\* reach only if its SSH stream ended before it did, or if another run on its
\* target got past the check at the same time.
AliveIsListed ==
    \A r \in Runs : agent[r] = "alive" =>
        active[Target[r]] = r \/ r \in crowded \/ r \in abandoned

\* A run that brought settings in its payload is deployed with these and no
\* others, unless it was in pre-flight together with a run, of any target, whose
\* settings file has the same base name: both are then staged in one file.
AgentUsesOwnSettings == \A r \in Carries \ mixed : usedBy[r] \in {None, r}

\* Success is only ever reported of an agent that exited with code 0: never
\* of one that was killed or lost sight of.
SuccessMeansExited == \A r \in Runs : out[r] = "success" => agent[r] = "exit_ok"

\* By the time a run is answered, with a result or an exception, its own
\* outcome can be looked up, until it is an hour old, the next run on the target
\* has ended or the relay restarts: an operator who lost the answer finds it in
\* workflow.list.
AnsweredIsRecorded ==
    \A r \in Runs : pc[r] = "done" => completed[Target[r]] = r \/ r \in forgotten

\* workflow.stop for a target ends another target's agent only if the name of a
\* settings file used on the stopped target occurs in that agent's command
\* line, whatever has changed since the lookup.
StopSparesOthers ==
    [][\A r \in Runs :
          /\ stop # None /\ stop' = None /\ restarts' = restarts
          /\ agent[r] = "alive" /\ agent'[r] # "alive"
          => \/ Target[r] \in stop.on
             \/ \E q \in Runs : Target[q] \in stop.on /\ r \in Matched[Name(q)]]_vars

\* Every run whose agent was started is answered, or its process ends, even if
\* the agent hangs: "Enforces a wall-clock timeout so the thread never blocks
\* forever" (exec_on_jumpbox_streaming).
EveryRunAnswered ==
    \A r \in Runs : pc[r] = "streaming" ~> pc[r] \in {"done", "dead"}

\* The comment in handle_workflow: "Reject if a workflow is already running
\* for this target". Were that so, a target never had two agents at a time.
OneRunPerTarget ==
    \A q, r \in Runs :
        agent[q] = "alive" /\ agent[r] = "alive" /\ Target[q] = Target[r] => q = r


\* handle_workflow_stop's docstring: "Stop a specific running workflow by
\* killing its process". Were that so, a run that a stop command reported as
\* signalled would not start its process after that.
StopStops ==
    [][\A r \in stopped : ~(agent[r] = "none" /\ agent'[r] = "alive")]_vars
=============================================================================
