------------------------------ MODULE McServer ------------------------------
(***************************************************************************)
(* agents/mcp_server.py: the tools with which an agent dispatches          *)
(* workflows, asks about them and stops them, and the table of workflows   *)
(* in flight they share. Tool calls are coroutines: each runs alone until  *)
(* it awaits, and takes up what it had read before. The completion         *)
(* callback runs in the thread of the bridge's background poller. The      *)
(* bridge is seen as Mailbox describes it: an answer is posted, kept,      *)
(* handed over or lost.                                                    *)
(***************************************************************************)
EXTENDS Naturals, FiniteSets

CONSTANTS
    Targets,
    Runs,           \* calls of dci_workflow_run, each with a correlation id
    Target,         \* the target each is for
    Callers,        \* concurrent calls of dci_workflow_status
    None,           \* no run
    MaxTroubles     \* bound: deaths of the server, writes that fail, stops, resets,
                    \* commands that time out and answers delivered twice, together

ASSUME TargetAssumption == Target \in [Runs -> Targets] /\ None \notin Runs
ASSUME LimitAssumption == MaxTroubles \in Nat

VARIABLES
    up,             \* the server runs
    at,             \* where each dci_workflow_run call is
    job,            \* what the relay does for it
    posted, kept, lost,     \* answers, as in Mailbox
    inflight,       \* _inflight_workflows; of a dead server, what it had
    beats,          \* targets whose entry has a last_heartbeat_time
    disk,           \* what inflight_workflows.json would be loaded as
    known,          \* _corr_to_target
    st, about,      \* where each status call is, and the run or target it is about
    reported,       \* history: completions returned by dci_workflow_status
    fleetTook,      \* history: completions returned by dci_fleet_status
    untracked,      \* history: runs the table may lack, see RunningIsTracked
    troubles

mail  == <<posted, kept, lost>>
table == <<inflight, beats, disk, known>>
calls == <<st, about>>
history == <<reported, fleetTook, untracked>>
vars == <<up, at, job, mail, table, calls, history, troubles>>

RunsOf(t) == {r \in Runs : Target[r] = t}
Answered  == {r \in Runs : job[r] = "ended"}
Running   == {r \in Runs : job[r] = "running"}

\* A file that is missing, or does not parse, is no table to _load_inflight.
NoTable == [runs |-> [t \in Targets |-> None], beats |-> {}]

TypeOK ==
    /\ up \in BOOLEAN
    /\ at \in [Runs -> {"new", "sent", "registered", "told", "failed"}]
    /\ job \in [Runs -> {"none", "asked", "running", "ended"}]
    /\ {posted, kept, lost, known, reported, fleetTook, untracked} \subseteq SUBSET Runs
    /\ beats \in SUBSET Targets
    /\ inflight \in [Targets -> Runs \cup {None}]
    /\ disk \in [runs : [Targets -> Runs \cup {None}], beats : SUBSET Targets]
    /\ st \in [Callers -> {"idle", "listed", "polling", "capture"}]
    /\ about \in [Callers -> Runs \cup {None}]
    /\ troubles \in Nat

Init ==
    /\ up = TRUE
    /\ at = [r \in Runs |-> "new"] /\ job = [r \in Runs |-> "none"]
    /\ posted = {} /\ kept = {} /\ lost = {}
    /\ inflight = [t \in Targets |-> None] /\ beats = {} /\ disk = NoTable
    /\ known = {}
    /\ st = [s \in Callers |-> "idle"] /\ about = [s \in Callers |-> None]
    /\ reported = {} /\ fleetTook = {} /\ untracked = {}
    /\ troubles = 0

Trouble == troubles < MaxTroubles /\ troubles' = troubles + 1

\* The table is changed and written to its file with no await in between. The
\* write may fail, which is only logged: before it began, or half way.
Persist(new, newBeats) ==
    /\ inflight' = new /\ beats' = newBeats
    /\ disk' \in {[runs |-> new, beats |-> newBeats], disk, NoTable}

\* Of a tool that is not bounded itself, the writes that fail are.
FailuresBounded ==
    IF disk' = [runs |-> inflight', beats |-> beats'] THEN UNCHANGED troubles ELSE Trouble

\* The table may lack these from now on, as far as they are not over.
Untrack(R) == untracked' = untracked \cup (R \ (Answered \cup {None}))

\* A status call drops its target's entry, whichever run is there by now.
PopEntry(t) ==
    /\ Persist([inflight EXCEPT ![t] = None], beats \ {t})
    /\ FailuresBounded
    /\ Untrack({inflight[t]})

\* A copy of an answer that was returned is no loss.
Lose(R) == lost' = lost \cup (R \ (reported \cup fleetTook))

\* drain_subscription: some answers are acknowledged unread.
Drain(cleared) ==
    \E D \in SUBSET posted :
        /\ posted' = posted \ D
        /\ kept' = kept \ cleared
        /\ Lose(D \cup cleared)

-----------------------------------------------------------------------------
(* The relay.                                                              *)

\* A message published while the server is down finds no subscription.
Post(r) == IF up THEN posted' = posted \cup {r} /\ UNCHANGED <<kept, lost>>
                 ELSE Lose({r}) /\ UNCHANGED <<posted, kept>>

RelayStarts(r) ==
    /\ job[r] = "asked"
    /\ job' = [job EXCEPT ![r] = "running"]
    /\ UNCHANGED <<up, at, mail, table, calls, history, troubles>>

\* It ends, or is refused.
RelayEnds(r) ==
    /\ job[r] \in {"asked", "running"}
    /\ job' = [job EXCEPT ![r] = "ended"]
    /\ Post(r)
    /\ untracked' = untracked \ {r}
    /\ UNCHANGED <<up, at, table, calls, reported, fleetTook, troubles>>

-----------------------------------------------------------------------------
(* dci_workflow_run                                                        *)

InDispatch(t) == {r \in RunsOf(t) : at[r] = "sent"}

\* r, and the dispatches for its target it crosses, if there are any.
Crossed(r) ==
    LET others == InDispatch(Target[r]) IN IF others = {} THEN {} ELSE others \cup {r}

\* Mutant: no guard against duplicate starts.
RunDispatch_NoGuard(r) ==
    /\ up /\ at[r] = "new"
    /\ at' = [at EXCEPT ![r] = "sent"]
    /\ job' = [job EXCEPT ![r] = "asked"]
    /\ Untrack(Crossed(r))
    /\ UNCHANGED <<up, mail, table, calls, reported, fleetTook, troubles>>

\* The guard, under _inflight_lock, which is then released; up to the await in
\* send_command_start, which publishes the command, nothing else is awaited.
\* Two calls for one target may both pass the guard. A call that is refused,
\* or fails over its settings or hooks, changes nothing.
RunDispatch(r) ==
    /\ up /\ at[r] = "new" /\ inflight[Target[r]] = None
    /\ at' = [at EXCEPT ![r] = "sent"]
    /\ job' = [job EXCEPT ![r] = "asked"]
    /\ Untrack(Crossed(r))
    /\ UNCHANGED <<up, mail, table, calls, reported, fleetTook, troubles>>

\* No acknowledgement in 60 seconds: an error, and the run may start yet.
RunNotAcked(r) ==
    /\ up /\ at[r] = "sent"
    /\ at' = [at EXCEPT ![r] = "failed"]
    /\ Untrack({r})
    /\ UNCHANGED <<up, job, mail, table, calls, reported, fleetTook, troubles>>

\* ack_received: the relay has taken the command.
RunRegister(r) ==
    /\ up /\ at[r] = "sent" /\ job[r] \in {"running", "ended"}
    /\ at' = [at EXCEPT ![r] = "registered"]
    /\ Persist([inflight EXCEPT ![Target[r]] = r], beats \ {Target[r]})
    /\ FailuresBounded
    /\ UNCHANGED <<up, job, mail, known, calls, history>>

\* The poller's thread may run between the registration and this.
RunMap(r) ==
    /\ up /\ at[r] = "registered"
    /\ at' = [at EXCEPT ![r] = "told"]
    /\ known' = known \cup {r}
    /\ UNCHANGED <<up, job, mail, inflight, disk, beats, calls, history, troubles>>

-----------------------------------------------------------------------------
(* The bridge.                                                             *)

\* Mutant: the puller acknowledges what is for others, and drops it.
Pull_Drops(r) ==
    /\ up /\ r \in posted
    /\ posted' = posted \ {r}
    /\ UNCHANGED <<up, at, job, kept, lost, table, calls, history, troubles>>

\* The background poller, which tells the callback, or the thread of another
\* command, which does not, puts the answer into the table. If the
\* acknowledgement fails it is delivered again.
Pull(r) ==
    /\ up /\ r \in posted
    /\ kept' = kept \cup {r}
    /\ \/ posted' = posted \ {r} /\ UNCHANGED troubles
       \/ Trouble /\ UNCHANGED posted
    /\ UNCHANGED <<up, at, job, lost, table, calls, history>>

-----------------------------------------------------------------------------
(* dci_workflow_status                                                     *)

Goto(s, place, r) ==
    /\ st' = [st EXCEPT ![s] = place]
    /\ about' = [about EXCEPT ![s] = r]

Done(s) == Goto(s, "idle", None)

\* The entry of the target is read, under the lock; then check_for_result.
StatusBegin(s, t) ==
    /\ up /\ st[s] = "idle" /\ inflight[t] # None
    /\ Goto(s, "polling", inflight[t])
    /\ UNCHANGED <<up, at, job, mail, table, history, troubles>>

\* No entry: workflow.list tells of a run for the target.
StatusLists(s, t) ==
    /\ up /\ st[s] = "idle" /\ inflight[t] = None
    /\ \E r \in RunsOf(t) \cap Running : Goto(s, "listed", r)
    /\ UNCHANGED <<up, at, job, mail, table, history, troubles>>

\* What was listed is registered, over what may have been registered since.
AutoRegister(s) ==
    LET r == about[s] IN
    /\ up /\ st[s] = "listed"
    /\ Persist([inflight EXCEPT ![Target[r]] = r], beats \cup {Target[r]})
    /\ FailuresBounded
    /\ known' = known \cup {r}
    /\ IF inflight[Target[r]] = None /\ Crossed(r) = {}
       THEN untracked' = untracked \ {r} ELSE Untrack(Crossed(r) \cup {inflight[Target[r]]})
    /\ Done(s)
    /\ UNCHANGED <<up, at, job, mail, reported, fleetTook>>

\* check_for_result finds the answer in the table or pulls it; either way the
\* background poller's callback does not see it here. The server profile of
\* the target is captured next, over the relay.
StatusTakes(s) ==
    /\ up /\ st[s] = "polling" /\ about[s] \in posted \cup kept
    /\ \/ about[s] \in kept /\ kept' = kept \ {about[s]} /\ UNCHANGED <<posted, troubles>>
       \/ about[s] \notin kept /\ posted' = posted \ {about[s]} /\ UNCHANGED <<kept, troubles>>
       \/ about[s] \notin kept /\ Trouble /\ UNCHANGED <<kept, posted>>
    /\ st' = [st EXCEPT ![s] = "capture"]
    /\ UNCHANGED <<up, at, job, lost, table, about, history>>

\* "running": the table's entry gets the time of the heartbeat.
StatusHeartbeat(s) ==
    LET r == about[s] IN
    /\ up /\ st[s] = "polling" /\ job[r] # "asked"
    /\ beats' = IF inflight[Target[r]] = r THEN beats \cup {Target[r]} ELSE beats
    /\ Done(s)
    /\ UNCHANGED <<up, at, job, mail, inflight, disk, known, history, troubles>>

\* Nothing this time. A run whose last heartbeat is 120 seconds old is given
\* up; of one without any the caller is told that it is running.
StatusUnknown(s) ==
    LET r == about[s] IN
    /\ up /\ st[s] = "polling"
    /\ \/ /\ inflight[Target[r]] = r => Target[r] \in beats
          /\ PopEntry(Target[r])
       \/ UNCHANGED <<inflight, disk, beats, untracked, troubles>>
    /\ Done(s)
    /\ UNCHANGED <<up, at, job, mail, known, reported, fleetTook>>

\* Mutant: the run stays in flight, as after dci_fleet_status.
StatusCompletes_KeepsEntry(s) ==
    /\ up /\ st[s] = "capture"
    /\ reported' = reported \cup {about[s]}
    /\ \E success \in BOOLEAN : Drain(IF success THEN kept ELSE {})
    /\ Done(s)
    /\ UNCHANGED <<up, at, job, table, fleetTook, untracked, troubles>>

\* Mutant: the call is not back in its first state.
StatusCompletes_StillThere(s) ==
    /\ up /\ st[s] = "capture"
    /\ PopEntry(Target[about[s]])
    /\ reported' = reported \cup {about[s]}
    /\ Goto(s, "completed", None)
    /\ UNCHANGED <<up, at, job, mail, known, fleetTook>>

\* The run is over: its target's entry goes. After a success the bridge is
\* reset for the next run, after a failure the subscription is drained.
StatusCompletes(s) ==
    /\ up /\ st[s] = "capture"
    /\ PopEntry(Target[about[s]])
    /\ reported' = reported \cup {about[s]}
    /\ \E success \in BOOLEAN : Drain(IF success THEN kept ELSE {})
    /\ Done(s)
    /\ UNCHANGED <<up, at, job, known, fleetTook>>

-----------------------------------------------------------------------------
(* The other tools.                                                        *)

\* dci_fleet_status takes the answers of all runs in flight, and leaves them
\* in flight. What the relay lists and the goals are only shown.
FleetStatus ==
    LET taken == kept \cap {inflight[t] : t \in Targets} IN
    /\ up /\ taken # {}
    /\ kept' = kept \ taken
    /\ fleetTook' = fleetTook \cup taken
    /\ UNCHANGED <<up, at, job, posted, lost, table, calls, reported, untracked,
                   troubles>>

\* dci_workflow_stop has had its answer from the relay, whatever it says.
WorkflowStop(t) ==
    /\ up /\ Trouble
    /\ Persist([inflight EXCEPT ![t] = None], beats \ {t})
    /\ Untrack({r \in RunsOf(t) : at[r] # "new"})
    /\ Drain(kept)
    /\ UNCHANGED <<up, at, job, known, calls, reported, fleetTook>>

WorkflowStopAll ==
    /\ up /\ Trouble
    /\ Persist([t \in Targets |-> None], {})
    /\ Untrack({r \in Runs : at[r] # "new"})
    /\ UNCHANGED <<up, at, job, mail, known, calls, reported, fleetTook>>

\* dci_preflight_check, at the start of every /dci-run, resets the bridge.
PreflightCheck ==
    /\ up /\ Trouble
    /\ Drain(kept)
    /\ UNCHANGED <<up, at, job, table, calls, history>>

\* A command one of the tools waits for, the workflow.list of both status
\* tools among them, has no answer in time: the subscription is drained
\* before the second try.
CommandTimesOut ==
    /\ up /\ Trouble
    /\ Drain({})
    /\ UNCHANGED <<up, at, job, table, calls, history>>

-----------------------------------------------------------------------------
(* The server's life.                                                      *)

\* Its coroutines and tables go, and with the session its subscription; a
\* dispatch that was not registered is forgotten, and the file is torn if a
\* tool was about to write it.
Crash ==
    /\ up /\ Trouble
    /\ up' = FALSE
    /\ at' = [r \in Runs |-> IF at[r] \in {"new", "told", "failed"} THEN at[r] ELSE "failed"]
    /\ Untrack({r \in Runs : at[r] = "sent"})
    /\ posted' = {} /\ kept' = {}
    /\ Lose(posted \cup kept \cup {about[s] : s \in {s \in Callers : st[s] = "capture"}})
    /\ known' = {}
    /\ st' = [s \in Callers |-> "idle"] /\ about' = [s \in Callers |-> None]
    /\ disk' \in {disk, NoTable}
    /\ UNCHANGED <<job, inflight, beats, reported, fleetTook>>

\* Entries of the table that the file does not have.
NotWritten == {inflight[t] : t \in {t \in Targets : disk.runs[t] # inflight[t]}}

\* Mutant: the correlation map is not rebuilt.
Boot_NoMap ==
    /\ ~up
    /\ up' = TRUE
    /\ inflight' = disk.runs /\ beats' = disk.beats
    /\ Untrack(NotWritten)
    /\ UNCHANGED <<at, job, mail, disk, known, calls, reported, fleetTook, troubles>>

\* _lifespan: the table is what the file has, of this server or, where writes
\* failed, of an earlier moment, and the map of the callbacks is rebuilt from it.
Boot ==
    /\ ~up
    /\ up' = TRUE
    /\ inflight' = disk.runs /\ beats' = disk.beats
    /\ known' = {disk.runs[t] : t \in Targets} \ {None}
    /\ Untrack(NotWritten)
    /\ UNCHANGED <<at, job, mail, disk, calls, reported, fleetTook, troubles>>

-----------------------------------------------------------------------------

Next ==
    \/ \E r \in Runs :
          \/ RelayStarts(r) \/ RelayEnds(r)
          \/ RunDispatch(r) \/ RunNotAcked(r) \/ RunRegister(r) \/ RunMap(r)
          \/ Pull(r)
    \/ \E s \in Callers :
          \/ \E t \in Targets : StatusBegin(s, t) \/ StatusLists(s, t)
          \/ AutoRegister(s) \/ StatusTakes(s) \/ StatusHeartbeat(s)
          \/ StatusUnknown(s) \/ StatusCompletes(s)
    \/ \E t \in Targets : WorkflowStop(t)
    \/ FleetStatus \/ WorkflowStopAll \/ PreflightCheck
    \/ CommandTimesOut \/ Crash \/ Boot

Spec == Init /\ [][Next]_vars

\* The agent polls the status of a run in flight, as the docstring of
\* dci_workflow_status tells it to, and a status call goes on; whoever starts the server
\* starts it again; of an answer that is there, some poll gets hold.
FairSpec ==
    /\ Spec
    /\ WF_vars(Boot)
    /\ \A s \in Callers :
          /\ \A t \in Targets : SF_vars(StatusBegin(s, t))
          /\ WF_vars(StatusUnknown(s) \/ AutoRegister(s) \/ StatusCompletes(s))
          /\ SF_vars(StatusTakes(s))

-----------------------------------------------------------------------------
(* Properties.                                                             *)

\* A workflow the relay runs is in flight for the server, so that a second
\* dispatch to its target is refused. Untracked are runs that no
\* acknowledgement was seen of, that were dispatched while another call for
\* the target was under way, stopped, given up, in flight when a
\* status call that had begun before dropped or replaced their target's entry,
\* or whose entry the file did not have when the server was started again.
RunningIsTracked ==
    \A r \in Running : \/ inflight[Target[r]] = r
                       \/ at[r] = "sent" \/ r \in untracked

\* The completion of whatever is in flight will be recognised by the callback,
\* of an adopted run and after a restart with whatever the file had, too, but
\* for the moment of registration.
InFlightIsKnown ==
    up => \A t \in Targets : \/ inflight[t] \in known \cup {None}
                             \/ at[inflight[t]] = "registered"

\* Every answer is on its way, in the table, being returned, returned
\* or lost: calls that overlap do not make it disappear.
CompletionAccounted ==
    Answered \subseteq posted \cup kept \cup lost \cup reported \cup fleetTook
                  \cup {about[s] : s \in {s \in Callers : st[s] = "capture"}}

\* A run that is answered leaves the table, unless its answer was lost or
\* dci_fleet_status was the one to take it. (A restart with an outdated file
\* may bring it back.)
InFlightEnds ==
    \A r \in Runs : r \in Answered \ reported /\ inflight[Target[r]] = r
                        ~> inflight[Target[r]] # r \/ r \in lost \cup fleetTook

\* What mcp_server.py:1001-1002 says of dci_fleet_status, that one call
\* replaces a dci_workflow_status call per run: a run reported as completed is
\* not in flight any more.
ReportedIsOver == \A t \in Targets : up => inflight[t] \notin reported \cup fleetTook
=============================================================================
