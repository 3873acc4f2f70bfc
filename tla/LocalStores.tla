----------------------------- MODULE LocalStores -----------------------------
(***************************************************************************)
(* The two files through which the background poller of the MCP server     *)
(* tells the agent's sessions what happened: workflow_events.json          *)
(* (agents/local/workflow_events.py) and fleet_state.json                  *)
(* (agents/local/fleet_state.py), with the two callbacks of                *)
(* agents/mcp_server.py that write them.  Every operation loads a file,    *)
(* changes the copy and replaces the file, atomically but without a lock:  *)
(* load and save are two steps, and another thread or process may come     *)
(* between; and what a session took from the file is told when the call    *)
(* returns, a step later.                                                  *)
(*                                                                         *)
(* One target.  Timestamps, the texts of events, the number of runs a goal *)
(* asks for and a file that cannot be read (it counts as empty) are left   *)
(* out.                                                                    *)
(***************************************************************************)
EXTENDS Naturals, Sequences, FiniteSets

CONSTANTS
    Runs,              \* workflow runs of the target, in _corr_to_target
    StuckPhases,            \* phases that may get stuck
    Sessions,          \* threads of agents: dci_check_events, fleet operations
    Poller,            \* the background poller's thread
    NoEvent, NoGoal,      \* no event, no goal
    MaxCompletions,    \* _MAX_COMPLETIONS
    MaxDeliveries,     \* bound: completions handed to the callback
    MaxFleetOps,       \* bound: fleet operations of the sessions
    MaxStoreTroubles   \* bound: deaths of the server and steps that raise

ASSUME StoreAssumption ==
    /\ Poller \notin Sessions
    /\ Runs \cap StuckPhases = {} /\ IsFiniteSet(Runs)
    /\ NoEvent \notin Runs \cup StuckPhases \cup [Runs \cup StuckPhases -> Nat]
    /\ NoEvent \notin [goal : [completed : Nat, failed : Nat] \cup {NoGoal}, completions : Seq(Runs)]
    /\ {MaxCompletions, MaxDeliveries, MaxFleetOps, MaxStoreTroubles} \subseteq Nat
    /\ NoGoal \notin [completed : Nat, failed : Nat]

VARIABLES
    events,            \* workflow_events.json: how often each event is in it
    goal, completions, \* fleet_state.json: the target's goal, the history
    doing,             \* where each thread is
    about,             \* the run or the phase the poller's callback is about, if any
    evCopy, fleetCopy, \* what each thread has loaded, if anything
    seen, alerted,     \* _phase_start_times, _stuck_alerted: in memory only
    good,              \* runs that succeed
    deliveries, fleetOps, storeTroubles,
    taken,             \* history: how often each event was taken from the file
    pushed,            \* history: how often each event was written
    told,              \* history: events returned to an agent
    unheard,           \* history: events that died with the session that took them
    raced,             \* history: events overwritten by an outdated copy of theirs
    recorded,          \* history: runs written to the fleet state
    uncounted          \* history: runs whose count the file may have lost

files == <<events, goal, completions>>
pollerMemory == <<seen, alerted>>
eventHistory == <<taken, pushed, told, unheard, raced>>
storeHistory == <<eventHistory, recorded, uncounted>>
storeBounds == <<deliveries, fleetOps, storeTroubles>>
copies == <<evCopy, fleetCopy>>
storeVars == <<files, doing, about, copies, pollerMemory, good, storeBounds, storeHistory>>

Events == Runs \cup StuckPhases
Fleet == [goal |-> goal, completions |-> completions]
Goals == [completed : 0..MaxDeliveries, failed : 0..MaxDeliveries]
NewGoal == [completed |-> 0, failed |-> 0]
FleetOps == {"set", "touch", "remove"}

Steps == {"idle", "record", "recording", "push", "pushing", "popping", "returning", "changing"}

Moves(a, step) == doing' = [doing EXCEPT ![a] = step]

StoreTypeOK ==
    /\ {events, taken, pushed} \subseteq [Events -> Nat]
    /\ {told, unheard, raced} \subseteq SUBSET Events
    /\ goal \in Goals \cup {NoGoal}
    /\ completions \in Seq(Runs) /\ Len(completions) <= MaxCompletions
    /\ doing \in [Sessions \cup {Poller} -> Steps]
    /\ about \in Events \cup {NoEvent}
    /\ \A a \in Sessions \cup {Poller} :
         /\ (evCopy[a] # NoEvent) = (doing[a] \in {"pushing", "popping", "returning"})
         /\ (fleetCopy[a] # NoEvent) = (doing[a] \in {"recording", "changing"})
    /\ seen \subseteq StuckPhases /\ alerted \subseteq seen
    /\ {good, recorded, uncounted} \subseteq SUBSET Runs
    /\ deliveries \in 0..MaxDeliveries
    /\ fleetOps \in 0..MaxFleetOps
    /\ storeTroubles \in 0..MaxStoreTroubles

StoreInit ==
    /\ events = [e \in Events |-> 0]
    /\ goal \in {NoGoal, NewGoal}
    /\ completions = <<>>
    /\ doing = [a \in Sessions \cup {Poller} |-> "idle"]
    /\ about = NoEvent
    /\ evCopy = [a \in Sessions \cup {Poller} |-> NoEvent]
    /\ fleetCopy = [a \in Sessions \cup {Poller} |-> NoEvent]
    /\ seen = {} /\ alerted = {}
    /\ good \in SUBSET Runs
    /\ deliveries = 0 /\ fleetOps = 0 /\ storeTroubles = 0
    /\ taken = [e \in Events |-> 0] /\ pushed = [e \in Events |-> 0]
    /\ told = {} /\ unheard = {} /\ raced = {}
    /\ recorded = {} /\ uncounted = {}

StoreTrouble == storeTroubles < MaxStoreTroubles /\ storeTroubles' = storeTroubles + 1

(* ------------------------------ the files ------------------------------- *)

\* _load, and the replacement of the file by the changed copy.  An outdated
\* copy undoes what was saved since it was loaded.
LoadsEvents(a, step) ==
    /\ evCopy' = [evCopy EXCEPT ![a] = events]
    /\ Moves(a, step)
    /\ UNCHANGED <<files, fleetCopy, about>>

LoadsFleet(a, step) ==
    /\ fleetCopy' = [fleetCopy EXCEPT ![a] = Fleet]
    /\ Moves(a, step)
    /\ UNCHANGED <<files, evCopy, about>>

\* The thread lets go of what it has loaded.
Unloads(a) ==
    /\ evCopy' = [evCopy EXCEPT ![a] = NoEvent]
    /\ fleetCopy' = [fleetCopy EXCEPT ![a] = NoEvent]

SavesEvents(a, new) ==
    /\ events' = new
    /\ raced' = raced \cup {e \in Events : evCopy[a][e] # events[e]}
    /\ UNCHANGED <<goal, completions>>

\* Mutant: off by one.
LastOf_OneMore(s, n) == IF Len(s) > n + 1 THEN SubSeq(s, Len(s) - n, Len(s)) ELSE s

LastOf(s, n) == IF Len(s) > n THEN SubSeq(s, Len(s) - n + 1, Len(s)) ELSE s

\* _save keeps the last _MAX_COMPLETIONS of the history.
SavesFleet(a, new, forgets) ==
    /\ goal' = new.goal
    /\ completions' = LastOf(new.completions, MaxCompletions)
    /\ uncounted' = uncounted \cup forgets
                       \cup (IF fleetCopy[a] # Fleet THEN recorded ELSE {})
    /\ Unloads(a)
    /\ UNCHANGED events

(* ------------------ _on_workflow_completed, _on_heartbeat ---------------- *)

\* Mutant: the event goes out before the run is counted.
CompletionArrives_EventFirst(r) ==
    /\ doing[Poller] = "idle"
    /\ deliveries < MaxDeliveries
    /\ deliveries' = deliveries + 1
    /\ about' = r
    /\ Moves(Poller, "push")
    /\ UNCHANGED <<files, copies, pollerMemory, good, fleetOps, storeTroubles, storeHistory>>

\* A final of a known run, possibly one delivered before.
CompletionArrives(r) ==
    /\ doing[Poller] = "idle"
    /\ deliveries < MaxDeliveries
    /\ deliveries' = deliveries + 1
    /\ about' = r
    /\ Moves(Poller, "record")
    /\ UNCHANGED <<files, copies, pollerMemory, good, fleetOps, storeTroubles, storeHistory>>

RecordLoads ==
    /\ doing[Poller] = "record"
    /\ LoadsFleet(Poller, "recording")
    /\ UNCHANGED <<pollerMemory, good, storeBounds, storeHistory>>

\* record_completion on its copy.
WithCompletion(f, r) ==
    [goal |-> IF f.goal = NoGoal THEN NoGoal
              ELSE IF r \in good THEN [f.goal EXCEPT !.completed = @ + 1]
                                 ELSE [f.goal EXCEPT !.failed = @ + 1],
     completions |-> Append(f.completions, r)]

RecordSaves ==
    /\ doing[Poller] = "recording"
    /\ SavesFleet(Poller, WithCompletion(fleetCopy[Poller], about),
                  IF fleetCopy[Poller].goal = NoGoal THEN {about} ELSE {})
    /\ recorded' = recorded \cup {about}
    /\ Moves(Poller, "push")
    /\ UNCHANGED <<about, pollerMemory, good, storeBounds, eventHistory>>

\* The record raises (the table of workflows in flight changed under the loop
\* that looks for the start time, the file cannot be written): logged, and the
\* event is pushed all the same.
RecordRaises ==
    /\ doing[Poller] \in {"record", "recording"}
    /\ StoreTrouble
    /\ uncounted' = uncounted \cup {about}
    /\ Unloads(Poller)
    /\ Moves(Poller, "push")
    /\ UNCHANGED <<files, about, pollerMemory, good, deliveries, fleetOps,
                   eventHistory, recorded>>

\* The first heartbeat of a phase starts its clock.
PhaseSeen(p) ==
    /\ doing[Poller] = "idle"
    /\ p \notin seen
    /\ seen' = seen \cup {p}
    /\ UNCHANGED <<files, doing, about, copies, alerted, good, storeBounds, storeHistory>>

\* A later one finds the phase overdue: one alert while the server lives.
PhaseOverdue(p) ==
    /\ doing[Poller] = "idle"
    /\ p \in seen \ alerted
    /\ alerted' = alerted \cup {p}
    /\ about' = p
    /\ Moves(Poller, "push")
    /\ UNCHANGED <<files, copies, seen, good, storeBounds, storeHistory>>

PushLoads ==
    /\ doing[Poller] = "push"
    /\ LoadsEvents(Poller, "pushing")
    /\ UNCHANGED <<pollerMemory, good, storeBounds, storeHistory>>

PushSaves ==
    /\ doing[Poller] = "pushing"
    /\ SavesEvents(Poller, [evCopy[Poller] EXCEPT ![about] = @ + 1])
    /\ pushed' = [pushed EXCEPT ![about] = @ + 1]
    /\ Unloads(Poller)
    /\ Moves(Poller, "idle")
    /\ about' = NoEvent
    /\ UNCHANGED <<pollerMemory, good, storeBounds,
                   taken, told, unheard, recorded, uncounted>>

\* The push raises, and the event is never told.
PushRaises ==
    /\ doing[Poller] \in {"push", "pushing"}
    /\ StoreTrouble
    /\ Unloads(Poller)
    /\ Moves(Poller, "idle")
    /\ about' = NoEvent
    /\ UNCHANGED <<files, pollerMemory, good, deliveries, fleetOps, storeHistory>>

\* A server dies with its sessions. What its callback has not done yet is lost
\* with the memory of alerts, and so are the events a session has taken and not
\* returned.
ServerDies(dead) ==
    /\ StoreTrouble
    /\ doing' = [a \in Sessions \cup {Poller} |->
                    IF a \in dead \cup {Poller} THEN "idle" ELSE doing[a]]
    /\ evCopy' = [a \in Sessions \cup {Poller} |->
                     IF a \in dead \cup {Poller} THEN NoEvent ELSE evCopy[a]]
    /\ fleetCopy' = [a \in Sessions \cup {Poller} |->
                        IF a \in dead \cup {Poller} THEN NoEvent ELSE fleetCopy[a]]
    /\ about' = NoEvent
    /\ seen' = {} /\ alerted' = {}
    /\ unheard' = unheard \cup {e \in Events :
                       \E s \in dead : doing[s] = "returning" /\ evCopy[s][e] > 0}
    /\ UNCHANGED <<files, good, deliveries, fleetOps,
                   taken, pushed, told, raced, recorded, uncounted>>

(* ------------------------------- sessions ------------------------------- *)

\* dci_check_events: without an event nothing is written.
PopLoads(s) ==
    /\ doing[s] = "idle"
    /\ \E e \in Events : events[e] > 0
    /\ LoadsEvents(s, "popping")
    /\ UNCHANGED <<pollerMemory, good, storeBounds, storeHistory>>

\* Mutant: what was returned stays in the file.
PopSaves_Keeps(s) ==
    /\ doing[s] = "popping"
    /\ SavesEvents(s, evCopy[s])
    /\ taken' = [e \in Events |-> taken[e] + evCopy[s][e]]
    /\ Moves(s, "returning")
    /\ UNCHANGED <<about, copies, pollerMemory, good, storeBounds,
                   pushed, told, unheard, recorded, uncounted>>

PopSaves(s) ==
    /\ doing[s] = "popping"
    /\ SavesEvents(s, [e \in Events |-> 0])
    /\ taken' = [e \in Events |-> taken[e] + evCopy[s][e]]
    /\ Moves(s, "returning")
    /\ UNCHANGED <<about, copies, pollerMemory, good, storeBounds,
                   pushed, told, unheard, recorded, uncounted>>

PopReturns(s) ==
    /\ doing[s] = "returning"
    /\ told' = told \cup {e \in Events : evCopy[s][e] > 0}
    /\ Unloads(s)
    /\ Moves(s, "idle")
    /\ UNCHANGED <<files, about, pollerMemory, good, storeBounds,
                   taken, pushed, unheard, raced, recorded, uncounted>>

\* The file cannot be written: the operation raises and has changed nothing.
SessionRaises(s) ==
    /\ doing[s] \in {"popping", "changing"}
    /\ StoreTrouble
    /\ Unloads(s)
    /\ Moves(s, "idle")
    /\ UNCHANGED <<files, about, pollerMemory, good, deliveries, fleetOps, storeHistory>>

\* set_goal keeps the counters of a goal there is; update_poll_time, mark_done
\* and mark_failed touch what the model leaves out (the poll time, nr_target);
\* remove_goal and clear_goals drop the goal with its counters.
WithChange(f, o) ==
    CASE o = "set" /\ f.goal = NoGoal -> [f EXCEPT !.goal = NewGoal]
      [] o = "remove" -> [f EXCEPT !.goal = NoGoal]
      [] OTHER -> f

ChangeLoads(s) ==
    /\ doing[s] = "idle"
    /\ fleetOps < MaxFleetOps
    /\ fleetOps' = fleetOps + 1
    /\ LoadsFleet(s, "changing")
    /\ UNCHANGED <<pollerMemory, good, deliveries, storeTroubles, storeHistory>>

ChangeSaves(s, o) ==
    /\ doing[s] = "changing"
    /\ SavesFleet(s, WithChange(fleetCopy[s], o),
                  IF o = "remove" THEN recorded ELSE {})
    /\ Moves(s, "idle")
    /\ UNCHANGED <<about, pollerMemory, good, storeBounds, eventHistory, recorded>>

StoreNext ==
    \/ \E r \in Runs : CompletionArrives(r)
    \/ RecordLoads \/ RecordSaves \/ RecordRaises
    \/ \E p \in StuckPhases : PhaseSeen(p) \/ PhaseOverdue(p)
    \/ PushLoads \/ PushSaves \/ PushRaises
    \/ \E dead \in SUBSET Sessions : ServerDies(dead)
    \/ \E s \in Sessions :
          \/ PopLoads(s) \/ PopSaves(s) \/ PopReturns(s) \/ SessionRaises(s)
          \/ ChangeLoads(s)
          \/ \E o \in FleetOps : ChangeSaves(s, o)

StoreSpec == StoreInit /\ [][StoreNext]_storeVars

(* ------------------------------ properties ------------------------------ *)

\* Every event pushed waits in the file or was taken by dci_check_events exactly
\* once, but for the very events of which an outdated copy was written, whatever
\* other pushes and pops overlapped; what was taken is told, unless its session
\* died on the way; and a phase is reported stuck at most once in the life of a
\* server, however many heartbeats find it overdue.
EventsOnceUnlessRaced ==
    /\ \A e \in Events \ raced : taken[e] + events[e] = pushed[e]
    /\ \A e \in Events : taken[e] > 0 =>
          e \in told \cup unheard \/ \E s \in Sessions : doing[s] = "returning" /\ evCopy[s][e] > 0
    /\ \A p \in StuckPhases : pushed[p] <= 1 + storeTroubles

\* Who is told of a success can rely on the goal's counter, by which it decides
\* whether to dispatch again: the run has been counted before, unless its
\* record raised, there was no goal, or another writer undid it.
ToldIsCounted ==
    LET toldOf == (good \ uncounted) \cap told IN
    Cardinality(toldOf) <= (IF goal = NoGoal THEN 0 ELSE goal.completed)

=============================================================================
