----------------------------- MODULE PhaseTimings -----------------------------
(***************************************************************************)
(* How the duration of a workflow's phases is learned                      *)
(* (tools/workflow_poller.py) and used (agents/local/phase_expectations.py *)
(* and the poller itself).  A process apart asks the relay for its list of *)
(* active and completed workflows, follows the phase each target is in,    *)
(* and averages the durations in phase_timings.json when the target's      *)
(* workflow is listed as completed.  The relay keeps a completion in its   *)
(* list for a while, also after the next workflow of the target began.     *)
(*                                                                         *)
(* One target.  Time is counted in units of MaxSpan at most; the phase a   *)
(* workflow shows is what detect_phase makes of its last task, and may be  *)
(* any phase, or none, at any moment.  The list is read at one moment: the *)
(* relay reads its two halves one after the other, and may answer with a   *)
(* list a little older, which shows the poller the same in the same order. *)
(***************************************************************************)
EXTENDS Naturals

CONSTANTS
    Phases,          \* 1..5
    NotRecorded,     \* no duration, no average, no tracker
    MinPoints,       \* min_data_points
    MaxSpan,         \* bound: the longest time told apart
    MaxRuns,         \* bound: workflows of the target
    MaxCrashes,      \* bound: deaths of the poller
    MaxCount         \* bound: finalizations written

Idle == 99
Spans == 0..MaxSpan
Trackers == [phase : Phases, age : Spans, durations : [Phases -> Spans \cup {NotRecorded}]]

ASSUME TimingsAssumption ==
    /\ Phases \subseteq Nat \ {0, Idle}
    /\ NotRecorded \notin Nat \cup Trackers
    /\ {MinPoints, MaxSpan, MaxRuns, MaxCrashes, MaxCount} \subseteq Nat

VARIABLES
    shows,           \* phase of the active workflow, 0 if none detected, or Idle
    ended,           \* workflows that ended
    closing,         \* the last has left the active, and is not listed yet
    listed,          \* a completion of the target is listed
    polling,         \* where the poller is
    tracker,         \* _phase_tracker
    savedTracker,    \* phase_tracker_state.json
    timings,         \* phase_timings.json
    crashes,
    spans,           \* history: the durations written, per phase
    late,            \* history: phases first written after another run
    relisted         \* history: a workflow was finalized while active

relayList == <<shows, ended, closing, listed>>
timingsVars == <<relayList, polling, tracker, savedTracker, timings, crashes,
                 spans, late, relisted>>

TimingsTypeOK ==
    /\ shows \in Phases \cup {0, Idle}
    /\ ended \in 0..MaxRuns
    /\ closing \in BOOLEAN /\ listed \in BOOLEAN /\ relisted \in BOOLEAN
    /\ polling \in {"sleeping", "sawRun", "sawNone", "gone"}
    /\ {tracker, savedTracker} \subseteq Trackers \cup {NotRecorded}
    /\ timings \in [count : 0..MaxCount, average : [Phases -> Spans \cup {NotRecorded}]]
    /\ crashes \in 0..MaxCrashes
    /\ spans \in [Phases -> SUBSET Spans]
    /\ late \subseteq Phases

Nothing == [p \in Phases |-> NotRecorded]

TimingsInit ==
    /\ shows = Idle /\ ended = 0 /\ closing = FALSE /\ listed = FALSE
    /\ polling = "sleeping"
    /\ tracker = NotRecorded /\ savedTracker = NotRecorded
    /\ timings = [count |-> 0, average |-> Nothing]
    /\ crashes = 0
    /\ spans = [p \in Phases |-> {}]
    /\ late = {}
    /\ relisted = FALSE

pollerVars == <<polling, tracker, savedTracker, timings, crashes, spans, late, relisted>>

(* --------------------- the relay's list, and time ----------------------- *)

WorkflowBegins ==
    /\ shows = Idle /\ ~closing
    /\ ended < MaxRuns
    /\ shows' = 0
    /\ UNCHANGED <<ended, closing, listed, pollerVars>>

WorkflowShows(p) ==
    /\ shows \notin {Idle, p}
    /\ shows' = p
    /\ UNCHANGED <<ended, closing, listed, pollerVars>>

\* The handler pops the workflow from the active, and records it as completed
\* a moment later, over the completion of the run before.
WorkflowEnds ==
    /\ shows # Idle
    /\ shows' = Idle
    /\ ended' = ended + 1
    /\ closing' = TRUE
    /\ UNCHANGED <<listed, pollerVars>>

CompletionListed ==
    /\ closing
    /\ closing' = FALSE
    /\ listed' = TRUE
    /\ UNCHANGED <<shows, ended, pollerVars>>

CompletionExpires ==
    /\ listed
    /\ listed' = FALSE
    /\ UNCHANGED <<shows, ended, closing, pollerVars>>

Older(t) == IF t = NotRecorded \/ t.age = MaxSpan THEN t ELSE [t EXCEPT !.age = @ + 1]

\* The start of a phase is a time of day: it ages on disk as in memory.
TimePasses ==
    /\ tracker' = Older(tracker)
    /\ savedTracker' = Older(savedTracker)
    /\ UNCHANGED <<relayList, polling, timings, crashes, spans, late, relisted>>

(* ------------------------------ the poller ------------------------------ *)

\* _track_phase: a new phase closes the one before.
Tracked(t, p) ==
    CASE p = 0 -> t
      [] p # 0 /\ t = NotRecorded -> [phase |-> p, age |-> 0, durations |-> Nothing]
      [] p # 0 /\ t # NotRecorded /\ t.phase = p -> t
      [] OTHER -> [phase |-> p, age |-> 0, durations |-> [t.durations EXCEPT ![t.phase] = t.age]]

\* round(a / b), halves to even.
Rounded(a, b) ==
    LET q == a \div b
        r == a % b
    IN IF 2 * r < b \/ (2 * r = b /\ q % 2 = 0) THEN q ELSE q + 1

\* Mutant: the new duration is not counted in the weight.
Averaged_OldWeight(old, n, duration) ==
    IF n = 0 THEN duration
    ELSE Rounded((IF old = NotRecorded THEN 0 ELSE old) * n + duration, n)

\* The running average over n runs takes in one more; a phase without an
\* average counts as one of 0 in each of the n.
Averaged(old, n, duration) ==
    Rounded((IF old = NotRecorded THEN 0 ELSE old) * n + duration, n + 1)

\* _finalize_workflow, with the tracker it has popped.
Finalizes(t) ==
    LET durations == [t.durations EXCEPT ![t.phase] = t.age]
        new == {p \in Phases : durations[p] # NotRecorded}
    IN /\ timings.count < MaxCount
       /\ timings' = [count |-> timings.count + 1,
                      average |-> [p \in Phases |->
                          IF p \in new THEN Averaged(timings.average[p], timings.count, durations[p])
                          ELSE timings.average[p]]]
       /\ spans' = [p \in Phases |-> IF p \in new THEN spans[p] \cup {durations[p]} ELSE spans[p]]
       /\ late' = late \cup {p \in new : timings.count > 0 /\ timings.average[p] = NotRecorded}
       /\ relisted' = (relisted \/ shows # Idle)

After == IF shows = Idle THEN tracker ELSE Tracked(tracker, shows)
Finalizing == listed /\ After # NotRecorded

\* Mutant: the tracker is read, and stays.
Polls_KeepsTracker ==
    /\ polling = "sleeping"
    /\ tracker' = After
    /\ \/ Finalizing /\ Finalizes(After)
       \/ UNCHANGED <<timings, spans, late, relisted>>
    /\ polling' = IF shows = Idle THEN "sawNone" ELSE "sawRun"
    /\ UNCHANGED <<relayList, savedTracker, crashes>>

\* poll_once up to the save of the tracker: it follows the active workflow and
\* finalizes the completed one. phase_timings.json may refuse the write, and
\* the tracker is popped all the same.
Polls ==
    /\ polling = "sleeping"
    /\ tracker' = IF Finalizing THEN NotRecorded ELSE After
    /\ \/ Finalizing /\ Finalizes(After)
       \/ UNCHANGED <<timings, spans, late, relisted>>
    /\ polling' = IF shows = Idle THEN "sawNone" ELSE "sawRun"
    /\ UNCHANGED <<relayList, savedTracker, crashes>>

\* The tracker goes to disk (a write that fails is left out).
PollSaves ==
    /\ polling \in {"sawRun", "sawNone"}
    /\ savedTracker' = tracker
    /\ polling' = "sleeping"
    /\ UNCHANGED <<relayList, tracker, timings, crashes, spans, late, relisted>>

\* The third poll in a row without a workflow is the last; consecutive_empty is
\* left out, since nothing else changes in the two before, nor in a failed poll.
PollIsLast ==
    /\ polling = "sawNone"
    /\ savedTracker' = tracker
    /\ polling' = "gone"
    /\ tracker' = NotRecorded
    /\ UNCHANGED <<relayList, timings, crashes, spans, late, relisted>>

PollerDies ==
    /\ polling # "gone"
    /\ crashes < MaxCrashes
    /\ crashes' = crashes + 1
    /\ polling' = "gone"
    /\ tracker' = NotRecorded
    /\ UNCHANGED <<relayList, savedTracker, timings, spans, late, relisted>>

PollerStarts ==
    /\ polling = "gone"
    /\ polling' = "sleeping"
    /\ tracker' = savedTracker
    /\ UNCHANGED <<relayList, savedTracker, timings, crashes, spans, late, relisted>>

TimingsNext ==
    \/ WorkflowBegins
    \/ \E p \in Phases \cup {0} : WorkflowShows(p)
    \/ WorkflowEnds
    \/ CompletionListed
    \/ CompletionExpires
    \/ TimePasses
    \/ Polls
    \/ PollSaves
    \/ PollIsLast
    \/ PollerDies
    \/ PollerStarts

TimingsSpec == TimingsInit /\ [][TimingsNext]_timingsVars

(* ----------------------- what is made of the timings --------------------- *)

\* get_server_phase_timing: the average is used, repeated run_count times, when
\* there are enough of it and it is not 0; otherwise the static expectation.
LearnedByServer(p) ==
    /\ timings.average[p] # NotRecorded
    /\ timings.average[p] > 0
    /\ timings.count >= MinPoints

\* _get_phase_timing of the poller.
LearnedByPoller(p) ==
    /\ timings.count >= MinPoints
    /\ timings.average[p] # NotRecorded

(* ------------------------------ properties ------------------------------ *)

\* A learned duration stands in for the static expectation only after as many
\* workflows as min_data_points asks for have ended; a poller that died between
\* the write of the timings and the save of its tracker may have counted one
\* twice. Not claimed of a target whose earlier completion was still listed
\* when its next workflow was polled: each such poll counts as a run.
LearnedNeedsRuns ==
    (\E p \in Phases : LearnedByServer(p) \/ LearnedByPoller(p))
        => ended + crashes >= MinPoints \/ relisted

\* The average of a phase lies between the shortest and the longest duration
\* ever taken into it, through any number of roundings, runs that skip the
\* phase and restarts; except for a phase that the first run did not show.
AveragesAreHonest ==
    \A p \in Phases \ late :
        timings.average[p] # NotRecorded =>
            /\ \E d \in spans[p] : d <= timings.average[p]
            /\ \E d \in spans[p] : d >= timings.average[p]

===============================================================================
