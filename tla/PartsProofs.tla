----------------------------- MODULE PartsProofs -----------------------------
(***************************************************************************)
(* Proofs about the parts that MCParts puts side by side: LocalStores      *)
(* (workflow_events.json and fleet_state.json), for any number of runs,    *)
(* sessions and troubles; PhaseTimings (phase_timings.json), for any       *)
(* phases, span of time, runs and deaths of the poller; Heartbeat, for any *)
(* number of failures; and that MCParts itself, whose behaviours are those *)
(* of one part at a time, keeps what is proved here and, of SshPool,       *)
(* UsageTracker and FixLoop, in the modules this one extends.              *)
(***************************************************************************)
EXTENDS MCParts, SshPoolProofs, UsageTrackerProofs, FixLoopProofs,
        Integers, FiniteSetTheorems, SequenceTheorems, TLAPS

(* ------------------ events and goals: the inductive invariant ------------- *)

StoreThreads == Sessions \cup {Poller}
AnyGoal == [completed : Nat, failed : Nat] \cup {NoGoal}
Fleets == [goal : AnyGoal, completions : Seq(Runs)]
Counts == [Events -> Nat]

\* Where the threads are, what the callback is about, and what they have loaded.
StepInv ==
    /\ doing \in [StoreThreads -> Steps]
    /\ doing[Poller] \in {"idle", "record", "recording", "push", "pushing"}
    /\ \A s \in Sessions : doing[s] \in {"idle", "popping", "returning", "changing"}
    /\ doing[Poller] = "idle" => about = NoEvent
    /\ doing[Poller] \in {"record", "recording"} => about \in Runs
    /\ doing[Poller] \in {"push", "pushing"} => about \in Events
    /\ evCopy \in [StoreThreads -> Counts \cup {NoEvent}]
    /\ fleetCopy \in [StoreThreads -> Fleets \cup {NoEvent}]
    /\ \A a \in StoreThreads : evCopy[a] # NoEvent <=> doing[a] \in {"pushing", "popping", "returning"}
    /\ \A a \in StoreThreads : fleetCopy[a] # NoEvent <=> doing[a] \in {"recording", "changing"}

\* The files and their histories.
FileInv ==
    /\ events \in Counts /\ taken \in Counts /\ pushed \in Counts
    /\ goal \in AnyGoal
    /\ completions \in Seq(Runs) /\ Len(completions) <= MaxCompletions

MemoryInv ==
    /\ seen \subseteq StuckPhases /\ alerted \subseteq seen
    /\ good \subseteq Runs /\ recorded \subseteq Runs /\ uncounted \subseteq Runs
    /\ told \subseteq Events /\ unheard \subseteq Events /\ raced \subseteq Events
    /\ deliveries \in 0..MaxDeliveries
    /\ fleetOps \in 0..MaxFleetOps
    /\ storeTroubles \in 0..MaxStoreTroubles

\* No goal, in the file or in a copy, counts more than the completions recorded.
Room == deliveries - (IF doing[Poller] \in {"record", "recording"} THEN 1 ELSE 0)
Fits(g) == g # NoGoal => g.completed <= Room /\ g.failed <= Room

GoalInv ==
    /\ Fits(goal)
    /\ \A a \in StoreThreads : fleetCopy[a] # NoEvent => Fits(fleetCopy[a].goal)
    /\ 0 <= Room

EventsInv == \A e \in Events \ raced : taken[e] + events[e] = pushed[e]

\* An event that was taken is told, lost with its session, or on its way.
InHand(e) == \E s \in Sessions : doing[s] = "returning" /\ evCopy[s][e] > 0
HandInv == \A e \in Events : taken[e] > 0 => e \in told \cup unheard \/ InHand(e)

\* The event of an alert is in the callback, or pushed, once in a server's life.
StuckInv ==
    \A p \in StuckPhases :
       pushed[p] + (IF about = p THEN 1 ELSE 0) <= storeTroubles + (IF p \in alerted THEN 1 ELSE 0)

\* The event of a run goes out after its record.
Known(r) == r \in recorded \cup uncounted

ToldInv ==
    /\ \A r \in Runs : events[r] > 0 \/ r \in told => Known(r)
    /\ \A a \in StoreThreads, r \in Runs : evCopy[a] # NoEvent /\ evCopy[a][r] > 0 => Known(r)
    /\ about \in Runs /\ doing[Poller] \in {"push", "pushing"} => Known(about)

Counted == {r \in good \ uncounted : r \in recorded}
GoalCount == IF goal = NoGoal THEN 0 ELSE goal.completed
CountedInv == Cardinality(Counted) <= GoalCount

StoreInv ==
    /\ StepInv /\ FileInv /\ MemoryInv /\ GoalInv
    /\ EventsInv /\ HandInv /\ StuckInv /\ ToldInv /\ CountedInv

(* -------------------------------- the types ------------------------------ *)

LEMMA Constants ==
    /\ Poller \notin Sessions /\ Poller \in StoreThreads /\ Sessions \subseteq StoreThreads
    /\ NoEvent \notin Counts /\ NoEvent \notin Fleets /\ NoEvent \notin Events
    /\ Runs \subseteq Events /\ StuckPhases \subseteq Events /\ Runs \cap StuckPhases = {}
    /\ MaxCompletions \in Nat /\ MaxDeliveries \in Nat /\ MaxFleetOps \in Nat
    /\ MaxStoreTroubles \in Nat /\ NoGoal \notin [completed : Nat, failed : Nat]
    /\ IsFiniteSet(Runs)
  BY StoreAssumption DEF StoreThreads, Counts, Fleets, AnyGoal, Events

LEMMA StepsKept ==
    ASSUME StepInv, FileInv, MemoryInv, StoreNext
    PROVE  StepInv'
<1> USE DEF Steps
<1>0. events \in Counts /\ Fleet \in Fleets
  BY DEF FileInv, Fleet, Fleets
<1>1. ASSUME NEW r \in Runs, CompletionArrives(r) PROVE StepInv'
  BY <1>1, Constants DEF CompletionArrives, Moves, StepInv, copies
<1>2. CASE RecordLoads
  BY <1>0, <1>2, Constants DEF RecordLoads, LoadsFleet, Moves, StepInv
<1>3. CASE RecordSaves
  BY <1>3, Constants DEF RecordSaves, SavesFleet, Unloads, Moves, StepInv
<1>4. CASE RecordRaises
  BY <1>4, Constants DEF RecordRaises, Unloads, Moves, StepInv
<1>5. ASSUME NEW p \in StuckPhases, PhaseSeen(p) PROVE StepInv'
  BY <1>5 DEF PhaseSeen, copies, StepInv
<1>6. ASSUME NEW p \in StuckPhases, PhaseOverdue(p) PROVE StepInv'
  BY <1>6, Constants DEF PhaseOverdue, Moves, StepInv, copies
<1>7. CASE PushLoads
  BY <1>0, <1>7, Constants DEF PushLoads, LoadsEvents, Moves, StepInv
<1>8. CASE PushSaves
  BY <1>8, Constants DEF PushSaves, SavesEvents, Unloads, Moves, StepInv
<1>9. CASE PushRaises
  BY <1>9, Constants DEF PushRaises, Unloads, Moves, StepInv
<1>14. ASSUME NEW dead \in SUBSET Sessions, ServerDies(dead) PROVE StepInv'
  BY <1>14, Constants DEF ServerDies, StepInv, StoreThreads
<1>15. ASSUME NEW s \in Sessions, PopReturns(s) \/ SessionRaises(s) PROVE StepInv'
  BY <1>15, Constants DEF PopReturns, SessionRaises, Unloads, Moves, StepInv
<1>10. ASSUME NEW s \in Sessions, PopLoads(s) PROVE StepInv'
  BY <1>0, <1>10, Constants DEF PopLoads, LoadsEvents, Moves, StepInv
<1>11. ASSUME NEW s \in Sessions, PopSaves(s) PROVE StepInv'
  BY <1>11, Constants DEF PopSaves, SavesEvents, Moves, StepInv, copies
<1>12. ASSUME NEW s \in Sessions, ChangeLoads(s) PROVE StepInv'
  BY <1>0, <1>12, Constants DEF ChangeLoads, LoadsFleet, Moves, StepInv
<1>13. ASSUME NEW s \in Sessions, NEW o \in FleetOps, ChangeSaves(s, o) PROVE StepInv'
  BY <1>13, Constants DEF ChangeSaves, SavesFleet, Unloads, Moves, StepInv
<1> QED BY <1>1, <1>2, <1>3, <1>4, <1>5, <1>6, <1>7, <1>8, <1>9, <1>10, <1>11, <1>12, <1>13,
           <1>14, <1>15 DEF StoreNext

\* What is kept of a history is a history, and no longer than asked for.
LEMMA LastOfIs ==
    ASSUME NEW s \in Seq(Runs), NEW n \in Nat
    PROVE  LastOf(s, n) \in Seq(Runs) /\ Len(LastOf(s, n)) <= n
<1>1. CASE Len(s) > n
  <2>1. /\ Len(s) - n + 1 \in 1..(Len(s) + 1) /\ Len(s) \in 0..Len(s)
        /\ Len(s) - n + 1 \in Int /\ Len(s) \in Nat
    BY <1>1
  <2>2. SubSeq(s, Len(s) - n + 1, Len(s)) \in Seq(Runs)
        /\ Len(SubSeq(s, Len(s) - n + 1, Len(s))) = n
    BY <1>1, <2>1, SubSeqProperties
  <2> QED BY <1>1, <2>2 DEF LastOf
<1>2. CASE ~(Len(s) > n)
  BY <1>2 DEF LastOf
<1> QED BY <1>1, <1>2

LEMMA WithCompletionIs ==
    ASSUME NEW f \in Fleets, NEW r \in Runs
    PROVE  WithCompletion(f, r) \in Fleets
<1>1. Append(f.completions, r) \in Seq(Runs) /\ f.goal \in AnyGoal
  BY DEF Fleets
<1>2. f.goal # NoGoal => f.goal \in [completed : Nat, failed : Nat]
  BY <1>1 DEF AnyGoal
<1>3. WithCompletion(f, r).goal \in AnyGoal
  <2>1. CASE f.goal = NoGoal
    BY <2>1 DEF WithCompletion, AnyGoal
  <2>2. CASE f.goal # NoGoal
    BY <1>2, <2>2 DEF WithCompletion, AnyGoal
  <2> QED BY <2>1, <2>2
<1> QED BY <1>1, <1>3 DEF WithCompletion, Fleets

LEMMA WithChangeIs ==
    ASSUME NEW f \in Fleets, NEW o \in FleetOps
    PROVE  /\ WithChange(f, o) \in Fleets
           /\ WithChange(f, o).goal \in {f.goal, NoGoal, NewGoal}
           /\ o # "remove" => WithChange(f, o).goal = f.goal
                              \/ (WithChange(f, o).goal = NewGoal /\ f.goal = NoGoal)
  BY DEF WithChange, Fleets, AnyGoal, NewGoal, FleetOps

\* What is loaded when a thread saves.
LEMMA Copies ==
    ASSUME StepInv
    PROVE  /\ doing[Poller] = "recording" => fleetCopy[Poller] \in Fleets /\ about \in Runs
           /\ doing[Poller] = "pushing" => evCopy[Poller] \in Counts /\ about \in Events
           /\ \A s \in Sessions : doing[s] \in {"popping", "returning"} => evCopy[s] \in Counts
           /\ \A s \in Sessions : doing[s] = "changing" => fleetCopy[s] \in Fleets
  BY Constants DEF StepInv

\* The steps that leave both files, and the histories of events, as they are.
Quiet ==
    \/ \E r \in Runs : CompletionArrives(r)
    \/ RecordLoads \/ RecordRaises
    \/ \E p \in StuckPhases : PhaseSeen(p) \/ PhaseOverdue(p)
    \/ PushLoads \/ PushRaises \/ \E dead \in SUBSET Sessions : ServerDies(dead)
    \/ \E s \in Sessions : PopLoads(s) \/ PopReturns(s) \/ SessionRaises(s) \/ ChangeLoads(s)

LEMMA QuietIs ==
    ASSUME Quiet
    PROVE  UNCHANGED <<events, goal, completions, taken, pushed, recorded, raced, good>>
  BY DEF Quiet, CompletionArrives, RecordLoads, RecordRaises, PhaseSeen, PhaseOverdue, PushLoads,
         PushRaises, ServerDies, PopLoads, PopReturns, SessionRaises, ChangeLoads, LoadsEvents,
         LoadsFleet, files, storeHistory, eventHistory

LEMMA StoreSteps ==
    ASSUME StoreNext
    PROVE  \/ Quiet \/ RecordSaves \/ PushSaves
           \/ \E s \in Sessions : PopSaves(s) \/ \E o \in FleetOps : ChangeSaves(s, o)
  BY DEF StoreNext, Quiet

LEMMA FilesKept ==
    ASSUME StepInv, FileInv, StoreNext
    PROVE  FileInv'
<1>1. CASE Quiet
  BY <1>1, QuietIs DEF FileInv
<1>2. ASSUME NEW a, NEW new \in Fleets, NEW forgets, SavesFleet(a, new, forgets)
      PROVE  /\ goal' \in AnyGoal /\ completions' \in Seq(Runs) /\ Len(completions') <= MaxCompletions
             /\ events' = events
  <2>1. goal' = new.goal /\ completions' = LastOf(new.completions, MaxCompletions) /\ events' = events
    BY <1>2 DEF SavesFleet
  <2>2. new.goal \in AnyGoal /\ new.completions \in Seq(Runs)
    BY DEF Fleets
  <2> QED BY <2>1, <2>2, LastOfIs, Constants
<1>3. CASE RecordSaves
  <2>1. WithCompletion(fleetCopy[Poller], about) \in Fleets
    BY <1>3, Copies, WithCompletionIs DEF RecordSaves
  <2>2. /\ SavesFleet(Poller, WithCompletion(fleetCopy[Poller], about),
                      IF fleetCopy[Poller].goal = NoGoal THEN {about} ELSE {})
        /\ taken' = taken /\ pushed' = pushed
    BY <1>3 DEF RecordSaves, eventHistory
  <2> QED BY <1>2, <2>1, <2>2 DEF FileInv
<1>4. CASE PushSaves
  <2>1. evCopy[Poller] \in Counts /\ about \in Events
    BY <1>4, Copies DEF PushSaves
  <2>2. /\ events' = [evCopy[Poller] EXCEPT ![about] = @ + 1]
        /\ pushed' = [pushed EXCEPT ![about] = @ + 1]
        /\ UNCHANGED <<goal, completions, taken>>
    BY <1>4 DEF PushSaves, SavesEvents
  <2> QED BY <2>1, <2>2 DEF FileInv, Counts
<1>5. ASSUME NEW s \in Sessions, PopSaves(s) PROVE FileInv'
  <2>1. evCopy[s] \in Counts
    BY <1>5, Copies DEF PopSaves
  <2>2. /\ events' = [e \in Events |-> 0]
        /\ taken' = [e \in Events |-> taken[e] + evCopy[s][e]]
        /\ UNCHANGED <<goal, completions, pushed>>
    BY <1>5 DEF PopSaves, SavesEvents
  <2> QED BY <2>1, <2>2 DEF FileInv, Counts
<1>6. ASSUME NEW s \in Sessions, NEW o \in FleetOps, ChangeSaves(s, o) PROVE FileInv'
  <2>1. WithChange(fleetCopy[s], o) \in Fleets
    BY <1>6, Copies, WithChangeIs DEF ChangeSaves
  <2>2. /\ SavesFleet(s, WithChange(fleetCopy[s], o), IF o = "remove" THEN recorded ELSE {})
        /\ taken' = taken /\ pushed' = pushed
    BY <1>6 DEF ChangeSaves, eventHistory
  <2> QED BY <1>2, <2>1, <2>2 DEF FileInv
<1> QED BY <1>1, <1>3, <1>4, <1>5, <1>6, StoreSteps

LEMMA MemoryKept ==
    ASSUME StepInv, MemoryInv, StoreNext
    PROVE  MemoryInv'
<1>0. /\ doing[Poller] \in {"record", "recording"} => about \in Runs
      /\ deliveries \in Nat /\ deliveries <= MaxDeliveries
      /\ fleetOps \in Nat /\ fleetOps <= MaxFleetOps
      /\ storeTroubles \in Nat /\ storeTroubles <= MaxStoreTroubles
  BY Constants DEF StepInv, MemoryInv
<1>1. told' \subseteq Events /\ unheard' \subseteq Events /\ raced' \subseteq Events
  BY DEF MemoryInv, StoreNext, CompletionArrives, RecordLoads, RecordSaves, RecordRaises,
         PhaseSeen, PhaseOverdue, PushLoads, PushSaves, PushRaises, ServerDies, PopLoads,
         PopSaves, PopReturns, SessionRaises, ChangeLoads, ChangeSaves, SavesEvents,
         storeHistory, eventHistory
<1>2. good' \subseteq Runs /\ recorded' \subseteq Runs /\ uncounted' \subseteq Runs
  BY <1>0 DEF MemoryInv, StoreNext, CompletionArrives, RecordLoads, RecordSaves, RecordRaises,
              PhaseSeen, PhaseOverdue, PushLoads, PushSaves, PushRaises, ServerDies, PopLoads,
              PopSaves, PopReturns, SessionRaises, ChangeLoads, ChangeSaves, SavesFleet, SavesEvents, LoadsEvents,
              LoadsFleet, storeHistory
<1>3. seen' \subseteq StuckPhases /\ alerted' \subseteq seen'
  BY DEF MemoryInv, StoreNext, CompletionArrives, RecordLoads, RecordSaves, RecordRaises,
         PhaseSeen, PhaseOverdue, PushLoads, PushSaves, PushRaises, ServerDies, PopLoads,
         PopSaves, PopReturns, SessionRaises, ChangeLoads, ChangeSaves, pollerMemory
<1>4. deliveries' \in 0..MaxDeliveries
  BY <1>0, Constants
  DEF StoreNext, CompletionArrives, RecordLoads, RecordSaves, RecordRaises,
         PhaseSeen, PhaseOverdue, PushLoads, PushSaves, PushRaises, ServerDies, PopLoads,
         PopSaves, PopReturns, SessionRaises, ChangeLoads, ChangeSaves, storeBounds
<1>5. fleetOps' \in 0..MaxFleetOps
  BY <1>0, Constants
  DEF StoreNext, CompletionArrives, RecordLoads, RecordSaves, RecordRaises,
         PhaseSeen, PhaseOverdue, PushLoads, PushSaves, PushRaises, ServerDies, PopLoads,
         PopSaves, PopReturns, SessionRaises, ChangeLoads, ChangeSaves, storeBounds
<1>6. storeTroubles' \in 0..MaxStoreTroubles
  BY <1>0, Constants
  DEF StoreNext, CompletionArrives, RecordLoads, RecordSaves, RecordRaises,
         PhaseSeen, PhaseOverdue, PushLoads, PushSaves, PushRaises, ServerDies, PopLoads,
         PopSaves, PopReturns, SessionRaises, ChangeLoads, ChangeSaves, storeBounds, StoreTrouble
<1> QED BY <1>1, <1>2, <1>3, <1>4, <1>5, <1>6 DEF MemoryInv

(* ------------------------------- the events ------------------------------ *)

\* Without an outdated copy every event is in the file or has been told.
LEMMA EventsKept ==
    ASSUME StepInv, FileInv, MemoryInv, EventsInv, StoreNext
    PROVE  EventsInv'
<1>1. CASE Quiet
  BY <1>1, QuietIs DEF EventsInv
<1>2. CASE RecordSaves
  <2>1. UNCHANGED <<events, taken, pushed, raced>>
    BY <1>2 DEF RecordSaves, SavesFleet, eventHistory
  <2> QED BY <2>1 DEF EventsInv
<1>3. CASE PushSaves
  <2> SUFFICES ASSUME NEW e \in Events, e \notin raced'
               PROVE  taken'[e] + events'[e] = pushed'[e]
    BY DEF EventsInv
  <2>1. /\ e \notin raced /\ evCopy[Poller][e] = events[e] /\ about \in Events /\ taken' = taken
        /\ evCopy[Poller] \in Counts
        /\ events' = [evCopy[Poller] EXCEPT ![about] = @ + 1]
        /\ pushed' = [pushed EXCEPT ![about] = @ + 1]
    BY <1>3, Copies DEF PushSaves, SavesEvents
  <2>2. events \in Counts /\ taken \in Counts /\ pushed \in Counts
        /\ taken[e] + events[e] = pushed[e]
    BY <2>1 DEF FileInv, EventsInv
  <2> QED BY <2>1, <2>2 DEF Counts
<1>4. ASSUME NEW s \in Sessions, PopSaves(s) PROVE EventsInv'
  <2> SUFFICES ASSUME NEW e \in Events, e \notin raced'
               PROVE  taken'[e] + events'[e] = pushed'[e]
    BY DEF EventsInv
  <2>1. /\ e \notin raced /\ evCopy[s][e] = events[e] /\ pushed' = pushed
        /\ events'[e] = 0 /\ taken'[e] = taken[e] + evCopy[s][e]
    BY <1>4 DEF PopSaves, SavesEvents
  <2>2. events \in Counts /\ taken \in Counts /\ pushed \in Counts
        /\ taken[e] + events[e] = pushed[e]
    BY <2>1 DEF FileInv, EventsInv
  <2> QED BY <2>1, <2>2 DEF Counts
<1>5. ASSUME NEW s \in Sessions, NEW o \in FleetOps, ChangeSaves(s, o) PROVE EventsInv'
  <2>1. UNCHANGED <<events, taken, pushed, raced>>
    BY <1>5 DEF ChangeSaves, SavesFleet, eventHistory
  <2> QED BY <2>1 DEF EventsInv
<1> QED BY <1>1, <1>2, <1>3, <1>4, <1>5, StoreSteps

\* What a session has taken stays in its hand until it is told or the session dies.
LEMMA HandKept ==
    ASSUME StepInv, FileInv, HandInv, StoreNext
    PROVE  HandInv'
<1>0. doing \in [StoreThreads -> Steps] /\ evCopy \in [StoreThreads -> Counts \cup {NoEvent}]
      /\ Sessions \subseteq StoreThreads /\ Poller \notin Sessions
  BY Constants DEF StepInv
<1>1. ASSUME taken' = taken, told \subseteq told', unheard \subseteq unheard',
             \A s \in Sessions : doing[s] = "returning" =>
                doing'[s] = "returning" /\ evCopy'[s] = evCopy[s]
      PROVE  HandInv'
  BY <1>1 DEF HandInv, InHand
<1>2. ASSUME NEW s \in Sessions, PopSaves(s) PROVE HandInv'
  <2>1. /\ doing' = [doing EXCEPT ![s] = "returning"] /\ doing[s] = "popping"
        /\ UNCHANGED <<evCopy, told, unheard>>
        /\ taken' = [e \in Events |-> taken[e] + evCopy[s][e]]
    BY <1>2 DEF PopSaves, Moves, copies
  <2>2. evCopy[s] \in Counts /\ taken \in Counts
    BY <2>1, Copies DEF FileInv
  <2>3. doing'[s] = "returning"
        /\ \A q \in Sessions : doing[q] = "returning" => doing'[q] = "returning"
    BY <1>0, <2>1
  <2> SUFFICES ASSUME NEW e \in Events, taken'[e] > 0
               PROVE  e \in told' \cup unheard' \/ InHand(e)'
    BY DEF HandInv
  <2>4. CASE evCopy[s][e] > 0
    BY <2>1, <2>3, <2>4 DEF InHand
  <2>5. CASE ~(evCopy[s][e] > 0)
    <3>1. taken[e] > 0
      BY <2>1, <2>2, <2>5 DEF Counts
    <3> QED BY <2>1, <2>3, <3>1 DEF HandInv, InHand
  <2> QED BY <2>4, <2>5
<1>3. ASSUME NEW s \in Sessions, PopReturns(s) PROVE HandInv'
  <2>1. /\ taken' = taken /\ unheard' = unheard
        /\ told' = told \cup {e \in Events : evCopy[s][e] > 0}
        /\ \A q \in Sessions \ {s} : doing'[q] = doing[q] /\ evCopy'[q] = evCopy[q]
    BY <1>0, <1>3 DEF PopReturns, Moves, Unloads
  <2> QED BY <2>1 DEF HandInv, InHand
<1>4. ASSUME NEW dead \in SUBSET Sessions, ServerDies(dead) PROVE HandInv'
  <2>1. /\ taken' = taken /\ told' = told
        /\ unheard' = unheard \cup {e \in Events :
                          \E s \in dead : doing[s] = "returning" /\ evCopy[s][e] > 0}
        /\ \A q \in Sessions \ dead : doing'[q] = doing[q] /\ evCopy'[q] = evCopy[q]
    BY <1>0, <1>4 DEF ServerDies
  <2> QED BY <2>1 DEF HandInv, InHand
<1>5. ASSUME NEW s \in Sessions,
             PopLoads(s) \/ SessionRaises(s) \/ ChangeLoads(s) \/ \E o \in FleetOps : ChangeSaves(s, o)
      PROVE  HandInv'
  <2>1. /\ UNCHANGED <<taken, told, unheard>> /\ doing[s] # "returning"
        /\ \A q \in Sessions \ {s} : doing'[q] = doing[q] /\ evCopy'[q] = evCopy[q]
    BY <1>0, <1>5 DEF PopLoads, SessionRaises, ChangeLoads, ChangeSaves, LoadsEvents, LoadsFleet,
                      SavesFleet, Unloads, Moves, storeHistory, eventHistory
  <2> QED BY <1>1, <2>1
<1>6. ASSUME \/ \E r \in Runs : CompletionArrives(r)
             \/ RecordLoads \/ RecordSaves \/ RecordRaises
             \/ \E p \in StuckPhases : PhaseSeen(p) \/ PhaseOverdue(p)
             \/ PushLoads \/ PushSaves \/ PushRaises
      PROVE  HandInv'
  <2>1. /\ UNCHANGED <<taken, told, unheard>>
        /\ \A q \in Sessions : doing'[q] = doing[q] /\ evCopy'[q] = evCopy[q]
    BY <1>0, <1>6 DEF CompletionArrives, RecordLoads, RecordSaves, RecordRaises, PhaseSeen,
       PhaseOverdue, PushLoads, PushSaves, PushRaises, LoadsEvents, LoadsFleet, SavesFleet,
       Unloads, Moves, copies, storeHistory, eventHistory
  <2> QED BY <1>1, <2>1
<1> QED BY <1>2, <1>3, <1>4, <1>5, <1>6 DEF StoreNext

\* A phase is alerted once in a server's life, and its event pushed at most once.
LEMMA StuckKept ==
    ASSUME StepInv, FileInv, MemoryInv, StuckInv, StoreNext
    PROVE  StuckInv'
<1>0. /\ storeTroubles \in Nat /\ pushed \in Counts /\ StuckPhases \subseteq Events
      /\ \A p \in StuckPhases : pushed[p] \in Nat
      /\ \A p \in StuckPhases : p \notin Runs /\ p # NoEvent
  BY Constants DEF MemoryInv, FileInv, Counts
<1>1. ASSUME UNCHANGED <<pushed, alerted>>, storeTroubles' \in {storeTroubles, storeTroubles + 1},
             about' = about \/ about' \notin StuckPhases
      PROVE  StuckInv'
  BY <1>0, <1>1 DEF StuckInv
<1>2. ASSUME NEW r \in Runs, CompletionArrives(r) PROVE StuckInv'
  BY <1>0, <1>1, <1>2 DEF CompletionArrives, pollerMemory, storeHistory, eventHistory
<1>3. CASE RecordLoads \/ RecordSaves \/ RecordRaises \/ PushLoads \/ PushRaises
  BY <1>0, <1>1, <1>3 DEF RecordLoads, RecordSaves, RecordRaises, PushLoads, PushRaises, StoreTrouble,
                          LoadsFleet, LoadsEvents, pollerMemory, storeHistory, eventHistory, storeBounds
<1>4. ASSUME NEW p \in StuckPhases, PhaseSeen(p) PROVE StuckInv'
  BY <1>1, <1>4 DEF PhaseSeen, storeHistory, eventHistory, storeBounds
<1>5. ASSUME NEW p \in StuckPhases, PhaseOverdue(p) PROVE StuckInv'
  <2>1. /\ about' = p /\ alerted' = alerted \cup {p} /\ p \notin alerted /\ about = NoEvent
        /\ pushed' = pushed /\ storeTroubles' = storeTroubles
    BY <1>5 DEF PhaseOverdue, storeHistory, eventHistory, storeBounds, StepInv
  <2>2. ASSUME NEW q \in StuckPhases
        PROVE  pushed'[q] + (IF about' = q THEN 1 ELSE 0)
                 <= storeTroubles' + (IF q \in alerted' THEN 1 ELSE 0)
    <3>1. pushed[q] + 0 <= storeTroubles + (IF q \in alerted THEN 1 ELSE 0)
      BY <1>0, <2>1 DEF StuckInv
    <3>2. CASE q = p
      BY <1>0, <2>1, <3>1, <3>2
    <3>3. CASE q # p
      BY <1>0, <2>1, <3>1, <3>3
    <3> QED BY <3>2, <3>3
  <2> QED BY <2>2 DEF StuckInv
<1>6. CASE PushSaves
  <2>1. /\ about \in Events /\ about' = NoEvent /\ pushed' = [pushed EXCEPT ![about] = @ + 1]
        /\ alerted' = alerted /\ storeTroubles' = storeTroubles
    BY <1>6, Copies DEF PushSaves, pollerMemory, storeBounds
  <2>2. ASSUME NEW q \in StuckPhases
        PROVE  pushed'[q] + (IF about' = q THEN 1 ELSE 0)
                 <= storeTroubles' + (IF q \in alerted' THEN 1 ELSE 0)
    <3>1. pushed[q] + (IF about = q THEN 1 ELSE 0)
            <= storeTroubles + (IF q \in alerted THEN 1 ELSE 0)
      BY DEF StuckInv
    <3>2. pushed'[q] = pushed[q] + (IF about = q THEN 1 ELSE 0) /\ about' # q
      BY <1>0, <2>1 DEF Counts
    <3> QED BY <1>0, <2>1, <3>1, <3>2
  <2> QED BY <2>2 DEF StuckInv
<1>7. ASSUME NEW dead \in SUBSET Sessions, ServerDies(dead) PROVE StuckInv'
  <2>1. /\ about' = NoEvent /\ pushed' = pushed /\ alerted' = {}
        /\ storeTroubles' = storeTroubles + 1
    BY <1>7 DEF ServerDies, StoreTrouble
  <2>2. ASSUME NEW q \in StuckPhases
        PROVE  pushed'[q] + (IF about' = q THEN 1 ELSE 0)
                 <= storeTroubles' + (IF q \in alerted' THEN 1 ELSE 0)
    <3>1. pushed[q] + (IF about = q THEN 1 ELSE 0)
            <= storeTroubles + (IF q \in alerted THEN 1 ELSE 0)
      BY DEF StuckInv
    <3> QED BY <1>0, <2>1, <3>1
  <2> QED BY <2>2 DEF StuckInv
<1>8. ASSUME NEW s \in Sessions,
             PopLoads(s) \/ PopSaves(s) \/ PopReturns(s) \/ SessionRaises(s) \/ ChangeLoads(s)
                \/ \E o \in FleetOps : ChangeSaves(s, o)
      PROVE  StuckInv'
  BY <1>1, <1>8 DEF PopLoads, PopSaves, PopReturns, SessionRaises, ChangeLoads, ChangeSaves, LoadsEvents, LoadsFleet,
                    pollerMemory, storeHistory, eventHistory, storeBounds, StoreTrouble
<1> QED BY <1>2, <1>3, <1>4, <1>5, <1>6, <1>7, <1>8 DEF StoreNext

(* ------------------------------- the goals ------------------------------- *)

\* Every completion is counted once at most, in whatever copy.
LEMMA RoomKept ==
    ASSUME StepInv, MemoryInv, StoreNext
    PROVE  /\ Room \in Int /\ Room' \in Int /\ Room <= Room'
           /\ RecordSaves => Room' = Room + 1
<1>0. deliveries \in Nat /\ doing \in [StoreThreads -> Steps]
      /\ Poller \in StoreThreads /\ \A s \in Sessions : s \in StoreThreads /\ s # Poller
  BY Constants DEF MemoryInv, StepInv
<1>1. ASSUME NEW r \in Runs, CompletionArrives(r) PROVE Room' = Room
  BY <1>0, <1>1 DEF CompletionArrives, Moves, Room
<1>2. ASSUME RecordSaves \/ RecordRaises PROVE Room' = Room + 1
  <2>1. /\ doing[Poller] \in {"record", "recording"} /\ doing'[Poller] = "push"
        /\ deliveries' = deliveries
    BY <1>0, <1>2 DEF RecordSaves, RecordRaises, Moves, storeBounds
  <2> QED BY <1>0, <2>1 DEF Room
<1>3. ASSUME RecordLoads PROVE Room' = Room
  BY <1>0, <1>3 DEF RecordLoads, LoadsFleet, Moves, storeBounds, Room
<1>4. ASSUME NEW p \in StuckPhases, PhaseSeen(p) \/ PhaseOverdue(p) PROVE Room' = Room
  BY <1>0, <1>4 DEF PhaseSeen, PhaseOverdue, Moves, storeBounds, Room
<1>5. ASSUME PushLoads \/ PushSaves \/ PushRaises PROVE Room' = Room
  BY <1>0, <1>5 DEF PushLoads, LoadsEvents, PushSaves, PushRaises, Moves, storeBounds, Room
<1>6. ASSUME NEW dead \in SUBSET Sessions, ServerDies(dead) PROVE Room' \in {Room, Room + 1}
  <2>1. doing'[Poller] = "idle" /\ deliveries' = deliveries
    BY <1>0, <1>6 DEF ServerDies
  <2> QED BY <1>0, <2>1 DEF Room
<1>7. ASSUME NEW s \in Sessions,
             PopLoads(s) \/ PopSaves(s) \/ PopReturns(s) \/ SessionRaises(s) \/ ChangeLoads(s)
                \/ \E o \in FleetOps : ChangeSaves(s, o)
      PROVE  Room' = Room
  <2>1. doing'[Poller] = doing[Poller] /\ deliveries' = deliveries
    BY <1>0, <1>7 DEF PopLoads, PopSaves, PopReturns, SessionRaises, ChangeLoads, ChangeSaves, LoadsEvents, LoadsFleet,
                      Moves, storeBounds
  <2> QED BY <2>1 DEF Room
<1>8. Room \in Int
  BY <1>0 DEF Room
<1>9. Room' \in Int /\ Room <= Room'
  BY <1>1, <1>2, <1>3, <1>4, <1>5, <1>6, <1>7, <1>8 DEF StoreNext
<1> QED BY <1>2, <1>8, <1>9

\* A copy of the fleet state is loaded, dropped or left alone.
LEMMA FleetCopies ==
    ASSUME StepInv, StoreNext, NEW a \in StoreThreads
    PROVE  fleetCopy'[a] \in {fleetCopy[a], Fleet, NoEvent}
  BY Constants DEF StepInv, StoreThreads, StoreNext, CompletionArrives, RecordLoads, RecordSaves, RecordRaises,
     PhaseSeen, PhaseOverdue, PushLoads, PushSaves, PushRaises, ServerDies, PopLoads, PopSaves, PopReturns, SessionRaises,
     ChangeLoads, ChangeSaves, LoadsFleet, LoadsEvents, SavesFleet, SavesEvents, Unloads, copies

LEMMA GoalKept ==
    ASSUME StepInv, FileInv, MemoryInv, GoalInv, StoreNext
    PROVE  GoalInv'
<1>1. /\ Room \in Int /\ Room' \in Int /\ Room <= Room' /\ 0 <= Room
      /\ RecordSaves => Room' = Room + 1
  BY RoomKept DEF GoalInv
<1>2. ASSUME NEW g \in AnyGoal, Fits(g) PROVE Fits(g)'
  <2>1. CASE g = NoGoal
    BY <2>1 DEF Fits
  <2>2. CASE g # NoGoal
    BY <1>1, <1>2, <2>2 DEF Fits, AnyGoal
  <2> QED BY <2>1, <2>2
<1>4. ASSUME NEW a \in StoreThreads, fleetCopy'[a] # NoEvent
      PROVE  fleetCopy'[a].goal \in AnyGoal /\ Fits(fleetCopy'[a].goal)
  <2>1. CASE fleetCopy'[a] = fleetCopy[a]
    BY <1>4, <2>1 DEF GoalInv, StepInv, Fleets
  <2>2. CASE fleetCopy'[a] = Fleet
    BY <2>2 DEF GoalInv, Fleet, FileInv
  <2> QED BY <1>4, <2>1, <2>2, FleetCopies
<1>5. \A a \in StoreThreads : fleetCopy'[a] # NoEvent => Fits(fleetCopy[a].goal)'
  BY <1>1, <1>2, <1>4 DEF Fits, AnyGoal
<1>6. Fits(goal)'
  <2>1. CASE goal' = goal
    BY <1>2, <2>1 DEF GoalInv, FileInv, Fits
  <2>2. CASE RecordSaves
    <3> DEFINE f == fleetCopy[Poller]
    <3>1. f \in Fleets /\ f # NoEvent /\ goal' = WithCompletion(f, about).goal
      BY <2>2, Copies, Constants DEF RecordSaves, SavesFleet
    <3>2. Fits(f.goal) /\ f.goal \in AnyGoal
      BY <3>1, Constants DEF GoalInv, Fleets
    <3> HIDE DEF f
    <3>3. CASE f.goal = NoGoal
      BY <3>1, <3>3 DEF WithCompletion, Fits
    <3>4. CASE f.goal # NoGoal
      <4>1. f.goal \in [completed : Nat, failed : Nat]
        BY <3>2, <3>4 DEF AnyGoal
      <4>2. f.goal.completed <= Room /\ f.goal.failed <= Room
        BY <3>2, <3>4 DEF Fits
      <4>3. goal' \in {[f.goal EXCEPT !.completed = @ + 1], [f.goal EXCEPT !.failed = @ + 1]}
        BY <3>1, <3>4 DEF WithCompletion
      <4>4. /\ goal'.completed \in {f.goal.completed, f.goal.completed + 1}
            /\ goal'.failed \in {f.goal.failed, f.goal.failed + 1}
        BY <4>1, <4>3
      <4> QED BY <1>1, <2>2, <4>1, <4>2, <4>4 DEF Fits
    <3> QED BY <3>3, <3>4
  <2>3. ASSUME NEW s \in Sessions, NEW o \in FleetOps, ChangeSaves(s, o) PROVE Fits(goal)'
    <3> DEFINE f == fleetCopy[s]
    <3>1. f \in Fleets /\ f # NoEvent /\ goal' = WithChange(f, o).goal
      BY <2>3, Copies, Constants DEF ChangeSaves, SavesFleet
    <3>2. Fits(f.goal) /\ f.goal \in AnyGoal
      BY <3>1, Constants DEF GoalInv, Fleets
    <3> HIDE DEF f
    <3>3. goal' \in {f.goal, NoGoal, NewGoal}
      BY <3>1, WithChangeIs
    <3>4. CASE goal' = f.goal
      BY <1>2, <3>2, <3>4 DEF Fits
    <3>5. CASE goal' # f.goal
      BY <1>1, <3>3, <3>5 DEF Fits, NewGoal
    <3> QED BY <3>4, <3>5
  <2>4. CASE PushSaves
    BY <2>1, <2>4 DEF PushSaves, SavesEvents
  <2>5. ASSUME NEW s \in Sessions, PopSaves(s) PROVE goal' = goal
    BY <2>5 DEF PopSaves, PopReturns, SessionRaises, SavesEvents
  <2> QED BY <2>1, <2>2, <2>3, <2>4, <2>5, QuietIs, StoreSteps
<1> QED BY <1>1, <1>5, <1>6 DEF GoalInv

(* ---------------------------- told and counted --------------------------- *)

\* What is recorded, or known not to be counted, stays so.
LEMMA KnownStays ==
    ASSUME StoreNext
    PROVE  recorded \subseteq recorded' /\ uncounted \subseteq uncounted'
  BY DEF StoreNext, CompletionArrives, RecordLoads, RecordSaves, RecordRaises,
     PhaseSeen, PhaseOverdue, PushLoads, PushSaves, PushRaises, ServerDies, PopLoads, PopSaves, PopReturns, SessionRaises,
     ChangeLoads, ChangeSaves, SavesFleet, SavesEvents, storeHistory

LEMMA ToldKept ==
    ASSUME StepInv, FileInv, MemoryInv, ToldInv, StoreNext
    PROVE  ToldInv'
<1>0. \A r \in Runs : Known(r) => Known(r)'
  BY KnownStays DEF Known
<1>1. ASSUME NEW a \in StoreThreads, NEW r \in Runs, evCopy'[a] # NoEvent, evCopy'[a][r] > 0
      PROVE  Known(r)'
  <2>1. evCopy'[a] \in {evCopy[a], events, NoEvent}
    BY Constants DEF StepInv, StoreNext, CompletionArrives, RecordLoads, RecordSaves, RecordRaises,
       PhaseSeen, PhaseOverdue, PushLoads, PushSaves, PushRaises, ServerDies, PopLoads, PopSaves, PopReturns, SessionRaises,
       ChangeLoads, ChangeSaves, LoadsFleet, LoadsEvents, SavesFleet, SavesEvents, Unloads, copies,
       StoreThreads
  <2> QED BY <1>0, <1>1, <2>1 DEF ToldInv
<1>2. ASSUME about' \in Runs, doing'[Poller] \in {"push", "pushing"} PROVE Known(about)'
  <2>0. Poller \in StoreThreads /\ \A s \in Sessions : s \in StoreThreads /\ s # Poller
    BY Constants
  <2>1. ASSUME NEW s \in Sessions,
               PopLoads(s) \/ PopSaves(s) \/ PopReturns(s) \/ SessionRaises(s) \/ ChangeLoads(s)
                  \/ \E o \in FleetOps : ChangeSaves(s, o)
        PROVE  about' = about /\ doing'[Poller] = doing[Poller]
    BY <2>0, <2>1 DEF StepInv, PopLoads, PopSaves, PopReturns, SessionRaises, ChangeLoads, ChangeSaves, LoadsEvents,
                      LoadsFleet, Moves
  <2>2. CASE RecordSaves
    BY <2>2 DEF RecordSaves, Known
  <2>3. CASE RecordRaises
    BY <2>3 DEF RecordRaises, Known
  <2>4. ASSUME NEW p \in StuckPhases, PhaseSeen(p) \/ PhaseOverdue(p)
        PROVE  about' \notin Runs
    BY <1>2, <2>4, Constants DEF PhaseSeen, PhaseOverdue, StepInv
  <2>5. CASE PushLoads
    <3>1. about' = about /\ doing[Poller] = "push"
      BY <2>5 DEF PushLoads, LoadsEvents
    <3> QED BY <1>0, <1>2, <3>1 DEF ToldInv, Known
  <2>6. ASSUME NEW r \in Runs, CompletionArrives(r) PROVE FALSE
    BY <1>2, <2>0, <2>6 DEF CompletionArrives, Moves, StepInv
  <2>7. CASE RecordLoads \/ PushSaves \/ PushRaises \/ \E dead \in SUBSET Sessions : ServerDies(dead)
    BY <1>2, <2>0, <2>7 DEF RecordLoads, LoadsFleet, PushSaves, PushRaises, ServerDies, Moves, StepInv
  <2>8. CASE about' = about /\ doing'[Poller] = doing[Poller]
    BY <1>0, <1>2, <2>8 DEF ToldInv, Known
  <2> QED BY <1>2, <2>1, <2>2, <2>3, <2>4, <2>5, <2>6, <2>7, <2>8 DEF StoreNext
<1>3. ASSUME NEW r \in Runs, events'[r] > 0 PROVE Known(r)'
  <2>0. r \in Events /\ events \in Counts
    BY Constants DEF FileInv
  <2>1. CASE events' = events
    BY <1>0, <1>3, <2>1 DEF ToldInv
  <2>2. CASE PushSaves
    <3>1. /\ evCopy[Poller] \in Counts /\ evCopy[Poller] # NoEvent /\ about \in Events
          /\ events' = [evCopy[Poller] EXCEPT ![about] = @ + 1]
          /\ doing[Poller] = "pushing" /\ Poller \in StoreThreads
      BY <2>2, Copies, Constants DEF PushSaves, SavesEvents
    <3>2. CASE r = about
      BY <1>0, <3>1, <3>2 DEF ToldInv
    <3>3. CASE r # about
      <4>1. events'[r] = evCopy[Poller][r]
        BY <2>0, <3>1, <3>3 DEF Counts
      <4> QED BY <1>0, <1>3, <3>1, <4>1 DEF ToldInv
    <3> QED BY <3>2, <3>3
  <2>3. ASSUME NEW s \in Sessions, PopSaves(s) PROVE FALSE
    BY <1>3, <2>0, <2>3 DEF PopSaves, SavesEvents
  <2>4. CASE RecordSaves
    BY <2>1, <2>4 DEF RecordSaves, SavesFleet
  <2>5. ASSUME NEW s \in Sessions, NEW o \in FleetOps, ChangeSaves(s, o)
        PROVE  events' = events
    BY <2>5 DEF ChangeSaves, SavesFleet
  <2> QED BY <2>1, <2>2, <2>3, <2>4, <2>5, QuietIs, StoreSteps
<1>4. ASSUME NEW r \in Runs, r \in told' PROVE Known(r)'
  <2>1. CASE told' = told
    BY <1>0, <1>4, <2>1 DEF ToldInv
  <2>2. ASSUME NEW s \in Sessions, PopReturns(s) PROVE Known(r)'
    <3>1. told' = told \cup {e \in Events : evCopy[s][e] > 0} /\ doing[s] = "returning"
      BY <2>2 DEF PopReturns
    <3>2. evCopy[s] # NoEvent /\ s \in StoreThreads
      BY <3>1, Constants DEF StepInv
    <3> QED BY <1>0, <1>4, <3>1, <3>2 DEF ToldInv
  <2> QED BY <2>1, <2>2 DEF StoreNext, CompletionArrives, RecordLoads, RecordSaves, RecordRaises,
       PhaseSeen, PhaseOverdue, PushLoads, PushSaves, PushRaises, ServerDies, PopLoads, PopSaves,
       SessionRaises, ChangeLoads, ChangeSaves, storeHistory, eventHistory
<1> QED BY <1>1, <1>2, <1>3, <1>4 DEF ToldInv

LEMMA Few ==
    ASSUME NEW S \in SUBSET Runs
    PROVE  /\ IsFiniteSet(S) /\ Cardinality(S) \in Nat
           /\ \A T \in SUBSET S : Cardinality(T) <= Cardinality(S)
           /\ S = {} => Cardinality(S) = 0
           /\ \A r : S \subseteq {r} => Cardinality(S) <= 1
           /\ \A T \in SUBSET Runs : \A r :
                S \subseteq T \cup {r} => Cardinality(S) <= Cardinality(T) + 1
<1>1. \A T \in SUBSET Runs : IsFiniteSet(T) /\ Cardinality(T) \in Nat
  BY Constants, FS_Subset, FS_CardinalityType
<1>2. \A T \in SUBSET S : Cardinality(T) <= Cardinality(S)
  BY <1>1, FS_Subset
<1>3. S = {} => Cardinality(S) = 0
  BY FS_EmptySet
<1>4. ASSUME NEW r, S \subseteq {r} PROVE Cardinality(S) <= 1
  <2>1. IsFiniteSet({r}) /\ Cardinality({r}) = 1
    BY FS_Singleton
  <2> QED BY <1>4, <2>1, FS_Subset
<1>5. ASSUME NEW T \in SUBSET Runs, NEW r, S \subseteq T \cup {r}
      PROVE  Cardinality(S) <= Cardinality(T) + 1
  <2>1. IsFiniteSet(T \cup {r}) /\ Cardinality(T \cup {r}) <= Cardinality(T) + 1
    BY <1>1, FS_AddElement
  <2>2. Cardinality(S) <= Cardinality(T \cup {r}) /\ Cardinality(T \cup {r}) \in Nat
    BY <1>5, <2>1, FS_Subset, FS_CardinalityType
  <2> QED BY <1>1, <2>1, <2>2
<1> QED BY <1>1, <1>2, <1>3, <1>4, <1>5

\* The goal's counter never falls behind the successes recorded, unless another
\* writer undid a record or there was no goal to count for.
LEMMA CountedKept ==
    ASSUME StepInv, FileInv, MemoryInv, CountedInv, StoreNext
    PROVE  CountedInv'
<1>0. /\ Counted \in SUBSET Runs /\ Counted' \in SUBSET Runs
      /\ Cardinality(Counted) \in Nat /\ Cardinality(Counted') \in Nat
      /\ GoalCount \in Nat /\ GoalCount' \in Nat
      /\ good' = good /\ recorded \subseteq recorded' /\ uncounted \subseteq uncounted'
  <2>1. MemoryInv' /\ FileInv'
    BY MemoryKept, FilesKept
  <2>2. Counted \in SUBSET Runs /\ Counted' \in SUBSET Runs
    BY <2>1 DEF MemoryInv, Counted
  <2>3. GoalCount \in Nat /\ GoalCount' \in Nat
    BY <2>1 DEF FileInv, AnyGoal, GoalCount
  <2>4. good' = good
    BY DEF StoreNext, CompletionArrives, RecordLoads, RecordSaves, RecordRaises,
       PhaseSeen, PhaseOverdue, PushLoads, PushSaves, PushRaises, ServerDies, PopLoads, PopSaves, PopReturns, SessionRaises,
       ChangeLoads, ChangeSaves
  <2> QED BY <2>2, <2>3, <2>4, Few, KnownStays
<1>1. ASSUME recorded' = recorded, goal' = goal PROVE CountedInv'
  <2>1. Counted' \subseteq Counted /\ GoalCount' = GoalCount
    BY <1>0, <1>1 DEF Counted, GoalCount
  <2>2. Cardinality(Counted') <= Cardinality(Counted)
    BY <1>0, <2>1, Few
  <2> QED BY <1>0, <2>1, <2>2 DEF CountedInv
<1>2. CASE RecordSaves
  <2> DEFINE f == fleetCopy[Poller]
  <2>1. /\ f \in Fleets /\ about \in Runs /\ goal' = WithCompletion(f, about).goal
        /\ recorded' = recorded \cup {about}
        /\ f.goal = NoGoal => about \in uncounted'
        /\ f # Fleet => recorded \subseteq uncounted'
    BY <1>2, Copies DEF RecordSaves, SavesFleet
  <2>2. f.goal \in AnyGoal /\ (f.goal # NoGoal => f.goal \in [completed : Nat, failed : Nat])
    BY <2>1 DEF Fleets, AnyGoal
  <2>3. f = Fleet => f.goal = goal
    BY DEF Fleet
  <2> HIDE DEF f
  <2>4. Counted' \subseteq Counted \cup {about} /\ (about \notin good => Counted' \subseteq Counted)
    BY <1>0, <2>1 DEF Counted
  <2>5. CASE f.goal = NoGoal
    <3>1. Counted' \subseteq Counted /\ (f # Fleet => Counted' = {})
      BY <1>0, <2>1, <2>5 DEF Counted
    <3>2. f = Fleet => Cardinality(Counted) = 0
      BY <1>0, <2>3, <2>5 DEF CountedInv, GoalCount
    <3>3. Cardinality(Counted') = 0
      BY <1>0, <3>1, <3>2, Few
    <3> QED BY <1>0, <3>3 DEF CountedInv
  <2>6. CASE f.goal # NoGoal
    <3>1. GoalCount' = f.goal.completed + (IF about \in good THEN 1 ELSE 0)
      <4>1. NoGoal \notin [completed : Nat, failed : Nat]
        BY Constants
      <4>2. CASE about \in good
        <5>1. goal' = [f.goal EXCEPT !.completed = @ + 1]
          BY <2>1, <2>6, <4>2 DEF WithCompletion
        <5>2. goal' \in [completed : Nat, failed : Nat] /\ goal'.completed = f.goal.completed + 1
          BY <2>2, <2>6, <5>1
        <5> QED BY <4>1, <4>2, <5>2 DEF GoalCount
      <4>3. CASE about \notin good
        <5>1. goal' = [f.goal EXCEPT !.failed = @ + 1]
          BY <2>1, <2>6, <4>3 DEF WithCompletion
        <5>2. goal' \in [completed : Nat, failed : Nat] /\ goal'.completed = f.goal.completed
          BY <2>2, <2>6, <5>1
        <5> QED BY <2>2, <2>6, <4>1, <4>3, <5>2 DEF GoalCount
      <4> QED BY <4>2, <4>3
    <3>2. CASE f = Fleet
      <4>1. GoalCount = f.goal.completed
        BY <2>3, <2>6, <3>2 DEF GoalCount
      <4>2. CASE about \in good
        <5>1. Cardinality(Counted') <= Cardinality(Counted) + 1
          BY <1>0, <2>4, Few
        <5> QED BY <1>0, <3>1, <4>1, <4>2, <5>1 DEF CountedInv
      <4>3. CASE about \notin good
        <5>1. Cardinality(Counted') <= Cardinality(Counted)
          BY <1>0, <2>4, <4>3, Few
        <5> QED BY <1>0, <3>1, <4>1, <4>3, <5>1 DEF CountedInv
      <4> QED BY <4>2, <4>3
    <3>3. CASE f # Fleet
      <4>1. Counted' \subseteq {about} /\ (about \notin good => Counted' = {})
        BY <1>0, <2>1, <3>3 DEF Counted
      <4>2. CASE about \in good
        <5>1. Cardinality(Counted') <= 1 /\ GoalCount' >= 1
          BY <1>0, <2>2, <2>6, <3>1, <4>1, <4>2, Few
        <5> QED BY <1>0, <5>1 DEF CountedInv
      <4>3. CASE about \notin good
        <5>1. Cardinality(Counted') = 0
          BY <1>0, <4>1, <4>3, Few
        <5> QED BY <1>0, <5>1 DEF CountedInv
      <4> QED BY <4>2, <4>3
    <3> QED BY <3>2, <3>3
  <2> QED BY <2>5, <2>6
<1>3. ASSUME NEW s \in Sessions, NEW o \in FleetOps, ChangeSaves(s, o) PROVE CountedInv'
  <2> DEFINE f == fleetCopy[s]
  <2>1. /\ f \in Fleets /\ goal' = WithChange(f, o).goal /\ recorded' = recorded
        /\ o = "remove" \/ f # Fleet => recorded \subseteq uncounted'
    BY <1>3, Copies DEF ChangeSaves, SavesFleet
  <2>2. f = Fleet => f.goal = goal
    BY DEF Fleet
  <2> HIDE DEF f
  <2>3. CASE o = "remove" \/ f # Fleet
    <3>1. Counted' = {}
      BY <2>1, <2>3 DEF Counted
    <3>2. Cardinality(Counted') = 0
      BY <1>0, <3>1, Few
    <3> QED BY <1>0, <3>2 DEF CountedInv
  <2>4. CASE o # "remove" /\ f = Fleet
    <3>1. goal' = goal \/ (goal' = NewGoal /\ goal = NoGoal)
      BY <2>1, <2>2, <2>4, WithChangeIs
    <3>2. GoalCount <= GoalCount'
      BY <1>0, <3>1 DEF GoalCount
    <3>3. Cardinality(Counted') <= Cardinality(Counted)
      <4>1. Counted' \subseteq Counted
        BY <1>0, <2>1 DEF Counted
      <4> QED BY <1>0, <4>1, Few
    <3> QED BY <1>0, <3>2, <3>3 DEF CountedInv
  <2> QED BY <2>3, <2>4
<1>4. CASE PushSaves
  BY <1>1, <1>4 DEF PushSaves, SavesEvents
<1>5. ASSUME NEW s \in Sessions, PopSaves(s) PROVE CountedInv'
  BY <1>1, <1>5 DEF PopSaves, PopReturns, SessionRaises, SavesEvents
<1> QED BY <1>1, <1>2, <1>3, <1>4, <1>5, QuietIs, StoreSteps

(* -------------------------------- theorems ------------------------------- *)

LEMMA StoreInvariance == StoreSpec => []StoreInv
<1>1. StoreInit => StoreInv
  <2> SUFFICES ASSUME StoreInit PROVE StoreInv
    OBVIOUS
  <2>0. /\ deliveries = 0 /\ fleetOps = 0 /\ storeTroubles = 0 /\ recorded = {} /\ uncounted = {}
        /\ about = NoEvent /\ seen = {} /\ alerted = {} /\ goal \in {NoGoal, NewGoal}
        /\ completions = <<>> /\ good \in SUBSET Runs
    BY DEF StoreInit
  <2>1. StepInv
    BY Constants DEF StoreInit, StepInv, StoreThreads, Steps
  <2>2. FileInv
    <3>1. events \in Counts /\ taken \in Counts /\ pushed \in Counts
      BY DEF StoreInit, Counts
    <3>2. goal \in AnyGoal /\ completions \in Seq(Runs) /\ Len(completions) <= MaxCompletions
      BY <2>0, Constants DEF AnyGoal, NewGoal
    <3> QED BY <3>1, <3>2 DEF FileInv
  <2>3. MemoryInv
    <3>1. told = {} /\ unheard = {} /\ raced = {}
      BY DEF StoreInit
    <3> QED BY <2>0, <3>1, Constants DEF MemoryInv
  <2>4. GoalInv
    <3>1. Room = 0
      <4>1. doing[Poller] = "idle"
        BY DEF StoreInit
      <4>2. doing[Poller] \notin {"record", "recording"}
        BY <4>1
      <4>3. Room = 0 - 0
        BY <2>0, <4>2, Zenon DEF Room
      <4> QED BY <4>3
    <3>2. Fits(goal)
      BY <2>0, <3>1 DEF Fits, NewGoal
    <3>3. \A a \in StoreThreads : fleetCopy[a] = NoEvent
      BY DEF StoreInit, StoreThreads
    <3> QED BY <3>1, <3>2, <3>3 DEF GoalInv
  <2>5. EventsInv /\ HandInv
    BY DEF StoreInit, EventsInv, HandInv
  <2>6. StuckInv
    BY <2>0, Constants DEF StoreInit, StuckInv
  <2>7. ToldInv
    <3>1. ~(about \in Runs)
      BY <2>0, Constants
    <3>2. \A r \in Runs : events[r] = 0 /\ r \notin told
      BY Constants DEF StoreInit
    <3>3. \A a \in StoreThreads : evCopy[a] = NoEvent
      BY DEF StoreInit, StoreThreads
    <3> QED BY <3>1, <3>2, <3>3 DEF ToldInv
  <2>8. CountedInv
    <3>1. Counted = {} /\ GoalCount = 0
      BY <2>0 DEF Counted, GoalCount, NewGoal
    <3> QED BY <3>1, FS_EmptySet DEF CountedInv
  <2> QED BY <2>1, <2>2, <2>3, <2>4, <2>5, <2>6, <2>7, <2>8 DEF StoreInv
<1>2. StoreInv /\ [StoreNext]_storeVars => StoreInv'
  <2> SUFFICES ASSUME StoreInv, [StoreNext]_storeVars PROVE StoreInv'
    OBVIOUS
  <2>1. CASE StoreNext
    BY <2>1, StepsKept, FilesKept, MemoryKept, GoalKept, EventsKept, HandKept, StuckKept, ToldKept,
       CountedKept DEF StoreInv
  <2>2. CASE UNCHANGED storeVars
    <3>1. UNCHANGED <<events, goal, completions, doing, about, evCopy, fleetCopy, seen, alerted,
                      good, deliveries, fleetOps, storeTroubles, taken, pushed, told, unheard,
                      raced, recorded, uncounted>>
      BY <2>2 DEF storeVars, files, copies, pollerMemory, storeBounds, storeHistory,
                    eventHistory
    <3>2. StepInv' /\ FileInv' /\ MemoryInv'
      BY <3>1 DEF StoreInv, StepInv, FileInv, MemoryInv
    <3>3. GoalInv' /\ EventsInv' /\ HandInv' /\ StuckInv'
      BY <3>1 DEF StoreInv, GoalInv, Fits, Room, EventsInv, HandInv, InHand, StuckInv
    <3>4. ToldInv' /\ CountedInv'
      BY <3>1 DEF StoreInv, ToldInv, Known, CountedInv, Counted, GoalCount
    <3> QED BY <3>2, <3>3, <3>4 DEF StoreInv
  <2> QED BY <2>1, <2>2
<1> QED BY <1>1, <1>2, PTL DEF StoreSpec

\* The two files, the threads' copies and the memory of the callbacks keep their
\* types: no goal counts more runs than were delivered, and no history is
\* longer than _MAX_COMPLETIONS.
THEOREM StoreTypeCorrect == StoreSpec => []StoreTypeOK
<1>1. StoreInv => StoreTypeOK
  <2> SUFFICES ASSUME StoreInv PROVE StoreTypeOK
    OBVIOUS
  <2>1. goal \in Goals \cup {NoGoal}
    <3>1. goal # NoGoal => /\ goal \in [completed : Nat, failed : Nat]
                           /\ goal.completed <= Room /\ goal.failed <= Room
      BY DEF StoreInv, FileInv, AnyGoal, GoalInv, Fits
    <3>2. Room \in Int /\ Room <= MaxDeliveries
      BY Constants DEF StoreInv, MemoryInv, Room
    <3>3. ASSUME goal # NoGoal PROVE goal \in Goals
      <4>1. goal.completed \in 0..MaxDeliveries /\ goal.failed \in 0..MaxDeliveries
        BY <3>1, <3>2, <3>3, Constants
      <4> QED BY <3>1, <3>3, <4>1 DEF Goals
    <3> QED BY <3>3
  <2>2. about \in Events \cup {NoEvent}
    BY Constants DEF StoreInv, StepInv
  <2>3. \A a \in Sessions \cup {Poller} :
          /\ (evCopy[a] # NoEvent) = (doing[a] \in {"pushing", "popping", "returning"})
          /\ (fleetCopy[a] # NoEvent) = (doing[a] \in {"recording", "changing"})
    BY DEF StoreInv, StepInv, StoreThreads
  <2>4. {told, unheard, raced} \subseteq SUBSET Events
    BY DEF StoreInv, MemoryInv
  <2>5. {events, taken, pushed} \subseteq [Events -> Nat]
    BY DEF StoreInv, FileInv, Counts
  <2>6. completions \in Seq(Runs) /\ Len(completions) <= MaxCompletions
    BY DEF StoreInv, FileInv
  <2>7. doing \in [Sessions \cup {Poller} -> Steps]
    BY DEF StoreInv, StepInv, StoreThreads
  <2>8. /\ seen \subseteq StuckPhases /\ alerted \subseteq seen
        /\ {good, recorded, uncounted} \subseteq SUBSET Runs
        /\ deliveries \in 0..MaxDeliveries /\ fleetOps \in 0..MaxFleetOps
        /\ storeTroubles \in 0..MaxStoreTroubles
    BY DEF StoreInv, MemoryInv
  <2> QED BY <2>1, <2>2, <2>3, <2>4, <2>5, <2>6, <2>7, <2>8 DEF StoreTypeOK
<1> QED BY <1>1, StoreInvariance, PTL

\* Every event pushed waits or was taken once, but for those an outdated copy
\* overwrote; what was taken is told unless its session dies first; and a phase is
\* reported stuck at most once in a server's life.
THEOREM EventsOnce == StoreSpec => []EventsOnceUnlessRaced
<1>1. StoreInv => EventsOnceUnlessRaced
  <2> SUFFICES ASSUME StoreInv PROVE EventsOnceUnlessRaced
    OBVIOUS
  <2>1. ASSUME NEW p \in StuckPhases PROVE pushed[p] <= 1 + storeTroubles
    <3>1. pushed[p] + (IF about = p THEN 1 ELSE 0)
            <= storeTroubles + (IF p \in alerted THEN 1 ELSE 0)
      BY DEF StoreInv, StuckInv
    <3>2. pushed[p] \in Nat /\ storeTroubles \in Nat
      BY Constants DEF StoreInv, FileInv, Counts, MemoryInv
    <3> QED BY <3>1, <3>2
  <2> QED BY <2>1 DEF StoreInv, EventsInv, HandInv, InHand, EventsOnceUnlessRaced
<1> QED BY <1>1, StoreInvariance, PTL

\* A success an agent has been told of is counted by the goal, unless its record
\* raised, there was no goal, or another writer undid it.
THEOREM ToldWasCounted == StoreSpec => []ToldIsCounted
<1>1. StoreInv => ToldIsCounted
  <2> SUFFICES ASSUME StoreInv PROVE ToldIsCounted
    OBVIOUS
  <2> DEFINE toldOf == (good \ uncounted) \cap told
  <2>1. toldOf \subseteq Counted /\ Counted \in SUBSET Runs
    BY DEF StoreInv, ToldInv, Known, Counted, MemoryInv
  <2>2. Cardinality(toldOf) <= Cardinality(Counted)
    BY <2>1, Few
  <2>3. /\ Cardinality(toldOf) \in Nat /\ Cardinality(Counted) \in Nat /\ GoalCount \in Nat
        /\ Cardinality(Counted) <= GoalCount
    <3>1. toldOf \in SUBSET Runs
      BY <2>1
    <3>2. GoalCount \in Nat
      BY DEF StoreInv, FileInv, AnyGoal, GoalCount
    <3> QED BY <2>1, <3>1, <3>2, Few DEF StoreInv, CountedInv
  <2>4. Cardinality(toldOf) <= GoalCount
    BY <2>2, <2>3
  <2> QED BY <2>4 DEF ToldIsCounted, GoalCount
<1> QED BY <1>1, StoreInvariance, PTL

(* ------------------- the timings: the inductive invariant ----------------- *)

\* A run more is to come only below the bound.
RunInv == shows # Idle => ended < MaxRuns

\* What the poller will be following when it polls next.
Held == IF polling = "gone" THEN savedTracker # NotRecorded ELSE tracker # NotRecorded

\* A tracker that outlives its workflow stands for a run not counted yet.
CountInv ==
    /\ polling = "gone" => tracker = NotRecorded
    /\ polling = "sleeping" => (tracker # NotRecorded <=> savedTracker # NotRecorded)
    /\ relisted \/
         /\ timings.count <= ended + crashes
         /\ Held /\ shows = Idle => timings.count < ended + crashes

TimingsInv == TimingsTypeOK /\ RunInv /\ CountInv /\ AveragesAreHonest

(* ------------------------------- rounding -------------------------------- *)

LEMMA Bounds ==
    /\ MinPoints \in Nat /\ MaxSpan \in Nat /\ MaxRuns \in Nat /\ MaxCrashes \in Nat
    /\ MaxCount \in Nat /\ NotRecorded \notin Nat /\ NotRecorded \notin Spans
    /\ Idle \notin Phases /\ 0 \notin Phases /\ Idle # 0 /\ Phases \subseteq Nat
  BY TimingsAssumption DEF Idle, Spans

\* Multiplication keeps the order.
LEMMA Times ==
    ASSUME NEW x \in Nat, NEW y \in Nat, NEW b \in Nat, x <= y
    PROVE  x * b <= y * b /\ x * b \in Nat
<1>1. PICK d \in Nat : y = x + d
  <2>1. y - x \in Nat /\ y = x + (y - x)
    OBVIOUS
  <2> QED BY <2>1
<1>2. y * b = x * b + d * b /\ x * b \in Nat /\ d * b \in Nat
  BY <1>1
<1> QED BY <1>2

\* Rounding a quotient leaves no interval the quotient lies in.
LEMMA RoundedBetween ==
    ASSUME NEW a \in Nat, NEW b \in Nat \ {0}, NEW lo \in Nat, NEW hi \in Nat,
           lo * b <= a, a <= hi * b
    PROVE  Rounded(a, b) \in Nat /\ lo <= Rounded(a, b) /\ Rounded(a, b) <= hi
<1> DEFINE q == a \div b
<1> DEFINE r == a % b
<1>1. q \in Nat /\ r \in Nat /\ r < b /\ a = b * q + r
  OBVIOUS
<1> HIDE DEF q, r
<1>2. b * q = q * b /\ q * b \in Nat /\ (q + 1) * b = q * b + b
  BY <1>1
<1>3. lo <= q
  <2>1. CASE q + 1 <= lo
    <3>1. (q + 1) * b <= lo * b
      BY <1>1, <2>1, Times
    <3> QED BY <1>1, <1>2, <3>1
  <2> QED BY <1>1, <2>1
<1>4. q <= hi
  <2>1. CASE hi + 1 <= q
    <3>1. (hi + 1) * b <= q * b /\ (hi + 1) * b = hi * b + b /\ hi * b \in Nat
      BY <1>1, <2>1, Times
    <3> QED BY <1>1, <1>2, <3>1
  <2> QED BY <1>1, <2>1
<1>5. ASSUME 2 * r >= b PROVE q + 1 <= hi
  <2>1. r > 0
    BY <1>1, <1>5
  <2>2. CASE hi <= q
    <3>1. hi * b <= q * b /\ hi * b \in Nat
      BY <1>1, <2>2, Times
    <3> QED BY <1>1, <1>2, <2>1, <3>1
  <2> QED BY <1>1, <2>2
<1>6. Rounded(a, b) = q \/ (Rounded(a, b) = q + 1 /\ 2 * r >= b)
  BY <1>1 DEF Rounded, q, r
<1> QED BY <1>1, <1>3, <1>4, <1>5, <1>6

\* A running average stays between the bounds of what is averaged.
LEMMA AveragedBetween ==
    ASSUME NEW old \in Nat, NEW n \in Nat, NEW duration \in Nat, NEW lo \in Nat, NEW hi \in Nat,
           lo <= old, old <= hi, lo <= duration, duration <= hi
    PROVE  /\ Rounded(old * n + duration, n + 1) \in Nat
           /\ lo <= Rounded(old * n + duration, n + 1)
           /\ Rounded(old * n + duration, n + 1) <= hi
<1>1. /\ lo * n <= old * n /\ old * n <= hi * n
      /\ lo * n \in Nat /\ old * n \in Nat /\ hi * n \in Nat
  BY Times
<1>2. lo * (n + 1) = lo * n + lo /\ hi * (n + 1) = hi * n + hi
  OBVIOUS
<1>3. /\ lo * (n + 1) <= old * n + duration /\ old * n + duration <= hi * (n + 1)
      /\ old * n + duration \in Nat /\ n + 1 \in Nat \ {0}
  BY <1>1, <1>2
<1> QED BY <1>3, RoundedBetween

\* The average of the first run is its duration.
LEMMA AveragedFirst ==
    ASSUME NEW duration \in Nat
    PROVE  Averaged(NotRecorded, 0, duration) = duration
<1>1. Rounded(0 * 0 + duration, 0 + 1) = duration
  <2>1. 0 * 0 + duration = duration /\ 0 + 1 = 1
    OBVIOUS
  <2>2. Rounded(duration, 1) = duration
    BY RoundedBetween, duration * 1 = duration
  <2> QED BY <2>1, <2>2
<1> QED BY <1>1 DEF Averaged

(* -------------------------------- the types ------------------------------ *)

\* A tracker stays one as it ages and as a phase closes the one before.
LEMMA TrackerKept ==
    ASSUME NEW t \in Trackers \cup {NotRecorded}
    PROVE  /\ Older(t) \in Trackers \cup {NotRecorded}
           /\ Older(t) = NotRecorded <=> t = NotRecorded
           /\ \A p \in Phases \cup {0} : /\ Tracked(t, p) \in Trackers \cup {NotRecorded}
                                         /\ t # NotRecorded => Tracked(t, p) # NotRecorded
<1>0. NotRecorded \notin Trackers
  BY TimingsAssumption
<1>1. CASE t = NotRecorded
  <2>1. Older(t) = NotRecorded
    BY <1>1 DEF Older
  <2>2. \A p \in Phases \cup {0} : Tracked(t, p) \in Trackers \cup {NotRecorded}
    BY <1>1, Bounds DEF Tracked, Trackers, Nothing, Spans
  <2> QED BY <1>1, <2>1, <2>2
<1>2. CASE t \in Trackers
  <2>1. Older(t) \in Trackers
    BY <1>0, <1>2, Bounds DEF Older, Trackers, Spans
  <2>2. ASSUME NEW p \in Phases \cup {0} PROVE Tracked(t, p) \in Trackers
    <3>1. CASE p = 0
      BY <1>2, <3>1 DEF Tracked
    <3>2. CASE p # 0 /\ t.phase = p
      BY <1>0, <1>2, <3>2 DEF Tracked
    <3>3. CASE p # 0 /\ t.phase # p
      <4>1. Tracked(t, p) = [phase |-> p, age |-> 0,
                             durations |-> [t.durations EXCEPT ![t.phase] = t.age]]
        BY <1>0, <1>2, <3>3 DEF Tracked
      <4> QED BY <1>2, <3>3, <4>1, Bounds DEF Trackers, Spans
    <3> QED BY <3>1, <3>2, <3>3
  <2> QED BY <1>0, <1>2, <2>1, <2>2
<1> QED BY <1>1, <1>2

\* What a finalization writes.
Durations(t) == [t.durations EXCEPT ![t.phase] = t.age]
New(t) == {p \in Phases : Durations(t)[p] # NotRecorded}

LEMMA FinalizesIs ==
    ASSUME NEW t \in Trackers, TimingsTypeOK, Finalizes(t)
    PROVE  /\ New(t) \subseteq Phases
           /\ \A p \in New(t) : Durations(t)[p] \in Spans
           /\ timings.count < MaxCount /\ timings'.count = timings.count + 1
           /\ timings' = [count |-> timings'.count, average |-> timings'.average]
           /\ timings'.average = [p \in Phases |-> timings'.average[p]]
           /\ \A p \in New(t) :
                /\ timings'.average[p]
                     = Averaged(timings.average[p], timings.count, Durations(t)[p])
                /\ spans'[p] = spans[p] \cup {Durations(t)[p]}
           /\ \A p \in Phases \ New(t) :
                timings'.average[p] = timings.average[p] /\ spans'[p] = spans[p]
           /\ spans' = [p \in Phases |-> spans'[p]]
           /\ late' = late \cup {p \in New(t) : timings.count > 0
                                                  /\ timings.average[p] = NotRecorded}
           /\ relisted' = (relisted \/ shows # Idle)
<1>1. Durations(t) \in [Phases -> Spans \cup {NotRecorded}]
  BY DEF Durations, Trackers
<1>2. \A p \in New(t) : Durations(t)[p] \in Spans
  BY <1>1 DEF New
<1> QED BY <1>2 DEF Finalizes, New, Durations

\* The new average is a span, and lies where the spans taken into it lie.
LEMMA AveragesKept ==
    ASSUME NEW t \in Trackers, TimingsTypeOK, AveragesAreHonest, Finalizes(t)
    PROVE  /\ timings'.average \in [Phases -> Spans \cup {NotRecorded}]
           /\ spans' \in [Phases -> SUBSET Spans]
           /\ AveragesAreHonest'
<1>0. /\ timings.count \in Nat /\ timings.average \in [Phases -> Spans \cup {NotRecorded}]
      /\ spans \in [Phases -> SUBSET Spans]
  BY Bounds DEF TimingsTypeOK
<1>1. ASSUME NEW p \in New(t)
      PROVE  /\ timings'.average[p] \in Spans
             /\ p \notin late' => /\ \E d \in spans'[p] : d <= timings'.average[p]
                                  /\ \E d \in spans'[p] : d >= timings'.average[p]
  <2> DEFINE duration == Durations(t)[p]
  <2> DEFINE old == timings.average[p]
  <2> DEFINE n == timings.count
  <2>1. p \in Phases /\ duration \in Spans /\ duration \in Nat /\ duration <= MaxSpan
    <3>1. p \in Phases /\ duration \in Spans
      BY FinalizesIs
    <3>2. \A d \in Spans : d \in Nat /\ d <= MaxSpan
      BY Bounds DEF Spans
    <3> QED BY <3>1, <3>2
  <2>2. timings'.average[p] = Averaged(old, n, duration) /\ spans'[p] = spans[p] \cup {duration}
    BY FinalizesIs
  <2>3. old \in Spans \cup {NotRecorded}
    BY <1>0, <2>1
  <2> HIDE DEF duration, old, n
  <2>4. n \in Nat
    BY <1>0 DEF n
  <2>5. CASE old = NotRecorded
    <3>1. timings'.average[p] \in Spans
      <4>1. Averaged(old, n, duration) = Rounded(0 * n + duration, n + 1)
        BY <2>5 DEF Averaged
      <4>2. /\ 0 \in Nat /\ MaxSpan \in Nat /\ 0 <= 0 /\ 0 <= MaxSpan /\ 0 <= duration
            /\ duration \in Nat /\ duration <= MaxSpan /\ n \in Nat
        BY <2>1, <2>4, Bounds
      <4>3. /\ Rounded(0 * n + duration, n + 1) \in Nat
            /\ Rounded(0 * n + duration, n + 1) <= MaxSpan
        BY <4>2, AveragedBetween
      <4> QED BY <2>2, <4>1, <4>3, Bounds DEF Spans
    <3>2. ASSUME p \notin late' PROVE timings'.average[p] = duration
      <4>1. ~(timings.count > 0 /\ timings.average[p] = NotRecorded)
        BY <3>2, FinalizesIs
      <4>2. ~(n > 0)
        BY <2>5, <4>1 DEF old, n
      <4>3. n = 0
        BY <2>4, <4>2
      <4> QED BY <2>1, <2>2, <2>5, <4>3, AveragedFirst
    <3> QED BY <2>1, <2>2, <3>1, <3>2
  <2>6. CASE old # NotRecorded
    <3>0. old \in Nat /\ old <= MaxSpan
      BY <2>3, <2>6, Bounds DEF Spans
    <3>1. timings'.average[p] = Rounded(old * n + duration, n + 1)
      BY <2>2, <2>6 DEF Averaged
    <3>2. timings'.average[p] \in Spans
      <4>1. /\ 0 \in Nat /\ MaxSpan \in Nat /\ 0 <= old /\ 0 <= duration
        BY <2>1, <3>0, Bounds
      <4>2. /\ Rounded(old * n + duration, n + 1) \in Nat
            /\ Rounded(old * n + duration, n + 1) <= MaxSpan
        BY <2>1, <2>4, <3>0, <4>1, AveragedBetween
      <4> QED BY <3>1, <4>2, Bounds DEF Spans
    <3>3. ASSUME p \notin late'
          PROVE  /\ \E d \in spans'[p] : d <= timings'.average[p]
                 /\ \E d \in spans'[p] : d >= timings'.average[p]
      <4>1. p \notin late
        BY <3>3, FinalizesIs
      <4>2. PICK lo, hi \in spans[p] : lo <= old /\ old <= hi
        BY <2>1, <2>6, <4>1 DEF AveragesAreHonest, old
      <4>3. lo \in Nat /\ hi \in Nat
        BY <1>0, <2>1, <4>2, Bounds DEF Spans
      <4>4. PICK least \in {lo, duration} : least <= lo /\ least <= duration
        BY <2>1, <4>3
      <4>5. PICK most \in {hi, duration} : hi <= most /\ duration <= most
        BY <2>1, <4>3
      <4>6. least \in Nat /\ most \in Nat /\ least <= old /\ old <= most
        BY <2>1, <3>0, <4>2, <4>3, <4>4, <4>5
      <4>7. least <= timings'.average[p] /\ timings'.average[p] <= most
        <5>1. /\ least <= Rounded(old * n + duration, n + 1)
              /\ Rounded(old * n + duration, n + 1) <= most
          BY <2>1, <2>4, <3>0, <4>4, <4>5, <4>6, AveragedBetween
        <5> QED BY <3>1, <5>1
      <4>8. least \in spans'[p] /\ most \in spans'[p]
        BY <2>2, <4>2, <4>4, <4>5
      <4> QED BY <4>6, <4>7, <4>8, <3>2, Bounds DEF Spans
    <3> QED BY <3>2, <3>3
  <2> QED BY <2>5, <2>6
<1>2. ASSUME NEW p \in Phases \ New(t)
      PROVE  /\ timings'.average[p] \in Spans \cup {NotRecorded} /\ spans'[p] = spans[p]
             /\ p \notin late' /\ timings'.average[p] # NotRecorded =>
                  /\ \E d \in spans'[p] : d <= timings'.average[p]
                  /\ \E d \in spans'[p] : d >= timings'.average[p]
  <2>1. timings'.average[p] = timings.average[p] /\ spans'[p] = spans[p] /\ late \subseteq late'
    BY FinalizesIs
  <2> QED BY <1>0, <2>1 DEF AveragesAreHonest
<1>3. timings'.average \in [Phases -> Spans \cup {NotRecorded}]
  BY <1>1, <1>2, FinalizesIs
<1>4. spans' \in [Phases -> SUBSET Spans]
  <2>1. \A p \in Phases : spans'[p] \in SUBSET Spans
    <3>1. ASSUME NEW p \in New(t) PROVE spans'[p] \in SUBSET Spans
      <4>1. /\ spans'[p] = spans[p] \cup {Durations(t)[p]}
            /\ Durations(t)[p] \in Spans /\ p \in Phases
        BY FinalizesIs
      <4>2. spans[p] \in SUBSET Spans
        BY <1>0, <4>1
      <4> QED BY <4>1, <4>2
    <3>2. ASSUME NEW p \in Phases \ New(t) PROVE spans'[p] \in SUBSET Spans
      BY <1>0, FinalizesIs
    <3> QED BY <3>1, <3>2
  <2> QED BY <2>1, FinalizesIs
<1>5. AveragesAreHonest'
  BY <1>1, <1>2 DEF AveragesAreHonest
<1> QED BY <1>3, <1>4, <1>5

(* ------------------------------- the steps ------------------------------- *)

\* A poll with a tracker follows the target, finalizes or does neither.
LEMMA PollIs ==
    ASSUME TimingsTypeOK, Polls
    PROVE  /\ polling = "sleeping" /\ polling' = (IF shows = Idle THEN "sawNone" ELSE "sawRun")
           /\ After \in Trackers \cup {NotRecorded}
           /\ shows = Idle => After = tracker
           /\ tracker' \in {After, NotRecorded}
           /\ \/ After \in Trackers /\ tracker' = NotRecorded /\ Finalizes(After)
              \/ UNCHANGED <<timings, spans, late, relisted>>
           /\ UNCHANGED <<shows, ended, closing, listed, savedTracker, crashes>>
<1>1. After \in Trackers \cup {NotRecorded}
  <2>1. tracker \in Trackers \cup {NotRecorded} /\ (shows # Idle => shows \in Phases \cup {0})
    BY DEF TimingsTypeOK
  <2> QED BY <2>1, TrackerKept DEF After
<1>2. shows = Idle => After = tracker
  BY DEF After
<1>3. Finalizing => After \in Trackers
  BY <1>1 DEF Finalizing
<1> QED BY <1>1, <1>2, <1>3 DEF Polls, relayList

LEMMA TypesKept ==
    ASSUME TimingsTypeOK, RunInv, AveragesAreHonest, TimingsNext
    PROVE  TimingsTypeOK' /\ RunInv'
<1>0. /\ shows \in Phases \cup {0, Idle} /\ ended \in Nat /\ ended <= MaxRuns
      /\ crashes \in Nat /\ crashes <= MaxCrashes
      /\ tracker \in Trackers \cup {NotRecorded} /\ savedTracker \in Trackers \cup {NotRecorded}
  BY Bounds DEF TimingsTypeOK
<1>1. CASE WorkflowBegins \/ WorkflowEnds \/ CompletionListed \/ CompletionExpires
           \/ \E p \in Phases \cup {0} : WorkflowShows(p)
  <2>1. UNCHANGED pollerVars
    BY <1>1 DEF WorkflowBegins, WorkflowEnds, CompletionListed, CompletionExpires, WorkflowShows
  <2>2. shows' \in Phases \cup {0, Idle} /\ closing' \in BOOLEAN /\ listed' \in BOOLEAN
    <3>1. shows' \in Phases \cup {0, Idle}
      BY <1>0, <1>1 DEF WorkflowBegins, WorkflowEnds, CompletionListed, CompletionExpires, WorkflowShows
    <3>2. closing' \in BOOLEAN
      BY <1>1 DEF WorkflowBegins, WorkflowEnds, CompletionListed, CompletionExpires, WorkflowShows,
                  TimingsTypeOK
    <3>3. listed' \in BOOLEAN
      BY <1>1 DEF WorkflowBegins, WorkflowEnds, CompletionListed, CompletionExpires, WorkflowShows,
                  TimingsTypeOK
    <3> QED BY <3>1, <3>2, <3>3
  <2>3. ended' \in 0..MaxRuns /\ RunInv'
    BY <1>0, <1>1, Bounds
    DEF WorkflowBegins, WorkflowEnds, CompletionListed, CompletionExpires, WorkflowShows, RunInv
  <2>4. /\ relisted' \in BOOLEAN /\ polling' = polling /\ tracker' = tracker
        /\ savedTracker' = savedTracker /\ timings' = timings /\ crashes' = crashes
        /\ spans' = spans /\ late' = late
    <3>1. relisted' \in BOOLEAN
      BY <2>1 DEF pollerVars, TimingsTypeOK
    <3> QED BY <2>1, <3>1 DEF pollerVars
  <2> QED BY <2>2, <2>3, <2>4 DEF TimingsTypeOK
<1>2. CASE TimePasses \/ PollSaves \/ PollIsLast \/ PollerDies \/ PollerStarts
  <2>1. /\ UNCHANGED relayList /\ timings' = timings /\ spans' = spans /\ late' = late
        /\ relisted' = relisted
    BY <1>2 DEF TimePasses, PollSaves, PollIsLast, PollerDies, PollerStarts
  <2>2. tracker' \in Trackers \cup {NotRecorded} /\ savedTracker' \in Trackers \cup {NotRecorded}
    BY <1>0, <1>2, TrackerKept DEF TimePasses, PollSaves, PollIsLast, PollerDies, PollerStarts
  <2>3. polling' \in {"sleeping", "sawRun", "sawNone", "gone"}
    BY <1>2 DEF TimePasses, PollSaves, PollIsLast, PollerDies, PollerStarts, TimingsTypeOK
  <2>4. crashes' \in 0..MaxCrashes
    BY <1>0, <1>2, Bounds DEF TimePasses, PollSaves, PollIsLast, PollerDies, PollerStarts
  <2>5. shows' = shows /\ ended' = ended /\ RunInv'
    BY <2>1 DEF relayList, RunInv
  <2>6. closing' \in BOOLEAN /\ listed' \in BOOLEAN
    BY <2>1 DEF relayList, TimingsTypeOK
  <2>7. relisted' \in BOOLEAN
    BY <2>1 DEF TimingsTypeOK
  <2> QED BY <2>1, <2>2, <2>3, <2>4, <2>5, <2>6, <2>7 DEF TimingsTypeOK
<1>3. CASE Polls
  <2>1. /\ UNCHANGED <<shows, ended, closing, listed, savedTracker, crashes>>
        /\ polling' \in {"sawNone", "sawRun"} /\ tracker' \in Trackers \cup {NotRecorded}
    BY <1>3, PollIs
  <2>2. /\ timings' \in [count : 0..MaxCount, average : [Phases -> Spans \cup {NotRecorded}]]
        /\ spans' \in [Phases -> SUBSET Spans] /\ late' \subseteq Phases
    <3>1. CASE UNCHANGED <<timings, spans, late, relisted>>
      BY <3>1 DEF TimingsTypeOK
    <3>2. CASE After \in Trackers /\ Finalizes(After)
      <4>1. /\ timings'.average \in [Phases -> Spans \cup {NotRecorded}]
            /\ spans' \in [Phases -> SUBSET Spans]
        BY <3>2, AveragesKept
      <4>2. /\ timings'.count = timings.count + 1 /\ timings.count < MaxCount
            /\ timings' = [count |-> timings'.count, average |-> timings'.average]
            /\ late' \subseteq late \cup New(After) /\ New(After) \subseteq Phases
        BY <3>2, FinalizesIs
      <4>3. timings.count \in Nat /\ late \subseteq Phases
        BY Bounds DEF TimingsTypeOK
      <4>4. timings'.count \in 0..MaxCount
        BY <4>2, <4>3, Bounds
      <4>5. timings' \in [count : 0..MaxCount, average : [Phases -> Spans \cup {NotRecorded}]]
        BY <4>1, <4>2, <4>4
      <4> QED BY <4>1, <4>2, <4>3, <4>5
    <3> QED BY <1>3, <3>1, <3>2, PollIs
  <2>3. relisted' \in BOOLEAN
    <3>1. CASE UNCHANGED <<timings, spans, late, relisted>>
      BY <3>1 DEF TimingsTypeOK
    <3>2. CASE After \in Trackers /\ Finalizes(After)
      BY <3>2, FinalizesIs
    <3> QED BY <1>3, <3>1, <3>2, PollIs
  <2>4. closing' \in BOOLEAN /\ listed' \in BOOLEAN
    BY <2>1 DEF TimingsTypeOK
  <2> QED BY <1>0, <2>1, <2>2, <2>3, <2>4 DEF TimingsTypeOK, RunInv
<1> QED BY <1>1, <1>2, <1>3 DEF TimingsNext

\* Runs are counted once, but for a run finalized twice around a death.
LEMMA CountKept ==
    ASSUME TimingsTypeOK, CountInv, TimingsNext
    PROVE  CountInv'
<1>0. /\ ended \in Nat /\ crashes \in Nat /\ timings.count \in Nat
      /\ tracker \in Trackers \cup {NotRecorded} /\ savedTracker \in Trackers \cup {NotRecorded}
      /\ NotRecorded \notin Trackers
  BY Bounds, TimingsAssumption DEF TimingsTypeOK
<1>1. CASE WorkflowBegins \/ WorkflowEnds \/ CompletionListed \/ CompletionExpires
           \/ \E p \in Phases \cup {0} : WorkflowShows(p)
  <2>1. UNCHANGED pollerVars
    BY <1>1 DEF WorkflowBegins, WorkflowEnds, CompletionListed, CompletionExpires, WorkflowShows
  <2>2. \/ ended' = ended + 1
        \/ ended' = ended /\ (shows' = Idle => shows = Idle)
    BY <1>1, Bounds DEF WorkflowBegins, WorkflowEnds, CompletionListed, CompletionExpires, WorkflowShows
  <2> QED BY <1>0, <2>1, <2>2 DEF pollerVars, CountInv, Held
<1>2. CASE TimePasses
  <2>1. /\ tracker' = NotRecorded <=> tracker = NotRecorded
        /\ savedTracker' = NotRecorded <=> savedTracker = NotRecorded
    BY <1>0, <1>2, TrackerKept DEF TimePasses
  <2>2. /\ shows' = shows /\ ended' = ended /\ polling' = polling /\ timings' = timings
        /\ crashes' = crashes /\ relisted' = relisted
    BY <1>2 DEF TimePasses, relayList
  <2> QED BY <2>1, <2>2 DEF CountInv, Held
<1>3. CASE PollSaves \/ PollIsLast \/ PollerStarts
  <2>1. /\ shows' = shows /\ ended' = ended /\ timings' = timings
        /\ crashes' = crashes /\ relisted' = relisted
    BY <1>3 DEF PollSaves, PollIsLast, PollerStarts, relayList
  <2>2. Held' => Held
    BY <1>3 DEF PollSaves, PollIsLast, PollerStarts, Held
  <2>3. /\ polling' = "gone" => tracker' = NotRecorded
        /\ polling' = "sleeping" => (tracker' # NotRecorded <=> savedTracker' # NotRecorded)
    BY <1>3 DEF PollSaves, PollIsLast, PollerStarts
  <2> QED BY <2>1, <2>2, <2>3 DEF CountInv
<1>4. CASE PollerDies
  <2>1. /\ shows' = shows /\ ended' = ended /\ timings' = timings
        /\ crashes' = crashes + 1 /\ relisted' = relisted
        /\ polling' = "gone" /\ tracker' = NotRecorded
    BY <1>4 DEF PollerDies, relayList
  <2> QED BY <1>0, <2>1 DEF CountInv
<1>5. CASE Polls
  <2>1. /\ polling = "sleeping" /\ polling' \in {"sawNone", "sawRun"}
        /\ After \in Trackers \cup {NotRecorded} /\ tracker' \in {After, NotRecorded}
        /\ shows = Idle => After = tracker
        /\ shows' = shows /\ ended' = ended /\ crashes' = crashes
    BY <1>5, PollIs
  <2>2. CASE UNCHANGED <<timings, spans, late, relisted>>
    <3>1. Held' /\ shows = Idle => Held
      BY <1>0, <2>1 DEF Held
    <3> QED BY <2>1, <2>2, <3>1 DEF CountInv
  <2>3. CASE After \in Trackers /\ tracker' = NotRecorded /\ Finalizes(After)
    <3>1. timings'.count = timings.count + 1 /\ relisted' = (relisted \/ shows # Idle)
      BY <2>3, FinalizesIs
    <3>2. ~Held'
      BY <2>1, <2>3 DEF Held
    <3>3. shows = Idle => Held
      BY <1>0, <2>1, <2>3 DEF Held
    <3>4. relisted' \/ timings'.count <= ended' + crashes'
      <4>1. CASE relisted \/ shows # Idle
        BY <3>1, <4>1
      <4>2. CASE ~relisted /\ shows = Idle
        <5>1. timings.count < ended + crashes
          BY <3>3, <4>2 DEF CountInv
        <5>2. timings.count + 1 <= ended + crashes
          BY <1>0, <5>1
        <5> QED BY <2>1, <3>1, <5>2
      <4> QED BY <4>1, <4>2
    <3> QED BY <2>1, <3>2, <3>4 DEF CountInv
  <2> QED BY <1>5, <2>2, <2>3, PollIs
<1> QED BY <1>1, <1>2, <1>3, <1>4, <1>5 DEF TimingsNext

LEMMA HonestKept ==
    ASSUME TimingsTypeOK, AveragesAreHonest, TimingsNext
    PROVE  AveragesAreHonest'
<1>1. CASE UNCHANGED <<timings, spans, late>>
  BY <1>1 DEF AveragesAreHonest
<1>2. CASE Polls
  BY <1>1, <1>2, PollIs, AveragesKept
<1>3. Polls \/ UNCHANGED <<timings, spans, late>>
  BY DEF TimingsNext, WorkflowBegins, WorkflowShows, WorkflowEnds, CompletionListed,
         CompletionExpires, TimePasses, PollSaves, PollIsLast, PollerDies, PollerStarts, pollerVars
<1> QED BY <1>1, <1>2, <1>3

(* -------------------------------- theorems ------------------------------- *)

LEMMA TimingsInvariance == TimingsSpec => []TimingsInv
<1>1. TimingsInit => TimingsInv
  <2> SUFFICES ASSUME TimingsInit PROVE TimingsInv
    OBVIOUS
  <2>1. /\ shows = Idle /\ ended = 0 /\ crashes = 0 /\ timings = [count |-> 0, average |-> Nothing]
        /\ tracker = NotRecorded /\ savedTracker = NotRecorded /\ polling = "sleeping"
        /\ spans = [p \in Phases |-> {}] /\ late = {}
    BY DEF TimingsInit
  <2>2. Nothing \in [Phases -> Spans \cup {NotRecorded}] /\ \A p \in Phases : Nothing[p] = NotRecorded
    BY DEF Nothing
  <2>3. timings \in [count : 0..MaxCount, average : [Phases -> Spans \cup {NotRecorded}]]
    BY <2>1, <2>2, Bounds
  <2>4. closing \in BOOLEAN /\ listed \in BOOLEAN /\ relisted \in BOOLEAN
    BY DEF TimingsInit
  <2>5. spans \in [Phases -> SUBSET Spans]
    BY <2>1
  <2>6. TimingsTypeOK
    BY <2>1, <2>3, <2>4, <2>5, Bounds DEF TimingsTypeOK
  <2>7. RunInv /\ CountInv /\ AveragesAreHonest
    BY <2>1, <2>2 DEF RunInv, CountInv, Held, AveragesAreHonest
  <2> QED BY <2>6, <2>7 DEF TimingsInv
<1>2. TimingsInv /\ [TimingsNext]_timingsVars => TimingsInv'
  <2> SUFFICES ASSUME TimingsInv, [TimingsNext]_timingsVars PROVE TimingsInv'
    OBVIOUS
  <2>1. CASE TimingsNext
    BY <2>1, TypesKept, CountKept, HonestKept DEF TimingsInv
  <2>2. CASE UNCHANGED timingsVars
    BY <2>2 DEF timingsVars, relayList, TimingsInv, TimingsTypeOK, RunInv, CountInv, Held,
                AveragesAreHonest
  <2> QED BY <2>1, <2>2
<1> QED BY <1>1, <1>2, PTL DEF TimingsSpec

\* Trackers, timings and the relay's list keep their types.
THEOREM TimingsTypeCorrect == TimingsSpec => []TimingsTypeOK
  BY TimingsInvariance, PTL DEF TimingsInv

\* A learned duration is used only after MinPoints workflows have ended, but for
\* one more count per death of the poller, or of a workflow polled while the
\* completion before was listed.
THEOREM LearnedAfterRuns == TimingsSpec => []LearnedNeedsRuns
<1>1. TimingsInv => LearnedNeedsRuns
  <2> SUFFICES ASSUME TimingsInv, NEW p \in Phases, LearnedByServer(p) \/ LearnedByPoller(p)
               PROVE  ended + crashes >= MinPoints \/ relisted
    BY DEF LearnedNeedsRuns
  <2>1. timings.count >= MinPoints
    BY DEF LearnedByServer, LearnedByPoller
  <2>2. timings.count \in Nat /\ ended \in Nat /\ crashes \in Nat
    BY Bounds DEF TimingsInv, TimingsTypeOK
  <2> QED BY <2>1, <2>2, Bounds DEF TimingsInv, CountInv
<1> QED BY <1>1, TimingsInvariance, PTL

\* The average of a phase lies between durations taken into it, whatever the
\* number of runs and their order.
THEOREM HonestAverages == TimingsSpec => []AveragesAreHonest
  BY TimingsInvariance, PTL DEF TimingsInv

(* ------------------------------ the heartbeat ---------------------------- *)

\* A failure that no heartbeat carries yet is still in the flag, and a publisher
\* that sleeps, or will sleep before it reads the flag again, is being woken.
NothingForgotten ==
    hbReport = "owed" =>
       /\ hbFailure
       /\ hbPc \in {"publish", "loop", "wait"} => hbWake \/ hbHandler = "signalling"

\* The flag is cleared only by a heartbeat that says so, and a failure is carried
\* by the one heartbeat that is being published.
HbInv ==
    /\ HbTypeOK /\ NothingForgotten
    /\ hbPc = "clear" => hbCarries
    /\ hbReport = "carried" => hbPc = "publish"

LEMMA HbInitInv == HbInit => HbInv
<1> SUFFICES ASSUME HbInit PROVE HbInv
  OBVIOUS
<1>1. hbStopped \in BOOLEAN /\ hbWake \in BOOLEAN /\ hbFailure \in BOOLEAN /\ hbCarries \in BOOLEAN
  BY Zenon DEF HbInit
<1>2. hbDetections \in 0..MaxDetections
  BY MaxDetectionsAssumption DEF HbInit
<1>3. hbPc = "loop" /\ hbHandler = "running" /\ hbReport = "none"
  BY DEF HbInit
<1> QED BY <1>1, <1>2, <1>3 DEF HbInv, HbTypeOK, NothingForgotten

LEMMA HbStepInv == HbInv /\ [HbNext]_hbVars => HbInv'
<1> SUFFICES ASSUME HbInv, [HbNext]_hbVars PROVE HbInv'
  OBVIOUS
<1> USE MaxDetectionsAssumption DEF HbInv, HbTypeOK, NothingForgotten, HbThreadVars, HbHandlerVars
<1>1. CASE SendNow
  <2>1. hbFailure' /\ hbFailure' \in BOOLEAN
    BY <1>1, Zenon DEF SendNow
  <2>2. hbHandler' = "signalling" /\ hbReport' = "owed" /\ hbDetections' \in 0..MaxDetections
        /\ UNCHANGED <<hbStopped, hbWake, hbPc, hbCarries>>
    BY <1>1 DEF SendNow
  <2> QED BY <2>1, <2>2
<1>2. CASE SendNowWakes
  <2>1. hbWake' /\ hbWake' \in BOOLEAN
    BY <1>2, Zenon DEF SendNowWakes
  <2>2. hbHandler' = "running"
        /\ UNCHANGED <<hbStopped, hbFailure, hbPc, hbCarries, hbDetections, hbReport>>
    BY <1>2 DEF SendNowWakes
  <2> QED BY <2>1, <2>2
<1>3. CASE StopPublisher \/ StopWakes
  BY <1>3 DEF StopPublisher, StopWakes
<1>4. CASE TestLoop \/ WakeUp
  BY <1>4 DEF TestLoop, WakeUp
<1>5. CASE ClearWake \/ CheckStopped
  BY <1>5 DEF ClearWake, CheckStopped
<1>6. CASE ReadFlag
  BY <1>6 DEF ReadFlag
<1>7. CASE ClearFlag
  BY <1>7 DEF ClearFlag
<1>8. CASE PublishSucceeds \/ PublishFails
  BY <1>8 DEF PublishSucceeds, PublishFails
<1>9. CASE UNCHANGED hbVars
  BY <1>9 DEF hbVars
<1> QED BY <1>1, <1>2, <1>3, <1>4, <1>5, <1>6, <1>7, <1>8, <1>9 DEF HbNext, HbThread, HbHandlerThread

LEMMA HbInvariance == HbInit /\ [][HbNext]_hbVars => []HbInv
  BY HbInitInv, HbStepInv, PTL

\* The flags, the threads and the history of a heartbeat keep their types.
THEOREM HbTypeCorrect == HbSpec => []HbTypeOK
  BY HbInvariance, PTL DEF HbSpec, HbInv

\* What makes FailureGoesOut possible, whatever the interleaving of send_now with
\* the publisher's unlocked reads and clearings: a failing task that no heartbeat
\* carries is never erased from the flag, and the publisher never goes to sleep
\* on it for the whole interval (no lost wake-up).
THEOREM NoLostFailure == HbSpec => []NothingForgotten
  BY HbInvariance, PTL DEF HbSpec, HbInv

(* ---------------------------- the parts together ------------------------- *)

\* A step of one part is a step of its specification, and none of the others'.
LEMMA PartsStep ==
    ASSUME [PartsNext]_<<part, hbVars, sshVars, storeVars, timingsVars, usageVars, fixVars>>
    PROVE  /\ [HbNext]_hbVars /\ [SshNext]_sshVars /\ [StoreNext]_storeVars
           /\ [TimingsNext]_timingsVars /\ [UsageNext]_usageVars /\ [FixNext]_fixVars
           /\ part' = part
<1>1. CASE HeartbeatMoves /\ HbNext
  BY <1>1 DEF HeartbeatMoves
<1>2. CASE SshMoves /\ SshNext
  BY <1>2 DEF SshMoves
<1>3. CASE StoresMove /\ StoreNext
  BY <1>3 DEF StoresMove
<1>4. CASE TimingsMove /\ TimingsNext
  BY <1>4 DEF TimingsMove
<1>5. CASE UsageMove /\ UsageNext
  BY <1>5 DEF UsageMove
<1>6. CASE FixMoves /\ FixNext
  BY <1>6 DEF FixMoves
<1> QED BY <1>1, <1>2, <1>3, <1>4, <1>5, <1>6 DEF PartsNext

LEMMA PartsBehave ==
    PartsSpec => /\ HbInit /\ [][HbNext]_hbVars
                 /\ SshSafety /\ StoreSpec /\ TimingsSpec /\ UsageSpec /\ FixSpec
                 /\ [](part \in Parts)
<1>1. PartsInit => /\ HbInit /\ SshInit /\ StoreInit /\ TimingsInit /\ UsageInit /\ FixInit
                   /\ part \in Parts
  BY DEF PartsInit
<1>2. part \in Parts /\ part' = part => (part \in Parts)'
  OBVIOUS
<1> QED BY <1>1, <1>2, PartsStep, PTL DEF PartsSpec, SshSafety, StoreSpec, TimingsSpec, UsageSpec,
           FixSpec

\* The six parts side by side, as the run of MCParts checks them: their types,
\* and for any constants every invariant that run lists.
THEOREM PartsAreSafe ==
    PartsSpec => [](/\ PartsTypeOK
                    /\ EventsOnceUnlessRaced
                    /\ ToldIsCounted
                    /\ LearnedNeedsRuns
                    /\ AveragesAreHonest
                    /\ BlockHolds
                    /\ AttemptsAreCounted
                    /\ ExpertInThisAttempt
                    /\ RevertsWhatWasDropped)
<1>1. HbInv => HbTypeOK
  BY DEF HbInv
<1>2. SshInv => SshTypeOK
  BY DEF SshInv
<1>3. /\ part \in Parts /\ HbTypeOK /\ SshTypeOK /\ StoreTypeOK /\ TimingsTypeOK /\ UsageTypeOK
   /\ FixTypeOK
      => PartsTypeOK
  BY DEF PartsTypeOK
<1> QED BY <1>1, <1>2, <1>3, PartsBehave, HbInvariance, SshInvariance, StoreTypeCorrect,
           TimingsTypeCorrect, UsageTypeCorrect, EventsOnce, ToldWasCounted, LearnedAfterRuns,
           HonestAverages, BlockIsHard, FixTypeCorrect, AttemptsCounted, ExpertAsked,
           RevertsExact, PTL

\* And in the parts side by side, too, a caller of the connection pool is only
\* handed a client that was just tested or connected, and the one it asked for.
THEOREM PartsHandOut == PartsSpec => HandedOutIsUsable
  BY PartsBehave, HandedOutSafe, PTL

\* And so, too, the fix loop goes through its gates in the order of FixLoopGate.
THEOREM PartsGate == PartsSpec => ImplementsGate
  BY PartsBehave, Refinement, PTL

===============================================================================
