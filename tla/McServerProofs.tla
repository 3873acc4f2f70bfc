--------------------------- MODULE McServerProofs ---------------------------
(***************************************************************************)
(* Proofs about McServer for any runs, targets and calls: its types, that  *)
(* what the relay runs is in flight for the server, that the callback will *)
(* know the completion of what is in flight, that no target is dispatched  *)
(* to twice but in the known cases, and that the server implements Mailbox.*)
(* The file may be outdated or torn at any time: all that is known of it   *)
(* is that its entries are for their own targets.                          *)
(***************************************************************************)
EXTENDS McServer, TLAPS

\* The relay has been asked for it and is not through with it.
Pending == {r \in Runs : job[r] \in {"asked", "running"}}

\* The answers a status call is about to return.
Capturing == {about[s] : s \in {s \in Callers : st[s] = "capture"}}

\* A call that is under way is about a run.
CallInv == \A s \in Callers : st[s] # "idle" => about[s] \in Runs

\* The relay is asked for a run when it is dispatched.
FreshInv == \A r \in Runs : at[r] = "new" => job[r] = "none"

\* Wherever it is, a run is tracked from the moment the relay is asked for it.
PendingTracked ==
    \A r \in Pending :
        inflight[Target[r]] = r \/ at[r] = "sent" \/ r \in untracked

\* Dispatches for one target that cross have been marked.
CrossInv ==
    \A q, r \in Runs :
        q # r /\ at[q] = "sent" /\ at[r] = "sent" /\ Target[q] = Target[r] /\ q \in Pending
        => q \in untracked

\* So has a dispatch that crosses an entry made since its guard, and the entry.
SentInv ==
    \A r \in Runs : at[r] = "sent" /\ inflight[Target[r]] # None =>
        /\ r \in Pending => r \in untracked
        /\ inflight[Target[r]] \in Pending => inflight[Target[r]] \in untracked

\* Runs are in flight for their own targets.
EntryInv == \A t \in Targets : inflight[t] # None => Target[inflight[t]] = t

\* So are the ones in the file.
FileInv == \A t \in Targets : disk.runs[t] # None => Target[disk.runs[t]] = t

\* A server that is down is not dispatching.
DownInv == ~up => \A r \in Runs : at[r] # "sent"

TrackInv == FreshInv /\ EntryInv /\ PendingTracked /\ CrossInv /\ SentInv

\* The callback finds the target of what is in flight.
CallbackKnows ==
    up => \A t \in Targets : \/ inflight[t] \in known \cup {None}
                             \/ at[inflight[t]] = "registered"

IInv == /\ TypeOK
        /\ CallInv
        /\ FileInv
        /\ DownInv
        /\ TrackInv
        /\ CallbackKnows
        /\ CompletionAccounted

-----------------------------------------------------------------------------
(* Types, the file, and what calls are about.                              *)

Shape == TypeOK /\ CallInv

\* The table is changed, and the file is written, or torn, or stays as it was.
LEMMA PersistTypes ==
    ASSUME TypeOK, NEW new \in [Targets -> Runs \cup {None}], NEW now \in SUBSET Targets,
           Persist(new, now)
    PROVE  /\ inflight' = new /\ inflight' \in [Targets -> Runs \cup {None}]
           /\ beats' \in SUBSET Targets
           /\ disk' \in [runs : [Targets -> Runs \cup {None}], beats : SUBSET Targets]
           /\ disk' = disk \/ disk' = NoTable \/ disk'.runs = inflight'
           /\ FailuresBounded \/ Trouble => troubles' \in Nat
<1>1. [runs |-> new, beats |-> now] \in
         [runs : [Targets -> Runs \cup {None}], beats : SUBSET Targets]
  OBVIOUS
<1>2. NoTable \in [runs : [Targets -> Runs \cup {None}], beats : SUBSET Targets]
  BY DEF NoTable
<1>3. inflight' = new /\ beats' = now
      /\ disk' \in {[runs |-> new, beats |-> now], disk, NoTable}
  BY DEF Persist
<1>4. FailuresBounded \/ Trouble => troubles' \in Nat
  BY DEF FailuresBounded, Trouble, TypeOK
<1> QED BY <1>1, <1>2, <1>3, <1>4 DEF TypeOK

\* So of one entry.
LEMMA PersistShape ==
    ASSUME TypeOK, NEW t \in Targets, NEW r \in Runs \cup {None}, NEW now \in SUBSET Targets,
           Persist([inflight EXCEPT ![t] = r], now)
    PROVE  /\ inflight' \in [Targets -> Runs \cup {None}]
           /\ beats' \in SUBSET Targets
           /\ disk' \in [runs : [Targets -> Runs \cup {None}], beats : SUBSET Targets]
           /\ disk' = disk \/ disk' = NoTable \/ disk'.runs = inflight'
           /\ FailuresBounded \/ Trouble => troubles' \in Nat
<1>1. [inflight EXCEPT ![t] = r] \in [Targets -> Runs \cup {None}]
  BY DEF TypeOK
<1> QED BY <1>1, PersistTypes

\* A status call goes on, or is over.
LEMMA GotoShape ==
    ASSUME TypeOK, CallInv, NEW s \in Callers,
           \/ Done(s)
           \/ \E place \in {"listed", "polling"}, r \in Runs : Goto(s, place, r)
    PROVE  /\ st' \in [Callers -> {"idle", "listed", "polling", "capture"}]
           /\ about' \in [Callers -> Runs \cup {None}]
           /\ CallInv'
<1>1. PICK place \in {"idle", "listed", "polling"}, r \in Runs \cup {None} :
         /\ place # "idle" => r \in Runs
         /\ st' = [st EXCEPT ![s] = place] /\ about' = [about EXCEPT ![s] = r]
  BY DEF Done, Goto
<1> QED BY <1>1 DEF TypeOK, CallInv

\* A drain leaves sets of runs.
LEMMA DrainShape ==
    ASSUME TypeOK, NEW cleared \in SUBSET kept, Drain(cleared)
    PROVE  {posted, kept, lost}' \subseteq SUBSET Runs
BY DEF Drain, Lose, TypeOK

\* The relay's steps, and the bridge's.
LEMMA ServiceShape ==
    ASSUME Shape, NEW r \in Runs, RelayStarts(r) \/ RelayEnds(r) \/ Pull(r)
    PROVE  Shape'
<1> USE DEF Shape, TypeOK, CallInv, mail, table, calls, history, Post, Lose, Trouble
<1>1. CASE RelayStarts(r)
  BY <1>1 DEF RelayStarts
<1>2. CASE RelayEnds(r)
  BY <1>2 DEF RelayEnds
<1>3. CASE Pull(r)
  BY <1>3, LimitAssumption DEF Pull
<1> QED BY <1>1, <1>2, <1>3

\* dci_workflow_run.
LEMMA RunShape ==
    ASSUME Shape, NEW r \in Runs,
           RunDispatch(r) \/ RunNotAcked(r) \/ RunRegister(r) \/ RunMap(r)
    PROVE  Shape'
<1> USE DEF Shape, mail, table, calls, history, Untrack, Crossed, InDispatch, RunsOf
<1>1. CASE RunDispatch(r) \/ RunNotAcked(r) \/ RunMap(r)
  BY <1>1 DEF RunDispatch, RunNotAcked, RunMap, TypeOK, CallInv
<1>2. CASE RunRegister(r)
  <2>1. Target[r] \in Targets
    BY TargetAssumption
  <2>2. /\ inflight' \in [Targets -> Runs \cup {None}] /\ beats' \in SUBSET Targets
        /\ disk' \in [runs : [Targets -> Runs \cup {None}], beats : SUBSET Targets]
        /\ troubles' \in Nat
    <3>1. beats \ {Target[r]} \in SUBSET Targets
      BY DEF TypeOK
    <3> QED BY <1>2, <2>1, <3>1, PersistShape DEF RunRegister
  <2> QED BY <1>2, <2>1, <2>2 DEF RunRegister, TypeOK, CallInv
<1> QED BY <1>1, <1>2

\* A status call drops an entry.
LEMMA PopShape ==
    ASSUME TypeOK, NEW t \in Targets, PopEntry(t)
    PROVE  /\ inflight' \in [Targets -> Runs \cup {None}] /\ beats' \in SUBSET Targets
           /\ disk' \in [runs : [Targets -> Runs \cup {None}], beats : SUBSET Targets]
           /\ disk' = disk \/ disk' = NoTable \/ disk'.runs = inflight'
           /\ untracked' \in SUBSET Runs /\ troubles' \in Nat
<1>1. beats \ {t} \in SUBSET Targets
  BY DEF TypeOK
<1>2. untracked' \in SUBSET Runs
  BY DEF PopEntry, Untrack, TypeOK
<1> QED BY <1>1, <1>2, PersistShape DEF PopEntry

\* dci_workflow_status.
LEMMA StatusShape ==
    ASSUME Shape, NEW s \in Callers,
           \/ \E t \in Targets : StatusBegin(s, t) \/ StatusLists(s, t)
           \/ AutoRegister(s) \/ StatusTakes(s) \/ StatusHeartbeat(s)
           \/ StatusUnknown(s) \/ StatusCompletes(s)
    PROVE  Shape'
<1> USE DEF Shape, mail, table, calls, history, RunsOf
<1>1. CASE \E t \in Targets : StatusBegin(s, t) \/ StatusLists(s, t)
  <2>1. /\ \E place \in {"listed", "polling"}, r \in Runs : Goto(s, place, r)
        /\ UNCHANGED <<up, at, job, mail, table, history, troubles>>
    BY <1>1 DEF StatusBegin, StatusLists, TypeOK
  <2>2. /\ st' \in [Callers -> {"idle", "listed", "polling", "capture"}]
        /\ about' \in [Callers -> Runs \cup {None}] /\ CallInv'
    BY <2>1, GotoShape
  <2> QED BY <2>1, <2>2 DEF TypeOK
<1>2. CASE StatusTakes(s)
  <2>1. /\ {posted, kept}' \subseteq SUBSET Runs /\ troubles' \in Nat
        /\ st' \in [Callers -> {"idle", "listed", "polling", "capture"}]
    BY <1>2 DEF StatusTakes, TypeOK, Trouble
  <2> QED BY <1>2, <2>1 DEF StatusTakes, TypeOK, CallInv
<1>3. CASE AutoRegister(s) \/ StatusHeartbeat(s) \/ StatusUnknown(s) \/ StatusCompletes(s)
  <2>1. Done(s)
    BY <1>3 DEF AutoRegister, StatusHeartbeat, StatusUnknown, StatusCompletes
  <2>2. /\ st' \in [Callers -> {"idle", "listed", "polling", "capture"}]
        /\ about' \in [Callers -> Runs \cup {None}] /\ CallInv'
    BY <2>1, GotoShape
  <2>3. about[s] \in Runs /\ Target[about[s]] \in Targets
    BY <1>3, TargetAssumption
       DEF AutoRegister, StatusHeartbeat, StatusUnknown, StatusCompletes, CallInv
  <2>4. CASE AutoRegister(s)
    <3>1. /\ inflight' \in [Targets -> Runs \cup {None}] /\ beats' \in SUBSET Targets
          /\ disk' \in [runs : [Targets -> Runs \cup {None}], beats : SUBSET Targets]
          /\ troubles' \in Nat
      <4>1. beats \cup {Target[about[s]]} \in SUBSET Targets
        BY <2>3 DEF TypeOK
      <4> QED BY <2>3, <2>4, <4>1, PersistShape DEF AutoRegister
    <3>2. untracked' \in SUBSET Runs /\ known' \in SUBSET Runs
      BY <2>3, <2>4 DEF AutoRegister, Untrack, Crossed, InDispatch, TypeOK
    <3> QED BY <2>2, <2>4, <3>1, <3>2 DEF AutoRegister, TypeOK
  <2>5. CASE StatusHeartbeat(s)
    BY <2>2, <2>3, <2>5 DEF StatusHeartbeat, TypeOK
  <2>6. CASE StatusUnknown(s)
    <3>1. /\ inflight' \in [Targets -> Runs \cup {None}] /\ beats' \in SUBSET Targets
          /\ disk' \in [runs : [Targets -> Runs \cup {None}], beats : SUBSET Targets]
          /\ untracked' \in SUBSET Runs /\ troubles' \in Nat
      BY <2>3, <2>6, PopShape DEF StatusUnknown, TypeOK
    <3> QED BY <2>2, <2>6, <3>1 DEF StatusUnknown, TypeOK
  <2>7. CASE StatusCompletes(s)
    <3>1. /\ inflight' \in [Targets -> Runs \cup {None}] /\ beats' \in SUBSET Targets
          /\ disk' \in [runs : [Targets -> Runs \cup {None}], beats : SUBSET Targets]
          /\ untracked' \in SUBSET Runs /\ troubles' \in Nat
      BY <2>3, <2>7, PopShape DEF StatusCompletes
    <3>2. {posted, kept, lost}' \subseteq SUBSET Runs
      BY <2>7, DrainShape DEF StatusCompletes
    <3>3. reported' \in SUBSET Runs
      BY <2>3, <2>7 DEF StatusCompletes, TypeOK
    <3> QED BY <2>2, <2>7, <3>1, <3>2, <3>3 DEF StatusCompletes, TypeOK
  <2> QED BY <1>3, <2>4, <2>5, <2>6, <2>7
<1> QED BY <1>1, <1>2, <1>3

\* The other tools, and the server's life.
LEMMA ServerShape ==
    ASSUME Shape,
           \/ \E t \in Targets : WorkflowStop(t)
           \/ FleetStatus \/ WorkflowStopAll \/ PreflightCheck
           \/ CommandTimesOut \/ Crash \/ Boot
    PROVE  Shape'
<1> USE DEF Shape, mail, table, calls, history, Trouble
<1>1. ASSUME NEW t \in Targets, WorkflowStop(t) PROVE Shape'
  <2>1. /\ inflight' \in [Targets -> Runs \cup {None}] /\ beats' \in SUBSET Targets
        /\ disk' \in [runs : [Targets -> Runs \cup {None}], beats : SUBSET Targets]
        /\ troubles' \in Nat
    <3>1. beats \ {t} \in SUBSET Targets
      BY DEF TypeOK
    <3> QED BY <1>1, <3>1, PersistShape DEF WorkflowStop
  <2>2. {posted, kept, lost}' \subseteq SUBSET Runs
    BY <1>1, DrainShape DEF WorkflowStop
  <2>3. untracked' \in SUBSET Runs
    BY <1>1 DEF WorkflowStop, Untrack, RunsOf, TypeOK
  <2> QED BY <1>1, <2>1, <2>2, <2>3 DEF WorkflowStop, TypeOK, CallInv
<1>2. CASE FleetStatus
  BY <1>2 DEF FleetStatus, TypeOK, CallInv
<1>3. CASE WorkflowStopAll
  <2>1. /\ inflight' \in [Targets -> Runs \cup {None}] /\ beats' \in SUBSET Targets
        /\ disk' \in [runs : [Targets -> Runs \cup {None}], beats : SUBSET Targets]
        /\ troubles' \in Nat
    BY <1>3, PersistTypes DEF WorkflowStopAll
  <2>2. untracked' \in SUBSET Runs
    BY <1>3 DEF WorkflowStopAll, Untrack, TypeOK
  <2> QED BY <1>3, <2>1, <2>2 DEF WorkflowStopAll, TypeOK, CallInv
<1>4. CASE PreflightCheck
  <2>1. {posted, kept, lost}' \subseteq SUBSET Runs
    BY <1>4, DrainShape DEF PreflightCheck
  <2> QED BY <1>4, <2>1 DEF PreflightCheck, TypeOK, CallInv
<1>5. CASE CommandTimesOut
  <2>1. {posted, kept, lost}' \subseteq SUBSET Runs
    BY <1>5, DrainShape DEF CommandTimesOut
  <2> QED BY <1>5, <2>1 DEF CommandTimesOut, TypeOK, CallInv
<1>6. CASE Crash
  <2>1. at' \in [Runs -> {"new", "sent", "registered", "told", "failed"}]
    BY <1>6 DEF Crash, TypeOK
  <2>2. {posted, kept, lost, untracked}' \subseteq SUBSET Runs
    BY <1>6 DEF Crash, Lose, Untrack, CallInv, TypeOK
  <2>3. /\ st' \in [Callers -> {"idle", "listed", "polling", "capture"}]
        /\ about' \in [Callers -> Runs \cup {None}] /\ CallInv'
    BY <1>6 DEF Crash, CallInv
  <2>4. /\ up' = FALSE /\ known' = {} /\ troubles' = troubles + 1
        /\ disk' \in {disk, NoTable}
        /\ UNCHANGED <<job, inflight, beats, reported, fleetTook>>
    BY <1>6 DEF Crash
  <2>5. {known, reported, fleetTook}' \subseteq SUBSET Runs /\ troubles' \in Nat
    BY <2>4 DEF TypeOK
  <2>6. job' \in [Runs -> {"none", "asked", "running", "ended"}] /\ beats' \in SUBSET Targets
    BY <2>4 DEF TypeOK
  <2>7. /\ inflight' \in [Targets -> Runs \cup {None}]
        /\ disk' \in [runs : [Targets -> Runs \cup {None}], beats : SUBSET Targets]
    BY <2>4 DEF TypeOK, NoTable
  <2>8. up' \in BOOLEAN
    BY <2>4
  <2>9. TypeOK'
    BY <2>1, <2>2, <2>3, <2>5, <2>6, <2>7, <2>8 DEF TypeOK
  <2> QED BY <2>3, <2>9
<1>7. CASE Boot
  <2>1. /\ disk.runs \in [Targets -> Runs \cup {None}] /\ disk.beats \in SUBSET Targets
    BY DEF TypeOK
  <2>2. known' \in SUBSET Runs /\ untracked' \in SUBSET Runs
    BY <1>7, <2>1 DEF Boot, Untrack, NotWritten, TypeOK
  <2> QED BY <1>7, <2>1, <2>2 DEF Boot, TypeOK, CallInv
<1> QED BY <1>1, <1>2, <1>3, <1>4, <1>5, <1>6, <1>7

LEMMA ShapeStep == ASSUME Shape, Next PROVE Shape'
BY ServiceShape, RunShape, StatusShape, ServerShape DEF Next

-----------------------------------------------------------------------------
(* What the relay runs is tracked.                                         *)

\* Nothing of this changes: the run of a call, the relay, the table, the marks.
LEMMA TrackFrame ==
    ASSUME TrackInv, UNCHANGED <<at, job, inflight, untracked>> PROVE TrackInv'
BY DEF TrackInv, FreshInv, EntryInv, PendingTracked, CrossInv, SentInv, Pending

\* Entries are dropped, of runs that are marked or over.
LEMMA DropTracked ==
    ASSUME TypeOK, TrackInv, NEW T \in SUBSET Targets, NEW R,
           inflight' = [t \in Targets |-> IF t \in T THEN None ELSE inflight[t]],
           \A r \in Pending : Target[r] \in T /\ inflight[Target[r]] = r => r \in R,
           Untrack(R), UNCHANGED <<at, job>>
    PROVE  TrackInv'
<1>1. /\ Pending' = Pending
      /\ untracked \subseteq untracked'
      /\ Pending \cap R \subseteq untracked'
  BY TargetAssumption DEF Pending, Untrack, Answered
<1>2. \A r \in Runs : inflight'[Target[r]] =
         IF Target[r] \in T THEN None ELSE inflight[Target[r]]
  BY TargetAssumption
<1>3. PendingTracked'
  BY <1>1, <1>2 DEF TrackInv, PendingTracked, Pending
<1>4. CrossInv' /\ SentInv'
  BY <1>1, <1>2 DEF TrackInv, CrossInv, SentInv
<1>5. FreshInv' /\ EntryInv'
  BY DEF TrackInv, FreshInv, EntryInv
<1> QED BY <1>3, <1>4, <1>5 DEF TrackInv

\* A run gets the entry: of the others that wait for theirs, and of the entry
\* it replaces, it is known that they are marked or over.
LEMMA EnterTracked ==
    ASSUME TypeOK, TrackInv, NEW r \in Runs, UNCHANGED job,
           inflight' = [inflight EXCEPT ![Target[r]] = r],
           \A q \in Runs : q # r => at'[q] = at[q], at'[r] = "new" => at[r] = "new",
           Pending \cap (untracked \ {r}) \subseteq untracked',
           inflight[Target[r]] \in Pending \ {r} => inflight[Target[r]] \in untracked',
           \A q \in Runs : at'[q] = "sent" /\ Target[q] = Target[r] =>
              /\ q \in Pending => q \in untracked'
              /\ r \in Pending => r \in untracked'
    PROVE  TrackInv'
<1>1. Pending' = Pending
  BY DEF Pending
<1>2. \A q \in Runs : inflight'[Target[q]] =
         IF Target[q] = Target[r] THEN r ELSE inflight[Target[q]]
  BY TargetAssumption DEF TypeOK
<1>3. PendingTracked'
  <2> SUFFICES ASSUME NEW q \in Pending
               PROVE  inflight'[Target[q]] = q \/ at'[q] = "sent" \/ q \in untracked'
    BY <1>1 DEF PendingTracked
  <2>1. q \in Runs
    BY DEF Pending
  <2>2. CASE q = r
    BY <1>2, <2>2
  <2>3. CASE q # r
    BY <1>2, <2>1, <2>3 DEF TrackInv, PendingTracked
  <2> QED BY <2>2, <2>3
<1>4. CrossInv'
  <2> SUFFICES ASSUME NEW p \in Runs, NEW q \in Runs, p # q, at'[p] = "sent",
                      at'[q] = "sent", Target[p] = Target[q], p \in Pending
               PROVE  p \in untracked'
    BY <1>1 DEF CrossInv
  <2>1. CASE Target[p] = Target[r]
    BY <2>1
  <2>2. CASE Target[p] # Target[r]
    BY <2>2 DEF TrackInv, CrossInv
  <2> QED BY <2>1, <2>2
<1>5. SentInv'
  <2> SUFFICES ASSUME NEW q \in Runs, at'[q] = "sent", inflight'[Target[q]] # None
               PROVE  /\ q \in Pending => q \in untracked'
                      /\ inflight'[Target[q]] \in Pending => inflight'[Target[q]] \in untracked'
    BY <1>1 DEF SentInv
  <2>1. CASE Target[q] = Target[r]
    BY <1>2, <2>1
  <2>2. CASE Target[q] # Target[r]
    <3>1. inflight'[Target[q]] = inflight[Target[q]] /\ at[q] = "sent" /\ q # r
      BY <1>2, <2>2
    <3>2. q \in Pending => q \in untracked'
      BY <3>1 DEF TrackInv, SentInv
    <3>3. inflight[Target[q]] # r
      BY <2>2, <3>1, TargetAssumption DEF TrackInv, EntryInv
    <3> QED BY <3>1, <3>2, <3>3 DEF TrackInv, SentInv
  <2> QED BY <2>1, <2>2
<1>6. FreshInv' /\ EntryInv'
  BY DEF TrackInv, FreshInv, EntryInv, TypeOK
<1> QED BY <1>3, <1>4, <1>5, <1>6 DEF TrackInv
\* A status call drops an entry.
LEMMA PopTracked ==
    ASSUME TypeOK, TrackInv, NEW t \in Targets, PopEntry(t), UNCHANGED <<at, job>>
    PROVE  TrackInv'
<1>1. inflight' = [u \in Targets |-> IF u \in {t} THEN None ELSE inflight[u]]
  BY DEF PopEntry, Persist, TypeOK
<1>2. Untrack({inflight[t]})
  BY DEF PopEntry
<1>3. \A r \in Pending : Target[r] \in {t} /\ inflight[Target[r]] = r => r \in {inflight[t]}
  OBVIOUS
<1> QED BY <1>1, <1>2, <1>3, DropTracked

\* The relay's steps.
LEMMA RelayTracked ==
    ASSUME TypeOK, TrackInv, NEW r \in Runs, RelayStarts(r) \/ RelayEnds(r)
    PROVE  TrackInv'
<1> USE DEF TrackInv, table, history
<1>1. CASE RelayStarts(r)
  <2>1. job' = [job EXCEPT ![r] = "running"] /\ job[r] = "asked"
        /\ UNCHANGED <<at, inflight, untracked>>
    BY <1>1 DEF RelayStarts
  <2>2. Pending' = Pending
    BY <2>1 DEF Pending, TypeOK
  <2>3. FreshInv'
    BY <2>1 DEF FreshInv, TypeOK
  <2> QED BY <2>1, <2>2, <2>3 DEF EntryInv, PendingTracked, CrossInv, SentInv
<1>2. CASE RelayEnds(r)
  <2>1. job' = [job EXCEPT ![r] = "ended"] /\ job[r] # "none"
        /\ UNCHANGED <<at, inflight>> /\ untracked' = untracked \ {r}
    BY <1>2 DEF RelayEnds
  <2>2. Pending' = Pending \ {r}
    BY <2>1 DEF Pending, TypeOK
  <2>3. FreshInv'
    BY <2>1 DEF FreshInv, TypeOK
  <2> QED BY <2>1, <2>2, <2>3 DEF EntryInv, PendingTracked, CrossInv, SentInv
<1> QED BY <1>1, <1>2

\* A dispatch past the guard: those it crosses are marked with it.
LEMMA DispatchTracked ==
    ASSUME TypeOK, TrackInv, NEW r \in Runs, RunDispatch(r) PROVE TrackInv'
<1> USE DEF TrackInv, table
<1>1. /\ at[r] = "new" /\ job[r] = "none" /\ inflight[Target[r]] = None
      /\ at' = [at EXCEPT ![r] = "sent"] /\ job' = [job EXCEPT ![r] = "asked"]
      /\ Untrack(Crossed(r)) /\ UNCHANGED inflight
  BY DEF RunDispatch, FreshInv
<1>2. Pending' = Pending \cup {r} /\ r \notin Pending
  BY <1>1 DEF Pending, TypeOK
<1>3. /\ untracked \subseteq untracked'
      /\ (Pending \cup {r}) \cap Crossed(r) \subseteq untracked'
  BY <1>1, TargetAssumption DEF Untrack, Answered, Pending
<1>4. /\ at'[r] = "sent"
      /\ \A q \in Runs : q # r => at'[q] = at[q] /\ job'[q] = job[q]
  BY <1>1 DEF TypeOK
<1>5. FreshInv' /\ EntryInv' /\ PendingTracked'
  BY <1>1, <1>2, <1>3, <1>4 DEF FreshInv, EntryInv, PendingTracked, Pending
<1>6. \A q \in Runs : q # r /\ at[q] = "sent" /\ Target[q] = Target[r] => {q, r} \subseteq Crossed(r)
  BY DEF Crossed, InDispatch, RunsOf
<1>7. CrossInv'
  <2> SUFFICES ASSUME NEW p \in Runs, NEW q \in Runs, p # q, at'[p] = "sent",
                      at'[q] = "sent", Target[p] = Target[q], p \in Pending \cup {r}
               PROVE  p \in untracked'
    BY <1>2 DEF CrossInv
  <2>1. CASE p = r
    BY <1>3, <1>4, <1>6, <2>1
  <2>2. CASE q = r
    BY <1>3, <1>4, <1>6, <2>2
  <2>3. CASE p # r /\ q # r
    BY <1>3, <1>4, <2>3 DEF CrossInv
  <2> QED BY <2>1, <2>2, <2>3
<1>8. SentInv'
  <2> SUFFICES ASSUME NEW q \in Runs, at'[q] = "sent", inflight[Target[q]] # None
               PROVE  /\ q \in Pending \cup {r} => q \in untracked'
                      /\ inflight[Target[q]] \in Pending \cup {r} =>
                            inflight[Target[q]] \in untracked'
    BY <1>1, <1>2 DEF SentInv
  <2>1. Target[q] # Target[r] /\ q # r /\ at[q] = "sent"
    BY <1>1, <1>4
  <2>2. inflight[Target[q]] # r
    BY <2>1, TargetAssumption DEF EntryInv
  <2> QED BY <1>3, <2>1, <2>2 DEF SentInv
<1> QED BY <1>5, <1>7, <1>8

\* The rest of dci_workflow_run.
LEMMA RunTracked ==
    ASSUME TypeOK, TrackInv, NEW r \in Runs,
           RunNotAcked(r) \/ RunRegister(r) \/ RunMap(r)
    PROVE  TrackInv'
<1> USE DEF table, history
<1>1. CASE RunNotAcked(r) \/ RunMap(r)
  <2>1. PICK place \in {"failed", "told"} : at' = [at EXCEPT ![r] = place]
    BY <1>1 DEF RunNotAcked, RunMap
  <2>2. /\ UNCHANGED <<job, inflight>> /\ untracked \subseteq untracked'
        /\ at[r] = "sent" /\ r \in Pending => r \in untracked'
    BY <1>1, TargetAssumption DEF RunNotAcked, RunMap, Untrack, Answered, Pending
  <2>3. Pending' = Pending
    BY <2>2 DEF Pending
  <2>4. \A q \in Runs : at'[q] \in {"new", "sent"} => at[q] = at'[q]
    BY <2>1 DEF TypeOK
  <2>5. \A q \in Runs : at[q] = "sent" => at'[q] = "sent" \/ q = r
    BY <2>1 DEF TypeOK
  <2>6. FreshInv' /\ EntryInv' /\ PendingTracked'
    BY <2>2, <2>3, <2>4, <2>5 DEF TrackInv, FreshInv, EntryInv, PendingTracked, Pending
  <2>7. CrossInv' /\ SentInv'
    BY <2>2, <2>3, <2>4 DEF TrackInv, CrossInv, SentInv
  <2> QED BY <2>6, <2>7 DEF TrackInv
<1>2. CASE RunRegister(r)
  <2>1. /\ at[r] = "sent" /\ at' = [at EXCEPT ![r] = "registered"]
        /\ inflight' = [inflight EXCEPT ![Target[r]] = r]
        /\ UNCHANGED <<job, untracked>>
    BY <1>2 DEF RunRegister, Persist
  <2>2. at'[r] = "registered" /\ \A q \in Runs : q # r => at'[q] = at[q]
    BY <2>1 DEF TypeOK
  <2>3. inflight[Target[r]] \in Pending \ {r} => inflight[Target[r]] \in untracked'
    BY <2>1, TargetAssumption DEF TrackInv, SentInv, Pending
  <2>4. ASSUME NEW q \in Runs, at'[q] = "sent", Target[q] = Target[r]
        PROVE  /\ q \in Pending => q \in untracked'
               /\ r \in Pending => r \in untracked'
    BY <2>1, <2>2, <2>4 DEF TrackInv, CrossInv
  <2>5. Pending \cap (untracked \ {r}) \subseteq untracked'
    BY <2>1
  <2> QED BY <2>1, <2>2, <2>3, <2>4, <2>5, EnterTracked
<1> QED BY <1>1, <1>2

\* A status call adopts a run the relay listed: what it crosses or replaces is
\* marked, and the run itself is not, if there was neither.
LEMMA AdoptTracked ==
    ASSUME TypeOK, CallInv, TrackInv, NEW s \in Callers, AutoRegister(s)
    PROVE  TrackInv'
<1> DEFINE r == about[s]
<1>1. r \in Runs
  BY DEF AutoRegister, CallInv
<1>2. /\ UNCHANGED <<at, job>>
      /\ inflight' = [inflight EXCEPT ![Target[r]] = r]
      /\ IF inflight[Target[r]] = None /\ Crossed(r) = {}
         THEN untracked' = untracked \ {r} ELSE Untrack(Crossed(r) \cup {inflight[Target[r]]})
  BY DEF AutoRegister, Persist
<1> HIDE DEF r
<1>3. \A q \in Runs : at[q] = "sent" /\ Target[q] = Target[r] => {q, r} \subseteq Crossed(r)
  BY DEF Crossed, InDispatch, RunsOf
<1>4. /\ Pending \cap (untracked \ {r}) \subseteq untracked'
      /\ inflight[Target[r]] \in Pending \ {r} => inflight[Target[r]] \in untracked'
      /\ Pending \cap Crossed(r) \subseteq untracked'
  BY <1>2, TargetAssumption DEF Untrack, Answered, Pending
<1>5. \A q \in Runs : at'[q] = "sent" /\ Target[q] = Target[r] =>
              /\ q \in Pending => q \in untracked'
              /\ r \in Pending => r \in untracked'
  BY <1>2, <1>3, <1>4
<1> QED BY <1>1, <1>2, <1>4, <1>5, EnterTracked

\* A stop drops the entries of its targets and marks what was dispatched.
LEMMA StopTracked ==
    ASSUME TypeOK, TrackInv, WorkflowStopAll \/ \E t \in Targets : WorkflowStop(t)
    PROVE  TrackInv'
<1>1. \A r \in Pending : r \in Runs /\ at[r] # "new"
  BY DEF TrackInv, FreshInv, Pending
<1>2. CASE WorkflowStopAll
  <2>1. /\ inflight' = [t \in Targets |-> IF t \in Targets THEN None ELSE inflight[t]]
        /\ Untrack({r \in Runs : at[r] # "new"}) /\ UNCHANGED <<at, job>>
    BY <1>2 DEF WorkflowStopAll, Persist
  <2> QED BY <1>1, <2>1, DropTracked
<1>3. ASSUME NEW t \in Targets, WorkflowStop(t) PROVE TrackInv'
  <2>1. /\ inflight' = [u \in Targets |-> IF u \in {t} THEN None ELSE inflight[u]]
        /\ Untrack({r \in RunsOf(t) : at[r] # "new"}) /\ UNCHANGED <<at, job>>
    BY <1>3 DEF WorkflowStop, Persist, TypeOK
  <2>2. \A r \in Pending : Target[r] \in {t} => r \in {q \in RunsOf(t) : at[q] # "new"}
    BY <1>1 DEF RunsOf
  <2> QED BY <2>1, <2>2, DropTracked
<1> QED BY <1>2, <1>3

\* The server dies: its dispatches are over, and marked if they had not come
\* to an entry. It comes back with the entries of the file, and those that are
\* not in it are marked.
LEMMA LifeTracked ==
    ASSUME TypeOK, FileInv, DownInv, TrackInv, Crash \/ Boot PROVE TrackInv'
<1>1. CASE Crash
  <2>1. /\ UNCHANGED <<job, inflight>> /\ Untrack({r \in Runs : at[r] = "sent"})
        /\ \A r \in Runs : at'[r] # "sent" /\ (at'[r] = "new" => at[r] = "new")
    BY <1>1 DEF Crash, TypeOK
  <2>2. /\ Pending' = Pending /\ untracked \subseteq untracked'
        /\ \A r \in Pending : at[r] = "sent" => r \in untracked'
    BY <2>1, TargetAssumption DEF Pending, Untrack, Answered
  <2>3. FreshInv' /\ EntryInv' /\ CrossInv' /\ SentInv'
    BY <2>1 DEF TrackInv, FreshInv, EntryInv, CrossInv, SentInv
  <2>4. PendingTracked'
    BY <2>1, <2>2 DEF TrackInv, PendingTracked
  <2> QED BY <2>3, <2>4 DEF TrackInv
<1>2. CASE Boot
  <2>1. /\ UNCHANGED <<at, job>> /\ inflight' = disk.runs /\ Untrack(NotWritten)
        /\ \A r \in Runs : at[r] # "sent"
    BY <1>2 DEF Boot, DownInv
  <2>2. Pending' = Pending /\ untracked \subseteq untracked'
    BY <2>1 DEF Pending, Untrack
  <2>3. ASSUME NEW r \in Pending, inflight[Target[r]] = r
        PROVE  inflight'[Target[r]] = r \/ r \in untracked'
    <3>1. r \in Runs /\ Target[r] \in Targets /\ r \notin Answered \cup {None}
      BY TargetAssumption DEF Pending, Answered
    <3> QED BY <2>1, <2>3, <3>1 DEF NotWritten, Untrack
  <2>4. PendingTracked'
    BY <2>1, <2>2, <2>3 DEF TrackInv, PendingTracked
  <2>5. FreshInv' /\ EntryInv' /\ CrossInv' /\ SentInv'
    BY <2>1 DEF TrackInv, FreshInv, EntryInv, CrossInv, SentInv, FileInv
  <2> QED BY <2>4, <2>5 DEF TrackInv
<1> QED BY <1>1, <1>2

LEMMA TrackStep ==
    ASSUME Shape, FileInv, DownInv, TrackInv, Next PROVE TrackInv'
<1> USE DEF Shape
<1>1. ASSUME NEW s \in Callers, StatusUnknown(s) \/ StatusCompletes(s) PROVE TrackInv'
  <2>1. UNCHANGED <<at, job>> /\ about[s] \in Runs
    BY <1>1 DEF StatusUnknown, StatusCompletes, CallInv
  <2>2. PopEntry(Target[about[s]]) \/ UNCHANGED <<inflight, untracked>>
    BY <1>1 DEF StatusUnknown, StatusCompletes
  <2> QED BY <2>1, <2>2, PopTracked, TrackFrame, TargetAssumption
<1>2. ASSUME NEW s \in Callers,
             \/ \E t \in Targets : StatusBegin(s, t) \/ StatusLists(s, t)
             \/ StatusTakes(s) \/ StatusHeartbeat(s)
      PROVE  TrackInv'
  BY <1>2, TrackFrame
     DEF StatusBegin, StatusLists, StatusTakes, StatusHeartbeat, table, history
<1>3. ASSUME FleetStatus \/ PreflightCheck \/ CommandTimesOut \/ \E r \in Runs : Pull(r)
      PROVE  TrackInv'
  BY <1>3, TrackFrame DEF FleetStatus, PreflightCheck, CommandTimesOut, Pull, table, history
<1> QED BY <1>1, <1>2, <1>3, RelayTracked, DispatchTracked, RunTracked, AdoptTracked,
           StopTracked, LifeTracked DEF Next

\* The file is written from a table whose entries are for their own targets, or
\* is a table that was; and what dispatches, dispatches in a server that is up.
LEMMA FileStep ==
    ASSUME Shape, FileInv, DownInv, EntryInv', Next PROVE FileInv' /\ DownInv'
<1> USE DEF Shape, table, history
<1>1. ASSUME disk' = disk \/ disk' = NoTable \/ disk'.runs = inflight' PROVE FileInv'
  BY <1>1 DEF FileInv, EntryInv, NoTable
<1>2. ASSUME NEW r \in Runs,
             \/ RelayStarts(r) \/ RelayEnds(r) \/ Pull(r)
             \/ RunDispatch(r) \/ RunNotAcked(r) \/ RunMap(r)
      PROVE  FileInv' /\ DownInv'
  BY <1>1, <1>2 DEF RelayStarts, RelayEnds, Pull, RunDispatch, RunNotAcked, RunMap, DownInv
<1>write. ASSUME NEW new, NEW now, Persist(new, now), up, UNCHANGED up PROVE FileInv' /\ DownInv'
  <2>1. disk' \in {[runs |-> new, beats |-> now], disk, NoTable} /\ inflight' = new
    BY <1>write DEF Persist
  <2>2. [runs |-> new, beats |-> now].runs = new
    OBVIOUS
  <2>3. FileInv'
    BY <1>1, <2>1, <2>2
  <2> QED BY <1>write, <2>3 DEF DownInv
<1>3. ASSUME NEW r \in Runs, RunRegister(r) PROVE FileInv' /\ DownInv'
  BY <1>3, <1>write DEF RunRegister
<1>4. ASSUME NEW s \in Callers,
             \/ \E t \in Targets : StatusBegin(s, t) \/ StatusLists(s, t)
             \/ StatusTakes(s) \/ StatusHeartbeat(s)
      PROVE  FileInv' /\ DownInv'
  BY <1>1, <1>4 DEF StatusBegin, StatusLists, StatusTakes, StatusHeartbeat, DownInv
<1>5. ASSUME NEW s \in Callers, AutoRegister(s) \/ StatusUnknown(s) \/ StatusCompletes(s)
      PROVE  FileInv' /\ DownInv'
  <2>1. CASE AutoRegister(s)
    BY <1>write, <2>1 DEF AutoRegister
  <2>2. CASE StatusUnknown(s) /\ ~PopEntry(Target[about[s]])
    BY <1>1, <2>2 DEF StatusUnknown, DownInv
  <2>3. CASE StatusUnknown(s) /\ PopEntry(Target[about[s]])
    BY <1>write, <2>3 DEF StatusUnknown, PopEntry
  <2>4. CASE StatusCompletes(s)
    BY <1>write, <2>4 DEF StatusCompletes, PopEntry
  <2> QED BY <1>5, <2>1, <2>2, <2>3, <2>4
<1>6. ASSUME WorkflowStopAll \/ \E t \in Targets : WorkflowStop(t)
      PROVE  FileInv' /\ DownInv'
  <2>1. CASE WorkflowStopAll
    BY <1>write, <2>1 DEF WorkflowStopAll
  <2>2. ASSUME NEW t \in Targets, WorkflowStop(t) PROVE FileInv' /\ DownInv'
    BY <1>write, <2>2 DEF WorkflowStop
  <2> QED BY <1>6, <2>1, <2>2
<1>7. CASE FleetStatus \/ PreflightCheck \/ CommandTimesOut \/ Boot
  BY <1>1, <1>7 DEF FleetStatus, PreflightCheck, CommandTimesOut, Boot, DownInv
<1>8. CASE Crash
  <2>1. /\ disk' = disk \/ disk' = NoTable
        /\ at' = [r \in Runs |-> IF at[r] \in {"new", "told", "failed"} THEN at[r] ELSE "failed"]
    BY <1>8 DEF Crash
  <2> QED BY <1>1, <2>1 DEF DownInv
<1> QED BY <1>2, <1>3, <1>4, <1>5, <1>6, <1>7, <1>8 DEF Next

-----------------------------------------------------------------------------
(* The callback knows what is in flight.                                   *)

\* No entry is made, nothing is forgotten, and no run leaves the moment of its
\* registration.
LEMMA KnownFrame ==
    ASSUME CallbackKnows, up, known \subseteq known',
           \A t \in Targets : inflight'[t] \in {inflight[t], None},
           \A r \in Runs : at[r] = "registered" => at'[r] = "registered" \/ r \in known',
           TypeOK
    PROVE  CallbackKnows'
BY DEF CallbackKnows, TypeOK

LEMMA KnownStep ==
    ASSUME Shape, CallbackKnows, Next PROVE CallbackKnows'
<1> USE DEF Shape, mail, table, calls, history
<1>1. ASSUME NEW r \in Runs,
             RelayStarts(r) \/ RelayEnds(r) \/ Pull(r)
      PROVE  CallbackKnows'
  BY <1>1 DEF RelayStarts, RelayEnds, Pull, CallbackKnows
<1>2. ASSUME NEW r \in Runs, RunDispatch(r) \/ RunNotAcked(r) \/ RunMap(r)
      PROVE  CallbackKnows'
  <2>1. /\ up /\ UNCHANGED inflight /\ known \subseteq known'
        /\ \/ at[r] \in {"new", "sent"} /\ \E place \in {"sent", "failed"} :
                 at' = [at EXCEPT ![r] = place]
           \/ at' = [at EXCEPT ![r] = "told"] /\ r \in known'
    BY <1>2 DEF RunDispatch, RunNotAcked, RunMap
  <2>2. \A q \in Runs : at[q] = "registered" => at'[q] = "registered" \/ q \in known'
    BY <2>1 DEF TypeOK
  <2> QED BY <2>1, <2>2, KnownFrame
<1>3. ASSUME NEW r \in Runs, RunRegister(r) PROVE CallbackKnows'
  <2>1. /\ up /\ UNCHANGED <<up, known>> /\ at' = [at EXCEPT ![r] = "registered"]
        /\ inflight' = [inflight EXCEPT ![Target[r]] = r]
    BY <1>3 DEF RunRegister, Persist
  <2>2. \A t \in Targets : inflight'[t] \in {inflight[t], r}
    BY <2>1 DEF TypeOK
  <2>3. at'[r] = "registered" /\ \A q \in Runs : at[q] = "registered" => at'[q] = "registered"
    BY <2>1 DEF TypeOK
  <2> QED BY <2>1, <2>2, <2>3 DEF CallbackKnows, TypeOK
<1>4. ASSUME NEW s \in Callers,
             \/ \E t \in Targets : StatusBegin(s, t) \/ StatusLists(s, t)
             \/ StatusTakes(s) \/ StatusHeartbeat(s)
      PROVE  CallbackKnows'
  BY <1>4 DEF StatusBegin, StatusLists, StatusTakes, StatusHeartbeat, CallbackKnows
<1>5. ASSUME NEW s \in Callers, AutoRegister(s) PROVE CallbackKnows'
  <2>1. /\ UNCHANGED <<up, at>> /\ known' = known \cup {about[s]}
        /\ inflight' = [inflight EXCEPT ![Target[about[s]]] = about[s]]
    BY <1>5 DEF AutoRegister, Persist
  <2>2. \A t \in Targets : inflight'[t] \in {inflight[t], about[s]}
    BY <2>1 DEF TypeOK
  <2> QED BY <2>1, <2>2 DEF CallbackKnows
<1>6. ASSUME NEW s \in Callers, StatusUnknown(s) \/ StatusCompletes(s)
      PROVE  CallbackKnows'
  <2>1. up /\ UNCHANGED <<up, at, known>>
    BY <1>6 DEF StatusUnknown, StatusCompletes
  <2>2. PopEntry(Target[about[s]]) \/ UNCHANGED inflight
    BY <1>6 DEF StatusUnknown, StatusCompletes
  <2>3. \A t \in Targets : inflight'[t] \in {inflight[t], None}
    BY <2>2 DEF PopEntry, Persist, TypeOK
  <2> QED BY <2>1, <2>3, KnownFrame
<1>7. ASSUME WorkflowStopAll \/ \E t \in Targets : WorkflowStop(t)
      PROVE  CallbackKnows'
  <2>1. up /\ UNCHANGED <<up, at, known>>
    BY <1>7 DEF WorkflowStopAll, WorkflowStop
  <2>2. \A t \in Targets : inflight'[t] \in {inflight[t], None}
    BY <1>7 DEF WorkflowStopAll, WorkflowStop, Persist, TypeOK
  <2> QED BY <2>1, <2>2, KnownFrame
<1>8. CASE FleetStatus \/ PreflightCheck \/ CommandTimesOut
  BY <1>8 DEF FleetStatus, PreflightCheck, CommandTimesOut, CallbackKnows
<1>9. CASE Crash
  BY <1>9 DEF Crash, CallbackKnows
<1>10. CASE Boot
  BY <1>10 DEF Boot, CallbackKnows
<1> QED BY <1>1, <1>2, <1>3, <1>4, <1>5, <1>6, <1>7, <1>8, <1>9, <1>10 DEF Next

-----------------------------------------------------------------------------
(* No answer disappears.                                                   *)

Placed == posted \cup kept \cup lost \cup reported \cup fleetTook \cup Capturing

\* Who is not, and will not be, about to return an answer changes nothing for
\* those who are.
LEMMA CapturingFrame ==
    ASSUME TypeOK, NEW s \in Callers, st[s] # "capture",
           Done(s) \/ \E place \in {"listed", "polling"}, r \in Runs : Goto(s, place, r)
    PROVE  Capturing' = Capturing
<1>1. PICK place \in {"idle", "listed", "polling"}, r \in Runs \cup {None} :
         st' = [st EXCEPT ![s] = place] /\ about' = [about EXCEPT ![s] = r]
  BY DEF Done, Goto
<1>2. \A q \in Callers : /\ st'[q] = "capture" <=> st[q] = "capture"
                         /\ st[q] = "capture" => about'[q] = about[q]
  BY <1>1 DEF TypeOK
<1> QED BY <1>2 DEF Capturing

\* What a drain takes, or clears, is lost.
LEMMA DrainPlaced ==
    ASSUME NEW cleared \in SUBSET kept, Drain(cleared)
    PROVE  posted \cup kept \cup lost \cup reported \cup fleetTook
              \subseteq posted' \cup kept' \cup lost' \cup reported \cup fleetTook
BY DEF Drain, Lose

\* No step but the relay's answer is the source of an answer, and every step
\* leaves those there are in some place.
LEMMA PlacedStep ==
    ASSUME Shape, Next, ~ \E r \in Runs : RelayEnds(r)
    PROVE  Placed \subseteq Placed' /\ Answered' \subseteq Answered
<1> USE DEF Shape, mail, table, calls, history
<1>1. ASSUME NEW r \in Runs,
             \/ RelayStarts(r) \/ RunDispatch(r)
             \/ RunNotAcked(r) \/ RunRegister(r) \/ RunMap(r)
      PROVE  Placed \subseteq Placed' /\ Answered' \subseteq Answered
  <2>1. /\ UNCHANGED <<mail, calls, reported, fleetTook>>
        /\ job' = job \/ \E now \in {"asked", "running"} : job' = [job EXCEPT ![r] = now]
    BY <1>1 DEF RelayStarts, RunDispatch, RunNotAcked, RunRegister, RunMap
  <2>2. Placed' = Placed
    BY <2>1 DEF Placed, Capturing
  <2>3. Answered' \subseteq Answered
    BY <2>1 DEF Answered, TypeOK
  <2> QED BY <2>2, <2>3
<1> SUFFICES ASSUME UNCHANGED job PROVE Placed \subseteq Placed'
  BY <1>1 DEF Next, Answered, Pull, StatusBegin, StatusLists, AutoRegister, StatusTakes,
              StatusHeartbeat, StatusUnknown, StatusCompletes, WorkflowStop, FleetStatus,
              WorkflowStopAll, PreflightCheck, CommandTimesOut, Crash, Boot
<1>2. ASSUME NEW r \in Runs, Pull(r) PROVE Placed \subseteq Placed'
  <2>1. /\ UNCHANGED <<lost, reported, fleetTook, calls>>
        /\ posted \cup kept \subseteq posted' \cup kept'
    BY <1>2 DEF Pull
  <2> QED BY <2>1 DEF Placed, Capturing
<1>3. ASSUME NEW s \in Callers,
             \/ \E t \in Targets : StatusBegin(s, t) \/ StatusLists(s, t)
             \/ AutoRegister(s) \/ StatusHeartbeat(s) \/ StatusUnknown(s)
      PROVE  Placed \subseteq Placed'
  <2>1. /\ st[s] # "capture" /\ UNCHANGED <<mail, reported, fleetTook>>
        /\ Done(s) \/ \E place \in {"listed", "polling"}, r \in Runs : Goto(s, place, r)
    BY <1>3 DEF StatusBegin, StatusLists, AutoRegister, StatusHeartbeat, StatusUnknown,
                RunsOf, TypeOK
  <2> QED BY <2>1, CapturingFrame DEF Placed
<1>4. ASSUME NEW s \in Callers, StatusTakes(s) PROVE Placed \subseteq Placed'
  <2>1. /\ posted \cup kept \subseteq posted' \cup kept' \cup {about[s]}
        /\ st' = [st EXCEPT ![s] = "capture"]
        /\ UNCHANGED <<lost, reported, fleetTook, about>>
    BY <1>4 DEF StatusTakes
  <2>2. \A q \in Callers : st'[q] = "capture" <=> st[q] = "capture" \/ q = s
    BY <2>1 DEF TypeOK
  <2>3. Capturing' = Capturing \cup {about[s]}
    BY <2>1, <2>2 DEF Capturing
  <2> QED BY <2>1, <2>3 DEF Placed
<1>5. ASSUME NEW s \in Callers, StatusCompletes(s) PROVE Placed \subseteq Placed'
  <2>1. /\ reported' = reported \cup {about[s]} /\ UNCHANGED fleetTook
        /\ st' = [st EXCEPT ![s] = "idle"] /\ about' = [about EXCEPT ![s] = None]
        /\ \E cleared \in SUBSET kept : Drain(cleared)
    BY <1>5 DEF StatusCompletes, Done, Goto
  <2>2. \A q \in Callers : q # s => st'[q] = st[q] /\ about'[q] = about[q]
    BY <2>1 DEF TypeOK
  <2>3. Capturing \subseteq Capturing' \cup {about[s]}
    BY <2>2 DEF Capturing
  <2>4. posted \cup kept \cup lost \cup reported \cup fleetTook
              \subseteq posted' \cup kept' \cup lost' \cup reported \cup fleetTook
    BY <2>1, DrainPlaced
  <2> QED BY <2>1, <2>3, <2>4 DEF Placed
<1>6. ASSUME \/ \E t \in Targets : WorkflowStop(t)
             \/ PreflightCheck \/ CommandTimesOut
      PROVE  Placed \subseteq Placed'
  <2>1. UNCHANGED <<calls, reported, fleetTook>> /\ \E cleared \in SUBSET kept : Drain(cleared)
    BY <1>6 DEF WorkflowStop, PreflightCheck, CommandTimesOut
  <2>2. posted \cup kept \cup lost \cup reported \cup fleetTook
              \subseteq posted' \cup kept' \cup lost' \cup reported \cup fleetTook
    BY <2>1, DrainPlaced
  <2> QED BY <2>1, <2>2 DEF Placed, Capturing
<1>7. CASE FleetStatus
  <2>1. /\ UNCHANGED <<posted, lost, calls, reported>>
        /\ kept \cup fleetTook \subseteq kept' \cup fleetTook'
    BY <1>7 DEF FleetStatus
  <2> QED BY <2>1 DEF Placed, Capturing
<1>8. CASE WorkflowStopAll \/ Boot
  <2>1. UNCHANGED <<mail, calls, reported, fleetTook>>
    BY <1>8 DEF WorkflowStopAll, Boot
  <2> QED BY <2>1 DEF Placed, Capturing
<1>9. CASE Crash
  <2>1. Lose(posted \cup kept \cup Capturing) /\ UNCHANGED <<reported, fleetTook>>
    BY <1>9 DEF Crash, Capturing
  <2> QED BY <2>1 DEF Placed, Lose
<1> QED BY <1>1, <1>2, <1>3, <1>4, <1>5, <1>6, <1>7, <1>8, <1>9 DEF Next

LEMMA AccountStep ==
    ASSUME Shape, CompletionAccounted, Next PROVE CompletionAccounted'
<1>1. CompletionAccounted <=> Answered \subseteq Placed
  BY DEF CompletionAccounted, Placed, Capturing
<1>2. (CompletionAccounted <=> Answered \subseteq Placed)'
  BY DEF CompletionAccounted, Placed, Capturing
<1>3. ASSUME NEW r \in Runs, RelayEnds(r) PROVE Answered' \subseteq Placed'
  <2>1. Answered' \subseteq Answered \cup {r}
    BY <1>3 DEF RelayEnds, Answered, Shape, TypeOK
  <2>2. UNCHANGED <<calls, reported, fleetTook>> /\ Post(r)
    BY <1>3 DEF RelayEnds
  <2>3. Placed \cup {r} \subseteq Placed'
    BY <2>2 DEF Placed, Capturing, calls, Post, Lose
  <2> QED BY <1>1, <2>1, <2>3
<1> QED BY <1>1, <1>2, <1>3, PlacedStep

-----------------------------------------------------------------------------

LEMMA InitIInv == Init => IInv
<1> SUFFICES ASSUME Init PROVE IInv
  OBVIOUS
<1> USE DEF Init
<1>1. TypeOK /\ CallInv /\ FileInv /\ DownInv
  BY DEF TypeOK, CallInv, FileInv, DownInv, NoTable
<1>2. TrackInv
  BY TargetAssumption DEF TrackInv, FreshInv, EntryInv, PendingTracked, CrossInv, SentInv, Pending
<1>3. CallbackKnows /\ CompletionAccounted
  BY DEF CallbackKnows, CompletionAccounted, Answered
<1> QED BY <1>1, <1>2, <1>3 DEF IInv

LEMMA StepIInv == IInv /\ [Next]_vars => IInv'
<1> SUFFICES ASSUME IInv, [Next]_vars PROVE IInv'
  OBVIOUS
<1> USE DEF IInv
<1>1. CASE Next
  BY <1>1, ShapeStep, TrackStep, FileStep, KnownStep, AccountStep DEF Shape, TrackInv
<1>2. CASE UNCHANGED vars
  <2> USE <1>2 DEF vars, mail, table, calls, history
  <2>1. TypeOK' /\ CallInv' /\ FileInv' /\ DownInv'
    BY DEF TypeOK, CallInv, FileInv, DownInv
  <2>2. TrackInv'
    BY TrackFrame
  <2>3. CallbackKnows' /\ CompletionAccounted'
    BY DEF CallbackKnows, CompletionAccounted, Answered
  <2> QED BY <2>1, <2>2, <2>3
<1> QED BY <1>1, <1>2

\* IInv holds throughout: it is what the theorems read their claims off.
LEMMA AlwaysIInv == Spec => []IInv
<1> QED BY InitIInv, StepIInv, PTL DEF Spec

\* The server's table, its calls and the bridge's tables keep their types.
THEOREM TypeCorrect == Spec => []TypeOK
<1>1. IInv => TypeOK
  BY DEF IInv
<1> QED BY <1>1, AlwaysIInv, PTL

\* What the relay runs is in flight for the server, or marked as one of the
\* known exceptions, whichever calls overlap and whenever the server restarts:
\* the guard of dci_workflow_run does refuse a second dispatch.
THEOREM RunningTracked == Spec => []RunningIsTracked
<1>1. IInv => RunningIsTracked
  BY DEF IInv, TrackInv, PendingTracked, RunningIsTracked, Running, Pending
<1> QED BY <1>1, AlwaysIInv, PTL

\* The callback recognises the completion of what is in flight, adopted runs
\* and what a restart finds in the file among it.
THEOREM InFlightKnown == Spec => []InFlightIsKnown
<1>1. IInv => InFlightIsKnown
  BY DEF IInv, CallbackKnows, InFlightIsKnown
<1> QED BY <1>1, AlwaysIInv, PTL

\* Overlapping calls, drains and restarts do not make an answer disappear.
THEOREM CompletionsAccounted == Spec => []CompletionAccounted
<1>1. IInv => CompletionAccounted
  BY DEF IInv
<1> QED BY <1>1, AlwaysIInv, PTL

\* Of two runs for one target that the relay has and that are past the await of
\* their dispatch, one at least is a known exception: the guard holds otherwise.
DispatchedOnce ==
    \A q, r \in Pending \ untracked :
        at[q] # "sent" /\ at[r] # "sent" /\ Target[q] = Target[r] => q = r

\* No target is dispatched to twice, although the guard of dci_workflow_run is
\* checked before an await and the entry written after it: two runs under way
\* for one target mean that dispatches crossed, or that a stop, a timeout, a
\* status call that had begun before or a restart with an outdated or torn file
\* took the entry away.
THEOREM NoDoubleDispatch == Spec => []DispatchedOnce
<1>1. IInv => DispatchedOnce
  BY DEF IInv, TrackInv, PendingTracked, DispatchedOnce
<1> QED BY <1>1, AlwaysIInv, PTL

-----------------------------------------------------------------------------
(* The server is a mailbox to the agent.                                   *)

\* An answer is put aside also while the status call that took it is on its way
\* back to the agent; handed over is what the agent was told.
Box == INSTANCE Mailbox WITH Commands <- Runs, kept <- kept \cup Capturing,
                             handed <- reported \cup fleetTook

\* What a drain takes, or clears, moves to the lost ones, if not told before.
LEMMA DrainMoves ==
    ASSUME NEW cleared \in SUBSET kept, Drain(cleared),
           UNCHANGED fleetTook, reported \subseteq reported',
           reported' \subseteq reported \cup Capturing,
           Capturing' \subseteq Capturing, Capturing \subseteq Capturing' \cup reported'
    PROVE  Box!Move
<1>1. PICK D \in SUBSET posted :
        posted' = posted \ D /\ kept' = kept \ cleared /\ Lose(D \cup cleared)
  BY DEF Drain
<1> QED BY <1>1 DEF Box!Move, Lose

\* Every step of the server but the relay's answer moves answers.
LEMMA ServerMoves ==
    ASSUME Shape, Next, ~ \E r \in Runs : RelayEnds(r)
    PROVE  Box!Move
<1> USE DEF Shape, mail, table, calls, history
<1>1. ASSUME UNCHANGED <<posted, kept, lost, reported, fleetTook>>, Capturing' = Capturing
      PROVE  Box!Move
  BY <1>1 DEF Box!Move
<1>2. ASSUME NEW r \in Runs,
             \/ RelayStarts(r) \/ RunDispatch(r)
             \/ RunNotAcked(r) \/ RunRegister(r) \/ RunMap(r)
      PROVE  Box!Move
  <2>1. UNCHANGED <<mail, calls, reported, fleetTook>>
    BY <1>2 DEF RelayStarts, RunDispatch, RunNotAcked, RunRegister, RunMap
  <2> QED BY <1>1, <2>1 DEF Capturing
<1>3. ASSUME NEW r \in Runs, Pull(r) PROVE Box!Move
  <2>1. /\ UNCHANGED <<lost, reported, fleetTook, calls>>
        /\ posted' \subseteq posted /\ kept' \subseteq kept \cup posted
        /\ posted \cup kept \subseteq posted' \cup kept'
    BY <1>3 DEF Pull
  <2>2. Capturing' = Capturing
    BY <2>1 DEF Capturing
  <2> QED BY <2>1, <2>2 DEF Box!Move
<1>4. ASSUME NEW s \in Callers,
             \/ \E t \in Targets : StatusBegin(s, t) \/ StatusLists(s, t)
             \/ AutoRegister(s) \/ StatusHeartbeat(s) \/ StatusUnknown(s)
      PROVE  Box!Move
  <2>1. /\ st[s] # "capture" /\ UNCHANGED <<mail, reported, fleetTook>>
        /\ Done(s) \/ \E place \in {"listed", "polling"}, r \in Runs : Goto(s, place, r)
    BY <1>4 DEF StatusBegin, StatusLists, AutoRegister, StatusHeartbeat, StatusUnknown,
                RunsOf, TypeOK
  <2> QED BY <1>1, <2>1, CapturingFrame
<1>5. ASSUME NEW s \in Callers, StatusTakes(s) PROVE Box!Move
  <2>1. /\ about[s] \in posted \cup kept
        /\ posted' \subseteq posted /\ kept' \subseteq kept
        /\ posted \cup kept \subseteq posted' \cup kept' \cup {about[s]}
        /\ st' = [st EXCEPT ![s] = "capture"]
        /\ UNCHANGED <<lost, reported, fleetTook, about>>
    BY <1>5 DEF StatusTakes
  <2>2. \A q \in Callers : st'[q] = "capture" <=> st[q] = "capture" \/ q = s
    BY <2>1 DEF TypeOK
  <2>3. Capturing' = Capturing \cup {about[s]}
    BY <2>1, <2>2 DEF Capturing
  <2> QED BY <2>1, <2>3 DEF Box!Move
<1>6. ASSUME NEW s \in Callers, StatusCompletes(s) PROVE Box!Move
  <2>1. /\ reported' = reported \cup {about[s]} /\ UNCHANGED fleetTook
        /\ st[s] = "capture"
        /\ st' = [st EXCEPT ![s] = "idle"] /\ about' = [about EXCEPT ![s] = None]
        /\ \E cleared \in SUBSET kept : Drain(cleared)
    BY <1>6 DEF StatusCompletes, Done, Goto
  <2>2. \A q \in Callers : q # s => st'[q] = st[q] /\ about'[q] = about[q]
    BY <2>1 DEF TypeOK
  <2>3. st'[s] = "idle"
    BY <2>1 DEF TypeOK
  <2>4. Capturing' \subseteq Capturing /\ Capturing \subseteq Capturing' \cup {about[s]}
    BY <2>2, <2>3 DEF Capturing
  <2>5. about[s] \in Capturing
    BY <2>1 DEF Capturing
  <2> QED BY <2>1, <2>4, <2>5, DrainMoves
<1>7. ASSUME \/ \E t \in Targets : WorkflowStop(t)
             \/ PreflightCheck \/ CommandTimesOut
      PROVE  Box!Move
  <2>1. UNCHANGED <<calls, reported, fleetTook>> /\ \E cleared \in SUBSET kept : Drain(cleared)
    BY <1>7 DEF WorkflowStop, PreflightCheck, CommandTimesOut
  <2>2. Capturing' = Capturing
    BY <2>1 DEF Capturing
  <2> QED BY <2>1, <2>2, DrainMoves
<1>8. CASE FleetStatus
  <2>1. PICK taken \in SUBSET kept :
          /\ kept' = kept \ taken /\ fleetTook' = fleetTook \cup taken
          /\ UNCHANGED <<posted, lost, calls, reported>>
    BY <1>8 DEF FleetStatus
  <2>2. Capturing' = Capturing
    BY <2>1 DEF Capturing
  <2> QED BY <2>1, <2>2 DEF Box!Move
<1>9. CASE WorkflowStopAll \/ Boot
  <2>1. UNCHANGED <<mail, calls, reported, fleetTook>>
    BY <1>9 DEF WorkflowStopAll, Boot
  <2> QED BY <1>1, <2>1 DEF Capturing
<1>10. CASE Crash
  <2>1. /\ posted' = {} /\ kept' = {}
        /\ Lose(posted \cup kept \cup Capturing) /\ UNCHANGED <<reported, fleetTook>>
    BY <1>10 DEF Crash, Capturing
  <2>2. Capturing' = {}
    BY <1>10 DEF Crash, Capturing
  <2> QED BY <2>1, <2>2 DEF Box!Move, Lose
<1> QED BY <1>2, <1>3, <1>4, <1>5, <1>6, <1>7, <1>8, <1>9, <1>10 DEF Next

\* What Bridge promises to whoever calls it, the server promises to its agent:
\* through overlapping status calls, stops, drains and deaths an answer of the
\* relay is on its way, put aside, told or lost, and comes from nowhere else.
THEOREM RefinesMailbox == Spec => Box!Spec
<1>1. Init => Box!Init
  BY DEF Init, Box!Init, Capturing
<1>2. IInv /\ [Next]_vars
        => [Box!Next]_<<posted, kept \cup Capturing, reported \cup fleetTook, lost>>
  <2> SUFFICES ASSUME IInv, [Next]_vars
               PROVE  Box!Next \/ UNCHANGED <<posted, kept \cup Capturing,
                                              reported \cup fleetTook, lost>>
    OBVIOUS
  <2>1. ASSUME NEW r \in Runs, RelayEnds(r)
        PROVE  \/ Box!Post(r)
               \/ UNCHANGED <<posted, kept \cup Capturing, reported \cup fleetTook, lost>>
    <3>1. UNCHANGED <<kept, calls, reported, fleetTook>>
      BY <2>1 DEF RelayEnds, Post, Lose
    <3>2. Capturing' = Capturing
      BY <3>1 DEF Capturing, calls
    <3>3. \/ posted' = posted \cup {r} /\ UNCHANGED lost
          \/ lost' \in {lost, lost \cup {r}} /\ UNCHANGED posted
      BY <2>1 DEF RelayEnds, Post, Lose
    <3> QED BY <3>1, <3>2, <3>3 DEF Box!Post
  <2>2. CASE Next /\ ~ \E r \in Runs : RelayEnds(r)
    BY <2>2, ServerMoves DEF IInv, Shape, Box!Next
  <2>3. CASE UNCHANGED vars
    BY <2>3 DEF vars, mail, calls, history, Capturing
  <2> QED BY <2>1, <2>2, <2>3 DEF Box!Next
<1> QED BY <1>1, <1>2, AlwaysIInv, PTL DEF Spec, Box!Spec
=============================================================================
