------------------------------ MODULE Heartbeat ------------------------------
(***************************************************************************)
(* The heartbeat publisher of one long-running command (relay/daemon.py,   *)
(* HeartbeatPublisher).  The handler's thread raises flags; a thread of    *)
(* the publisher's own sleeps, wakes, reads the flags and publishes.  No   *)
(* lock protects them: each flag access is a step of its own.              *)
(*                                                                         *)
(* The text of a heartbeat, its sequence number and the 120 s interval are *)
(* left out: the sleep may end at any time.                                *)
(***************************************************************************)
EXTENDS Naturals

CONSTANT MaxDetections    \* how often the handler may see a failing task

ASSUME MaxDetectionsAssumption == MaxDetections \in Nat

VARIABLES
  hbStopped,      \* the event _stopped
  hbWake,         \* the event _wake
  hbFailure,      \* the flag _failure_detected
  hbPc,           \* where the publisher's thread stands
  hbCarries,      \* the heartbeat being built says failure_detected
  hbHandler,      \* what the handler's thread is doing to the publisher
  hbDetections,   \* failing tasks seen so far
  hbReport        \* history: what became of the latest failure seen

hbVars == <<hbStopped, hbWake, hbFailure, hbPc, hbCarries, hbHandler,
            hbDetections, hbReport>>

HbThreadVars == <<hbPc, hbCarries>>
HbHandlerVars == <<hbHandler, hbDetections>>

HbTypeOK ==
  /\ hbStopped \in BOOLEAN
  /\ hbWake \in BOOLEAN
  /\ hbFailure \in BOOLEAN
  /\ hbPc \in {"loop", "wait", "woken", "check", "read", "clear", "publish", "done"}
  /\ hbCarries \in BOOLEAN
  /\ hbHandler \in {"running", "signalling", "stopping", "over"}
  /\ hbDetections \in 0..MaxDetections
  /\ hbReport \in {"none", "owed", "carried", "sent", "lost"}

HbInit ==
  /\ hbStopped = FALSE
  /\ hbWake = FALSE
  /\ hbFailure = FALSE
  /\ hbPc = "loop"
  /\ hbCarries = FALSE
  /\ hbHandler = "running"
  /\ hbDetections = 0
  /\ hbReport = "none"

(* ---------------------------- handler's thread -------------------------- *)

\* send_now: the flag first, then the wake-up.
SendNow ==
  /\ hbHandler = "running"
  /\ hbDetections < MaxDetections
  /\ hbDetections' = hbDetections + 1
  /\ hbFailure' = TRUE
  /\ hbReport' = "owed"
  /\ hbHandler' = "signalling"
  /\ UNCHANGED <<hbStopped, hbWake, HbThreadVars>>

SendNowWakes ==
  /\ hbHandler = "signalling"
  /\ hbWake' = TRUE
  /\ hbHandler' = "running"
  /\ UNCHANGED <<hbStopped, hbFailure, HbThreadVars, hbDetections, hbReport>>

\* stop, from the finally of the command's handler.
StopPublisher ==
  /\ hbHandler = "running"
  /\ hbStopped' = TRUE
  /\ hbHandler' = "stopping"
  /\ UNCHANGED <<hbWake, hbFailure, HbThreadVars, hbDetections, hbReport>>

StopWakes ==
  /\ hbHandler = "stopping"
  /\ hbWake' = TRUE
  /\ hbHandler' = "over"
  /\ UNCHANGED <<hbStopped, hbFailure, HbThreadVars, hbDetections, hbReport>>

(* --------------------------- publisher's thread ------------------------- *)

TestLoop ==
  /\ hbPc = "loop"
  /\ hbPc' = IF hbStopped THEN "done" ELSE "wait"
  /\ UNCHANGED <<hbStopped, hbWake, hbFailure, hbCarries, HbHandlerVars, hbReport>>

\* The wait ends with the event or with the interval.
WakeUp ==
  /\ hbPc = "wait"
  /\ hbPc' = "woken"
  /\ UNCHANGED <<hbStopped, hbWake, hbFailure, hbCarries, HbHandlerVars, hbReport>>

ClearWake ==
  /\ hbPc = "woken"
  /\ hbWake' = FALSE
  /\ hbPc' = "check"
  /\ UNCHANGED <<hbStopped, hbFailure, hbCarries, HbHandlerVars, hbReport>>

CheckStopped ==
  /\ hbPc = "check"
  /\ hbPc' = IF hbStopped THEN "done" ELSE "read"
  /\ UNCHANGED <<hbStopped, hbWake, hbFailure, hbCarries, HbHandlerVars, hbReport>>

\* Mutant: the flag is cleared whatever it was.
ReadFlag_ClearsAlways ==
  /\ hbPc = "read"
  /\ hbCarries' = hbFailure
  /\ hbPc' = "clear"
  /\ UNCHANGED <<hbStopped, hbWake, hbFailure, HbHandlerVars, hbReport>>

\* The heartbeat says what the flag says; only a flag found set is cleared.
ReadFlag ==
  /\ hbPc = "read"
  /\ hbCarries' = hbFailure
  /\ hbPc' = IF hbFailure THEN "clear" ELSE "publish"
  /\ UNCHANGED <<hbStopped, hbWake, hbFailure, HbHandlerVars, hbReport>>

\* A failure seen between the read and the clearing is erased with the flag,
\* but the heartbeat that is about to go out announces it.
ClearFlag ==
  /\ hbPc = "clear"
  /\ hbFailure' = FALSE
  /\ hbReport' = IF hbReport = "owed" /\ hbCarries THEN "carried" ELSE hbReport
  /\ hbPc' = "publish"
  /\ UNCHANGED <<hbStopped, hbWake, hbCarries, HbHandlerVars>>

PublishSucceeds ==
  /\ hbPc = "publish"
  /\ hbReport' = IF hbReport = "carried" THEN "sent" ELSE hbReport
  /\ hbPc' = "loop"
  /\ UNCHANGED <<hbStopped, hbWake, hbFailure, hbCarries, HbHandlerVars>>

\* The publish raises, or is not confirmed in 10 s: logged, and the loop goes
\* on.  The flag was cleared before, so this failure is not announced again.
PublishFails ==
  /\ hbPc = "publish"
  /\ hbReport' = IF hbReport = "carried" THEN "lost" ELSE hbReport
  /\ hbPc' = "loop"
  /\ UNCHANGED <<hbStopped, hbWake, hbFailure, hbCarries, HbHandlerVars>>

HbThread ==
  \/ TestLoop
  \/ WakeUp
  \/ ClearWake
  \/ CheckStopped
  \/ ReadFlag
  \/ ClearFlag
  \/ PublishSucceeds
  \/ PublishFails

HbHandlerThread ==
  \/ SendNow
  \/ SendNowWakes
  \/ StopPublisher
  \/ StopWakes

HbNext == HbThread \/ HbHandlerThread

\* The thread is not starved: no step of it waits longer than the interval or
\* the 10 s of a publish.  Nothing is assumed of the handler.
HbSpec == HbInit /\ [][HbNext]_hbVars /\ WF_hbVars(HbThread)

(* ------------------------------- properties ------------------------------ *)

\* A failing task is announced: unless the command ends first, a heartbeat with
\* failure_detected is handed to Pub/Sub after it, whatever the interleaving of
\* send_now with the thread's reads and clearings and whatever publishes failed
\* before; and the thread ends once the command has stopped it. Not claimed:
\* that this heartbeat arrives, for one whose publish fails is not sent again.
FailureGoesOut ==
  hbReport = "owed" \/ hbStopped
    ~> (hbReport \in {"sent", "lost"} /\ ~hbStopped) \/ hbPc = "done"

=============================================================================
