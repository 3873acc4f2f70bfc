----------------------------- MODULE UsageTracker -----------------------------
(***************************************************************************)
(* agents/bridge/usage_tracker.py: the month's Pub/Sub bytes in            *)
(* pubsub_usage.json, checked before a command is published and increased  *)
(* after it, and after every pull, by the threads of all agents on the     *)
(* machine.  There is no lock, and unlike the other files of agents/local  *)
(* this one is not replaced but emptied and written: who loads it in       *)
(* between finds nothing and starts from zero.                             *)
(*                                                                         *)
(* A message is one unit; published and received bytes are kept as their   *)
(* total, which is all a check reads.  The warning at 80 % is left out.    *)
(***************************************************************************)
EXTENDS Naturals, FiniteSets

CONSTANTS
    Publishers,        \* threads that publish commands and pull the answers
    Puller,            \* the background poller, which only pulls
    BlockAt,           \* BLOCK_THRESHOLD of the free tier, in messages
    Torn,              \* a file that is no JSON: emptied, or written twice over
    MaxTraffic,        \* bound: messages of a month, one less in the second
    MaxMonths,         \* bound
    MaxUsageTroubles   \* bound: publishes that raise, and deaths

ASSUME UsageAssumption ==
    /\ Puller \notin Publishers /\ Publishers # {} /\ IsFiniteSet(Publishers)
    /\ {BlockAt, MaxTraffic, MaxMonths, MaxUsageTroubles} \subseteq Nat /\ BlockAt >= 1
    /\ Torn \notin [month : Nat, bytes : Nat]

VARIABLES
    month,             \* _current_month()
    usageFile,         \* pubsub_usage.json
    usageStep,         \* where each thread is
    usageCopy,         \* what a thread has loaded
    fresh,             \* history: threads since whose load nobody wrote
    published, received, \* history: messages of this month
    missed,            \* history: messages nobody recorded
    overlapped,        \* history: a thread found the file torn, or wrote an outdated copy
    usageTroubles

usageHistory == <<published, received, missed, overlapped>>
messages == <<published, received, missed>>
usageVars == <<month, usageFile, usageStep, usageCopy, fresh, usageHistory, usageTroubles>>

Recorders == Publishers \cup {Puller}
Usages == [month : 0..MaxMonths, bytes : 0..MaxTraffic * (MaxMonths + 1)]

UsageTypeOK ==
    /\ month \in 0..MaxMonths
    /\ usageFile \in Usages \cup {Torn}
    /\ usageStep \in [Recorders -> {"idle", "publish", "record", "loaded", "writing"}]
    /\ usageCopy \in [Recorders -> Usages \cup {Torn}]
    /\ fresh \subseteq Recorders
    /\ {published, received} \subseteq 0..MaxTraffic
    /\ missed \in 0..MaxUsageTroubles
    /\ overlapped \in BOOLEAN
    /\ usageTroubles \in 0..MaxUsageTroubles

UsageInit ==
    /\ month = 0
    /\ usageFile = [month |-> 0, bytes |-> 0]
    /\ usageStep = [a \in Recorders |-> "idle"]
    /\ usageCopy = [a \in Recorders |-> Torn]
    /\ fresh = {}
    /\ published = 0 /\ received = 0 /\ missed = 0 /\ overlapped = FALSE
    /\ usageTroubles = 0

UsageMoves(a, step) == usageStep' = [usageStep EXCEPT ![a] = step]
UsageTrouble == usageTroubles < MaxUsageTroubles /\ usageTroubles' = usageTroubles + 1
TrafficLeft == published + received + month < MaxTraffic

\* _load: a file of another month and one that is no JSON count as zero.
Loaded == IF usageFile # Torn /\ usageFile.month = month
          THEN usageFile
          ELSE [month |-> month, bytes |-> 0]

\* Mutant: the message to be sent is left out of the projection.
CheckBeforePublish_WithoutMessage(a) ==
    /\ usageStep[a] = "idle"
    /\ Loaded.bytes < BlockAt
    /\ overlapped' = (overlapped \/ usageFile = Torn)
    /\ UsageMoves(a, "publish")
    /\ UNCHANGED <<month, usageFile, usageCopy, fresh, messages, usageTroubles>>

\* check_before_publish; at the threshold _publish_command raises instead.
CheckBeforePublish(a) ==
    /\ usageStep[a] = "idle"
    /\ Loaded.bytes + 1 < BlockAt
    /\ overlapped' = (overlapped \/ usageFile = Torn)
    /\ UsageMoves(a, "publish")
    /\ UNCHANGED <<month, usageFile, usageCopy, fresh, messages, usageTroubles>>

PublishGoesOut(a) ==
    /\ usageStep[a] = "publish" /\ TrafficLeft
    /\ published' = published + 1
    /\ UsageMoves(a, "record")
    /\ UNCHANGED <<month, usageFile, usageCopy, fresh, received, missed, overlapped,
                   usageTroubles>>

\* future.result(timeout=30) raises: the message may have gone out, and
\* record_published is not reached.
PublishRaises(a) ==
    /\ usageStep[a] = "publish" /\ UsageTrouble
    /\ \/ TrafficLeft /\ published' = published + 1 /\ missed' = missed + 1
       \/ UNCHANGED <<published, missed>>
    /\ UsageMoves(a, "idle")
    /\ UNCHANGED <<month, usageFile, usageCopy, fresh, received, overlapped>>

\* A pull brought a message, to the poller or to a thread that waits for the
\* answer of its command; no check comes before it.
Receives(a) ==
    /\ usageStep[a] = "idle" /\ TrafficLeft
    /\ received' = received + 1
    /\ UsageMoves(a, "record")
    /\ UNCHANGED <<month, usageFile, usageCopy, fresh, published, missed, overlapped,
                   usageTroubles>>

(* record_published and record_received: load, add, empty the file, write. *)

UsageLoads(a) ==
    /\ usageStep[a] = "record"
    /\ usageCopy' = [usageCopy EXCEPT ![a] = Loaded]
    /\ fresh' = fresh \cup {a}
    /\ overlapped' = (overlapped \/ usageFile = Torn)
    /\ UsageMoves(a, "loaded")
    /\ UNCHANGED <<month, usageFile, messages, usageTroubles>>

UsageEmpties(a) ==
    /\ usageStep[a] = "loaded"
    /\ usageFile' = Torn
    /\ overlapped' = (overlapped \/ a \notin fresh)
    /\ fresh' = {}
    /\ UsageMoves(a, "writing")
    /\ UNCHANGED <<month, usageCopy, messages, usageTroubles>>

\* Over what another thread has written since, the text may not fit.
UsageWrites(a) ==
    /\ usageStep[a] = "writing"
    /\ \/ usageFile' = [usageCopy[a] EXCEPT !.bytes = @ + 1]
       \/ usageFile # Torn /\ usageFile' = Torn
    /\ usageCopy' = [usageCopy EXCEPT ![a] = Torn]
    /\ fresh' = {}
    /\ UsageMoves(a, "idle")
    /\ UNCHANGED <<month, usageHistory, usageTroubles>>

\* The process dies, perhaps between emptying and writing.
RecorderDies(a) ==
    /\ usageStep[a] # "idle" /\ UsageTrouble
    /\ missed' = IF usageStep[a] = "publish" THEN missed ELSE missed + 1
    /\ usageCopy' = [usageCopy EXCEPT ![a] = Torn]
    /\ UsageMoves(a, "idle")
    /\ fresh' = fresh \ {a}
    /\ UNCHANGED <<month, usageFile, published, received, overlapped>>

\* A thread may be anywhere when the month ends; the tier starts anew.
MonthEnds ==
    /\ month < MaxMonths
    /\ month' = month + 1
    /\ published' = 0 /\ received' = 0 /\ missed' = 0
    /\ UNCHANGED <<usageFile, usageStep, usageCopy, fresh, overlapped, usageTroubles>>

UsageNext ==
    \/ \E a \in Publishers : CheckBeforePublish(a) \/ PublishGoesOut(a) \/ PublishRaises(a)
    \/ \E a \in Recorders :
          \/ Receives(a)
          \/ UsageLoads(a) \/ UsageEmpties(a) \/ UsageWrites(a)
          \/ RecorderDies(a)
    \/ MonthEnds

UsageSpec == UsageInit /\ [][UsageNext]_usageVars

(* ------------------------------- property ------------------------------- *)

\* The hard block of check_before_publish works across a change of the month,
\* publishes that raise and deaths, as long as no thread found the file torn by
\* another, or replaced what another had counted: a message of this month is
\* counted in the file, still being recorded or missed with its thread, and no
\* more commands go out than the block allows, but for one each of the other
\* publishers, which had passed the check before.
BlockHolds ==
    overlapped \/
      /\ usageFile # Torn =>
           published + received
             <= Loaded.bytes + missed
                + Cardinality({a \in Recorders : usageStep[a] \in {"record", "loaded"}})
      /\ published <= BlockAt - 1 + Cardinality(Publishers) - 1 + missed

===============================================================================
