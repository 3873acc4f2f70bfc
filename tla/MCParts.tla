------------------------------- MODULE MCParts -------------------------------
(***************************************************************************)
(* Six parts of the system that share no state, each on an instance of its *)
(* own: the heartbeat publisher of a command, the connections of the       *)
(* relay, the two files of the MCP server's callbacks, the timings of the  *)
(* workflow poller, the count of the bridge's traffic, and the gates of    *)
(* the fix loop.  A behaviour is one of one part; the others stay in their *)
(* initial states, from which nothing is claimed of them.                  *)
(***************************************************************************)
EXTENDS Heartbeat, SshPool, LocalStores, PhaseTimings, UsageTracker, FixLoop

CONSTANTS c1, c2

\* One caller runs short commands on the jumpbox, the other everything else.
MCDoes == [c \in Callers |-> IF c = c1 THEN {"exec"} ELSE {"sftp", "target"}]

VARIABLE part

Parts == {"heartbeat", "ssh", "stores", "timings", "usage", "fix"}

PartsTypeOK ==
  /\ part \in Parts
  /\ HbTypeOK
  /\ SshTypeOK
  /\ StoreTypeOK
  /\ TimingsTypeOK
  /\ UsageTypeOK
  /\ FixTypeOK

PartsInit ==
  /\ part \in Parts
  /\ HbInit
  /\ SshInit
  /\ StoreInit
  /\ part # "stores" => goal = NoGoal /\ good = {}
  /\ TimingsInit
  /\ UsageInit
  /\ FixInit

HeartbeatMoves ==
  part = "heartbeat" /\ UNCHANGED <<part, sshVars, storeVars, timingsVars, usageVars, fixVars>>
SshMoves ==
  part = "ssh" /\ UNCHANGED <<part, hbVars, storeVars, timingsVars, usageVars, fixVars>>
StoresMove ==
  part = "stores" /\ UNCHANGED <<part, hbVars, sshVars, timingsVars, usageVars, fixVars>>
TimingsMove ==
  part = "timings" /\ UNCHANGED <<part, hbVars, sshVars, storeVars, usageVars, fixVars>>
UsageMove ==
  part = "usage" /\ UNCHANGED <<part, hbVars, sshVars, storeVars, timingsVars, fixVars>>
FixMoves ==
  part = "fix" /\ UNCHANGED <<part, hbVars, sshVars, storeVars, timingsVars, usageVars>>

PartsNext ==
  \/ HeartbeatMoves /\ HbNext
  \/ SshMoves /\ SshNext
  \/ StoresMove /\ StoreNext
  \/ TimingsMove /\ TimingsNext
  \/ UsageMove /\ UsageNext
  \/ FixMoves /\ FixNext

\* The fairness of HbSpec and of SshSpec, each in its own behaviours.
PartsFairness ==
  /\ WF_hbVars(part = "heartbeat" /\ HbThread)
  /\ \A c \in Callers : SF_sshVars(part = "ssh" /\ Garbage = {} /\ CallerMoves(c))
  /\ SF_sshVars(part = "ssh" /\ Garbage = {} /\ TestsOrConnects(Keepalive))
  /\ WF_sshVars(part = "ssh" /\ Collects)

PartsSpec ==
  /\ PartsInit
  /\ [][PartsNext]_<<part, hbVars, sshVars, storeVars, timingsVars, usageVars, fixVars>>
  /\ PartsFairness

===============================================================================
