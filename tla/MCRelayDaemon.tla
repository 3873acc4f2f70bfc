--------------------------- MODULE MCRelayDaemon ---------------------------
(* RelayDaemon on two workflows, a relay.update and a diagnostic.           *)
EXTENDS RelayDaemon, TLC

CONSTANTS r1, r2, u1, s1

MCKind == [c \in Commands |->
             CASE c \in {r1, r2} -> "workflow.run"
               [] c = u1 -> "relay.update"
               [] OTHER -> "other"]

Symmetry == Permutations(Workers)
=============================================================================
