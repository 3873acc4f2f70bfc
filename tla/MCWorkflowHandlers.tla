------------------------ MODULE MCWorkflowHandlers ------------------------
(* WorkflowHandlers with two runs for one target and one for another. The  *)
(* settings of r1 and r3 have the same base name n1 in two directories, and *)
(* the name n2 of those of r2 occurs in it ("hana.yml", "prod-hana.yml").  *)
EXTENDS WorkflowHandlers

CONSTANTS r1, r2, r3, t1, t2, f1, f2, f3, n1, n2

MCTarget == [r \in Runs |-> IF r = r3 THEN t2 ELSE t1]
MCSettings == [r \in Runs |-> CASE r = r1 -> f1 [] r = r2 -> f2 [] r = r3 -> f3]
MCBasename == [f \in Files |-> IF f = f2 THEN n2 ELSE n1]
MCMatched == [n \in Names |-> IF n = n2 THEN Runs ELSE Runs \ {r2}]
=============================================================================
