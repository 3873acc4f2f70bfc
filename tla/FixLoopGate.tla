---------------------------- MODULE FixLoopGate ----------------------------
(***************************************************************************)
(* What the fix loop promises the operator, whatever the agent calls and   *)
(* in whatever order: every fix goes through triage, plan, fix and verify, *)
(* one step at a time; each verdict costs one of MaxAttempts attempts; and *)
(* a loop that is over stays over until another one is opened.             *)
(***************************************************************************)
EXTENDS Naturals

CONSTANT MaxAttempts

VARIABLES step, spent   \* spent: verdicts given since the loop was opened

Steps == {"idle", "triage", "plan", "fix", "verify"}

TypeOK == step \in Steps /\ spent \in 0..MaxAttempts

Init == step = "idle" /\ spent = 0

Open == step' = "triage" /\ spent' = 0

After == [triage |-> "plan", plan |-> "fix", fix |-> "verify"]

Advance ==
    /\ step \in DOMAIN After
    /\ step' = After[step]
    /\ UNCHANGED spent

\* A verdict ends the attempt: the next one starts at the triage, if there is
\* one left and the fix did not settle the matter.
Judge ==
    /\ step = "verify"
    /\ spent < MaxAttempts
    /\ spent' = spent + 1
    /\ step' \in IF spent' < MaxAttempts THEN {"triage", "idle"} ELSE {"idle"}

Close == step' = "idle" /\ UNCHANGED spent

Next == Open \/ Advance \/ Judge \/ Close

Spec == Init /\ [][Next]_<<step, spent>>
=============================================================================
