------------------------------ MODULE FixLoop ------------------------------
(***************************************************************************)
(* The gates of the fix loop (agents/local/fix_loop.py): the fields of     *)
(* fix_loop_state.json that a gate reads, and one action per function that *)
(* changes them. The caller is a language model: it may call any of them   *)
(* at any time with any argument, and a call that is rejected leaves these *)
(* fields as they were. One call runs at a time; it loads the file, and    *)
(* replaces it atomically.                                                 *)
(***************************************************************************)
EXTENDS Naturals, Sequences

CONSTANTS
    Commits,        \* commits the agent can come to make
    MaxAttempts,    \* max_attempts (5)
    Unset           \* None: no triage_data or fix_data

ASSUME UnsetAssumption == Unset \notin Commits
ASSUME AttemptsAssumption == MaxAttempts \in Nat \ {0}

VARIABLES
    active, attempt, triage_accepted, plan_accepted,
    fix_committed,      \* always equal to review_approved
    subagent_used,      \* subagent_used_this_attempt
    triage,             \* what triage_data tells the gates apart
    fix,                \* fix_data's commit
    history,            \* fixes_history: commit and outcome
    committed,          \* the commits that are in git
    accepted,           \* history: commits submit_fix took since the loop started
    toRevert,           \* history: commits the agent was told to revert since then
    delegated           \* history: attempts in which mark_subagent_used was called

flags == <<triage_accepted, plan_accepted, fix_committed>>
past  == <<history, accepted, toRevert>>
fixVars == <<active, attempt, flags, subagent_used, triage, fix, past, committed, delegated>>

\* Phases 1, 3 and 4 have an expert; expert = TRUE says the phase is one of
\* them, sourced that the finding names that expert as its source.
Triages == [kind : {"fix", "escalate"}, expert : BOOLEAN, sourced : BOOLEAN]

\* What becomes of a fix: "progress" and "partial_progress" keep it; "same",
\* "regression", "unfixable" and any other word drop it.
Outcomes == {"success", "kept", "dropped"}

FixTypeOK ==
    /\ active \in BOOLEAN /\ subagent_used \in BOOLEAN
    /\ triage_accepted \in BOOLEAN /\ plan_accepted \in BOOLEAN
    /\ fix_committed \in BOOLEAN
    /\ attempt \in 0..MaxAttempts
    /\ triage \in Triages \cup {Unset}
    /\ fix \in Commits \cup {Unset}
    /\ history \in Seq([commit : Commits, outcome : Outcomes])
    /\ committed \in SUBSET Commits
    /\ accepted \in SUBSET Commits /\ toRevert \in SUBSET Commits
    /\ delegated \in SUBSET (0..MaxAttempts)

\* _empty_state
NewLoop(activity, number) ==
    /\ active' = activity
    /\ attempt' = number
    /\ triage_accepted' = FALSE /\ plan_accepted' = FALSE /\ fix_committed' = FALSE
    /\ subagent_used' = FALSE
    /\ triage' = Unset /\ fix' = Unset
    /\ history' = <<>> /\ accepted' = {} /\ toRevert' = {} /\ delegated' = {}

FixInit ==
    /\ active = FALSE
    /\ attempt = 0
    /\ triage_accepted = FALSE /\ plan_accepted = FALSE /\ fix_committed = FALSE
    /\ subagent_used = FALSE
    /\ triage = Unset /\ fix = Unset
    /\ history = <<>> /\ accepted = {} /\ toRevert = {} /\ delegated = {}
    /\ committed = {}

Dropped == {history[i].commit : i \in {j \in DOMAIN history : history[j].outcome = "dropped"}}

-----------------------------------------------------------------------------
\* The agent commits something (external).
GitCommit(c) ==
    /\ c \notin committed
    /\ committed' = committed \cup {c}
    /\ UNCHANGED <<active, attempt, flags, subagent_used, triage, fix, past, delegated>>

\* Whatever was in the file, another target's loop included, is overwritten.
start_fix_loop ==
    /\ NewLoop(TRUE, 1)
    /\ UNCHANGED committed

end_fix_loop ==
    /\ active' = FALSE
    /\ UNCHANGED <<attempt, flags, subagent_used, triage, fix, past, committed, delegated>>

mark_subagent_used ==
    /\ subagent_used' = TRUE
    /\ delegated' = delegated \cup {attempt}
    /\ UNCHANGED <<active, attempt, flags, triage, fix, past, committed>>

\* From the second attempt on, a failure in an expert's phase needs that
\* expert's finding or some subagent.
ExpertHeard(t) ==
    t.expert /\ t.kind # "escalate" /\ attempt >= 2 => t.sourced \/ subagent_used

\* Giving up needs a subagent, in the first two attempts.
MayEscalate(t) == t.kind = "escalate" => subagent_used \/ attempt > 2

\* t stands for a finding with all the fields its action_type requires; one
\* that lacks a field is rejected.
submit_triage(t) ==
    /\ active
    /\ ~triage_accepted
    /\ ExpertHeard(t)
    /\ MayEscalate(t)
    /\ triage_accepted' = TRUE
    /\ triage' = t
    /\ UNCHANGED <<active, attempt, plan_accepted, fix_committed, subagent_used, fix,
                   past, committed, delegated>>

submit_plan ==
    /\ active
    /\ triage_accepted
    /\ ~plan_accepted
    /\ plan_accepted' = TRUE
    /\ UNCHANGED <<active, attempt, triage_accepted, fix_committed, subagent_used, triage,
                   fix, past, committed, delegated>>

\* Mutant: the gate asks for the triage, not for the plan.
submit_fix_NoPlan(c) ==
    /\ active
    /\ triage_accepted
    /\ c \in committed
    /\ fix_committed' = TRUE
    /\ fix' = c
    /\ accepted' = accepted \cup {c}
    /\ UNCHANGED <<active, attempt, triage_accepted, plan_accepted, subagent_used, triage,
                   history, toRevert, committed, delegated>>

\* Any commit git knows, with verdict APPROVE. There is no gate against a
\* second call: it takes the place of the first.
submit_fix(c) ==
    /\ active
    /\ plan_accepted
    /\ c \in committed
    /\ fix_committed' = TRUE
    /\ fix' = c
    /\ accepted' = accepted \cup {c}
    /\ UNCHANGED <<active, attempt, triage_accepted, plan_accepted, subagent_used, triage,
                   history, toRevert, committed, delegated>>

Judged(outcome) == history' = Append(history, [commit |-> fix, outcome |-> outcome])

ResultSuccess ==
    /\ active /\ fix_committed
    /\ Judged("success")
    /\ active' = FALSE
    /\ UNCHANGED <<attempt, flags, subagent_used, triage, fix, accepted, toRevert,
                   committed, delegated>>

\* The last attempt failed: fixes_to_revert lists every fix that was dropped.
ResultExhausted(outcome) ==
    /\ active /\ fix_committed
    /\ attempt >= MaxAttempts
    /\ Judged(outcome)
    /\ active' = FALSE
    /\ toRevert' = toRevert \cup Dropped'
    /\ UNCHANGED <<attempt, flags, subagent_used, triage, fix, accepted, committed, delegated>>

\* Mutant: the fix to revert is the one that helped.
Revert_Swapped(outcome) ==
    toRevert' = IF outcome = "kept" THEN toRevert \cup {fix} ELSE toRevert

Revert(outcome) ==
    toRevert' = IF outcome = "dropped" THEN toRevert \cup {fix} ELSE toRevert

\* Mutant: subagent_used_this_attempt survives the attempt.
ResultRetry_KeepsSubagent(outcome) ==
    /\ active /\ fix_committed
    /\ attempt < MaxAttempts
    /\ Judged(outcome)
    /\ Revert(outcome)
    /\ attempt' = attempt + 1
    /\ triage_accepted' = FALSE /\ plan_accepted' = FALSE /\ fix_committed' = FALSE
    /\ triage' = Unset /\ fix' = Unset
    /\ UNCHANGED <<active, subagent_used, accepted, committed, delegated>>

\* Mutant: a fix that made progress does not cost an attempt.
ResultRetry_FreeProgress(outcome) ==
    /\ active /\ fix_committed
    /\ attempt < MaxAttempts
    /\ Judged(outcome)
    /\ Revert(outcome)
    /\ attempt' = IF outcome = "kept" THEN attempt ELSE attempt + 1
    /\ triage_accepted' = FALSE /\ plan_accepted' = FALSE /\ fix_committed' = FALSE
    /\ triage' = Unset /\ fix' = Unset
    /\ subagent_used' = FALSE
    /\ UNCHANGED <<active, accepted, committed, delegated>>

\* Mutant: the last attempt is followed by one more.
ResultRetry_OneTooMany(outcome) ==
    /\ active /\ fix_committed
    /\ attempt <= MaxAttempts
    /\ Judged(outcome)
    /\ Revert(outcome)
    /\ attempt' = attempt + 1
    /\ triage_accepted' = FALSE /\ plan_accepted' = FALSE /\ fix_committed' = FALSE
    /\ triage' = Unset /\ fix' = Unset
    /\ subagent_used' = FALSE
    /\ UNCHANGED <<active, accepted, committed, delegated>>

\* An attempt is left: everything that belongs to the one that failed is
\* reset, and a fix that did not help is to be reverted first.
ResultRetry(outcome) ==
    /\ active /\ fix_committed
    /\ attempt < MaxAttempts
    /\ Judged(outcome)
    /\ Revert(outcome)
    /\ attempt' = attempt + 1
    /\ triage_accepted' = FALSE /\ plan_accepted' = FALSE /\ fix_committed' = FALSE
    /\ triage' = Unset /\ fix' = Unset
    /\ subagent_used' = FALSE
    /\ UNCHANGED <<active, accepted, committed, delegated>>

submit_result ==
    \/ ResultSuccess
    \/ \E outcome \in Outcomes \ {"success"} : ResultExhausted(outcome) \/ ResultRetry(outcome)

FixNext ==
    \/ \E c \in Commits : GitCommit(c) \/ submit_fix(c)
    \/ start_fix_loop \/ end_fix_loop \/ mark_subagent_used
    \/ \E t \in Triages : submit_triage(t)
    \/ submit_plan
    \/ submit_result

FixSpec == FixInit /\ [][FixNext]_fixVars

-----------------------------------------------------------------------------
(* Properties.                                                             *)

\* The attempt number and the list of judged fixes tell the same story, so
\* that no agent gets more workflow runs out of a loop than max_attempts.
AttemptsAreCounted ==
    /\ active => Len(history) + 1 = attempt
    /\ Len(history) <= MaxAttempts

\* No triage of an expert's phase is accepted in a later attempt on the word
\* of a subagent that was called in an earlier one, and nobody gives up in the
\* first two attempts without having asked a subagent in that very attempt.
ExpertInThisAttempt ==
    triage_accepted =>
        /\ triage.kind = "fix" /\ triage.expert /\ attempt >= 2
           => triage.sourced \/ attempt \in delegated
        /\ triage.kind = "escalate" /\ attempt <= 2 => attempt \in delegated

\* Over all the answers of submit_result, the commits the agent was told to
\* revert are those whose fix was judged useless: none is forgotten when the
\* attempts run out, and none that helped is reverted.
RevertsWhatWasDropped == toRevert = Dropped

\* The file, seen through its flags, is the gate the operator is promised.
Gate == INSTANCE FixLoopGate WITH
    step  <- IF ~active THEN "idle"
             ELSE IF fix_committed THEN "verify"
             ELSE IF plan_accepted THEN "fix"
             ELSE IF triage_accepted THEN "plan" ELSE "triage",
    spent <- Len(history)

ImplementsGate == Gate!Spec

\* PROJECT_INTRODUCTION.md of the agent's commits: "reviewed by a subagent
\* before pushing, and reverted if it does not improve the outcome". Were that
\* so, a commit that submit_fix accepted would be judged, or about to be.
EveryFixIsJudged ==
    active => \A c \in accepted :
        c = fix \/ \E i \in DOMAIN history : history[i].commit = c
=============================================================================
