--------------------------- MODULE FixLoopProofs ---------------------------
(***************************************************************************)
(* Proofs about FixLoop for any set of commits and any max_attempts: its   *)
(* types, the safety properties of its gates, and that it implements       *)
(* FixLoopGate.                                                            *)
(***************************************************************************)
EXTENDS FixLoop, SequenceTheorems, TLAPS

\* A later gate is open only if the earlier ones are, and what the accepted
\* documents hold is there to be read.
GateInv ==
    /\ triage_accepted => triage \in Triages
    /\ plan_accepted => triage_accepted
    /\ fix_committed => plan_accepted /\ fix \in Commits

\* subagent_used_this_attempt speaks of this attempt.
DelegationInv == subagent_used => attempt \in delegated

FixInv ==
    /\ FixTypeOK
    /\ GateInv
    /\ DelegationInv
    /\ AttemptsAreCounted
    /\ ExpertInThisAttempt
    /\ RevertsWhatWasDropped

-----------------------------------------------------------------------------
(* A verdict: what appending to fixes_history does to what is read from it. *)

LEMMA JudgedFacts ==
    ASSUME FixTypeOK, fix \in Commits, NEW outcome \in Outcomes, Judged(outcome)
    PROVE  /\ history' \in Seq([commit : Commits, outcome : Outcomes])
           /\ Len(history) \in Nat
           /\ Len(history') = Len(history) + 1
           /\ Dropped' = Dropped \cup (IF outcome = "dropped" THEN {fix} ELSE {})
<1> DEFINE Entry == [commit : Commits, outcome : Outcomes]
           e == [commit |-> fix, outcome |-> outcome]
           n == Len(history)
<1>1. history \in Seq(Entry) /\ n \in Nat /\ DOMAIN history = 1..n
  BY LenProperties DEF FixTypeOK
<1>2. e \in Entry
  OBVIOUS
<1>3. /\ history' \in Seq(Entry)
      /\ Len(history') = n + 1
      /\ \A i \in 1..n : history'[i] = history[i]
      /\ history'[n + 1] = e
  BY <1>1, <1>2, AppendProperties DEF Judged
<1>4. DOMAIN history' = 1..(n + 1)
  BY <1>3, LenProperties
<1>5. Dropped' = Dropped \cup (IF outcome = "dropped" THEN {fix} ELSE {})
  <2>1. ASSUME NEW c \in Dropped PROVE c \in Dropped'
    <3>1. PICK i \in 1..n : history[i].outcome = "dropped" /\ history[i].commit = c
      BY <1>1, <2>1 DEF Dropped
    <3>2. i \in 1..(n + 1) /\ history'[i] = history[i]
      BY <1>1, <1>3, <3>1
    <3> QED BY <1>4, <3>1, <3>2 DEF Dropped
  <2>2. ASSUME outcome = "dropped" PROVE fix \in Dropped'
    <3>1. n + 1 \in DOMAIN history' /\ history'[n + 1].outcome = "dropped"
          /\ history'[n + 1].commit = fix
      BY <1>1, <1>3, <1>4, <2>2
    <3> QED BY <3>1 DEF Dropped
  <2>3. ASSUME NEW c \in Dropped' PROVE c \in Dropped \/ (outcome = "dropped" /\ c = fix)
    <3>1. PICK i \in 1..(n + 1) :
             history'[i].outcome = "dropped" /\ history'[i].commit = c
      BY <1>4, <2>3 DEF Dropped
    <3>2. CASE i = n + 1
      BY <1>3, <3>1, <3>2
    <3>3. CASE i # n + 1
      <4>1. i \in DOMAIN history /\ history[i] = history'[i]
        BY <1>1, <1>3, <3>1, <3>3
      <4> QED BY <3>1, <4>1 DEF Dropped
    <3> QED BY <3>2, <3>3
  <2> QED BY <2>1, <2>2, <2>3
<1> QED BY <1>1, <1>3, <1>5

-----------------------------------------------------------------------------
(* FixInv is inductive.                                                      *)

\* A loop without history, as _empty_state makes it.
LEMMA EmptyFacts ==
    /\ <<>> \in Seq([commit : Commits, outcome : Outcomes])
    /\ Len(<<>>) = 0
    /\ DOMAIN <<>> = {}
BY EmptySeq

LEMMA InitFixInv == FixInit => FixInv
<1> SUFFICES ASSUME FixInit PROVE FixInv
  OBVIOUS
<1> USE DEF FixInit
<1>1. FixTypeOK
  <2>1. attempt \in 0..MaxAttempts
    BY AttemptsAssumption
  <2>2. history \in Seq([commit : Commits, outcome : Outcomes])
    BY EmptyFacts
  <2> QED BY <2>1, <2>2 DEF FixTypeOK
<1>2. GateInv /\ DelegationInv /\ ExpertInThisAttempt
  BY DEF GateInv, DelegationInv, ExpertInThisAttempt
<1>3. AttemptsAreCounted
  BY EmptyFacts, AttemptsAssumption DEF AttemptsAreCounted
<1>4. RevertsWhatWasDropped
  BY EmptyFacts DEF RevertsWhatWasDropped, Dropped
<1> QED BY <1>1, <1>2, <1>3, <1>4 DEF FixInv

\* Steps that leave the attempt, the gates and the history as they are.
LEMMA AsideSteps ==
    ASSUME FixInv,
           \/ \E c \in Commits : GitCommit(c)
           \/ end_fix_loop \/ mark_subagent_used
    PROVE  FixInv'
<1> USE DEF FixInv, flags, past
<1>1. FixTypeOK'
  BY DEF FixTypeOK, GitCommit, end_fix_loop, mark_subagent_used
<1>2. GateInv' /\ DelegationInv'
  BY DEF GateInv, DelegationInv, GitCommit, end_fix_loop, mark_subagent_used
<1>3. AttemptsAreCounted'
  BY DEF AttemptsAreCounted, GitCommit, end_fix_loop, mark_subagent_used
<1>4. ExpertInThisAttempt'
  <2>1. /\ UNCHANGED <<triage_accepted, triage, attempt>>
        /\ attempt \in delegated => attempt \in delegated'
    BY DEF GitCommit, end_fix_loop, mark_subagent_used
  <2> QED BY <2>1 DEF ExpertInThisAttempt
<1>5. RevertsWhatWasDropped'
  BY DEF RevertsWhatWasDropped, Dropped, GitCommit, end_fix_loop, mark_subagent_used
<1> QED BY <1>1, <1>2, <1>3, <1>4, <1>5

LEMMA StartStep ==
    ASSUME FixInv, start_fix_loop
    PROVE  FixInv'
<1> USE DEF start_fix_loop, NewLoop
<1>1. FixTypeOK'
  <2>1. attempt' \in 0..MaxAttempts
    BY AttemptsAssumption
  <2>2. history' \in Seq([commit : Commits, outcome : Outcomes])
    BY EmptyFacts
  <2> QED BY <2>1, <2>2 DEF FixInv, FixTypeOK
<1>2. GateInv' /\ DelegationInv' /\ ExpertInThisAttempt'
  BY DEF GateInv, DelegationInv, ExpertInThisAttempt
<1>3. AttemptsAreCounted'
  BY EmptyFacts, AttemptsAssumption DEF AttemptsAreCounted
<1>4. RevertsWhatWasDropped'
  BY EmptyFacts DEF RevertsWhatWasDropped, Dropped
<1> QED BY <1>1, <1>2, <1>3, <1>4 DEF FixInv

\* The triage is accepted: only here is the expert's word asked for.
LEMMA TriageStep ==
    ASSUME FixInv, NEW t \in Triages, submit_triage(t)
    PROVE  FixInv'
<1> USE DEF FixInv, submit_triage, past
<1>1. FixTypeOK'
  BY DEF FixTypeOK
<1>2. GateInv' /\ DelegationInv'
  BY DEF GateInv, DelegationInv
<1>3. AttemptsAreCounted' /\ RevertsWhatWasDropped'
  BY DEF AttemptsAreCounted, RevertsWhatWasDropped, Dropped
<1>4. ExpertInThisAttempt'
  <2>1. triage' = t /\ attempt' = attempt /\ delegated' = delegated
    OBVIOUS
  <2>2. t.kind = "fix" /\ t.expert /\ attempt >= 2 => t.sourced \/ attempt \in delegated
    BY DEF DelegationInv, ExpertHeard
  <2>3. t.kind = "escalate" /\ attempt <= 2 => attempt \in delegated
    <3>1. attempt <= 2 => ~(attempt > 2)
      BY DEF FixTypeOK
    <3> QED BY <3>1 DEF DelegationInv, MayEscalate
  <2> HIDE DEF submit_triage
  <2> QED BY <2>1, <2>2, <2>3 DEF ExpertInThisAttempt
<1> QED BY <1>1, <1>2, <1>3, <1>4

LEMMA PlanStep ==
    ASSUME FixInv, submit_plan
    PROVE  FixInv'
<1> USE DEF FixInv, submit_plan, past
<1>1. FixTypeOK'
  BY DEF FixTypeOK
<1>2. GateInv' /\ DelegationInv' /\ ExpertInThisAttempt'
  BY DEF GateInv, DelegationInv, ExpertInThisAttempt
<1>3. AttemptsAreCounted' /\ RevertsWhatWasDropped'
  BY DEF AttemptsAreCounted, RevertsWhatWasDropped, Dropped
<1> QED BY <1>1, <1>2, <1>3

LEMMA FixStep ==
    ASSUME FixInv, NEW c \in Commits, submit_fix(c)
    PROVE  FixInv'
<1> USE DEF FixInv, submit_fix
<1>1. FixTypeOK'
  BY DEF FixTypeOK
<1>2. GateInv' /\ DelegationInv' /\ ExpertInThisAttempt'
  BY DEF GateInv, DelegationInv, ExpertInThisAttempt
<1>3. AttemptsAreCounted' /\ RevertsWhatWasDropped'
  BY DEF AttemptsAreCounted, RevertsWhatWasDropped, Dropped
<1> QED BY <1>1, <1>2, <1>3

\* The two verdicts that end the loop.
LEMMA LastResultStep ==
    ASSUME FixInv,
           \/ ResultSuccess
           \/ \E outcome \in Outcomes \ {"success"} : ResultExhausted(outcome)
    PROVE  FixInv'
<1>1. PICK outcome \in Outcomes :
         /\ active /\ fix_committed /\ Judged(outcome) /\ active' = FALSE
         /\ UNCHANGED <<attempt, flags, subagent_used, triage, fix, accepted,
                        committed, delegated>>
         /\ \/ toRevert' = toRevert /\ outcome # "dropped"
            \/ toRevert' = toRevert \cup Dropped'
  BY DEF ResultSuccess, ResultExhausted, Outcomes
<1>2. fix \in Commits
  BY <1>1 DEF FixInv, GateInv
<1>3. /\ history' \in Seq([commit : Commits, outcome : Outcomes])
      /\ Len(history) \in Nat /\ Len(history') = Len(history) + 1
      /\ Dropped' = Dropped \cup (IF outcome = "dropped" THEN {fix} ELSE {})
  BY <1>1, <1>2, JudgedFacts DEF FixInv
<1>4. RevertsWhatWasDropped'
  BY <1>1, <1>3 DEF FixInv, RevertsWhatWasDropped
<1>5. FixTypeOK'
  <2>1. toRevert' \in SUBSET Commits
    BY <1>1, <1>2, <1>3 DEF FixInv, FixTypeOK, RevertsWhatWasDropped
  <2> QED BY <1>1, <1>3, <2>1 DEF FixInv, FixTypeOK, flags
<1>6. GateInv' /\ DelegationInv' /\ ExpertInThisAttempt'
  BY <1>1 DEF FixInv, GateInv, DelegationInv, ExpertInThisAttempt, flags
<1>7. AttemptsAreCounted'
  <2>1. Len(history) + 1 = attempt /\ attempt \in 0..MaxAttempts
    BY <1>1 DEF FixInv, AttemptsAreCounted, FixTypeOK
  <2> QED BY <1>1, <1>3, <2>1, AttemptsAssumption DEF AttemptsAreCounted
<1> QED BY <1>4, <1>5, <1>6, <1>7 DEF FixInv

\* The verdict that opens the next attempt.
LEMMA RetryStep ==
    ASSUME FixInv, NEW outcome \in Outcomes, ResultRetry(outcome)
    PROVE  FixInv'
<1>1. /\ active /\ fix_committed /\ attempt < MaxAttempts
      /\ Judged(outcome) /\ Revert(outcome)
      /\ attempt' = attempt + 1
      /\ ~triage_accepted' /\ ~plan_accepted' /\ ~fix_committed' /\ ~subagent_used'
      /\ triage' = Unset /\ fix' = Unset
      /\ UNCHANGED <<active, accepted, committed, delegated>>
  BY DEF ResultRetry
<1>2. fix \in Commits
  BY <1>1 DEF FixInv, GateInv
<1>3. /\ history' \in Seq([commit : Commits, outcome : Outcomes])
      /\ Len(history) \in Nat /\ Len(history') = Len(history) + 1
      /\ Dropped' = Dropped \cup (IF outcome = "dropped" THEN {fix} ELSE {})
  BY <1>1, <1>2, JudgedFacts DEF FixInv
<1>4. RevertsWhatWasDropped'
  BY <1>1, <1>3 DEF FixInv, RevertsWhatWasDropped, Revert
<1>5. Len(history) + 1 = attempt /\ attempt' \in 0..MaxAttempts
  <2>1. attempt \in 0..MaxAttempts /\ Len(history) + 1 = attempt
    BY <1>1 DEF FixInv, AttemptsAreCounted, FixTypeOK
  <2> QED BY <1>1, <2>1, AttemptsAssumption
<1>6. FixTypeOK'
  <2>1. toRevert' \in SUBSET Commits
    BY <1>1, <1>2 DEF FixInv, FixTypeOK, Revert
  <2>2. /\ triage_accepted' \in BOOLEAN /\ plan_accepted' \in BOOLEAN
        /\ fix_committed' \in BOOLEAN /\ subagent_used' \in BOOLEAN
    BY DEF ResultRetry
  <2> QED BY <1>1, <1>3, <1>5, <2>1, <2>2 DEF FixInv, FixTypeOK
<1>7. GateInv' /\ DelegationInv' /\ ExpertInThisAttempt'
  BY <1>1 DEF GateInv, DelegationInv, ExpertInThisAttempt
<1>8. AttemptsAreCounted'
  BY <1>1, <1>3, <1>5, AttemptsAssumption DEF AttemptsAreCounted
<1> QED BY <1>4, <1>6, <1>7, <1>8 DEF FixInv

LEMMA StepFixInv == FixInv /\ [FixNext]_fixVars => FixInv'
<1> SUFFICES ASSUME FixInv, [FixNext]_fixVars PROVE FixInv'
  OBVIOUS
<1>1. ASSUME NEW c \in Commits, GitCommit(c) PROVE FixInv'
  BY <1>1, AsideSteps
<1>2. CASE end_fix_loop \/ mark_subagent_used
  BY <1>2, AsideSteps
<1>3. CASE start_fix_loop
  BY <1>3, StartStep
<1>4. ASSUME NEW t \in Triages, submit_triage(t) PROVE FixInv'
  BY <1>4, TriageStep
<1>5. CASE submit_plan
  BY <1>5, PlanStep
<1>6. ASSUME NEW c \in Commits, submit_fix(c) PROVE FixInv'
  BY <1>6, FixStep
<1>7. CASE submit_result
  BY <1>7, LastResultStep, RetryStep DEF submit_result
<1>8. CASE UNCHANGED fixVars
  <2>1. UNCHANGED <<active, attempt, triage_accepted, plan_accepted, fix_committed,
                    subagent_used, triage, fix, history, accepted, toRevert,
                    committed, delegated>>
    BY <1>8 DEF fixVars, flags, past
  <2> QED BY <2>1 DEF FixInv, FixTypeOK, GateInv, DelegationInv, AttemptsAreCounted,
                      ExpertInThisAttempt, RevertsWhatWasDropped, Dropped
<1> QED BY <1>1, <1>2, <1>3, <1>4, <1>5, <1>6, <1>7, <1>8 DEF FixNext

LEMMA FixInvariance == FixSpec => []FixInv
BY InitFixInv, StepFixInv, PTL DEF FixSpec

\* Every field of the loop's file keeps its type.
THEOREM FixTypeCorrect == FixSpec => []FixTypeOK
<1>1. FixInv => FixTypeOK
  BY DEF FixInv
<1> QED BY <1>1, FixInvariance, PTL

\* The attempt number is the number of verdicts plus one, and there are at
\* most max_attempts verdicts.
THEOREM AttemptsCounted == FixSpec => []AttemptsAreCounted
<1>1. FixInv => AttemptsAreCounted
  BY DEF FixInv
<1> QED BY <1>1, FixInvariance, PTL

\* The expert whose word a triage rests on was asked in the same attempt.
THEOREM ExpertAsked == FixSpec => []ExpertInThisAttempt
<1>1. FixInv => ExpertInThisAttempt
  BY DEF FixInv
<1> QED BY <1>1, FixInvariance, PTL

\* What the agent is told to revert is what was dropped.
THEOREM RevertsExact == FixSpec => []RevertsWhatWasDropped
<1>1. FixInv => RevertsWhatWasDropped
  BY DEF FixInv
<1> QED BY <1>1, FixInvariance, PTL

-----------------------------------------------------------------------------
(* The commits a revert may touch.                                         *)

\* The agent is told to revert only commits it submitted since the loop started,
\* and submit_fix took only commits that git has.
RevertsItsOwn == toRevert \subseteq accepted /\ accepted \subseteq committed

OwnInv == RevertsItsOwn /\ (fix_committed => fix \in accepted)

LEMMA StepOwnInv == FixInv /\ OwnInv /\ [FixNext]_fixVars => OwnInv'
<1> SUFFICES ASSUME FixInv, OwnInv, [FixNext]_fixVars PROVE OwnInv'
  OBVIOUS
<1> USE DEF OwnInv, RevertsItsOwn, flags, past
<1>1. ASSUME \/ \E c \in Commits : GitCommit(c)
             \/ end_fix_loop \/ mark_subagent_used \/ submit_plan
             \/ \E t \in Triages : submit_triage(t)
             \/ UNCHANGED fixVars
      PROVE  OwnInv'
  <2>1. UNCHANGED <<toRevert, accepted, fix, fix_committed>> /\ committed \subseteq committed'
    BY <1>1 DEF GitCommit, end_fix_loop, mark_subagent_used, submit_plan, submit_triage, fixVars
  <2> QED BY <2>1
<1>2. CASE start_fix_loop
  BY <1>2 DEF start_fix_loop, NewLoop
<1>3. ASSUME NEW c \in Commits, submit_fix(c) PROVE OwnInv'
  BY <1>3 DEF submit_fix
<1>4. CASE submit_result
  <2>1. PICK outcome \in Outcomes :
           /\ fix_committed /\ Judged(outcome) /\ UNCHANGED <<accepted, committed>>
           /\ ~fix_committed' \/ UNCHANGED <<fix, fix_committed>>
           /\ toRevert' \subseteq toRevert \cup Dropped' \cup {fix}
    BY <1>4 DEF submit_result, ResultSuccess, ResultExhausted, ResultRetry, Revert, Outcomes
  <2>2. Dropped' \subseteq Dropped \cup {fix} /\ fix \in accepted
    BY <2>1, JudgedFacts DEF FixInv, GateInv
  <2> QED BY <2>1, <2>2 DEF FixInv, RevertsWhatWasDropped
<1> QED BY <1>1, <1>2, <1>3, <1>4 DEF FixNext

\* Whatever the agent submits and in whatever order, no answer of submit_result
\* tells it to revert a commit that is not its own, of this loop, and in git.
THEOREM OnlyOwnReverted == FixSpec => []RevertsItsOwn
<1>1. FixInit => OwnInv
  BY DEF FixInit, OwnInv, RevertsItsOwn
<1>2. OwnInv => RevertsItsOwn
  BY DEF OwnInv
<1> QED BY <1>1, <1>2, StepOwnInv, FixInvariance, PTL DEF FixSpec

-----------------------------------------------------------------------------
(* Refinement.                                                             *)

GateStep == IF ~active THEN "idle"
        ELSE IF fix_committed THEN "verify"
        ELSE IF plan_accepted THEN "fix"
        ELSE IF triage_accepted THEN "plan" ELSE "triage"

Mapped == <<GateStep, Len(history)>>

\* The gates in order, read off the flags.
LEMMA StepFacts ==
    ASSUME FixInv, active
    PROVE  /\ ~triage_accepted => GateStep = "triage"
           /\ triage_accepted /\ ~plan_accepted => GateStep = "plan"
           /\ plan_accepted /\ ~fix_committed => GateStep = "fix"
           /\ fix_committed => GateStep = "verify"
BY DEF FixInv, GateInv, GateStep

LEMMA StepGate ==
    ASSUME FixInv, [FixNext]_fixVars
    PROVE  [Gate!Next]_Mapped
<1> USE DEF Mapped
<1>1. ASSUME NEW c \in Commits, GitCommit(c) PROVE UNCHANGED Mapped
  BY <1>1 DEF GitCommit, GateStep, flags, past
<1>2. ASSUME mark_subagent_used PROVE UNCHANGED Mapped
  BY <1>2 DEF mark_subagent_used, GateStep, flags, past
<1>3. ASSUME UNCHANGED fixVars PROVE UNCHANGED Mapped
  BY <1>3 DEF fixVars, GateStep, flags, past
<1>4. ASSUME start_fix_loop PROVE Gate!Open
  BY <1>4, EmptyFacts DEF start_fix_loop, NewLoop, Gate!Open
<1>5. ASSUME end_fix_loop PROVE Gate!Close
  BY <1>5 DEF end_fix_loop, Gate!Close, past
<1>6. ASSUME NEW t \in Triages, submit_triage(t) PROVE Gate!Advance
  BY <1>6 DEF submit_triage, FixInv, GateInv, past, Gate!Advance, Gate!After
<1>7. ASSUME submit_plan PROVE Gate!Advance
  BY <1>7 DEF submit_plan, FixInv, GateInv, past, Gate!Advance, Gate!After
<1>8. ASSUME NEW c \in Commits, submit_fix(c) PROVE Gate!Advance \/ UNCHANGED Mapped
  BY <1>8 DEF submit_fix, FixInv, GateInv, GateStep, Gate!Advance, Gate!After
<1>9. ASSUME submit_result PROVE Gate!Judge
  <2>1. PICK outcome \in Outcomes :
           /\ active /\ fix_committed /\ Judged(outcome)
           /\ \/ active' = FALSE /\ attempt >= MaxAttempts
              \/ active' = FALSE /\ outcome = "success"
              \/ /\ active' = TRUE /\ attempt < MaxAttempts
                 /\ ~triage_accepted' /\ ~plan_accepted' /\ ~fix_committed'
    BY <1>9 DEF submit_result, ResultSuccess, ResultExhausted, ResultRetry, Outcomes,
                FixInv, FixTypeOK
  <2>2. /\ Len(history') = Len(history) + 1
        /\ Len(history) + 1 = attempt
        /\ Len(history) \in Nat /\ attempt \in 0..MaxAttempts
    BY <2>1, JudgedFacts DEF FixInv, GateInv, AttemptsAreCounted, FixTypeOK
  <2> QED BY <2>1, <2>2, AttemptsAssumption DEF Gate!Judge
<1> QED
  BY <1>1, <1>2, <1>3, <1>4, <1>5, <1>6, <1>7, <1>8, <1>9 DEF FixNext, Gate!Next, GateStep

\* Whatever the agent calls, the loop goes through triage, plan, fix and
\* verify in this order, at most max_attempts times.
THEOREM Refinement == FixSpec => ImplementsGate
<1>1. FixInit => Gate!Init
  BY EmptyFacts DEF FixInit, Gate!Init
<1>2. FixInv /\ [FixNext]_fixVars => [Gate!Next]_Mapped
  BY StepGate
<1> QED BY <1>1, <1>2, FixInvariance, PTL DEF FixSpec, ImplementsGate, Gate!Spec, Mapped, GateStep
=============================================================================
