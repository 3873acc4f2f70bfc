----------------------- MODULE WorkflowHandlersProofs -----------------------
(***************************************************************************)
(* Proofs about WorkflowHandlers for any runs, targets, settings files and *)
(* bounds: its types, that the registry knows every agent, that an agent   *)
(* gets its own settings, that success is truthful, that an answered run   *)
(* is on record, whom a stop command spares, and how many agents there can *)
(* be.                                                                     *)
(***************************************************************************)
EXTENDS WorkflowHandlers, FiniteSetTheorems, TLAPS

\* An agent runs while its handler is streaming, or has been given up by it.
AgentInv ==
    \A r \in Runs :
        /\ agent[r] = "alive" => pc[r] = "streaming" \/ r \in abandoned
        /\ out[r] = "success" =>
              agent[r] = "exit_ok" /\ pc[r] \in {"unwind", "record", "done", "dead"}

\* Two handlers in their sections at a time on one target are both known to
\* have met, and so are two in pre-flight with one base name.
CrowdInv ==
    \A q, r \in Runs :
        q # r /\ InSection(q) /\ InSection(r) /\ Target[q] = Target[r] => q \in crowded

MixedInv ==
    \A q, r \in Runs :
        q # r /\ pc[q] \in BeforeStart /\ pc[r] \in BeforeStart /\ Name(q) = Name(r)
        => q \in mixed

\* A handler that met nobody on its target finds its own entry.
SectionInv ==
    \A r \in Runs : InSection(r) /\ r \notin crowded => active[Target[r]] = r

\* A handler that met no namesake finds its own settings.
OwnInv ==
    \A r \in Runs \ mixed :
        /\ pc[r] = "staged" => staged[Name(r)] = r
        /\ pc[r] = "deployed" /\ r \in Carries => deployed[Settings[r]] = r

RunsInv ==
    /\ AgentInv
    /\ CrowdInv
    /\ MixedInv
    /\ SectionInv
    /\ OwnInv
    /\ AgentUsesOwnSettings
    /\ AnsweredIsRecorded

IInv == TypeOK /\ RunsInv

-----------------------------------------------------------------------------
(* IInv is inductive: one lemma per group of actions.                      *)

LEMMA InitIInv == Init => IInv
<1> SUFFICES ASSUME Init PROVE IInv
  OBVIOUS
<1> USE DEF Init
<1>1. TypeOK
  BY DEF TypeOK, MaybeRun
<1>2. AgentInv /\ AgentUsesOwnSettings /\ AnsweredIsRecorded
  BY PayloadAssumption DEF AgentInv, AgentUsesOwnSettings, AnsweredIsRecorded
<1>3. CrowdInv /\ SectionInv
  BY DEF CrowdInv, SectionInv, InSection, Section, BeforeStart
<1>4. MixedInv /\ OwnInv
  BY DEF MixedInv, OwnInv, BeforeStart
<1> QED BY <1>1, <1>2, <1>3, <1>4 DEF IInv, RunsInv

\* A handler outside its section goes elsewhere outside it.
LEMMA EntryStep ==
    ASSUME IInv, NEW r \in Runs, Count(r) \/ Refuse(r) \/ Check(r)
    PROVE  IInv'
<1> USE DEF IInv, RunsInv
<1>1. PICK place \in {"refused", "counted", "checked"} :
         /\ pc[r] \in {"new", "counted"}
         /\ pc' = [pc EXCEPT ![r] = place]
  BY DEF Count, Refuse, Check, Goto
<1>2. /\ UNCHANGED <<registry, out, jumpbox, overdue, control, history>>
      /\ runCount' \in Nat
  BY DEF Count, Refuse, Check, TypeOK
<1> USE DEF registry, jumpbox, control, history
<1>3. TypeOK'
  BY <1>1, <1>2 DEF TypeOK
<1>4. \A q \in Runs : /\ InSection(q)' <=> InSection(q)
                      /\ pc'[q] \in BeforeStart => pc'[q] = pc[q]
  BY <1>1 DEF TypeOK, InSection, Section, BeforeStart
<1>5. AgentInv' /\ AgentUsesOwnSettings' /\ AnsweredIsRecorded'
  BY <1>1, <1>2 DEF TypeOK, AgentInv, AgentUsesOwnSettings, AnsweredIsRecorded
<1>6. CrowdInv' /\ SectionInv'
  BY <1>2, <1>4 DEF CrowdInv, SectionInv
<1>7. MixedInv' /\ OwnInv'
  BY <1>2, <1>4 DEF MixedInv, OwnInv, BeforeStart, Name
<1> QED BY <1>3, <1>5, <1>6, <1>7

\* Whoever is in its section on the same target is marked, and whoever is in
\* pre-flight with the same base name.
LEMMA RegisterStep ==
    ASSUME IInv, NEW r \in Runs, Register(r)
    PROVE  IInv'
<1> USE DEF IInv, RunsInv
<1>1. /\ pc[r] = "checked"
      /\ pc' = [pc EXCEPT ![r] = "registered"]
      /\ active' = [active EXCEPT ![Target[r]] = r]
      /\ crowded' = crowded \cup With(r, Neighbours(r))
      /\ mixed' = mixed \cup With(r, Namesakes(r))
      /\ UNCHANGED <<runCount, completed, out, jumpbox, overdue, control,
                     abandoned, stopped, forgotten>>
  BY DEF Register, Goto
<1> USE DEF jumpbox, control
<1>2. With(r, Neighbours(r)) \subseteq Runs /\ With(r, Namesakes(r)) \subseteq Runs
  BY DEF With, Neighbours, Namesakes
<1>3. TypeOK'
  <2>1. crowded' \in SUBSET Runs /\ mixed' \in SUBSET Runs
    BY <1>1, <1>2 DEF TypeOK
  <2>2. {crowded, mixed, abandoned, stopped, forgotten}' \subseteq SUBSET Runs
    BY <1>1, <2>1 DEF TypeOK
  <2>3. pc' \in [Runs -> Section \cup
                      {"new", "counted", "checked", "record", "done", "refused", "dead"}]
    BY <1>1 DEF TypeOK, Section, BeforeStart
  <2> QED BY <1>1, <2>2, <2>3, PayloadAssumption DEF TypeOK, MaybeRun, Section, BeforeStart
<1>4. \A q \in Runs : InSection(q)' <=> InSection(q) \/ q = r
  BY <1>1 DEF TypeOK, InSection, Section, BeforeStart
<1>5. \A q \in Runs \ {r} :
         InSection(q) /\ Target[q] = Target[r] => q \in crowded' /\ r \in crowded'
  BY <1>1 DEF With, Neighbours
<1>6. \A q \in Runs \ {r} :
         pc[q] \in BeforeStart /\ Name(q) = Name(r) => q \in mixed' /\ r \in mixed'
  BY <1>1 DEF With, Namesakes
<1>7. crowded \subseteq crowded' /\ mixed \subseteq mixed'
  BY <1>1
<1>8. AgentInv' /\ AgentUsesOwnSettings' /\ AnsweredIsRecorded'
  BY <1>1, <1>7 DEF TypeOK, AgentInv, AgentUsesOwnSettings, AnsweredIsRecorded
<1>9. CrowdInv'
  BY <1>4, <1>5, <1>7 DEF CrowdInv
<1>10. MixedInv'
  BY <1>1, <1>6, <1>7 DEF MixedInv, TypeOK, Name
<1>11. SectionInv'
  <2> SUFFICES ASSUME NEW q \in Runs, InSection(q)', q \notin crowded'
               PROVE  active'[Target[q]] = q
    BY DEF SectionInv
  <2>1. CASE q = r
    BY <1>1, <2>1, PayloadAssumption DEF TypeOK
  <2>2. CASE q # r
    BY <1>1, <1>4, <1>5, <1>7, <2>2, PayloadAssumption DEF TypeOK, SectionInv
  <2> QED BY <2>1, <2>2
<1>12. OwnInv'
  BY <1>1, <1>7 DEF OwnInv, TypeOK, Name
<1> QED BY <1>3, <1>8, <1>9, <1>10, <1>11, <1>12

\* Nobody on r's target is in its section without being marked, and nobody is in
\* pre-flight with r's base name: what r does to the entry or to the files
\* concerns r only.
LEMMA OwnTarget ==
    ASSUME IInv, NEW r \in Runs, InSection(r),
           NEW q \in Runs, InSection(q), q \notin crowded, q # r
    PROVE  Target[q] # Target[r]
BY DEF IInv, RunsInv, CrowdInv

LEMMA OwnName ==
    ASSUME IInv, NEW r \in Runs, pc[r] \in BeforeStart,
           NEW q \in Runs, pc[q] \in BeforeStart, q \notin mixed, q # r
    PROVE  Name(q) # Name(r) /\ Settings[q] # Settings[r]
BY DEF IInv, RunsInv, MixedInv, Name

\* A handler leaves the pre-flight with a failure: it is on its way out of its
\* section, and if it touched a staged file, it was its own.
LEMMA FailStep ==
    ASSUME IInv, NEW r \in Runs, Fails(r), InSection(r),
           pc[r] = "streaming" => agent[r] # "alive",
           staged' \in {staged, [staged EXCEPT ![Name(r)] = r]},
           staged' # staged => pc[r] \in BeforeStart,
           UNCHANGED <<runCount, registry, agent, deployed, usedBy, overdue, control, history>>
    PROVE  IInv'
<1> USE DEF IInv, RunsInv, registry, control, history
<1>1. /\ pc' = [pc EXCEPT ![r] = "unwind"]
      /\ out' = [out EXCEPT ![r] = "failed"]
  BY DEF Fails, Goto
<1>2. TypeOK'
  BY <1>1, PayloadAssumption DEF TypeOK, MaybeRun, Section, Name
<1>3. \A q \in Runs : /\ InSection(q)' <=> InSection(q)
                      /\ pc'[q] \in BeforeStart => pc'[q] = pc[q] /\ q # r
  BY <1>1 DEF TypeOK, InSection, Section, BeforeStart
<1>4. AgentInv' /\ AgentUsesOwnSettings' /\ AnsweredIsRecorded'
  BY <1>1 DEF TypeOK, AgentInv, AgentUsesOwnSettings, AnsweredIsRecorded
<1>5. CrowdInv' /\ SectionInv'
  BY <1>3 DEF CrowdInv, SectionInv
<1>6. MixedInv'
  BY <1>3 DEF MixedInv, Name
<1>7. OwnInv'
  <2> SUFFICES ASSUME NEW q \in Runs \ mixed, pc'[q] \in BeforeStart
               PROVE  /\ pc'[q] = "staged" => staged'[Name(q)] = q
                      /\ pc'[q] = "deployed" /\ q \in Carries
                            => deployed'[Settings[q]] = q
    BY DEF OwnInv, BeforeStart, Name
  <2>1. pc[q] = pc'[q] /\ q # r
    BY <1>3
  <2>2. staged' # staged => Name(q) # Name(r)
    BY <2>1, OwnName
  <2>3. staged'[Name(q)] = staged[Name(q)]
    BY <2>2, PayloadAssumption DEF TypeOK, Name
  <2> QED BY <2>1, <2>3 DEF OwnInv
<1> QED BY <1>2, <1>4, <1>5, <1>6, <1>7

LEMMA StageStep ==
    ASSUME IInv, NEW r \in Runs, StageSettings(r)
    PROVE  IInv'
<1> USE DEF IInv, RunsInv
<1>1. /\ pc[r] = "registered"
      /\ UNCHANGED <<runCount, registry, agent, deployed, usedBy, overdue, control, history>>
  BY DEF StageSettings
<1>2. InSection(r) /\ pc[r] \in BeforeStart
  BY <1>1 DEF InSection, Section, BeforeStart
<1>3. CASE staged' \in {staged, [staged EXCEPT ![Name(r)] = r]} /\ Fails(r)
  BY <1>1, <1>2, <1>3, FailStep
<1>4. CASE /\ staged' = [staged EXCEPT ![Name(r)] = r]
           /\ pc' = [pc EXCEPT ![r] = "staged"]
           /\ UNCHANGED out
  <2> USE DEF registry, control, history
  <2>1. TypeOK'
    BY <1>1, <1>4, PayloadAssumption DEF TypeOK, MaybeRun, Section, BeforeStart, Name
  <2>2. \A q \in Runs : /\ InSection(q)' <=> InSection(q)
                        /\ pc'[q] \in BeforeStart => pc[q] \in BeforeStart
    BY <1>1, <1>4 DEF TypeOK, InSection, Section, BeforeStart
  <2>3. AgentInv' /\ AgentUsesOwnSettings' /\ AnsweredIsRecorded'
    BY <1>1, <1>4 DEF TypeOK, AgentInv, AgentUsesOwnSettings, AnsweredIsRecorded
  <2>4. CrowdInv' /\ SectionInv'
    BY <1>1, <2>2 DEF CrowdInv, SectionInv
  <2>5. MixedInv'
    BY <1>1, <2>2 DEF MixedInv, Name
  <2>6. OwnInv'
    <3> SUFFICES ASSUME NEW q \in Runs \ mixed, pc'[q] \in BeforeStart
                 PROVE  /\ pc'[q] = "staged" => staged'[Name(q)] = q
                        /\ pc'[q] = "deployed" /\ q \in Carries
                              => deployed'[Settings[q]] = q
      BY <1>1 DEF OwnInv, BeforeStart, Name
    <3>1. CASE q = r
      BY <1>1, <1>4, <3>1, PayloadAssumption DEF TypeOK, Name
    <3>2. CASE q # r
      <4>1. Name(q) # Name(r)
        BY <1>2, <2>2, <3>2, OwnName
      <4> QED BY <1>1, <1>4, <3>2, <4>1, PayloadAssumption DEF TypeOK, OwnInv, Name
    <3> QED BY <3>1, <3>2
  <2> QED BY <2>1, <2>3, <2>4, <2>5, <2>6
<1> QED BY <1>3, <1>4 DEF StageSettings, Goto

LEMMA CopyStep ==
    ASSUME IInv, NEW r \in Runs, CopySettings(r)
    PROVE  IInv'
<1> USE DEF IInv, RunsInv
<1>1. /\ pc[r] = "staged"
      /\ UNCHANGED <<runCount, registry, agent, usedBy, overdue, control, history>>
  BY DEF CopySettings
<1>2. InSection(r) /\ pc[r] \in BeforeStart
  BY <1>1 DEF InSection, Section, BeforeStart
<1>3. CASE UNCHANGED <<staged, deployed>> /\ Fails(r)
  BY <1>1, <1>2, <1>3, FailStep
<1>4. CASE /\ deployed' = [deployed EXCEPT ![Settings[r]] = staged[Name(r)]]
           /\ staged' \in {staged, [staged EXCEPT ![Name(r)] = None]}
           /\ pc' = [pc EXCEPT ![r] = "deployed"]
           /\ UNCHANGED out
  <2> USE DEF registry, control, history
  <2>1. TypeOK'
    <3>1. staged' \in [Names -> MaybeRun]
      BY <1>4, PayloadAssumption DEF TypeOK, MaybeRun, Name
    <3> QED BY <1>1, <1>4, <3>1, PayloadAssumption DEF TypeOK, MaybeRun, Section, BeforeStart, Name
  <2>2. \A q \in Runs : /\ InSection(q)' <=> InSection(q)
                        /\ pc'[q] \in BeforeStart => pc[q] \in BeforeStart
    BY <1>1, <1>4 DEF TypeOK, InSection, Section, BeforeStart
  <2>3. AgentInv' /\ AgentUsesOwnSettings' /\ AnsweredIsRecorded'
    BY <1>1, <1>4 DEF TypeOK, AgentInv, AgentUsesOwnSettings, AnsweredIsRecorded
  <2>4. CrowdInv' /\ SectionInv'
    BY <1>1, <2>2 DEF CrowdInv, SectionInv
  <2>5. MixedInv'
    BY <1>1, <2>2 DEF MixedInv, Name
  <2>6. OwnInv'
    <3> SUFFICES ASSUME NEW q \in Runs \ mixed, pc'[q] \in BeforeStart
                 PROVE  /\ pc'[q] = "staged" => staged'[Name(q)] = q
                        /\ pc'[q] = "deployed" /\ q \in Carries
                              => deployed'[Settings[q]] = q
      BY <1>1 DEF OwnInv, BeforeStart, Name
    <3>1. CASE q = r
      BY <1>1, <1>4, <3>1, PayloadAssumption DEF TypeOK, OwnInv
    <3>2. CASE q # r
      <4>1. Name(q) # Name(r) /\ Settings[q] # Settings[r]
        BY <1>2, <2>2, <3>2, OwnName
      <4>2. staged'[Name(q)] = staged[Name(q)]
        BY <1>4, <4>1, PayloadAssumption DEF TypeOK, Name
      <4>3. deployed'[Settings[q]] = deployed[Settings[q]] /\ pc'[q] = pc[q]
        BY <1>4, <3>2, <4>1, PayloadAssumption DEF TypeOK
      <4> QED BY <4>2, <4>3 DEF OwnInv
    <3> QED BY <3>1, <3>2
  <2> QED BY <2>1, <2>3, <2>4, <2>5, <2>6
<1> QED BY <1>3, <1>4 DEF CopySettings, Goto

LEMMA ExistingStep ==
    ASSUME IInv, NEW r \in Runs, UseExisting(r)
    PROVE  IInv'
<1> USE DEF IInv, RunsInv
<1>1. /\ pc[r] = "registered" /\ r \notin Carries
      /\ UNCHANGED <<runCount, registry, jumpbox, overdue, control, history>>
  BY DEF UseExisting
<1>2. InSection(r)
  BY <1>1 DEF InSection, Section, BeforeStart
<1>3. CASE Fails(r)
  BY <1>1, <1>2, <1>3, FailStep DEF jumpbox
<1>4. CASE pc' = [pc EXCEPT ![r] = "deployed"] /\ UNCHANGED out
  <2> USE DEF registry, jumpbox, control, history
  <2>1. TypeOK'
    BY <1>1, <1>4 DEF TypeOK, Section, BeforeStart
  <2>2. \A q \in Runs : /\ InSection(q)' <=> InSection(q)
                        /\ pc'[q] \in BeforeStart => pc[q] \in BeforeStart
    BY <1>1, <1>4 DEF TypeOK, InSection, Section, BeforeStart
  <2>3. AgentInv' /\ AgentUsesOwnSettings' /\ AnsweredIsRecorded'
    BY <1>1, <1>4 DEF TypeOK, AgentInv, AgentUsesOwnSettings, AnsweredIsRecorded
  <2>4. CrowdInv' /\ SectionInv'
    BY <1>1, <1>4, <2>2 DEF TypeOK, CrowdInv, SectionInv
  <2>5. MixedInv' /\ OwnInv'
    BY <1>1, <1>4, <2>2 DEF TypeOK, MixedInv, OwnInv, Name
  <2> QED BY <2>1, <2>3, <2>4, <2>5
<1> QED BY <1>3, <1>4 DEF UseExisting, Goto

\* The agent gets what is at the deploy target: a run that met no namesake
\* and brought its own settings finds these.
LEMMA StartStep ==
    ASSUME IInv, NEW r \in Runs, StartAgent(r)
    PROVE  IInv'
<1> USE DEF IInv, RunsInv
<1>1. /\ pc[r] = "deployed"
      /\ UNCHANGED <<runCount, registry, staged, deployed, overdue, control, history>>
  BY DEF StartAgent
<1>2. InSection(r)
  BY <1>1 DEF InSection, Section, BeforeStart
<1>3. CASE UNCHANGED <<agent, usedBy>> /\ Fails(r)
  BY <1>1, <1>2, <1>3, FailStep
<1>4. CASE /\ agent' = [agent EXCEPT ![r] = "alive"]
           /\ usedBy' = [usedBy EXCEPT ![r] = deployed[Settings[r]]]
           /\ pc' = [pc EXCEPT ![r] = "streaming"]
           /\ UNCHANGED out
  <2> USE DEF registry, control, history
  <2>1. TypeOK'
    BY <1>1, <1>4, PayloadAssumption DEF TypeOK, MaybeRun, Section, BeforeStart
  <2>2. \A q \in Runs : /\ InSection(q)' <=> InSection(q)
                        /\ pc'[q] \in BeforeStart => pc'[q] = pc[q]
    BY <1>1, <1>4 DEF TypeOK, InSection, Section, BeforeStart
  <2>3. AgentInv' /\ AnsweredIsRecorded'
    BY <1>1, <1>4 DEF TypeOK, AgentInv, AnsweredIsRecorded
  <2>4. AgentUsesOwnSettings'
    BY <1>1, <1>2, <1>4, PayloadAssumption DEF TypeOK, OwnInv, AgentUsesOwnSettings
  <2>5. CrowdInv' /\ SectionInv'
    BY <1>1, <1>4, <2>2 DEF TypeOK, CrowdInv, SectionInv
  <2>6. MixedInv' /\ OwnInv'
    BY <1>1, <2>2 DEF MixedInv, OwnInv, BeforeStart, Name
  <2> QED BY <2>1, <2>3, <2>4, <2>5, <2>6
<1> QED BY <1>3, <1>4 DEF StartAgent, Goto

\* Success is only told of an agent that exited with code 0; a handler whose
\* stream broke gives its agent up.
LEMMA StreamStep ==
    ASSUME IInv, NEW r \in Runs, StreamEnds(r) \/ StreamLost(r)
    PROVE  IInv'
<1> USE DEF IInv, RunsInv, registry, control, Fails, Goto
<1>1. /\ pc[r] = "streaming"
      /\ pc' = [pc EXCEPT ![r] = "unwind"]
      /\ UNCHANGED <<runCount, registry, staged, deployed, usedBy, overdue, control,
                     crowded, mixed, stopped, forgotten>>
  BY DEF StreamEnds, StreamLost, jumpbox, history
<1>2. \/ /\ agent[r] # "alive" /\ UNCHANGED <<agent, abandoned>>
         /\ \/ agent[r] = "exit_ok" /\ out' = [out EXCEPT ![r] = "success"]
            \/ out' = [out EXCEPT ![r] = "failed"]
      \/ /\ agent' \in {agent, [agent EXCEPT ![r] = "exit_bad"]}
         /\ abandoned' = abandoned \cup {r}
         /\ agent[r] = "alive"
         /\ out' = [out EXCEPT ![r] = "failed"]
  BY DEF StreamEnds, StreamLost, jumpbox, history
<1>3. TypeOK'
  <2>1. out' \in [Runs -> {"none", "success", "failed"}]
    BY <1>2 DEF TypeOK
  <2>2. agent' \in [Runs -> {"none", "alive", "exit_ok", "exit_bad"}]
    BY <1>2 DEF TypeOK
  <2> QED BY <1>1, <1>2, <2>1, <2>2 DEF TypeOK, Section
<1>4. \A q \in Runs : /\ InSection(q)' <=> InSection(q)
                      /\ pc'[q] \in BeforeStart => pc'[q] = pc[q]
  BY <1>1 DEF TypeOK, InSection, Section, BeforeStart
<1>5. AgentInv'
  BY <1>1, <1>2 DEF TypeOK, AgentInv
<1>6. AgentUsesOwnSettings' /\ AnsweredIsRecorded'
  BY <1>1 DEF TypeOK, AgentUsesOwnSettings, AnsweredIsRecorded
<1>7. CrowdInv' /\ SectionInv'
  BY <1>1, <1>4 DEF TypeOK, CrowdInv, SectionInv
<1>8. MixedInv' /\ OwnInv'
  BY <1>1, <1>4 DEF MixedInv, OwnInv, BeforeStart, Name
<1> QED BY <1>3, <1>5, <1>6, <1>7, <1>8

\* The handler takes whoever is registered for its target off the registry:
\* itself, unless it has met somebody.
LEMMA UnregisterStep ==
    ASSUME IInv, NEW r \in Runs, Unregister(r)
    PROVE  IInv'
<1> USE DEF IInv, RunsInv, jumpbox, control, history
<1>1. /\ pc[r] = "unwind"
      /\ pc' = [pc EXCEPT ![r] = "record"]
      /\ active' = [active EXCEPT ![Target[r]] = None]
      /\ overdue' = overdue \ {r}
      /\ UNCHANGED <<runCount, completed, out, jumpbox, control, history>>
  BY DEF Unregister, Goto
<1>2. InSection(r)
  BY <1>1 DEF InSection, Section
<1>3. TypeOK'
  BY <1>1, PayloadAssumption DEF TypeOK, MaybeRun, Section
<1>4. \A q \in Runs : /\ InSection(q)' <=> InSection(q) /\ q # r
                      /\ pc'[q] \in BeforeStart => pc'[q] = pc[q]
  BY <1>1 DEF TypeOK, InSection, Section, BeforeStart
<1>5. AgentInv' /\ AgentUsesOwnSettings' /\ AnsweredIsRecorded'
  BY <1>1 DEF TypeOK, AgentInv, AgentUsesOwnSettings, AnsweredIsRecorded
<1>6. CrowdInv'
  BY <1>1, <1>4 DEF CrowdInv
<1>7. SectionInv'
  BY <1>1, <1>2, <1>4, OwnTarget, PayloadAssumption DEF TypeOK, SectionInv
<1>8. MixedInv' /\ OwnInv'
  BY <1>1, <1>4 DEF MixedInv, OwnInv, BeforeStart, Name
<1> QED BY <1>3, <1>5, <1>6, <1>7, <1>8

\* The run whose record is replaced is marked.
LEMMA RecordStep ==
    ASSUME IInv, NEW r \in Runs, Record(r)
    PROVE  IInv'
<1> USE DEF IInv, RunsInv, jumpbox, control
<1>1. /\ pc[r] = "record"
      /\ pc' = [pc EXCEPT ![r] = "done"]
      /\ completed' = [completed EXCEPT ![Target[r]] = r]
      /\ forgotten' = forgotten \cup ({completed[Target[r]]} \ {None})
      /\ UNCHANGED <<runCount, active, out, jumpbox, overdue, control,
                     crowded, mixed, abandoned, stopped>>
  BY DEF Record, Goto
<1>2. TypeOK'
  <2>1. completed[Target[r]] \in MaybeRun /\ forgotten \in SUBSET Runs
    BY PayloadAssumption DEF TypeOK
  <2>2. forgotten' \in SUBSET Runs
    BY <1>1, <2>1 DEF MaybeRun
  <2>3. {crowded, mixed, abandoned, stopped, forgotten}' \subseteq SUBSET Runs
    BY <1>1, <2>2 DEF TypeOK
  <2> QED BY <1>1, <2>3, PayloadAssumption DEF TypeOK, MaybeRun, Section
<1>3. \A q \in Runs : /\ InSection(q)' <=> InSection(q)
                      /\ pc'[q] \in BeforeStart => pc'[q] = pc[q]
  BY <1>1 DEF TypeOK, InSection, Section, BeforeStart
<1>4. AgentInv' /\ AgentUsesOwnSettings'
  BY <1>1 DEF TypeOK, AgentInv, AgentUsesOwnSettings
<1>5. AnsweredIsRecorded'
  <2> SUFFICES ASSUME NEW q \in Runs, pc'[q] = "done"
               PROVE  completed'[Target[q]] = q \/ q \in forgotten'
    BY DEF AnsweredIsRecorded
  <2>1. CASE q = r
    BY <1>1, <2>1, PayloadAssumption DEF TypeOK
  <2>2. CASE q # r
    <3>1. completed[Target[q]] = q \/ q \in forgotten
      BY <1>1, <2>2 DEF TypeOK, AnsweredIsRecorded
    <3> QED BY <1>1, <3>1, NoneAssumption, PayloadAssumption DEF TypeOK
  <2> QED BY <2>1, <2>2
<1>6. CrowdInv' /\ SectionInv'
  BY <1>1, <1>3 DEF CrowdInv, SectionInv
<1>7. MixedInv' /\ OwnInv'
  BY <1>1, <1>3 DEF MixedInv, OwnInv, BeforeStart, Name
<1> QED BY <1>2, <1>4, <1>5, <1>6, <1>7

\* Only agents that run are ended: by a kill, by themselves or with their
\* terminal. Nothing else about the runs changes.
LEMMA AgentsEnd ==
    ASSUME IInv,
           agent' \in [Runs -> {"none", "alive", "exit_ok", "exit_bad"}],
           \A r \in Runs : agent'[r] # agent[r] => agent[r] = "alive",
           UNCHANGED <<runCount, registry, pc, out, staged, deployed, usedBy,
                       crowded, mixed, abandoned, forgotten>>
    PROVE  RunsInv'
<1> USE DEF IInv, RunsInv, registry
<1>1. AgentInv'
  BY DEF TypeOK, AgentInv
<1>2. AgentUsesOwnSettings' /\ AnsweredIsRecorded'
  BY DEF AgentUsesOwnSettings, AnsweredIsRecorded
<1>3. CrowdInv' /\ MixedInv' /\ SectionInv' /\ OwnInv'
  BY DEF CrowdInv, MixedInv, SectionInv, OwnInv, InSection, Name
<1> QED BY <1>1, <1>2, <1>3

LEMMA KillFacts ==
    ASSUME TypeOK, NEW S, Kill(S)
    PROVE  /\ agent' \in [Runs -> {"none", "alive", "exit_ok", "exit_bad"}]
           /\ \A r \in Runs : agent'[r] # agent[r] => agent[r] = "alive" /\ r \in S
BY DEF TypeOK, Kill

LEMMA ActiveType ==
    ASSUME TypeOK
    PROVE  /\ Active \in SUBSET Runs
           /\ \A t \in Targets : active[t] # None => active[t] \in Runs
BY DEF TypeOK, Active, MaybeRun

LEMMA StopLookupStep ==
    ASSUME IInv, (\E t \in Targets : StopLookup(t)) \/ StopAllLookup
    PROVE  IInv'
<1> USE DEF IInv, RunsInv
<1>1. UNCHANGED <<runCount, registry, pc, out, jumpbox, overdue, watch, restarts, history>>
  BY DEF StopLookup, StopAllLookup
<1>2. stops' \in Nat
  BY DEF StopLookup, StopAllLookup, TypeOK
<1>3. stop' \in [hit : SUBSET Runs, runs : SUBSET Runs, on : SUBSET Targets]
  BY ActiveType, PayloadAssumption DEF StopLookup, StopAllLookup, Name
<1>4. TypeOK'
  BY <1>1, <1>2, <1>3 DEF TypeOK, registry, jumpbox, history
<1>5. RunsInv'
  BY <1>1, AgentsEnd DEF TypeOK, jumpbox, history
<1> QED BY <1>4, <1>5

LEMMA StopKillStep ==
    ASSUME IInv, StopKill
    PROVE  IInv'
<1> USE DEF IInv, RunsInv
<1>1. /\ stop # None /\ stop' = None
      /\ Kill(stop.hit)
      /\ stopped' = stopped \cup stop.runs
      /\ UNCHANGED <<runCount, registry, pc, out, staged, deployed, usedBy, overdue, watch,
                     stops, restarts, crowded, mixed, abandoned, forgotten>>
  BY DEF StopKill
<1>2. stopped' \in SUBSET Runs
  BY <1>1 DEF TypeOK
<1>3. TypeOK'
  BY <1>1, <1>2, KillFacts DEF TypeOK, registry
<1>4. RunsInv'
  BY <1>1, KillFacts, AgentsEnd
<1> QED BY <1>3, <1>4

LEMMA WatchKillStep ==
    ASSUME IInv, NEW r \in Runs, WatchKill(r)
    PROVE  IInv'
<1> USE DEF IInv, RunsInv
<1>1. /\ Kill(Matched[Name(r)])
      /\ watch' = [watch EXCEPT !.stuck = @ \ {r}]
      /\ UNCHANGED <<runCount, registry, pc, out, staged, deployed, usedBy, overdue,
                     stop, stops, restarts, history>>
  BY DEF WatchKill
<1>2. watch' \in [at : {"sleep", "kill"}, stuck : SUBSET Runs]
  BY <1>1 DEF TypeOK
<1>3. TypeOK'
  BY <1>1, <1>2, KillFacts DEF TypeOK, registry, history
<1>4. RunsInv'
  BY <1>1, KillFacts, AgentsEnd DEF history
<1> QED BY <1>3, <1>4

LEMMA WatchStep ==
    ASSUME IInv, WatchScan \/ WatchAbort
    PROVE  IInv'
<1> USE DEF IInv, RunsInv
<1>1. UNCHANGED <<runCount, registry, pc, out, jumpbox, overdue, stop, stops, restarts, history>>
  BY DEF WatchScan, WatchAbort
<1>2. watch' \in [at : {"sleep", "kill"}, stuck : SUBSET Runs]
  BY ActiveType DEF WatchScan, WatchAbort
<1>3. TypeOK'
  BY <1>1, <1>2 DEF TypeOK, registry, jumpbox, history
<1>4. RunsInv'
  BY <1>1, AgentsEnd DEF TypeOK, jumpbox, history
<1> QED BY <1>3, <1>4

\* The runs whose record goes are marked.
LEMMA EvictStep ==
    ASSUME IInv, WatchEvict
    PROVE  IInv'
<1> USE DEF IInv, RunsInv, jumpbox
<1>1. PICK old \in SUBSET Targets :
         /\ completed' = [t \in Targets |-> IF t \in old THEN None ELSE completed[t]]
         /\ forgotten' = forgotten \cup ({completed[t] : t \in old} \ {None})
  BY DEF WatchEvict
<1>2. /\ watch' = [at |-> "sleep", stuck |-> {}]
      /\ UNCHANGED <<runCount, active, pc, out, jumpbox, overdue, stop, stops, restarts,
                     crowded, mixed, abandoned, stopped>>
  BY DEF WatchEvict
<1>3. TypeOK'
  BY <1>1, <1>2 DEF TypeOK, MaybeRun
<1>4. AgentInv' /\ AgentUsesOwnSettings'
  BY <1>2 DEF AgentInv, AgentUsesOwnSettings
<1>5. AnsweredIsRecorded'
  BY <1>1, <1>2, NoneAssumption, PayloadAssumption DEF TypeOK, AnsweredIsRecorded
<1>6. CrowdInv' /\ MixedInv' /\ SectionInv' /\ OwnInv'
  BY <1>2 DEF CrowdInv, MixedInv, SectionInv, OwnInv, InSection, Name
<1> QED BY <1>3, <1>4, <1>5, <1>6

LEMMA TimeStep ==
    ASSUME IInv, NEW r \in Runs, Overdue(r) \/ AgentEnds(r)
    PROVE  IInv'
<1> USE DEF IInv, RunsInv
<1>1. /\ agent' \in [Runs -> {"none", "alive", "exit_ok", "exit_bad"}]
      /\ \A q \in Runs : agent'[q] # agent[q] => agent[q] = "alive"
      /\ overdue' \in SUBSET Runs
      /\ UNCHANGED <<runCount, registry, pc, out, staged, deployed, usedBy, control, history>>
  BY DEF Overdue, AgentEnds, TypeOK, jumpbox
<1>2. TypeOK'
  BY <1>1 DEF TypeOK, registry, control, history
<1>3. RunsInv'
  BY <1>1, AgentsEnd DEF history
<1> QED BY <1>2, <1>3

\* No handler is in its section after a restart, and agents whose stream ended
\* with the relay are given up.
LEMMA RestartStep ==
    ASSUME IInv, Restart
    PROVE  IInv'
<1> USE DEF IInv, RunsInv, Restart
<1>1. \A r \in Runs : ~InSection(r)' /\ pc'[r] \notin BeforeStart
  BY DEF TypeOK, InSection, Section, BeforeStart
<1>2. /\ agent' \in [Runs -> {"none", "alive", "exit_ok", "exit_bad"}]
      /\ \A r \in Runs : agent'[r] # agent[r] => agent[r] = "alive"
  BY DEF TypeOK
<1>3. TypeOK'
  BY <1>2 DEF TypeOK, MaybeRun, Section
<1>4. AgentInv'
  BY <1>2 DEF TypeOK, AgentInv
<1>5. AgentUsesOwnSettings' /\ AnsweredIsRecorded'
  BY DEF TypeOK, AgentUsesOwnSettings, AnsweredIsRecorded
<1>6. CrowdInv' /\ SectionInv'
  BY <1>1 DEF CrowdInv, SectionInv
<1>7. MixedInv' /\ OwnInv'
  BY <1>1 DEF MixedInv, OwnInv, BeforeStart
<1> QED BY <1>3, <1>4, <1>5, <1>6, <1>7

LEMMA PreflightStep ==
    ASSUME IInv, NEW r \in Runs, Preflight(r)
    PROVE  IInv'
<1>1. CASE PullFails(r)
  <2>1. pc[r] = "registered" /\ InSection(r)
    BY <1>1 DEF PullFails, InSection, Section, BeforeStart
  <2> QED BY <1>1, <2>1, FailStep DEF PullFails, jumpbox
<1> QED BY <1>1, StageStep, CopyStep, ExistingStep, StartStep DEF Preflight

\* IInv is preserved by every step.
LEMMA StepIInv == IInv /\ [Next]_vars => IInv'
<1> SUFFICES ASSUME IInv, [Next]_vars PROVE IInv'
  OBVIOUS
<1>1. ASSUME NEW r \in Runs, Handler(r) \/ StreamLost(r) PROVE IInv'
  BY <1>1, EntryStep, RegisterStep, PreflightStep, StreamStep, UnregisterStep, RecordStep
     DEF Handler, Finish, StreamTimeout
<1>2. ASSUME NEW r \in Runs, Overdue(r) \/ AgentEnds(r) PROVE IInv'
  BY <1>2, TimeStep
<1>3. CASE (\E t \in Targets : StopLookup(t)) \/ StopAllLookup \/ StopKill
  BY <1>3, StopLookupStep, StopKillStep
<1>4. CASE Watchdog
  BY <1>4, WatchStep, WatchKillStep, EvictStep DEF Watchdog
<1>5. CASE Restart
  BY <1>5, RestartStep
<1>6. CASE UNCHANGED vars
  <2>1. TypeOK'
    BY <1>6 DEF vars, registry, jumpbox, control, history, IInv, RunsInv, TypeOK
  <2>2. RunsInv'
    BY <1>6, AgentsEnd DEF vars, jumpbox, history, IInv, RunsInv, TypeOK
  <2> QED BY <2>1, <2>2 DEF IInv, RunsInv
<1> QED BY <1>1, <1>2, <1>3, <1>4, <1>5, <1>6 DEF Next

\* The inductive invariant holds in every reachable state.
LEMMA Invariance == Spec => []IInv
BY InitIInv, StepIInv, PTL DEF Spec

-----------------------------------------------------------------------------
(* What it says of the code.                                               *)

\* The dictionaries, the files and every handler's place keep their types.
THEOREM TypeCorrect == Spec => []TypeOK
<1>1. IInv => TypeOK
  BY DEF IInv, RunsInv
<1> QED BY <1>1, Invariance, PTL

\* workflow.stop, workflow.list and the watchdog find every agent that runs,
\* unless its stream ended before it did or its run met another one past the
\* check of handle_workflow.
THEOREM AgentsAreListed == Spec => []AliveIsListed
<1>1. IInv => AliveIsListed
  BY DEF IInv, RunsInv, AgentInv, SectionInv, InSection, Section, AliveIsListed
<1> QED BY <1>1, Invariance, PTL

\* Staging all settings in /tmp under their base name and copying them later
\* never gives an agent the settings of another run, unless its run was in
\* pre-flight together with one whose settings file has the same base name.
THEOREM OwnSettings == Spec => []AgentUsesOwnSettings
<1>1. IInv => AgentUsesOwnSettings
  BY DEF IInv, RunsInv
<1> QED BY <1>1, Invariance, PTL

\* However streams, kills, timeouts and restarts interleave, success is only
\* reported of an agent that exited with code 0.
THEOREM SuccessIsTrue == Spec => []SuccessMeansExited
<1>1. IInv => SuccessMeansExited
  BY DEF IInv, RunsInv, AgentInv, SuccessMeansExited
<1> QED BY <1>1, Invariance, PTL

\* The outcome of an answered run, and not just one of its target, can be looked
\* up until it is evicted, replaced by the next run's or the relay restarts.
THEOREM AnsweredOnRecord == Spec => []AnsweredIsRecorded
<1>1. IInv => AnsweredIsRecorded
  BY DEF IInv, RunsInv
<1> QED BY <1>1, Invariance, PTL

-----------------------------------------------------------------------------
(* The stop command.                                                       *)

\* A target's entry is a run for this target.
RegistryInv == \A t \in Targets : active[t] # None => Target[active[t]] = t

\* Whom a pending stop command will kill.
StopInv ==
    stop # None => \A r \in stop.hit :
        \/ Target[r] \in stop.on
        \/ \E q \in Runs : Target[q] \in stop.on /\ r \in Matched[Name(q)]

\* Who writes the registry, and who begins a stop.
LEMMA RegistryAndStop ==
    ASSUME TypeOK, [Next]_vars
    PROVE  /\ \/ active' = active
              \/ \E r \in Runs : \E p \in {r, None} : active' = [active EXCEPT ![Target[r]] = p]
              \/ active' = [t \in Targets |-> None]
           /\ \/ stop' \in {stop, None}
              \/ (\E t \in Targets : StopLookup(t)) \/ StopAllLookup
<1> USE DEF registry, control
<1>1. ASSUME NEW r \in Runs, Handler(r) \/ StreamLost(r) \/ Overdue(r) \/ AgentEnds(r)
      PROVE  /\ stop' = stop
             /\ active' = active \/ \E p \in {r, None} : active' = [active EXCEPT ![Target[r]] = p]
  BY <1>1 DEF Handler, Count, Refuse, Check, Register, Preflight, PullFails, StageSettings,
     CopySettings, UseExisting, StartAgent, Finish, StreamEnds, StreamTimeout, StreamLost,
     Unregister, Record, Overdue, AgentEnds
<1>2. CASE (\E t \in Targets : StopLookup(t)) \/ StopAllLookup \/ StopKill
  BY <1>2 DEF StopLookup, StopAllLookup, StopKill
<1>3. CASE Watchdog
  BY <1>3 DEF Watchdog, WatchScan, WatchKill, WatchEvict, WatchAbort
<1>4. CASE Restart
  BY <1>4 DEF Restart
<1>5. CASE UNCHANGED vars
  BY <1>5 DEF vars
<1> QED BY <1>1, <1>2, <1>3, <1>4, <1>5 DEF Next

LEMMA StepRegistryInv ==
    ASSUME TypeOK, RegistryInv, [Next]_vars
    PROVE  RegistryInv'
<1>1. CASE active' = active
  BY <1>1 DEF RegistryInv
<1>2. ASSUME NEW r \in Runs, NEW p \in {r, None}, active' = [active EXCEPT ![Target[r]] = p]
      PROVE  RegistryInv'
  BY <1>2 DEF TypeOK, RegistryInv
<1>3. CASE active' = [t \in Targets |-> None]
  BY <1>3 DEF RegistryInv
<1> QED BY <1>1, <1>2, <1>3, RegistryAndStop

LEMMA StepStopInv ==
    ASSUME TypeOK, RegistryInv, StopInv, [Next]_vars
    PROVE  StopInv'
<1>1. ASSUME NEW t \in Targets, StopLookup(t) PROVE StopInv'
  <2>1. /\ active[t] \in Runs
        /\ Target[active[t]] = t
        /\ stop' = [hit |-> Matched[Name(active[t])], runs |-> {active[t]}, on |-> {t}]
    BY <1>1, ActiveType DEF StopLookup, RegistryInv
  <2> QED BY <2>1 DEF StopInv, Name
<1>2. CASE StopAllLookup
  BY <1>2, PayloadAssumption DEF StopAllLookup, StopInv
<1>3. CASE stop' \in {stop, None}
  BY <1>3 DEF StopInv, Name
<1> QED BY <1>1, <1>2, <1>3, RegistryAndStop

\* The step that ends a stop command is its kill, unless the relay restarts.
LEMMA StopEnds ==
    ASSUME TypeOK, Next, stop # None, stop' = None, restarts' = restarts
    PROVE  StopKill
<1> USE DEF registry, control
<1>1. ASSUME NEW r \in Runs, Handler(r) \/ StreamLost(r) \/ Overdue(r) \/ AgentEnds(r)
      PROVE  stop' = stop
  BY <1>1 DEF Handler, Count, Refuse, Check, Register, Preflight, PullFails, StageSettings,
     CopySettings, UseExisting, StartAgent, Finish, StreamEnds, StreamTimeout, StreamLost,
     Unregister, Record, Overdue, AgentEnds
<1>2. ~StopAllLookup /\ \A t \in Targets : ~StopLookup(t)
  BY DEF StopAllLookup, StopLookup
<1>3. Watchdog => stop' = stop
  BY DEF Watchdog, WatchScan, WatchKill, WatchEvict, WatchAbort
<1>4. ~Restart
  BY DEF Restart, TypeOK
<1> QED BY <1>1, <1>2, <1>3, <1>4 DEF Next

\* A stop command ends an agent on another target only if a settings file used
\* on the stopped one has a name that occurs in its command line, whatever
\* happens between the lookup and the kill.
THEOREM StopSpares == Spec => StopSparesOthers
<1>1. Init => RegistryInv /\ StopInv
  BY DEF Init, RegistryInv, StopInv
<1>2. TypeOK /\ RegistryInv /\ StopInv /\ [Next]_vars => RegistryInv' /\ StopInv'
  BY StepRegistryInv, StepStopInv
<1>3. TypeOK /\ StopInv /\ [Next]_vars =>
        [\A r \in Runs :
            /\ stop # None /\ stop' = None /\ restarts' = restarts
            /\ agent[r] = "alive" /\ agent'[r] # "alive"
            => \/ Target[r] \in stop.on
               \/ \E q \in Runs : Target[q] \in stop.on /\ r \in Matched[Name(q)]]_vars
  <2> SUFFICES ASSUME TypeOK, StopInv, Next, NEW r \in Runs,
                      stop # None, stop' = None, restarts' = restarts,
                      agent[r] = "alive", agent'[r] # "alive"
               PROVE  \/ Target[r] \in stop.on
                      \/ \E q \in Runs : Target[q] \in stop.on /\ r \in Matched[Name(q)]
    OBVIOUS
  <2>1. Kill(stop.hit)
    BY StopEnds DEF StopKill
  <2>2. r \in stop.hit
    BY <2>1, KillFacts
  <2> QED BY <2>2 DEF StopInv
<1> QED BY <1>1, <1>2, <1>3, TypeCorrect, PTL DEF Spec, StopSparesOthers

-----------------------------------------------------------------------------
(* How many agents.                                                        *)

\* Of two agents on one target one is known to have raced another run past the
\* check, or to have been given up by its handler.
AgentsApart ==
    \A q, r \in Runs :
        agent[q] = "alive" /\ agent[r] = "alive" /\ Target[q] = Target[r] /\ q # r
        => {q, r} \cap (crowded \cup abandoned) # {}

\* What handle_workflow's check is worth: a target has two agents only after a
\* race of two runs between check and registration, or if the stream of one
\* ended before its agent.
THEOREM OneAgentUnlessRaced == Spec => []AgentsApart
<1>1. AliveIsListed => AgentsApart
  BY DEF AliveIsListed, AgentsApart
<1> QED BY <1>1, AgentsAreListed, PTL

Started == {r \in Runs : agent[r] # "none"}

\* max_total_runs: no relay process starts more agents than its limit.
AgentsLimited ==
    IsFiniteSet(Started) /\ Cardinality(Started) <= MaxRuns * (restarts + 1)

\* The runs let in by the limit, of which the present process has the last ones.
Admitted == {r \in Runs : pc[r] \notin {"new", "refused"}}

LimitInv ==
    /\ \A r \in Started : pc[r] \in {"streaming", "unwind", "record", "done", "dead"}
    /\ IsFiniteSet(Admitted)
    /\ \E n \in 0..MaxRuns : n <= runCount /\ Cardinality(Admitted) <= MaxRuns * restarts + n

\* All but the two steps that count let nobody in.
LEMMA LimitFrame ==
    ASSUME TypeOK, LimitInv, UNCHANGED <<runCount, restarts>>, Admitted' \subseteq Admitted,
           \A r \in Started' : pc'[r] \in {"streaming", "unwind", "record", "done", "dead"}
    PROVE  LimitInv'
<1>1. IsFiniteSet(Admitted') /\ Cardinality(Admitted') <= Cardinality(Admitted)
  BY FS_Subset DEF LimitInv
<1>2. Cardinality(Admitted) \in Nat /\ Cardinality(Admitted') \in Nat
  BY <1>1, FS_CardinalityType DEF LimitInv
<1>3. PICK n \in 0..MaxRuns : n <= runCount /\ Cardinality(Admitted) <= MaxRuns * restarts + n
  BY DEF LimitInv
<1>4. MaxRuns * restarts \in Nat
  BY BoundAssumption DEF TypeOK
<1>5. Cardinality(Admitted') <= MaxRuns * restarts + n
  BY <1>1, <1>2, <1>3, <1>4, BoundAssumption
<1> QED BY <1>1, <1>3, <1>5 DEF LimitInv

LEMMA LimitCount ==
    ASSUME TypeOK, LimitInv, NEW r \in Runs, Count(r)
    PROVE  LimitInv'
<1> USE DEF jumpbox, control
<1>1. CASE runCount + 1 > MaxRuns
  <2>1. pc' = [pc EXCEPT ![r] = "refused"]
    BY <1>1 DEF Count, Goto
  <2>2. Admitted' \subseteq Admitted /\ Started' = Started
    BY <2>1 DEF Count, Admitted, Started, TypeOK
  <2>3. \A q \in Started' : pc'[q] \in {"streaming", "unwind", "record", "done", "dead"}
    BY <2>1, <2>2 DEF Count, LimitInv, TypeOK
  <2>4. PICK n \in 0..MaxRuns : n <= runCount /\ Cardinality(Admitted) <= MaxRuns * restarts + n
    BY DEF LimitInv
  <2>5. IsFiniteSet(Admitted') /\ Cardinality(Admitted') <= Cardinality(Admitted)
    BY <2>2, FS_Subset DEF LimitInv
  <2>6. Cardinality(Admitted) \in Nat /\ Cardinality(Admitted') \in Nat
    BY <2>5, FS_CardinalityType DEF LimitInv
  <2>7. MaxRuns * restarts \in Nat /\ runCount \in Nat /\ n \in Nat
    BY BoundAssumption DEF TypeOK
  <2>8. n <= runCount' /\ Cardinality(Admitted') <= MaxRuns * restarts' + n
    BY <2>4, <2>5, <2>6, <2>7 DEF Count
  <2> QED BY <2>3, <2>5, <2>8 DEF LimitInv
<1>2. CASE ~(runCount + 1 > MaxRuns)
  <2>1. pc[r] = "new" /\ pc' = [pc EXCEPT ![r] = "counted"]
    BY <1>2 DEF Count, Goto
  <2>2. Admitted' = Admitted \cup {r} /\ Started' = Started /\ r \notin Admitted
    BY <2>1 DEF Count, Admitted, Started, TypeOK
  <2>3. \A q \in Started' : pc'[q] \in {"streaming", "unwind", "record", "done", "dead"}
    BY <2>1, <2>2 DEF LimitInv, TypeOK
  <2>4. PICK n \in 0..MaxRuns : n <= runCount /\ Cardinality(Admitted) <= MaxRuns * restarts + n
    BY DEF LimitInv
  <2>5. IsFiniteSet(Admitted') /\ Cardinality(Admitted') = Cardinality(Admitted) + 1
    BY <2>2, FS_AddElement DEF LimitInv
  <2>6. Cardinality(Admitted) \in Nat
    BY FS_CardinalityType DEF LimitInv
  <2>7. MaxRuns * restarts \in Nat /\ runCount \in Nat /\ n \in Nat
    BY BoundAssumption DEF TypeOK
  <2>8. /\ n + 1 \in 0..MaxRuns /\ n + 1 <= runCount'
        /\ Cardinality(Admitted') <= MaxRuns * restarts' + (n + 1)
    BY <1>2, <2>4, <2>5, <2>6, <2>7, BoundAssumption DEF Count
  <2> QED BY <2>3, <2>5, <2>8 DEF LimitInv
<1> QED BY <1>1, <1>2

LEMMA LimitRestart ==
    ASSUME TypeOK, LimitInv, Restart
    PROVE  LimitInv'
<1>1. \A r \in Runs : pc'[r] = IF pc[r] \in {"new", "done", "refused"} THEN pc[r] ELSE "dead"
  BY DEF Restart
<1>2. Admitted' = Admitted /\ Started' = Started
  BY <1>1 DEF Restart, Admitted, Started, TypeOK
<1>3. \A q \in Started' : pc'[q] \in {"streaming", "unwind", "record", "done", "dead"}
  BY <1>1, <1>2 DEF LimitInv, Started
<1>4. PICK n \in 0..MaxRuns : n <= runCount /\ Cardinality(Admitted) <= MaxRuns * restarts + n
  BY DEF LimitInv
<1>5. Cardinality(Admitted) \in Nat
  BY FS_CardinalityType DEF LimitInv
<1>6. MaxRuns \in Nat /\ restarts \in Nat /\ MaxRuns * restarts \in Nat
  BY BoundAssumption DEF TypeOK
<1>7. MaxRuns * (restarts + 1) = MaxRuns * restarts + MaxRuns
  BY <1>6
<1>8. restarts' = restarts + 1 /\ runCount' = 0
  BY DEF Restart
<1>9. Cardinality(Admitted') <= MaxRuns * restarts' + 0 /\ 0 <= runCount' /\ 0 \in 0..MaxRuns
  BY <1>2, <1>4, <1>5, <1>6, <1>7, <1>8
<1> QED BY <1>2, <1>3, <1>9 DEF LimitInv

LEMMA LimitStep ==
    ASSUME TypeOK, LimitInv, [Next]_vars
    PROVE  LimitInv'
<1> DEFINE Late == {"streaming", "unwind", "record", "done", "dead"}
           Goal == /\ UNCHANGED <<runCount, restarts>> /\ Admitted' \subseteq Admitted
                   /\ \A r \in Started' : pc'[r] \in Late
<1> USE DEF jumpbox, control
<1>1. ASSUME NEW r \in Runs, NEW to, pc' = [pc EXCEPT ![r] = to], UNCHANGED <<runCount, restarts>>,
             \/ UNCHANGED agent /\ to \in {"refused", "checked", "registered", "staged", "deployed"}
                /\ pc[r] \in {"counted", "checked", "registered", "staged", "deployed"}
             \/ /\ to \in {"streaming", "unwind", "record", "done"} /\ pc[r] \notin {"new", "refused"}
                /\ \A q \in Runs \ {r} : agent'[q] = agent[q]
      PROVE  Goal
  <2>1. Admitted' \subseteq Admitted
    BY <1>1 DEF Admitted, TypeOK
  <2>2. \A q \in Started' : pc'[q] \in Late
    BY <1>1 DEF Started, LimitInv, TypeOK
  <2> QED BY <1>1, <2>1, <2>2
<1>2. ASSUME NEW r \in Runs, Refuse(r) \/ Check(r) \/ Register(r) PROVE Goal
  BY <1>1, <1>2 DEF Refuse, Check, Register, Goto, BeforeStart
<1>3. ASSUME NEW r \in Runs, PullFails(r) \/ StageSettings(r) \/ CopySettings(r) \/ UseExisting(r)
      PROVE  Goal
  BY <1>1, <1>3 DEF PullFails, StageSettings, CopySettings, UseExisting, Goto, Fails
<1>4. ASSUME NEW r \in Runs, StartAgent(r) PROVE Goal
  BY <1>1, <1>4 DEF StartAgent, Goto, Fails, TypeOK
<1>5. ASSUME NEW r \in Runs, StreamEnds(r) \/ StreamLost(r) PROVE Goal
  BY <1>1, <1>5 DEF StreamEnds, StreamLost, Goto, Fails, TypeOK
<1>6. ASSUME NEW r \in Runs, Unregister(r) \/ Record(r) PROVE Goal
  BY <1>1, <1>6 DEF Unregister, Record, Goto
<1>7. ASSUME UNCHANGED <<pc, runCount, restarts>>,
             \A r \in Runs : agent'[r] # agent[r] => agent[r] = "alive"
      PROVE  Goal
  BY <1>7 DEF Admitted, Started, LimitInv, TypeOK
<1>8. ASSUME NEW r \in Runs, Overdue(r) \/ AgentEnds(r) PROVE Goal
  BY <1>7, <1>8 DEF Overdue, AgentEnds, TypeOK
<1>9. ASSUME StopAllLookup \/ StopKill \/ (\E t \in Targets : StopLookup(t)) \/ Watchdog
      PROVE  Goal
  BY <1>7, <1>9, KillFacts DEF StopAllLookup, StopKill, StopLookup, Watchdog, WatchScan,
     WatchKill, WatchEvict, WatchAbort
<1>10. ASSUME UNCHANGED vars PROVE Goal
  BY <1>7, <1>10 DEF vars
<1>11. Goal => LimitInv'
  BY LimitFrame
<1>12. ASSUME NEW r \in Runs, Handler(r) \/ StreamLost(r) \/ Overdue(r) \/ AgentEnds(r)
       PROVE  LimitInv'
  BY <1>2, <1>3, <1>4, <1>5, <1>6, <1>8, <1>11, <1>12, LimitCount
     DEF Handler, Preflight, Finish, StreamTimeout
<1> HIDE DEF Goal
<1> QED BY <1>9, <1>10, <1>11, <1>12, LimitRestart DEF Next

\* However runs, refusals and restarts alternate, no relay process starts more
\* agents than max_total_runs: the counter is incremented and read in one
\* locked section, and a refused run gives its number back to nobody.
THEOREM RunsAreLimited == Spec => []AgentsLimited
<1>1. Init => LimitInv
  <2> SUFFICES ASSUME Init PROVE LimitInv
    OBVIOUS
  <2>1. Admitted = {} /\ Started = {}
    BY DEF Init, Admitted, Started
  <2>2. IsFiniteSet(Admitted) /\ Cardinality(Admitted) = 0
    BY <2>1, FS_EmptySet
  <2>3. 0 \in 0..MaxRuns /\ 0 <= runCount /\ 0 <= MaxRuns * restarts + 0
    BY BoundAssumption DEF Init
  <2> QED BY <2>1, <2>2, <2>3 DEF LimitInv
<1>2. TypeOK /\ LimitInv /\ [Next]_vars => LimitInv'
  BY LimitStep
<1>3. TypeOK /\ LimitInv => AgentsLimited
  <2> SUFFICES ASSUME TypeOK, LimitInv PROVE AgentsLimited
    OBVIOUS
  <2>1. Started \subseteq Admitted
    BY DEF LimitInv, Started, Admitted
  <2>2. IsFiniteSet(Started) /\ Cardinality(Started) <= Cardinality(Admitted)
    BY <2>1, FS_Subset DEF LimitInv
  <2>3. Cardinality(Started) \in Nat /\ Cardinality(Admitted) \in Nat
    BY <2>2, FS_CardinalityType DEF LimitInv
  <2>4. PICK n \in 0..MaxRuns : n <= runCount /\ Cardinality(Admitted) <= MaxRuns * restarts + n
    BY DEF LimitInv
  <2>5. MaxRuns \in Nat /\ restarts \in Nat /\ MaxRuns * restarts \in Nat
    BY BoundAssumption DEF TypeOK
  <2>6. MaxRuns * (restarts + 1) = MaxRuns * restarts + MaxRuns
    BY <2>5
  <2> QED BY <2>2, <2>3, <2>4, <2>5, <2>6 DEF AgentsLimited
<1> QED BY <1>1, <1>2, <1>3, TypeCorrect, PTL DEF Spec
=============================================================================
