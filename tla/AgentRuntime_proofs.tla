------------------------ MODULE AgentRuntime_proofs ------------------------
(***************************************************************************)
(* Theorems about AgentRuntime, for every set of worlds and observers and   *)
(* every value of max_retries, max_replans and max_steps.                   *)
(***************************************************************************)
EXTENDS AgentRuntime, FiniteSetTheorems, TLAPS

-----------------------------------------------------------------------------
(* Lemmas about the hooks *)

(* n calls of remember() give counts, and only RAISE lets one propagate.   *)
LEMMA RememberType ==
  ASSUME policy \in Policies, NEW n \in Nat, NEW m \in RememberResults(n)
  PROVE  /\ m.stored \in Nat /\ m.lost \in Nat /\ m.raises \in BOOLEAN
         /\ m.raises => policy = "raise"
         /\ policy = "raise" => m.lost = 0
BY DEF RememberResults

(* However many observers raise, the diagnostics stay counts.              *)
LEMMA FailingType ==
  ASSUME NEW failing \in SUBSET FaultyObservers
  PROVE  Cardinality(failing) \in Nat
BY RuntimeAssumption, FS_Subset, FS_CardinalityType

(* Remembering and emitting keep the types of what they change.            *)
LEMMA HooksType ==
  ASSUME TypeOK, NEW n \in Nat, NEW m \in RememberResults(n), NEW e \in Events,
         Remembered(m), Silent(m) \/ Emitted(e, m)
  PROVE  /\ recorded' \in Nat
         /\ sinkFailed' \in BOOLEAN
         /\ diagnostics' \in Diagnostics
         /\ seen' \in [Observers -> Seq(Events)]
<1>1. /\ m.stored \in Nat /\ m.lost \in Nat /\ m.raises \in BOOLEAN
  BY RememberType DEF TypeOK
<1>2. diagnostics.memory \in Nat /\ diagnostics.observer \in Nat
  BY DEF TypeOK, Diagnostics
<1>3. recorded' \in Nat /\ sinkFailed' \in BOOLEAN
  BY <1>1 DEF TypeOK, Remembered
<1>4. CASE Silent(m)
  BY <1>1, <1>2, <1>3, <1>4 DEF TypeOK, Silent, Diagnostics
<1>5. CASE Emitted(e, m)
  <2>1. diagnostics' \in Diagnostics
    BY <1>1, <1>2, <1>5, FailingType DEF Emitted, Diagnostics
  <2>2. seen' \in [Observers -> Seq(Events)]
    BY <1>5 DEF TypeOK, Emitted
  <2> QED
    BY <1>3, <2>1, <2>2
<1> QED
  BY <1>4, <1>5

-----------------------------------------------------------------------------
(* The control invariant *)

IInv == TypeOK /\ Control

LEMMA EmptyPlan == <<>> \in Plans
<1>1. <<>> \in [1..0 -> StepKinds]
  OBVIOUS
<1> QED
  BY <1>1, RuntimeAssumption DEF Plans

(* A plan is a sequence of at most max_steps steps.                        *)
LEMMA PlanType ==
  ASSUME NEW p \in Plans
  PROVE  /\ p \in Seq(StepKinds)
         /\ Len(p) \in 0..MaxSteps
         /\ p # <<>> => Len(p) > 0
<1>1. PICK n \in 0..MaxSteps : p \in [1..n -> StepKinds]
  BY DEF Plans
<1>2. n \in Nat
  BY RuntimeAssumption
<1>3. p \in Seq(StepKinds) /\ Len(p) = n
  BY <1>1, <1>2
<1> QED
  BY <1>2, <1>3

LEMMA InitIInv == Init => IInv
<1> SUFFICES ASSUME Init PROVE IInv
  OBVIOUS
<1> USE RuntimeAssumption
<1>1. TypeOK
  <2>1. pc \in Labels /\ status \in Statuses /\ error \in Errors
    BY DEF Init, Labels, Statuses, Errors, NoError
  <2>2. /\ replans \in 0..MaxReplans /\ plan \in Plans /\ index \in 1..MaxSteps
        /\ attempt \in 0..MaxRetries
    BY EmptyPlan DEF Init
  <2>3. trace \in Seq(Records) /\ planHistory \in Seq(Plans) /\ reports \in Seq(Reports)
    BY DEF Init
  <2>4. seen \in [Observers -> Seq(Events)]
    BY DEF Init
  <2>5. /\ policy \in Policies /\ world \in Worlds /\ recorded \in Nat
        /\ sinkFailed \in BOOLEAN /\ diagnostics \in Diagnostics
    BY DEF Init, NoDiagnostics, Diagnostics
  <2> QED
    BY <2>1, <2>2, <2>3, <2>4, <2>5 DEF TypeOK
<1>2. Control
  BY DEF Init, Control, StatusAtPlace, ErrorAtPlace, PlanInHand, NoError,
     PlanHistoryMatchesReplans, Unplanned, Replanning, PlanningStages
<1> QED
  BY <1>1, <1>2 DEF IInv

(* Any outcome of a step is a world and two flags; one that raised has the *)
(* world before the step.                                                  *)
LEMMA OutcomeType ==
  ASSUME TypeOK, NEW kind, NEW o \in TryStep(kind, world)
  PROVE  /\ o.world \in Worlds /\ o.passed \in BOOLEAN /\ o.raised \in BOOLEAN
         /\ o.raised => o.world = world
<1>1. world \in Worlds
  BY DEF TypeOK
<1>2. CASE kind = "skill"
  <2>1. CASE o = [world |-> world, passed |-> FALSE, raised |-> TRUE]
    BY <1>1, <2>1
  <2>2. CASE o \in [world : Worlds, passed : BOOLEAN, raised : {FALSE}]
    BY <2>2
  <2> QED
    BY <1>2, <2>1, <2>2 DEF TryStep, SkillOutcomes
<1>3. CASE kind # "skill"
  <2>1. CASE o = [world |-> world, passed |-> FALSE, raised |-> TRUE]
    BY <1>1, <2>1
  <2>2. CASE o = [world |-> world, passed |-> TRUE, raised |-> FALSE]
    BY <1>1, <2>2
  <2> QED
    BY <1>3, <2>1, <2>2 DEF TryStep, ToolOutcomes
<1> QED
  BY <1>2, <1>3

LEMMA NextIInv == IInv /\ [Next]_vars => IInv'
<1> SUFFICES ASSUME IInv, [Next]_vars PROVE IInv'
  OBVIOUS
<1> USE RuntimeAssumption
<1> USE DEF IInv
<1>1. ASSUME NEW w \in Worlds, Run(w) PROVE IInv'
  <2>1. TypeOK'
    <3>1. (pc \in Labels /\ status \in Statuses /\ error \in Errors)'
      BY <1>1 DEF Run, Reset, Labels, Statuses, Errors, NoError
    <3>2. (/\ replans \in 0..MaxReplans /\ plan \in Plans /\ index \in 1..MaxSteps
           /\ attempt \in 0..MaxRetries)'
      BY <1>1, EmptyPlan DEF Run, Reset
    <3>3. (/\ trace \in Seq(Records) /\ planHistory \in Seq(Plans)
           /\ reports \in Seq(Reports))'
      BY <1>1 DEF Run, Reset
    <3>4. (seen \in [Observers -> Seq(Events)])'
      BY <1>1 DEF Run, Reset
    <3>5. (/\ policy \in Policies /\ world \in Worlds /\ recorded \in Nat
           /\ sinkFailed \in BOOLEAN /\ diagnostics \in Diagnostics)'
      BY <1>1 DEF Run, Reset, TypeOK, NoDiagnostics, Diagnostics
    <3> QED
      BY <3>1, <3>2, <3>3, <3>4, <3>5 DEF TypeOK
  <2>2. Control'
    BY <1>1 DEF Run, Reset, Control, StatusAtPlace, ErrorAtPlace, PlanInHand, NoError,
       PlanHistoryMatchesReplans, Unplanned, Replanning, PlanningStages
  <2> QED
    BY <2>1, <2>2
<1>2. ASSUME StartTask PROVE IInv'
  <2>1. PICK m \in RememberResults(1) :
          /\ Remembered(m)
          /\ \/ m.raises /\ pc' = "raised" /\ Silent(m)
             \/ /\ ~m.raises /\ pc' = "prepare"
                /\ Emitted(Event("task_started", world, status, 0, 0), m)
    BY <1>2 DEF StartTask
  <2>2. Event("task_started", world, status, 0, 0) \in Events
    BY DEF TypeOK, Events, EventKinds, Event
  <2>3. TypeOK'
    BY <1>2, <2>1, <2>2, HooksType DEF StartTask, TypeOK, Labels, loopVars
  <2>4. Control'
    BY <1>2, <2>1 DEF StartTask, Control, StatusAtPlace, ErrorAtPlace, PlanInHand,
       NoError, PlanHistoryMatchesReplans, Unplanned, Replanning, PlanningStages,
       loopVars, TypeOK
  <2> QED
    BY <2>3, <2>4
<1>3. ASSUME PreparePlan PROVE IInv'
  <2>1. PICK p \in Prepared(world) : Begin(p)
    BY <1>3 DEF PreparePlan
  <2>2. p \in Plans /\ planHistory \in Seq(Plans) /\ Len(planHistory) = 0
    BY <1>3 DEF Prepared, TypeOK, PreparePlan, Control, PlanHistoryMatchesReplans,
       Unplanned
  <2>3. TypeOK'
    BY <1>3, <2>1, <2>2 DEF PreparePlan, Begin, TypeOK, Labels, hookVars
  <2>4. Control'
    BY <1>3, <2>1, <2>2, PlanType DEF PreparePlan, Begin, Control, StatusAtPlace,
       ErrorAtPlace, PlanInHand, NoError, PlanHistoryMatchesReplans, Unplanned,
       Replanning, PlanningStages, TypeOK
  <2> QED
    BY <2>3, <2>4
<1>4. ASSUME PrepareFails PROVE IInv'
  <2>1. TypeOK'
    BY <1>4 DEF PrepareFails, TypeOK, Labels, Errors, hookVars, loopVars
  <2>2. Control'
    BY <1>4 DEF PrepareFails, Control, StatusAtPlace, ErrorAtPlace, PlanInHand,
       NoError, PlanHistoryMatchesReplans, Unplanned, Replanning, PlanningStages,
       loopVars
  <2> QED
    BY <2>1, <2>2
<1>5. ASSUME Attempt PROVE IInv'
  <2>0. PICK o \in TryStep(plan[index], world) :
          \E m \in RememberResults(IF o.raised THEN 2 ELSE 1) : Tried(o, m)
    BY <1>5 DEF Attempt
  <2>1. PICK m \in RememberResults(IF o.raised THEN 2 ELSE 1) : Tried(o, m)
    BY <2>0
  <2> DEFINE e == Event("step_result", o.world, NoTask, 0, Len(trace) + 1)
  <2>2. o.world \in Worlds /\ o.passed \in BOOLEAN /\ o.raised \in BOOLEAN
    BY OutcomeType
  <2>3. /\ pc = "execute" /\ status = "running" /\ error = NoError
        /\ Len(planHistory) = replans + 1
        /\ plan = planHistory[Len(planHistory)] /\ index \in 1..Len(plan)
        /\ Len(plan) \in 1..MaxSteps
    BY <1>5, PlanType DEF Attempt, Control, StatusAtPlace, ErrorAtPlace, PlanInHand,
       NoError, PlanHistoryMatchesReplans, Unplanned, Replanning, PlanningStages,
       TypeOK
  <2>4. e \in Events
    BY <2>2 DEF TypeOK, Events, EventKinds, Event
  <2>5. StepRecord(o) \in Records
    BY <2>2, <2>3 DEF StepRecord, Records, TypeOK
  <2>6. (/\ recorded \in Nat /\ sinkFailed \in BOOLEAN
         /\ diagnostics \in Diagnostics /\ seen \in [Observers -> Seq(Events)])'
    <3> DEFINE n == IF o.raised THEN 2 ELSE 1
    <3>1. n \in Nat
      OBVIOUS
    <3>2. m \in RememberResults(n)
      OBVIOUS
    <3> HIDE DEF n, e
    <3> QED
      BY <2>1, <2>4, <3>1, <3>2, HooksType DEF e, Tried
  <2>7. (/\ pc \in Labels /\ world \in Worlds /\ index \in 1..MaxSteps
         /\ attempt \in 0..MaxRetries)'
    <3>1. /\ world \in Worlds /\ attempt \in 0..MaxRetries
          /\ index \in 1..MaxSteps
      BY DEF TypeOK
    <3>2. CASE m.raises
      BY <2>1, <3>1, <3>2 DEF Tried, Labels
    <3>3. CASE StepPassed(o)
      <4>1. pc' \in {"finalize", "execute"} /\ world' \in Worlds
        BY <2>2, <3>3 DEF StepPassed
      <4>2. (attempt \in 0..MaxRetries)'
        BY <3>1, <3>3 DEF StepPassed
      <4>3. index' \in 1..MaxSteps
        BY <2>3, <3>1, <3>3 DEF StepPassed
      <4> QED
        BY <4>1, <4>2, <4>3 DEF Labels
    <3>4. CASE StepRetried(o)
      <4>1. attempt + 1 \in 0..MaxRetries
        BY <3>1, <3>4 DEF StepRetried
      <4> QED
        BY <2>3, <3>1, <3>4, <4>1 DEF StepRetried, Labels
    <3>5. CASE StepExhausted(o)
      BY <2>2, <3>1, <3>5 DEF StepExhausted, Labels
    <3> QED
      BY <2>1, <3>2, <3>3, <3>4, <3>5 DEF Tried
  <2>8. TypeOK'
    BY <1>5, <2>1, <2>5, <2>6, <2>7 DEF Attempt, Tried, TypeOK
  <2>9. Control'
    BY <1>5, <2>1, <2>3 DEF Attempt, Tried, Control, StatusAtPlace, ErrorAtPlace,
       PlanInHand, NoError, PlanHistoryMatchesReplans, Unplanned, Replanning,
       PlanningStages, TypeOK, StepPassed, StepRetried, StepExhausted
  <2> QED
    BY <2>8, <2>9
<1>6. ASSUME GiveUp PROVE IInv'
  <2>1. PICK m \in RememberResults(1) :
          /\ Remembered(m) /\ Silent(m)
          /\ pc' = IF m.raises THEN "raised" ELSE "finish"
    BY <1>6 DEF GiveUp
  <2>2. Event("replan", world, "failed", 0, 0) \in Events
    BY DEF TypeOK, Events, EventKinds, Event, Statuses
  <2>3. TypeOK'
    BY <1>6, <2>1, <2>2, HooksType DEF GiveUp, TypeOK, Labels, loopVars, Statuses,
       Errors
  <2>4. Control'
    BY <1>6, <2>1 DEF GiveUp, Control, StatusAtPlace, ErrorAtPlace, PlanInHand,
       NoError, PlanHistoryMatchesReplans, Unplanned, Replanning, PlanningStages,
       loopVars, TypeOK
  <2> QED
    BY <2>3, <2>4
<1>7. ASSUME AnnounceReplan PROVE IInv'
  <2> DEFINE e == Event("replan", world, "recovering", replans + 1, Len(trace))
  <2>1. PICK m \in RememberResults(1) :
          /\ Remembered(m)
          /\ \/ m.raises /\ pc' = "raised" /\ Silent(m) /\ UNCHANGED status
             \/ /\ ~m.raises /\ pc' = "replan" /\ status' = "recovering"
                /\ Emitted(e, m)
    BY <1>7 DEF AnnounceReplan
  <2>2. replans + 1 \in 0..MaxReplans
    BY <1>7 DEF AnnounceReplan, TypeOK
  <2>3. e \in Events
    BY <2>2 DEF TypeOK, Events, EventKinds, Event, Statuses
  <2> HIDE DEF e
  <2>4. TypeOK'
    BY <1>7, <2>1, <2>2, <2>3, HooksType DEF AnnounceReplan, TypeOK, Labels,
       loopVars, Statuses
  <2>5. Control'
    BY <1>7, <2>1 DEF AnnounceReplan, Control, StatusAtPlace, ErrorAtPlace, PlanInHand,
       NoError, PlanHistoryMatchesReplans, Unplanned, Replanning, PlanningStages,
       loopVars, TypeOK
  <2> QED
    BY <2>4, <2>5
<1>8. ASSUME Replan PROVE IInv'
  <2>1. PICK p \in Prepared(world) : Begin(p)
    BY <1>8 DEF Replan
  <2>2. p \in Plans /\ planHistory \in Seq(Plans) /\ Len(planHistory) = replans
    BY <1>8 DEF Prepared, TypeOK, Replan, Control, PlanHistoryMatchesReplans,
       Replanning
  <2>3. TypeOK'
    BY <1>8, <2>1, <2>2 DEF Replan, Begin, TypeOK, Labels, Statuses, hookVars
  <2>4. Control'
    BY <1>8, <2>1, <2>2, PlanType DEF Replan, Begin, Control, StatusAtPlace, ErrorAtPlace, PlanInHand,
       NoError, PlanHistoryMatchesReplans, Unplanned, Replanning, PlanningStages,
       loopVars, TypeOK
  <2> QED
    BY <2>3, <2>4
<1>9. ASSUME ReplanFails PROVE IInv'
  <2>1. TypeOK'
    BY <1>9 DEF ReplanFails, TypeOK, Labels, Errors, Statuses, hookVars, loopVars
  <2>2. Control'
    BY <1>9 DEF ReplanFails, Control, StatusAtPlace, ErrorAtPlace, PlanInHand,
       NoError, PlanHistoryMatchesReplans, Unplanned, Replanning, PlanningStages,
       loopVars, TypeOK
  <2> QED
    BY <2>1, <2>2
<1>10. ASSUME FinalizeTask PROVE IInv'
  <2>1. PICK m \in RememberResults(1) :
          /\ Remembered(m) /\ Silent(m)
          /\ \/ /\ m.raises /\ error' = "goal_verification" /\ pc' = "failing"
                /\ UNCHANGED status
             \/ /\ ~m.raises /\ status' = "succeeded" /\ pc' = "finish"
                /\ UNCHANGED error
             \/ /\ ~m.raises /\ status' = "failed" /\ error' = "goal_unmet"
                /\ pc' = "finish"
    BY <1>10 DEF FinalizeTask
  <2>2. Event("replan", world, "failed", 0, 0) \in Events
    BY DEF TypeOK, Events, EventKinds, Event, Statuses
  <2>3. TypeOK'
    BY <1>10, <2>1, <2>2, HooksType DEF FinalizeTask, TypeOK, Labels, loopVars,
       Statuses, Errors
  <2>4. Control'
    BY <1>10, <2>1 DEF FinalizeTask, Control, StatusAtPlace, ErrorAtPlace, PlanInHand,
       NoError, PlanHistoryMatchesReplans, Unplanned, Replanning, PlanningStages,
       loopVars, TypeOK
  <2> QED
    BY <2>3, <2>4
<1>11. ASSUME VerifyGoalRaises PROVE IInv'
  <2>1. TypeOK'
    BY <1>11 DEF VerifyGoalRaises, TypeOK, Labels, Errors, Statuses, hookVars, loopVars
  <2>2. Control'
    BY <1>11 DEF VerifyGoalRaises, Control, StatusAtPlace, ErrorAtPlace, PlanInHand,
       NoError, PlanHistoryMatchesReplans, Unplanned, Replanning, PlanningStages,
       loopVars, TypeOK
  <2> QED
    BY <2>1, <2>2
<1>12. ASSUME Finish PROVE IInv'
  <2> DEFINE e == Event("task_finished", world, status, replans, Len(trace))
             m == [stored |-> 0, lost |-> 0, raises |-> FALSE]
  <2>1. e \in Events
    BY DEF TypeOK, Events, EventKinds, Event
  <2>2. (diagnostics \in Diagnostics /\ seen \in [Observers -> Seq(Events)])'
    <3>1. Emitted(e, m)
      BY <1>12 DEF Finish
    <3> HIDE DEF e
    <3>2. m.lost = 0
      OBVIOUS
    <3> HIDE DEF m
    <3> QED
      BY <2>1, <3>1, <3>2, FailingType DEF Emitted, TypeOK, Diagnostics
  <2>3. (reports \in Seq(Reports))'
    BY <1>12, <2>2 DEF Finish, BuildReport, TypeOK, Reports
  <2>4. TypeOK'
    BY <1>12, <2>2, <2>3 DEF Finish, TypeOK, Labels, loopVars
  <2>5. Control'
    BY <1>12 DEF Finish, Control, StatusAtPlace, ErrorAtPlace, PlanInHand,
       NoError, PlanHistoryMatchesReplans, Unplanned, Replanning, PlanningStages,
       loopVars, TypeOK
  <2> QED
    BY <2>4, <2>5
<1>13. ASSUME FailureReport PROVE IInv'
  <2> DEFINE e == Event("task_finished", world, "failed", replans, Len(trace))
  <2>1. PICK m \in RememberResults(1) :
          /\ Remembered(m)
          /\ \/ /\ m.raises /\ pc' = "raised" /\ Silent(m)
                /\ UNCHANGED <<status, reports>>
             \/ /\ ~m.raises /\ pc' = "returned" /\ status' = "failed"
                /\ Emitted(e, m) /\ BuildReport
    BY <1>13 DEF FailureReport
  <2>2. e \in Events
    BY DEF TypeOK, Events, EventKinds, Event, Statuses
  <2> HIDE DEF e
  <2>3. (/\ recorded \in Nat /\ sinkFailed \in BOOLEAN
         /\ diagnostics \in Diagnostics /\ seen \in [Observers -> Seq(Events)])'
    BY <2>1, <2>2, HooksType
  <2>4. (reports \in Seq(Reports) /\ status \in Statuses)'
    <3>1. status' \in Statuses
      BY <2>1 DEF TypeOK, Statuses
    <3>2. CASE UNCHANGED reports
      BY <3>1, <3>2 DEF TypeOK
    <3>3. CASE BuildReport
      <4>1. [status |-> status', world |-> world, replans |-> replans,
             diagnostics |-> diagnostics'] \in Reports
        BY <2>3, <3>1 DEF TypeOK, Reports
      <4> QED
        BY <3>1, <3>3, <4>1 DEF BuildReport, TypeOK
    <3> QED
      BY <2>1, <3>2, <3>3
  <2>5. TypeOK'
    BY <1>13, <2>1, <2>3, <2>4 DEF FailureReport, TypeOK, Labels, loopVars
  <2>6. Control'
    BY <1>13, <2>1 DEF FailureReport, Control, StatusAtPlace, ErrorAtPlace, PlanInHand,
       NoError, PlanHistoryMatchesReplans, Unplanned, Replanning, PlanningStages,
       loopVars, TypeOK
  <2> QED
    BY <2>5, <2>6
<1>14. ASSUME UNCHANGED vars PROVE IInv'
  <2>1. TypeOK'
    BY <1>14 DEF vars, loopVars, hookVars, TypeOK
  <2>2. Control'
    BY <1>14 DEF vars, loopVars, hookVars, Control, StatusAtPlace, ErrorAtPlace,
       PlanInHand, PlanHistoryMatchesReplans, Unplanned, Replanning
  <2> QED
    BY <2>1, <2>2
<1> QED
  BY <1>1, <1>2, <1>3, <1>4, <1>5, <1>6, <1>7, <1>8, <1>9, <1>10, <1>11, <1>12,
     <1>13, <1>14 DEF Next, Step

(* Every variable of the runtime has its type in every state: records,     *)
(* events and reports stay within max_retries, max_replans and max_steps.  *)
THEOREM TypeCorrect == Spec => []TypeOK
<1>1. IInv => TypeOK
  BY DEF IInv
<1> QED
  BY InitIInv, NextIInv, <1>1, PTL DEF Spec

-----------------------------------------------------------------------------
(* The recovery policy *)

TInv == RetriesBeforeReplans /\ TraceInHand

(* Where no step was tried and no plan taken, the trace says what it said. *)
LEMMA QuietTrace ==
  ASSUME TInv, UNCHANGED <<trace, planHistory>>,
         pc' \notin {"execute", "exhausted", "replan", "finalize"},
         pc' \in {"finish", "returned"} /\ status' = "succeeded" =>
           (Completed /\ world \in GoalWorlds)'
  PROVE  TInv'
BY DEF TInv, RetriesBeforeReplans, TraceInHand, Follows

(* A new plan is entered at its first step.                                *)
LEMMA BeginTrace ==
  ASSUME IInv, TInv, UNCHANGED trace, NEW p \in Plans, Begin(p),
         \/ trace = <<>> /\ Len(planHistory) = 0
         \/ /\ trace # <<>> /\ ~trace[Len(trace)].passed
            /\ trace[Len(trace)].attempt = MaxRetries
            /\ trace[Len(trace)].plan = Len(planHistory)
  PROVE  TInv'
<1> DEFINE n == Len(planHistory)
<1>1. planHistory \in Seq(Plans) /\ trace \in Seq(Records)
  BY DEF IInv, TypeOK
<1>2. /\ planHistory' = Append(planHistory, p) /\ Len(planHistory') = n + 1
      /\ planHistory'[n + 1] = p
      /\ \A k \in 1..n : planHistory'[k] = planHistory[k]
  BY <1>1 DEF Begin
<1>3. \A k \in 1..Len(trace) : trace[k] \in Records /\ trace[k].plan \in 1..n
  <2>1. \A k \in 1..Len(trace) : trace[k].plan <= n
    BY DEF TInv, TraceInHand
  <2>2. \A k \in 1..Len(trace) : trace[k] \in Records
    BY <1>1
  <2>3. \A r \in Records : r.plan \in Nat /\ r.plan >= 1
    BY RuntimeAssumption DEF Records
  <2>4. n \in Nat
    BY <1>1
  <2> HIDE DEF n
  <2> QED
    BY <2>1, <2>2, <2>3, <2>4
<1>4. RetriesBeforeReplans'
  <2>1. \A k \in 1..Len(trace) :
          trace[k].step <= Len(planHistory'[trace[k].plan])
    BY <1>1, <1>2, <1>3 DEF TInv, RetriesBeforeReplans
  <2>2. /\ \A k \in 1..(Len(trace) - 1) : Follows(trace[k], trace[k + 1])
        /\ trace # <<>> => trace[1].plan = 1 /\ trace[1].step = 1
                          /\ trace[1].attempt = 0
    BY DEF TInv, RetriesBeforeReplans
  <2>3. trace' = trace
    OBVIOUS
  <2> QED
    BY <2>1, <2>2, <2>3 DEF RetriesBeforeReplans, Follows
<1>5. \A k \in 1..Len(trace) : trace[k].plan <= n + 1
  BY <1>1, <1>3
<1>6. CASE p = <<>>
  BY <1>1, <1>2, <1>4, <1>5, <1>6 DEF Begin, TInv, TraceInHand, Completed
<1>7. CASE p # <<>>
  <2>1. pc' = "execute" /\ index' = 1 /\ attempt' = 0
    BY <1>7 DEF Begin
  <2>2. CASE trace = <<>>
    BY <1>1, <1>2, <1>4, <1>5, <2>1, <2>2 DEF TInv, TraceInHand
  <2>3. CASE trace # <<>>
    <3>1. Follows(trace[Len(trace)], [plan |-> n + 1, step |-> 1, attempt |-> 0])
      BY <2>3 DEF Follows
    <3> QED
      BY <1>1, <1>2, <1>4, <1>5, <2>1, <2>3, <3>1 DEF TInv, TraceInHand
  <2> QED
    BY <2>2, <2>3
<1> QED
  BY <1>6, <1>7

LEMMA InitTInv == Init => TInv
BY DEF Init, TInv, RetriesBeforeReplans, TraceInHand

LEMMA NextTInv == IInv /\ IInv' /\ TInv /\ [Next]_vars => TInv'
<1> SUFFICES ASSUME IInv, IInv', TInv, [Next]_vars PROVE TInv'
  OBVIOUS
<1> USE RuntimeAssumption
<1>1. ASSUME NEW w \in Worlds, Run(w) PROVE TInv'
  BY <1>1 DEF Run, Reset, TInv, RetriesBeforeReplans, TraceInHand
<1>2. CASE StartTask
  BY <1>2, QuietTrace DEF StartTask
<1>3. CASE PreparePlan
  <2>1. PICK p \in Prepared(world) : Begin(p)
    BY <1>3 DEF PreparePlan
  <2>2. p \in Plans /\ trace = <<>> /\ Len(planHistory) = 0
    BY <1>3 DEF PreparePlan, Prepared, IInv, Control, PlanHistoryMatchesReplans,
       Unplanned
  <2> QED
    BY <1>3, <2>1, <2>2, BeginTrace DEF PreparePlan
<1>4. CASE PrepareFails
  BY <1>4, QuietTrace DEF PrepareFails
<1>5. CASE Attempt
  <2>1. PICK o \in TryStep(plan[index], world) :
          \E m \in RememberResults(IF o.raised THEN 2 ELSE 1) : Tried(o, m)
    BY <1>5 DEF Attempt
  <2>2. PICK m \in RememberResults(IF o.raised THEN 2 ELSE 1) : Tried(o, m)
    BY <2>1
  <2> DEFINE r == StepRecord(o)
             n == Len(planHistory)
             l == Len(trace)
  <2>3. o.passed \in BOOLEAN
    BY OutcomeType DEF IInv
  <2>4. /\ trace \in Seq(Records) /\ trace' = Append(trace, r)
        /\ planHistory' = planHistory /\ planHistory \in Seq(Plans)
        /\ index \in Nat /\ attempt \in Nat /\ attempt <= MaxRetries /\ l \in Nat
    BY <1>5, <2>2 DEF Attempt, Tried, IInv, TypeOK
  <2>5. /\ pc = "execute" /\ status = "running" /\ n > 0 /\ n \in Nat
        /\ plan = planHistory[n] /\ plan \in Plans /\ index \in 1..Len(plan)
        /\ plan' = plan /\ status' = status
    BY <1>5, <2>4 DEF Attempt, IInv, TypeOK, Control, StatusAtPlace, PlanInHand
  <2>6. /\ r.plan = n /\ r.step = index /\ r.attempt = attempt
        /\ r.passed = o.passed
    BY DEF StepRecord
  <2>7. /\ Len(trace') = l + 1 /\ trace'[l + 1] = r
        /\ \A k \in 1..l : trace'[k] = trace[k]
    BY <2>4
  <2>8. l > 0 => Follows(trace[l], r)
    BY <2>4, <2>5, <2>6 DEF TInv, TraceInHand, Follows
  <2>9. RetriesBeforeReplans'
    <3>1. \A k \in 1..l : Follows(trace'[k], trace'[k + 1])
      BY <2>4, <2>7, <2>8 DEF TInv, RetriesBeforeReplans
    <3>2. \A k \in 1..(l + 1) : trace'[k].step <= Len(planHistory[trace'[k].plan])
      <4>1. \A k \in 1..l : trace'[k].step <= Len(planHistory[trace'[k].plan])
        <5>1. \A k \in 1..l : trace[k].step <= Len(planHistory[trace[k].plan])
          BY DEF TInv, RetriesBeforeReplans
        <5> HIDE DEF l
        <5> QED
          BY <2>7, <5>1
      <4>2. trace'[l + 1].step <= Len(planHistory[trace'[l + 1].plan])
        BY <2>5, <2>6, <2>7, PlanType
      <4> QED
        BY <2>4, <4>1, <4>2
    <3>3. trace'[1].plan = 1 /\ trace'[1].step = 1 /\ trace'[1].attempt = 0
      BY <2>4, <2>5, <2>6, <2>7 DEF TInv, RetriesBeforeReplans, TraceInHand
    <3> HIDE DEF r, n, l
    <3>4. l + 1 - 1 = l
      BY <2>4
    <3> QED
      BY <2>4, <2>7, <3>1, <3>2, <3>3, <3>4 DEF RetriesBeforeReplans, Follows
  <2>10. \A k \in 1..(l + 1) : trace'[k].plan <= n
    BY <2>4, <2>5, <2>6, <2>7 DEF TInv, TraceInHand
  <2> HIDE DEF r, n, l
  <2>11. CASE m.raises
    BY <2>2, <2>4, <2>7, <2>9, <2>10, <2>11 DEF Tried, TInv, TraceInHand, n
  <2>12. CASE ~m.raises /\ StepPassed(o)
    <3>1. CASE index = Len(plan)
      <4>1. r.passed /\ pc' = "finalize"
        BY <2>3, <2>6, <2>12, <3>1 DEF StepPassed
      <4>2. /\ Len(planHistory') = n /\ planHistory'[n] = plan
            /\ trace' # <<>> /\ trace'[Len(trace')] = r
        BY <2>4, <2>5, <2>7 DEF n
      <4>3. Completed'
        BY <2>5, <2>6, <3>1, <4>1, <4>2 DEF Completed
      <4> QED
        BY <2>7, <2>9, <2>10, <4>1, <4>2, <4>3 DEF TInv, TraceInHand
    <3>2. CASE index # Len(plan)
      <4>1. Follows(r, [plan |-> n, step |-> index + 1, attempt |-> 0])
        BY <2>6, <2>12 DEF StepPassed, Follows
      <4> QED
        BY <2>4, <2>5, <2>6, <2>7, <2>9, <2>10, <2>12, <3>2, <4>1
        DEF StepPassed, TInv, TraceInHand, n
    <3> QED
      BY <3>1, <3>2
  <2>13. CASE ~m.raises /\ StepRetried(o)
    <3>1. Follows(r, [plan |-> n, step |-> index, attempt |-> attempt + 1])
      BY <2>4, <2>6, <2>13 DEF StepRetried, Follows
    <3> QED
      BY <2>4, <2>5, <2>6, <2>7, <2>9, <2>10, <2>13, <3>1
      DEF StepRetried, TInv, TraceInHand, n
  <2>14. CASE ~m.raises /\ StepExhausted(o)
    <3>1. attempt = MaxRetries
      BY <2>4, <2>14 DEF StepExhausted
    <3> QED
      BY <2>4, <2>5, <2>6, <2>7, <2>9, <2>10, <2>14, <3>1
      DEF StepExhausted, TInv, TraceInHand, n
  <2> QED
    BY <2>2, <2>11, <2>12, <2>13, <2>14 DEF Tried
<1>6. CASE GiveUp
  BY <1>6, QuietTrace DEF GiveUp
<1>7. CASE AnnounceReplan
  <2>1. pc' \in {"raised", "replan"} /\ UNCHANGED <<trace, planHistory>>
    BY <1>7 DEF AnnounceReplan
  <2>2. /\ trace # <<>> /\ ~trace[Len(trace)].passed
        /\ trace[Len(trace)].attempt = MaxRetries
        /\ trace[Len(trace)].plan = Len(planHistory)
    BY <1>7 DEF AnnounceReplan, TInv, TraceInHand
  <2> QED
    BY <2>1, <2>2 DEF TInv, RetriesBeforeReplans, TraceInHand, Follows
<1>8. CASE Replan
  <2>1. PICK p \in Prepared(world) : Begin(p)
    BY <1>8 DEF Replan
  <2>2. /\ p \in Plans /\ UNCHANGED trace
        /\ trace # <<>> /\ ~trace[Len(trace)].passed
        /\ trace[Len(trace)].attempt = MaxRetries
        /\ trace[Len(trace)].plan = Len(planHistory)
    BY <1>8 DEF Replan, Prepared, TInv, TraceInHand
  <2> QED
    BY <2>1, <2>2, BeginTrace
<1>9. CASE ReplanFails
  BY <1>9, QuietTrace DEF ReplanFails
<1>10. CASE FinalizeTask
  <2>1. Completed /\ UNCHANGED <<trace, planHistory, world>>
    BY <1>10 DEF FinalizeTask, TInv, TraceInHand
  <2>2. Completed'
    BY <2>1 DEF Completed
  <2>3. pc' \in {"finish", "failing"} /\ (status' = "succeeded" /\ pc' = "finish" =>
                                          world \in GoalWorlds)
    BY <1>10 DEF FinalizeTask
  <2> QED
    BY <2>1, <2>2, <2>3, QuietTrace
<1>11. CASE VerifyGoalRaises
  BY <1>11, QuietTrace DEF VerifyGoalRaises
<1>12. CASE Finish
  <2>1. /\ UNCHANGED <<trace, planHistory, world, status>>
        /\ pc = "finish" /\ pc' = "returned"
    BY <1>12 DEF Finish
  <2>2. status = "succeeded" => Completed /\ world \in GoalWorlds
    BY <2>1 DEF TInv, TraceInHand
  <2>3. status' = "succeeded" => Completed' /\ world' \in GoalWorlds
    BY <2>1, <2>2 DEF Completed
  <2> QED
    BY <2>1, <2>3, QuietTrace
<1>13. CASE FailureReport
  BY <1>13, QuietTrace DEF FailureReport, IInv, Control, StatusAtPlace
<1>14. CASE UNCHANGED vars
  BY <1>14 DEF vars, loopVars, TInv, RetriesBeforeReplans, TraceInHand, Completed,
     Follows
<1> QED
  BY <1>1, <1>2, <1>3, <1>4, <1>5, <1>6, <1>7, <1>8, <1>9, <1>10, <1>11, <1>12,
     <1>13, <1>14 DEF Next, Step

(* The trace of every run obeys the recovery policy: retry in place while  *)
(* attempts are left, replan only after the last one, go on only after a   *)
(* pass.                                                                   *)
THEOREM RecoveryPolicy == Spec => []RetriesBeforeReplans
<1>1. TInv => RetriesBeforeReplans
  BY DEF TInv
<1> QED
  BY InitIInv, NextIInv, InitTInv, NextTInv, <1>1, PTL DEF Spec

-----------------------------------------------------------------------------
(* The report *)

(* Emitting appends the event for every observer.                          *)
LEMMA EmittedLast ==
  ASSUME TypeOK, NEW e, NEW m, Emitted(e, m), NEW o \in Observers
  PROVE  seen'[o] # <<>> /\ seen'[o][Len(seen'[o])] = e
<1>1. seen[o] \in Seq(Events) /\ seen'[o] = Append(seen[o], e)
  BY DEF TypeOK, Emitted
<1> QED
  BY <1>1

LEMMA NextReport == IInv /\ ReportInHand /\ [Next]_vars => ReportInHand'
<1> SUFFICES ASSUME IInv, ReportInHand, [Next]_vars PROVE ReportInHand'
  OBVIOUS
<1> USE DEF ReportInHand
<1>1. ASSUME NEW w \in Worlds, Run(w) PROVE ReportInHand'
  BY <1>1 DEF Run, Reset
<1>2. CASE StartTask
  BY <1>2 DEF StartTask
<1>3. CASE PreparePlan \/ PrepareFails
  BY <1>3 DEF PreparePlan, PrepareFails, Begin
<1>4. CASE Attempt
  BY <1>4 DEF Attempt, Tried, StepPassed, StepRetried, StepExhausted
<1>5. CASE GiveUp \/ AnnounceReplan
  BY <1>5 DEF GiveUp, AnnounceReplan
<1>6. CASE Replan \/ ReplanFails
  BY <1>6 DEF Replan, ReplanFails, Begin
<1>7. CASE FinalizeTask \/ VerifyGoalRaises
  BY <1>7 DEF FinalizeTask, VerifyGoalRaises
<1>8. CASE Finish
  <2> DEFINE e == Event("task_finished", world, status, replans, Len(trace))
  <2>1. PICK m : Emitted(e, m)
    BY <1>8 DEF Finish
  <2>2. \A o \in Observers : seen'[o] # <<>> /\ seen'[o][Len(seen'[o])] = e
    BY <2>1, EmittedLast DEF IInv
  <2>3. /\ UNCHANGED <<world, status, replans, trace>>
        /\ pc = "finish" /\ pc' = "returned" /\ BuildReport
    BY <1>8 DEF Finish
  <2> QED
    BY <2>2, <2>3 DEF BuildReport, Event
<1>9. CASE FailureReport
  <2> DEFINE e == Event("task_finished", world, "failed", replans, Len(trace))
  <2>1. CASE pc' = "raised"
    BY <1>9, <2>1 DEF FailureReport
  <2>2. CASE pc' # "raised"
    <3>1. PICK m : Emitted(e, m)
      BY <1>9, <2>2 DEF FailureReport
    <3>2. \A o \in Observers : seen'[o] # <<>> /\ seen'[o][Len(seen'[o])] = e
      BY <3>1, EmittedLast DEF IInv
    <3>3. /\ UNCHANGED <<world, replans, trace>> /\ status' = "failed"
          /\ pc = "failing" /\ pc' = "returned" /\ BuildReport
      BY <1>9, <2>2 DEF FailureReport
    <3> QED
      BY <3>2, <3>3 DEF BuildReport, Event
  <2> QED
    BY <2>1, <2>2
<1>10. CASE UNCHANGED vars
  BY <1>10 DEF vars, loopVars, hookVars, Event
<1> QED
  BY <1>1, <1>2, <1>3, <1>4, <1>5, <1>6, <1>7, <1>8, <1>9, <1>10 DEF Next, Step

LEMMA NextStrict == IInv /\ StrictInHand /\ [Next]_vars => StrictInHand'
<1> SUFFICES ASSUME IInv, StrictInHand, [Next]_vars PROVE StrictInHand'
  OBVIOUS
<1> USE DEF StrictInHand, OnlyStrictMemoryPropagates
(* Only the sink sets sinkFailed; under RAISE it does so by raising.       *)
<1>0. ASSUME NEW n \in Nat, NEW m \in RememberResults(n), Remembered(m)
      PROVE  /\ m.raises => policy = "raise" /\ sinkFailed'
             /\ ~m.raises /\ policy = "raise" => sinkFailed' = sinkFailed
  <2>1. /\ m.lost \in Nat /\ m.raises \in BOOLEAN
        /\ m.raises => policy = "raise"
        /\ policy = "raise" => m.lost = 0
    BY <1>0, RememberType DEF IInv, TypeOK
  <2>2. sinkFailed \in BOOLEAN
    BY DEF IInv, TypeOK
  <2> QED
    BY <1>0, <2>1, <2>2 DEF Remembered
<1>1. ASSUME NEW w \in Worlds, Run(w) PROVE StrictInHand'
  BY <1>1 DEF Run, Reset
<1>2. CASE StartTask
  BY <1>0, <1>2 DEF StartTask
<1>3. CASE PreparePlan \/ PrepareFails
  BY <1>3 DEF PreparePlan, PrepareFails, Begin, hookVars
<1>4. CASE Attempt
  <2>1. PICK o \in TryStep(plan[index], world) :
          \E m \in RememberResults(IF o.raised THEN 2 ELSE 1) : Tried(o, m)
    BY <1>4 DEF Attempt
  <2> DEFINE n == IF o.raised THEN 2 ELSE 1
  <2>2. PICK m \in RememberResults(n) : Tried(o, m)
    BY <2>1
  <2>3. n \in Nat
    OBVIOUS
  <2>4. pc = "execute" /\ policy' = policy
    BY <1>4 DEF Attempt
  <2> HIDE DEF n
  <2>5. /\ m.raises => policy = "raise" /\ sinkFailed'
        /\ ~m.raises /\ policy = "raise" => sinkFailed' = sinkFailed
    BY <1>0, <2>2, <2>3 DEF Tried
  <2>6. m.raises \/ pc' # "raised"
    BY <2>2, <2>4 DEF Tried, StepPassed, StepRetried, StepExhausted
  <2>7. m.raises => pc' = "raised"
    BY <2>2 DEF Tried
  <2> QED
    BY <2>4, <2>5, <2>6, <2>7
<1>5. CASE GiveUp \/ AnnounceReplan
  BY <1>0, <1>5 DEF GiveUp, AnnounceReplan
<1>6. CASE Replan \/ ReplanFails
  BY <1>6 DEF Replan, ReplanFails, Begin, hookVars
<1>7. CASE FinalizeTask
  BY <1>0, <1>7 DEF FinalizeTask
<1>8. CASE VerifyGoalRaises
  BY <1>8 DEF VerifyGoalRaises, hookVars
<1>9. CASE Finish
  BY <1>9 DEF Finish
<1>10. CASE FailureReport
  BY <1>0, <1>10 DEF FailureReport
<1>11. CASE UNCHANGED vars
  BY <1>11 DEF vars, hookVars
<1> QED
  BY <1>1, <1>2, <1>3, <1>4, <1>5, <1>6, <1>7, <1>8, <1>9, <1>10, <1>11
  DEF Next, Step

(* The report and the task_finished event of every observer agree on how   *)
(* the run ended, and the report holds the diagnostics of both.            *)
THEOREM ReportAgrees == Spec => []ReportAgreesWithLastEvent
<1>1. Init => ReportInHand
  BY DEF Init, ReportInHand
<1>2. IInv /\ ReportInHand => ReportAgreesWithLastEvent
  BY DEF IInv, Control, StatusAtPlace, ReportInHand, ReportAgreesWithLastEvent, Event
<1> QED
  BY InitIInv, NextIInv, NextReport, <1>1, <1>2, PTL DEF Spec

(* No run is reported as succeeded unless the goal holds in the reported   *)
(* world and the last plan was carried out.                                *)
THEOREM SuccessEarned == Spec => []SuccessIsEarned
<1>1. Init => ReportInHand
  BY DEF Init, ReportInHand
<1>2. TInv /\ ReportInHand => SuccessIsEarned
  BY DEF TInv, TraceInHand, ReportInHand, SuccessIsEarned
<1> QED
  BY InitIInv, NextIInv, InitTInv, NextTInv, NextReport, <1>1, <1>2, PTL DEF Spec

(* The plan history of a run lines up with its replans and its error.      *)
THEOREM PlanHistory == Spec => []PlanHistoryMatchesReplans
<1>1. IInv => PlanHistoryMatchesReplans
  BY DEF IInv, Control
<1> QED
  BY InitIInv, NextIInv, <1>1, PTL DEF Spec

(* Under RAISE a run with a failed memory record is never reported as      *)
(* succeeded; and no other exception leaves run().                         *)
THEOREM StrictMemory == Spec => []StrictMemorySpeaksUp
<1>1. Init => StrictInHand
  BY DEF Init, StrictInHand, OnlyStrictMemoryPropagates
<1>2. IInv /\ StrictInHand => StrictMemorySpeaksUp
  BY DEF IInv, Control, StatusAtPlace, ErrorAtPlace, NoError, StrictInHand,
     StrictMemorySpeaksUp
<1> QED
  BY InitIInv, NextIInv, NextStrict, <1>1, <1>2, PTL DEF Spec

-----------------------------------------------------------------------------
(* The events *)

LEMMA EventCount == \A e \in Events : e.count \in Nat
BY DEF Events

(* What is said of the attempts of a trace stays true of a longer one.     *)
LEMMA LongerTrace ==
  ASSUME NEW t \in Seq(Records), NEW r, NEW s \in Seq(Events),
         Tells(t, s), Reaches(t, s), Connected(t, s)
  PROVE  LET u == Append(t, r) IN
           /\ Tells(u, s) /\ Reaches(u, s) /\ Connected(u, s)
           /\ \A k \in 1..Len(s) : StandsFor(u, s[k]) <=> StandsFor(t, s[k])
<1> DEFINE u == Append(t, r)
<1>1. /\ Len(u) = Len(t) + 1 /\ Len(t) \in Nat
      /\ \A c \in 1..Len(t) : u[c] = t[c]
  OBVIOUS
<1>2. /\ Len(s) \in Nat
      /\ \A k \in 1..Len(s) : s[k] \in Events /\ s[k].count \in Nat
  BY EventCount
<1> HIDE DEF u
<1>3. \A k \in 1..Len(s) :
        s[k].kind \in {"step_result", "replan"} => u[s[k].count] = t[s[k].count]
  BY <1>1, <1>2 DEF Reaches
<1>4. \A k \in 1..Len(s) : StandsFor(u, s[k]) <=> StandsFor(t, s[k])
  BY <1>3 DEF StandsFor
<1>5. Tells(u, s)
  <2>1. ASSUME NEW k \in 1..(Len(s) - 1) PROVE NextEvent(u, s[k], s[k + 1])
    <3>1. k \in 1..Len(s) /\ k + 1 \in 1..Len(s)
      BY <1>2
    <3>2. NextEvent(t, s[k], s[k + 1])
      BY DEF Tells
    <3>3. s[k + 1].kind = "replan" => u[s[k + 1].count] = t[s[k + 1].count]
      BY <1>3, <3>1
    <3> QED
      BY <3>2, <3>3 DEF NextEvent
  <2> QED
    BY <2>1 DEF Tells
<1>6. Reaches(u, s)
  BY <1>1, <1>2 DEF Reaches
<1>7. Connected(u, s)
  <2> SUFFICES ASSUME NEW k \in 1..(Len(s) - 1)
               PROVE  /\ s[k + 1].kind # "step_result" => s[k + 1].world = s[k].world
                      /\ s[k + 1].kind = "step_result" /\ u[s[k + 1].count].raised =>
                           \E j \in 1..k : BaseOf(u, s, j, k)
                                             /\ s[k + 1].world = s[j].world
    BY DEF Connected
  <2>1. k \in 1..Len(s) /\ k + 1 \in 1..Len(s)
    BY <1>2
  <2>2. ASSUME NEW j \in 1..k, BaseOf(t, s, j, k) PROVE BaseOf(u, s, j, k)
    BY <1>2, <1>4, <2>1, <2>2 DEF BaseOf
  <2> QED
    BY <1>3, <2>1, <2>2 DEF Connected
<1> QED
  BY <1>4, <1>5, <1>6, <1>7 DEF u

(* The last event that stands for a world is the same for a longer stream. *)
LEMMA BaseKept ==
  ASSUME NEW t, NEW s \in Seq(Events), NEW e \in Events, NEW k \in 1..Len(s),
         NEW j \in 1..k, BaseOf(t, s, j, k)
  PROVE  BaseOf(t, Append(s, e), j, k) /\ Append(s, e)[j] = s[j]
<1>1. \A i \in 1..Len(s) : Append(s, e)[i] = s[i]
  OBVIOUS
<1>2. Len(s) \in Nat
  OBVIOUS
<1> DEFINE v == Append(s, e)
<1> HIDE DEF v
<1>3. \A i \in 1..Len(s) : v[i] = s[i]
  BY <1>1 DEF v
<1>4. BaseOf(t, v, j, k) /\ v[j] = s[j]
  BY <1>2, <1>3 DEF BaseOf
<1> QED
  BY <1>4 DEF v

(* One more event: it follows the last one, and shows the world in hand.   *)
LEMMA LongerStream ==
  ASSUME NEW t \in Seq(Records), NEW s \in Seq(Events), NEW e \in Events,
         Tells(t, s), Reaches(t, s), Connected(t, s), s # <<>>,
         NextEvent(t, s[Len(s)], e), e.count <= Len(t),
         e.kind # "step_result" => e.world = s[Len(s)].world,
         e.kind = "step_result" /\ t[e.count].raised =>
           \E j \in 1..Len(s) : BaseOf(t, s, j, Len(s)) /\ e.world = s[j].world
  PROVE  LET v == Append(s, e) IN Tells(t, v) /\ Reaches(t, v) /\ Connected(t, v)
<1> DEFINE v == Append(s, e)
           n == Len(s)
<1>1. /\ Len(v) = n + 1 /\ n \in Nat /\ n >= 1 /\ v[n + 1] = e
      /\ \A i \in 1..n : v[i] = s[i]
      /\ v # <<>>
  OBVIOUS
<1>2. \A k \in 1..n : s[k] \in Events /\ s[k].count \in Nat
  BY EventCount
<1>3. e.count \in Nat
  BY EventCount
<1>4. \A j \in 1..n : \A k \in 1..n : j <= k /\ BaseOf(t, s, j, k) => BaseOf(t, v, j, k)
  BY <1>1, BaseKept
<1> HIDE DEF v, n
<1>5. Tells(t, v)
  <2>1. ASSUME NEW k \in 1..n PROVE NextEvent(t, v[k], v[k + 1])
    <3>1. CASE k = n
      BY <1>1, <3>1 DEF n
    <3>2. CASE k # n
      <4>1. k \in 1..(n - 1) /\ v[k] = s[k] /\ v[k + 1] = s[k + 1]
        BY <1>1, <3>2
      <4> QED
        BY <4>1 DEF Tells, n
    <3> QED
      BY <3>1, <3>2
  <2>2. v[1] = s[1]
    BY <1>1
  <2>3. Len(v) - 1 = n
    BY <1>1
  <2> QED
    BY <2>1, <2>2, <2>3 DEF Tells
<1>6. Reaches(t, v)
  <2>1. e.kind \in {"step_result", "replan"} => e.count >= 1
    BY <1>1, <1>2, <1>3 DEF NextEvent, Reaches, n
  <2>2. ASSUME NEW k \in 1..(n + 1)
        PROVE  /\ v[k].count <= Len(t)
               /\ v[k].kind \in {"step_result", "replan"} => v[k].count >= 1
    <3>1. CASE k = n + 1
      BY <1>1, <2>1, <3>1
    <3>2. CASE k # n + 1
      BY <1>1, <3>2 DEF Reaches, n
    <3> QED
      BY <3>1, <3>2
  <2> QED
    BY <1>1, <2>2 DEF Reaches
<1>7. Connected(t, v)
  <2>1. ASSUME NEW k \in 1..n
        PROVE  /\ v[k + 1].kind # "step_result" => v[k + 1].world = v[k].world
               /\ v[k + 1].kind = "step_result" /\ t[v[k + 1].count].raised =>
                    \E j \in 1..k : BaseOf(t, v, j, k) /\ v[k + 1].world = v[j].world
    <3>1. CASE k = n
      <4>1. v[k] = s[n] /\ v[k + 1] = e
        BY <1>1, <3>1
      <4>2. ASSUME e.kind = "step_result", t[e.count].raised
            PROVE  \E j \in 1..k : BaseOf(t, v, j, k) /\ e.world = v[j].world
        <5>1. PICK j \in 1..n : BaseOf(t, s, j, n) /\ e.world = s[j].world
          BY <4>2 DEF n
        <5>2. BaseOf(t, v, j, n) /\ v[j] = s[j]
          BY <1>1, <1>4, <5>1
        <5> QED
          BY <3>1, <5>1, <5>2
      <4> QED
        BY <4>1, <4>2 DEF n
    <3>2. CASE k # n
      <4>1. k \in 1..(n - 1) /\ v[k] = s[k] /\ v[k + 1] = s[k + 1]
        BY <1>1, <3>2
      <4>2. ASSUME s[k + 1].kind = "step_result", t[s[k + 1].count].raised
            PROVE  \E j \in 1..k : BaseOf(t, v, j, k) /\ s[k + 1].world = v[j].world
        <5>1. PICK j \in 1..k : BaseOf(t, s, j, k) /\ s[k + 1].world = s[j].world
          BY <4>1, <4>2 DEF Connected, n
        <5>2. BaseOf(t, v, j, k) /\ v[j] = s[j]
          BY <1>1, <1>4, <5>1
        <5> QED
          BY <5>1, <5>2
      <4> QED
        BY <4>1, <4>2 DEF Connected, n
    <3> QED
      BY <3>1, <3>2
  <2>2. Len(v) - 1 = n
    BY <1>1
  <2> QED
    BY <2>1, <2>2 DEF Connected
<1> QED
  BY <1>5, <1>6, <1>7 DEF v

(* run() goes on without an event, towards its end.                        *)
LEMMA QuietEvents ==
  ASSUME EventsInHand, InRun, pc # "execute", UNCHANGED <<seen, trace, world>>,
         pc' \in {"finish", "failing", "raised"}
  PROVE  EventsInHand'
<1> SUFFICES ASSUME NEW o \in Observers
             PROVE  (/\ Tells(trace, seen[o]) /\ Reaches(trace, seen[o])
                     /\ Connected(trace, seen[o])
                     /\ StreamInHand(seen[o]) /\ WorldInHand(seen[o]))'
  BY DEF EventsInHand
<1>1. /\ Tells(trace, seen[o]) /\ Reaches(trace, seen[o])
      /\ Connected(trace, seen[o])
      /\ StreamInHand(seen[o]) /\ WorldInHand(seen[o])
  BY DEF EventsInHand
<1>2. (StreamInHand(seen[o]) /\ WorldInHand(seen[o]))'
  BY <1>1 DEF InRun, StreamInHand, WorldInHand
<1> QED
  BY <1>1, <1>2

(* A plan is entered on an event that shows the world it starts from.      *)
LEMMA BeginEvents ==
  ASSUME TypeOK, EventsInHand, pc \in {"prepare", "replan"},
         UNCHANGED <<seen, trace, world>>, pc' \in {"finalize", "execute"}
  PROVE  EventsInHand'
<1> SUFFICES ASSUME NEW o \in Observers
             PROVE  (/\ Tells(trace, seen[o]) /\ Reaches(trace, seen[o])
                     /\ Connected(trace, seen[o])
                     /\ StreamInHand(seen[o]) /\ WorldInHand(seen[o]))'
  BY DEF EventsInHand
<1> DEFINE s == seen[o]
           n == Len(seen[o])
<1>1. /\ Tells(trace, s) /\ Reaches(trace, s) /\ Connected(trace, s)
      /\ StreamInHand(s) /\ WorldInHand(s)
  BY DEF EventsInHand
<1>2. s \in Seq(Events) /\ s # <<>> /\ s[n].kind # "step_result" /\ s[n].world = world
  BY <1>1 DEF TypeOK, InRun, StreamInHand, WorldInHand
<1>3. n \in Nat /\ n >= 1
  BY <1>2
<1>4. BaseOf(trace, s, n, n)
  BY <1>2, <1>3 DEF BaseOf, StandsFor
<1>5. seen'[o] = s /\ trace' = trace /\ world' = world
  OBVIOUS
<1>6. StreamInHand(seen[o])'
  BY <1>1, <1>2, <1>5 DEF InRun, StreamInHand
<1>7. WorldInHand(seen[o])'
  BY <1>2, <1>3, <1>4, <1>5 DEF InRun, WorldInHand
<1> QED
  BY <1>1, <1>5, <1>6, <1>7

(* A replan is announced, or the end of the run.                           *)
LEMMA EmittedEvents ==
  ASSUME TypeOK, EventsInHand, InRun, pc # "execute", UNCHANGED <<trace, world>>,
         NEW e \in Events, NEW m, Emitted(e, m),
         e.world = world, e.count = Len(trace),
         \/ e.kind = "task_finished" /\ pc' = "returned"
         \/ /\ e.kind = "replan" /\ pc' = "replan" /\ pc = "exhausted"
            /\ ~trace[e.count].passed /\ trace[e.count].attempt = MaxRetries
            /\ e.replans = trace[e.count].plan
  PROVE  EventsInHand'
<1> SUFFICES ASSUME NEW o \in Observers
             PROVE  (/\ Tells(trace, seen[o]) /\ Reaches(trace, seen[o])
                     /\ Connected(trace, seen[o])
                     /\ StreamInHand(seen[o]) /\ WorldInHand(seen[o]))'
  BY DEF EventsInHand
<1> DEFINE s == seen[o]
           n == Len(s)
           v == Append(s, e)
<1>1. /\ Tells(trace, s) /\ Reaches(trace, s) /\ Connected(trace, s)
      /\ StreamInHand(s) /\ WorldInHand(s)
  BY DEF EventsInHand
<1>2. /\ s \in Seq(Events) /\ s # <<>> /\ s[n].kind # "task_finished"
      /\ s[n].count = Len(trace) /\ s[n].world = world
      /\ pc = "exhausted" => s[n].kind = "step_result"
  BY <1>1 DEF TypeOK, InRun, StreamInHand, WorldInHand
<1>3. trace \in Seq(Records) /\ Len(trace) \in Nat
  BY DEF TypeOK
<1>4. NextEvent(trace, s[n], e)
  BY <1>2, <1>3 DEF NextEvent
<1>5. Tells(trace, v) /\ Reaches(trace, v) /\ Connected(trace, v)
  <2> HIDE DEF s
  <2> QED
    BY <1>1, <1>2, <1>3, <1>4, LongerStream
<1>6. seen'[o] = v /\ trace' = trace /\ world' = world
  BY DEF Emitted
<1>7. v # <<>> /\ v[Len(v)] = e
  BY <1>2
<1> HIDE DEF s, n, v
<1>8. StreamInHand(seen[o])'
  BY <1>6, <1>7 DEF InRun, StreamInHand
<1>9. WorldInHand(seen[o])'
  BY <1>6, <1>7 DEF InRun, WorldInHand
<1> QED
  BY <1>5, <1>6, <1>8, <1>9

(* An attempt is shown as it is recorded; the world the next one starts    *)
(* from is its own if it passed, and the one before it if it is retried.   *)
LEMMA AttemptEvents ==
  ASSUME IInv, EventsInHand, Attempt
  PROVE  EventsInHand'
<1>1. PICK a \in TryStep(plan[index], world) :
        \E m \in RememberResults(IF a.raised THEN 2 ELSE 1) : Tried(a, m)
  BY DEF Attempt
<1>2. PICK m \in RememberResults(IF a.raised THEN 2 ELSE 1) : Tried(a, m)
  BY <1>1
<1> DEFINE r == StepRecord(a)
           l == Len(trace)
           e == Event("step_result", a.world, NoTask, 0, l + 1)
<1>3. /\ a.world \in Worlds /\ a.passed \in BOOLEAN /\ a.raised \in BOOLEAN
      /\ a.raised => a.world = world
  BY OutcomeType DEF IInv
<1>4. /\ trace \in Seq(Records) /\ l \in Nat /\ trace' = Append(trace, r)
      /\ trace' \in Seq(Records) /\ Len(trace') = l + 1 /\ trace'[l + 1] = r
  <2>1. trace \in Seq(Records) /\ trace' = Append(trace, r)
    BY <1>2 DEF IInv, TypeOK, Tried
  <2>2. r \in Records
    <3>1. index \in 1..MaxSteps /\ attempt \in 0..MaxRetries
      BY DEF IInv, TypeOK
    <3>2. Len(planHistory) \in 1..(MaxReplans + 1)
      <4>1. Len(planHistory) = replans + 1 /\ replans \in 0..MaxReplans
        BY DEF Attempt, IInv, TypeOK, Control, StatusAtPlace, ErrorAtPlace, NoError,
           PlanHistoryMatchesReplans, Unplanned, Replanning, PlanningStages
      <4> QED
        BY <4>1, RuntimeAssumption
    <3> QED
      BY <1>3, <3>1, <3>2 DEF StepRecord, Records
  <2> HIDE DEF r
  <2> QED
    BY <2>1, <2>2
<1>5. r.passed = a.passed /\ r.raised = a.raised
  BY DEF StepRecord
<1>6. /\ e \in Events /\ e.kind = "step_result" /\ e.world = a.world
      /\ e.count = l + 1
  <2>1. 0 \in 0..MaxReplans
    BY RuntimeAssumption
  <2> QED
    BY <1>3, <1>4, <2>1 DEF Event, Events, EventKinds
<1>7. pc = "execute"
  BY DEF Attempt
<1> HIDE DEF r, l, e
<1> SUFFICES ASSUME NEW o \in Observers
             PROVE  (/\ Tells(trace, seen[o]) /\ Reaches(trace, seen[o])
                     /\ Connected(trace, seen[o])
                     /\ StreamInHand(seen[o]) /\ WorldInHand(seen[o]))'
  BY DEF EventsInHand
<1> DEFINE s == seen[o]
           n == Len(s)
           v == Append(s, e)
<1>8. /\ Tells(trace, s) /\ Reaches(trace, s) /\ Connected(trace, s)
      /\ s \in Seq(Events) /\ s # <<>> /\ n \in Nat /\ n >= 1
      /\ s[n].kind # "task_finished" /\ s[n].count = l
      /\ \E j \in 1..n : BaseOf(trace, s, j, n) /\ s[j].world = world
  BY <1>7 DEF EventsInHand, StreamInHand, WorldInHand, InRun, IInv, TypeOK, l
<1>9. /\ Tells(trace', s) /\ Reaches(trace', s) /\ Connected(trace', s)
      /\ \A k \in 1..n : StandsFor(trace', s[k]) <=> StandsFor(trace, s[k])
  <2> HIDE DEF s
  <2>1. /\ Tells(Append(trace, r), s) /\ Reaches(Append(trace, r), s)
        /\ Connected(Append(trace, r), s)
        /\ \A k \in 1..Len(s) :
             StandsFor(Append(trace, r), s[k]) <=> StandsFor(trace, s[k])
    BY <1>4, <1>8, LongerTrace
  <2> QED
    BY <1>4, <2>1
<1>10. PICK j \in 1..n : BaseOf(trace', s, j, n) /\ s[j].world = world
  <2>1. PICK j \in 1..n : BaseOf(trace, s, j, n) /\ s[j].world = world
    BY <1>8
  <2> HIDE DEF s, n
  <2>2. BaseOf(trace', s, j, n)
    BY <1>8, <1>9, <2>1 DEF BaseOf
  <2> QED
    BY <2>1, <2>2
<1> HIDE DEF s
<1>11. CASE m.raises
  <2>1. /\ pc' = "raised" /\ seen' = seen /\ world' = world
    BY <1>2, <1>11 DEF Tried, Silent
  <2> QED
    BY <1>9, <2>1 DEF StreamInHand, WorldInHand, InRun, s
<1>12. CASE ~m.raises
  <2>1. Emitted(e, m) /\ (StepPassed(a) \/ StepRetried(a) \/ StepExhausted(a))
    BY <1>2, <1>12 DEF Tried, e, l
  <2>2. seen'[o] = v
    BY <2>1 DEF Emitted, s
  <2>3. NextEvent(trace', s[n], e)
    BY <1>4, <1>6, <1>8 DEF NextEvent
  <2>4. Tells(trace', v) /\ Reaches(trace', v) /\ Connected(trace', v)
    <3>1. e.count <= Len(trace')
      BY <1>4, <1>6
    <3>2. e.kind = "step_result" /\ trace'[e.count].raised =>
            \E i \in 1..n : BaseOf(trace', s, i, n) /\ e.world = s[i].world
      BY <1>3, <1>4, <1>5, <1>6, <1>10
    <3> QED
      BY <1>4, <1>6, <1>8, <1>9, <2>3, <3>1, <3>2, LongerStream
  <2>5. v # <<>> /\ Len(v) = n + 1 /\ v[n + 1] = e
    BY <1>8
  <2>6. BaseOf(trace', v, j, n) /\ v[j] = s[j]
    BY <1>6, <1>8, <1>10, BaseKept
  <2>7. StandsFor(trace', e) <=> a.passed
    BY <1>4, <1>5, <1>6 DEF StandsFor
  <2> HIDE DEF n, v
  <2>8. StreamInHand(seen[o])'
    <3>1. pc' \in {"execute", "finalize", "exhausted"}
      BY <1>7, <2>1 DEF StepPassed, StepRetried, StepExhausted
    <3> QED
      BY <1>4, <1>6, <1>8, <2>2, <2>5, <3>1 DEF StreamInHand, InRun
  <2>9. WorldInHand(seen[o])'
    <3>1. CASE StepPassed(a)
      <4>1. a.passed /\ world' = a.world /\ pc' \in {"execute", "finalize"}
        BY <3>1 DEF StepPassed
      <4>2. BaseOf(trace', v, n + 1, n + 1)
        BY <1>8, <2>5, <2>7, <4>1 DEF BaseOf
      <4> QED
        BY <1>6, <1>8, <2>2, <2>5, <4>1, <4>2 DEF WorldInHand, InRun
    <3>2. CASE StepRetried(a)
      <4>1. ~a.passed /\ world' = world /\ pc' = "execute"
        BY <1>7, <3>2 DEF StepRetried
      <4>2. BaseOf(trace', v, j, n + 1)
        BY <1>8, <2>5, <2>6, <2>7, <4>1 DEF BaseOf
      <4>3. j \in 1..(n + 1)
        BY <1>8
      <4> QED
        BY <1>10, <2>2, <2>5, <2>6, <4>1, <4>2, <4>3 DEF WorldInHand
    <3>3. CASE StepExhausted(a)
      BY <1>6, <2>2, <2>5, <3>3 DEF StepExhausted, WorldInHand, InRun
    <3> QED
      BY <2>1, <3>1, <3>2, <3>3
  <2> QED
    BY <2>2, <2>4, <2>8, <2>9
<1> QED
  BY <1>3, <1>11, <1>12

LEMMA NextEventsInHand ==
  IInv /\ TInv /\ EventsInHand /\ [Next]_vars => EventsInHand'
<1> SUFFICES ASSUME IInv, TInv, EventsInHand, [Next]_vars PROVE EventsInHand'
  OBVIOUS
<1>0. TypeOK /\ trace \in Seq(Records) /\ world \in Worlds /\ replans \in 0..MaxReplans
  BY DEF IInv, TypeOK
<1>1. ASSUME NEW w \in Worlds, Run(w) PROVE EventsInHand'
  BY <1>1 DEF Run, EventsInHand, Tells, Reaches, Connected, StreamInHand,
     WorldInHand, InRun
<1>2. CASE StartTask
  <2> DEFINE e == Event("task_started", world, status, 0, 0)
  <2>1. PICK m \in RememberResults(1) :
          \/ pc' = "raised" /\ Silent(m)
          \/ pc' = "prepare" /\ Emitted(e, m)
    BY <1>2 DEF StartTask
  <2>2. /\ UNCHANGED <<trace, world>> /\ Len(trace) = 0
        /\ \A o \in Observers : seen[o] = <<>>
    BY <1>2 DEF StartTask, IInv, Control, PlanHistoryMatchesReplans, Unplanned,
       EventsInHand, StreamInHand
  <2>3. CASE pc' = "raised"
    BY <2>1, <2>2, <2>3 DEF Silent, EventsInHand, Tells, Reaches, Connected,
       StreamInHand, WorldInHand, InRun
  <2>4. CASE pc' = "prepare"
    <3>1. e.kind = "task_started" /\ e.count = 0 /\ e.world = world
      BY DEF Event
    <3> HIDE DEF e
    <3>2. \A o \in Observers : seen'[o] = <<e>>
      BY <2>1, <2>2, <2>4 DEF Emitted
    <3>3. Len(<<e>>) = 1 /\ <<e>>[1] = e /\ <<e>> # <<>>
      OBVIOUS
    <3> DEFINE s == <<e>>
    <3>4. Len(s) = 1 /\ s[1] = e /\ s # <<>>
      BY <3>3
    <3>5. \A o \in Observers : seen'[o] = s
      BY <3>2
    <3> HIDE DEF s
    <3>6. Tells(trace', s) /\ Reaches(trace', s) /\ Connected(trace', s)
      BY <2>2, <3>1, <3>4 DEF Tells, Reaches, Connected
    <3>7. ASSUME NEW o \in Observers
          PROVE  (StreamInHand(seen[o]) /\ WorldInHand(seen[o]))'
      BY <2>2, <2>4, <3>1, <3>4, <3>5 DEF StreamInHand, WorldInHand, InRun
    <3> QED
      BY <3>5, <3>6, <3>7 DEF EventsInHand
  <2> QED
    BY <2>1, <2>3, <2>4
<1>3. CASE PreparePlan
  BY <1>0, <1>3, BeginEvents DEF PreparePlan, Begin, hookVars
<1>4. CASE PrepareFails
  BY <1>4, QuietEvents DEF PrepareFails, hookVars, InRun
<1>5. CASE Attempt
  BY <1>5, AttemptEvents
<1>6. CASE GiveUp
  BY <1>6, QuietEvents DEF GiveUp, Silent, InRun
<1>7. CASE AnnounceReplan
  <2> DEFINE e == Event("replan", world, "recovering", replans + 1, Len(trace))
  <2>1. PICK m \in RememberResults(1) :
          \/ pc' = "raised" /\ Silent(m)
          \/ pc' = "replan" /\ Emitted(e, m)
    BY <1>7 DEF AnnounceReplan
  <2>2. /\ UNCHANGED <<trace, world>> /\ pc = "exhausted" /\ InRun
        /\ replans + 1 \in 0..MaxReplans
    BY <1>0, <1>7, RuntimeAssumption DEF AnnounceReplan, InRun
  <2>3. CASE pc' = "raised"
    BY <2>1, <2>2, <2>3, QuietEvents DEF Silent
  <2>4. CASE pc' = "replan"
    <3>1. /\ e \in Events /\ e.kind = "replan" /\ e.world = world
          /\ e.count = Len(trace) /\ e.replans = replans + 1
      BY <1>0, <2>2 DEF Event, Events, EventKinds, Statuses
    <3>2. Len(planHistory) = replans + 1
      BY <2>2 DEF IInv, Control, StatusAtPlace, ErrorAtPlace, NoError,
         PlanHistoryMatchesReplans, Unplanned, Replanning, PlanningStages
    <3>3. /\ ~trace[Len(trace)].passed /\ trace[Len(trace)].attempt = MaxRetries
          /\ trace[Len(trace)].plan = Len(planHistory)
      BY <2>2 DEF TInv, TraceInHand
    <3> HIDE DEF e
    <3> QED
      BY <1>0, <2>1, <2>2, <2>4, <3>1, <3>2, <3>3, EmittedEvents
  <2> QED
    BY <2>1, <2>3, <2>4
<1>8. CASE Replan
  BY <1>0, <1>8, BeginEvents DEF Replan, Begin, hookVars
<1>9. CASE ReplanFails
  BY <1>9, QuietEvents DEF ReplanFails, hookVars, InRun
<1>10. CASE FinalizeTask
  BY <1>10, QuietEvents DEF FinalizeTask, Silent, InRun
<1>11. CASE VerifyGoalRaises
  BY <1>11, QuietEvents DEF VerifyGoalRaises, hookVars, InRun
<1>12. CASE Finish
  <2> DEFINE e == Event("task_finished", world, status, replans, Len(trace))
  <2>1. PICK m : Emitted(e, m)
    BY <1>12 DEF Finish
  <2>2. UNCHANGED <<trace, world>> /\ pc = "finish" /\ InRun /\ pc' = "returned"
    BY <1>12 DEF Finish, InRun
  <2>3. /\ e \in Events /\ e.kind = "task_finished" /\ e.world = world
        /\ e.count = Len(trace)
    BY <1>0 DEF Event, Events, EventKinds, TypeOK
  <2> HIDE DEF e
  <2> QED
    BY <1>0, <2>1, <2>2, <2>3, EmittedEvents
<1>13. CASE FailureReport
  <2> DEFINE e == Event("task_finished", world, "failed", replans, Len(trace))
  <2>1. PICK m \in RememberResults(1) :
          \/ pc' = "raised" /\ Silent(m)
          \/ pc' = "returned" /\ Emitted(e, m)
    BY <1>13 DEF FailureReport
  <2>2. UNCHANGED <<trace, world>> /\ pc = "failing" /\ InRun
    BY <1>13 DEF FailureReport, InRun
  <2>3. CASE pc' = "raised"
    BY <2>1, <2>2, <2>3, QuietEvents DEF Silent
  <2>4. CASE pc' = "returned"
    <3>1. /\ e \in Events /\ e.kind = "task_finished" /\ e.world = world
          /\ e.count = Len(trace)
      BY <1>0 DEF Event, Events, EventKinds, Statuses
    <3> HIDE DEF e
    <3> QED
      BY <1>0, <2>1, <2>2, <2>4, <3>1, EmittedEvents
  <2> QED
    BY <2>1, <2>3, <2>4
<1>14. CASE UNCHANGED vars
  <2>1. UNCHANGED <<pc, seen, trace, world>>
    BY <1>14 DEF vars, hookVars
  <2> QED
    BY <2>1 DEF EventsInHand, StreamInHand, WorldInHand, InRun
<1> QED
  BY <1>1, <1>2, <1>3, <1>4, <1>5, <1>6, <1>7, <1>8, <1>9, <1>10, <1>11, <1>12,
     <1>13, <1>14 DEF Next, Step

LEMMA InitEventsInHand == Init => EventsInHand
BY DEF Init, EventsInHand, Tells, Reaches, Connected, StreamInHand, WorldInHand, InRun

(* Every observer can rebuild the run from its events: nothing is missing, *)
(* nothing is out of place, and every replan names the plan that failed.   *)
THEOREM StreamsTell == Spec => []StreamsTellTheTrace
<1>1. EventsInHand => StreamsTellTheTrace
  BY DEF EventsInHand, StreamInHand, StreamsTellTheTrace
<1> QED
  BY InitIInv, NextIInv, InitTInv, NextTInv, InitEventsInHand, NextEventsInHand,
     <1>1, PTL DEF Spec

(* The worlds in the events are the worlds the loop acts on: an attempt    *)
(* that raised shows the world the step started from.                      *)
THEOREM WorldsConnected == Spec => []WorldsAreConnected
<1>1. EventsInHand => WorldsAreConnected
  BY DEF EventsInHand, WorldsAreConnected
<1> QED
  BY InitIInv, NextIInv, InitTInv, NextTInv, InitEventsInHand, NextEventsInHand,
     <1>1, PTL DEF Spec

-----------------------------------------------------------------------------
(* The memory account *)

(* The attempts that raised are counted one by one.                        *)
LEMMA RaisedCounted ==
  ASSUME trace \in Seq(Records), NEW r, trace' = Append(trace, r),
         r.raised \in BOOLEAN
  PROVE  /\ RaisedAttempts \in Nat
         /\ RaisedAttempts' = RaisedAttempts + (IF r.raised THEN 1 ELSE 0)
<1> DEFINE l == Len(trace)
           K == {k \in 1..l : trace[k].raised}
           L == {k \in 1..Len(trace') : trace'[k].raised}
<1>1. /\ l \in Nat /\ Len(trace') = l + 1 /\ trace'[l + 1] = r
      /\ \A k \in 1..l : trace'[k] = trace[k]
  OBVIOUS
<1>2. IsFiniteSet(K) /\ Cardinality(K) \in Nat
  <2>1. IsFiniteSet(1..l) /\ K \subseteq 1..l
    BY <1>1, FS_Interval
  <2> QED
    BY <2>1, FS_Subset, FS_CardinalityType
<1>3. l + 1 \notin K
  BY <1>1
<1> HIDE DEF l
<1>4. CASE r.raised
  <2>1. L = K \cup {l + 1}
    BY <1>1, <1>4
  <2> HIDE DEF K, L
  <2>2. Cardinality(L) = Cardinality(K) + 1
    BY <1>2, <1>3, <2>1, FS_AddElement
  <2> QED
    BY <1>2, <1>4, <2>2 DEF RaisedAttempts, K, L, l
<1>5. CASE ~r.raised
  <2>1. L = K
    BY <1>1, <1>5
  <2> HIDE DEF K, L
  <2>2. Cardinality(L) = Cardinality(K) + 0
    BY <1>2, <2>1
  <2> QED
    BY <1>2, <1>5, <2>2 DEF RaisedAttempts, K, L, l
<1> QED
  BY <1>4, <1>5

(* Under best effort each of n calls of remember() is counted once.        *)
LEMMA BestEffortCounted ==
  ASSUME TypeOK, policy = "best_effort", NEW n \in Nat, NEW m \in RememberResults(n),
         Remembered(m), diagnostics'.memory = diagnostics.memory + m.lost
  PROVE  /\ ~m.raises
         /\ recorded' + diagnostics'.memory = recorded + diagnostics.memory + n
         /\ recorded + diagnostics.memory \in Nat
<1>1. /\ m.stored \in Nat /\ m.lost \in Nat /\ m.raises \in BOOLEAN
      /\ m.stored + m.lost = n /\ ~m.raises
  BY RememberType DEF RememberResults, TypeOK
<1>2. recorded \in Nat /\ diagnostics.memory \in Nat
  BY DEF TypeOK, Diagnostics
<1> QED
  BY <1>1, <1>2 DEF Remembered

(* One more record was due, and the run is one record further.             *)
LEMMA OneMoreRecord ==
  ASSUME TypeOK, MemoryInHand, UNCHANGED <<policy, trace>>,
         pc \notin {"idle", "finish", "returned"}, pc' \notin {"idle", "start"},
         NEW m \in RememberResults(1), Remembered(m),
         Silent(m) \/ \E e : Emitted(e, m),
         ~m.raises =>
           \/ pc = "start" /\ pc' = "prepare" /\ trace = <<>> /\ replans' = replans
              /\ replans = 0
           \/ /\ pc # "start" /\ pc' \in {"finish", "returned"}
              /\ replans' = replans
           \/ /\ pc # "start" /\ pc' \notin {"finish", "returned"}
              /\ replans' = replans + 1
  PROVE  MemoryInHand'
<1> SUFFICES ASSUME policy = "best_effort"
             PROVE  recorded' + diagnostics'.memory =
                      1 + Len(trace) + RaisedAttempts + replans'
                        + (IF pc' \in {"finish", "returned"} THEN 1 ELSE 0)
  BY DEF MemoryInHand, RaisedAttempts
<1>1. diagnostics'.memory = diagnostics.memory + m.lost
  BY DEF Silent, Emitted
<1>2. /\ ~m.raises
      /\ recorded' + diagnostics'.memory = recorded + diagnostics.memory + 1
      /\ recorded + diagnostics.memory \in Nat
  BY <1>1, BestEffortCounted
<1>3. replans \in Nat /\ Len(trace) \in Nat /\ RaisedAttempts \in Nat
  <2>1. trace \in Seq(Records) /\ replans \in 0..MaxReplans
    BY DEF TypeOK
  <2>2. IsFiniteSet({k \in 1..Len(trace) : trace[k].raised})
    BY <2>1, FS_Interval, FS_Subset
  <2> QED
    BY <2>1, <2>2, FS_CardinalityType, RuntimeAssumption DEF RaisedAttempts
<1>4. CASE pc = "start"
  <2>1. RaisedAttempts = 0 /\ Len(trace) = 0
    <3>1. {k \in 1..Len(trace) : trace[k].raised} = {}
      BY <1>2, <1>4
    <3> QED
      BY <1>2, <1>4, <3>1, FS_EmptySet DEF RaisedAttempts
  <2> QED
    BY <1>2, <1>4, <2>1 DEF MemoryInHand
<1>5. CASE pc # "start"
  BY <1>2, <1>3, <1>5 DEF MemoryInHand
<1> QED
  BY <1>4, <1>5

(* Nothing was due, and run() went on before it ended.                     *)
LEMMA NoRecordDue ==
  ASSUME MemoryInHand, UNCHANGED <<policy, trace, replans, recorded, diagnostics>>,
         pc \notin {"idle", "start"}, pc' \notin {"idle", "start"},
         pc \in {"finish", "returned"} <=> pc' \in {"finish", "returned"}
  PROVE  MemoryInHand'
BY DEF MemoryInHand, RaisedAttempts

LEMMA NextMemory == IInv /\ MemoryInHand /\ [Next]_vars => MemoryInHand'
<1> SUFFICES ASSUME IInv, MemoryInHand, [Next]_vars PROVE MemoryInHand'
  OBVIOUS
<1>0. TypeOK
  BY DEF IInv
<1>1. ASSUME NEW w \in Worlds, Run(w) PROVE MemoryInHand'
  BY <1>1 DEF Run, Reset, NoDiagnostics, MemoryInHand
<1>2. CASE StartTask
  <2>1. PICK m \in RememberResults(1) :
          /\ Remembered(m)
          /\ \/ m.raises /\ pc' = "raised" /\ Silent(m)
             \/ /\ ~m.raises /\ pc' = "prepare"
                /\ Emitted(Event("task_started", world, status, 0, 0), m)
    BY <1>2 DEF StartTask
  <2>2. /\ UNCHANGED <<policy, trace, replans>> /\ pc = "start"
        /\ trace = <<>> /\ replans = 0
    BY <1>2 DEF StartTask, IInv, Control, PlanHistoryMatchesReplans, Unplanned
  <2> QED
    BY <1>0, <2>1, <2>2, OneMoreRecord
<1>3. CASE PreparePlan \/ PrepareFails \/ Replan \/ ReplanFails \/ VerifyGoalRaises
  BY <1>3, NoRecordDue DEF PreparePlan, PrepareFails, Replan, ReplanFails,
     VerifyGoalRaises, Begin, hookVars
<1>4. CASE Attempt
  <2>1. PICK a \in TryStep(plan[index], world) :
          \E m \in RememberResults(IF a.raised THEN 2 ELSE 1) : Tried(a, m)
    BY <1>4 DEF Attempt
  <2> DEFINE n == IF a.raised THEN 2 ELSE 1
             r == StepRecord(a)
  <2>2. PICK m \in RememberResults(n) : Tried(a, m)
    BY <2>1
  <2>3. a.raised \in BOOLEAN /\ r.raised = a.raised
    BY OutcomeType DEF IInv, StepRecord
  <2>4. /\ pc = "execute" /\ UNCHANGED <<policy, replans>> /\ Remembered(m)
        /\ trace' = Append(trace, r) /\ trace \in Seq(Records)
        /\ replans \in Nat
    BY <1>0, <1>4, <2>2, RuntimeAssumption DEF Attempt, Tried, TypeOK
  <2>5. /\ pc' \notin {"idle", "start", "finish", "returned"}
        /\ diagnostics'.memory = diagnostics.memory + m.lost
    BY <2>2, <2>4 DEF Tried, Silent, Emitted, StepPassed, StepRetried, StepExhausted
  <2>6. n \in Nat
    OBVIOUS
  <2> HIDE DEF r
  <2>7. /\ RaisedAttempts \in Nat
        /\ RaisedAttempts' = RaisedAttempts + (IF a.raised THEN 1 ELSE 0)
    BY <2>3, <2>4, RaisedCounted
  <2>8. Len(trace') = Len(trace) + 1 /\ Len(trace) \in Nat
    BY <2>4
  <2>9. ASSUME policy = "best_effort"
        PROVE  /\ recorded' + diagnostics'.memory = recorded + diagnostics.memory + n
               /\ recorded + diagnostics.memory \in Nat
    <3> HIDE DEF n
    <3> QED
      BY <1>0, <2>2, <2>4, <2>5, <2>6, <2>9, BestEffortCounted
  <2> QED
    BY <2>3, <2>4, <2>5, <2>7, <2>8, <2>9 DEF MemoryInHand
<1>5. CASE GiveUp
  <2>1. PICK m \in RememberResults(1) :
          /\ Remembered(m) /\ Silent(m)
          /\ pc' = IF m.raises THEN "raised" ELSE "finish"
    BY <1>5 DEF GiveUp
  <2>2. UNCHANGED <<policy, trace, replans>> /\ pc = "exhausted"
    BY <1>5 DEF GiveUp
  <2> QED
    BY <1>0, <2>1, <2>2, OneMoreRecord
<1>6. CASE AnnounceReplan
  <2>1. PICK m \in RememberResults(1) :
          /\ Remembered(m)
          /\ \/ m.raises /\ pc' = "raised" /\ Silent(m)
             \/ /\ ~m.raises /\ pc' = "replan"
                /\ Emitted(Event("replan", world, "recovering", replans + 1,
                                 Len(trace)), m)
    BY <1>6 DEF AnnounceReplan
  <2>2. /\ UNCHANGED <<policy, trace>> /\ pc = "exhausted"
        /\ replans' = replans + 1
    BY <1>6 DEF AnnounceReplan
  <2> QED
    BY <1>0, <2>1, <2>2, OneMoreRecord
<1>7. CASE FinalizeTask
  <2>1. PICK m \in RememberResults(1) :
          /\ Remembered(m) /\ Silent(m)
          /\ \/ m.raises /\ pc' = "failing"
             \/ ~m.raises /\ pc' = "finish"
    BY <1>7 DEF FinalizeTask
  <2>2. UNCHANGED <<policy, trace, replans>> /\ pc = "finalize"
    BY <1>7 DEF FinalizeTask
  <2> QED
    BY <1>0, <2>1, <2>2, OneMoreRecord
<1>8. CASE Finish
  <2>1. /\ UNCHANGED <<policy, trace, replans, recorded>>
        /\ pc = "finish" /\ pc' = "returned"
    BY <1>8 DEF Finish
  <2>2. diagnostics'.memory = diagnostics.memory
    BY <1>0, <1>8 DEF Finish, Emitted, TypeOK, Diagnostics
  <2> QED
    BY <2>1, <2>2 DEF MemoryInHand, RaisedAttempts
<1>9. CASE FailureReport
  <2>1. PICK m \in RememberResults(1) :
          /\ Remembered(m)
          /\ \/ m.raises /\ pc' = "raised" /\ Silent(m)
             \/ /\ ~m.raises /\ pc' = "returned"
                /\ Emitted(Event("task_finished", world, "failed", replans,
                                 Len(trace)), m)
    BY <1>9 DEF FailureReport
  <2>2. UNCHANGED <<policy, trace, replans>> /\ pc = "failing"
    BY <1>9 DEF FailureReport
  <2> QED
    BY <1>0, <2>1, <2>2, OneMoreRecord
<1>10. CASE UNCHANGED vars
  BY <1>10 DEF vars, hookVars, MemoryInHand, RaisedAttempts
<1> QED
  BY <1>1, <1>2, <1>3, <1>4, <1>5, <1>6, <1>7, <1>8, <1>9, <1>10 DEF Next, Step

(* Best effort loses nothing in silence: every call of remember() of a run *)
(* is in the memory or is one of its diagnostics.                          *)
THEOREM NothingForgotten == Spec => []NothingForgottenInSilence
<1>1. Init => MemoryInHand
  BY DEF Init, NoDiagnostics, MemoryInHand
<1>2. MemoryInHand => NothingForgottenInSilence
  BY DEF MemoryInHand, RaisedAttempts, NothingForgottenInSilence
<1> QED
  BY InitIInv, NextIInv, NextMemory, <1>1, <1>2, PTL DEF Spec

-----------------------------------------------------------------------------
(* Every step of run() is paid for *)

LEMMA Times ==
  ASSUME NEW a \in Nat, NEW b \in Nat
  PROVE  a * b \in Nat /\ (a + 1) * b = a * b + b
OBVIOUS

LEMMA AttemptsType == AttemptsPerStep \in Nat \ {0} /\ AttemptsPerPlan \in Nat
<1>1. AttemptsPerStep \in Nat \ {0}
  BY RuntimeAssumption DEF AttemptsPerStep
<1> QED
  BY <1>1, Times, RuntimeAssumption DEF AttemptsPerPlan

(* There is an attempt left while a step is in hand, and a plan that is     *)
(* begun has all of its attempts.                                           *)
LEMMA AttemptsInHand ==
  TypeOK => /\ AttemptsLeft \in Nat /\ AttemptsLeft > 0
            /\ index = 1 /\ attempt = 0 => AttemptsLeft = AttemptsPerPlan
<1> SUFFICES ASSUME TypeOK
             PROVE  /\ AttemptsLeft \in Nat /\ AttemptsLeft > 0
                    /\ index = 1 /\ attempt = 0 => AttemptsLeft = AttemptsPerPlan
  OBVIOUS
<1> DEFINE K == AttemptsPerStep
<1>1. K \in Nat \ {0} /\ MaxSteps \in Nat \ {0} /\ MaxSteps - index \in Nat
  BY AttemptsType, RuntimeAssumption DEF TypeOK
<1>2. K - attempt \in Nat /\ K - attempt > 0 /\ attempt \in Nat
  BY RuntimeAssumption DEF TypeOK, AttemptsPerStep
<1>3. AttemptsLeft = (MaxSteps - index) * K + (K - attempt)
  BY DEF AttemptsLeft
<1>4. MaxSteps - 1 \in Nat /\ AttemptsPerPlan = (MaxSteps - 1 + 1) * K
  BY <1>1 DEF AttemptsPerPlan
<1> HIDE DEF K
<1>5. (MaxSteps - index) * K \in Nat
  BY <1>1, Times
<1>6. (MaxSteps - 1 + 1) * K = (MaxSteps - 1) * K + K
  BY <1>1, <1>4, Times
<1> QED
  BY <1>1, <1>2, <1>3, <1>4, <1>5, <1>6

(* A step that keeps the number of replans is paid by what is left here.    *)
LEMMA PaidHere ==
  ASSUME TypeOK, UNCHANGED replans, StepsLeftHere \in Nat,
         StepsLeftHere' \in Nat, StepsLeftHere' < StepsLeftHere
  PROVE  StepsLeft' \in Nat /\ StepsLeft' < StepsLeft
<1>1. AttemptsPerPlan + 2 \in Nat /\ MaxReplans - replans \in Nat
  BY AttemptsType, RuntimeAssumption DEF TypeOK
<1>2. (MaxReplans - replans) * (AttemptsPerPlan + 2) \in Nat
  BY <1>1, Times
<1>3. /\ StepsLeft = (MaxReplans - replans) * (AttemptsPerPlan + 2) + StepsLeftHere
      /\ StepsLeft' = (MaxReplans - replans) * (AttemptsPerPlan + 2) + StepsLeftHere'
  BY DEF StepsLeft
<1> QED
  BY <1>2, <1>3

LEMMA LeftHere ==
  TypeOK =>
    /\ pc \in AtRest => StepsLeftHere = 0
    /\ pc \in {"finish", "failing"} => StepsLeftHere = 1
    /\ pc \in {"finalize", "exhausted"} => StepsLeftHere = 2
    /\ pc = "execute" => StepsLeftHere = 2 + AttemptsLeft
    /\ pc \in {"prepare", "replan"} => StepsLeftHere = 3 + AttemptsPerPlan
    /\ pc = "start" => StepsLeftHere = 4 + AttemptsPerPlan
BY DEF StepsLeftHere, AtRest

(* A turn of run_with_retry uses up an attempt.                             *)
LEMMA AttemptPaid ==
  IInv /\ IInv' /\ Attempt =>
    /\ pc = "execute" /\ UNCHANGED replans
    /\ \/ pc' \in {"raised", "finalize", "exhausted"}
       \/ pc' = "execute" /\ AttemptsLeft' < AttemptsLeft
<1> SUFFICES ASSUME IInv, IInv', Attempt
             PROVE  /\ pc = "execute" /\ UNCHANGED replans
                    /\ \/ pc' \in {"raised", "finalize", "exhausted"}
                       \/ pc' = "execute" /\ AttemptsLeft' < AttemptsLeft
  OBVIOUS
<1> DEFINE K == AttemptsPerStep
<1>1. pc = "execute" /\ UNCHANGED replans
  BY DEF Attempt
<1>2. PICK o, m : Tried(o, m)
  BY DEF Attempt
<1>3. /\ index \in Nat /\ attempt \in Nat /\ MaxRetries \in Nat
      /\ attempt <= MaxRetries /\ MaxSteps \in Nat /\ index' \in 1..MaxSteps
      /\ K = MaxRetries + 1 /\ K \in Nat
  BY RuntimeAssumption, AttemptsType DEF IInv, TypeOK, AttemptsPerStep
<1>4. /\ AttemptsLeft = (MaxSteps - index) * K + (K - attempt)
      /\ AttemptsLeft' = (MaxSteps - index') * K + (K - attempt')
  BY DEF AttemptsLeft
<1>5. \/ pc' \in {"raised", "finalize", "exhausted"}
      \/ pc' = "execute" /\ index' = index + 1 /\ attempt' = 0
      \/ pc' = "execute" /\ index' = index /\ attempt' = attempt + 1
  BY <1>1, <1>2, <1>3 DEF Tried, StepPassed, StepRetried, StepExhausted
<1> HIDE DEF K
<1>6. CASE pc' = "execute" /\ index' = index + 1 /\ attempt' = 0
  <2>1. MaxSteps - (index + 1) \in Nat
    BY <1>3, <1>6
  <2>2. (MaxSteps - (index + 1) + 1) * K = (MaxSteps - (index + 1)) * K + K
    BY <1>3, <2>1, Times
  <2>3. MaxSteps - (index + 1) + 1 = MaxSteps - index
    BY <1>3
  <2>4. (MaxSteps - (index + 1)) * K \in Nat
    BY <1>3, <2>1, Times
  <2> QED
    BY <1>1, <1>3, <1>4, <1>6, <2>2, <2>3, <2>4
<1>7. CASE pc' = "execute" /\ index' = index /\ attempt' = attempt + 1
  <2>1. MaxSteps - index \in Nat
    BY <1>3, <1>7
  <2>2. (MaxSteps - index) * K \in Nat
    BY <1>3, <2>1, Times
  <2> QED
    BY <1>1, <1>3, <1>4, <1>7, <2>2
<1> QED
  BY <1>1, <1>5, <1>6, <1>7

(* A replan is worth the attempts of a plan and the two steps around them.  *)
LEMMA ReplanPaid ==
  ASSUME IInv, IInv', AnnounceReplan
  PROVE  StepsLeft' \in Nat /\ StepsLeft' < StepsLeft
<1> DEFINE Q == AttemptsPerPlan + 2
<1>1. Q \in Nat /\ Q >= 2 /\ Q = AttemptsPerPlan + 2
  BY AttemptsType
<1>2. /\ pc = "exhausted" /\ pc' \in {"raised", "replan"}
      /\ replans' = replans + 1 /\ replans' <= MaxReplans
      /\ replans \in Nat /\ MaxReplans \in Nat
  <2>1. pc = "exhausted" /\ replans < MaxReplans /\ replans' = replans + 1
    BY DEF AnnounceReplan
  <2>2. pc' \in {"raised", "replan"}
    BY DEF AnnounceReplan
  <2>3. replans \in Nat /\ MaxReplans \in Nat
    BY RuntimeAssumption DEF IInv, TypeOK
  <2> QED
    BY <2>1, <2>2, <2>3
<1>3. StepsLeftHere = 2
  BY <1>2, LeftHere DEF IInv
<1>4. /\ pc' = "raised" => StepsLeftHere' = 0
      /\ pc' = "replan" => StepsLeftHere' = 3 + AttemptsPerPlan
  BY DEF StepsLeftHere, AtRest
<1>5. StepsLeftHere' = 0 \/ StepsLeftHere' = 1 + Q
  BY <1>1, <1>2, <1>4, AttemptsType
<1>6. /\ StepsLeft = (MaxReplans - replans) * Q + StepsLeftHere
      /\ StepsLeft' = (MaxReplans - replans') * Q + StepsLeftHere'
  BY DEF StepsLeft
<1> HIDE DEF Q
<1>7. MaxReplans - replans' \in Nat /\ MaxReplans - replans' + 1 = MaxReplans - replans
  BY <1>2
<1>8. /\ (MaxReplans - replans') * Q \in Nat
      /\ (MaxReplans - replans' + 1) * Q = (MaxReplans - replans') * Q + Q
  BY <1>1, <1>7, Times
<1>9. (MaxReplans - replans) * Q = (MaxReplans - replans') * Q + Q
  BY <1>7, <1>8
<1> QED
  BY <1>1, <1>3, <1>5, <1>6, <1>8, <1>9

LEMMA NextPaid ==
  IInv /\ IInv' /\ Step => StepsLeft' \in Nat /\ StepsLeft' < StepsLeft
<1> SUFFICES ASSUME IInv, IInv', Step
             PROVE  StepsLeft' \in Nat /\ StepsLeft' < StepsLeft
  OBVIOUS
<1>0. TypeOK /\ TypeOK'
  BY DEF IInv
<1>1. /\ pc \in {"finish", "failing"} => StepsLeftHere = 1
      /\ pc = "finalize" \/ pc = "exhausted" => StepsLeftHere = 2
      /\ pc = "execute" => StepsLeftHere = 2 + AttemptsLeft
      /\ pc = "prepare" \/ pc = "replan" => StepsLeftHere = 3 + AttemptsPerPlan
      /\ pc = "start" => StepsLeftHere = 4 + AttemptsPerPlan
  BY <1>0, LeftHere
<1>2. /\ pc' \in {"returned", "raised"} => StepsLeftHere' = 0
      /\ pc' \in {"finish", "failing"} => StepsLeftHere' = 1
      /\ pc' \in {"finalize", "exhausted"} => StepsLeftHere' = 2
      /\ pc' = "execute" => StepsLeftHere' = 2 + AttemptsLeft'
      /\ pc' = "prepare" => StepsLeftHere' = 3 + AttemptsPerPlan
  BY DEF StepsLeftHere, AtRest
<1>3. AttemptsPerPlan \in Nat /\ AttemptsLeft \in Nat /\ AttemptsLeft > 0
  BY <1>0, AttemptsType, AttemptsInHand
<1>4. AttemptsLeft' \in Nat
  <2>1. (TypeOK)' => (AttemptsLeft \in Nat)'
    BY AttemptsInHand, PTL
  <2> QED
    BY <1>0, <2>1
<1>5. index' = 1 /\ attempt' = 0 => AttemptsLeft' = AttemptsPerPlan
  <2>1. (TypeOK)' => (index = 1 /\ attempt = 0 => AttemptsLeft = AttemptsPerPlan)'
    BY AttemptsInHand, PTL
  <2> QED
    BY <1>0, <2>1
<1>6. CASE StartTask
  <2>1. pc = "start" /\ pc' \in {"raised", "prepare"} /\ UNCHANGED replans
    BY <1>6 DEF StartTask
  <2> QED
    BY <1>0, <1>1, <1>2, <1>3, <2>1, PaidHere
<1>7. CASE PreparePlan \/ Replan
  <2>1. /\ pc = "prepare" \/ pc = "replan"
        /\ pc' \in {"finalize", "execute"} /\ index' = 1 /\ attempt' = 0
        /\ UNCHANGED replans
    BY <1>7 DEF PreparePlan, Replan, Begin
  <2>2. StepsLeftHere = 3 + AttemptsPerPlan
    BY <1>1, <2>1
  <2>3. StepsLeftHere' = 2 \/ StepsLeftHere' = 2 + AttemptsPerPlan
    BY <1>2, <1>5, <2>1
  <2> QED
    BY <1>0, <1>3, <2>1, <2>2, <2>3, PaidHere
<1>8. CASE PrepareFails \/ ReplanFails \/ VerifyGoalRaises
  <2>1. /\ pc = "prepare" \/ pc = "replan" \/ pc = "finalize"
        /\ pc' = "failing" /\ UNCHANGED replans
    BY <1>8 DEF PrepareFails, ReplanFails, VerifyGoalRaises
  <2> QED
    BY <1>0, <1>1, <1>2, <1>3, <2>1, PaidHere
<1>9. CASE Attempt
  <2>1. /\ pc = "execute" /\ UNCHANGED replans
        /\ \/ pc' \in {"raised", "finalize", "exhausted"}
           \/ pc' = "execute" /\ AttemptsLeft' < AttemptsLeft
    BY <1>9, AttemptPaid
  <2>2. /\ StepsLeftHere = 2 + AttemptsLeft
        /\ \/ StepsLeftHere' = 0 \/ StepsLeftHere' = 2
           \/ StepsLeftHere' = 2 + AttemptsLeft' /\ AttemptsLeft' < AttemptsLeft
    BY <1>1, <1>2, <2>1
  <2> QED
    BY <1>0, <1>3, <1>4, <2>1, <2>2, PaidHere
<1>10. CASE GiveUp
  <2>1. pc = "exhausted" /\ pc' \in {"raised", "finish"} /\ UNCHANGED replans
    BY <1>10 DEF GiveUp
  <2> QED
    BY <1>0, <1>1, <1>2, <2>1, PaidHere
<1>11. CASE AnnounceReplan
  BY <1>11, ReplanPaid
<1>12. CASE FinalizeTask
  <2>1. pc = "finalize" /\ pc' \in {"failing", "finish"} /\ UNCHANGED replans
    BY <1>12 DEF FinalizeTask
  <2> QED
    BY <1>0, <1>1, <1>2, <2>1, PaidHere
<1>13. CASE Finish \/ FailureReport
  <2>1. /\ pc \in {"finish", "failing"} /\ pc' \in {"returned", "raised"}
        /\ UNCHANGED replans
    BY <1>13 DEF Finish, FailureReport
  <2> QED
    BY <1>0, <1>1, <1>2, <2>1, PaidHere
<1> QED
  BY <1>6, <1>7, <1>8, <1>9, <1>10, <1>11, <1>12, <1>13 DEF Step

(* A run takes boundedly many steps: each leaves fewer to come, counted     *)
(* from the retry, replan and step limits.                                  *)
THEOREM StepsArePaidFor == Spec => EveryStepIsPaidFor
BY InitIInv, NextIInv, NextPaid, PTL DEF Spec, EveryStepIsPaidFor

-----------------------------------------------------------------------------
(* One task life *)

(* The table of Task.to, spelled out.                                      *)
LEMMA AllowedTable ==
  /\ TL!Allowed["running"] = {"succeeded", "failed", "recovering"}
  /\ TL!Allowed["recovering"] = {"running", "failed"}
BY DEF TL!Allowed, TL!Statuses

LEMMA NextLifecycle == IInv /\ [Next]_vars => [TL!Next]_(TL!vars)
<1> SUFFICES ASSUME IInv, [Next]_vars PROVE [TL!Next]_(TL!vars)
  OBVIOUS
<1> USE DEF CallResult, TL!vars, TL!Terminal
<1>0. /\ status \in TL!Statuses /\ replans \in 0..MaxReplans /\ MaxReplans \in Nat
      /\ StatusAtPlace
  BY RuntimeAssumption DEF IInv, TypeOK, Statuses, TL!Statuses, Control
<1>1. ASSUME NEW w \in Worlds, Run(w) PROVE TL!Next
  BY <1>0, <1>1 DEF Run, Reset, AtRest, StatusAtPlace, TL!Next, TL!Begin
<1>2. CASE StartTask
  <2>1. pc = "start" /\ pc' \in {"raised", "prepare"} /\ UNCHANGED <<status, replans>>
    BY <1>2 DEF StartTask
  <2> QED
    BY <1>0, <2>1 DEF StatusAtPlace, TL!Next, TL!Raise
<1>3. CASE PreparePlan \/ PrepareFails
  BY <1>3 DEF PreparePlan, PrepareFails, Begin
<1>4. CASE Attempt
  <2>1. /\ pc = "execute" /\ UNCHANGED <<status, replans>>
        /\ pc' \in {"raised", "execute", "finalize", "exhausted"}
    BY <1>4 DEF Attempt, Tried, StepPassed, StepRetried, StepExhausted
  <2> QED
    BY <1>0, <2>1 DEF StatusAtPlace, TL!Next, TL!Raise
<1>5. CASE GiveUp
  <2>1. /\ pc = "exhausted" /\ pc' \in {"raised", "finish"}
        /\ status' = "failed" /\ UNCHANGED replans
    BY <1>5 DEF GiveUp
  <2>2. status = "running"
    BY <1>0, <2>1 DEF StatusAtPlace
  <2>3. CASE pc' = "raised"
    BY <2>1, <2>2, <2>3, AllowedTable DEF TL!Next, TL!Raise
  <2>4. CASE pc' = "finish"
    <3>1. TL!Move("failed")
      BY <1>0, <2>1, <2>2, <2>4, AllowedTable DEF TL!Move
    <3> QED
      BY <3>1 DEF TL!Next, TL!Statuses
  <2> QED
    BY <2>1, <2>3, <2>4
<1>6. CASE AnnounceReplan
  <2>1. /\ pc = "exhausted" /\ replans' = replans + 1 /\ replans < MaxReplans
        /\ \/ pc' = "raised" /\ UNCHANGED status
           \/ pc' = "replan" /\ status' = "recovering"
    BY <1>6 DEF AnnounceReplan
  <2>2. status = "running" /\ replans' <= MaxReplans
    BY <1>0, <2>1 DEF StatusAtPlace
  <2>3. CASE pc' = "raised"
    BY <2>1, <2>2, <2>3 DEF TL!Next, TL!Raise
  <2>4. CASE pc' = "replan"
    <3>1. TL!Move("recovering")
      BY <2>1, <2>2, <2>4, AllowedTable DEF TL!Move
    <3> QED
      BY <3>1 DEF TL!Next, TL!Statuses
  <2> QED
    BY <2>1, <2>3, <2>4
<1>7. CASE Replan
  <2>1. /\ pc = "replan" /\ pc' \in {"finalize", "execute"}
        /\ status' = "running" /\ UNCHANGED replans
    BY <1>7 DEF Replan, Begin
  <2>2. TL!Move("running")
    BY <1>0, <2>1, AllowedTable DEF StatusAtPlace, TL!Move
  <2> QED
    BY <2>2 DEF TL!Next, TL!Statuses
<1>8. CASE ReplanFails \/ VerifyGoalRaises
  BY <1>8 DEF ReplanFails, VerifyGoalRaises
<1>9. CASE FinalizeTask
  <2>1. /\ pc = "finalize" /\ UNCHANGED replans
        /\ \/ pc' = "failing" /\ UNCHANGED status
           \/ pc' = "finish" /\ status' \in {"succeeded", "failed"}
    BY <1>9 DEF FinalizeTask
  <2>2. status = "running"
    BY <1>0, <2>1 DEF StatusAtPlace
  <2>3. CASE pc' = "failing"
    BY <2>1, <2>3
  <2>4. CASE pc' = "finish"
    <3>1. TL!Move(status')
      BY <1>0, <2>1, <2>2, <2>4, AllowedTable DEF TL!Move
    <3>2. status' \in TL!Statuses
      BY <2>1, <2>4 DEF TL!Statuses
    <3> QED
      BY <3>1, <3>2 DEF TL!Next
  <2> QED
    BY <2>1, <2>3, <2>4
<1>10. CASE Finish
  BY <1>0, <1>10 DEF Finish, StatusAtPlace, TL!Next, TL!Return
<1>11. CASE FailureReport
  <2>1. /\ pc = "failing" /\ UNCHANGED replans
        /\ \/ pc' = "raised" /\ UNCHANGED status
           \/ pc' = "returned" /\ status' = "failed"
    BY <1>11 DEF FailureReport
  <2>2. status \in {"running", "recovering"}
    BY <1>0, <2>1 DEF StatusAtPlace
  <2>3. CASE pc' = "raised"
    BY <2>1, <2>2, <2>3 DEF TL!Next, TL!Raise
  <2>4. CASE pc' = "returned"
    BY <2>1, <2>2, <2>4, AllowedTable DEF TL!Next, TL!Return
  <2> QED
    BY <2>1, <2>3, <2>4
<1>12. CASE UNCHANGED vars
  BY <1>12 DEF vars
<1> QED
  BY <1>1, <1>2, <1>3, <1>4, <1>5, <1>6, <1>7, <1>8, <1>9, <1>10, <1>11, <1>12
  DEF Next, Step

(* The runtime implements the life of a task: every step of run() is a     *)
(* step of TaskLifecycle or leaves the task alone.                         *)
THEOREM RuntimeIsATaskLife == Spec => TL!Safety
<1>1. Init => TL!Init
  BY DEF Init, TL!Init, CallResult
<1> QED
  BY InitIInv, NextIInv, NextLifecycle, <1>1, PTL DEF Spec, TL!Safety
=============================================================================
