---------------------------- MODULE AgentRuntime ----------------------------
(***************************************************************************)
(* AgentRuntime.run with its StepExecutor, RuntimePlanner and RuntimeHooks. *)
(*                                                                          *)
(* The planner, validator, scheduler, skills, tools, monitor, memory sink   *)
(* and observers are replaceable boundaries: each call into one of them     *)
(* returns any value it may return, or raises.  What stays is the control   *)
(* of the loop: which exception is caught where, what is retried from which *)
(* world, when a plan is replaced, which event and which memory record goes *)
(* out in which order, and what the report is built from.                   *)
(*                                                                          *)
(* One action is one method of the loop; run() is called again and again on *)
(* the same AgentRuntime, as its callers may.                               *)
(***************************************************************************)
EXTENDS Integers, Sequences, FiniteSets

CONSTANTS
  Worlds,           \* the immutable WorldState snapshots
  GoalWorlds,       \* those where goal_spec.is_satisfied
  Observers,        \* RuntimeHooks._observers
  FaultyObservers,  \* those whose on_event may raise
  Policies,         \* memory configurations to start from
  MaxRetries,       \* max_retries
  MaxReplans,       \* max_replans
  MaxSteps          \* PlanValidator.max_steps

ASSUME RuntimeAssumption ==
  /\ GoalWorlds \subseteq Worlds
  /\ FaultyObservers \subseteq Observers
  /\ IsFiniteSet(Observers)
  /\ Policies \subseteq {"none", "best_effort", "raise"}
  /\ MaxRetries \in Nat
  /\ MaxReplans \in Nat
  /\ MaxSteps \in Nat \ {0}

VARIABLES
  pc,           \* where run() is
  policy,       \* "none": memory is None; else MemoryFailurePolicy
  status,       \* task.status
  error,        \* what task.error will name: the failed stage
  world,        \* the local `world` of run / _execute_plan_loop
  replans,      \* replans
  plan,         \* steps: the kinds of the scheduled steps
  index,        \* the step being executed
  attempt,      \* attempt in run_with_retry
  trace,        \* _RunState.trace
  planHistory,  \* _RunState.plan_history
  seen,         \* the events of this run each observer was handed
  recorded,     \* how many MemorySink.record calls of this run returned
  sinkFailed,   \* whether one of them raised
  diagnostics,  \* RuntimeHooks._diagnostics, counted per component
  reports       \* the RunReport this run returned, once it did

loopVars == <<plan, index, attempt>>
hookVars == <<seen, recorded, sinkFailed, diagnostics>>
vars == <<pc, policy, status, error, world, replans, loopVars, trace,
          planHistory, hookVars, reports>>

-----------------------------------------------------------------------------
(* Types *)

Statuses  == {"pending", "running", "succeeded", "failed", "recovering"}
StepKinds == {"skill", "tool"}
Plans     == UNION {[1..n -> StepKinds] : n \in 0..MaxSteps}

(* The stages PlanningStageFailure names on the first plan. *)
PlanningStages == {"goal_parsing", "planning", "validation", "scheduling"}
NoError == "none"
Errors  == PlanningStages \cup
           {NoError, "replanning", "goal_verification", "replans_exhausted",
            "goal_unmet"}

(* StepRecord; `plan` is the plan it was executed under and `raised` says  *)
(* whether error_type is set.                                              *)
Records == [plan : 1..(MaxReplans + 1), step : 1..MaxSteps,
            attempt : 0..MaxRetries, passed : BOOLEAN, raised : BOOLEAN]

(* RuntimeEvent; a step_result carries no task.  `count` is the length of  *)
(* the trace when the event was built: the place of its step in the trace. *)
EventKinds == {"task_started", "step_result", "replan", "task_finished"}
NoTask  == "none"
Events  == [kind : EventKinds, world : Worlds, status : Statuses \cup {NoTask},
            replans : 0..MaxReplans, count : Nat]

Diagnostics == [memory : Nat, observer : Nat]
NoDiagnostics == [memory |-> 0, observer |-> 0]

Reports == [status : Statuses, world : Worlds, replans : 0..MaxReplans,
            diagnostics : Diagnostics]

Labels == {"idle", "start", "prepare", "execute", "exhausted", "replan",
           "finalize", "failing", "finish", "returned", "raised"}
AtRest == {"idle", "returned", "raised"}

TypeOK ==
  /\ pc \in Labels
  /\ policy \in Policies
  /\ status \in Statuses
  /\ error \in Errors
  /\ world \in Worlds
  /\ replans \in 0..MaxReplans
  /\ plan \in Plans
  /\ index \in 1..MaxSteps
  /\ attempt \in 0..MaxRetries
  /\ trace \in Seq(Records)
  /\ planHistory \in Seq(Plans)
  /\ seen \in [Observers -> Seq(Events)]
  /\ recorded \in Nat
  /\ sinkFailed \in BOOLEAN
  /\ diagnostics \in Diagnostics
  /\ reports \in Seq(Reports)

-----------------------------------------------------------------------------
(* RuntimeHooks *)

(* Slip: RAISE handled like BEST_EFFORT.                                   *)
RememberResults_NeverRaising(n) ==
  {m \in [stored : 0..n, lost : 0..n, raises : {FALSE}] :
     IF policy = "none" THEN m.stored + m.lost = 0 ELSE m.stored + m.lost = n}

(* What n calls of remember() in a row may do: how many records the sink   *)
(* took, how many failures became diagnostics, and whether one propagated. *)
RememberResults(n) ==
  {m \in [stored : 0..n, lost : 0..n, raises : BOOLEAN] :
     /\ policy = "none" => m.stored = 0 /\ m.lost = 0
     /\ policy = "best_effort" => m.stored + m.lost = n
     /\ policy = "raise" => m.lost = 0 /\ (m.raises <=> m.stored < n)
     /\ m.raises => policy = "raise"}

Remembered(m) ==
  /\ recorded' = recorded + m.stored
  /\ sinkFailed' = (sinkFailed \/ m.raises \/ m.lost > 0)

(* No event goes out: the method emits none, or remember() raised first.   *)
Silent(m) ==
  /\ diagnostics' = [memory   |-> diagnostics.memory + m.lost,
                     observer |-> diagnostics.observer]
  /\ UNCHANGED seen

(* Slip: the try around the loop over the observers instead of in it.      *)
Emitted_StopsAtFailure(e, m) ==
  \E failing \in SUBSET FaultyObservers :
    /\ seen' = [o \in Observers |->
                 IF failing = {} \/ o \in failing THEN Append(seen[o], e)
                                                 ELSE seen[o]]
    /\ diagnostics' = [memory   |-> diagnostics.memory + m.lost,
                       observer |-> diagnostics.observer + Cardinality(failing)]

(* emit: every observer is handed the event, whichever of them raise.      *)
Emitted(e, m) ==
  /\ seen' = [o \in Observers |-> Append(seen[o], e)]
  /\ \E failing \in SUBSET FaultyObservers :
       diagnostics' = [memory   |-> diagnostics.memory + m.lost,
                       observer |-> diagnostics.observer + Cardinality(failing)]

Event(kind, w, s, r, n) ==
  [kind |-> kind, world |-> w, status |-> s, replans |-> r, count |-> n]

-----------------------------------------------------------------------------
(* run: a new task, on an AgentRuntime that may have run before *)

Init ==
  /\ pc = "idle"
  /\ policy \in Policies
  /\ status = "pending"
  /\ error = NoError
  /\ world \in Worlds
  /\ replans = 0
  /\ plan = <<>> /\ index = 1 /\ attempt = 0
  /\ trace = <<>>
  /\ planHistory = <<>>
  /\ seen = [o \in Observers |-> <<>>]
  /\ recorded = 0 /\ sinkFailed = FALSE
  /\ diagnostics = NoDiagnostics
  /\ reports = <<>>

(* reset: the hooks outlive a run, their diagnostics do not.               *)
Reset_Forgotten == UNCHANGED diagnostics

Reset == diagnostics' = NoDiagnostics

(* run 150-157: hooks.reset, a fresh _RunState, Task(goal).to(RUNNING).    *)
Run(w) ==
  /\ pc \in AtRest
  /\ pc' = "start"
  /\ status' = "running"
  /\ error' = NoError
  /\ world' = w
  /\ replans' = 0
  /\ plan' = <<>> /\ index' = 1 /\ attempt' = 0
  /\ trace' = <<>>
  /\ planHistory' = <<>>
  /\ seen' = [o \in Observers |-> <<>>]
  /\ recorded' = 0 /\ sinkFailed' = FALSE
  /\ Reset
  /\ reports' = <<>>
  /\ UNCHANGED policy

(* _start_task *)
StartTask ==
  /\ pc = "start"
  /\ \E m \in RememberResults(1) :
       /\ Remembered(m)
       /\ \/ /\ m.raises
             /\ pc' = "raised"
             /\ Silent(m)
          \/ /\ ~m.raises
             /\ pc' = "prepare"
             /\ Emitted(Event("task_started", world, status, 0, 0), m)
  /\ UNCHANGED <<policy, status, error, world, replans, loopVars, trace,
                 planHistory, reports>>

-----------------------------------------------------------------------------
(* RuntimePlanner.prepare *)

(* The plans that may come out of planner, validator and scheduler: at     *)
(* most max_steps steps, and no empty plan unless the goal already holds.  *)
Prepared(w) == {p \in Plans : p = <<>> => w \in GoalWorlds}

(* Enter the loop with plan p.                                              *)
Begin(p) ==
  /\ plan' = p
  /\ index' = 1 /\ attempt' = 0
  /\ planHistory' = Append(planHistory, p)
  /\ pc' = IF p = <<>> THEN "finalize" ELSE "execute"

(* run 160-166 when planning succeeds *)
PreparePlan ==
  /\ pc = "prepare"
  /\ \E p \in Prepared(world) : Begin(p)
  /\ UNCHANGED <<policy, status, error, world, replans, trace, hookVars,
                 reports>>

(* ... and when a stage of it raises *)
PrepareFails ==
  /\ pc = "prepare"
  /\ error' \in PlanningStages
  /\ pc' = "failing"
  /\ UNCHANGED <<policy, status, world, replans, loopVars, trace, planHistory,
                 hookVars, reports>>

-----------------------------------------------------------------------------
(* StepExecutor *)

(* _run_skill: parameter resolution, the skill or its check raises and the *)
(* world before the step is kept; or the skill hands back some world and   *)
(* the monitor accepts it or not.                                          *)
SkillOutcomes(w) ==
  {[world |-> w, passed |-> FALSE, raised |-> TRUE]} \cup
  [world : Worlds, passed : BOOLEAN, raised : {FALSE}]

(* _run_tool: a tool has no effect on the world; it returns or raises.     *)
ToolOutcomes(w) ==
  {[world |-> w, passed |-> FALSE, raised |-> TRUE],
   [world |-> w, passed |-> TRUE, raised |-> FALSE]}

TryStep(kind, w) == IF kind = "skill" THEN SkillOutcomes(w) ELSE ToolOutcomes(w)

StepRecord(o) ==
  [plan |-> Len(planHistory), step |-> index, attempt |-> attempt,
   passed |-> o.passed, raised |-> o.raised]

(* What the loop does with an outcome: go on, retry from the same world,   *)
(* or give the step up.  Two slips: an attempt counter shared by the steps  *)
(* of a plan, and a retry from the world a failed attempt left.            *)
StepPassed_KeepsAttempt(o) ==
  /\ o.passed
  /\ world' = o.world
  /\ attempt' = attempt
  /\ IF index = Len(plan) THEN pc' = "finalize" /\ index' = index
                          ELSE pc' = "execute" /\ index' = index + 1

StepPassed(o) ==
  /\ o.passed
  /\ world' = o.world
  /\ attempt' = 0
  /\ IF index = Len(plan) THEN pc' = "finalize" /\ index' = index
                          ELSE pc' = "execute" /\ index' = index + 1

StepRetried_FromNewWorld(o) ==
  /\ ~o.passed
  /\ attempt + 1 <= MaxRetries
  /\ attempt' = attempt + 1
  /\ world' = o.world
  /\ UNCHANGED <<pc, index>>

StepRetried(o) ==
  /\ ~o.passed
  /\ attempt + 1 <= MaxRetries
  /\ attempt' = attempt + 1
  /\ UNCHANGED <<pc, world, index>>

StepExhausted(o) ==
  /\ ~o.passed
  /\ attempt + 1 > MaxRetries
  /\ world' = o.world
  /\ pc' = "exhausted"
  /\ UNCHANGED <<index, attempt>>

(* Slip: only attempts that pass are shown to the observers.               *)
Tried_ShowsPassesOnly(o, m) ==
  /\ trace' = Append(trace, StepRecord(o))
  /\ Remembered(m)
  /\ ~m.raises
  /\ IF o.passed
       THEN Emitted(Event("step_result", o.world, NoTask, 0, Len(trace) + 1), m)
       ELSE Silent(m)
  /\ StepPassed(o) \/ StepRetried(o) \/ StepExhausted(o)

(* One turn of run_with_retry: try, append to the trace, remember the step *)
(* (and the exception), emit, decide.                                      *)
Tried(o, m) ==
  /\ trace' = Append(trace, StepRecord(o))
  /\ Remembered(m)
  /\ \/ /\ m.raises
        /\ pc' = "raised"
        /\ Silent(m)
        /\ UNCHANGED <<world, index, attempt>>
     \/ /\ ~m.raises
        /\ Emitted(Event("step_result", o.world, NoTask, 0, Len(trace) + 1), m)
        /\ StepPassed(o) \/ StepRetried(o) \/ StepExhausted(o)

Attempt ==
  /\ pc = "execute"
  /\ \E o \in TryStep(plan[index], world) :
       \E m \in RememberResults(IF o.raised THEN 2 ELSE 1) : Tried(o, m)
  /\ UNCHANGED <<policy, status, error, replans, plan, planHistory, reports>>

-----------------------------------------------------------------------------
(* _execute_plan_loop once a step has failed *)

(* Lines 223-230: the replans are used up. *)
GiveUp ==
  /\ pc = "exhausted"
  /\ replans >= MaxReplans
  /\ status' = "failed"
  /\ error' = "replans_exhausted"
  /\ \E m \in RememberResults(1) :
       /\ Remembered(m)
       /\ Silent(m)
       /\ pc' = IF m.raises THEN "raised" ELSE "finish"
  /\ UNCHANGED <<policy, world, replans, loopVars, trace, planHistory, reports>>

(* Slip: the bound tested with > instead of >=.                            *)
AnnounceReplan_OneTooMany ==
  /\ pc = "exhausted"
  /\ replans <= MaxReplans
  /\ replans' = replans + 1
  /\ pc' = "replan"
  /\ status' = "recovering"
  /\ \E m \in RememberResults(1) :
       /\ Remembered(m)
       /\ Emitted(Event("replan", world, "recovering", replans + 1, Len(trace)), m)
  /\ UNCHANGED <<policy, error, world, loopVars, trace, planHistory, reports>>

(* Lines 231-232 and _announce_replan; `task` is assigned on its return.   *)
AnnounceReplan ==
  /\ pc = "exhausted"
  /\ replans < MaxReplans
  /\ replans' = replans + 1
  /\ \E m \in RememberResults(1) :
       /\ Remembered(m)
       /\ \/ /\ m.raises
             /\ pc' = "raised"
             /\ Silent(m)
             /\ UNCHANGED status
          \/ /\ ~m.raises
             /\ pc' = "replan"
             /\ status' = "recovering"
             /\ Emitted(Event("replan", world, "recovering", replans + 1,
                              Len(trace)), m)
  /\ UNCHANGED <<policy, error, world, loopVars, trace, planHistory, reports>>

(* Slip: the task is left in "recovering".                                 *)
Replan_StaysRecovering ==
  /\ pc = "replan"
  /\ \E p \in Prepared(world) : Begin(p)
  /\ UNCHANGED <<policy, status, error, world, replans, trace, hookVars, reports>>

(* Lines 233-257: the new plan is made from the current world. *)
Replan ==
  /\ pc = "replan"
  /\ status' = "running"
  /\ \E p \in Prepared(world) : Begin(p)
  /\ UNCHANGED <<policy, error, world, replans, trace, hookVars, reports>>

(* Lines 238-253: any stage raises, _ExecutionLoopFailure reaches run.     *)
ReplanFails ==
  /\ pc = "replan"
  /\ error' = "replanning"
  /\ pc' = "failing"
  /\ UNCHANGED <<policy, status, world, replans, loopVars, trace, planHistory,
                 hookVars, reports>>

-----------------------------------------------------------------------------
(* How run ends *)

(* Slip: steps that passed are taken for a goal that holds.                *)
FinalizeTask_Unverified ==
  /\ pc = "finalize"
  /\ status' = "succeeded"
  /\ pc' = "finish"
  /\ \E m \in RememberResults(1) : Remembered(m) /\ Silent(m)
  /\ UNCHANGED <<policy, error, world, replans, loopVars, trace, planHistory,
                 reports>>

(* _finalize_task inside the try of run 179-184: an exception of the goal  *)
(* check, and one of remember(), both end up as a failed verification.     *)
FinalizeTask ==
  /\ pc = "finalize"
  /\ \E m \in RememberResults(1) :
       /\ Remembered(m)
       /\ Silent(m)
       /\ \/ /\ m.raises
             /\ error' = "goal_verification"
             /\ pc' = "failing"
             /\ UNCHANGED status
          \/ /\ ~m.raises
             /\ world \in GoalWorlds
             /\ status' = "succeeded"
             /\ pc' = "finish"
             /\ UNCHANGED error
          \/ /\ ~m.raises
             /\ world \notin GoalWorlds
             /\ status' = "failed"
             /\ error' = "goal_unmet"
             /\ pc' = "finish"
  /\ UNCHANGED <<policy, world, replans, loopVars, trace, planHistory, reports>>

(* Slip: the goal verification outside the try.                            *)
VerifyGoalRaises_Uncaught ==
  /\ pc = "finalize"
  /\ error' = "goal_verification"
  /\ pc' = "raised"
  /\ UNCHANGED <<policy, status, world, replans, loopVars, trace, planHistory,
                 hookVars, reports>>

(* verify_goal raises: caught by run 181.                                  *)
VerifyGoalRaises ==
  /\ pc = "finalize"
  /\ error' = "goal_verification"
  /\ pc' = "failing"
  /\ UNCHANGED <<policy, status, world, replans, loopVars, trace, planHistory,
                 hookVars, reports>>

(* _build_report *)
BuildReport ==
  reports' = Append(reports, [status |-> status', world |-> world,
                              replans |-> replans, diagnostics |-> diagnostics'])

(* Lines 186-191 *)
Finish ==
  /\ pc = "finish"
  /\ pc' = "returned"
  /\ Emitted(Event("task_finished", world, status, replans, Len(trace)),
             [stored |-> 0, lost |-> 0, raises |-> FALSE])
  /\ UNCHANGED <<policy, status, error, world, replans, loopVars, trace,
                 planHistory, recorded, sinkFailed>>
  /\ BuildReport

(* _failure_report *)
FailureReport ==
  /\ pc = "failing"
  /\ \E m \in RememberResults(1) :
       /\ Remembered(m)
       /\ \/ /\ m.raises
             /\ pc' = "raised"
             /\ Silent(m)
             /\ UNCHANGED <<status, reports>>
          \/ /\ ~m.raises
             /\ pc' = "returned"
             /\ status' = "failed"
             /\ Emitted(Event("task_finished", world, "failed", replans,
                              Len(trace)), m)
             /\ BuildReport
  /\ UNCHANGED <<policy, error, world, replans, loopVars, trace, planHistory>>

-----------------------------------------------------------------------------

(* What run() does once it has been called. *)
Step == \/ StartTask \/ PreparePlan \/ PrepareFails \/ Attempt
        \/ GiveUp \/ AnnounceReplan \/ Replan \/ ReplanFails
        \/ FinalizeTask \/ VerifyGoalRaises \/ Finish \/ FailureReport

Next == Step \/ \E w \in Worlds : Run(w)

(* run() is synchronous: once called it goes on, provided the boundaries   *)
(* it calls return or raise.  Nobody has to call it.                       *)
Spec == Init /\ [][Next]_vars /\ WF_vars(Step)

-----------------------------------------------------------------------------
(* Properties *)

CallResult == IF pc = "returned" THEN "report"
              ELSE IF pc = "raised" THEN "exception" ELSE "none"

TL == INSTANCE TaskLifecycle WITH recoveries <- replans, result <- CallResult

(* Whatever the boundaries do, a run is one task life: the code never asks *)
(* Task.to for a move outside its table, recovers at most max_replans      *)
(* times, reports only terminal tasks, and ends.                           *)
Lifecycle == TL!Spec

(* The trace follows the recovery policy of the module's docstring: a step *)
(* is retried in place until max_retries is used up, only then is the plan *)
(* replaced, and only after a pass does the next step start.               *)
Follows(a, b) ==
  \/ /\ a.passed
     /\ b.plan = a.plan /\ b.step = a.step + 1 /\ b.attempt = 0
  \/ /\ ~a.passed /\ a.attempt < MaxRetries
     /\ b.plan = a.plan /\ b.step = a.step /\ b.attempt = a.attempt + 1
  \/ /\ ~a.passed /\ a.attempt = MaxRetries
     /\ b.plan = a.plan + 1 /\ b.step = 1 /\ b.attempt = 0

RetriesBeforeReplans ==
  /\ \A k \in 1..(Len(trace) - 1) : Follows(trace[k], trace[k + 1])
  /\ \A k \in 1..Len(trace) : trace[k].step <= Len(planHistory[trace[k].plan])
  /\ trace # <<>> => trace[1].plan = 1 /\ trace[1].step = 1 /\ trace[1].attempt = 0

(* Every observer can rebuild the run from its events alone: they start    *)
(* with task_started, carry the records of the trace t one by one, number  *)
(* the replans by the plan that failed, announce one only after a step has *)
(* failed its last attempt, and nothing follows task_finished.             *)
NextEvent(t, a, b) ==
  /\ a.kind # "task_finished" /\ b.kind # "task_started"
  /\ b.count = a.count + (IF b.kind = "step_result" THEN 1 ELSE 0)
  /\ b.kind = "replan" =>
       /\ a.kind = "step_result"
       /\ ~t[b.count].passed /\ t[b.count].attempt = MaxRetries
       /\ b.replans = t[b.count].plan

Tells(t, s) ==
  /\ s # <<>> => s[1].kind = "task_started" /\ s[1].count = 0
  /\ \A k \in 1..(Len(s) - 1) : NextEvent(t, s[k], s[k + 1])

StreamsTellTheTrace ==
  \A o \in Observers :
    /\ Tells(trace, seen[o])
    /\ pc = "returned" => seen[o][Len(seen[o])].count = Len(trace)

(* The worlds observers are shown are the worlds the loop acts on: only a  *)
(* step changes the world, and an attempt that raises shows the world the  *)
(* step started from, whatever an earlier failed attempt had shown.        *)
StandsFor(t, e) == e.kind = "step_result" => t[e.count].passed

BaseOf(t, s, j, k) == /\ j \in 1..k
                      /\ StandsFor(t, s[j])
                      /\ \A i \in (j + 1)..k : ~StandsFor(t, s[i])

Connected(t, s) ==
  \A k \in 1..(Len(s) - 1) :
    /\ s[k + 1].kind # "step_result" => s[k + 1].world = s[k].world
    /\ s[k + 1].kind = "step_result" /\ t[s[k + 1].count].raised =>
         \E j \in 1..k : BaseOf(t, s, j, k) /\ s[k + 1].world = s[j].world

WorldsAreConnected == \A o \in Observers : Connected(trace, seen[o])

(* The report and the last event are two accounts of one end: same status, *)
(* same world, same number of replans, a terminal status, and every        *)
(* diagnostic of the run, the ones of the last event included.             *)
ReportAgreesWithLastEvent ==
  /\ Len(reports) = IF pc = "returned" THEN 1 ELSE 0
  /\ \A k \in 1..Len(reports) :
       LET r == reports[k] IN
         /\ r.status \in {"succeeded", "failed"}
         /\ r.diagnostics = diagnostics
         /\ \A o \in Observers :
              LET e == seen[o][Len(seen[o])] IN
                /\ e.kind = "task_finished"
                /\ e.status = r.status
                /\ e.world = r.world
                /\ e.replans = r.replans

(* plan_history holds the first plan and one plan per replan that was      *)
(* planned: a reader can line it up with the report's replans and error.   *)
Unplanned  == pc \in {"idle", "start", "prepare"} \/ error \in PlanningStages
Replanning == pc = "replan" \/ error = "replanning"

PlanHistoryMatchesReplans ==
  LET n == Len(planHistory) IN
    /\ Unplanned => n = 0 /\ replans = 0 /\ trace = <<>>
    /\ Replanning => n = replans
    /\ pc = "raised" => n \in {replans, replans + 1}
    /\ ~Unplanned /\ ~Replanning /\ pc # "raised" => n = replans + 1

(* A run is reported as succeeded only when the goal holds in the reported *)
(* world and the last plan was carried out to its last step.               *)
Completed ==
  LET n == Len(planHistory)
      last == trace[Len(trace)]
  IN /\ n > 0
     /\ planHistory[n] # <<>> =>
          /\ trace # <<>> /\ last.passed
          /\ last.plan = n /\ last.step = Len(planHistory[n])

SuccessIsEarned ==
  \A k \in 1..Len(reports) :
    reports[k].status = "succeeded" => reports[k].world \in GoalWorlds /\ Completed

(* Best effort loses nothing in silence: each remember() of the run, two   *)
(* for an attempt that raised, is in the memory or is a diagnostic of this *)
(* run and of no earlier one.                                              *)
NothingForgottenInSilence ==
  policy = "best_effort" /\ pc \notin {"idle", "start"} =>
    recorded + diagnostics.memory =
      1 + Len(trace) + Cardinality({k \in 1..Len(trace) : trace[k].raised})
        + replans + (IF pc \in {"finish", "returned"} THEN 1 ELSE 0)

(* Under RAISE a record that was not taken is never passed over: the run is  *)
(* not reported as succeeded, and the only such failure that ends in a     *)
(* report is one during the goal verification.  And nothing else leaves    *)
(* run() as an exception.                                                  *)
OnlyStrictMemoryPropagates == pc = "raised" => policy = "raise" /\ sinkFailed

StrictMemorySpeaksUp ==
  /\ OnlyStrictMemoryPropagates
  /\ policy = "raise" /\ sinkFailed /\ pc = "returned" =>
       status = "failed" /\ error = "goal_verification"

(* The budgets bound a run, whatever planner, skills, sink and observers do: *)
(* each step of run() leaves fewer to come.  An attempt is paid by its plan, *)
(* which has max_retries + 1 of them for each of its steps; a new plan, with *)
(* its announcement and its making, by a replan.                             *)
AttemptsPerStep == MaxRetries + 1
AttemptsPerPlan == MaxSteps * AttemptsPerStep
AttemptsLeft    == (MaxSteps - index) * AttemptsPerStep + (AttemptsPerStep - attempt)

StepsLeftHere ==
  CASE pc \in AtRest                   -> 0
    [] pc \in {"finish", "failing"}     -> 1
    [] pc \in {"finalize", "exhausted"} -> 2
    [] pc = "execute"                   -> 2 + AttemptsLeft
    [] pc \in {"prepare", "replan"}     -> 3 + AttemptsPerPlan
    [] OTHER                            -> 4 + AttemptsPerPlan

StepsLeft == (MaxReplans - replans) * (AttemptsPerPlan + 2) + StepsLeftHere

EveryStepIsPaidFor == [][Step => StepsLeft' \in Nat /\ StepsLeft' < StepsLeft]_vars

(* What test_raise_memory_policy_propagates_sink_failure says of RAISE: a  *)
(* sink failure reaches the caller of run.                                 *)
RaisePolicyPropagatesSinkFailure ==
  policy = "raise" /\ sinkFailed => pc # "returned"

-----------------------------------------------------------------------------
(* The strengthening the proofs need: what holds at each place of run().   *)

(* The status and the pending error at each place.                         *)
StatusAtPlace ==
  /\ pc = "idle" => status = "pending"
  /\ pc \in {"start", "prepare", "execute", "exhausted", "finalize"} =>
       status = "running"
  /\ pc = "replan" => status = "recovering"
  /\ pc = "failing" => status \in {"running", "recovering"}
  /\ pc \in {"finish", "returned"} => status \in {"succeeded", "failed"}

ErrorAtPlace ==
  /\ pc \in {"idle", "start", "prepare", "execute", "exhausted", "replan",
              "finalize"} => error = NoError
  /\ pc = "failing" =>
       error \in PlanningStages \cup {"replanning", "goal_verification"}
  /\ pc = "finish" => error \in {NoError, "replans_exhausted", "goal_unmet"}
  /\ status = "succeeded" => error = NoError

(* The plan in hand is the last one of the history, and the step in hand is *)
(* one of it.                                                               *)
PlanInHand ==
  pc \in {"execute", "exhausted", "finalize"} =>
    /\ Len(planHistory) > 0
    /\ plan = planHistory[Len(planHistory)]
    /\ pc # "finalize" => index \in 1..Len(plan)

Control == StatusAtPlace /\ ErrorAtPlace /\ PlanInHand /\ PlanHistoryMatchesReplans

(* The next attempt continues the trace; a step is given up, and a plan     *)
(* completed, as the last record says.                                      *)
TraceInHand ==
  LET n == Len(planHistory)
      last == trace[Len(trace)]
      cursor == [plan |-> n, step |-> index, attempt |-> attempt]
  IN /\ \A k \in 1..Len(trace) : trace[k].plan <= n
     /\ pc = "execute" => IF trace = <<>> THEN n = 1 /\ index = 1 /\ attempt = 0
                                         ELSE Follows(last, cursor)
     /\ pc \in {"exhausted", "replan"} =>
          /\ trace # <<>> /\ ~last.passed
          /\ last.attempt = MaxRetries /\ last.plan = n
     /\ pc = "finalize" => Completed
     /\ pc \in {"finish", "returned"} /\ status = "succeeded" =>
          Completed /\ world \in GoalWorlds

(* The report, and the last event each observer got, are the state run()    *)
(* ends in.                                                                 *)
ReportInHand ==
  /\ reports = IF pc = "returned"
                 THEN <<[status |-> status, world |-> world, replans |-> replans,
                         diagnostics |-> diagnostics]>>
                 ELSE <<>>
  /\ pc = "returned" => \A o \in Observers :
       /\ seen[o] # <<>>
       /\ seen[o][Len(seen[o])] =
            Event("task_finished", world, status, replans, Len(trace))

(* A sink failure under RAISE has ended the run, but for the one caught     *)
(* around the goal verification.                                            *)
StrictInHand ==
  /\ OnlyStrictMemoryPropagates
  /\ policy = "raise" /\ sinkFailed =>
       \/ pc = "raised"
       \/ pc \in {"failing", "returned"} /\ error = "goal_verification"

(* Every observer holds the events of the run so far, and they speak of     *)
(* attempts the trace has; before the run ends the last of them is as far   *)
(* as the trace, and a step is given up on its own event.                   *)
Reaches(t, s) ==
  \A k \in 1..Len(s) :
    /\ s[k].count <= Len(t)
    /\ s[k].kind \in {"step_result", "replan"} => s[k].count >= 1

InRun == pc \in {"prepare", "execute", "exhausted", "replan", "finalize",
                 "failing", "finish"}

StreamInHand(s) ==
  LET last == s[Len(s)]
  IN /\ pc = "start" => s = <<>>
     /\ InRun => s # <<>> /\ last.kind # "task_finished"
     /\ InRun \/ pc = "returned" => last.count = Len(trace)
     /\ pc = "exhausted" => last.kind = "step_result"
     /\ pc \in {"prepare", "replan"} => last.kind # "step_result"

(* The world in hand is the one the last event shows, but for a step that   *)
(* is tried again: then it is the one shown before the failed attempts.     *)
WorldInHand(s) ==
  LET n == Len(s)
  IN /\ pc = "execute" =>
          \E j \in 1..n : BaseOf(trace, s, j, n) /\ s[j].world = world
     /\ InRun /\ pc # "execute" => s[n].world = world

EventsInHand ==
  \A o \in Observers :
    /\ Tells(trace, seen[o]) /\ Reaches(trace, seen[o]) /\ Connected(trace, seen[o])
    /\ StreamInHand(seen[o]) /\ WorldInHand(seen[o])

(* Under best effort the records taken and the records lost add up.         *)
RaisedAttempts == Cardinality({k \in 1..Len(trace) : trace[k].raised})

MemoryInHand ==
  policy = "best_effort" =>
    recorded + diagnostics.memory =
      IF pc \in {"idle", "start"} THEN 0
      ELSE 1 + Len(trace) + RaisedAttempts
             + replans + (IF pc \in {"finish", "returned"} THEN 1 ELSE 0)
=============================================================================
