---------------------------- MODULE PlanExecution ----------------------------
(***************************************************************************)
(* From a plan to its last step: PlanValidator.validate, the scheduler, and *)
(* the steps carried out over an ExecutionContext that hands the outputs of *)
(* earlier steps to later ones, with retries in place and replans.          *)
(*                                                                          *)
(* The graph is built and sorted twice for each plan, by the validator and  *)
(* then by the scheduler: both are Kahn's loop of PlanScheduling.           *)
(* What a skill or tool does is left open: it may fail, or pass with any    *)
(* output.  So are the goal and the world: whether the goal holds already,  *)
(* and whether a step serves it, may go either way.                         *)
(***************************************************************************)
EXTENDS LLMPlanner, Integers, FiniteSets

CONSTANTS MaxSteps, MaxRetries, MaxReplans

ASSUME LimitsAssumption ==
  /\ MaxSteps \in Nat \ {0} /\ MaxRetries \in Nat /\ MaxReplans \in Nat
  /\ DOMAIN Answers = 1..(MaxReplans + 1) /\ DOMAIN FallbackPlans = DOMAIN Answers

VARIABLES
  pc, indegree, ready, order,   \* as in PlanScheduling
  stage,      \* where the run is, or how it ended
  at,         \* place in order of the step being carried out
  attempt,    \* attempt
  replans,    \* replans
  outputs,    \* ExecutionContext._outputs
  madeBy      \* the step that recorded each output; not in the code

sorting == <<pc, indegree, ready, order>>
running == <<at, attempt, outputs, madeBy>>
planner == <<fallback_mode, last_source, last_diagnostic>>
vars == <<steps, planner, sorting, stage, replans, running>>

Graph == INSTANCE PlanScheduling

Ended == {"unplanned", "invalid", "unscheduled", "exhausted", "carried_out"}

Step(k) == steps[order[k]]

Nothing == [id \in {} |-> None]

-----------------------------------------------------------------------------
(* RuntimePlanner.prepare: a plan arrives, or none does *)

Unsorted == pc' = "build" /\ indegree' = <<>> /\ ready' = {} /\ order' = <<>>

(* execute starts with a context of its own.                               *)
FreshContext == at' = 1 /\ attempt' = 0 /\ outputs' = Nothing /\ madeBy' = Nothing

Init ==
  /\ steps = <<>> /\ fallback_mode \in {"allow", "strict"}
  /\ last_source = "unset" /\ last_diagnostic = 0
  /\ pc = "build" /\ indegree = <<>> /\ ready = {} /\ order = <<>>
  /\ stage = "plan" /\ replans = 0
  /\ at = 1 /\ attempt = 0 /\ outputs = Nothing /\ madeBy = Nothing

Plan ==
  /\ stage = "plan"
  /\ \/ (PlanOnline(replans + 1) \/ FallBack(replans + 1)) /\ stage' = "check"
     \/ PlanRaises(replans + 1) /\ stage' = "unplanned"
  /\ UNCHANGED <<fallback_mode, sorting, replans, running>>

-----------------------------------------------------------------------------
(* PlanValidator.validate *)

(* Slip: an id may be given twice.                                         *)
WellShaped_AnyIds == Len(steps) <= MaxSteps

WellShaped ==
  /\ Len(steps) <= MaxSteps
  /\ \A i \in 1..Len(steps) : steps[i].id # BlankId
  /\ \A i, j \in 1..Len(steps) : steps[i].id = steps[j].id => i = j

(* Lines 42-55 of validator.py: an empty plan needs a goal that holds.     *)
Check ==
  /\ stage = "check"
  /\ IF Len(steps) = 0
       THEN stage' \in {"schedule", "invalid"}
       ELSE stage' = IF WellShaped THEN "graph" ELSE "invalid"
  /\ UNCHANGED <<steps, planner, sorting, replans, running>>

(* One step of Kahn's loop, for the validator or for the scheduler.        *)
SortStep ==
  /\ stage \in {"graph", "schedule"}
  /\ Graph!Next
  /\ UNCHANGED <<planner, stage, replans, running>>

(* Slip: the graph is built, and nobody looks for a cycle.                 *)
GraphChecked_BuiltOnly ==
  /\ stage = "graph" /\ pc \in {"scheduled", "illegal", "cycle"}
  /\ stage' = IF pc # "illegal" THEN "refs" ELSE "invalid"
  /\ UNCHANGED <<steps, planner, sorting, replans, running>>

(* Lines 57-58                                                             *)
GraphChecked ==
  /\ stage = "graph" /\ pc \in {"scheduled", "illegal", "cycle"}
  /\ stage' = IF pc = "scheduled" THEN "refs" ELSE "invalid"
  /\ UNCHANGED <<steps, planner, sorting, replans, running>>

(* Slip: the reference need not be declared as a dependency.               *)
RefAllowed_Undeclared(i, r) ==
  /\ Graph!Named(r.step_id) # {}
  /\ Graph!IdToIndex(r.step_id) < i
  /\ r.path # EmptyPath

(* Lines 70-85                                                             *)
RefAllowed(i, r) ==
  /\ Graph!Named(r.step_id) # {}
  /\ Graph!IdToIndex(r.step_id) < i
  /\ \E k \in 1..Len(steps[i].depends_on) : steps[i].depends_on[k] = r.step_id
  /\ r.path # EmptyPath

(* Slip: it is enough that the skill or tool exists.                       *)
Supported_ByName(step) == Capability(step) \in DOMAIN Registered

(* The skill or tool exists and takes such parameters.                     *)
Supported(step) ==
  /\ Capability(step) \in DOMAIN Registered
  /\ ValidParams(Registered[Capability(step)], step.params)

(* Lines 60-70; whether a step serves the goal may go either way.          *)
CheckSteps ==
  /\ stage = "refs"
  /\ \/ /\ \A i \in 1..Len(steps) :
             Supported(steps[i]) /\ \A r \in RefsOf(steps[i]) : RefAllowed(i, r)
        /\ stage' = "schedule"
     \/ stage' = "invalid"
  /\ Unsorted
  /\ UNCHANGED <<steps, planner, replans, running>>

-----------------------------------------------------------------------------
(* TaskManager.schedule and StepExecutor.execute *)

(* Slip: the context is made once for the run.                             *)
Scheduled_SameContext ==
  /\ stage = "schedule" /\ pc \in {"scheduled", "illegal", "cycle"}
  /\ stage' = IF pc = "scheduled" THEN "execute" ELSE "unscheduled"
  /\ at' = 1 /\ attempt' = 0
  /\ UNCHANGED <<steps, planner, sorting, replans, outputs, madeBy>>

Scheduled ==
  /\ stage = "schedule" /\ pc \in {"scheduled", "illegal", "cycle"}
  /\ stage' = IF pc = "scheduled" THEN "execute" ELSE "unscheduled"
  /\ FreshContext
  /\ UNCHANGED <<steps, planner, sorting, replans>>

(* Slip: whatever the path leads to will do.                               *)
Resolves_AnyValue(r) ==
  r.step_id \in DOMAIN outputs /\ r.path \in DOMAIN outputs[r.step_id]

(* ExecutionContext._resolve_ref                                           *)
Resolves(r) ==
  /\ r.step_id \in DOMAIN outputs
  /\ r.path \in DOMAIN outputs[r.step_id]
  /\ r.expected \in {None, outputs[r.step_id][r.path]}

Given(arg) == IF IsRef(arg) THEN outputs[arg.step_id][arg.path] ELSE arg.value

(* resolve_params                                                          *)
Resolved(step) == [p \in DOMAIN step.params |-> [value |-> Given(step.params[p])]]

(* Slip: what the validator let pass is not looked at again.               *)
Invocable_AsValidated(step) == TRUE

(* SkillManager.invoke checks the values; ToolRegistry.call does not.      *)
Invocable(step) ==
  step.kind = "skill" => ValidParams(Registered[Capability(step)], Resolved(step))

(* What a skill puts out, and the one output of a tool.                    *)
Outputs(step) == IF step.kind = "tool" THEN [{"value"} -> Values] ELSE Subsets(Paths, Values)

Recorded(old, id, new) == [d \in DOMAIN old \cup {id} |-> IF d = id THEN new ELSE old[d]]

(* An attempt that passes: its output goes to the context.                 *)
Pass ==
  /\ stage = "execute" /\ at <= Len(order)
  /\ (\A r \in RefsOf(Step(at)) : Resolves(r)) /\ Invocable(Step(at))
  /\ \E output \in Outputs(Step(at)) : outputs' = Recorded(outputs, Step(at).id, output)
  /\ madeBy' = Recorded(madeBy, Step(at).id, order[at])
  /\ at' = at + 1 /\ attempt' = 0
  /\ UNCHANGED <<steps, planner, sorting, stage, replans>>

(* An attempt that fails, in resolving its parameters or in the skill.     *)
FailAndRetry ==
  /\ stage = "execute" /\ at <= Len(order) /\ attempt < MaxRetries
  /\ attempt' = attempt + 1
  /\ UNCHANGED <<steps, planner, sorting, stage, replans, at, outputs, madeBy>>

(* The last attempt fails: the planner is asked again.                     *)
Replan ==
  /\ stage = "execute" /\ at <= Len(order)
  /\ attempt >= MaxRetries /\ replans < MaxReplans
  /\ replans' = replans + 1
  /\ stage' = "plan" /\ Unsorted
  /\ UNCHANGED <<steps, planner, running>>

GiveUp ==
  /\ stage = "execute" /\ at <= Len(order)
  /\ attempt >= MaxRetries /\ replans >= MaxReplans
  /\ stage' = "exhausted"
  /\ UNCHANGED <<steps, planner, sorting, replans, running>>

Complete ==
  /\ stage = "execute" /\ at > Len(order)
  /\ stage' = "carried_out"
  /\ UNCHANGED <<steps, planner, sorting, replans, running>>

Next ==
  \/ Plan \/ Check \/ SortStep \/ GraphChecked \/ CheckSteps
  \/ Scheduled \/ Pass \/ FailAndRetry \/ Replan \/ GiveUp \/ Complete

(* run is one call: it takes its steps until it returns.                   *)
Spec == Init /\ [][Next]_vars /\ WF_vars(Next)

-----------------------------------------------------------------------------
(* Properties *)

TypeOK ==
  /\ Graph!TypeOK
  /\ stage \in {"plan", "check", "graph", "refs", "schedule", "execute"} \cup Ended
  /\ at \in 1..(Len(order) + 1) \/ stage # "execute"
  /\ attempt \in 0..MaxRetries
  /\ replans \in 0..MaxReplans
  /\ DOMAIN outputs \subseteq Ids /\ DOMAIN madeBy = DOMAIN outputs

(* PlanScheduling's promises, for the plans of a run.                      *)
OrderIsTheFirst == Graph!OrderIsTheFirst
VerdictIsExact == Graph!VerdictIsExact

(* The scheduler has nothing to refuse in a plan the validator let pass.   *)
ValidPlansAreScheduled == stage \in {"schedule", "unscheduled"} => pc \notin {"illegal", "cycle"}

(* A reference in a plan under way leads to a step that has been carried    *)
(* out under this plan, and to the one the validator meant, not to another *)
(* one of that name: the context holds the outputs of the steps done so    *)
(* far, and nothing of an abandoned plan.                                  *)
ReferencesReadTheirSource ==
  stage = "execute" =>
    /\ DOMAIN outputs = {Step(k).id : k \in 1..(at - 1)}
    /\ at <= Len(order) =>
         \A r \in RefsOf(Step(at)) :
           /\ r.step_id \in DOMAIN outputs
           /\ madeBy[r.step_id] = Graph!IdToIndex(r.step_id)

(* Every step done was given what its references expect: the outputs they   *)
(* read still say so.                                                       *)
DoneAsExpected ==
  stage \in {"execute", "carried_out", "exhausted"} =>
    \A k \in 1..(at - 1) : \A r \in RefsOf(Step(k)) :
      r.expected # None => r.step_id \in DOMAIN outputs /\ Resolves(r) /\ outputs[r.step_id][r.path] = r.expected

(* Every step done was called as its capability asks: with all it requires, *)
(* nothing it does not know, and arguments of the types it takes, whatever  *)
(* the steps before it put out.  Only a tool may be handed something else,  *)
(* and only through a reference.                                            *)
CallsKeepContracts ==
  \A k \in 1..(at - 1) :
    stage \in {"execute", "carried_out", "exhausted"} =>
      LET step == Step(k)
          spec == Registered[Capability(step)]
          open == {p \in DOMAIN step.params : step.kind = "tool" /\ IsRef(step.params[p])}
      IN /\ Capability(step) \in DOMAIN Registered
         /\ {p \in DOMAIN spec : spec[p].required} \subseteq DOMAIN step.params
         /\ DOMAIN step.params \subseteq DOMAIN spec
         /\ \A p \in DOMAIN step.params \ open : TypeOf[Given(step.params[p])] \in spec[p].types

(* What the planner says of its last call is true of the plan in hand: a   *)
(* plan of the model uses nothing it was not told of and has no diagnosis;  *)
(* any other plan, and the end of a run without one, comes with the         *)
(* diagnosis of this very call; in strict mode there is no other plan.      *)
SourceTellsWhoPlanned ==
  stage # "plan" =>
    /\ last_source = "llm" =>
         /\ last_diagnostic = 0 /\ stage # "unplanned"
         /\ \A i \in 1..Len(steps) : Capability(steps[i]) \in Known
    /\ last_source # "llm" => last_diagnostic = replans + 1
    /\ last_source = "fallback" => fallback_mode = "allow"
    /\ last_source = "error" => fallback_mode = "strict" /\ stage = "unplanned"
=============================================================================
