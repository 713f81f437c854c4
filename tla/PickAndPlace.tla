----------------------------- MODULE PickAndPlace -----------------------------
(***************************************************************************)
(* Runs of the agent in the simulated world: the goal is parsed against the *)
(* world, a planner plans, the validator compares the plan with the goal,   *)
(* and the steps act on the world with injected faults, retries in place,   *)
(* and replans from the world as it is then.                                *)
(*                                                                          *)
(* The planner is the rule planner, or any planner at all: AnyPlans are the *)
(* plans that one may give.  A step depends on all steps before it, so the  *)
(* order of execution is the order of the plan; graphs and ids are the      *)
(* business of PlanScheduling and PlanExecution.                            *)
(***************************************************************************)
EXTENDS RobotWorld, Sequences

CONSTANTS
  Starts,         \* planner, goal text, world and fail_actions of a run
  AnyPlans,       \* the plans of a planner that is not the rule planner
  NoGoal,         \* parse_goal raises
  MaxRetries, MaxReplans

(* Of a goal text it matters which ids or aliases it mentions, its first   *)
(* colour word, and whether it has a word for containers.                  *)
Texts == [names : SUBSET Entities, color : Colors \cup {None}, container_word : BOOLEAN]

(* A call of a skill: the entity it is for, what colour to look for and     *)
(* whether for what can be grasped, and the step whose output the entity is *)
(* taken from, or 0.                                                       *)
Calls == [skill : Skills, entity : Entities \cup {None}, color : Colors \cup {None},
          graspable : BOOLEAN \cup {None}, ref : Nat]

ASSUME StartsAssumption ==
  Starts \subseteq
    [planner : {"rule", "any"}, text : Texts, world : Worlds, budget : [Skills -> Nat]]
ASSUME PlansAssumption == AnyPlans \subseteq Seq(Calls)
ASSUME LimitsAssumption == MaxRetries \in Nat /\ MaxReplans \in Nat

VARIABLES
  start,       \* what the run started with: its text and planner, and the
               \* world and budget as they were then
  goal_spec,   \* goal_spec, parsed once at the start of the run
  world,       \* world
  plan,        \* the steps of the current plan
  stage,       \* where the run is, or how it ended
  at,          \* the step being carried out
  attempt,     \* attempt
  replans,     \* replans
  outputs,     \* object_ids put out by the steps done
  budget       \* GridWorld._fail_budget

vars == <<start, goal_spec, world, plan, stage, at, attempt, replans, outputs, budget>>

First(S) == CHOOSE e \in S : \A other \in S : e <= other

-----------------------------------------------------------------------------
(* goal.py and entity_resolver.py *)

Containers(w) == {e \in Entities : w.objects[e].container}

(* EntityResolver.resolve: one candidate, or none.                         *)
Named(g, candidates) == g.names \cap candidates

(* The containers the text may mean; it has to be one.                     *)
MeantContainers(g, w) ==
  IF Named(g, Containers(w)) # {} THEN Named(g, Containers(w))
  ELSE IF g.container_word THEN Containers(w) ELSE {}

MeantObjects(g, w, c) ==
  IF Named(g, FindObjects(w, None, TRUE)) # {} THEN Named(g, FindObjects(w, None, TRUE))
  ELSE FindObjects(w, g.color, TRUE) \ {c}

ParseGoal(g, w) ==
  LET boxes == MeantContainers(g, w)
      box   == First(boxes)
      meant == MeantObjects(g, w, box)
  IN IF Cardinality(boxes) # 1 \/ Cardinality(meant) # 1 THEN NoGoal
     ELSE [object |-> First(meant), container |-> box, color |-> g.color]

IsSatisfied(s, w) == w.objects[s.object].in_container = s.container

-----------------------------------------------------------------------------
(* MockPlanner.plan, which looks for what can be grasped only              *)

Step(skill, entity, color, ref) ==
  [skill |-> skill, entity |-> entity, color |-> color,
   graspable |-> IF skill = "detect" THEN TRUE ELSE None, ref |-> ref]

Approach(s, w) ==
  IF w.robot = w.objects[s.object].pose THEN <<>>
  ELSE <<Step("navigate", s.object, None, 0)>>

(* Slip: detection is taken to be the second step, as if the robot always   *)
(* had to come nearer first.                                               *)
PickUp_SecondStep(s, w) ==
  IF w.holding = s.object THEN <<>>
  ELSE Approach(s, w) \o <<Step("detect", s.object, s.color, 0), Step("grasp", s.object, None, 2)>>

PickUp(s, w) ==
  IF w.holding = s.object THEN <<>>
  ELSE Approach(s, w) \o <<Step("detect", s.object, s.color, 0),
                           Step("grasp", s.object, None, Len(Approach(s, w)) + 1)>>

RulePlan(s, w) ==
  IF IsSatisfied(s, w) THEN <<>>
  ELSE PickUp(s, w) \o <<Step("navigate", s.container, None, 0), Step("place", s.container, None, 0)>>

-----------------------------------------------------------------------------
(* PlanValidator: references lead to earlier steps, and every step serves   *)
(* the goal.                                                                *)

ServesGoal(step, s) ==
  CASE step.skill = "navigate" -> step.entity \in {s.object, s.container}
    [] step.skill = "detect"   -> step.entity \in {s.object, None}
    [] step.skill = "grasp"    -> step.ref # 0 /\ step.entity = s.object
    [] OTHER                   -> step.entity = s.container

IsValid(p, s, w) ==
  IF p = <<>> THEN IsSatisfied(s, w)
  ELSE \A i \in 1..Len(p) : p[i].ref < i /\ ServesGoal(p[i], s)

-----------------------------------------------------------------------------
(* AgentRuntime.run *)

Init ==
  /\ start \in Starts /\ world = start.world /\ budget = start.budget
  /\ goal_spec = NoGoal /\ plan = <<>> /\ stage = "parse"
  /\ at = 1 /\ attempt = 0 /\ replans = 0 /\ outputs = <<>>

Parse ==
  /\ stage = "parse"
  /\ goal_spec' = ParseGoal(start.text, world)
  /\ stage' = IF goal_spec' = NoGoal THEN "not_understood" ELSE "plan"
  /\ UNCHANGED <<start, world, plan, at, attempt, replans, outputs, budget>>

(* The rule planner parses the text itself, against the present world.     *)
Plans ==
  IF start.planner = "any" THEN AnyPlans
  ELSE {RulePlan(s, world) : s \in {ParseGoal(start.text, world)} \ {NoGoal}}

(* prepare: plan and validate, for the goal_spec of the run.               *)
PlanRun ==
  /\ stage = "plan"
  /\ \E p \in Plans :
       /\ plan' = p
       /\ stage' = IF IsValid(p, goal_spec, world) THEN "execute" ELSE "invalid"
  /\ at' = 1 /\ attempt' = 0 /\ outputs' = <<>>
  /\ UNCHANGED <<start, goal_spec, world, replans, budget>>

(* The planner raises.                                                     *)
PlannerRaises ==
  /\ stage = "plan"
  /\ start.planner = "any" \/ Plans = {}
  /\ stage' = "invalid"
  /\ UNCHANGED <<start, goal_spec, world, plan, at, attempt, replans, outputs, budget>>

-----------------------------------------------------------------------------
(* StepExecutor: one attempt at a step *)

Current == plan[at]

(* Slip: a reference need not lead to what is expected; the step is given   *)
(* what is there.                                                           *)
Resolved_Unexpected ==
  IF Current.ref = 0 THEN {Current.entity}
  ELSE {First(s) : s \in {outputs[Current.ref]} \ {{}}}

(* resolve_params: the entity the step is given, if there is one: the first *)
(* of the ids in the output, which has to be the one expected.              *)
Resolved ==
  IF Current.ref = 0 THEN {Current.entity}
  ELSE {First(s) : s \in {outputs[Current.ref]} \ {{}}} \cap {Current.entity}

(* The skill is invoked for e.  That the monitor then finds the             *)
(* postcondition to hold is the property ContractsKept.                    *)
Act(e) ==
  LET seen == IF Current.skill = "detect"
                THEN Visible(world, e, Current.color, Current.graspable) ELSE {}
  IN /\ GetsToFaults(world, Current.skill, e)
     /\ budget[Current.skill] = 0
     /\ Current.skill = "detect" => seen # {}
     /\ world' = After(world, Current.skill, e)
     /\ outputs' = Append(outputs, seen)

Pass ==
  /\ stage = "execute" /\ at <= Len(plan)
  /\ \E e \in Resolved : Act(e)
  /\ at' = at + 1 /\ attempt' = 0
  /\ UNCHANGED <<start, goal_spec, plan, stage, replans, budget>>

(* should_fail takes one off the budget.                                   *)
Faulted(e) ==
  /\ GetsToFaults(world, Current.skill, e) /\ budget[Current.skill] > 0
  /\ budget' = [budget EXCEPT ![Current.skill] = @ - 1]

(* The attempt fails without a fault: the parameters do not resolve, or the *)
(* skill or the backend refuses, or nothing is detected.                   *)
Refused ==
  /\ \A e \in Resolved :
       \/ ~GetsToFaults(world, Current.skill, e)
       \/ /\ budget[Current.skill] = 0
          /\ Current.skill = "detect"
          /\ Visible(world, e, Current.color, Current.graspable) = {}
  /\ UNCHANGED budget

(* Slip: one replan too few.                                               *)
AfterFailure_EarlyEnd ==
  IF attempt < MaxRetries
    THEN attempt' = attempt + 1 /\ UNCHANGED <<stage, replans>>
    ELSE /\ attempt' = attempt
         /\ IF replans + 1 < MaxReplans
              THEN replans' = replans + 1 /\ stage' = "plan"
              ELSE replans' = replans /\ stage' = "exhausted"

(* Retry, replan, or give up.                                              *)
AfterFailure ==
  IF attempt < MaxRetries
    THEN attempt' = attempt + 1 /\ UNCHANGED <<stage, replans>>
    ELSE /\ attempt' = attempt
         /\ IF replans < MaxReplans
              THEN replans' = replans + 1 /\ stage' = "plan"
              ELSE replans' = replans /\ stage' = "exhausted"

Fail ==
  /\ stage = "execute" /\ at <= Len(plan)
  /\ Refused \/ \E e \in Resolved : Faulted(e)
  /\ AfterFailure
  /\ UNCHANGED <<start, goal_spec, world, plan, at, outputs>>

(* _finalize_task                                                          *)
Verify ==
  /\ stage = "execute" /\ at > Len(plan)
  /\ stage' = IF IsSatisfied(goal_spec, world) THEN "succeeded" ELSE "unmet"
  /\ UNCHANGED <<start, goal_spec, world, plan, at, attempt, replans, outputs, budget>>

Next == Parse \/ PlanRun \/ PlannerRaises \/ Pass \/ Fail \/ Verify

Ended == {"not_understood", "invalid", "exhausted", "unmet", "succeeded"}

(* run is one call.                                                        *)
Spec == Init /\ [][Next]_vars /\ WF_vars(Next)

-----------------------------------------------------------------------------
(* Properties *)

TypeOK ==
  /\ start \in Starts /\ world \in Worlds /\ budget \in [Skills -> Nat]
  /\ stage \in {"parse", "plan", "execute"} \cup Ended
  /\ stage \notin {"parse", "not_understood"} => goal_spec \in
       [object : Entities, container : Entities, color : Colors \cup {None}]
  /\ plan \in Seq(Calls) /\ at \in 1..(Len(plan) + 1)
  /\ attempt \in 0..MaxRetries /\ replans \in 0..MaxReplans
  /\ outputs \in Seq(SUBSET Entities)

(* A world makes sense: what is held is in no container, and what is in a   *)
(* container is where the container is.                                     *)
MakesSense(w) ==
  /\ w.holding # None => w.objects[w.holding].in_container = None
  /\ \A e \in Entities :
       w.objects[e].in_container # None =>
         w.objects[e].pose = w.objects[w.objects[e].in_container].pose

(* What can be carried is empty: nothing moves along with a container.      *)
CarriedEmpty(w) ==
  \A e, c \in Entities :
    w.objects[e].in_container = c => ~w.objects[c].graspable /\ w.holding # c

(* Runs keep the world sensible, if it was, and if nothing was in what they *)
(* may carry.                                                              *)
WorldMakesSense == MakesSense(start.world) /\ CarriedEmpty(start.world) => MakesSense(world)

(* Whatever the planner plans: no object but the goal's, and one held from  *)
(* the start, is touched, and they end up in the goal's container or        *)
(* nowhere else than they were.                                             *)
OnlyTheGoalMoves ==
  stage \notin {"parse", "not_understood"} =>
    /\ world.holding \in {None, start.world.holding, goal_spec.object}
    /\ \A e \in Entities \ {goal_spec.object, start.world.holding} :
         world.objects[e] = start.world.objects[e]
    /\ \A e \in Entities :
         world.objects[e].in_container \in
           {None, start.world.objects[e].in_container, goal_spec.container}

(* The rule planner, which parses the goal again at every replan, plans for *)
(* the goal of the run: the text means the same thing in every world of it. *)
GoalDoesNotDrift ==
  stage \notin {"parse", "not_understood"} => ParseGoal(start.text, world) = goal_spec

(* What the backend has done satisfies the postcondition of the skill: the  *)
(* monitor never rejects a successful result, so a retry never starts from  *)
(* a world other than the one the backend left.                             *)
ContractsKept ==
  [][\A e \in Entities \cup {None} :
       at' = at + 1 /\ e \in Resolved =>
         Postcondition(world, world', Current.skill, e, outputs'[at])]_vars

(* Nothing but faults can get in the way: all is within the grid, the arm   *)
(* is free or holds the object, and the object has the colour asked for.    *)
Doable ==
  /\ \A e \in {goal_spec.object, goal_spec.container} : InBounds(start.world.objects[e].pose)
  /\ start.world.holding \in {None, goal_spec.object}
  /\ goal_spec.color \in {None, start.world.objects[goal_spec.object].color}
  /\ ~start.world.objects[goal_spec.object].container

(* The skills the way to the goal takes.                                   *)
Needed ==
  IF IsSatisfied(goal_spec, start.world) THEN {}
  ELSE IF start.world.holding = goal_spec.object THEN {"navigate", "place"} ELSE Skills

(* How often the faults of a skill use up all attempts at a step.          *)
Exhaustions(skill) == start.budget[skill] \div (MaxRetries + 1)

AllExhaustions ==
  (IF "navigate" \in Needed THEN Exhaustions("navigate") + Exhaustions("place") ELSE 0)
  + (IF "detect" \in Needed THEN Exhaustions("detect") + Exhaustions("grasp") ELSE 0)

(* Recovery is exact: a run of the rule planner reaches its goal if, and    *)
(* only if, the faults exhaust no more steps than there are replans.        *)
RecoveryIsExact ==
  start.planner = "rule" /\ stage \in Ended \ {"not_understood"} /\ Doable =>
    (stage = "succeeded" <=> AllExhaustions <= MaxReplans)
=============================================================================
