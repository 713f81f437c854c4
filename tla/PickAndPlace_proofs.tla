-------------------------- MODULE PickAndPlace_proofs --------------------------
(***************************************************************************)
(* Theorems about PickAndPlace, for any world, goal text, planner, faults   *)
(* and limits: only what the goal names is moved, the world stays sensible, *)
(* the backend does what the skills promise, the text means the same goal   *)
(* throughout, and a run recovers exactly from what its limits allow.       *)
(***************************************************************************)
EXTENDS PickAndPlace, FiniteSetTheorems, SequenceTheorems, TLAPS

-----------------------------------------------------------------------------
(* What the text means *)

(* The first element of a set of one entity is that entity.                *)
LEMMA FirstOfOne ==
  ASSUME NEW S \in SUBSET Entities, Cardinality(S) = 1
  PROVE  First(S) \in S
<1>1. IsFiniteSet(S)
  BY EntitiesAssumption, FS_Subset
<1>2. PICK x : S = {x}
  BY <1>1, FS_Singleton
<1>3. \E e \in S : \A other \in S : e <= other
  BY <1>2, EntitiesAssumption
<1> QED BY <1>3 DEF First

(* To look for what can be grasped is to find nothing else.                 *)
LEMMA FindGraspable ==
  ASSUME NEW w \in Worlds, NEW color
  PROVE  FindObjects(w, color, TRUE) =
           {e \in Entities : w.objects[e].graspable /\ color \in {None, w.objects[e].color}}
<1>1. \A e \in Entities : w.objects[e].graspable \in BOOLEAN
  BY DEF Worlds, Infos
<1>2. \A e \in Entities : TRUE \in {None, w.objects[e].graspable} <=> w.objects[e].graspable
  <2> SUFFICES ASSUME NEW b \in BOOLEAN PROVE TRUE \in {None, b} <=> b
    BY <1>1
  <2>1. None # TRUE
    BY NoneAssumption
  <2> QED BY <2>1
<1> QED BY <1>2 DEF FindObjects

(* A goal names a graspable object and a container.                        *)
LEMMA GoalIsNamed ==
  ASSUME NEW g \in Texts, NEW w \in Worlds, ParseGoal(g, w) # NoGoal
  PROVE  /\ ParseGoal(g, w) \in [object : Entities, container : Entities, color : Colors \cup {None}]
         /\ w.objects[ParseGoal(g, w).object].graspable
<1> DEFINE boxes == MeantContainers(g, w)
           meant == MeantObjects(g, w, First(boxes))
<1>1. /\ Cardinality(boxes) = 1 /\ Cardinality(meant) = 1
      /\ ParseGoal(g, w) = [object |-> First(meant), container |-> First(boxes), color |-> g.color]
  BY DEF ParseGoal
<1>2. boxes \in SUBSET Entities
  BY DEF MeantContainers, Named, Containers
<1>3. meant \in SUBSET Entities /\ \A e \in meant : w.objects[e].graspable
  BY FindGraspable DEF MeantObjects, Named
<1> HIDE DEF boxes, meant
<1>4. First(boxes) \in boxes /\ First(meant) \in meant
  BY <1>1, <1>2, <1>3, FirstOfOne
<1>5. g.color \in Colors \cup {None}
  BY DEF Texts
<1> QED BY <1>1, <1>2, <1>3, <1>4, <1>5

(* Worlds whose entities are the same kinds of things.                     *)
SameThings(v, w) ==
  \A e \in Entities :
    /\ v.objects[e].graspable = w.objects[e].graspable
    /\ v.objects[e].container = w.objects[e].container
    /\ v.objects[e].color = w.objects[e].color

(* In such worlds a text means the same.                                   *)
LEMMA SameMeaning ==
  ASSUME NEW g, NEW v, NEW w, SameThings(v, w)
  PROVE  ParseGoal(g, v) = ParseGoal(g, w)
<1>1. Containers(v) = Containers(w)
  BY DEF SameThings, Containers
<1>2. \A c : FindObjects(v, c, TRUE) = FindObjects(w, c, TRUE)
  BY DEF SameThings, FindObjects
<1>3. MeantContainers(g, v) = MeantContainers(g, w)
  BY <1>1 DEF MeantContainers
<1>4. \A c : MeantObjects(g, v, c) = MeantObjects(g, w, c)
  <2>1. /\ FindObjects(v, None, TRUE) = FindObjects(w, None, TRUE)
        /\ FindObjects(v, g.color, TRUE) = FindObjects(w, g.color, TRUE)
    BY <1>2
  <2> QED BY <2>1, Zenon DEF MeantObjects
<1> QED BY <1>3, <1>4 DEF ParseGoal

-----------------------------------------------------------------------------
(* What the rule planner plans *)

LEMMA RulePlanIsPlan ==
  ASSUME NEW s \in [object : Entities, container : Entities, color : Colors \cup {None}], NEW w
  PROVE  RulePlan(s, w) \in Seq(Calls)
<1>1. \A sk \in Skills, e \in Entities, c \in Colors \cup {None}, r \in Nat : Step(sk, e, c, r) \in Calls
  <2> SUFFICES ASSUME NEW sk \in Skills, NEW e \in Entities, NEW c \in Colors \cup {None}, NEW r \in Nat
               PROVE  Step(sk, e, c, r) \in Calls
    OBVIOUS
  <2>1. (IF sk = "detect" THEN TRUE ELSE None) \in BOOLEAN \cup {None}
    OBVIOUS
  <2> QED BY <2>1 DEF Step, Calls
<1>2. /\ "navigate" \in Skills /\ "detect" \in Skills /\ "grasp" \in Skills /\ "place" \in Skills
      /\ s.object \in Entities /\ s.container \in Entities /\ s.color \in Colors \cup {None}
      /\ None \in Colors \cup {None} /\ 0 \in Nat
  BY DEF Skills
<1>3. Approach(s, w) \in Seq(Calls) /\ Len(Approach(s, w)) + 1 \in Nat
  <2>1. Step("navigate", s.object, None, 0) \in Calls
    BY <1>1, <1>2
  <2> QED BY <2>1 DEF Approach
<1>4. PickUp(s, w) \in Seq(Calls)
  <2>1. <<Step("detect", s.object, s.color, 0), Step("grasp", s.object, None, Len(Approach(s, w)) + 1)>> \in Seq(Calls)
    BY <1>1, <1>2, <1>3
  <2> QED BY <1>3, <2>1, ConcatProperties DEF PickUp
<1>5. <<Step("navigate", s.container, None, 0), Step("place", s.container, None, 0)>> \in Seq(Calls)
  <2>1. Step("navigate", s.container, None, 0) \in Calls /\ Step("place", s.container, None, 0) \in Calls
    BY <1>1, <1>2
  <2> QED BY <2>1
<1> QED BY <1>4, <1>5, ConcatProperties DEF RulePlan

-----------------------------------------------------------------------------
(* The invariant, in parts *)

Understood == stage \notin {"parse", "not_understood"}

(* The goal is the one of the text, in a world of the same things.          *)
GoalKept ==
  /\ SameThings(start.world, world)
  /\ Understood =>
       /\ goal_spec = ParseGoal(start.text, start.world) /\ goal_spec # NoGoal
       /\ goal_spec.object \in Entities /\ goal_spec.container \in Entities
       /\ start.world.objects[goal_spec.object].graspable

(* A plan under way serves the goal, and has one output for a step done.    *)
PlanKept ==
  stage = "execute" =>
    /\ \A i \in 1..Len(plan) : ServesGoal(plan[i], goal_spec)
    /\ Len(outputs) = at - 1

Untouched == ~Understood => world = start.world

IInv == TypeOK /\ GoalKept /\ PlanKept /\ Untouched /\ OnlyTheGoalMoves /\ WorldMakesSense

-----------------------------------------------------------------------------
(* An attempt that passes *)

(* A step is given the entity it is for.                                   *)
LEMMA ResolvedIsMeant ==
  ASSUME NEW e \in Resolved
  PROVE  e = Current.entity
BY DEF Resolved

(* The step under way.                                                     *)
LEMMA StepUnderWay ==
  ASSUME IInv, stage = "execute", at <= Len(plan)
  PROVE  /\ at \in 1..Len(plan) /\ Current \in Calls /\ ServesGoal(Current, goal_spec)
         /\ goal_spec.object \in Entities /\ goal_spec.container \in Entities
         /\ world \in Worlds /\ start.world \in Worlds
<1>1. plan \in Seq(Calls) /\ at \in 1..(Len(plan) + 1) /\ world \in Worlds /\ start \in Starts
  BY DEF IInv, TypeOK
<1>2. at \in 1..Len(plan)
  BY <1>1
<1>3. Current \in Calls
  BY <1>1, <1>2 DEF Current
<1>4. ServesGoal(Current, goal_spec)
  BY <1>2 DEF IInv, PlanKept, Current
<1>5. start.world \in Worlds
  BY <1>1, StartsAssumption
<1> QED BY <1>1, <1>2, <1>3, <1>4, <1>5 DEF IInv, GoalKept, Understood

(* What a step does to the world: it moves the robot, it takes the goal's   *)
(* object, or it puts what is held into the goal's container.              *)
Moves(e) ==
  /\ Current.skill \in {"navigate", "detect"}
  /\ world'.holding = world.holding /\ world'.objects = world.objects

Takes(e) ==
  /\ Current.skill = "grasp" /\ e = goal_spec.object
  /\ world.holding = None /\ world'.holding = e
  /\ world'.objects = [world.objects EXCEPT ![e] = [@ EXCEPT !.in_container = None]]

Puts(e) ==
  /\ Current.skill = "place" /\ e = goal_spec.container
  /\ world.holding \in Entities /\ world'.holding = None
  /\ world'.objects = [world.objects EXCEPT ![world.holding] =
                         [@ EXCEPT !.pose = world.objects[e].pose, !.in_container = e]]

LEMMA WhatIsDone ==
  ASSUME IInv, stage = "execute", at <= Len(plan), NEW e \in Resolved, Act(e)
  PROVE  world' \in Worlds /\ (Moves(e) \/ Takes(e) \/ Puts(e))
<1>1. /\ Current \in Calls /\ ServesGoal(Current, goal_spec) /\ world \in Worlds
      /\ goal_spec.object \in Entities /\ goal_spec.container \in Entities
  BY StepUnderWay
<1>2. e = Current.entity
  BY ResolvedIsMeant
<1>3. GetsToFaults(world, Current.skill, e) /\ world' = After(world, Current.skill, e)
  BY DEF Act
<1>4. Current.skill \in {"navigate", "detect", "grasp", "place"}
  BY <1>1 DEF Calls, Skills
<1>5. /\ world.robot \in Poses /\ world.objects \in [Entities -> Infos]
      /\ world = [robot |-> world.robot, holding |-> world.holding, objects |-> world.objects]
  BY <1>1 DEF Worlds
<1>6. CASE Current.skill = "navigate"
  <2>1. e \in Entities /\ world' = [world EXCEPT !.robot = world.objects[e].pose]
    BY <1>3, <1>6 DEF GetsToFaults, After
  <2>2. world.objects[e].pose \in Poses
    BY <1>5, <2>1 DEF Infos
  <2>3. world'.holding = world.holding /\ world'.objects = world.objects
    BY <1>5, <2>1
  <2>4. world' \in Worlds
    BY <1>1, <2>1, <2>2 DEF Worlds
  <2> QED BY <1>6, <2>3, <2>4 DEF Moves
<1>7. CASE Current.skill = "detect"
  BY <1>1, <1>3, <1>7 DEF After, Moves
<1>8. CASE Current.skill = "grasp"
  <2>1. e = goal_spec.object /\ e \in Entities
    BY <1>1, <1>2, <1>8 DEF ServesGoal
  <2>2. world.holding = None
    BY <1>3, <1>8 DEF GetsToFaults
  <2> DEFINE info == [world.objects[e] EXCEPT !.in_container = None]
  <2>3. info \in Infos
    BY <1>5, <2>1 DEF Infos
  <2>4. world' = [world EXCEPT !.objects[e] = info, !.holding = e]
    BY <1>3, <1>5, <1>8 DEF After, Grasped, WithObject
  <2>5. world'.holding = e /\ world'.objects = [world.objects EXCEPT ![e] = info]
    <3> HIDE DEF info
    <3> QED BY <1>5, <2>4
  <2>6. world' \in Worlds
    <3> HIDE DEF info
    <3> QED BY <1>1, <2>1, <2>3, <2>4 DEF Worlds
  <2> QED BY <1>8, <2>1, <2>2, <2>5, <2>6 DEF Takes
<1>9. CASE Current.skill = "place"
  <2>1. e = goal_spec.container /\ e \in Entities
    BY <1>1, <1>2, <1>9 DEF ServesGoal
  <2>2. world.holding # None /\ world.holding \in Entities
    BY <1>1, <1>3, <1>9 DEF GetsToFaults, Worlds
  <2> DEFINE h == world.holding
             info == [world.objects[h] EXCEPT !.pose = world.objects[e].pose, !.in_container = e]
  <2>3. info \in Infos
    BY <1>5, <2>1, <2>2 DEF Infos
  <2>4. world' = [world EXCEPT !.objects[h] = info, !.holding = None]
    BY <1>3, <1>5, <1>9 DEF After, Placed, WithObject
  <2>5. world'.holding = None /\ world'.objects = [world.objects EXCEPT ![h] = info]
    <3> HIDE DEF info
    <3> QED BY <1>5, <2>4
  <2>6. world' \in Worlds
    <3> HIDE DEF info
    <3> QED BY <1>1, <2>2, <2>3, <2>4 DEF Worlds
  <2> QED BY <1>9, <2>1, <2>2, <2>5, <2>6 DEF Puts
<1> QED BY <1>4, <1>6, <1>7, <1>8, <1>9

(* It leaves the things the things they are, and moves only what it may.    *)
LEMMA OnlyTheGoalStep ==
  ASSUME IInv, stage = "execute", at <= Len(plan), NEW e \in Resolved, Act(e)
  PROVE  /\ SameThings(start.world, world')
         /\ world'.holding \in {None, start.world.holding, goal_spec.object}
         /\ \A f \in Entities \ {goal_spec.object, start.world.holding} :
              world'.objects[f] = start.world.objects[f]
         /\ \A f \in Entities :
              world'.objects[f].in_container \in
                {None, start.world.objects[f].in_container, goal_spec.container}
<1>1. /\ world \in Worlds /\ start.world \in Worlds /\ SameThings(start.world, world)
      /\ goal_spec.object \in Entities /\ goal_spec.container \in Entities
      /\ world.holding \in {None, start.world.holding, goal_spec.object}
      /\ \A f \in Entities \ {goal_spec.object, start.world.holding} :
           world.objects[f] = start.world.objects[f]
      /\ \A f \in Entities :
           world.objects[f].in_container \in
             {None, start.world.objects[f].in_container, goal_spec.container}
  BY StepUnderWay DEF IInv, GoalKept, OnlyTheGoalMoves
<1>2. world.objects \in [Entities -> Infos]
  BY <1>1 DEF Worlds
<1>3. CASE Moves(e)
  BY <1>1, <1>3 DEF Moves, SameThings
<1>4. CASE Takes(e)
  <2>1. /\ world'.holding = goal_spec.object
        /\ \A f \in Entities : f # goal_spec.object => world'.objects[f] = world.objects[f]
        /\ world'.objects[goal_spec.object] = [world.objects[goal_spec.object] EXCEPT !.in_container = None]
    BY <1>1, <1>2, <1>4 DEF Takes
  <2>2. \A f \in Entities :
          /\ world'.objects[f].graspable = world.objects[f].graspable
          /\ world'.objects[f].container = world.objects[f].container
          /\ world'.objects[f].color = world.objects[f].color
          /\ world'.objects[f].in_container \in {None, world.objects[f].in_container}
    BY <1>1, <1>2, <2>1 DEF Infos
  <2> QED BY <1>1, <2>1, <2>2 DEF SameThings
<1>5. CASE Puts(e)
  <2>1. /\ world'.holding = None /\ world.holding \in {start.world.holding, goal_spec.object}
        /\ \A f \in Entities : f # world.holding => world'.objects[f] = world.objects[f]
        /\ world'.objects[world.holding] =
             [world.objects[world.holding] EXCEPT !.pose = world.objects[e].pose, !.in_container = e]
    BY <1>1, <1>2, <1>5, NoneAssumption DEF Puts
  <2>2. \A f \in Entities :
          /\ world'.objects[f].graspable = world.objects[f].graspable
          /\ world'.objects[f].container = world.objects[f].container
          /\ world'.objects[f].color = world.objects[f].color
          /\ world'.objects[f].in_container \in {world.objects[f].in_container, goal_spec.container}
    BY <1>1, <1>2, <1>5, <2>1 DEF Infos, Puts
  <2> QED BY <1>1, <2>1, <2>2 DEF SameThings
<1> QED BY <1>3, <1>4, <1>5, WhatIsDone

(* What is carried is empty, so nothing has to move along with it.          *)
LEMMA SensibleStep ==
  ASSUME IInv, stage = "execute", at <= Len(plan), NEW e \in Resolved, Act(e),
         MakesSense(start.world), CarriedEmpty(start.world)
  PROVE  MakesSense(world')
<1>1. /\ world \in Worlds /\ start.world \in Worlds /\ MakesSense(world)
      /\ goal_spec.object \in Entities /\ goal_spec.container \in Entities
      /\ start.world.objects[goal_spec.object].graspable
      /\ world.holding \in {None, start.world.holding, goal_spec.object}
      /\ \A f \in Entities :
           world.objects[f].in_container \in
             {None, start.world.objects[f].in_container, goal_spec.container}
  BY StepUnderWay DEF IInv, GoalKept, Understood, OnlyTheGoalMoves, WorldMakesSense
<1>2. world.objects \in [Entities -> Infos] /\ None \notin Entities
  BY <1>1, NoneAssumption DEF Worlds
<1>3. \A f \in Entities : world.objects[f].in_container \in Entities \cup {None}
  BY <1>2 DEF Infos
<1>4. CASE Moves(e)
  BY <1>1, <1>4 DEF Moves, MakesSense
<1>5. CASE Takes(e)
  <2>1. /\ world'.holding = e /\ e \in Entities
        /\ \A f \in Entities : f # e => world'.objects[f] = world.objects[f]
        /\ world'.objects[e] = [world.objects[e] EXCEPT !.in_container = None]
    BY <1>1, <1>2, <1>5 DEF Takes
  <2>2. \A f \in Entities : world'.objects[f].pose = world.objects[f].pose
    BY <1>2, <2>1 DEF Infos
  <2>3. world'.objects[e].in_container = None
    BY <1>2, <2>1 DEF Infos
  <2>4. ASSUME NEW f \in Entities, world'.objects[f].in_container # None
        PROVE  world'.objects[f].pose = world'.objects[world'.objects[f].in_container].pose
    <3>1. f # e /\ world'.objects[f] = world.objects[f] /\ world.objects[f].in_container \in Entities
      BY <1>3, <2>1, <2>3, <2>4
    <3>2. world.objects[f].pose = world.objects[world.objects[f].in_container].pose
      BY <1>1, <2>4, <3>1 DEF MakesSense
    <3> QED BY <2>2, <3>1, <3>2
  <2> QED BY <2>1, <2>3, <2>4 DEF MakesSense
<1>6. CASE Puts(e)
  <2> DEFINE h == world.holding
  <2>1. /\ world'.holding = None /\ h \in Entities /\ e = goal_spec.container
        /\ \A f \in Entities : f # h => world'.objects[f] = world.objects[f]
        /\ world'.objects[h] = [world.objects[h] EXCEPT !.pose = world.objects[e].pose, !.in_container = e]
    BY <1>1, <1>2, <1>6 DEF Puts
  <2>2. world'.objects[h].pose = world.objects[e].pose /\ world'.objects[h].in_container = e
    BY <1>2, <2>1 DEF Infos
  <2>3. world'.objects[e].pose = world.objects[e].pose
    BY <1>1, <2>1, <2>2
  <2>4. ASSUME NEW f \in Entities, f # h, world'.objects[f].in_container # None
        PROVE  world'.objects[f].pose = world'.objects[world'.objects[f].in_container].pose
    <3> DEFINE c == world.objects[f].in_container
    <3>1. world'.objects[f] = world.objects[f] /\ c \in Entities
      BY <1>3, <2>1, <2>4
    <3>2. world.objects[f].pose = world.objects[c].pose
      BY <1>1, <2>4, <3>1 DEF MakesSense
    <3>3. c = h => c = e
      <4>1. start.world.objects[f].in_container # h
        BY <1>1, <2>1, <1>2 DEF CarriedEmpty
      <4> QED BY <1>1, <2>1, <3>1, <4>1, <1>2
    <3>4. world'.objects[c].pose = world.objects[c].pose
      BY <2>1, <2>3, <3>1, <3>3
    <3> QED BY <3>1, <3>2, <3>4
  <2> QED BY <1>1, <2>1, <2>2, <2>3, <2>4 DEF MakesSense
<1> QED BY <1>4, <1>5, <1>6, WhatIsDone

-----------------------------------------------------------------------------
(* The invariant is inductive *)

(* Nothing has happened yet.                                               *)
LEMMA IInvInit == Init => IInv
<1> SUFFICES ASSUME Init
             PROVE  IInv
  OBVIOUS
<1>1. /\ start \in Starts /\ world = start.world /\ budget = start.budget /\ stage = "parse"
      /\ plan = <<>> /\ at = 1 /\ attempt = 0 /\ replans = 0 /\ outputs = <<>>
  BY DEF Init
<1>2. start.world \in Worlds /\ start.budget \in [Skills -> Nat]
  BY <1>1, StartsAssumption
<1>3. TypeOK
  BY <1>1, <1>2, LimitsAssumption DEF TypeOK
<1> QED BY <1>1, <1>3 DEF IInv, GoalKept, Understood, SameThings, PlanKept, Untouched,
                         OnlyTheGoalMoves, WorldMakesSense

(* What the parts say when the world stays as it is.                       *)
LEMMA SameWorld ==
  ASSUME IInv, UNCHANGED <<start, goal_spec, world>>, Understood, Understood'
  PROVE  GoalKept' /\ Untouched' /\ OnlyTheGoalMoves' /\ WorldMakesSense'
BY DEF IInv, GoalKept, Understood, Untouched, OnlyTheGoalMoves, WorldMakesSense

(* Parse: the goal is the one of the text.                                 *)
LEMMA IInvParse ==
  ASSUME IInv, Parse
  PROVE  IInv'
<1>1. /\ stage = "parse" /\ goal_spec' = ParseGoal(start.text, world)
      /\ stage' = IF goal_spec' = NoGoal THEN "not_understood" ELSE "plan"
      /\ UNCHANGED <<start, world, plan, at, attempt, replans, outputs, budget>>
  BY DEF Parse
<1>2. world = start.world /\ world \in Worlds /\ start.text \in Texts
  BY <1>1, StartsAssumption DEF IInv, Untouched, Understood, TypeOK
<1>3. goal_spec' # NoGoal =>
        /\ goal_spec' \in [object : Entities, container : Entities, color : Colors \cup {None}]
        /\ world.objects[goal_spec'.object].graspable
  BY <1>1, <1>2, GoalIsNamed
<1>4. TypeOK'
  <2>1. stage' \in {"plan", "not_understood"}
    BY <1>1
  <2>2. stage' # "not_understood" => goal_spec' # NoGoal
    BY <1>1
  <2> QED BY <1>1, <1>3, <2>1, <2>2 DEF IInv, TypeOK, Ended
<1>5. GoalKept'
  BY <1>1, <1>2, <1>3 DEF IInv, GoalKept, Understood
<1>6. OnlyTheGoalMoves'
  <2>1. world' = start'.world
    BY <1>1, <1>2
  <2> QED BY <2>1 DEF OnlyTheGoalMoves
<1> QED BY <1>1, <1>2, <1>4, <1>5, <1>6 DEF IInv, PlanKept, Untouched, WorldMakesSense

(* PlanRun: a plan that serves the goal is begun.                          *)
LEMMA IInvPlanRun ==
  ASSUME IInv, PlanRun
  PROVE  IInv'
<1>1. PICK p \in Plans : plan' = p /\ stage' = IF IsValid(p, goal_spec, world) THEN "execute" ELSE "invalid"
  BY DEF PlanRun
<1>2. /\ stage = "plan" /\ at' = 1 /\ attempt' = 0 /\ outputs' = <<>>
      /\ UNCHANGED <<start, goal_spec, world, replans, budget>>
  BY DEF PlanRun
<1>3. plan' \in Seq(Calls)
  <2>1. CASE start.planner = "any"
    BY <1>1, <2>1, PlansAssumption DEF Plans
  <2>2. CASE start.planner # "any"
    <3>1. PICK s \in {ParseGoal(start.text, world)} \ {NoGoal} : p = RulePlan(s, world)
      BY <1>1, <2>2 DEF Plans
    <3>2. start.text \in Texts /\ world \in Worlds
      BY StartsAssumption DEF IInv, TypeOK
    <3>3. s \in [object : Entities, container : Entities, color : Colors \cup {None}]
      BY <3>1, <3>2, GoalIsNamed
    <3> QED BY <1>1, <3>1, <3>3, RulePlanIsPlan
  <2> QED BY <2>1, <2>2
<1>4. TypeOK'
  <2>1. at' \in 1..(Len(plan') + 1)
    BY <1>2, <1>3
  <2>2. attempt' \in 0..MaxRetries /\ outputs' \in Seq(SUBSET Entities)
    BY <1>2, LimitsAssumption
  <2>3. stage' \in {"execute", "invalid"}
    BY <1>1
  <2>4. goal_spec' \in [object : Entities, container : Entities, color : Colors \cup {None}]
    BY <1>2 DEF IInv, TypeOK
  <2> QED BY <1>2, <1>3, <2>1, <2>2, <2>3, <2>4 DEF IInv, TypeOK, Ended
<1>5. PlanKept'
  <2>1. stage' = "execute" => \A i \in 1..Len(p) : ServesGoal(p[i], goal_spec)
    BY <1>1 DEF IsValid
  <2> QED BY <1>1, <1>2, <2>1 DEF PlanKept, ServesGoal
<1> QED BY <1>1, <1>2, <1>4, <1>5, SameWorld DEF IInv, Understood

(* Pass: the world is changed as the goal allows.                          *)
LEMMA IInvPass ==
  ASSUME IInv, Pass
  PROVE  IInv'
<1>1. /\ stage = "execute" /\ at <= Len(plan) /\ at' = at + 1 /\ attempt' = 0
      /\ UNCHANGED <<start, goal_spec, plan, stage, replans, budget>>
  BY DEF Pass
<1>2. PICK e \in Resolved : Act(e)
  BY DEF Pass
<1>3. world' \in Worlds
  BY <1>1, <1>2, WhatIsDone
<1>4. PICK seen \in SUBSET Entities : outputs' = Append(outputs, seen)
  BY <1>2 DEF Act, Visible, FindObjects
<1>5. TypeOK'
  BY <1>1, <1>3, <1>4, LimitsAssumption, StepUnderWay DEF IInv, TypeOK
<1>6. PlanKept'
  BY <1>1, <1>4 DEF IInv, TypeOK, PlanKept, ServesGoal
<1>7. GoalKept'
  BY <1>1, <1>2, OnlyTheGoalStep DEF IInv, GoalKept, Understood
<1>8. OnlyTheGoalMoves'
  BY <1>1, <1>2, OnlyTheGoalStep DEF OnlyTheGoalMoves
<1>9. WorldMakesSense'
  BY <1>1, <1>2, SensibleStep DEF WorldMakesSense
<1> QED BY <1>1, <1>5, <1>6, <1>7, <1>8, <1>9 DEF IInv, Untouched, Understood

(* Fail: the world is as it was.                                           *)
LEMMA IInvFail ==
  ASSUME IInv, Fail
  PROVE  IInv'
<1>1. /\ stage = "execute" /\ at <= Len(plan)
      /\ UNCHANGED <<start, goal_spec, world, plan, at, outputs>>
  BY DEF Fail
<1>2. /\ attempt' \in 0..MaxRetries /\ replans' \in 0..MaxReplans
      /\ stage' \in {"execute", "plan", "exhausted"}
  BY <1>1, LimitsAssumption DEF Fail, AfterFailure, IInv, TypeOK
<1>3. budget' \in [Skills -> Nat]
  <2>1. budget \in [Skills -> Nat] /\ Current.skill \in Skills
    BY <1>1, StepUnderWay DEF IInv, TypeOK, Calls
  <2>2. CASE Refused
    BY <2>1, <2>2 DEF Refused
  <2>3. ASSUME NEW e \in Resolved, Faulted(e)
        PROVE  budget' \in [Skills -> Nat]
    BY <2>1, <2>3 DEF Faulted
  <2> QED BY <2>2, <2>3 DEF Fail
<1>4. TypeOK'
  BY <1>1, <1>2, <1>3 DEF IInv, TypeOK, Ended
<1>5. PlanKept'
  BY <1>1 DEF IInv, PlanKept, ServesGoal
<1> QED BY <1>1, <1>2, <1>4, <1>5, SameWorld DEF IInv, Understood

(* The end of a run, and what is none of its steps.                        *)
LEMMA IInvRest ==
  ASSUME IInv, Verify \/ PlannerRaises \/ UNCHANGED vars
  PROVE  IInv'
<1>1. /\ UNCHANGED <<start, goal_spec, world, plan, at, attempt, replans, outputs, budget>>
      /\ stage' # stage => Understood /\ stage' \in {"succeeded", "unmet", "invalid"}
  BY DEF Verify, PlannerRaises, vars, Understood
<1>2. TypeOK'
  BY <1>1 DEF IInv, TypeOK, Ended, Understood
<1>3. PlanKept'
  BY <1>1 DEF IInv, PlanKept, ServesGoal
<1> QED BY <1>1, <1>2, <1>3 DEF IInv, GoalKept, Untouched, OnlyTheGoalMoves, WorldMakesSense, Understood

LEMMA IInvNext == IInv /\ [Next]_vars => IInv'
BY IInvParse, IInvPlanRun, IInvPass, IInvFail, IInvRest DEF Next

LEMMA Invariant == Spec => []IInv
BY IInvInit, IInvNext, PTL DEF Spec

-----------------------------------------------------------------------------
(* Theorems *)

(* Every variable keeps its type.                                          *)
THEOREM TypeCorrect == Spec => []TypeOK
<1>1. IInv => TypeOK
  BY DEF IInv
<1> QED BY <1>1, Invariant, PTL

(* OnlyTheGoalMoves: whatever the planner plans, no object but the goal's,  *)
(* and one held from the start, is touched.                                *)
THEOREM NothingElseMoves == Spec => []OnlyTheGoalMoves
<1>1. IInv => OnlyTheGoalMoves
  BY DEF IInv
<1> QED BY <1>1, Invariant, PTL

(* WorldMakesSense: runs keep a sensible world sensible.                   *)
THEOREM WorldStaysSensible == Spec => []WorldMakesSense
<1>1. IInv => WorldMakesSense
  BY DEF IInv
<1> QED BY <1>1, Invariant, PTL

(* GoalDoesNotDrift: the text means the goal of the run in every world of   *)
(* it.                                                                     *)
THEOREM GoalStands == Spec => []GoalDoesNotDrift
<1>1. IInv => GoalDoesNotDrift
  <2> SUFFICES ASSUME IInv, Understood
               PROVE  ParseGoal(start.text, world) = goal_spec
    BY DEF GoalDoesNotDrift, Understood
  <2>1. SameThings(start.world, world) /\ goal_spec = ParseGoal(start.text, start.world)
    BY DEF IInv, GoalKept
  <2> QED BY <2>1, SameMeaning
<1> QED BY <1>1, Invariant, PTL

(* What a step has done is what its skill promises.                        *)
LEMMA PassKeepsContract ==
  ASSUME IInv, Pass, NEW e \in Resolved
  PROVE  Postcondition(world, world', Current.skill, e, outputs'[at])
<1>1. stage = "execute" /\ at <= Len(plan)
  BY DEF Pass
<1>2. Act(e)
  <2>1. PICK d \in Resolved : Act(d)
    BY DEF Pass
  <2> QED BY <2>1, ResolvedIsMeant
<1>3. /\ Current \in Calls /\ world \in Worlds
      /\ goal_spec.object \in Entities /\ goal_spec.container \in Entities
  BY <1>1, StepUnderWay
<1> DEFINE seen == IF Current.skill = "detect"
                     THEN Visible(world, e, Current.color, Current.graspable) ELSE {}
<1>4. outputs'[at] = seen
  <2>1. outputs' = Append(outputs, seen)
    BY <1>2 DEF Act
  <2>2. Len(outputs) = at - 1 /\ outputs \in Seq(SUBSET Entities) /\ at \in Nat
    BY <1>1 DEF IInv, PlanKept, TypeOK
  <2> HIDE DEF seen
  <2> QED BY <2>1, <2>2
<1>5. CASE Current.skill = "navigate"
  <2>1. e \in Entities /\ world' = [world EXCEPT !.robot = world.objects[e].pose]
    BY <1>2, <1>5 DEF Act, GetsToFaults, After
  <2>2. world'.robot = world'.objects[e].pose
    BY <1>3, <2>1 DEF Worlds
  <2> QED BY <1>5, <2>2 DEF Postcondition
<1>6. CASE Current.skill = "detect"
  <2>1. seen # {} /\ seen = Visible(world, e, Current.color, Current.graspable)
    BY <1>2, <1>6 DEF Act
  <2>2. e \in {None} \cup seen
    BY <2>1 DEF Visible
  <2> QED BY <1>4, <1>6, <2>1, <2>2 DEF Postcondition
<1>7. CASE Current.skill = "grasp"
  <2>1. world'.holding = e
    BY <1>1, <1>2, <1>7, WhatIsDone DEF Moves, Takes, Puts
  <2> QED BY <1>7, <2>1 DEF Postcondition
<1>8. CASE Current.skill = "place"
  <2>1. Puts(e)
    BY <1>1, <1>2, <1>8, WhatIsDone DEF Moves, Takes
  <2>2. world'.objects[world.holding].in_container = e
    BY <1>3, <2>1 DEF Puts, Worlds, Infos
  <2>3. world.holding # None
    BY <2>1, NoneAssumption DEF Puts
  <2> QED BY <1>8, <2>1, <2>2, <2>3 DEF Postcondition, Puts
<1>9. Current.skill \in {"navigate", "detect", "grasp", "place"}
  BY <1>3 DEF Calls, Skills
<1> QED BY <1>5, <1>6, <1>7, <1>8, <1>9

(* ContractsKept: the monitor never rejects what the backend has done.      *)
THEOREM BackendKeepsContracts == Spec => ContractsKept
<1>1. IInv /\ [Next]_vars =>
        [\A e \in Entities \cup {None} :
           at' = at + 1 /\ e \in Resolved =>
             Postcondition(world, world', Current.skill, e, outputs'[at])]_vars
  <2> SUFFICES ASSUME IInv, Next, NEW e \in Entities \cup {None}, at' = at + 1, e \in Resolved
               PROVE  Postcondition(world, world', Current.skill, e, outputs'[at])
    OBVIOUS
  <2>1. at \in Nat /\ at >= 1
    BY DEF IInv, TypeOK
  <2>2. Pass
    BY <2>1 DEF Next, Parse, PlanRun, PlannerRaises, Fail, Verify
  <2> QED BY <2>2, PassKeepsContract
<1> QED BY <1>1, Invariant, PTL DEF Spec, ContractsKept

-----------------------------------------------------------------------------
(* Recovery: an account of the faults of a run of the rule planner.  How    *)
(* far the run has come tells which skills have no faults left, and what    *)
(* the others have used up is the attempts at the present step and, for     *)
(* every full round of attempts, one replan.                               *)

(* There is something to do, and nothing but faults in the way.             *)
OneWay ==
  start.planner = "rule" /\ Understood /\ Doable /\ ~IsSatisfied(goal_spec, start.world)

Settled ==
  start.planner = "rule" /\ Understood /\ Doable /\ IsSatisfied(goal_spec, start.world)

HeldFromStart == start.world.holding = goal_spec.object

(* The steps of the plan not done yet.                                     *)
Left == Len(plan) + 1 - at

Working == stage = "execute" /\ Left > 0
Arrived == stage = "execute" /\ Left = 0
Underway == stage = "plan" \/ Working

(* The step of a plan of n steps that has so many left, itself included.    *)
Recipe(s, n, left) ==
  CASE left = 1 -> Step("place", s.container, None, 0)
    [] left = 2 -> Step("navigate", s.container, None, 0)
    [] left = 3 -> Step("grasp", s.object, None, n - 3)
    [] left = 4 -> Step("detect", s.object, s.color, 0)
    [] OTHER    -> Step("navigate", s.object, None, 0)

Made(p, s) ==
  /\ Len(p) \in {2, 4, 5}
  /\ \A i \in 1..Len(p) : p[i] = Recipe(s, Len(p), Len(p) + 1 - i)

(* What the steps left need has been done, by this plan or before it.       *)
InPlace(s, w, left) ==
  /\ left <= 2 <=> w.holding = s.object
  /\ left = 1 => w.robot = w.objects[s.container].pose
  /\ left \in {3, 4} => w.robot = w.objects[s.object].pose

OnTheWay ==
  OneWay =>
    /\ stage \in {"plan", "execute", "exhausted", "succeeded"}
    /\ stage = "execute" => Made(plan, goal_spec)
    /\ Arrived => IsSatisfied(goal_spec, world)
    /\ Underway =>
         /\ ~IsSatisfied(goal_spec, world)
         /\ world.holding \in {None, goal_spec.object}
         /\ HeldFromStart => world.holding = goal_spec.object
         /\ InBounds(world.objects[goal_spec.object].pose)
    /\ Working => InPlace(goal_spec, world, Left)
    /\ Working /\ Left = 3 => outputs[at - 1] = {goal_spec.object}

(* A skill that has been called with success has no faults left.            *)
FaultsSpent ==
  OneWay =>
    /\ \A sk \in Skills : budget[sk] <= start.budget[sk]
    /\ HeldFromStart => \A sk \in {"detect", "grasp"} : budget[sk] = start.budget[sk]
    /\ ~HeldFromStart /\ (Arrived \/ (Underway /\ world.holding = goal_spec.object)) =>
         budget["detect"] = 0 /\ budget["grasp"] = 0
    /\ Working /\ Left = 3 => budget["detect"] = 0
    /\ stage = "execute" /\ Left <= 1 => budget["navigate"] = 0
    /\ Arrived => budget["place"] = 0

Attempts == MaxRetries + 1
Used(sk) == start.budget[sk] - budget[sk]
Spent(sk) == Used(sk) \div Attempts
AllSpent == Spent("navigate") + Spent("place") + Spent("detect") + Spent("grasp")

(* The faults not answered by a replan are attempts at the present step.    *)
AttemptsCounted ==
  OneWay /\ stage \in {"plan", "execute"} =>
    \A sk \in Skills :
      budget[sk] > 0 =>
        Used(sk) % Attempts = IF Working /\ Current.skill = sk THEN attempt ELSE 0

ReplansCounted ==
  OneWay =>
    /\ stage \in {"plan", "execute"} => replans = AllSpent
    /\ stage \in {"exhausted", "succeeded"} =>
         (stage = "succeeded" <=> AllExhaustions <= MaxReplans)

NothingToDo ==
  Settled =>
    /\ stage \in {"plan", "execute", "succeeded"} /\ world = start.world
    /\ stage = "execute" => plan = <<>>

NothingSpent == ~Understood => budget = start.budget /\ replans = 0

Account ==
  OnTheWay /\ FaultsSpent /\ AttemptsCounted /\ ReplansCounted /\ NothingToDo /\ NothingSpent

-----------------------------------------------------------------------------
(* Counting in rounds *)

LEMMA NoRounds == ASSUME NEW m \in Nat \ {0} PROVE 0 \div m = 0 /\ 0 % m = 0
OBVIOUS

LEMMA RoundsAreWhole == ASSUME NEW m \in Nat \ {0}, NEW n \in Nat PROVE n \div m \in Nat
OBVIOUS

(* One more either completes a round or does not.                          *)
LEMMA OneMore ==
  ASSUME NEW m \in Nat \ {0}, NEW n \in Nat
  PROVE  /\ n % m = m - 1 => (n + 1) % m = 0 /\ (n + 1) \div m = (n \div m) + 1
         /\ n % m < m - 1 => (n + 1) % m = (n % m) + 1 /\ (n + 1) \div m = n \div m
OBVIOUS

LEMMA MoreIsNoLess ==
  ASSUME NEW m \in Nat \ {0}, NEW n \in Nat, NEW k \in Nat, n <= k
  PROVE  n \div m <= k \div m
OBVIOUS

-----------------------------------------------------------------------------
(* The plan of the rule planner *)

Goals == [object : Entities, container : Entities, color : Colors \cup {None}]

(* Short sequences, put together.                                          *)
LEMMA Join3 ==
  ASSUME NEW a, NEW b, NEW c
  PROVE  <<a>> \o <<b, c>> = <<a, b, c>>
<1> DEFINE T == {a, b, c}
<1>1. <<a>> \in Seq(T) /\ <<b, c>> \in Seq(T) /\ <<a, b, c>> \in Seq(T)
  OBVIOUS
<1>2. Len(<<a>> \o <<b, c>>) = 3 /\ \A i \in 1..3 : (<<a>> \o <<b, c>>)[i] = <<a, b, c>>[i]
  BY <1>1, ConcatProperties
<1> QED BY <1>1, <1>2, ConcatProperties, SeqEqual

LEMMA Join4 ==
  ASSUME NEW a, NEW b, NEW c, NEW d
  PROVE  <<a, b>> \o <<c, d>> = <<a, b, c, d>>
<1> DEFINE T == {a, b, c, d}
<1>1. <<a, b>> \in Seq(T) /\ <<c, d>> \in Seq(T) /\ <<a, b, c, d>> \in Seq(T)
  OBVIOUS
<1>2. Len(<<a, b>> \o <<c, d>>) = 4 /\ \A i \in 1..4 : (<<a, b>> \o <<c, d>>)[i] = <<a, b, c, d>>[i]
  BY <1>1, ConcatProperties
<1> QED BY <1>1, <1>2, ConcatProperties, SeqEqual

LEMMA Join5 ==
  ASSUME NEW a, NEW b, NEW c, NEW d, NEW e
  PROVE  <<a, b, c>> \o <<d, e>> = <<a, b, c, d, e>>
<1> DEFINE T == {a, b, c, d, e}
<1>1. <<a, b, c>> \in Seq(T) /\ <<d, e>> \in Seq(T) /\ <<a, b, c, d, e>> \in Seq(T)
  OBVIOUS
<1>2. Len(<<a, b, c>> \o <<d, e>>) = 5 /\ \A i \in 1..5 : (<<a, b, c>> \o <<d, e>>)[i] = <<a, b, c, d, e>>[i]
  BY <1>1, ConcatProperties
<1> QED BY <1>1, <1>2, ConcatProperties, SeqEqual

LEMMA RulePlanIsMade ==
  ASSUME NEW s \in Goals, NEW w, ~IsSatisfied(s, w)
  PROVE  /\ Made(RulePlan(s, w), s)
         /\ Len(RulePlan(s, w)) = 2 <=> w.holding = s.object
         /\ Len(RulePlan(s, w)) = 4 => w.robot = w.objects[s.object].pose
<1> DEFINE place == Step("place", s.container, None, 0)
           there == Step("navigate", s.container, None, 0)
           here  == Step("navigate", s.object, None, 0)
           look  == Step("detect", s.object, s.color, 0)
           grasp4 == Step("grasp", s.object, None, 1)
           grasp5 == Step("grasp", s.object, None, 2)
<1>1. RulePlan(s, w) = PickUp(s, w) \o <<there, place>>
  BY DEF RulePlan
<1>2. CASE w.holding = s.object
  <2>1. RulePlan(s, w) = <<there, place>>
    <3>1. PickUp(s, w) = <<>>
      BY <1>2 DEF PickUp
    <3> HIDE DEF there, place
    <3> QED BY <1>1, <3>1
  <2>2. Made(<<there, place>>, s) /\ Len(<<there, place>>) = 2
    BY DEF Made, Recipe
  <2> QED BY <1>2, <2>1, <2>2
<1>3. CASE w.holding # s.object /\ w.robot = w.objects[s.object].pose
  <2>1. RulePlan(s, w) = <<look, grasp4, there, place>>
    <3>1. Approach(s, w) = <<>>
      BY <1>3 DEF Approach
    <3>2. PickUp(s, w) = <<>> \o <<look, Step("grasp", s.object, None, Len(<<>>) + 1)>>
      BY <1>3, <3>1 DEF PickUp
    <3>3. Len(<<>>) + 1 = 1
      OBVIOUS
    <3>4. PickUp(s, w) = <<look, grasp4>>
      <4>1. PickUp(s, w) = <<>> \o <<look, grasp4>>
        BY <3>2, <3>3
      <4> HIDE DEF look, grasp4
      <4> QED BY <4>1
    <3> HIDE DEF look, grasp4, there, place
    <3>5. <<look, grasp4>> \o <<there, place>> = <<look, grasp4, there, place>>
      BY Join4, Zenon
    <3> QED BY <1>1, <3>4, <3>5
  <2>2. Made(<<look, grasp4, there, place>>, s) /\ Len(<<look, grasp4, there, place>>) = 4
    <3> DEFINE p == <<look, grasp4, there, place>>
    <3>1. Len(p) = 4 /\ p[1] = look /\ p[2] = grasp4 /\ p[3] = there /\ p[4] = place
      OBVIOUS
    <3> HIDE DEF p
    <3>2. ASSUME NEW i \in 1..4 PROVE p[i] = Recipe(s, 4, 5 - i)
      <4>1. i = 1 \/ i = 2 \/ i = 3 \/ i = 4
        OBVIOUS
      <4> QED BY <3>1, <4>1 DEF Recipe
    <3>3. Made(p, s)
      BY <3>1, <3>2 DEF Made
    <3> QED BY <3>1, <3>3 DEF p
  <2> QED BY <1>3, <2>1, <2>2
<1>4. CASE w.holding # s.object /\ w.robot # w.objects[s.object].pose
  <2>1. RulePlan(s, w) = <<here, look, grasp5, there, place>>
    <3>1. Approach(s, w) = <<here>>
      BY <1>4 DEF Approach
    <3>2. PickUp(s, w) = <<here>> \o <<look, Step("grasp", s.object, None, Len(<<here>>) + 1)>>
      BY <1>4, <3>1 DEF PickUp
    <3>3. Len(<<here>>) + 1 = 2
      OBVIOUS
    <3>4. PickUp(s, w) = <<here, look, grasp5>>
      <4>1. PickUp(s, w) = <<here>> \o <<look, grasp5>>
        BY <3>2, <3>3
      <4> HIDE DEF here, look, grasp5
      <4> QED BY <4>1, Join3
    <3> HIDE DEF here, look, grasp5, there, place
    <3>5. <<here, look, grasp5>> \o <<there, place>> = <<here, look, grasp5, there, place>>
      BY Join5, Zenon
    <3> QED BY <1>1, <3>4, <3>5
  <2>2. Made(<<here, look, grasp5, there, place>>, s) /\ Len(<<here, look, grasp5, there, place>>) = 5
    <3> DEFINE p == <<here, look, grasp5, there, place>>
    <3>1. Len(p) = 5 /\ p[1] = here /\ p[2] = look /\ p[3] = grasp5 /\ p[4] = there /\ p[5] = place
      OBVIOUS
    <3> HIDE DEF p
    <3>2. ASSUME NEW i \in 1..5 PROVE p[i] = Recipe(s, 5, 6 - i)
      <4>1. i = 1 \/ i = 2 \/ i = 3 \/ i = 4 \/ i = 5
        OBVIOUS
      <4> QED BY <3>1, <4>1 DEF Recipe
    <3>3. Made(p, s)
      BY <3>1, <3>2 DEF Made
    <3> QED BY <3>1, <3>3 DEF p
  <2> QED BY <1>4, <2>1, <2>2
<1> QED BY <1>2, <1>3, <1>4

LEMMA StepsLeft ==
  ASSUME NEW n \in {2, 4, 5}, NEW i \in 1..n
  PROVE  /\ n + 1 - i \in 1..5
         /\ n + 1 - i = 3 => n - 3 = i - 1 /\ i - 1 # 0 /\ i - 1 < i
         /\ 0 < i
OBVIOUS

(* What the step with so many left is.                                     *)
LEMMA RecipeIs ==
  ASSUME NEW p, NEW s, Made(p, s), NEW i \in 1..Len(p), NEW left, left = Len(p) + 1 - i
  PROVE  /\ left \in 1..5 /\ p[i].ref < i
         /\ left = 1 => p[i] = Step("place", s.container, None, 0)
         /\ left = 2 => p[i] = Step("navigate", s.container, None, 0)
         /\ left = 3 => p[i] = Step("grasp", s.object, None, i - 1) /\ i - 1 # 0
         /\ left = 4 => p[i] = Step("detect", s.object, s.color, 0)
         /\ left = 5 => p[i] = Step("navigate", s.object, None, 0)
<1>1. p[i] = Recipe(s, Len(p), left) /\ Len(p) \in {2, 4, 5}
  BY DEF Made
<1>2. left \in 1..5 /\ 0 < i
  BY <1>1, StepsLeft
<1>3. left = 3 => Len(p) - 3 = i - 1 /\ i - 1 # 0 /\ i - 1 < i
  BY <1>1, StepsLeft
<1>4. CASE left = 1
  BY <1>1, <1>2, <1>4 DEF Recipe, Step
<1>5. CASE left = 2
  BY <1>1, <1>2, <1>5 DEF Recipe, Step
<1>6. CASE left = 3
  BY <1>1, <1>2, <1>3, <1>6 DEF Recipe, Step
<1>7. CASE left = 4
  BY <1>1, <1>2, <1>7 DEF Recipe, Step
<1>8. CASE left = 5
  BY <1>1, <1>2, <1>8 DEF Recipe, Step
<1> QED BY <1>2, <1>4, <1>5, <1>6, <1>7, <1>8

(* The validator accepts it.                                               *)
LEMMA MadeIsValid ==
  ASSUME NEW p, NEW s, Made(p, s), NEW w
  PROVE  IsValid(p, s, w) /\ p # <<>>
<1>1. p # <<>>
  <2>1. Len(<<>>) = 0 /\ Len(p) \in {2, 4, 5}
    BY DEF Made
  <2> QED BY <2>1
<1>2. ASSUME NEW i \in 1..Len(p)
      PROVE  p[i].ref < i /\ ServesGoal(p[i], s)
  <2>1. PICK left : left = Len(p) + 1 - i
    OBVIOUS
  <2>2. /\ left \in 1..5 /\ p[i].ref < i
        /\ left = 1 => p[i] = Step("place", s.container, None, 0)
        /\ left = 2 => p[i] = Step("navigate", s.container, None, 0)
        /\ left = 3 => p[i] = Step("grasp", s.object, None, i - 1) /\ i - 1 # 0
        /\ left = 4 => p[i] = Step("detect", s.object, s.color, 0)
        /\ left = 5 => p[i] = Step("navigate", s.object, None, 0)
    BY <2>1, RecipeIs
  <2> QED BY <2>2 DEF Step, ServesGoal
<1> QED BY <1>1, <1>2 DEF IsValid

-----------------------------------------------------------------------------
(* A run with something to do *)

(* The goal's container is one.                                            *)
LEMMA GoalIsContainer ==
  ASSUME NEW g \in Texts, NEW w \in Worlds, ParseGoal(g, w) # NoGoal
  PROVE  w.objects[ParseGoal(g, w).container].container
<1> DEFINE boxes == MeantContainers(g, w)
<1>1. Cardinality(boxes) = 1 /\ ParseGoal(g, w).container = First(boxes)
  BY DEF ParseGoal
<1>2. boxes \in SUBSET Entities /\ \A e \in boxes : w.objects[e].container
  BY DEF MeantContainers, Named, Containers
<1> HIDE DEF boxes
<1>3. First(boxes) \in boxes
  BY <1>1, <1>2, FirstOfOne
<1> QED BY <1>1, <1>2, <1>3

(* What the goal of such a run is about, and that it stands.               *)
LEMMA Bearings ==
  ASSUME IInv, OneWay
  PROVE  /\ goal_spec \in Goals /\ ParseGoal(start.text, world) = goal_spec
         /\ goal_spec.object \in Entities /\ goal_spec.container \in Entities
         /\ goal_spec.object # None /\ goal_spec.container # None
         /\ goal_spec.object # goal_spec.container
         /\ start.world.holding \in {None, goal_spec.object}
         /\ world \in Worlds /\ start.world \in Worlds
         /\ world.objects[goal_spec.container] = start.world.objects[goal_spec.container]
         /\ InBounds(world.objects[goal_spec.container].pose)
         /\ InBounds(start.world.objects[goal_spec.object].pose)
         /\ world.objects[goal_spec.container].container
         /\ world.objects[goal_spec.object].graspable
         /\ goal_spec.color \in {None, world.objects[goal_spec.object].color}
<1>1. /\ start \in Starts /\ world \in Worlds /\ SameThings(start.world, world)
      /\ goal_spec = ParseGoal(start.text, start.world) /\ goal_spec # NoGoal
      /\ start.planner = "rule" /\ Doable /\ Understood
  BY DEF IInv, TypeOK, GoalKept, OneWay
<1>2. start.world \in Worlds /\ start.text \in Texts
  BY <1>1, StartsAssumption
<1>3. /\ goal_spec \in Goals /\ start.world.objects[goal_spec.object].graspable
      /\ start.world.objects[goal_spec.container].container
  BY <1>1, <1>2, GoalIsNamed, GoalIsContainer DEF Goals
<1>4. ParseGoal(start.text, world) = goal_spec
  BY <1>1, SameMeaning
<1>5. goal_spec.object \in Entities /\ goal_spec.container \in Entities
  BY <1>3 DEF Goals
<1>6. /\ start.world.holding \in {None, goal_spec.object}
      /\ goal_spec.color \in {None, start.world.objects[goal_spec.object].color}
      /\ ~start.world.objects[goal_spec.object].container
      /\ InBounds(start.world.objects[goal_spec.object].pose)
      /\ InBounds(start.world.objects[goal_spec.container].pose)
  BY <1>1 DEF Doable
<1>7. goal_spec.object # goal_spec.container
  BY <1>3, <1>6
<1>8. world.objects[goal_spec.container] = start.world.objects[goal_spec.container]
  BY <1>1, <1>5, <1>6, <1>7, NoneAssumption DEF IInv, OnlyTheGoalMoves, Understood
<1>9. /\ world.objects[goal_spec.object].graspable
      /\ world.objects[goal_spec.object].color = start.world.objects[goal_spec.object].color
  BY <1>1, <1>3, <1>5 DEF SameThings
<1> QED BY <1>1, <1>2, <1>3, <1>4, <1>5, <1>6, <1>7, <1>8, <1>9, NoneAssumption

(* The budgets are numbers.                                                *)
LEMMA BudgetsAreCounts ==
  ASSUME IInv, NEW sk \in Skills
  PROVE  budget[sk] \in Nat /\ start.budget[sk] \in Nat
<1>1. start \in Starts /\ budget \in [Skills -> Nat]
  BY DEF IInv, TypeOK
<1>2. start.budget \in [Skills -> Nat]
  BY <1>1, StartsAssumption
<1> QED BY <1>1, <1>2

LEMMA SkillsAre ==
  /\ "navigate" \in Skills /\ "detect" \in Skills /\ "grasp" \in Skills /\ "place" \in Skills
  /\ \A sk \in Skills : sk \in {"navigate", "detect", "grasp", "place"}
  /\ Attempts \in Nat \ {0}
BY LimitsAssumption DEF Skills, Attempts

(* The step ahead, by how many are left.                                   *)
LEMMA StepAhead ==
  ASSUME IInv, OnTheWay, OneWay, stage = "execute", at <= Len(plan)
  PROVE  /\ Working /\ Left \in 1..5 /\ at \in Nat /\ Len(plan) \in Nat
         /\ Left = 1 => Current = Step("place", goal_spec.container, None, 0)
         /\ Left = 2 => Current = Step("navigate", goal_spec.container, None, 0)
         /\ Left = 3 => Current = Step("grasp", goal_spec.object, None, at - 1) /\ at - 1 # 0
         /\ Left = 4 => Current = Step("detect", goal_spec.object, goal_spec.color, 0)
         /\ Left = 5 => Current = Step("navigate", goal_spec.object, None, 0)
<1>1. Made(plan, goal_spec)
  BY DEF OnTheWay
<1>2. at \in 1..Len(plan) /\ Len(plan) \in Nat /\ at \in Nat
  BY DEF IInv, TypeOK
<1>3. Left = Len(plan) + 1 - at
  BY DEF Left
<1>4. /\ Left \in 1..5
      /\ Left = 1 => plan[at] = Step("place", goal_spec.container, None, 0)
      /\ Left = 2 => plan[at] = Step("navigate", goal_spec.container, None, 0)
      /\ Left = 3 => plan[at] = Step("grasp", goal_spec.object, None, at - 1) /\ at - 1 # 0
      /\ Left = 4 => plan[at] = Step("detect", goal_spec.object, goal_spec.color, 0)
      /\ Left = 5 => plan[at] = Step("navigate", goal_spec.object, None, 0)
  BY <1>1, <1>2, <1>3, RecipeIs
<1>5. Working
  BY <1>4 DEF Working
<1> QED BY <1>2, <1>4, <1>5 DEF Current

LEMMA NearItself ==
  ASSUME NEW w \in Worlds, NEW e \in Entities, w.robot = w.objects[e].pose
  PROVE  Near(w, e)
<1>1. w.robot \in Int \X Int
  BY PosesAssumption DEF Worlds
<1>2. \A i \in Int : Distance(i, i) = 0
  BY DEF Distance
<1>3. w.robot[1] \in Int /\ w.robot[2] \in Int
  BY <1>1
<1> QED BY <1>2, <1>3 DEF Near, IsAdjacent

(* Nothing but a fault can fail it.                                        *)
LEMMA NothingInTheWay ==
  ASSUME IInv, OnTheWay, OneWay, stage = "execute", at <= Len(plan)
  PROVE  /\ Resolved = {Current.entity}
         /\ GetsToFaults(world, Current.skill, Current.entity)
         /\ Current.skill = "detect" =>
              Visible(world, Current.entity, Current.color, Current.graspable) = {goal_spec.object}
<1> DEFINE o == goal_spec.object
           c == goal_spec.container
<1>1. /\ Working /\ Left \in 1..5 /\ at \in Nat
      /\ Left = 1 => Current = Step("place", c, None, 0)
      /\ Left = 2 => Current = Step("navigate", c, None, 0)
      /\ Left = 3 => Current = Step("grasp", o, None, at - 1) /\ at - 1 # 0
      /\ Left = 4 => Current = Step("detect", o, goal_spec.color, 0)
      /\ Left = 5 => Current = Step("navigate", o, None, 0)
  BY StepAhead
<1>2. /\ o \in Entities /\ c \in Entities /\ o # None /\ world \in Worlds
      /\ InBounds(world.objects[c].pose) /\ world.objects[c].container
      /\ world.objects[o].graspable /\ goal_spec.color \in {None, world.objects[o].color}
  BY Bearings
<1>3. /\ InBounds(world.objects[o].pose) /\ world.holding \in {None, o}
      /\ Left <= 2 <=> world.holding = o
      /\ Left = 1 => world.robot = world.objects[c].pose
      /\ Left \in {3, 4} => world.robot = world.objects[o].pose
      /\ Left = 3 => outputs[at - 1] = {o}
  BY <1>1 DEF OnTheWay, Underway, InPlace
<1> HIDE DEF o, c
<1>4. CASE Left = 1
  <2>1. Near(world, c) /\ world.holding # None
    BY <1>2, <1>3, <1>4, NearItself
  <2> QED BY <1>1, <1>2, <1>4, <2>1 DEF Step, Resolved, GetsToFaults
<1>5. CASE Left = 2
  BY <1>1, <1>2, <1>5 DEF Step, Resolved, GetsToFaults
<1>6. CASE Left = 3
  <2>1. Near(world, o) /\ world.holding = None
    BY <1>2, <1>3, <1>6, NearItself
  <2>2. Current.ref = at - 1 /\ Current.ref # 0 /\ Current.entity = o /\ Current.skill = "grasp"
    <3>1. Current = Step("grasp", o, None, at - 1) /\ at - 1 # 0
      BY <1>1, <1>6
    <3> QED BY <3>1 DEF Step
  <2>3. First({o}) = o
    <3>1. o \in Nat
      BY <1>2, EntitiesAssumption
    <3> QED BY <3>1 DEF First
  <2>4. Resolved = {o}
    <3>1. Resolved = {First(s) : s \in {outputs[Current.ref]} \ {{}}} \cap {o}
      BY <2>2 DEF Resolved
    <3>2. {outputs[Current.ref]} \ {{}} = {{o}}
      BY <1>3, <1>6, <2>2
    <3> QED BY <2>3, <3>1, <3>2
  <2> QED BY <1>2, <2>1, <2>2, <2>4 DEF GetsToFaults
<1>7. CASE Left = 4
  <2>1. Near(world, o)
    BY <1>2, <1>3, <1>7, NearItself
  <2>2. /\ Current.ref = 0 /\ Current.entity = o /\ Current.skill = "detect"
        /\ Current.color = goal_spec.color /\ Current.graspable = TRUE
    BY <1>1, <1>7 DEF Step
  <2>3. o \in FindObjects(world, goal_spec.color, TRUE)
    BY <1>2, FindGraspable
  <2>4. Visible(world, o, goal_spec.color, TRUE) = {o}
    BY <1>2, <2>1, <2>3 DEF Visible
  <2> QED BY <2>2, <2>4 DEF Resolved, GetsToFaults, o
<1>8. CASE Left = 5
  BY <1>1, <1>2, <1>3, <1>8 DEF Step, Resolved, GetsToFaults
<1> QED BY <1>1, <1>4, <1>5, <1>6, <1>7, <1>8

-----------------------------------------------------------------------------
(* The account is kept by every step *)

(* A run goes one way, or has nothing to do, throughout.                   *)
LEMMA OneWayStays ==
  ASSUME UNCHANGED <<start, goal_spec>>, Understood, Understood'
  PROVE  /\ OneWay' <=> OneWay
         /\ Settled' <=> Settled
         /\ HeldFromStart' <=> HeldFromStart
BY DEF OneWay, Settled, HeldFromStart, Doable

LEMMA AccountInit == Init => Account
BY DEF Init, Account, Understood, OneWay, Settled, OnTheWay, FaultsSpent, AttemptsCounted,
       ReplansCounted, NothingToDo, NothingSpent

(* Parse: nothing has been done, and no fault been met.                    *)
LEMMA AccountParse ==
  ASSUME IInv, Account, Parse
  PROVE  Account'
<1>1. /\ stage = "parse" /\ ~Understood
      /\ stage' = IF goal_spec' = NoGoal THEN "not_understood" ELSE "plan"
      /\ UNCHANGED <<start, world, plan, at, attempt, replans, outputs, budget>>
  BY DEF Parse, Understood
<1>2. world = start.world /\ budget = start.budget /\ replans = 0
  BY <1>1 DEF IInv, Untouched, Account, NothingSpent
<1>3. ~Working' /\ ~Arrived' /\ stage' # "execute"
  BY <1>1 DEF Working, Arrived
<1>4. OneWay' => stage' = "plan"
  BY <1>1 DEF OneWay, Understood
<1>5. OnTheWay'
  BY <1>1, <1>2, <1>3, <1>4 DEF OnTheWay, Underway, OneWay, Doable, HeldFromStart
<1>6. \A sk \in Skills : Used(sk)' = 0 /\ Spent(sk)' = 0 /\ budget'[sk] <= start'.budget[sk]
  <2>1. ASSUME NEW sk \in Skills PROVE Used(sk)' = 0 /\ budget'[sk] <= start'.budget[sk]
    BY <1>1, <1>2, BudgetsAreCounts DEF Used
  <2> QED BY <2>1, SkillsAre, NoRounds DEF Spent, Attempts
<1>7. FaultsSpent'
  <2>1. HeldFromStart' <=> world'.holding = goal_spec'.object
    BY <1>1, <1>2 DEF HeldFromStart
  <2> QED BY <1>1, <1>2, <1>3, <1>6, <2>1 DEF FaultsSpent
<1>8. AttemptsCounted'
  BY <1>3, <1>6, SkillsAre, NoRounds DEF AttemptsCounted, Attempts
<1>9. ReplansCounted'
  <2>1. AllSpent' = 0
    BY <1>6, SkillsAre DEF AllSpent
  <2> QED BY <1>1, <1>2, <1>4, <2>1 DEF ReplansCounted
<1>10. NothingToDo'
  BY <1>1, <1>2, <1>3 DEF NothingToDo, Settled, Understood
<1>11. NothingSpent'
  BY <1>1, <1>2 DEF NothingSpent
<1> QED BY <1>5, <1>7, <1>8, <1>9, <1>10, <1>11 DEF Account

(* PlanRun: the plan of the rule planner takes the run from where it is.    *)
LEMMA AccountPlanRun ==
  ASSUME IInv, Account, PlanRun
  PROVE  Account'
<1>1. PICK p \in Plans : plan' = p /\ stage' = IF IsValid(p, goal_spec, world) THEN "execute" ELSE "invalid"
  BY DEF PlanRun
<1>2. /\ stage = "plan" /\ at' = 1 /\ attempt' = 0 /\ outputs' = <<>>
      /\ UNCHANGED <<start, goal_spec, world, replans, budget>>
  BY DEF PlanRun
<1>3. Understood /\ Understood'
  BY <1>1, <1>2 DEF Understood
<1>4. (OneWay' <=> OneWay) /\ (Settled' <=> Settled) /\ (HeldFromStart' <=> HeldFromStart)
  BY <1>2, <1>3, OneWayStays
<1>5. \A sk \in Skills : Used(sk)' = Used(sk) /\ Spent(sk)' = Spent(sk)
  BY <1>2 DEF Used, Spent
<1>6. ASSUME OneWay
      PROVE  /\ stage' = "execute" /\ Made(plan', goal_spec) /\ Left' = Len(plan') /\ Working' /\ ~Arrived'
             /\ Left' = 2 <=> world.holding = goal_spec.object
             /\ Left' = 4 => world.robot = world.objects[goal_spec.object].pose
             /\ Left' \in {2, 4, 5}
  <2>1. goal_spec \in Goals /\ ParseGoal(start.text, world) = goal_spec /\ start.planner # "any"
    BY <1>6, Bearings DEF OneWay
  <2>2. p = RulePlan(goal_spec, world)
    BY <1>1, <2>1 DEF Plans
  <2>3. ~IsSatisfied(goal_spec, world)
    BY <1>2, <1>6 DEF Account, OnTheWay, Underway
  <2>4. /\ Made(p, goal_spec)
        /\ Len(p) = 2 <=> world.holding = goal_spec.object
        /\ Len(p) = 4 => world.robot = world.objects[goal_spec.object].pose
    BY <2>1, <2>2, <2>3, RulePlanIsMade
  <2>5. stage' = "execute"
    BY <1>1, <2>4, MadeIsValid
  <2>6. Len(p) \in {2, 4, 5}
    BY <2>4 DEF Made
  <2>7. Left' = Len(p)
    BY <1>1, <1>2, <2>6 DEF Left
  <2> QED BY <1>1, <2>4, <2>5, <2>6, <2>7 DEF Working, Arrived
<1>7. OnTheWay'
  BY <1>2, <1>4, <1>6 DEF Account, OnTheWay, Underway, InPlace
<1>8. FaultsSpent'
  BY <1>2, <1>4, <1>6 DEF Account, FaultsSpent, Underway
<1>9. AttemptsCounted'
  BY <1>2, <1>4, <1>5, <1>6 DEF Account, AttemptsCounted, Working
<1>10. ReplansCounted'
  BY <1>2, <1>4, <1>5, <1>6, SkillsAre DEF Account, ReplansCounted, AllSpent
<1>11. NothingToDo'
  <2> SUFFICES ASSUME Settled
               PROVE  stage' = "execute" /\ world' = start'.world /\ plan' = <<>>
    BY <1>4 DEF NothingToDo
  <2>1. world = start.world /\ IsSatisfied(goal_spec, start.world) /\ start.planner # "any"
    BY DEF Account, NothingToDo, Settled
  <2>2. goal_spec = ParseGoal(start.text, start.world)
    BY <1>3 DEF IInv, GoalKept
  <2>3. p = RulePlan(goal_spec, world)
    BY <1>1, <2>1, <2>2 DEF Plans
  <2>4. p = <<>>
    BY <2>1, <2>3 DEF RulePlan
  <2> QED BY <1>1, <1>2, <2>1, <2>4 DEF IsValid
<1> QED BY <1>3, <1>7, <1>8, <1>9, <1>10, <1>11 DEF Account, NothingSpent

(* Pass: the skill has no faults left, and the next step finds what it      *)
(* needs.                                                                  *)
LEMMA AccountPass ==
  ASSUME IInv, IInv', Account, Pass
  PROVE  Account'
<1> DEFINE o == goal_spec.object
           c == goal_spec.container
<1>1. /\ stage = "execute" /\ at <= Len(plan) /\ at' = at + 1 /\ attempt' = 0
      /\ UNCHANGED <<start, goal_spec, plan, stage, replans, budget>>
  BY DEF Pass
<1>2. PICK e \in Resolved : Act(e)
  BY DEF Pass
<1>3. Understood /\ Understood'
  BY <1>1 DEF Understood
<1>4. (OneWay' <=> OneWay) /\ (Settled' <=> Settled) /\ (HeldFromStart' <=> HeldFromStart)
  BY <1>1, <1>3, OneWayStays
<1>5. \A sk \in Skills : Used(sk)' = Used(sk) /\ Spent(sk)' = Spent(sk)
  BY <1>1 DEF Used, Spent
<1>6. ~Settled
  <2>1. Settled => plan = <<>> /\ at \in 1..(Len(plan) + 1)
    BY <1>1 DEF Account, NothingToDo, IInv, TypeOK
  <2> QED BY <1>1, <2>1
<1>7. budget[Current.skill] = 0
  BY <1>2 DEF Act
<1>8. ASSUME OneWay
      PROVE  /\ Working /\ Left \in 1..5 /\ Left' = Left - 1
             /\ Left' = 0 => Arrived' /\ ~Working'
             /\ Left' # 0 => Working' /\ ~Arrived'
  <2>1. Working /\ Left \in 1..5 /\ at \in Nat /\ Len(plan) \in Nat
    BY <1>1, <1>8, StepAhead DEF Account
  <2>2. Left' = Left - 1
    BY <1>1, <2>1 DEF Left
  <2> QED BY <1>1, <2>1, <2>2 DEF Arrived, Working
<1>9. ASSUME OneWay
      PROVE  /\ Left = 1 => Current.skill = "place" /\ e = c
             /\ Left = 2 => Current.skill = "navigate" /\ e = c
             /\ Left = 3 => Current.skill = "grasp" /\ e = o
             /\ Left = 4 => Current.skill = "detect" /\ e = o
             /\ Left = 5 => Current.skill = "navigate" /\ e = o
  BY <1>1, <1>9, ResolvedIsMeant, StepAhead DEF Account, Step
<1>10. ASSUME OneWay
       PROVE  /\ ~IsSatisfied(goal_spec, world) /\ world.holding \in {None, o}
              /\ HeldFromStart => world.holding = o
              /\ InBounds(world.objects[o].pose)
              /\ Left <= 2 <=> world.holding = o
              /\ Left \in {3, 4} => world.robot = world.objects[o].pose
  BY <1>8, <1>10 DEF Account, OnTheWay, Underway, InPlace
<1>11. ASSUME OneWay
       PROVE  /\ o \in Entities /\ c \in Entities /\ o # None /\ c # None /\ o # c
              /\ world \in Worlds /\ world.objects \in [Entities -> Infos]
              /\ world = [robot |-> world.robot, holding |-> world.holding, objects |-> world.objects]
  BY <1>11, Bearings DEF Worlds
<1> HIDE DEF o, c
<1>12. ASSUME OneWay, Left = 1
       PROVE  IsSatisfied(goal_spec, world')
  <2>1. Puts(e)
    <3>1. Current.skill = "place"
      BY <1>9, <1>12
    <3> QED BY <1>1, <1>2, <3>1, WhatIsDone DEF Moves, Takes
  <2>2. e = c /\ world.holding = o
    BY <1>9, <1>10, <1>12
  <2>3. world'.objects[o] = [world.objects[o] EXCEPT !.pose = world.objects[c].pose, !.in_container = c]
    BY <1>11, <1>12, <2>1, <2>2 DEF Puts
  <2>4. world'.objects[o].in_container = c
    BY <1>11, <1>12, <2>3 DEF Infos
  <2> QED BY <2>4 DEF IsSatisfied, o, c
<1>13. ASSUME OneWay, Left \in {2, 5}
       PROVE  /\ world'.holding = world.holding /\ world'.objects = world.objects
              /\ Left = 2 => world'.robot = world.objects[c].pose
              /\ Left = 5 => world'.robot = world.objects[o].pose
  <2>1. world' = [world EXCEPT !.robot = world.objects[e].pose]
    BY <1>2, <1>9, <1>13 DEF Act, After
  <2>2. world'.holding = world.holding /\ world'.objects = world.objects /\ world'.robot = world.objects[e].pose
    BY <1>11, <1>13, <2>1
  <2> QED BY <1>9, <1>13, <2>2
<1>14. ASSUME OneWay, Left = 4
       PROVE  world' = world /\ outputs'[at] = {o}
  <2>1. Current.skill = "detect" /\ e = Current.entity
    BY <1>9, <1>14, ResolvedIsMeant
  <2>2. world' = world
    BY <1>2, <2>1 DEF Act, After
  <2>3. Visible(world, e, Current.color, Current.graspable) = {o}
    BY <1>1, <1>14, <2>1, NothingInTheWay DEF Account, o
  <2>4. outputs' = Append(outputs, {o})
    BY <1>2, <2>1, <2>3 DEF Act
  <2>5. Len(outputs) = at - 1 /\ outputs \in Seq(SUBSET Entities) /\ at \in Nat
    BY <1>1 DEF IInv, PlanKept, TypeOK
  <2> QED BY <2>2, <2>4, <2>5
<1>15. ASSUME OneWay, Left = 3
       PROVE  /\ world'.holding = o /\ ~IsSatisfied(goal_spec, world')
              /\ world'.objects[o].pose = world.objects[o].pose
  <2>1. Takes(e) /\ e = o
    BY <1>1, <1>2, <1>9, <1>15, WhatIsDone DEF Moves, Puts
  <2>2. world'.holding = o /\ world'.objects[o] = [world.objects[o] EXCEPT !.in_container = None]
    BY <1>11, <1>15, <2>1 DEF Takes
  <2>3. world'.objects[o].pose = world.objects[o].pose /\ world'.objects[o].in_container = None
    BY <1>11, <1>15, <2>2 DEF Infos
  <2> QED BY <1>11, <1>15, <2>2, <2>3 DEF IsSatisfied, o, c
<1>16. ASSUME OneWay
       PROVE  stage' = "execute" /\ Made(plan', goal_spec)
  BY <1>1, <1>16 DEF Account, OnTheWay
<1>17. ASSUME OneWay, Left' # 0
       PROVE  /\ ~IsSatisfied(goal_spec, world')
              /\ world'.holding \in {None, o}
              /\ HeldFromStart => world'.holding = o
              /\ InBounds(world'.objects[o].pose)
              /\ Left' <= 2 <=> world'.holding = o
              /\ Left' = 1 => world'.robot = world'.objects[c].pose
              /\ Left' \in {3, 4} => world'.robot = world'.objects[o].pose
  <2>1. CASE Left \in {2, 5}
    BY <1>8, <1>10, <1>11, <1>13, <1>17, <2>1 DEF IsSatisfied
  <2>2. CASE Left = 4
    BY <1>8, <1>10, <1>11, <1>14, <1>17, <2>2
  <2>3. CASE Left = 3
    BY <1>8, <1>10, <1>11, <1>15, <1>17, <2>3
  <2> QED BY <1>8, <1>17, <2>1, <2>2, <2>3
<1>18. OnTheWay'
  <2> SUFFICES ASSUME OneWay
               PROVE  OnTheWay'
    BY <1>4 DEF OnTheWay
  <2>1. Left' = 3 => outputs'[at' - 1] = {o}
    <3>1. at' - 1 = at
      BY <1>1, StepAhead DEF Account
    <3> QED BY <1>8, <1>14, <3>1
  <2>2. Arrived' => IsSatisfied(goal_spec, world')
    BY <1>8, <1>12
  <2>3. Left' = 0 \/ Left' # 0
    OBVIOUS
  <2>4. goal_spec' = goal_spec /\ Underway' => Left' # 0
    BY <1>1, <1>8 DEF Underway, Working
  <2>5. Working' => InPlace(goal_spec, world', Left')
    BY <1>8, <1>17 DEF InPlace, o, c
  <2> QED BY <1>1, <1>4, <1>8, <1>16, <1>17, <2>1, <2>2, <2>4, <2>5 DEF OnTheWay, o
<1>19. FaultsSpent'
  <2> SUFFICES ASSUME OneWay
               PROVE  FaultsSpent'
    BY <1>4 DEF FaultsSpent
  <2>1. ~HeldFromStart /\ (Arrived' \/ (Underway' /\ world'.holding = o)) =>
          budget["detect"] = 0 /\ budget["grasp"] = 0
    <3>1. CASE Left = 3
      BY <1>7, <1>8, <1>9, <3>1 DEF Account, FaultsSpent
    <3>2. CASE Left \in {1, 2}
      BY <1>8, <1>10, <3>2 DEF Account, FaultsSpent, Underway, o
    <3>3. CASE Left \in {4, 5}
      BY <1>8, <1>10, <1>11, <1>17, <3>3
    <3> QED BY <1>8, <3>1, <3>2, <3>3
  <2>2. Left' = 3 => budget["detect"] = 0
    BY <1>7, <1>8, <1>9
  <2>3. Left' <= 1 => budget["navigate"] = 0
    BY <1>1, <1>7, <1>8, <1>9 DEF Account, FaultsSpent
  <2>4. Arrived' => budget["place"] = 0
    BY <1>7, <1>8, <1>9
  <2> QED BY <1>1, <1>4, <2>1, <2>2, <2>3, <2>4 DEF Account, FaultsSpent, o
<1>20. AttemptsCounted'
  <2> SUFFICES ASSUME OneWay, NEW sk \in Skills, budget[sk] > 0
               PROVE  Used(sk)' % Attempts = 0
    BY <1>1, <1>4 DEF AttemptsCounted, Attempts
  <2>1. Current.skill # sk
    BY <1>7
  <2> QED BY <1>1, <1>5, <2>1 DEF Account, AttemptsCounted
<1>21. ReplansCounted'
  BY <1>1, <1>4, <1>5, SkillsAre DEF Account, ReplansCounted, AllSpent
<1> QED BY <1>3, <1>4, <1>6, <1>18, <1>19, <1>20, <1>21 DEF Account, NothingToDo, NothingSpent

(* What has been spent is no more than there was, and all of it when the    *)
(* needed skills have no faults left.                                      *)
LEMMA SpentIsBounded ==
  IInv /\ OneWay /\ FaultsSpent =>
    /\ AllExhaustions \in Nat /\ AllSpent <= AllExhaustions
    /\ Arrived => AllSpent = AllExhaustions
<1> SUFFICES ASSUME IInv, OneWay, FaultsSpent
             PROVE  /\ AllExhaustions \in Nat /\ AllSpent <= AllExhaustions
                    /\ Arrived => AllSpent = AllExhaustions
  OBVIOUS
<1>1. ASSUME NEW sk \in Skills
      PROVE  /\ budget[sk] \in Nat /\ start.budget[sk] \in Nat /\ Used(sk) \in Nat
             /\ Used(sk) <= start.budget[sk]
             /\ budget[sk] = 0 => Used(sk) = start.budget[sk]
             /\ budget[sk] = start.budget[sk] => Used(sk) = 0
  <2>1. budget[sk] \in Nat /\ start.budget[sk] \in Nat /\ budget[sk] <= start.budget[sk]
    BY BudgetsAreCounts DEF FaultsSpent
  <2> QED BY <2>1 DEF Used
<1>2. ASSUME NEW sk \in Skills
      PROVE  /\ Spent(sk) \in Nat /\ Exhaustions(sk) \in Nat /\ Spent(sk) <= Exhaustions(sk)
             /\ budget[sk] = 0 => Spent(sk) = Exhaustions(sk)
             /\ budget[sk] = start.budget[sk] => Spent(sk) = 0
  <2>1. /\ Attempts \in Nat \ {0} /\ Attempts = MaxRetries + 1
        /\ Spent(sk) = Used(sk) \div Attempts /\ Exhaustions(sk) = start.budget[sk] \div Attempts
    BY SkillsAre DEF Spent, Exhaustions, Attempts
  <2> QED BY <1>1, <2>1, NoRounds, RoundsAreWhole, MoreIsNoLess
<1>3. HeldFromStart \/ start.world.holding = None
  BY Bearings DEF HeldFromStart
<1>4. CASE HeldFromStart
  <2>1. Needed = {"navigate", "place"}
    BY <1>4 DEF OneWay, Needed, HeldFromStart
  <2>2. AllExhaustions = Exhaustions("navigate") + Exhaustions("place") + 0
    BY <2>1 DEF AllExhaustions
  <2>3. Spent("detect") = 0 /\ Spent("grasp") = 0
    BY <1>2, <1>4, SkillsAre DEF FaultsSpent
  <2>4. AllSpent = Spent("navigate") + Spent("place")
    BY <1>2, <2>3, SkillsAre DEF AllSpent
  <2>5. Arrived => budget["navigate"] = 0 /\ budget["place"] = 0
    BY DEF FaultsSpent, Arrived
  <2> QED BY <1>2, <2>2, <2>4, <2>5, SkillsAre
<1>5. CASE ~HeldFromStart
  <2>1. Needed = Skills
    BY <1>5 DEF OneWay, Needed, HeldFromStart
  <2>2. AllExhaustions =
          (Exhaustions("navigate") + Exhaustions("place")) + (Exhaustions("detect") + Exhaustions("grasp"))
    BY <2>1, SkillsAre DEF AllExhaustions
  <2>3. Arrived => budget["navigate"] = 0 /\ budget["place"] = 0 /\ budget["detect"] = 0 /\ budget["grasp"] = 0
    BY <1>5 DEF FaultsSpent, Arrived
  <2>4. AllSpent = (Spent("navigate") + Spent("place")) + (Spent("detect") + Spent("grasp"))
    BY <1>2, SkillsAre DEF AllSpent
  <2> QED BY <1>2, <2>2, <2>3, <2>4, SkillsAre
<1> QED BY <1>4, <1>5

(* Fail: a fault is used up; one that uses up the attempts at the step      *)
(* costs a replan, or ends the run when there is none left.                *)
LEMMA AccountFail ==
  ASSUME IInv, IInv', Account, Fail
  PROVE  Account'
<1>1. /\ stage = "execute" /\ at <= Len(plan)
      /\ UNCHANGED <<start, goal_spec, world, plan, at, outputs>>
  BY DEF Fail
<1>2. /\ attempt \in 0..MaxRetries /\ replans \in 0..MaxReplans /\ MaxRetries \in Nat /\ MaxReplans \in Nat
      /\ Attempts = MaxRetries + 1
  BY LimitsAssumption DEF IInv, TypeOK, Attempts
<1>3. \/ attempt < MaxRetries /\ attempt' = attempt + 1 /\ stage' = "execute" /\ replans' = replans
      \/ attempt = MaxRetries /\ replans < MaxReplans /\ replans' = replans + 1 /\ stage' = "plan"
      \/ attempt = MaxRetries /\ replans = MaxReplans /\ replans' = replans /\ stage' = "exhausted"
  BY <1>1, <1>2 DEF Fail, AfterFailure
<1>4. Understood /\ Understood'
  BY <1>1, <1>3 DEF Understood
<1>5. (OneWay' <=> OneWay) /\ (Settled' <=> Settled) /\ (HeldFromStart' <=> HeldFromStart)
  BY <1>1, <1>4, OneWayStays
<1>6. ~Settled
  <2>1. Settled => plan = <<>> /\ at \in 1..(Len(plan) + 1)
    BY <1>1 DEF Account, NothingToDo, IInv, TypeOK
  <2> QED BY <1>1, <2>1
<1>0. PICK skill : skill = Current.skill
  OBVIOUS
<1>7. ASSUME OneWay
      PROVE  /\ skill \in Skills /\ budget[skill] > 0
             /\ budget' = [budget EXCEPT ![skill] = @ - 1]
  <2>1. /\ Resolved = {Current.entity} /\ GetsToFaults(world, skill, Current.entity)
        /\ skill = "detect" =>
             Visible(world, Current.entity, Current.color, Current.graspable) = {goal_spec.object}
    BY <1>0, <1>1, <1>7, NothingInTheWay DEF Account
  <2>2. ~Refused
    BY <1>0, <2>1 DEF Refused
  <2>3. Faulted(Current.entity)
    BY <2>1, <2>2 DEF Fail
  <2>4. skill \in Skills
    BY <1>0, <1>1, StepUnderWay DEF Calls
  <2> QED BY <1>0, <2>3, <2>4 DEF Faulted
<1>8. ASSUME OneWay
      PROVE  /\ Working /\ Left \in 1..5 /\ Left' = Left /\ ~Arrived'
             /\ Working' <=> stage' = "execute"
             /\ Left = 1 => skill = "place"
             /\ Left \in {2, 5} => skill = "navigate"
             /\ Left = 3 => skill = "grasp"
             /\ Left = 4 => skill = "detect"
  <2>1. /\ Working /\ Left \in 1..5
        /\ Left = 1 => skill = "place"
        /\ Left \in {2, 5} => skill = "navigate"
        /\ Left = 3 => skill = "grasp"
        /\ Left = 4 => skill = "detect"
    BY <1>0, <1>1, <1>8, StepAhead DEF Account, Step
  <2>2. Left' = Left
    BY <1>1 DEF Left
  <2> QED BY <2>1, <2>2 DEF Arrived, Working
<1>9. ASSUME OneWay
      PROVE  /\ \A sk \in Skills : budget[sk] \in Nat /\ start.budget[sk] \in Nat /\ budget[sk] <= start.budget[sk]
             /\ \A sk \in Skills \ {skill} : budget'[sk] = budget[sk]
             /\ budget'[skill] = budget[skill] - 1
  BY <1>7, <1>9, BudgetsAreCounts DEF Account, FaultsSpent, IInv, TypeOK
<1>10. ASSUME OneWay
       PROVE  /\ \A sk \in Skills \ {skill} : Used(sk)' = Used(sk) /\ Spent(sk)' = Spent(sk)
              /\ Used(skill) \in Nat /\ Used(skill)' = Used(skill) + 1
              /\ Used(skill) % Attempts = attempt
  <2>1. \A sk \in Skills \ {skill} : Used(sk)' = Used(sk)
    BY <1>1, <1>9, <1>10 DEF Used
  <2>2. \A sk \in Skills \ {skill} : Spent(sk)' = Spent(sk)
    BY <2>1 DEF Spent, Attempts
  <2>3. Used(skill) \in Nat /\ Used(skill)' = Used(skill) + 1
    <3>1. budget[skill] \in Nat /\ start.budget[skill] \in Nat /\ budget[skill] <= start.budget[skill]
      BY <1>7, <1>9, <1>10
    <3>2. budget'[skill] = budget[skill] - 1 /\ start' = start
      BY <1>1, <1>9, <1>10
    <3>3. Used(skill) = start.budget[skill] - budget[skill]
      BY DEF Used
    <3>4. Used(skill)' = start.budget[skill] - (budget[skill] - 1)
      BY <3>2 DEF Used
    <3> QED BY <3>1, <3>3, <3>4
  <2>4. Used(skill) % Attempts = attempt
    BY <1>0, <1>1, <1>7, <1>8, <1>10 DEF Account, AttemptsCounted
  <2> QED BY <2>1, <2>2, <2>3, <2>4
<1>11. ASSUME OneWay
       PROVE  /\ \A sk \in Skills : Spent(sk) \in Nat
              /\ attempt < MaxRetries => Spent(skill)' = Spent(skill) /\ Used(skill)' % Attempts = attempt + 1
              /\ attempt = MaxRetries => Spent(skill)' = Spent(skill) + 1 /\ Used(skill)' % Attempts = 0
  <2>1. ASSUME NEW sk \in Skills PROVE Spent(sk) \in Nat
    <3>1. Used(sk) \in Nat
      BY <1>9, <1>11 DEF Used
    <3> QED BY <3>1, SkillsAre, RoundsAreWhole DEF Spent
  <2>2. Used(skill) \in Nat /\ Used(skill)' = Used(skill) + 1 /\ Used(skill) % Attempts = attempt
    BY <1>10, <1>11
  <2>3. Spent(skill) = Used(skill) \div Attempts
    BY DEF Spent
  <2>4. Spent(skill)' = (Used(skill) + 1) \div Attempts
    BY <2>2 DEF Spent, Attempts
  <2>5. Attempts \in Nat \ {0} /\ Attempts - 1 = MaxRetries
    BY <1>2, SkillsAre
  <2>6. ASSUME attempt < MaxRetries
        PROVE  Spent(skill)' = Spent(skill) /\ Used(skill)' % Attempts = attempt + 1
    BY <2>2, <2>3, <2>4, <2>5, <2>6, OneMore
  <2>7. ASSUME attempt = MaxRetries
        PROVE  Spent(skill)' = Spent(skill) + 1 /\ Used(skill)' % Attempts = 0
    BY <2>2, <2>3, <2>4, <2>5, <2>7, OneMore
  <2> QED BY <2>1, <2>6, <2>7
<1>12. ASSUME OneWay
       PROVE  /\ AllSpent \in Nat /\ replans = AllSpent
              /\ attempt < MaxRetries => AllSpent' = AllSpent
              /\ attempt = MaxRetries => AllSpent' = AllSpent + 1
  <2>1. replans = AllSpent
    BY <1>1, <1>12 DEF Account, ReplansCounted
  <2>2. /\ \A sk \in Skills : Spent(sk) \in Nat
        /\ \A sk \in Skills \ {skill} : Spent(sk)' = Spent(sk)
        /\ skill \in Skills
    BY <1>7, <1>10, <1>11, <1>12
  <2>3. ASSUME NEW d \in Nat, Spent(skill)' = Spent(skill) + d
        PROVE  AllSpent' = AllSpent + d
    <3>1. /\ Spent("navigate") \in Nat /\ Spent("place") \in Nat
          /\ Spent("detect") \in Nat /\ Spent("grasp") \in Nat
      BY <2>2, SkillsAre
    <3>2. CASE skill = "navigate"
      BY <2>2, <2>3, <3>1, <3>2, SkillsAre DEF AllSpent
    <3>3. CASE skill = "place"
      BY <2>2, <2>3, <3>1, <3>3, SkillsAre DEF AllSpent
    <3>4. CASE skill = "detect"
      BY <2>2, <2>3, <3>1, <3>4, SkillsAre DEF AllSpent
    <3>5. CASE skill = "grasp"
      BY <2>2, <2>3, <3>1, <3>5, SkillsAre DEF AllSpent
    <3> QED BY <2>2, <3>2, <3>3, <3>4, <3>5, SkillsAre
  <2>4. AllSpent \in Nat
    BY <2>2, SkillsAre DEF AllSpent
  <2>5. ASSUME attempt < MaxRetries PROVE AllSpent' = AllSpent
    <3>1. Spent(skill)' = Spent(skill) + 0
      BY <1>7, <1>11, <1>12, <2>5
    <3> QED BY <2>3, <2>4, <3>1
  <2>6. ASSUME attempt = MaxRetries PROVE AllSpent' = AllSpent + 1
    BY <1>11, <1>12, <2>3, <2>6
  <2> QED BY <2>1, <2>4, <2>5, <2>6
<1>13. OnTheWay'
  <2> SUFFICES ASSUME OneWay
               PROVE  OnTheWay'
    BY <1>5 DEF OnTheWay
  <2> QED BY <1>1, <1>3, <1>5, <1>8 DEF Account, OnTheWay, Underway, InPlace
<1>14. FaultsSpent'
  <2> SUFFICES ASSUME OneWay
               PROVE  FaultsSpent'
    BY <1>5 DEF FaultsSpent
  <2>1. \A sk \in Skills : budget'[sk] \in Nat /\ budget'[sk] <= budget[sk] /\ budget'[sk] <= start.budget[sk]
    <3>1. ASSUME NEW sk \in Skills PROVE budget'[sk] \in Nat /\ budget'[sk] <= budget[sk]
      <4>1. CASE sk = skill
        BY <1>7, <1>9, <4>1
      <4>2. CASE sk # skill
        BY <1>9, <4>2
      <4> QED BY <4>1, <4>2
    <3> QED BY <1>9, <3>1
  <2>2. HeldFromStart => budget'["detect"] = budget["detect"] /\ budget'["grasp"] = budget["grasp"]
    <3>1. HeldFromStart => Left <= 2
      BY <1>8 DEF Account, OnTheWay, Underway, InPlace
    <3>2. HeldFromStart => skill \in {"navigate", "place"}
      BY <1>8, <3>1
    <3> QED BY <1>9, <3>2, SkillsAre
  <2>3. \A sk \in Skills : budget[sk] = 0 => budget'[sk] = 0
    BY <1>9, <2>1
  <2>4. /\ ~HeldFromStart /\ world.holding = goal_spec.object => budget["detect"] = 0 /\ budget["grasp"] = 0
        /\ Left = 3 => budget["detect"] = 0
        /\ Left <= 1 => budget["navigate"] = 0
    BY <1>1, <1>8 DEF Account, FaultsSpent, Underway
  <2> QED BY <1>1, <1>5, <1>8, <2>1, <2>2, <2>3, <2>4, SkillsAre DEF Account, FaultsSpent
<1>15. AttemptsCounted'
  <2> SUFFICES ASSUME OneWay, NEW sk \in Skills, budget'[sk] > 0, stage' \in {"plan", "execute"}
               PROVE  Used(sk)' % Attempts = IF Working' /\ skill = sk THEN attempt' ELSE 0
    BY <1>0, <1>1, <1>5 DEF AttemptsCounted, Attempts, Current
  <2>1. CASE sk = skill
    BY <1>2, <1>3, <1>8, <1>11, <2>1
  <2>2. CASE sk # skill
    <3>1. Used(sk) % Attempts = 0
      BY <1>0, <1>1, <1>9, <2>2 DEF Account, AttemptsCounted
    <3> QED BY <1>10, <2>2, <3>1
  <2> QED BY <2>1, <2>2
<1>16. ReplansCounted'
  <2> SUFFICES ASSUME OneWay
               PROVE  ReplansCounted'
    BY <1>5 DEF ReplansCounted
  <2>1. stage' \in {"plan", "execute"} => replans' = AllSpent'
    BY <1>2, <1>3, <1>12
  <2>2. stage' = "exhausted" => ~(AllExhaustions' <= MaxReplans)
    <3> SUFFICES ASSUME stage' = "exhausted"
                 PROVE  ~(AllExhaustions' <= MaxReplans)
      OBVIOUS
    <3>1. AllSpent' = MaxReplans + 1
      BY <1>2, <1>3, <1>12
    <3>2. (IInv /\ OneWay /\ FaultsSpent)' => (AllExhaustions \in Nat /\ AllSpent <= AllExhaustions)'
      BY SpentIsBounded, PTL
    <3>3. AllExhaustions' \in Nat /\ AllSpent' <= AllExhaustions'
      BY <1>5, <1>14, <3>2
    <3> QED BY <1>2, <3>1, <3>3
  <2>3. stage' # "succeeded"
    BY <1>3
  <2> QED BY <1>5, <2>1, <2>2, <2>3 DEF ReplansCounted
<1> QED BY <1>4, <1>5, <1>6, <1>13, <1>14, <1>15, <1>16 DEF Account, NothingToDo, NothingSpent

(* The end of a run: nothing but success, or the faults were too many.      *)
LEMMA AccountRest ==
  ASSUME IInv, Account, Verify \/ PlannerRaises \/ UNCHANGED vars
  PROVE  Account'
<1>1. /\ UNCHANGED <<start, goal_spec, world, plan, at, attempt, replans, outputs, budget>>
  BY DEF Verify, PlannerRaises, vars
<1>2. /\ AllSpent' = AllSpent /\ AllExhaustions' = AllExhaustions
      /\ \A sk \in Skills : Used(sk)' = Used(sk)
  BY <1>1 DEF AllSpent, Spent, Used, Attempts, AllExhaustions, Needed, Exhaustions
<1>3. CASE UNCHANGED vars
  BY <1>3 DEF vars, Account, OnTheWay, FaultsSpent, AttemptsCounted, ReplansCounted, NothingToDo,
              NothingSpent, OneWay, Settled, Understood, Doable, HeldFromStart, Working, Arrived,
              Underway, Left, InPlace, AllSpent, Spent, Used, AllExhaustions, Needed, Exhaustions,
              Current, Attempts
<1>4. CASE PlannerRaises
  <2>1. stage = "plan" /\ stage' = "invalid" /\ Understood /\ Understood'
    BY <1>4 DEF PlannerRaises, Understood
  <2>2. (OneWay' <=> OneWay) /\ (Settled' <=> Settled)
    BY <1>1, <2>1, OneWayStays
  <2>3. goal_spec # NoGoal /\ goal_spec = ParseGoal(start.text, world)
    BY <2>1, SameMeaning DEF IInv, GoalKept
  <2>4. start.planner = "any"
    <3>1. start.planner = "any" \/ Plans = {}
      BY <1>4 DEF PlannerRaises
    <3>2. start.planner # "any" => RulePlan(goal_spec, world) \in Plans
      BY <2>3 DEF Plans
    <3> QED BY <3>1, <3>2
  <2>5. ~OneWay /\ ~Settled
    BY <2>4 DEF OneWay, Settled
  <2> QED BY <2>1, <2>2, <2>5 DEF Account, OnTheWay, FaultsSpent, AttemptsCounted, ReplansCounted,
                                  NothingToDo, NothingSpent
<1>5. CASE Verify
  <2>1. /\ stage = "execute" /\ at > Len(plan) /\ Understood /\ Understood'
        /\ stage' = IF IsSatisfied(goal_spec, world) THEN "succeeded" ELSE "unmet"
    BY <1>5 DEF Verify, Understood
  <2>2. (OneWay' <=> OneWay) /\ (Settled' <=> Settled) /\ (HeldFromStart' <=> HeldFromStart)
    BY <1>1, <2>1, OneWayStays
  <2>3. Arrived
    <3>1. at \in 1..(Len(plan) + 1) /\ Len(plan) \in Nat
      BY DEF IInv, TypeOK
    <3> QED BY <2>1, <3>1 DEF Arrived, Left
  <2>4. ~Working' /\ ~Arrived' /\ ~Underway' /\ stage' # "execute" /\ stage' \in {"succeeded", "unmet"}
    BY <2>1 DEF Working, Arrived, Underway
  <2>5. OneWay \/ Settled => stage' = "succeeded"
    BY <2>1, <2>3 DEF Account, OnTheWay, NothingToDo, Settled
  <2>6. OneWay => AllExhaustions <= MaxReplans
    <3> SUFFICES ASSUME OneWay
                 PROVE  AllExhaustions <= MaxReplans
      OBVIOUS
    <3>1. AllSpent = AllExhaustions /\ replans = AllSpent
      BY <2>1, <2>3, SpentIsBounded DEF Account, ReplansCounted
    <3>2. replans \in 0..MaxReplans
      BY DEF IInv, TypeOK
    <3> QED BY <3>1, <3>2, LimitsAssumption
  <2>7. OnTheWay'
    BY <2>2, <2>4, <2>5 DEF OnTheWay
  <2>8. FaultsSpent'
    BY <1>1, <2>2, <2>4 DEF Account, FaultsSpent
  <2>9. AttemptsCounted' /\ ReplansCounted'
    BY <1>2, <2>2, <2>4, <2>6 DEF AttemptsCounted, ReplansCounted
  <2>10. NothingToDo' /\ NothingSpent'
    BY <1>1, <2>1, <2>2, <2>4, <2>5 DEF Account, NothingToDo, NothingSpent
  <2> QED BY <2>7, <2>8, <2>9, <2>10 DEF Account
<1> QED BY <1>3, <1>4, <1>5

LEMMA AccountNext == IInv /\ IInv' /\ Account /\ [Next]_vars => Account'
BY AccountParse, AccountPlanRun, AccountPass, AccountFail, AccountRest DEF Next

LEMMA AccountKept == Spec => []Account
BY Invariant, AccountInit, AccountNext, PTL DEF Spec

(* RecoveryIsExact: a run of the rule planner that nothing but faults can   *)
(* stop reaches its goal if the faults exhaust no more steps than there are *)
(* replans, and not otherwise.                                             *)
THEOREM RecoveryExact == Spec => []RecoveryIsExact
<1>1. Account => RecoveryIsExact
  <2> SUFFICES ASSUME Account, start.planner = "rule", stage \in Ended \ {"not_understood"}, Doable
               PROVE  stage = "succeeded" <=> AllExhaustions <= MaxReplans
    BY DEF RecoveryIsExact
  <2>1. Understood /\ stage \notin {"plan", "execute"}
    BY DEF Understood, Ended
  <2>2. CASE OneWay
    <3>1. stage \in {"exhausted", "succeeded"}
      BY <2>1, <2>2 DEF Account, OnTheWay
    <3> QED BY <2>2, <3>1 DEF Account, ReplansCounted
  <2>3. CASE Settled
    <3>1. stage = "succeeded"
      BY <2>1, <2>3 DEF Account, NothingToDo
    <3>2. AllExhaustions = 0
      BY <2>3 DEF AllExhaustions, Needed, Settled
    <3> QED BY <3>1, <3>2, LimitsAssumption
  <2> QED BY <2>1, <2>2, <2>3 DEF OneWay, Settled
<1> QED BY <1>1, AccountKept, PTL
=============================================================================
