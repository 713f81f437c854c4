---------------------------- MODULE MCPickAndPlace ----------------------------
(***************************************************************************)
(* A world with a box, a crate, a red cube and another one, on a grid of    *)
(* three places in a row with one place beyond it.  The crate may be a      *)
(* container or not, and then one that can be carried; a cube may lie       *)
(* anywhere, or be in the box, in the crate or in the arm.                  *)
(***************************************************************************)
EXTENDS PickAndPlace

Box == 1   Crate == 2   Red == 3   Cube == 4

At(x) == <<x, 0>>
Beyond == At(5)
MCPoses == {At(0), At(1), At(2), Beyond}

Info(pose, color, graspable, container, inside) ==
  [pose |-> pose, color |-> color, graspable |-> graspable, container |-> container,
   in_container |-> inside]

World(robot, held, box, two_boxes, red, inside, color) ==
  [robot |-> robot, holding |-> held, objects |->
     [e \in {Box, Crate, Red, Cube} |->
        CASE e = Box   -> Info(box, None, FALSE, TRUE, None)
          [] e = Crate -> Info(At(0), None, FALSE, two_boxes, None)
          [] e = Red   -> Info(red, "red", TRUE, FALSE, inside)
          [] e = Cube  -> Info(At(1), color, TRUE, FALSE, None)]]

Goal(names, color, word) == [names |-> names, color |-> color, container_word |-> word]

NoFaults == [s \in Skills |-> 0]

(* Many worlds and texts, and faults of one skill.                         *)
ManyWorlds ==
  {World(robot, held, box, two_boxes, red, None, color) :
     robot \in {At(0), At(2)}, held \in {None, Red, Cube}, box \in {At(2), Beyond},
     two_boxes \in BOOLEAN, red \in {At(0), At(1), Beyond}, color \in {"red", "blue"}}
  \cup {World(At(1), held, At(2), two_boxes, At(2), Box, "blue") :
          held \in {None, Cube}, two_boxes \in BOOLEAN}

Carriable(w) == [w EXCEPT !.objects[Crate].graspable = TRUE]
CrateWorlds ==
  {Carriable(World(At(1), held, At(2), TRUE, At(1), inside, "blue")) :
     held \in {None, Crate, Red}, inside \in {None, Crate}}
CrateGoals == {Goal(names, None, FALSE) : names \in {{Box}, {Crate}, {Box, Red}, {Crate, Red}}}

ManyGoals ==
  {Goal(names, color, word) :
     names \in {{}, {Box}, {Red}, {Box, Cube}, {Box, Crate, Red}, {Box, Red, Cube}},
     color \in {None, "red", "blue"}, word \in BOOLEAN}

FewBudgets == {NoFaults, [NoFaults EXCEPT !["grasp"] = 3], [NoFaults EXCEPT !["navigate"] = 9]}

(* Faults of up to two skills, from none to more than a run can take.      *)
FewWorlds ==
  {World(robot, held, At(2), FALSE, red, None, "blue") :
     robot \in {At(0), At(2)}, held \in {None, Red}, red \in {At(0), At(1)}}
FewGoals == {Goal({Box, Red}, None, FALSE), Goal({}, "red", TRUE)}
ManyBudgets ==
  {f \in [Skills -> {0, 1, 2, 3, 4}] : Cardinality({s \in Skills : f[s] # 0}) <= 2}

(* The plans of any planner: up to three steps, for the right and the       *)
(* wrong things, with references to the steps before them.  One looks for   *)
(* whatever is there, boxes included.                                      *)
LookAround == [Step("detect", None, None, 0) EXCEPT !.graspable = None]
MenuSteps ==
  {Step("navigate", e, None, 0) : e \in {Box, Red}}
  \cup {Step("detect", e, None, 0) : e \in {None, Red}} \cup {LookAround}
  \cup {Step("grasp", e, None, 1) : e \in {Red, Cube}}
  \cup {Step("grasp", Red, None, r) : r \in {0, 2}}
  \cup {Step("place", e, None, 0) : e \in {Box, Crate}}
MenuPlans ==
  {<<>>} \cup [1..1 -> MenuSteps] \cup [1..2 -> MenuSteps] \cup [1..3 -> MenuSteps]

MenuWorlds ==
  {World(At(1), held, At(2), TRUE, red, None, "blue") :
     held \in {None, Cube}, red \in {At(0), At(2)}}
  \cup {World(At(1), None, At(2), TRUE, At(2), Box, "red")}
  \cup {Carriable(World(At(1), Crate, At(2), TRUE, At(0), inside, "blue")) : inside \in {None, Crate}}
MenuGoals == {Goal({Box, Red}, "red", FALSE), Goal({Box, Cube}, None, FALSE)}
MenuBudgets == {NoFaults, [NoFaults EXCEPT !["grasp"] = 1]}

StartsOf(planner, goals, worlds, budgets) ==
  [planner : {planner}, text : goals, world : worlds, budget : budgets]

MCStarts ==
  StartsOf("rule", ManyGoals, ManyWorlds, FewBudgets)
  \cup StartsOf("rule", FewGoals, FewWorlds, ManyBudgets)
  \cup StartsOf("rule", CrateGoals, CrateWorlds, FewBudgets)
  \cup StartsOf("any", MenuGoals, MenuWorlds, MenuBudgets)
=============================================================================
