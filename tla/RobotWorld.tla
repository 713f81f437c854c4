------------------------------ MODULE RobotWorld ------------------------------
(***************************************************************************)
(* The world a robot acts in: WorldState and GridWorld, the operations of   *)
(* SimBackend on it, and the contracts of the four built-in skills.         *)
(*                                                                          *)
(* Entities are numbered in the order of their ids, the order in which the  *)
(* code sorts them.  A world maps every entity to its ObjectInfo; poses are *)
(* pairs of coordinates.                                                    *)
(***************************************************************************)
EXTENDS Integers, FiniteSets

CONSTANTS
  Entities,        \* the ids of the objects, as numbers
  Colors,
  None,            \* no colour, no container, nothing held, not asked for
  Poses,
  Width, Height    \* of the grid

ASSUME EntitiesAssumption == Entities \subseteq Nat /\ IsFiniteSet(Entities)
ASSUME NoneAssumption == None \notin Entities /\ None \notin Colors /\ None \notin BOOLEAN
ASSUME PosesAssumption == Poses \subseteq Int \X Int

Skills == {"navigate", "detect", "grasp", "place"}

Infos == [pose : Poses, color : Colors \cup {None}, graspable : BOOLEAN,
          container : BOOLEAN, in_container : Entities \cup {None}]

Worlds == [robot : Poses, holding : Entities \cup {None}, objects : [Entities -> Infos]]

-----------------------------------------------------------------------------
(* WorldState and GridWorld *)

WithObject(w, e, info) == [w EXCEPT !.objects[e] = info]

(* find_objects filters by what is given.                                  *)
FindObjects(w, color, graspable) ==
  {e \in Entities : /\ color \in {None, w.objects[e].color}
                    /\ graspable \in {None, w.objects[e].graspable}}

InBounds(p) == p[1] \in 0..(Width - 1) /\ p[2] \in 0..(Height - 1)

Distance(i, j) == IF i < j THEN j - i ELSE i - j

IsAdjacent(p, q) == Distance(p[1], q[1]) + Distance(p[2], q[2]) <= 1

-----------------------------------------------------------------------------
(* SimBackend: an operation that gets as far as should_fail may be made to  *)
(* fail by the fault budget; one that does not get there fails anyway.      *)

Near(w, e) == IsAdjacent(w.robot, w.objects[e].pose)

GetsToFaults(w, skill, e) ==
  CASE skill = "navigate" -> e \in Entities /\ InBounds(w.objects[e].pose)
    [] skill = "detect"   -> TRUE
    [] skill = "grasp"    -> e \in Entities /\ w.objects[e].graspable /\ w.holding = None /\ Near(w, e)
    [] OTHER -> w.holding # None /\ e \in Entities /\ w.objects[e].container /\ Near(w, e)

(* Slip: the object asked for is not singled out.                          *)
Visible_AnyObject(w, e, color, graspable) ==
  {v \in FindObjects(w, color, graspable) : Near(w, v)}

Visible(w, e, color, graspable) ==
  {v \in FindObjects(w, color, graspable) : e \in {None, v} /\ Near(w, v)}

(* Slip: the object is put back together without its colour.               *)
Grasped_Colorless(w, e) ==
  [WithObject(w, e, [w.objects[e] EXCEPT !.in_container = None, !.color = None]) EXCEPT !.holding = e]

(* Slip: an object stays in its container while it is held.                *)
Grasped_StillInside(w, e) == [w EXCEPT !.holding = e]

Grasped(w, e) ==
  [WithObject(w, e, [w.objects[e] EXCEPT !.in_container = None]) EXCEPT !.holding = e]

(* Slip: the object stays where it was.                                    *)
Placed_NotMoved(w, c) ==
  [WithObject(w, w.holding, [w.objects[w.holding] EXCEPT !.in_container = c])
     EXCEPT !.holding = None]

Placed(w, c) ==
  [WithObject(w, w.holding,
              [w.objects[w.holding] EXCEPT !.pose = w.objects[c].pose, !.in_container = c])
     EXCEPT !.holding = None]

After(w, skill, e) ==
  CASE skill = "navigate" -> [w EXCEPT !.robot = w.objects[e].pose]
    [] skill = "detect"   -> w
    [] skill = "grasp"    -> Grasped(w, e)
    [] OTHER              -> Placed(w, e)

-----------------------------------------------------------------------------
(* The postconditions of the skills, which the monitor checks.              *)

Postcondition(before, after, skill, e, seen) ==
  CASE skill = "navigate" -> after.robot = after.objects[e].pose
    [] skill = "detect"   -> seen # {} /\ e \in {None} \cup seen
    [] skill = "grasp"    -> after.holding = e
    [] OTHER -> /\ before.holding # None /\ after.holding = None
                /\ after.objects[before.holding].in_container = e
=============================================================================
