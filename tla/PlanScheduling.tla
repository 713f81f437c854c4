---------------------------- MODULE PlanScheduling ----------------------------
(***************************************************************************)
(* TaskManager.schedule: the dependency graph of a plan and Kahn's loop.    *)
(*                                                                          *)
(* A plan is any sequence of steps with an id and the ids they depend on;   *)
(* ids may be unknown or given twice, a dependency may be named twice.  The *)
(* edges of the graph are kept as the code keeps them, one per dependency   *)
(* named.  Steps are numbered from 1.                                       *)
(***************************************************************************)
EXTENDS Plans, Integers, FiniteSets

VARIABLES
  steps,      \* plan.steps
  pc,         \* where schedule is, or how it ended
  indegree,   \* indegree
  ready,      \* ready: sorted, so a set from which the least is taken
  order       \* order

vars == <<steps, pc, indegree, ready, order>>

-----------------------------------------------------------------------------
(* build_dependency_graph *)

Steps == 1..Len(steps)
Deps(i) == steps[i].depends_on

Named(d) == {j \in Steps : steps[j].id = d}

(* id_to_index: the last step of that name.                                *)
IdToIndex(d) == CHOOSE j \in Named(d) : \A k \in Named(d) : k <= j

Legal ==
  \A i \in Steps : \A k \in 1..Len(Deps(i)) :
    Named(Deps(i)[k]) # {} /\ IdToIndex(Deps(i)[k]) # i

(* adjacency, read backwards: the dependencies of i that node stands for.  *)
Edges(node, i) == {k \in 1..Len(Deps(i)) : IdToIndex(Deps(i)[k]) = node}

Sources(i) == {IdToIndex(Deps(i)[k]) : k \in 1..Len(Deps(i))}

InDegree(i) == Len(Deps(i))

-----------------------------------------------------------------------------
(* topological_order *)

Init ==
  /\ steps \in Seq(Calls)
  /\ pc = "build"
  /\ indegree = <<>> /\ ready = {} /\ order = <<>>

(* Lines 63-67 *)
Build ==
  /\ pc = "build"
  /\ IF Legal
       THEN /\ pc' = "sort"
            /\ indegree' = [i \in Steps |-> InDegree(i)]
            /\ ready' = {i \in Steps : InDegree(i) = 0}
       ELSE pc' = "illegal" /\ UNCHANGED <<indegree, ready>>
  /\ UNCHANGED <<steps, order>>

(* Slip: adjacency as sets beside in-degrees that count every mention.      *)
Decremented_Once(node) ==
  [i \in Steps |-> indegree[i] - (IF Edges(node, i) = {} THEN 0 ELSE 1)]

(* Lines 72-73, for every mention of node.                                 *)
Decremented(node) ==
  [i \in Steps |-> indegree[i] - Cardinality(Edges(node, i))]

(* Slip: a step is released with one dependency to go.                     *)
Released_TooEarly(node) ==
  {i \in Steps : Edges(node, i) # {} /\ Decremented(node)[i] <= 1}

(* Lines 74-75 *)
Released(node) ==
  {i \in Steps : Edges(node, i) # {} /\ Decremented(node)[i] = 0}

(* Slip: the queue is not sorted again, and the step added last goes first. *)
Pop_NotSorted(node) ==
  /\ pc = "sort" /\ node \in ready
  /\ \A other \in ready : node >= other
  /\ order' = Append(order, node)
  /\ indegree' = Decremented(node)
  /\ ready' = (ready \ {node}) \cup Released(node)
  /\ UNCHANGED <<steps, pc>>

(* Lines 69-76: the first of the sorted queue.                             *)
Pop(node) ==
  /\ pc = "sort" /\ node \in ready
  /\ \A other \in ready : node <= other
  /\ order' = Append(order, node)
  /\ indegree' = Decremented(node)
  /\ ready' = (ready \ {node}) \cup Released(node)
  /\ UNCHANGED <<steps, pc>>

(* Slip: what could not be ordered is not missed.                          *)
Finish_Unchecked ==
  /\ pc = "sort" /\ ready = {}
  /\ pc' = "scheduled"
  /\ UNCHANGED <<steps, indegree, ready, order>>

(* Lines 78-80 *)
Finish ==
  /\ pc = "sort" /\ ready = {}
  /\ pc' = IF Len(order) = Len(steps) THEN "scheduled" ELSE "cycle"
  /\ UNCHANGED <<steps, indegree, ready, order>>

Next == Build \/ (\E node \in Steps : Pop(node)) \/ Finish

(* A call of schedule runs to its end.                                     *)
Spec == Init /\ [][Next]_vars /\ WF_vars(Next)

-----------------------------------------------------------------------------
(* Properties *)

Before(k) == {order[j] : j \in 1..(k - 1)}
Ordered   == {order[j] : j \in 1..Len(order)}

TypeOK ==
  /\ steps \in Seq(Calls)
  /\ pc \in {"build", "sort", "scheduled", "illegal", "cycle"}
  /\ pc \notin {"build", "illegal"} => indegree \in [Steps -> Nat]
  /\ ready \subseteq Steps
  /\ order \in Seq(Steps)

(* Every step comes after all it depends on, and none comes twice.         *)
OrderRespectsDependencies ==
  \A k \in 1..Len(order) :
    Sources(order[k]) \subseteq Before(k) /\ order[k] \notin Before(k)

(* A set of steps each of which waits for another one of the set.          *)
Knot(C) == C # {} /\ \A i \in C : Sources(i) \cap C # {}

(* The verdict is exact: a plan is scheduled whole when its graph has no    *)
(* cycle, and refused as cyclic only for a cycle in it.                    *)
VerdictIsExact ==
  /\ pc = "scheduled" => Ordered = Steps /\ \A C \in SUBSET Steps : ~Knot(C)
  /\ pc = "cycle" => \E C \in SUBSET Steps : Knot(C)

(* No place goes to a step later in the plan than one that could take it.  *)
FirstThatCan ==
  \A k \in 1..Len(order) : \A i \in Steps \ Before(k) :
    Sources(i) \subseteq Before(k) => order[k] <= i

(* The order is determined: each place goes to a step that can take it, and *)
(* of those to the first in the plan, so whoever sorts a plan agrees.       *)
OrderIsTheFirst == OrderRespectsDependencies /\ FirstThatCan

-----------------------------------------------------------------------------
(* The strengthening the proofs need: in-degrees count the mentions of      *)
(* steps that are not ordered yet, and the steps without any are ready.     *)
Open(i) == {k \in 1..Len(Deps(i)) : IdToIndex(Deps(i)[k]) \notin Ordered}

Counted ==
  pc \in {"sort", "scheduled", "cycle"} =>
    /\ Legal
    /\ \A i \in Steps : indegree[i] = Cardinality(Open(i))
    /\ \A i \in Steps : i \in ready <=> Open(i) = {} /\ i \notin Ordered
=============================================================================
