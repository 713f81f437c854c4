------------------------- MODULE PlanExecution_proofs -------------------------
(***************************************************************************)
(* Theorems about PlanExecution, for any capabilities, plans and limits:    *)
(* what the validator lets pass is scheduled, references read the output    *)
(* they mean, and every call keeps its contract.                            *)
(*                                                                          *)
(* First PlanScheduling, whose graph a run builds and sorts twice for each  *)
(* plan: Kahn's loop keeps its bookkeeping, the order it yields respects    *)
(* every dependency and is the first there is, and its verdict is exact,    *)
(* for plans of any length.                                                 *)
(***************************************************************************)
EXTENDS PlanExecution, FiniteSetTheorems, WellFoundedInduction, TLAPS

-----------------------------------------------------------------------------
(* Facts about numbers and plans *)

(* A non-empty set of naturals has a least element.                        *)
LEMMA Least ==
  ASSUME NEW S \in SUBSET Nat, S # {}
  PROVE  \E m \in S : \A k \in S : m <= k
<1> DEFINE Less == {p \in Nat \X Nat : p[1] < p[2]}
<1>1. IsWellFoundedOn(Less, Nat)
  BY NatLessThanWellFounded DEF OpToRel
<1>2. PICK m \in S : \A k \in S : <<k, m>> \notin Less
  <2> HIDE DEF Less
  <2> QED BY <1>1, WFMin
<1>3. \A k \in S : ~(k < m)
  BY <1>2
<1> QED BY <1>3

(* A non-empty set of naturals with a bound has a greatest element.        *)
LEMMA Greatest ==
  ASSUME NEW n \in Nat, NEW S \in SUBSET (1..n), S # {}
  PROVE  \E m \in S : \A k \in S : k <= m
<1> DEFINE T == {n - k : k \in S}
<1>1. T \in SUBSET Nat /\ T # {}
  <2>1. \A k \in S : k \in Int /\ 1 <= k /\ k <= n
    OBVIOUS
  <2>2. \A k \in S : n - k \in Nat
    BY <2>1
  <2> QED BY <2>2
<1>2. PICK t \in T : \A u \in T : t <= u
  <2> HIDE DEF T
  <2> QED BY <1>1, Least
<1>3. PICK m \in S : t = n - m
  BY <1>2
<1>4. \A k \in S : n - k \in T
  OBVIOUS
<1>5. \A k \in S : k \in 1..n
  OBVIOUS
<1>6. \A k \in S : k <= m
  <2> HIDE DEF T
  <2> QED BY <1>2, <1>3, <1>4, <1>5
<1> QED BY <1>6

(* The loop counts as everybody else.                                      *)
LEMMA SameCount == \A S : Graph!Cardinality(S) = Cardinality(S)
BY DEF Graph!Cardinality, Cardinality

(* Every step of a plan names its dependencies in a sequence of ids.       *)
LEMMA PlanShape ==
  ASSUME steps \in Seq(Graph!Calls)
  PROVE  /\ Len(steps) \in Nat
         /\ \A i \in Graph!Steps : Graph!Deps(i) \in Seq(Ids) /\ Len(Graph!Deps(i)) \in Nat
<1>1. Len(steps) \in Nat /\ \A i \in Graph!Steps : steps[i] \in Graph!Calls
  BY DEF Graph!Steps
<1>2. \A c \in Graph!Calls : c.depends_on \in Seq(Ids)
  BY DEF Graph!Calls
<1>3. \A i \in Graph!Steps : Graph!Deps(i) \in Seq(Ids)
  BY <1>1, <1>2 DEF Graph!Deps
<1> QED BY <1>1, <1>3

(* In a legal plan every dependency stands for another step of it.         *)
LEMMA LegalSources ==
  ASSUME steps \in Seq(Graph!Calls), Graph!Legal
  PROVE  \A i \in Graph!Steps : \A k \in 1..Len(Graph!Deps(i)) :
           /\ Graph!IdToIndex(Graph!Deps(i)[k]) \in Graph!Steps
           /\ Graph!IdToIndex(Graph!Deps(i)[k]) # i
<1> SUFFICES ASSUME NEW i \in Graph!Steps, NEW k \in 1..Len(Graph!Deps(i))
             PROVE  /\ Graph!IdToIndex(Graph!Deps(i)[k]) \in Graph!Steps
                    /\ Graph!IdToIndex(Graph!Deps(i)[k]) # i
  OBVIOUS
<1> DEFINE d == Graph!Deps(i)[k]
<1>1. Graph!Named(d) # {} /\ Graph!IdToIndex(d) # i
  BY DEF Graph!Legal
<1>2. Graph!Named(d) \in SUBSET (1..Len(steps)) /\ Len(steps) \in Nat
  BY PlanShape DEF Graph!Named, Graph!Steps
<1>3. \E j \in Graph!Named(d) : \A l \in Graph!Named(d) : l <= j
  <2> HIDE DEF d
  <2> QED BY <1>1, <1>2, Greatest
<1>4. Graph!IdToIndex(d) \in Graph!Named(d)
  <2> HIDE DEF d
  <2> QED BY <1>3 DEF Graph!IdToIndex
<1> QED BY <1>1, <1>2, <1>4 DEF Graph!Steps

(* Whether a plan is legal depends on its steps alone.                     *)
LEMMA LegalKept ==
  ASSUME steps' = steps
  PROVE  Graph!Legal' <=> Graph!Legal
<1>1. \A d : Graph!IdToIndex(d)' = Graph!IdToIndex(d) /\ Graph!Named(d)' = Graph!Named(d)
  BY DEF Graph!Steps, Graph!Named, Graph!IdToIndex
<1>2. Graph!Steps' = Graph!Steps /\ \A i : Graph!Deps(i)' = Graph!Deps(i)
  BY DEF Graph!Steps, Graph!Deps
<1> QED BY <1>1, <1>2 DEF Graph!Legal

-----------------------------------------------------------------------------
(* Facts about a state of Kahn's loop *)

(* What the place in schedule says of queue and order.                     *)
Phases ==
  /\ pc \in {"build", "illegal"} => ready = {} /\ order = <<>>
  /\ pc \in {"scheduled", "cycle"} => ready = {}
  /\ pc = "scheduled" => Len(order) = Len(steps)
  /\ pc = "cycle" => Len(order) # Len(steps)

(* The bookkeeping of the loop.                                            *)
InLoop == Graph!TypeOK /\ Phases /\ Graph!Counted /\ Graph!OrderRespectsDependencies

(* Open dependencies are dependencies, of which there are finitely many.   *)
LEMMA OpenIsFinite ==
  ASSUME Graph!TypeOK, NEW i \in Graph!Steps
  PROVE  /\ IsFiniteSet(Graph!Open(i)) /\ Cardinality(Graph!Open(i)) \in Nat
         /\ Cardinality(Graph!Open(i)) = 0 <=> Graph!Open(i) = {}
<1>1. Len(Graph!Deps(i)) \in Nat
  BY PlanShape DEF Graph!TypeOK
<1>2. IsFiniteSet(1..Len(Graph!Deps(i)))
  BY <1>1, FS_Interval
<1>3. Graph!Open(i) \in SUBSET (1..Len(Graph!Deps(i)))
  BY DEF Graph!Open
<1>4. IsFiniteSet(Graph!Open(i))
  BY <1>2, <1>3, FS_Subset
<1> QED BY <1>4, FS_CardinalityType, FS_EmptySet

(* A step without open dependencies has all its sources in the order.      *)
LEMMA OpenOrOrdered ==
  ASSUME NEW i \in Graph!Steps
  PROVE  Graph!Open(i) = {} <=> Graph!Sources(i) \subseteq Graph!Ordered
BY DEF Graph!Open, Graph!Sources

(* The sources of what is ordered are ordered.                             *)
LEMMA OrderedIsClosed ==
  ASSUME Graph!TypeOK, Graph!OrderRespectsDependencies
  PROVE  \A i \in Graph!Ordered : i \in Graph!Steps /\ Graph!Sources(i) \subseteq Graph!Ordered
<1> SUFFICES ASSUME NEW i \in Graph!Ordered
             PROVE  i \in Graph!Steps /\ Graph!Sources(i) \subseteq Graph!Ordered
  OBVIOUS
<1>1. PICK k \in 1..Len(order) : i = order[k]
  BY DEF Graph!Ordered
<1>2. order[k] \in Graph!Steps
  BY DEF Graph!TypeOK
<1>3. Graph!Sources(i) \subseteq Graph!Before(k)
  BY <1>1 DEF Graph!OrderRespectsDependencies
<1>4. Graph!Before(k) \subseteq Graph!Ordered
  <2>1. \A j \in 1..(k - 1) : j \in 1..Len(order)
    BY DEF Graph!TypeOK
  <2> QED BY <2>1 DEF Graph!Before, Graph!Ordered
<1> QED BY <1>1, <1>2, <1>3, <1>4

(* No step comes twice, so as many steps are ordered as the order is long.  *)
LEMMA OrderedCounted ==
  ASSUME Graph!TypeOK, Graph!OrderRespectsDependencies
  PROVE  /\ IsFiniteSet(Graph!Ordered) /\ Cardinality(Graph!Ordered) = Len(order)
         /\ Len(order) \in Nat /\ Graph!Ordered \in SUBSET Graph!Steps
<1> DEFINE n == Len(order)
<1> DEFINE f == [j \in 1..n |-> order[j]]
<1>1. n \in Nat
  BY DEF Graph!TypeOK
<1>2. f \in Surjection(1..n, Graph!Ordered)
  BY DEF Surjection, Graph!Ordered
<1>3. \A j, k \in 1..n : j < k => order[j] # order[k]
  <2> SUFFICES ASSUME NEW j \in 1..n, NEW k \in 1..n, j < k
               PROVE  order[j] # order[k]
    OBVIOUS
  <2>1. j \in 1..(k - 1)
    BY <1>1
  <2>2. order[j] \in Graph!Before(k)
    BY <2>1 DEF Graph!Before
  <2> QED BY <2>2 DEF Graph!OrderRespectsDependencies
<1>4. \A j, k \in 1..n : order[j] = order[k] => j = k
  <2> SUFFICES ASSUME NEW j \in 1..n, NEW k \in 1..n, order[j] = order[k]
               PROVE  j = k
    OBVIOUS
  <2>1. ~(j < k) /\ ~(k < j)
    BY <1>3
  <2> QED BY <2>1, <1>1
<1>5. f \in Injection(1..n, Graph!Ordered)
  BY <1>4 DEF Injection, IsInjective, Graph!Ordered
<1>6. ExistsBijection(1..n, Graph!Ordered)
  BY <1>2, <1>5 DEF ExistsBijection, Bijection
<1>7. Cardinality(Graph!Ordered) = n
  <2> HIDE DEF n
  <2> QED BY <1>1, <1>6, FS_CountingElements
<1>8. IsFiniteSet(Graph!Ordered)
  <2> HIDE DEF n
  <2> QED BY <1>1, <1>6, FS_NatBijection
<1>9. Graph!Ordered \in SUBSET Graph!Steps
  BY OrderedIsClosed
<1> QED BY <1>1, <1>7, <1>8, <1>9

(* All steps are ordered when the order is as long as the plan.             *)
LEMMA AllOrdered ==
  ASSUME Graph!TypeOK, Graph!OrderRespectsDependencies
  PROVE  Len(order) = Len(steps) <=> Graph!Ordered = Graph!Steps
<1>1. Len(steps) \in Nat
  BY PlanShape DEF Graph!TypeOK
<1>2. IsFiniteSet(Graph!Steps) /\ Cardinality(Graph!Steps) = Len(steps)
  <2>1. /\ IsFiniteSet(1..Len(steps))
        /\ Cardinality(1..Len(steps)) = IF 1 > Len(steps) THEN 0 ELSE Len(steps) - 1 + 1
    BY <1>1, FS_Interval
  <2> QED BY <1>1, <2>1 DEF Graph!Steps
<1>3. Cardinality(Graph!Ordered) = Cardinality(Graph!Steps) => Graph!Ordered = Graph!Steps
  BY <1>2, OrderedCounted, FS_Subset
<1> QED BY <1>2, <1>3, OrderedCounted

-----------------------------------------------------------------------------
(* The bookkeeping is kept *)

(* Before the loop there is nothing to count.                              *)
LEMMA LoopInit == Graph!Init => InLoop
<1> SUFFICES ASSUME Graph!Init
             PROVE  InLoop
  OBVIOUS
<1>1. order = <<>> /\ ready = {} /\ pc = "build" /\ steps \in Seq(Graph!Calls) /\ Len(order) = 0
  BY DEF Graph!Init
<1>2. Graph!TypeOK
  BY <1>1 DEF Graph!TypeOK
<1>3. Graph!OrderRespectsDependencies
  BY <1>1 DEF Graph!OrderRespectsDependencies
<1> QED BY <1>1, <1>2, <1>3 DEF InLoop, Phases, Graph!Counted

(* Build: every dependency is open, and counted once for every mention.     *)
LEMMA LoopBuild ==
  ASSUME InLoop, Graph!Build
  PROVE  InLoop'
<1>1. pc = "build" /\ order = <<>> /\ ready = {} /\ order' = order /\ steps' = steps
  BY DEF InLoop, Phases, Graph!Build
<1>2. Len(order') = 0 /\ Graph!Ordered' = {}
  BY <1>1 DEF Graph!Ordered
<1>3. steps \in Seq(Graph!Calls) /\ steps' \in Seq(Graph!Calls)
  BY <1>1 DEF InLoop, Graph!TypeOK
<1>4. Graph!OrderRespectsDependencies'
  BY <1>1, <1>2 DEF Graph!OrderRespectsDependencies
<1>5. /\ Graph!Steps' = Graph!Steps
      /\ \A i \in Graph!Steps : Graph!Deps(i)' = Graph!Deps(i) /\ Len(Graph!Deps(i)) \in Nat
  BY <1>1, <1>3, PlanShape DEF Graph!Steps, Graph!Deps
<1>6. CASE Graph!Legal
  <2>1. /\ pc' = "sort"
        /\ indegree' = [i \in Graph!Steps |-> Graph!InDegree(i)]
        /\ ready' = {i \in Graph!Steps : Graph!InDegree(i) = 0}
    BY <1>6 DEF Graph!Build
  <2>2. Graph!TypeOK'
    BY <1>1, <1>3, <1>5, <2>1 DEF Graph!TypeOK, Graph!InDegree
  <2>3. Graph!Legal'
    BY <1>1, <1>6, LegalKept
  <2>4. \A i \in Graph!Steps : Graph!Open(i)' = 1..Len(Graph!Deps(i))
    BY <1>2, <1>5 DEF Graph!Open
  <2>5. \A i \in Graph!Steps : Cardinality(1..Len(Graph!Deps(i))) = Len(Graph!Deps(i))
    <3> SUFFICES ASSUME NEW i \in Graph!Steps
                 PROVE  Cardinality(1..Len(Graph!Deps(i))) = Len(Graph!Deps(i))
      OBVIOUS
    <3>1. Cardinality(1..Len(Graph!Deps(i))) =
            IF 1 > Len(Graph!Deps(i)) THEN 0 ELSE Len(Graph!Deps(i)) - 1 + 1
      BY <1>5, FS_Interval
    <3> QED BY <1>5, <3>1
  <2>6. \A i \in Graph!Steps : indegree'[i] = Cardinality(Graph!Open(i)')
    BY <2>1, <2>4, <2>5 DEF Graph!InDegree
  <2>7. \A i \in Graph!Steps : i \in ready' <=> Graph!Open(i)' = {} /\ i \notin Graph!Ordered'
    <3> SUFFICES ASSUME NEW i \in Graph!Steps
                 PROVE  i \in ready' <=> Graph!Open(i)' = {} /\ i \notin Graph!Ordered'
      OBVIOUS
    <3>1. i \in ready' <=> Len(Graph!Deps(i)) = 0
      BY <2>1 DEF Graph!InDegree
    <3>2. 1..Len(Graph!Deps(i)) = {} <=> Len(Graph!Deps(i)) = 0
      <4>1. Len(Graph!Deps(i)) # 0 => 1 \in 1..Len(Graph!Deps(i))
        BY <1>5
      <4> QED BY <1>5, <4>1
    <3> QED BY <1>2, <2>4, <3>1, <3>2
  <2>8. Graph!Counted'
    BY <1>5, <2>3, <2>6, <2>7, SameCount DEF Graph!Counted
  <2> QED BY <1>4, <2>1, <2>2, <2>8 DEF InLoop, Phases
<1>7. CASE ~Graph!Legal
  <2>1. pc' = "illegal" /\ ready' = ready
    BY <1>7 DEF Graph!Build
  <2>2. Graph!TypeOK'
    BY <1>1, <1>3, <2>1 DEF Graph!TypeOK
  <2> QED BY <1>1, <1>4, <2>1, <2>2 DEF InLoop, Phases, Graph!Counted
<1> QED BY <1>6, <1>7

(* Pop: what the popped step stands for is no longer open.                 *)
LEMMA PopCloses ==
  ASSUME InLoop, NEW node \in Graph!Steps, Graph!Pop(node)
  PROVE  /\ Graph!Ordered' = Graph!Ordered \cup {node} /\ node \notin Graph!Ordered
         /\ Graph!Open(node) = {}
         /\ \A i \in Graph!Steps : /\ Graph!Open(i)' = Graph!Open(i) \ Graph!Edges(node, i)
                             /\ Graph!Edges(node, i) \subseteq Graph!Open(i)
<1>1. /\ pc = "sort" /\ node \in ready /\ steps' = steps /\ order' = Append(order, node)
      /\ order \in Seq(Graph!Steps)
  BY DEF Graph!Pop, InLoop, Graph!TypeOK
<1>2. node \notin Graph!Ordered /\ Graph!Open(node) = {}
  BY <1>1 DEF InLoop, Graph!Counted
<1>3. /\ Len(order) \in Nat /\ Len(order') = Len(order) + 1
      /\ order'[Len(order) + 1] = node
      /\ \A j \in 1..Len(order) : order'[j] = order[j]
  BY <1>1
<1>4. Graph!Ordered' = Graph!Ordered \cup {node}
  <2>1. Graph!Ordered' = {order'[j] : j \in 1..(Len(order) + 1)}
    BY <1>3 DEF Graph!Ordered
  <2>2. \A j : j \in 1..(Len(order) + 1) <=> j \in 1..Len(order) \/ j = Len(order) + 1
    BY <1>3
  <2> QED BY <1>3, <2>1, <2>2 DEF Graph!Ordered
<1>5. \A i \in Graph!Steps :
        Graph!Open(i)' =
          {k \in 1..Len(Graph!Deps(i)) : Graph!IdToIndex(Graph!Deps(i)[k]) \notin Graph!Ordered'}
  BY <1>1 DEF Graph!Open, Graph!Deps, Graph!IdToIndex, Graph!Named, Graph!Steps
<1>6. \A i \in Graph!Steps : /\ Graph!Open(i)' = Graph!Open(i) \ Graph!Edges(node, i)
                             /\ Graph!Edges(node, i) \subseteq Graph!Open(i)
  BY <1>2, <1>4, <1>5 DEF Graph!Open, Graph!Edges
<1> QED BY <1>2, <1>4, <1>6

(* Pop: in-degrees are still counted, and the queue is what can go next.   *)
LEMMA PopCounts ==
  ASSUME InLoop, NEW node \in Graph!Steps, Graph!Pop(node)
  PROVE  /\ \A i \in Graph!Steps :
              indegree'[i] = Cardinality(Graph!Open(i)') /\ indegree'[i] \in Nat
         /\ \A i \in Graph!Steps : i \in ready' <=> Graph!Open(i)' = {} /\ i \notin Graph!Ordered'
<1>1. /\ pc = "sort" /\ node \in ready /\ steps' = steps
      /\ indegree' = Graph!Decremented(node) /\ ready' = (ready \ {node}) \cup Graph!Released(node)
  BY DEF Graph!Pop
<1>2. Graph!TypeOK /\ Graph!Legal /\ Graph!OrderRespectsDependencies /\ steps \in Seq(Graph!Calls)
  BY <1>1 DEF InLoop, Graph!Counted, Graph!TypeOK
<1>3. ASSUME NEW i \in Graph!Steps
      PROVE  /\ indegree'[i] = Cardinality(Graph!Open(i)') /\ indegree'[i] \in Nat
             /\ indegree'[i] = 0 <=> Graph!Open(i)' = {}
  <2>1. IsFiniteSet(Graph!Open(i)) /\ Cardinality(Graph!Open(i)) \in Nat
    BY <1>2, OpenIsFinite
  <2>2. /\ Graph!Open(i)' = Graph!Open(i) \ Graph!Edges(node, i)
        /\ Graph!Open(i) \cap Graph!Edges(node, i) = Graph!Edges(node, i)
    BY PopCloses
  <2>3. /\ IsFiniteSet(Graph!Open(i) \ Graph!Edges(node, i))
        /\ Cardinality(Graph!Open(i) \ Graph!Edges(node, i)) =
             Cardinality(Graph!Open(i)) - Cardinality(Graph!Edges(node, i))
    BY <2>1, <2>2, FS_Difference
  <2>4. indegree'[i] = Cardinality(Graph!Open(i)) - Cardinality(Graph!Edges(node, i))
    BY <1>1, SameCount DEF Graph!Decremented, InLoop, Graph!Counted
  <2>5. /\ Cardinality(Graph!Open(i)') \in Nat
        /\ Cardinality(Graph!Open(i)') = 0 <=> Graph!Open(i)' = {}
    BY <2>2, <2>3, FS_CardinalityType, FS_EmptySet
  <2> QED BY <2>2, <2>3, <2>4, <2>5
<1>4. ASSUME NEW i \in Graph!Steps
      PROVE  i \in ready' <=> Graph!Open(i)' = {} /\ i \notin Graph!Ordered'
  <2>1. i \in ready <=> Graph!Open(i) = {} /\ i \notin Graph!Ordered
    BY <1>1 DEF InLoop, Graph!Counted
  <2>2. /\ Graph!Ordered' = Graph!Ordered \cup {node}
        /\ Graph!Open(i)' = Graph!Open(i) \ Graph!Edges(node, i)
        /\ Graph!Edges(node, i) \subseteq Graph!Open(i)
        /\ node \notin Graph!Ordered
    BY PopCloses
  <2>3. i \in Graph!Released(node) <=> Graph!Edges(node, i) # {} /\ Graph!Open(i)' = {}
    BY <1>1, <1>3 DEF Graph!Released
  <2>4. Graph!Edges(node, i) # {} => i # node
    BY <1>2, LegalSources DEF Graph!Edges
  <2>5. Graph!Edges(node, i) # {} => i \notin Graph!Ordered
    <3>1. Graph!Edges(node, i) # {} => node \in Graph!Sources(i)
      BY DEF Graph!Edges, Graph!Sources
    <3> QED BY <1>2, <2>2, <3>1, OrderedIsClosed
  <2> QED BY <1>1, <2>1, <2>2, <2>3, <2>4, <2>5
<1> QED BY <1>3, <1>4

(* Pop: the order grows by a step that waits for nothing outside it.       *)
LEMMA LoopPop ==
  ASSUME InLoop, NEW node \in Graph!Steps, Graph!Pop(node)
  PROVE  InLoop'
<1>1. /\ pc = "sort" /\ node \in ready /\ steps' = steps /\ order' = Append(order, node)
      /\ pc' = pc /\ order \in Seq(Graph!Steps) /\ Graph!TypeOK /\ Graph!OrderRespectsDependencies
      /\ indegree' = Graph!Decremented(node)
      /\ ready' = (ready \ {node}) \cup Graph!Released(node)
  BY DEF Graph!Pop, InLoop, Graph!TypeOK
<1>2. Graph!Steps' = Graph!Steps
  BY <1>1 DEF Graph!Steps
<1>3. Graph!Counted'
  <2>1. Graph!Legal'
    BY <1>1, LegalKept DEF InLoop, Graph!Counted
  <2> QED BY <1>2, <2>1, PopCounts, SameCount DEF Graph!Counted
<1>4. Graph!TypeOK'
  <2>1. indegree' \in [Graph!Steps' -> Nat]
    BY <1>1, <1>2, PopCounts DEF Graph!Decremented
  <2>2. ready' \subseteq Graph!Steps'
    BY <1>1, <1>2 DEF Graph!TypeOK, Graph!Released
  <2>3. order' \in Seq(Graph!Steps')
    BY <1>1, <1>2
  <2> QED BY <1>1, <2>1, <2>2, <2>3 DEF Graph!TypeOK
<1>5. Graph!OrderRespectsDependencies'
  <2>1. /\ Len(order) \in Nat /\ Len(order') = Len(order) + 1
        /\ order'[Len(order) + 1] = node
        /\ \A j \in 1..Len(order) : order'[j] = order[j]
    BY <1>1
  <2>2. \A i : Graph!Sources(i)' = Graph!Sources(i)
    BY <1>1 DEF Graph!Sources, Graph!Deps, Graph!IdToIndex, Graph!Named, Graph!Steps
  <2>3. \A k \in 1..(Len(order) + 1) : Graph!Before(k)' = Graph!Before(k)
    <3> SUFFICES ASSUME NEW k \in 1..(Len(order) + 1)
                 PROVE  Graph!Before(k)' = Graph!Before(k)
      OBVIOUS
    <3>1. \A j \in 1..(k - 1) : order'[j] = order[j]
      BY <2>1
    <3> QED BY <3>1 DEF Graph!Before
  <2>4. Graph!Before(Len(order) + 1) = Graph!Ordered
    <3>1. Len(order) + 1 - 1 = Len(order)
      BY <2>1
    <3> QED BY <3>1 DEF Graph!Before, Graph!Ordered
  <2>5. Graph!Sources(node) \subseteq Graph!Ordered /\ node \notin Graph!Ordered
    BY PopCloses, OpenOrOrdered
  <2>6. \A k \in 1..Len(order) :
          Graph!Sources(order[k]) \subseteq Graph!Before(k) /\ order[k] \notin Graph!Before(k)
    BY <1>1 DEF Graph!OrderRespectsDependencies
  <2>7. ASSUME NEW k \in 1..(Len(order) + 1)
        PROVE  /\ Graph!Sources(order'[k]) \subseteq Graph!Before(k)
               /\ order'[k] \notin Graph!Before(k)
    <3>1. CASE k \in 1..Len(order)
      BY <2>1, <2>6, <3>1
    <3>2. CASE k = Len(order) + 1
      BY <2>1, <2>4, <2>5, <3>2
    <3> QED BY <2>1, <3>1, <3>2
  <2> QED BY <2>1, <2>2, <2>3, <2>7 DEF Graph!OrderRespectsDependencies
<1>6. Phases'
  BY <1>1 DEF Phases
<1> QED BY <1>3, <1>4, <1>5, <1>6 DEF InLoop

(* Finish only names the outcome.                                          *)
LEMMA LoopFinish ==
  ASSUME InLoop, Graph!Finish
  PROVE  InLoop'
<1>1. /\ pc = "sort" /\ ready = {} /\ pc' = IF Len(order) = Len(steps) THEN "scheduled" ELSE "cycle"
      /\ steps' = steps /\ indegree' = indegree /\ ready' = ready /\ order' = order
  BY DEF Graph!Finish
<1>2. \A i : /\ Graph!Sources(i)' = Graph!Sources(i) /\ Graph!Before(i)' = Graph!Before(i)
              /\ Graph!Open(i)' = Graph!Open(i)
  BY <1>1 DEF Graph!Sources, Graph!Before, Graph!Open, Graph!Ordered, Graph!Deps,
              Graph!IdToIndex, Graph!Named, Graph!Steps
<1>3. Graph!TypeOK'
  BY <1>1 DEF InLoop, Graph!TypeOK, Graph!Steps
<1>4. Graph!OrderRespectsDependencies'
  BY <1>1, <1>2 DEF InLoop, Graph!OrderRespectsDependencies
<1>5. Graph!Counted'
  <2>1. Graph!Legal'
    BY <1>1, LegalKept DEF InLoop, Graph!Counted
  <2> QED BY <1>1, <1>2, <2>1 DEF InLoop, Graph!Counted, Graph!Steps, Graph!Ordered
<1>6. Phases'
  BY <1>1 DEF Phases
<1> QED BY <1>3, <1>4, <1>5, <1>6 DEF InLoop

(* Nothing changes.                                                        *)
LEMMA LoopStutter ==
  ASSUME InLoop, UNCHANGED Graph!vars
  PROVE  InLoop'
<1>1. /\ steps' = steps /\ pc' = pc /\ indegree' = indegree /\ ready' = ready /\ order' = order
  BY DEF Graph!vars
<1>2. \A i : /\ Graph!Sources(i)' = Graph!Sources(i) /\ Graph!Before(i)' = Graph!Before(i)
              /\ Graph!Open(i)' = Graph!Open(i)
  BY <1>1 DEF Graph!Sources, Graph!Before, Graph!Open, Graph!Ordered, Graph!Deps,
              Graph!IdToIndex, Graph!Named, Graph!Steps
<1>3. Graph!TypeOK' /\ Phases'
  BY <1>1 DEF InLoop, Graph!TypeOK, Graph!Steps, Phases
<1>4. Graph!OrderRespectsDependencies'
  BY <1>1, <1>2 DEF InLoop, Graph!OrderRespectsDependencies
<1>5. Graph!Legal' <=> Graph!Legal
  BY <1>1, LegalKept
<1>6. Graph!Counted'
  BY <1>1, <1>2, <1>5 DEF InLoop, Graph!Counted, Graph!Steps, Graph!Ordered
<1> QED BY <1>3, <1>4, <1>6 DEF InLoop

(* The bookkeeping is inductive.                                           *)
LEMMA LoopStep == InLoop /\ [Graph!Next]_(Graph!vars) => InLoop'
<1> SUFFICES ASSUME InLoop, [Graph!Next]_(Graph!vars)
             PROVE  InLoop'
  OBVIOUS
<1>1. CASE Graph!Build
  BY <1>1, LoopBuild
<1>2. ASSUME NEW node \in Graph!Steps, Graph!Pop(node)
      PROVE  InLoop'
  BY <1>2, LoopPop
<1>3. CASE Graph!Finish
  BY <1>3, LoopFinish
<1>4. CASE UNCHANGED Graph!vars
  BY <1>4, LoopStutter
<1> QED BY <1>1, <1>2, <1>3, <1>4 DEF Graph!Next

(* The in-degrees count the mentions of steps not yet ordered, the queue    *)
(* holds the steps without any, and the order is an order of the plan.      *)
THEOREM LoopKept == Graph!Spec => []InLoop
<1> QED BY LoopInit, LoopStep, PTL DEF Graph!Spec

(* OrderRespectsDependencies for any plan: every step comes after all it   *)
(* depends on, and none comes twice.                                       *)
THEOREM OrderRespects == Graph!Spec => []Graph!OrderRespectsDependencies
<1>1. InLoop => Graph!OrderRespectsDependencies
  BY DEF InLoop
<1> QED BY <1>1, LoopKept, PTL

-----------------------------------------------------------------------------
(* The order is the first there is *)

(* An empty order has no place to go wrong.                                *)
LEMMA FirstInit == Graph!Init => Graph!FirstThatCan
BY DEF Graph!Init, Graph!FirstThatCan

(* Pop: a step that could go is in the queue, and the least one is taken.   *)
LEMMA FirstPop ==
  ASSUME InLoop, Graph!FirstThatCan, NEW node \in Graph!Steps, Graph!Pop(node)
  PROVE  Graph!FirstThatCan'
<1>1. /\ pc = "sort" /\ node \in ready /\ steps' = steps /\ order' = Append(order, node)
      /\ order \in Seq(Graph!Steps) /\ \A other \in ready : node <= other
  BY DEF Graph!Pop, InLoop, Graph!TypeOK
<1>2. /\ Len(order) \in Nat /\ Len(order') = Len(order) + 1
      /\ order'[Len(order) + 1] = node
      /\ \A j \in 1..Len(order) : order'[j] = order[j]
  BY <1>1
<1>3. Graph!Steps' = Graph!Steps /\ \A i : Graph!Sources(i)' = Graph!Sources(i)
  BY <1>1 DEF Graph!Sources, Graph!Deps, Graph!IdToIndex, Graph!Named, Graph!Steps
<1>4. \A k \in 1..(Len(order) + 1) : Graph!Before(k)' = Graph!Before(k)
  <2> SUFFICES ASSUME NEW k \in 1..(Len(order) + 1)
               PROVE  Graph!Before(k)' = Graph!Before(k)
    OBVIOUS
  <2>1. \A j \in 1..(k - 1) : order'[j] = order[j]
    BY <1>2
  <2> QED BY <2>1 DEF Graph!Before
<1>5. Graph!Before(Len(order) + 1) = Graph!Ordered
  <2>1. Len(order) + 1 - 1 = Len(order)
    BY <1>2
  <2> QED BY <2>1 DEF Graph!Before, Graph!Ordered
<1>6. ASSUME NEW k \in 1..(Len(order) + 1), NEW i \in Graph!Steps \ Graph!Before(k),
             Graph!Sources(i) \subseteq Graph!Before(k)
      PROVE  order'[k] <= i
  <2>1. CASE k \in 1..Len(order)
    BY <1>2, <1>6, <2>1 DEF Graph!FirstThatCan
  <2>2. CASE k = Len(order) + 1
    <3>1. i \notin Graph!Ordered /\ Graph!Open(i) = {}
      BY <1>5, <1>6, <2>2, OpenOrOrdered
    <3>2. i \in ready
      BY <1>1, <3>1 DEF InLoop, Graph!Counted
    <3> QED BY <1>1, <1>2, <2>2, <3>2
  <2> QED BY <1>2, <2>1, <2>2
<1> QED BY <1>2, <1>3, <1>4, <1>6 DEF Graph!FirstThatCan

(* Only Pop changes the order.                                             *)
LEMMA FirstStep == InLoop /\ Graph!FirstThatCan /\ [Graph!Next]_(Graph!vars) => Graph!FirstThatCan'
<1> SUFFICES ASSUME InLoop, Graph!FirstThatCan, [Graph!Next]_(Graph!vars)
             PROVE  Graph!FirstThatCan'
  OBVIOUS
<1>1. CASE steps' = steps /\ order' = order
  <2>1. \A i : Graph!Sources(i)' = Graph!Sources(i) /\ Graph!Before(i)' = Graph!Before(i)
    BY <1>1 DEF Graph!Sources, Graph!Before, Graph!Deps, Graph!IdToIndex, Graph!Named, Graph!Steps
  <2> QED BY <1>1, <2>1 DEF Graph!FirstThatCan, Graph!Steps
<1>2. ASSUME NEW node \in Graph!Steps, Graph!Pop(node)
      PROVE  Graph!FirstThatCan'
  BY <1>2, FirstPop
<1> QED BY <1>1, <1>2 DEF Graph!Next, Graph!Build, Graph!Finish, Graph!vars

(* FirstThatCan for any plan: the order is determined, each place goes to  *)
(* the first step of the plan that can take it.                            *)
THEOREM OrderIsFirst == Graph!Spec => []Graph!FirstThatCan
<1> QED BY FirstInit, FirstStep, LoopKept, PTL DEF Graph!Spec

-----------------------------------------------------------------------------
(* The verdict *)

(* An order of all steps that respects the dependencies unties every knot:  *)
(* the step of a knot that comes first waits for none of it.               *)
LEMMA NoKnot ==
  ASSUME Graph!TypeOK, Graph!OrderRespectsDependencies, Graph!Ordered = Graph!Steps,
         NEW C \in SUBSET Graph!Steps
  PROVE  ~Graph!Knot(C)
<1> SUFFICES ASSUME C # {}, \A i \in C : Graph!Sources(i) \cap C # {}
             PROVE  FALSE
  BY DEF Graph!Knot
<1> DEFINE Places == {k \in 1..Len(order) : order[k] \in C}
<1>1. Places \in SUBSET Nat /\ Places # {}
  BY DEF Graph!Ordered
<1>2. PICK k \in Places : \A l \in Places : k <= l
  <2> HIDE DEF Places
  <2> QED BY <1>1, Least
<1>3. PICK i \in Graph!Sources(order[k]) : i \in C
  OBVIOUS
<1>4. i \in Graph!Before(k)
  BY <1>3 DEF Graph!OrderRespectsDependencies
<1>5. PICK j \in 1..(k - 1) : order[j] = i
  BY <1>4 DEF Graph!Before
<1>6. j \in Places /\ j < k
  BY <1>3, <1>5 DEF Graph!TypeOK
<1> QED BY <1>2, <1>6 DEF Graph!TypeOK

(* What the loop leaves over is a knot.                                    *)
LEMMA KnotLeftOver ==
  ASSUME InLoop, pc = "cycle"
  PROVE  Graph!Knot(Graph!Steps \ Graph!Ordered)
<1>1. /\ Len(order) # Len(steps) /\ ready = {}
      /\ Graph!TypeOK /\ Graph!OrderRespectsDependencies /\ Graph!Legal
  BY DEF InLoop, Phases, Graph!Counted
<1>2. Graph!Steps \ Graph!Ordered # {}
  BY <1>1, AllOrdered, OrderedCounted
<1>3. ASSUME NEW i \in Graph!Steps \ Graph!Ordered
      PROVE  Graph!Sources(i) \cap (Graph!Steps \ Graph!Ordered) # {}
  <2>1. Graph!Open(i) # {}
    BY <1>1 DEF InLoop, Graph!Counted
  <2>2. PICK k \in 1..Len(Graph!Deps(i)) : Graph!IdToIndex(Graph!Deps(i)[k]) \notin Graph!Ordered
    BY <2>1 DEF Graph!Open
  <2>3. Graph!IdToIndex(Graph!Deps(i)[k]) \in Graph!Steps
    BY <1>1, LegalSources DEF Graph!TypeOK
  <2> QED BY <2>2, <2>3 DEF Graph!Sources
<1> QED BY <1>2, <1>3 DEF Graph!Knot

(* So the verdict is right wherever the loop ends.                         *)
LEMMA VerdictHolds == InLoop => Graph!VerdictIsExact
<1> SUFFICES ASSUME InLoop
             PROVE  Graph!VerdictIsExact
  OBVIOUS
<1>1. Graph!TypeOK /\ Graph!OrderRespectsDependencies
  BY DEF InLoop
<1>2. CASE pc = "scheduled"
  <2>1. Graph!Ordered = Graph!Steps
    BY <1>1, <1>2, AllOrdered DEF InLoop, Phases
  <2> QED BY <1>1, <1>2, <2>1, NoKnot DEF Graph!VerdictIsExact
<1>3. CASE pc = "cycle"
  BY <1>3, KnotLeftOver DEF Graph!VerdictIsExact
<1> QED BY <1>2, <1>3 DEF Graph!VerdictIsExact

(* VerdictIsExact for any plan: what is scheduled is scheduled whole and   *)
(* has no cycle, and what is refused as cyclic has one.                    *)
THEOREM Verdict == Graph!Spec => []Graph!VerdictIsExact
BY VerdictHolds, LoopKept, PTL

-----------------------------------------------------------------------------
(* The graph a run sorts *)

(* Steps are calls.                                                        *)
LEMMA SameCalls == Graph!Calls = Calls
BY DEF Graph!Calls, Calls, Graph!Kinds, Kinds, Graph!Args, Args, Graph!Refs, Refs,
       Graph!Subsets, Subsets

-----------------------------------------------------------------------------
(* What the planner yields is a plan *)

(* A raw step that is offered names a skill or a tool there is.            *)
LEMMA OfferedIsNamed ==
  ASSUME NEW raw \in RawSteps, Offered(raw)
  PROVE  /\ raw.tool = Absent => raw.skill \in Names /\ <<"skill", raw.skill>> \in Known
         /\ raw.tool # Absent => raw.tool \in Names /\ <<"tool", raw.tool>> \in Known
<1>1. Known \subseteq Kinds \X Names /\ Absent \notin Names
  BY PlannersAssumption
<1>2. \A k, n : <<k, n>> \in Known => n \in Names
  BY <1>1
<1> QED BY <1>1, <1>2 DEF Offered

(* Reading a step of a readable answer gives a call of a known capability.  *)
LEMMA ReadStepIsCall ==
  ASSUME NEW n \in DOMAIN Answers, NEW answer \in Answers[n], Readable(answer),
         NEW i \in 1..Len(answer)
  PROVE  ReadStep(answer[i], i) \in Calls /\ Capability(ReadStep(answer[i], i)) \in Known
<1> DEFINE raw == answer[i]
<1>1. answer \in Seq(RawSteps) /\ Len(answer) <= Len(DefaultIds) /\ DefaultIds \in Seq(Ids)
  BY PlannersAssumption
<1>2. raw \in RawSteps
  BY <1>1
<1>3. Offered(raw) /\ \A p \in DOMAIN raw.params : raw.params[p] # Unreadable
  BY DEF Readable
<1>4. i \in 1..Len(DefaultIds)
  BY <1>1
<1>5. DefaultIds[i] \in Ids
  BY <1>1, <1>4
<1>6. raw.id \in Ids \cup {Absent} /\ raw.depends_on \in Seq(Ids)
  BY <1>2 DEF RawSteps
<1>7. raw.params \in Subsets(Params, Args)
  <2>1. raw.params \in Subsets(Params, Args \cup {Unreadable})
    BY <1>2 DEF RawSteps
  <2>2. PICK D \in SUBSET Params : raw.params \in [D -> Args \cup {Unreadable}]
    BY <2>1 DEF Subsets
  <2>3. raw.params \in [D -> Args]
    BY <1>3, <2>2
  <2> QED BY <2>3 DEF Subsets
<1>8. /\ raw.tool = Absent => raw.skill \in Names /\ <<"skill", raw.skill>> \in Known
      /\ raw.tool # Absent => raw.tool \in Names /\ <<"tool", raw.tool>> \in Known
  BY <1>2, <1>3, OfferedIsNamed
<1> HIDE DEF raw
<1>9. ReadStep(raw, i) \in Calls
  BY <1>5, <1>6, <1>7, <1>8 DEF ReadStep, Calls, Kinds
<1>10. Capability(ReadStep(raw, i)) \in Known
  BY <1>8 DEF ReadStep, Capability
<1> QED BY <1>9, <1>10 DEF raw

(* So reading one gives a plan of such calls.                              *)
LEMMA ParsePlanIsPlan ==
  ASSUME NEW n \in DOMAIN Answers, NEW answer \in Answers[n], Readable(answer)
  PROVE  /\ ParsePlan(answer) \in Seq(Calls)
         /\ \A i \in 1..Len(ParsePlan(answer)) : Capability(ParsePlan(answer)[i]) \in Known
<1>1. Len(answer) \in Nat
  BY PlannersAssumption
<1>2. \A i \in 1..Len(answer) :
        ReadStep(answer[i], i) \in Calls /\ Capability(ReadStep(answer[i], i)) \in Known
  BY ReadStepIsCall
<1>3. ParsePlan(answer) \in Seq(Calls) /\ Len(ParsePlan(answer)) = Len(answer)
  BY <1>1, <1>2 DEF ParsePlan
<1>4. \A i \in 1..Len(answer) : ParsePlan(answer)[i] = ReadStep(answer[i], i)
  BY DEF ParsePlan
<1> QED BY <1>2, <1>3, <1>4

-----------------------------------------------------------------------------
(* The invariant, in parts *)

(* What the validator establishes of a plan.                               *)
Valid ==
  /\ \A i, j \in 1..Len(steps) : steps[i].id = steps[j].id => i = j
  /\ Graph!Legal /\ \A C \in SUBSET Graph!Steps : ~Graph!Knot(C)
  /\ \A i \in 1..Len(steps) :
       Supported(steps[i]) /\ \A r \in RefsOf(steps[i]) : RefAllowed(i, r)

(* The sort of a plan is begun anew, and a plan is sorted, shaped and valid *)
(* as far as its stage says.                                               *)
Stages ==
  /\ replans \in 0..MaxReplans
  /\ stage \in {"plan", "check"} => Graph!Init
  /\ stage \in {"graph", "refs"} => WellShaped
  /\ stage = "refs" => pc = "scheduled"
  /\ stage \in {"schedule", "execute", "exhausted", "carried_out"} => Valid
  /\ stage = "schedule" => pc \notin {"illegal", "cycle"}
  /\ stage # "unscheduled"

(* What is known of a step that is done: its references still lead where    *)
(* they led, and a skill got what it asks for.                             *)
Done(k) ==
  /\ \A r \in RefsOf(Step(k)) : Resolves(r)
  /\ Invocable(Step(k))

(* The context is what the steps done so far recorded.                     *)
Progress ==
  stage \in {"execute", "exhausted", "carried_out"} =>
    /\ pc = "scheduled" /\ at \in 1..(Len(order) + 1)
    /\ DOMAIN outputs = {Step(k).id : k \in 1..(at - 1)} /\ DOMAIN madeBy = DOMAIN outputs
    /\ \A k \in 1..(at - 1) : madeBy[Step(k).id] = order[k] /\ Done(k)

IInv == InLoop /\ Graph!FirstThatCan /\ Stages /\ Progress

(* A fresh sort of a plan has its bookkeeping in order.                    *)
LEMMA FreshSort ==
  /\ Graph!Init => InLoop /\ Graph!FirstThatCan
  /\ Graph!Init' => InLoop' /\ Graph!FirstThatCan'
<1>1. Graph!Init => InLoop /\ Graph!FirstThatCan
  BY LoopInit, FirstInit
<1> QED BY <1>1, PTL

(* A plan of the planner, or the one before it.                            *)
LEMMA PlanIsPlan ==
  ASSUME Plan, replans \in 0..MaxReplans, steps \in Seq(Calls)
  PROVE  steps' \in Seq(Calls)
<1>1. replans + 1 \in DOMAIN Answers /\ replans + 1 \in DOMAIN FallbackPlans
  BY LimitsAssumption
<1>2. CASE PlanOnline(replans + 1)
  BY <1>1, <1>2, ParsePlanIsPlan DEF PlanOnline
<1>3. CASE FallBack(replans + 1)
  BY <1>1, <1>3, PlannersAssumption DEF FallBack
<1>4. CASE PlanRaises(replans + 1)
  BY <1>4 DEF PlanRaises
<1> QED BY <1>2, <1>3, <1>4 DEF Plan

(* Initially there is nothing to show.                                     *)
LEMMA IInvInit == Init => IInv
<1> SUFFICES ASSUME Init
             PROVE  IInv
  OBVIOUS
<1>1. /\ steps = <<>> /\ pc = "build" /\ indegree = <<>> /\ ready = {} /\ order = <<>>
      /\ stage = "plan" /\ replans = 0
  BY DEF Init
<1>2. steps \in Seq(Graph!Calls)
  BY <1>1
<1>3. Graph!Init
  BY <1>1, <1>2 DEF Graph!Init
<1>4. Stages
  BY <1>1, <1>3, LimitsAssumption DEF Stages
<1> QED BY <1>1, <1>3, <1>4, FreshSort DEF IInv, Progress

(* Plan: the sort is as fresh as it was.                                   *)
LEMMA IInvPlan ==
  ASSUME IInv, Plan
  PROVE  IInv'
<1>1. /\ stage = "plan" /\ stage' \in {"check", "unplanned"} /\ replans' = replans
      /\ pc' = pc /\ indegree' = indegree /\ ready' = ready /\ order' = order
  BY DEF Plan, sorting
<1>2. Graph!Init /\ replans \in 0..MaxReplans
  BY <1>1 DEF IInv, Stages
<1>3. steps' \in Seq(Graph!Calls)
  BY <1>2, PlanIsPlan, SameCalls DEF Graph!Init
<1>4. Graph!Init'
  BY <1>1, <1>2, <1>3 DEF Graph!Init
<1>5. Stages'
  BY <1>1, <1>2, <1>4 DEF Stages
<1> QED BY <1>1, <1>4, <1>5, FreshSort DEF IInv, Progress

-----------------------------------------------------------------------------
(* The validator *)

(* Whether a plan is valid depends on its steps alone.                     *)
LEMMA ValidKept ==
  ASSUME steps' = steps
  PROVE  (Valid' <=> Valid) /\ (WellShaped' <=> WellShaped)
<1>1. \A d : Graph!Named(d)' = Graph!Named(d) /\ Graph!IdToIndex(d)' = Graph!IdToIndex(d)
  BY DEF Graph!IdToIndex, Graph!Named, Graph!Steps
<1>2. \A i, r : RefAllowed(i, r)' <=> RefAllowed(i, r)
  BY <1>1 DEF RefAllowed
<1>3. Graph!Legal' <=> Graph!Legal
  BY LegalKept
<1>4. \A d : Graph!IdToIndex(d)' = Graph!IdToIndex(d)
  BY DEF Graph!IdToIndex, Graph!Named, Graph!Steps
<1>5. Graph!Steps' = Graph!Steps /\ \A i : Graph!Sources(i)' = Graph!Sources(i)
  BY <1>4 DEF Graph!Steps, Graph!Sources, Graph!Deps
<1>6. \A C : Graph!Knot(C)' <=> Graph!Knot(C)
  BY <1>5 DEF Graph!Knot
<1>7. WellShaped' <=> WellShaped
  BY DEF WellShaped
<1> QED BY <1>2, <1>3, <1>5, <1>6, <1>7 DEF Valid

(* A plan without steps has nothing that could be wrong.                   *)
LEMMA EmptyIsValid ==
  ASSUME Len(steps) = 0
  PROVE  Valid
<1>1. Graph!Steps = {}
  BY DEF Graph!Steps
<1>2. Graph!Legal /\ \A C \in SUBSET Graph!Steps : ~Graph!Knot(C)
  BY <1>1 DEF Graph!Legal, Graph!Knot
<1> QED BY <1>2 DEF Valid

(* The bookkeeping of the sort is kept where nobody sorts.                 *)
LEMMA SortKept ==
  ASSUME InLoop, Graph!FirstThatCan, UNCHANGED <<steps, sorting>>
  PROVE  InLoop' /\ Graph!FirstThatCan'
<1>1. UNCHANGED Graph!vars
  BY DEF Graph!vars, sorting
<1> QED BY <1>1, LoopStep, FirstStep

(* Check: an empty plan goes straight to the scheduler.                    *)
LEMMA IInvCheck ==
  ASSUME IInv, Check
  PROVE  IInv'
<1>1. /\ stage = "check" /\ stage' \in {"schedule", "invalid", "graph"} /\ replans' = replans
      /\ UNCHANGED <<steps, sorting>> /\ pc' = pc
      /\ stage' = "schedule" => Len(steps) = 0
      /\ stage' = "graph" => WellShaped
  BY DEF Check, sorting
<1>2. pc = "build" /\ replans \in 0..MaxReplans
  BY <1>1 DEF IInv, Stages, Graph!Init
<1>3. stage' = "schedule" => Valid'
  BY <1>1, EmptyIsValid, ValidKept
<1>4. Stages'
  BY <1>1, <1>2, <1>3, ValidKept DEF Stages
<1>5. Progress'
  BY <1>1 DEF Progress
<1> QED BY <1>1, <1>4, <1>5, SortKept DEF IInv

(* A plan refused as cyclic has a knot of steps.                           *)
LEMMA CyclesAreKnots ==
  ~(InLoop /\ pc = "cycle" /\ \A C \in SUBSET Graph!Steps : ~Graph!Knot(C))'
<1>1. ~(InLoop /\ pc = "cycle" /\ \A C \in SUBSET Graph!Steps : ~Graph!Knot(C))
  BY KnotLeftOver
<1> QED BY <1>1, PTL

(* SortStep: the sort of a valid plan ends with an order.                  *)
LEMMA IInvSortStep ==
  ASSUME IInv, SortStep
  PROVE  IInv'
<1>1. /\ stage \in {"graph", "schedule"} /\ stage' = stage /\ replans' = replans /\ Graph!Next
  BY DEF SortStep
<1>2. steps' = steps
  BY <1>1 DEF Graph!Next, Graph!Build, Graph!Pop, Graph!Finish
<1>3. InLoop' /\ Graph!FirstThatCan'
  BY <1>1, LoopStep, FirstStep DEF IInv
<1>4. stage = "schedule" => pc' \notin {"illegal", "cycle"}
  <2> SUFFICES ASSUME stage = "schedule"
               PROVE  pc' \notin {"illegal", "cycle"}
    OBVIOUS
  <2>1. Valid /\ Valid'
    BY <1>2, ValidKept DEF IInv, Stages
  <2>2. pc' # "illegal"
    BY <1>1, <2>1 DEF IInv, Stages, Valid, Graph!Next, Graph!Build, Graph!Pop, Graph!Finish
  <2>3. pc' # "cycle"
    BY <1>3, <2>1, CyclesAreKnots DEF Valid
  <2> QED BY <2>2, <2>3
<1>5. Stages'
  BY <1>1, <1>2, <1>4, ValidKept DEF IInv, Stages
<1>6. Progress'
  BY <1>1 DEF Progress
<1> QED BY <1>3, <1>5, <1>6 DEF IInv

(* GraphChecked: only a plan that was ordered goes on.                     *)
LEMMA IInvGraphChecked ==
  ASSUME IInv, GraphChecked
  PROVE  IInv'
<1>1. /\ stage = "graph" /\ stage' \in {"refs", "invalid"} /\ replans' = replans
      /\ UNCHANGED <<steps, sorting>> /\ pc' = pc
      /\ stage' = "refs" => pc = "scheduled"
  BY DEF GraphChecked, sorting
<1>2. Stages'
  BY <1>1, ValidKept DEF IInv, Stages
<1>3. Progress'
  BY <1>1 DEF Progress
<1> QED BY <1>1, <1>2, <1>3, SortKept DEF IInv

(* CheckSteps: what was shaped, sorted and looked at step by step is valid. *)
LEMMA IInvCheckSteps ==
  ASSUME IInv, CheckSteps
  PROVE  IInv'
<1>1. /\ stage = "refs" /\ stage' \in {"schedule", "invalid"} /\ replans' = replans
      /\ steps' = steps /\ Unsorted
  BY DEF CheckSteps
<1>2. InLoop /\ pc = "scheduled" /\ WellShaped /\ replans \in 0..MaxReplans
  BY <1>1 DEF IInv, Stages
<1>3. stage' = "schedule" => Valid
  <2> SUFFICES ASSUME stage' = "schedule"
               PROVE  Valid
    OBVIOUS
  <2>1. \A i \in 1..Len(steps) : Supported(steps[i]) /\ \A r \in RefsOf(steps[i]) : RefAllowed(i, r)
    BY DEF CheckSteps
  <2>2. Graph!Legal
    BY <1>2 DEF InLoop, Graph!Counted
  <2>3. Graph!TypeOK /\ Graph!OrderRespectsDependencies /\ Graph!Ordered = Graph!Steps
    BY <1>2, AllOrdered DEF InLoop, Phases
  <2>4. \A C \in SUBSET Graph!Steps : ~Graph!Knot(C)
    BY <2>3, NoKnot
  <2> QED BY <1>2, <2>1, <2>2, <2>4 DEF Valid, WellShaped
<1>4. Graph!Init'
  BY <1>1, <1>2 DEF Graph!Init, Unsorted, InLoop, Graph!TypeOK
<1>5. Stages'
  BY <1>1, <1>2, <1>3, ValidKept DEF Stages, Unsorted
<1>6. Progress'
  BY <1>1 DEF Progress
<1> QED BY <1>4, <1>5, <1>6, FreshSort DEF IInv

-----------------------------------------------------------------------------
(* The steps carried out *)

(* A step under way is a step of the plan, valid like all of them.         *)
LEMMA StepUnderWay ==
  ASSUME IInv, stage = "execute", NEW k \in 1..Len(order)
  PROVE  /\ order[k] \in 1..Len(steps)
         /\ Supported(Step(k)) /\ \A r \in RefsOf(Step(k)) : RefAllowed(order[k], r)
<1>1. order \in Seq(1..Len(steps))
  BY DEF IInv, InLoop, Graph!TypeOK, Graph!Steps
<1>2. order[k] \in 1..Len(steps)
  BY <1>1
<1> QED BY <1>2 DEF IInv, Stages, Valid, Step

(* No id is recorded twice.                                                *)
LEMMA IdIsNew ==
  ASSUME IInv, stage = "execute", at <= Len(order), NEW k \in 1..(at - 1)
  PROVE  Step(k).id # Step(at).id
<1>1. at \in 1..(Len(order) + 1) /\ Len(order) \in Nat
  BY DEF IInv, Progress, InLoop, Graph!TypeOK
<1>2. k \in 1..Len(order) /\ at \in 1..Len(order)
  BY <1>1
<1>3. order[at] \notin Graph!Before(at)
  BY <1>2 DEF IInv, InLoop, Graph!OrderRespectsDependencies
<1>4. order[k] # order[at]
  BY <1>3 DEF Graph!Before
<1>5. order[k] \in 1..Len(steps) /\ order[at] \in 1..Len(steps)
  BY <1>2, StepUnderWay
<1> QED BY <1>4, <1>5 DEF IInv, Stages, Valid, Step

(* A reference of the step under way leads to a step done before it: it is  *)
(* among its dependencies, which come first in the order.                  *)
LEMMA ReadsWhatIsDone ==
  ASSUME IInv, stage = "execute", at <= Len(order), NEW r \in RefsOf(Step(at))
  PROVE  \E k \in 1..(at - 1) : order[k] = Graph!IdToIndex(r.step_id) /\ Step(k).id = r.step_id
<1> DEFINE i == order[at]
<1>1. at \in 1..Len(order)
  BY DEF IInv, Progress, InLoop, Graph!TypeOK
<1>2. i \in 1..Len(steps) /\ RefAllowed(i, r)
  BY <1>1, StepUnderWay
<1>3. PICK j \in 1..Len(Graph!Deps(i)) : Graph!Deps(i)[j] = r.step_id
  BY <1>2 DEF RefAllowed, Graph!Deps
<1>4. Graph!IdToIndex(r.step_id) \in Graph!Sources(i)
  BY <1>3 DEF Graph!Sources
<1>5. Graph!Sources(i) \subseteq Graph!Before(at)
  BY <1>1 DEF IInv, InLoop, Graph!OrderRespectsDependencies
<1>6. PICK k \in 1..(at - 1) : order[k] = Graph!IdToIndex(r.step_id)
  BY <1>4, <1>5 DEF Graph!Before
<1>7. steps[Graph!IdToIndex(r.step_id)].id = r.step_id
  <2>1. Graph!Named(r.step_id) # {}
    BY <1>2 DEF RefAllowed
  <2>2. Graph!Named(r.step_id) \in SUBSET (1..Len(steps)) /\ Len(steps) \in Nat
    BY DEF IInv, InLoop, Graph!TypeOK, Graph!Named, Graph!Steps
  <2>3. \E m \in Graph!Named(r.step_id) : \A l \in Graph!Named(r.step_id) : l <= m
    BY <2>1, <2>2, Greatest
  <2>4. Graph!IdToIndex(r.step_id) \in Graph!Named(r.step_id)
    BY <2>3 DEF Graph!IdToIndex
  <2> QED BY <2>4 DEF Graph!Named
<1> QED BY <1>6, <1>7 DEF Step

(* A new output disturbs no step that is done.                             *)
LEMMA DoneKept ==
  ASSUME steps' = steps, order' = order, NEW k \in Nat, Done(k),
         \A d \in DOMAIN outputs : d \in DOMAIN outputs' /\ outputs'[d] = outputs[d]
  PROVE  Done(k)'
<1>1. Step(k)' = Step(k)
  BY DEF Step
<1>2. RefsOf(Step(k))' = RefsOf(Step(k)) /\ Capability(Step(k))' = Capability(Step(k))
  BY <1>1 DEF RefsOf, Capability, IsRef
<1>3. \A r \in RefsOf(Step(k)) : Resolves(r)' /\ r.step_id \in DOMAIN outputs
  BY DEF Done, Resolves
<1>4. \A p \in DOMAIN Step(k).params : Given(Step(k).params[p])' = Given(Step(k).params[p])
  <2> SUFFICES ASSUME NEW p \in DOMAIN Step(k).params
               PROVE  Given(Step(k).params[p])' = Given(Step(k).params[p])
    OBVIOUS
  <2>1. CASE IsRef(Step(k).params[p])
    <3>1. Step(k).params[p] \in RefsOf(Step(k))
      BY <2>1 DEF RefsOf
    <3> QED BY <1>1, <1>3, <2>1, <3>1 DEF Given, IsRef
  <2>2. CASE ~IsRef(Step(k).params[p])
    BY <1>1, <2>2 DEF Given, IsRef
  <2> QED BY <2>1, <2>2
<1>5. Resolved(Step(k))' = Resolved(Step(k))
  BY <1>1, <1>4 DEF Resolved
<1>6. Invocable(Step(k))' <=> Invocable(Step(k))
  BY <1>1, <1>2, <1>5 DEF Invocable, ValidParams, IsRef, Accepts
<1> QED BY <1>2, <1>3, <1>6 DEF Done

(* Scheduled: a valid plan starts with an empty context.                   *)
LEMMA IInvScheduled ==
  ASSUME IInv, Scheduled
  PROVE  IInv'
<1>1. /\ stage = "schedule" /\ pc = "scheduled" /\ stage' = "execute" /\ replans' = replans
      /\ UNCHANGED <<steps, sorting>> /\ pc' = pc /\ order' = order
      /\ at' = 1 /\ outputs' = Nothing /\ madeBy' = Nothing
  BY DEF Scheduled, FreshContext, sorting, IInv, Stages
<1>2. Stages'
  BY <1>1, ValidKept DEF IInv, Stages
<1>3. Progress'
  <2>1. Len(order) \in Nat
    BY DEF IInv, InLoop, Graph!TypeOK
  <2>2. at' \in 1..(Len(order') + 1) /\ 1..(at' - 1) = {} /\ DOMAIN outputs' = {}
    BY <1>1, <2>1 DEF Nothing
  <2> QED BY <1>1, <2>2 DEF Progress
<1> QED BY <1>1, <1>2, <1>3, SortKept DEF IInv

(* Pass: the step done found its arguments, and its output is a new one.   *)
LEMMA IInvPass ==
  ASSUME IInv, Pass
  PROVE  IInv'
<1>1. /\ stage = "execute" /\ stage' = stage /\ replans' = replans /\ at <= Len(order)
      /\ UNCHANGED <<steps, sorting>> /\ pc' = pc /\ order' = order /\ at' = at + 1
      /\ (\A r \in RefsOf(Step(at)) : Resolves(r)) /\ Invocable(Step(at))
      /\ madeBy' = Recorded(madeBy, Step(at).id, order[at])
  BY DEF Pass, sorting
<1>2. PICK output \in Outputs(Step(at)) : outputs' = Recorded(outputs, Step(at).id, output)
  BY DEF Pass
<1>3. /\ at \in 1..Len(order) /\ at \in Nat /\ Len(order) \in Nat
      /\ DOMAIN outputs = {Step(k).id : k \in 1..(at - 1)}
  BY <1>1 DEF IInv, Progress, InLoop, Graph!TypeOK
<1>4. Step(at).id \notin DOMAIN outputs
  BY <1>1, <1>3, IdIsNew
<1>5. \A k : Step(k)' = Step(k)
  BY <1>1 DEF Step
<1>6. /\ DOMAIN outputs' = DOMAIN outputs \cup {Step(at).id}
      /\ \A d \in DOMAIN outputs : d \in DOMAIN outputs' /\ outputs'[d] = outputs[d]
  BY <1>2, <1>4 DEF Recorded
<1>7. \A k : k \in 1..(at' - 1) <=> k \in 1..(at - 1) \/ k = at
  BY <1>1, <1>3
<1>8. DOMAIN outputs' = {Step(k).id : k \in 1..(at' - 1)}
  BY <1>3, <1>6, <1>7
<1>9. ASSUME NEW k \in Nat, k \in 1..(at' - 1)
      PROVE  madeBy'[Step(k).id] = order[k] /\ Done(k)'
  <2>1. CASE k \in 1..(at - 1)
    <3>1. madeBy[Step(k).id] = order[k] /\ Done(k)
      BY <1>1, <2>1 DEF IInv, Progress
    <3>2. Step(k).id \in DOMAIN madeBy /\ Step(k).id # Step(at).id
      BY <1>1, <1>3, <2>1, IdIsNew DEF IInv, Progress
    <3>3. madeBy'[Step(k).id] = order[k]
      BY <1>1, <3>1, <3>2 DEF Recorded
    <3> QED BY <1>1, <1>6, <3>1, <3>3, DoneKept DEF sorting
  <2>2. CASE k = at
    <3>1. madeBy'[Step(k).id] = order[k] /\ Done(k)
      BY <1>1, <2>2 DEF Recorded, Done
    <3> QED BY <1>1, <1>6, <3>1, DoneKept DEF sorting
  <2> QED BY <1>7, <1>9, <2>1, <2>2
<1>10. Progress'
  <2>1. at' \in 1..(Len(order') + 1)
    BY <1>1, <1>3
  <2>2. DOMAIN madeBy' = DOMAIN outputs'
    BY <1>1, <1>6 DEF IInv, Progress, Recorded
  <2>3. \A k \in 1..(at' - 1) : k \in Nat /\ madeBy'[Step(k)'.id] = order'[k] /\ Done(k)'
    BY <1>1, <1>3, <1>5, <1>9
  <2>4. pc' = "scheduled"
    BY <1>1 DEF IInv, Progress
  <2>5. DOMAIN outputs' = {Step(k)'.id : k \in 1..(at' - 1)}
    BY <1>5, <1>8
  <2> QED BY <2>1, <2>2, <2>3, <2>4, <2>5 DEF Progress
<1>11. Stages'
  BY <1>1, ValidKept DEF IInv, Stages
<1> QED BY <1>1, <1>10, <1>11, SortKept DEF IInv

(* A step that changes neither the plan nor what was done.                 *)
LEMMA IInvStay ==
  ASSUME IInv, UNCHANGED <<steps, sorting, at, outputs, madeBy, replans>>,
         stage' # stage => stage = "execute" /\ stage' \in {"exhausted", "carried_out"}
  PROVE  IInv'
<1>1. Stages'
  <2>1. Graph!Init' <=> Graph!Init
    BY DEF Graph!Init, sorting
  <2> QED BY <2>1, ValidKept DEF IInv, Stages, sorting
<1>2. \A d \in DOMAIN outputs : d \in DOMAIN outputs' /\ outputs'[d] = outputs[d]
  OBVIOUS
<1>3. \A k : Step(k)' = Step(k)
  BY DEF Step, sorting
<1>4. ASSUME stage \in {"execute", "exhausted", "carried_out"}
      PROVE  \A k \in 1..(at - 1) : Done(k)'
  <2> SUFFICES ASSUME NEW k \in 1..(at - 1)
               PROVE  Done(k)'
    OBVIOUS
  <2>1. k \in Nat /\ Done(k)
    BY <1>4 DEF IInv, Progress, InLoop, Graph!TypeOK
  <2> QED BY <1>2, <2>1, DoneKept DEF sorting
<1>5. Progress'
  BY <1>3, <1>4 DEF IInv, Progress, sorting
<1> QED BY <1>1, <1>5, SortKept DEF IInv

(* Replan: the sort is begun anew.                                         *)
LEMMA IInvReplan ==
  ASSUME IInv, Replan
  PROVE  IInv'
<1>1. /\ steps' = steps /\ Unsorted /\ stage' = "plan"
      /\ replans < MaxReplans /\ replans' = replans + 1
  BY DEF Replan
<1>2. Graph!Init'
  BY <1>1 DEF Graph!Init, Unsorted, IInv, InLoop, Graph!TypeOK
<1>3. Stages'
  BY <1>1, <1>2, LimitsAssumption DEF IInv, Stages
<1>4. Progress'
  BY <1>1 DEF Progress
<1> QED BY <1>2, <1>3, <1>4, FreshSort DEF IInv

(* The invariant is inductive.                                             *)
LEMMA IInvNext == IInv /\ [Next]_vars => IInv'
<1> SUFFICES ASSUME IInv, [Next]_vars
             PROVE  IInv'
  OBVIOUS
<1>1. CASE Plan
  BY <1>1, IInvPlan
<1>2. CASE Check
  BY <1>2, IInvCheck
<1>3. CASE SortStep
  BY <1>3, IInvSortStep
<1>4. CASE GraphChecked
  BY <1>4, IInvGraphChecked
<1>5. CASE CheckSteps
  BY <1>5, IInvCheckSteps
<1>6. CASE Scheduled
  BY <1>6, IInvScheduled
<1>7. CASE Pass
  BY <1>7, IInvPass
<1>8. CASE FailAndRetry
  <2>1. stage' = stage /\ UNCHANGED <<steps, sorting, at, outputs, madeBy, replans>>
    BY <1>8 DEF FailAndRetry
  <2> QED BY <2>1, IInvStay
<1>9. CASE Replan
  BY <1>9, IInvReplan
<1>10. CASE GiveUp
  BY <1>10, IInvStay DEF GiveUp, running
<1>11. CASE Complete
  BY <1>11, IInvStay DEF Complete, running
<1>12. CASE UNCHANGED vars
  <2>1. stage' = stage /\ UNCHANGED <<steps, sorting, at, outputs, madeBy, replans>>
    BY <1>12 DEF vars, running
  <2> QED BY <2>1, IInvStay
<1> QED
  BY <1>1, <1>2, <1>3, <1>4, <1>5, <1>6, <1>7, <1>8, <1>9, <1>10, <1>11, <1>12 DEF Next

LEMMA Invariant == Spec => []IInv
<1> QED BY IInvInit, IInvNext, PTL DEF Spec

-----------------------------------------------------------------------------
(* The promises of the sort, for both sorts of every plan of a run.         *)

(* OrderIsTheFirst: each place goes to a step that can take it, and of      *)
(* those to the first in the plan.                                          *)
THEOREM OrderIsDetermined == Spec => []OrderIsTheFirst
<1>1. IInv => OrderIsTheFirst
  BY DEF IInv, InLoop, OrderIsTheFirst, Graph!OrderIsTheFirst
<1> QED BY <1>1, Invariant, PTL

(* VerdictIsExact: a plan is scheduled whole when its graph has no cycle,   *)
(* and refused as cyclic only for a cycle in it.                           *)
THEOREM VerdictIsRight == Spec => []VerdictIsExact
<1>1. IInv => VerdictIsExact
  BY VerdictHolds DEF IInv, VerdictIsExact
<1> QED BY <1>1, Invariant, PTL

(* ValidPlansAreScheduled: the scheduler refuses no plan the validator let  *)
(* pass.                                                                   *)
THEOREM SchedulerAgrees == Spec => []ValidPlansAreScheduled
<1>1. IInv => ValidPlansAreScheduled
  BY DEF IInv, Stages, ValidPlansAreScheduled
<1> QED BY <1>1, Invariant, PTL

-----------------------------------------------------------------------------
(* What the steps are given *)

(* ReferencesReadTheirSource: the context holds what the steps done so far  *)
(* put out, and a reference leads to the output of the step it means.      *)
THEOREM ReferencesAreRight == Spec => []ReferencesReadTheirSource
<1>1. IInv => ReferencesReadTheirSource
  <2> SUFFICES ASSUME IInv, stage = "execute", at <= Len(order), NEW r \in RefsOf(Step(at))
               PROVE  r.step_id \in DOMAIN outputs /\ madeBy[r.step_id] = Graph!IdToIndex(r.step_id)
    BY DEF ReferencesReadTheirSource, IInv, Progress
  <2>1. PICK k \in 1..(at - 1) : order[k] = Graph!IdToIndex(r.step_id) /\ Step(k).id = r.step_id
    BY ReadsWhatIsDone
  <2> QED BY <2>1 DEF IInv, Progress
<1> QED BY <1>1, Invariant, PTL

(* DoneAsExpected: a step done was given what its references expect.       *)
THEOREM ExpectationsWereMet == Spec => []DoneAsExpected
<1>1. IInv => DoneAsExpected
  <2> SUFFICES ASSUME IInv, stage \in {"execute", "carried_out", "exhausted"},
                      NEW k \in 1..(at - 1), NEW r \in RefsOf(Step(k)), r.expected # None
               PROVE  r.step_id \in DOMAIN outputs /\ Resolves(r) /\ outputs[r.step_id][r.path] = r.expected
    BY DEF DoneAsExpected
  <2>1. Resolves(r)
    BY DEF IInv, Progress, Done
  <2> QED BY <2>1 DEF Resolves
<1> QED BY <1>1, Invariant, PTL

(* CallsKeepContracts: every step done was called as its capability asks.   *)
THEOREM ContractsAreKept == Spec => []CallsKeepContracts
<1>1. IInv => CallsKeepContracts
  <2> SUFFICES ASSUME IInv, NEW k \in 1..(at - 1),
                      stage \in {"execute", "carried_out", "exhausted"}
               PROVE  /\ Capability(Step(k)) \in DOMAIN Registered
                      /\ {p \in DOMAIN Registered[Capability(Step(k))] :
                            Registered[Capability(Step(k))][p].required} \subseteq DOMAIN Step(k).params
                      /\ DOMAIN Step(k).params \subseteq DOMAIN Registered[Capability(Step(k))]
                      /\ \A p \in DOMAIN Step(k).params \
                                {q \in DOMAIN Step(k).params :
                                   Step(k).kind = "tool" /\ IsRef(Step(k).params[q])} :
                           TypeOf[Given(Step(k).params[p])]
                             \in Registered[Capability(Step(k))][p].types
    BY DEF CallsKeepContracts
  <2> DEFINE step == Step(k)
             spec == Registered[Capability(step)]
  <2>1. Done(k) /\ k \in 1..Len(order)
    BY DEF IInv, Progress, InLoop, Graph!TypeOK
  <2>2. order[k] \in 1..Len(steps)
    BY <2>1 DEF IInv, InLoop, Graph!TypeOK, Graph!Steps
  <2>3. Supported(step) /\ step.kind \in {"skill", "tool"}
    <3>1. Supported(step)
      BY <2>2 DEF IInv, Stages, Valid, Step
    <3>2. Capability(step) \in Kinds \X Names
      BY <3>1, RegisteredAssumption DEF Supported
    <3> QED BY <3>1, <3>2 DEF Capability, Kinds
  <2>4. ValidParams(spec, step.params) /\ Capability(step) \in DOMAIN Registered
    BY <2>3 DEF Supported
  <2>5. step.kind = "skill" => ValidParams(spec, Resolved(step))
    BY <2>1 DEF Done, Invocable
  <2> HIDE DEF step
  <2>6. ASSUME NEW p \in DOMAIN step.params, step.kind = "skill"
        PROVE  TypeOf[Given(step.params[p])] \in spec[p].types
    <3>1. Resolved(step)[p] = [value |-> Given(step.params[p])] /\ p \in DOMAIN Resolved(step)
      BY DEF Resolved
    <3>2. ~IsRef(Resolved(step)[p]) /\ Resolved(step)[p].value = Given(step.params[p])
      BY <3>1 DEF IsRef
    <3> QED BY <2>5, <2>6, <3>1, <3>2 DEF ValidParams, Accepts
  <2>7. ASSUME NEW p \in DOMAIN step.params, ~IsRef(step.params[p])
        PROVE  TypeOf[Given(step.params[p])] \in spec[p].types
    BY <2>4, <2>7 DEF ValidParams, Accepts, Given
  <2>8. \A p \in DOMAIN spec : spec[p].required => p \in DOMAIN step.params
    BY <2>4 DEF ValidParams
  <2>9. DOMAIN step.params \subseteq DOMAIN spec
    BY <2>4 DEF ValidParams
  <2> QED BY <2>3, <2>4, <2>6, <2>7, <2>8, <2>9 DEF step
<1> QED BY <1>1, Invariant, PTL

-----------------------------------------------------------------------------
(* Who planned *)

(* Every call of the planner says of itself what is so.                    *)
LEMMA SourceOfPlan ==
  ASSUME IInv, Plan, fallback_mode \in {"allow", "strict"}
  PROVE  SourceTellsWhoPlanned'
<1>1. /\ stage = "plan" /\ replans \in 0..MaxReplans /\ replans' = replans
      /\ fallback_mode' = fallback_mode
  BY DEF Plan, IInv, Stages
<1>2. CASE PlanOnline(replans + 1) /\ stage' = "check"
  <2>1. PICK answer \in Answers[replans + 1] : Readable(answer) /\ steps' = ParsePlan(answer)
    BY <1>2 DEF PlanOnline
  <2>2. replans + 1 \in DOMAIN Answers
    BY <1>1, LimitsAssumption
  <2>3. \A i \in 1..Len(steps') : Capability(steps'[i]) \in Known
    BY <2>1, <2>2, ParsePlanIsPlan
  <2> QED BY <1>2, <2>3 DEF PlanOnline, SourceTellsWhoPlanned
<1>3. CASE FallBack(replans + 1) /\ stage' = "check"
  BY <1>1, <1>3 DEF FallBack, Diagnosed, SourceTellsWhoPlanned
<1>4. CASE PlanRaises(replans + 1) /\ stage' = "unplanned"
  BY <1>1, <1>4 DEF PlanRaises, Diagnosed, SourceTellsWhoPlanned
<1> QED BY <1>2, <1>3, <1>4 DEF Plan

(* SourceTellsWhoPlanned: what the planner says of its last call is true of *)
(* the plan in hand.                                                       *)
THEOREM SourceIsTrue == Spec => []SourceTellsWhoPlanned
<1> DEFINE Told == fallback_mode \in {"allow", "strict"} /\ SourceTellsWhoPlanned
<1>1. Init => Told
  BY DEF Init, SourceTellsWhoPlanned
<1>2. IInv /\ Told /\ [Next]_vars => Told'
  <2> SUFFICES ASSUME IInv, Told, [Next]_vars
               PROVE  SourceTellsWhoPlanned' /\ fallback_mode' = fallback_mode
    OBVIOUS
  <2>1. CASE Plan
    BY <2>1, SourceOfPlan DEF Plan
  <2>2. CASE Replan
    BY <2>2 DEF Replan, planner, SourceTellsWhoPlanned
  <2>3. CASE /\ UNCHANGED <<steps, planner, replans>>
             /\ stage' = "plan" \/ (stage \notin {"plan", "unplanned"} /\ stage' # "unplanned")
    BY <2>3 DEF planner, SourceTellsWhoPlanned
  <2>4. CASE SortStep
    <3>1. steps' = steps
      BY <2>4 DEF SortStep, Graph!Next, Graph!Build, Graph!Pop, Graph!Finish
    <3> QED BY <2>3, <2>4, <3>1 DEF SortStep
  <2>5. CASE UNCHANGED vars
    BY <2>5 DEF vars, planner, SourceTellsWhoPlanned
  <2>6. CASE Check \/ GraphChecked \/ CheckSteps \/ Scheduled
    BY <2>3, <2>6 DEF Check, GraphChecked, CheckSteps, Scheduled
  <2>7. CASE Pass \/ FailAndRetry \/ GiveUp \/ Complete
    BY <2>3, <2>7 DEF Pass, FailAndRetry, GiveUp, Complete
  <2> QED BY <2>1, <2>2, <2>4, <2>5, <2>6, <2>7 DEF Next
<1>3. Told => SourceTellsWhoPlanned
  OBVIOUS
<1> QED BY <1>1, <1>2, <1>3, Invariant, PTL DEF Spec
=============================================================================
