------------------------------ MODULE LLMPlanner ------------------------------
(***************************************************************************)
(* LLMPlanner: a language model is asked for a plan; what it answers is     *)
(* read, or the planner falls back on another one, or gives up.             *)
(*                                                                          *)
(* An answer is a list of steps, each with the fields the model chose to    *)
(* write.  A call that raises and a text without such a list are failures   *)
(* that may always happen.                                                  *)
(***************************************************************************)
EXTENDS Capabilities, Naturals

CONSTANTS
  Absent,          \* a field that is not there
  Unreadable,      \* an argument with a malformed $ref
  DefaultIds,      \* step_0, step_1, ...
  Known,           \* the skills and tools this planner was told of
  Answers,         \* what the model may answer, at the n-th call
  FallbackPlans    \* what the planner to fall back on may plan, likewise

RawSteps ==
  [id : Ids \cup {Absent}, skill : Names \cup {Absent}, tool : Names \cup {Absent},
   depends_on : Seq(Ids), params : Subsets(Params, Args \cup {Unreadable})]

ASSUME PlannersAssumption ==
  /\ \A n \in DOMAIN Answers : Answers[n] \subseteq Seq(RawSteps)
  /\ \A n \in DOMAIN FallbackPlans : FallbackPlans[n] \subseteq Seq(Calls)
  /\ \A n \in DOMAIN Answers : \A a \in Answers[n] : Len(a) <= Len(DefaultIds)
  /\ DefaultIds \in Seq(Ids)
  /\ Absent \notin Names \cup Ids
  /\ Known \subseteq Kinds \X Names

VARIABLES
  steps,             \* plan.steps of the plan it gave last
  fallback_mode,     \* _fallback_mode, "allow" or "strict"
  last_source,       \* last_source
  last_diagnostic    \* the call of plan() that last_diagnostic is about; 0 for None

-----------------------------------------------------------------------------
(* _parse_plan *)

(* Skill or tool, not both.                                                *)
Offered(raw) ==
  \/ raw.tool = Absent /\ <<"skill", raw.skill>> \in Known
  \/ raw.skill = Absent /\ <<"tool", raw.tool>> \in Known

Readable(answer) ==
  \A i \in 1..Len(answer) :
    /\ Offered(answer[i])
    /\ \A p \in DOMAIN answer[i].params : answer[i].params[p] # Unreadable

ReadStep(raw, i) ==
  [id |-> IF raw.id = Absent THEN DefaultIds[i] ELSE raw.id,
   depends_on |-> raw.depends_on,
   kind |-> IF raw.tool = Absent THEN "skill" ELSE "tool",
   name |-> IF raw.tool = Absent THEN raw.skill ELSE raw.tool,
   params |-> raw.params]

ParsePlan(answer) == [i \in 1..Len(answer) |-> ReadStep(answer[i], i)]

-----------------------------------------------------------------------------
(* plan, called for the n-th time *)

(* Slip: the diagnosis of an earlier call is left standing.                *)
PlanOnline_KeepsDiagnosis(n) ==
  /\ \E answer \in Answers[n] : Readable(answer) /\ steps' = ParsePlan(answer)
  /\ last_source' = "llm" /\ UNCHANGED last_diagnostic

PlanOnline(n) ==
  /\ \E answer \in Answers[n] : Readable(answer) /\ steps' = ParsePlan(answer)
  /\ last_source' = "llm" /\ last_diagnostic' = 0

(* The call, or the reading of its answer, raises.                         *)
Diagnosed(n) ==
  /\ last_source' = IF fallback_mode = "strict" THEN "error" ELSE "fallback"
  /\ last_diagnostic' = n

FallBack(n) ==
  fallback_mode = "allow" /\ Diagnosed(n) /\ steps' \in FallbackPlans[n]

(* In strict mode, or because the other planner raises as well.            *)
PlanRaises(n) == Diagnosed(n) /\ UNCHANGED steps
=============================================================================
