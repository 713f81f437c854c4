-------------------------------- MODULE Plans --------------------------------
(***************************************************************************)
(* What a plan is made of: calls of skills and tools, each with an id, the  *)
(* ids it depends on, and its arguments.                                    *)
(*                                                                          *)
(* A skill and a tool may share a name.  An argument is a value or an       *)
(* OutputRef.                                                               *)
(***************************************************************************)
EXTENDS Sequences

CONSTANTS
  Names, Params,       \* of skills and tools, and of their parameters
  Values,              \* what may be passed
  Ids, BlankId,        \* step_ids, and a blank one
  Paths, EmptyPath,    \* OutputRef.path
  None                 \* expected is None

Kinds == {"skill", "tool"}

Subsets(S, T) == UNION {[D -> T] : D \in SUBSET S}

Refs == [step_id : Ids, path : Paths \cup {EmptyPath}, expected : Values \cup {None}]
Args == [value : Values] \cup Refs

(* A step; one of a class that is neither SkillCall nor ToolCall is "other". *)
Calls == [id : Ids, depends_on : Seq(Ids), kind : Kinds \cup {"other"}, name : Names,
          params : Subsets(Params, Args)]

IsRef(arg) == "path" \in DOMAIN arg

RefsOf(step) == {step.params[p] : p \in {q \in DOMAIN step.params : IsRef(step.params[q])}}

Capability(step) == <<step.kind, step.name>>
=============================================================================
