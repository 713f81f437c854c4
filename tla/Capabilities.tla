----------------------------- MODULE Capabilities -----------------------------
(***************************************************************************)
(* CapabilitySpec: what a skill or a tool says of its parameters, and the   *)
(* check of a call against it.  The validator makes it before anything      *)
(* runs, when what a reference will lead to is not known yet; SkillManager  *)
(* makes it again, with the values, before a skill is carried out.          *)
(*                                                                          *)
(* Values are told apart by their type.                                     *)
(***************************************************************************)
EXTENDS Plans

CONSTANTS
  Types, TypeOf,       \* accepted_types, and the type of a value
  Registered           \* CapabilitySpec.parameters of each skill and tool there is

Specs == Subsets(Params, [types : SUBSET Types, required : BOOLEAN])

ASSUME ValuesAssumption ==
  /\ TypeOf \in [Values -> Types]
  /\ EmptyPath \notin Paths /\ None \notin Values

ASSUME RegisteredAssumption ==
  DOMAIN Registered \subseteq Kinds \X Names /\ \A c \in DOMAIN Registered : Registered[c] \in Specs

Accepts(parameter, arg) == TypeOf[arg.value] \in parameter.types

(* Slip: a parameter that is required need not be there.                   *)
ValidParams_Incomplete(spec, params) ==
  /\ DOMAIN params \subseteq DOMAIN spec
  /\ \A p \in DOMAIN params : ~IsRef(params[p]) => Accepts(spec[p], params[p])

(* validate_params; references count as dynamic_types.                     *)
ValidParams(spec, params) ==
  /\ DOMAIN params \subseteq DOMAIN spec
  /\ \A p \in DOMAIN spec : spec[p].required => p \in DOMAIN params
  /\ \A p \in DOMAIN params : ~IsRef(params[p]) => Accepts(spec[p], params[p])
=============================================================================
