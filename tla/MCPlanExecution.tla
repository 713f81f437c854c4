--------------------------- MODULE MCPlanExecution ---------------------------
(***************************************************************************)
(* The first answer of the model is one of many: steps with ids of their    *)
(* own, with one id twice, with default ids and ids that meet a default     *)
(* one; with chains, forks, joins and cycles of dependencies, references to *)
(* declared, undeclared and later steps, with values and parameters of the  *)
(* wrong kinds, blank ids and unknown names.  The planner fallen back on    *)
(* gives graphs of three and four steps, and plans no reading would yield.  *)
(* Later plans are fewer.                                                   *)
(***************************************************************************)
EXTENDS PlanExecution

(* Values are named for their types.                                       *)
MCTypeOf == [v \in {"name", "pose"} |-> v]

Any(required) == [types |-> {"name", "pose"}, required |-> required]
Name(required) == [types |-> {"name"}, required |-> required]

MCRegistered ==
  [c \in {<<"skill", "grasp">>, <<"tool", "locate">>} |->
     IF c = <<"skill", "grasp">> THEN [object |-> Name(TRUE), near |-> Any(FALSE)]
     ELSE [object |-> Name(TRUE)]]

MCKnown == {<<"skill", "grasp">>, <<"tool", "locate">>, <<"tool", "gone">>}

MCDefaultIds == <<"step_0", "step_1", "step_2", "step_3">>

Lit(v) == [value |-> v]
Ref(id, expected) == [step_id |-> id, path |-> "value", expected |-> expected]
NoPath(id) == [step_id |-> id, path |-> EmptyPath, expected |-> None]

Object(arg) == [object |-> arg]
Plain == Object(Lit("name"))

ParamsMenu ==
  {Plain, Object(Lit("pose")), [near |-> Lit("pose")], [object |-> Lit("name"), near |-> Lit("pose")],
   Object(Ref("a", None)), Object(Ref("a", "name")), Object(NoPath("a")), Object(Unreadable),
   [object |-> Ref("a", None), near |-> Ref("step_1", "pose")]}

Raw(id, kind, name, depends_on, params) ==
  [id |-> id, skill |-> IF kind \in {"skill", "both"} THEN name ELSE Absent,
   tool |-> IF kind \in {"tool", "both"} THEN name ELSE Absent,
   depends_on |-> depends_on, params |-> params]

Grasp(id, depends_on, params) == Raw(id, "skill", "grasp", depends_on, params)
Locate(id, depends_on, params) == Raw(id, "tool", "locate", depends_on, params)

ThreeSteps ==
  {<<first, second, Grasp(id, d3, p3)>> :
     id \in {"c", BlankId},
     first \in {Grasp("a", <<>>, Plain), Locate("a", <<>>, Plain), Locate("a", <<"step_1">>, Plain)},
     second \in {Raw(n, kind, IF kind = "tool" THEN "locate" ELSE "grasp", d2, p2) :
                   n \in {Absent, "a", "step_1"},
                   kind \in {"tool", "skill"}, d2 \in {<<>>, <<"a">>, <<"c">>},
                   p2 \in {Plain, Object(Ref("a", None))}},
     d3 \in {<<"a">>, <<"step_1">>, <<"a", "step_1">>}, p3 \in ParamsMenu}

OddSteps ==
  {<<Raw(id, kind, name, <<>>, Plain), Locate("step_0", <<>>, params)>> :
     id \in {Absent, "a"}, kind \in {"skill", "tool", "both", "none"},
     name \in {"grasp", "locate", "gone"}, params \in ParamsMenu}
  \cup {<<Locate("a", <<"d">>, Plain), Locate("a", <<>>, Plain), Locate("d", <<>>, Plain),
          Grasp("c", <<"a", "d">>, Object(Ref("a", None)))>>}

LaterAnswers ==
  {<<>>, <<Locate(Absent, <<>>, Plain), Grasp("c", <<"step_0">>, Object(Ref("step_0", "name")))>>,
   <<Locate("c", <<>>, Plain), Grasp("a", <<>>, Object(Ref("a", None)))>>,
   <<Locate("a", <<"c">>, Plain), Locate("c", <<"a">>, Plain)>>}

MCAnswers == <<ThreeSteps \cup OddSteps \cup LaterAnswers, LaterAnswers>>

Call(id, depends_on) ==
  [id |-> id, depends_on |-> depends_on, kind |-> "skill", name |-> "grasp", params |-> Plain]

(* Three steps that are carried out, and four that are sorted and refused.  *)
MessyDeps ==
  {<<>>, <<"a">>, <<"b">>, <<"c">>, <<"a", "a">>, <<"a", "b">>, <<"c", "a">>, <<"b", "c">>}
MessyPlans ==
  {[i \in 1..3 |-> Call(names[i], deps[i])] :
     names \in {<<"a", "b", "c">>, <<"b", "a", "b">>}, deps \in [1..3 -> MessyDeps]}

TidyNames == <<"a", "b", "c", "d">>
TidyDeps == {<<>>} \cup {<<x>> : x \in {"a", "b", "c", "d"}}
                   \cup {<<x, y>> : x \in {"a", "b", "c"}, y \in {"b", "c", "d"}}
Other(call) == [call EXCEPT !.kind = "other"]
TidyPlans ==
  {[i \in 1..4 |-> Other(Call(TidyNames[i], deps[i]))] : deps \in [1..4 -> TidyDeps]}

Diamond(last) ==
  <<Call("c", <<"a">>), Call("b", <<"a", "a">>), Call("d", <<"b", "c">>), Call("a", last)>>
LongPlan == [i \in 1..5 |-> Call(<<"a", "b", "c", "d", "step_0">>[i], <<>>)]

MCFallbackPlans ==
  <<MessyPlans \cup TidyPlans \cup {Diamond(<<>>), Diamond(<<"d">>), LongPlan, <<>>},
    {<<Call("b", <<>>)>>}>>
=============================================================================
