--------------------------- MODULE MCDashboardPage ---------------------------
(***************************************************************************)
(* Plans of one and of two steps that share a step id: a step may fail, be  *)
(* retried, and come again in the plan that replaces its own.               *)
(***************************************************************************)
EXTENDS DashboardPage

MCPlans == {<<"a">>, <<"a", "b">>}
=============================================================================
