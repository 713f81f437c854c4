--------------------------- MODULE TaskLifecycle ---------------------------
(***************************************************************************)
(* What the caller of AgentRuntime.run is promised about one task,          *)
(* whatever planner, skill, monitor, memory or observer is plugged in: the  *)
(* status only moves along the table of core/task.py, recovery is entered   *)
(* at most MaxReplans times, and a call ends either with one report of a    *)
(* terminal status or with an exception.                                    *)
(***************************************************************************)
EXTENDS Naturals

CONSTANT MaxReplans     \* max_replans: how often a task may be recovered

VARIABLES
  status,       \* Task.status
  recoveries,   \* how many recoveries of this task were begun
  result        \* how the call ended: "none" while it is running

vars == <<status, recoveries, result>>

Statuses == {"pending", "running", "succeeded", "failed", "recovering"}
Terminal == {"succeeded", "failed"}

(* _ALLOWED: the transitions Task.to accepts; any other raises ValueError. *)
Allowed == [s \in Statuses |->
              CASE s = "pending"    -> {"running"}
                [] s = "running"    -> {"succeeded", "failed", "recovering"}
                [] s = "recovering" -> {"running", "failed"}
                [] OTHER            -> {}]

Init == status = "pending" /\ recoveries = 0 /\ result = "none"

(* A call of run: a new Task, moved to "running" at once. *)
Begin == /\ status = "pending" \/ result # "none"
         /\ status' = "running"
         /\ recoveries' = 0
         /\ result' = "none"

(* The task moves while the call goes on. *)
Move(s) == /\ result = "none"
           /\ s \in Allowed[status]
           /\ s # "running" \/ status = "recovering"
           /\ recoveries' = recoveries + (IF s = "recovering" THEN 1 ELSE 0)
           /\ recoveries' <= MaxReplans
           /\ status' = s
           /\ UNCHANGED result

(* The call returns a report: only of a terminal task. *)
Return == /\ result = "none"
          /\ \E s \in Terminal : /\ s = status \/ s \in Allowed[status]
                                 /\ status' = s
          /\ result' = "report"
          /\ UNCHANGED recoveries

(* The call ends with an exception: the task may have been marked failed,  *)
(* or a recovery counted that was not entered any more.                    *)
Raise == /\ result = "none" /\ status # "pending"
         /\ result' = "exception"
         /\ \/ /\ status' \in {status} \cup (Allowed[status] \cap {"failed"})
               /\ UNCHANGED recoveries
            \/ /\ status = "running" /\ UNCHANGED status
               /\ recoveries' = recoveries + 1 /\ recoveries' <= MaxReplans

Next == Begin \/ (\E s \in Statuses : Move(s)) \/ Return \/ Raise

(* The promise of termination: a call that has begun ends. *)
Ends == (status # "pending") ~> (result # "none")

Safety == Init /\ [][Next]_vars
Spec   == Safety /\ Ends
=============================================================================
