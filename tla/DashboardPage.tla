---------------------------- MODULE DashboardPage ----------------------------
(***************************************************************************)
(* The browser page, between a run and what it shows of it.                 *)
(*                                                                          *)
(* A process serves one run: "live", while it goes on, or "replay", from    *)
(* the artifact of a finished one.  The page asks /state and opens /events  *)
(* at the same time; the two are answered in any order, and a browser that  *)
(* loses its event stream opens it again and is told everything once more.  *)
(* History and queues hold the whole run here: EventBroadcaster shows what  *)
(* happens when they do not.  The event log is written and never read.       *)
(*                                                                          *)
(* World n is the one the n-th attempt of the run reported, world 0 the     *)
(* initial one; payloads are numbered in the order they are published.      *)
(***************************************************************************)
EXTENDS Integers, Sequences, FiniteSets

CONSTANTS
  Ids,         \* step_ids
  Plans,       \* the plans a planner may come up with
  MaxRetries,  \* max_retries
  MaxReplans,  \* max_replans
  MaxLosses,   \* bound: how often the event stream breaks off
  Absent       \* a missing or null field of a payload

ASSUME PageAssumption ==
  /\ \A p \in Plans : p \in Seq(Ids) /\ \A i, j \in 1..Len(p) : p[i] = p[j] => i = j
  /\ MaxRetries \in Nat /\ MaxReplans \in Nat /\ MaxLosses \in Nat
  /\ Absent \notin Ids

VARIABLES
  pc,          \* where run() is
  status,      \* task.status
  replans,     \* replans
  plans,       \* _RunState.plan_history
  index,       \* the step being executed
  attempt,     \* attempt in run_with_retry
  trace,       \* _RunState.trace
  events,      \* the RuntimeEvents emitted
  mode,        \* the command: demo --web or replay --web
  sent,        \* how many payloads were published
  fetch,       \* the request for /state and its answer
  connection,  \* the EventSource
  read,        \* payloads applied from this connection
  losses,      \* connections lost
  page         \* the variable `state` and the page's elements

runVars  == <<pc, status, replans, plans, index, attempt, trace, events>>
netVars  == <<fetch, connection, read, losses>>
vars == <<runVars, mode, sent, netVars, page>>

-----------------------------------------------------------------------------
(* The run, as AgentRuntime has it: what it tries and what it announces *)

Event(kind, s, r, step, n) ==
  [kind |-> kind, status |-> s, replans |-> r, step |-> step, world |-> n]

(* Lines 160-166 and 226-228, with the plan the pipeline prepared.         *)
Plan(p) ==
  /\ pc = "prepare"
  /\ plans' = Append(plans, p)
  /\ index' = 1 /\ attempt' = 0
  /\ status' = "running"
  /\ pc' = IF p = <<>> THEN "finalize" ELSE "execute"
  /\ UNCHANGED <<replans, trace, events>>

Current == plans[Len(plans)]

(* run_with_retry, one turn: a record, an event without task and replans.  *)
Try(ok) ==
  /\ pc = "execute"
  /\ trace' = Append(trace, [id |-> Current[index], ok |-> ok])
  /\ events' = Append(events, Event("step_result", Absent, 0, Len(trace) + 1, Len(trace) + 1))
  /\ IF ok
       THEN /\ attempt' = 0
            /\ IF index = Len(Current) THEN pc' = "finalize" /\ index' = index
                                       ELSE pc' = pc /\ index' = index + 1
       ELSE /\ index' = index
            /\ IF attempt < MaxRetries THEN attempt' = attempt + 1 /\ pc' = pc
                                       ELSE attempt' = attempt /\ pc' = "exhausted"
  /\ UNCHANGED <<status, replans, plans>>

(* _announce_replan, below the limit.                                      *)
Replan ==
  /\ pc = "exhausted" /\ replans < MaxReplans
  /\ replans' = replans + 1
  /\ status' = "recovering"
  /\ events' = Append(events, Event("replan", "recovering", replans + 1, 0, Len(trace)))
  /\ pc' = "prepare"
  /\ UNCHANGED <<plans, index, attempt, trace>>

(* _finalize_task, the end of the loop and _failure_report: the task ends  *)
(* and its end is announced.                                               *)
End(s) ==
  /\ \/ pc = "finalize"
     \/ pc = "prepare" /\ s = "failed"
     \/ pc = "exhausted" /\ replans = MaxReplans /\ s = "failed"
  /\ status' = s
  /\ events' = Append(events, Event("task_finished", s, replans, 0, Len(trace)))
  /\ pc' = "ended"
  /\ UNCHANGED <<replans, plans, index, attempt, trace>>

Run ==
  /\ \/ \E p \in Plans : Plan(p)
     \/ \E ok \in BOOLEAN : Try(ok)
     \/ Replan
     \/ \E s \in {"succeeded", "failed"} : End(s)
  /\ UNCHANGED <<mode, sent, netVars, page>>

-----------------------------------------------------------------------------
(* Payloads *)

(* event_to_dict: no plan, no versions, no current_step_id.                *)
LivePayload(e) ==
  [kind |-> e.kind, status |-> e.status, replans |-> e.replans, step |-> e.step,
   world |-> e.world, plan |-> Absent, versions |-> Absent]

(* Slip: the plan the run began with.                                      *)
ActivePlan_First == IF plans = <<>> THEN <<>> ELSE plans[1]

ActivePlan == IF plans = <<>> THEN <<>> ELSE Current

(* A payload of the artifact, with the plan_versions the command adds.     *)
ReplayPayload(kind, s, r, step, n) ==
  [kind |-> kind, status |-> s, replans |-> r, step |-> step, world |-> n,
   plan |-> ActivePlan, versions |-> Len(plans)]

ReplayedSteps ==
  [i \in 1..Len(trace) |->
     ReplayPayload("step_result", IF trace[i].ok THEN "running" ELSE "recovering",
                   replans, i, 0)]

(* Slip: the artifact keeps the world the run began in.                    *)
ReplayPayloads_InitialWorld ==
  <<ReplayPayload("task_started", "running", 0, 0, 0)>>
  \o ReplayedSteps
  \o <<ReplayPayload("task_finished", status, replans, 0, 0)>>

(* build_replay_payloads of build_artifact of the report.                  *)
ReplayPayloads ==
  <<ReplayPayload("task_started", "running", 0, 0, 0)>>
  \o ReplayedSteps
  \o <<ReplayPayload("task_finished", status, replans, 0, Len(trace))>>

Payload(n) == IF mode = "live" THEN LivePayload(events[n]) ELSE ReplayPayloads[n]

(* How many payloads there are to publish.                                 *)
Payloads ==
  IF mode = "live" THEN Len(events) ELSE IF pc = "ended" THEN Len(ReplayPayloads) ELSE 0

Publish ==
  /\ sent < Payloads
  /\ sent' = sent + 1
  /\ UNCHANGED <<runVars, mode, netVars, page>>

-----------------------------------------------------------------------------
(* The page *)

Init ==
  /\ pc = "prepare" /\ status = "running" /\ replans = 0
  /\ plans = <<>> /\ index = 1 /\ attempt = 0 /\ trace = <<>>
  /\ events = <<Event("task_started", "running", 0, 0, 0)>>
  /\ mode \in {"live", "replay"}
  /\ sent = 0
  /\ fetch = [at |-> "asked", snapshot |-> 0]
  /\ connection = "opening" /\ read = 0 /\ losses = 0
  /\ page = [status |-> Absent, replans |-> 0, world |-> Absent, plan |-> <<>>,
             versions |-> 0, current |-> Absent, completed |-> {}, failed |-> {}]

(* Slip: a step that passes loses its mark of failure.                     *)
Marked_OneAtATime(marks, p, ok) ==
  IF p.step = 0 THEN marks
  ELSE IF trace[p.step].ok = ok THEN marks \cup {trace[p.step].id}
                                ELSE marks \ {trace[p.step].id}

(* state.completed and state.failed: marks are made and never taken back.  *)
Marked(marks, p, ok) ==
  IF p.step # 0 /\ trace[p.step].ok = ok THEN marks \cup {trace[p.step].id} ELSE marks

(* Slip: a field is shown the first time only.                             *)
Given_Once(field, old) == IF old = Absent THEN field ELSE old

Given(field, old) == IF field = Absent THEN old ELSE field

(* apply, of payload number n.                                             *)
Apply(n) ==
  LET p == Payload(n) IN
  page' = [status    |-> Given(p.status, page.status),
              replans   |-> p.replans,
              world     |-> p.world,
              plan      |-> Given(p.plan, page.plan),
              versions  |-> Given(p.versions, page.versions),
              current   |-> IF p.step = 0 THEN page.current ELSE trace[p.step].id,
              completed |-> Marked(page.completed, p, TRUE),
              failed    |-> Marked(page.failed, p, FALSE)]

(* do_GET of /state: latest(), at some moment after the page asked.        *)
AnswerState ==
  /\ fetch.at = "asked"
  /\ fetch' = [at |-> "answered", snapshot |-> sent]
  /\ UNCHANGED <<connection, read, losses, page>>

Settled == [at |-> "settled", snapshot |-> 0]

(* The callback of fetch, whenever the browser gets to it; {} has no kind. *)
ApplyState ==
  /\ fetch.at = "answered"
  /\ fetch' = Settled
  /\ IF fetch.snapshot = 0 THEN UNCHANGED page ELSE Apply(fetch.snapshot)
  /\ UNCHANGED <<connection, read, losses>>

FetchFails ==
  /\ fetch.at \in {"asked", "answered"}
  /\ fetch' = Settled
  /\ UNCHANGED <<connection, read, losses, page>>

(* _stream_events subscribes: the connection starts with the history.      *)
Subscribe ==
  /\ connection = "opening"
  /\ connection' = "open"
  /\ UNCHANGED <<fetch, read, losses, page>>

(* es.onmessage *)
Deliver ==
  /\ connection = "open" /\ read < sent
  /\ read' = read + 1
  /\ Apply(read + 1)
  /\ UNCHANGED <<fetch, connection, losses>>

(* The browser's EventSource connects again by itself.                     *)
Lose ==
  /\ connection = "open" /\ losses < MaxLosses
  /\ connection' = "opening" /\ read' = 0 /\ losses' = losses + 1
  /\ UNCHANGED <<fetch, page>>

(* The server of a replay starts when the run has long ended.              *)
Served == mode = "live" \/ pc = "ended"

Receiving == Served /\ (Subscribe \/ Deliver) /\ UNCHANGED <<runVars, mode, sent>>

Browser ==
  \/ Receiving
  \/ /\ Served
     /\ AnswerState \/ ApplyState \/ FetchFails \/ Lose
     /\ UNCHANGED <<runVars, mode, sent>>

Next == Run \/ Publish \/ Browser

(* The run, its publisher, and the stream with the callbacks it makes go   *)
(* on.  Nothing is asked of the answer to /state.                          *)
Spec == Init /\ [][Next]_vars /\ WF_vars(Run) /\ WF_vars(Publish) /\ WF_vars(Receiving)

-----------------------------------------------------------------------------
(* Properties *)

TypeOK ==
  /\ pc \in {"prepare", "execute", "exhausted", "finalize", "ended"}
  /\ replans \in 0..MaxReplans /\ attempt \in 0..MaxRetries
  /\ sent \in 0..Payloads /\ read \in 0..sent /\ losses \in 0..MaxLosses
  /\ mode \in {"live", "replay"}
  /\ fetch \in [at : {"asked", "answered", "settled"}, snapshot : 0..sent]
  /\ connection \in {"opening", "open"}
  /\ page.replans \in 0..MaxReplans /\ page.versions \in 0..(MaxReplans + 1)
  /\ page.world \in {Absent} \cup 0..Len(trace)
  /\ page.plan \in Plans \cup {<<>>}
  /\ page.completed \cup page.failed \subseteq Ids

(* The page has been handed everything there is.                           *)
CaughtUp ==
  /\ connection = "open" /\ pc = "ended"
  /\ sent = Payloads /\ read = sent

Tried(ok) == {trace[i].id : i \in {j \in 1..Len(trace) : trace[j].ok = ok}}

(* However the answers, the stream and its repetitions mix, a page that    *)
(* was handed all marks exactly the steps that ever passed and ever        *)
(* failed, live and replayed alike.                                        *)
MarksAreTheRuns ==
  CaughtUp => page.completed = Tried(TRUE) /\ page.failed = Tried(FALSE)

(* The replay of a run that succeeded shows a plan all of whose steps are  *)
(* done, whatever plans came before it.                                    *)
DoneWhenSucceeded ==
  CaughtUp /\ mode = "replay" /\ status = "succeeded"
    => \A i \in 1..Len(page.plan) : page.plan[i] \in page.completed

(* The payload of a replay that tells event n: replan events are not told. *)
Place(n) == n - Cardinality({m \in 1..n : events[m].kind = "replan"})

(* An artifact tells the run as the events did: apart from replan events,  *)
(* the replay is the same sequence of steps, from the same beginning to    *)
(* the same end.                                                           *)
ReplayTellsTheRun ==
  pc = "ended" =>
    /\ Len(ReplayPayloads) = Place(Len(events))
    /\ \A n \in {m \in 1..Len(events) : events[m].kind # "replan"} :
         LET live == events[n] replay == ReplayPayloads[Place(n)] IN
         /\ live.kind = replay.kind /\ live.step = replay.step
         /\ live.kind # "step_result" =>
              /\ live.status = replay.status /\ live.world = replay.world
              /\ live.replans = replay.replans

(* Once /state is out of the way, a page the stream has yet to tell of the *)
(* end comes to show it: status, world and replans of the end.             *)
ShowsEnd ==
  pc = "ended" /\ page.status = status /\ page.replans = replans
               /\ page.world = Len(trace)

EndIsShown ==
  fetch.at = "settled" /\ (pc # "ended" \/ sent < Payloads \/ read < sent)
    ~> ShowsEnd

(* What the page promises in its first lines, to render world and status:  *)
(* handed everything, /state included, it shows how the run ended.         *)
HandedAllShowsEnd == CaughtUp /\ fetch.at = "settled" => ShowsEnd
=============================================================================
