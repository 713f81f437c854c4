------------------------ MODULE DashboardPage_proofs ------------------------
(***************************************************************************)
(* What a page shows of a run, for any plans, limits and number of lost     *)
(* connections: its marks are those of the run, a replay of a success shows *)
(* a plan that is done, and an artifact tells what the events told.         *)
(*                                                                          *)
(* The run and the page are tied by one number: the step a payload is       *)
(* about (StepOf).  The events of a run announce every attempt (EventsTell) *)
(* in the places the replay gives them, and the page has the marks of all   *)
(* it was told on its connection and no others (PageInHand).                *)
(***************************************************************************)
EXTENDS DashboardPage, FiniteSetTheorems, SequenceTheorems, TLAPS

-----------------------------------------------------------------------------
(* Strengthening *)

Records == [id : Ids, ok : BOOLEAN]
Said == [kind : {"task_started", "step_result", "replan", "task_finished"},
         status : {"running", "recovering", "succeeded", "failed", Absent},
         replans : 0..MaxReplans, step : Nat, world : Nat]

(* The replans announced by the first n of these events.                   *)
Replanned(e, n) == {m \in 1..n : e[m].kind = "replan"}

(* The steps of this trace that ever ended this way.                       *)
Ever(t, ok) == {t[i].id : i \in {j \in 1..Len(t) : t[j].ok = ok}}

(* These events tell this trace, so far: every attempt, in its place among  *)
(* those that are not replans, between the beginning and what comes now.   *)
Tells(e, t, n) ==
  /\ e[n].kind = "task_started" =>
       /\ n = 1
       /\ e[n].status = "running" /\ e[n].replans = 0 /\ e[n].step = 0 /\ e[n].world = 0
  /\ e[n].kind = "step_result" =>
       /\ e[n].step \in 1..Len(t) /\ n - Cardinality(Replanned(e, n)) = e[n].step + 1
  /\ e[n].kind # "step_result" => e[n].step = 0
  /\ e[n].world \in 0..Len(t)

(* The last event of a run is its end.                                     *)
Closed(e, t, n, s, r, p) ==
  e[n].kind = "task_finished" =>
    /\ p = "ended" /\ n = Len(e)
    /\ e[n].status = s /\ e[n].replans = r /\ e[n].world = Len(t)

RunInHand ==
  /\ pc \in {"prepare", "execute", "exhausted", "finalize", "ended"}
  /\ replans \in 0..MaxReplans /\ attempt \in 0..MaxRetries
  /\ status \in {"running", "recovering", "succeeded", "failed"}
  /\ status \in {"succeeded", "failed"} => pc = "ended"
  /\ plans \in Seq(Plans) /\ Len(plans) <= replans + 1
  /\ pc = "prepare" => Len(plans) = replans
  /\ pc \in {"execute", "exhausted", "finalize"} => Len(plans) = replans + 1
  /\ pc = "execute" => index \in 1..Len(Current)
  /\ trace \in Seq(Records)

(* The plan in hand is carried out one step after the other.               *)
DoneSoFar ==
  /\ pc = "execute" => \A j \in 1..(index - 1) : Current[j] \in Ever(trace, TRUE)
  /\ pc = "finalize" \/ status = "succeeded" =>
       \A j \in 1..Len(ActivePlan) : ActivePlan[j] \in Ever(trace, TRUE)

EventsTell ==
  /\ events \in Seq(Said)
  /\ Len(events) = Len(trace) + replans + (IF pc = "ended" THEN 2 ELSE 1)
  /\ Cardinality(Replanned(events, Len(events))) = replans
  /\ \A n \in 1..Len(events) :
       Tells(events, trace, n) /\ Closed(events, trace, n, status, replans, pc)
  /\ \A i \in 1..Len(trace) : \E n \in 1..Len(events) : events[n].step = i

(* The attempt payload n is about, or 0.                                   *)
StepOf(m, e, t, n) ==
  IF m = "live" THEN e[n].step ELSE IF n \in 2..(Len(t) + 1) THEN n - 1 ELSE 0

(* The mark of attempt i of this trace is on this page.                    *)
HasMark(t, i, g) == IF t[i].ok THEN t[i].id \in g.completed ELSE t[i].id \in g.failed

Statuses == {"running", "recovering", "succeeded", "failed", Absent}

(* A page that was shown worlds up to number n.                            *)
Shown(n) ==
  [status : Statuses, replans : 0..MaxReplans, world : {Absent} \cup 0..n,
   plan : Plans \cup {<<>>}, versions : 0..(MaxReplans + 1),
   current : Ids \cup {Absent}, completed : SUBSET Ids, failed : SUBSET Ids]

(* No mark without its reason.                                             *)
Justified(t, g) == g.completed \subseteq Ever(t, TRUE) /\ g.failed \subseteq Ever(t, FALSE)

(* Of the payloads up to k no mark is missing.                             *)
Complete(m, e, t, k, g) ==
  \A n \in 1..k : StepOf(m, e, t, n) # 0 => HasMark(t, StepOf(m, e, t, n), g)

(* A replay shows no plan but the last.                                    *)
PlanShown(m, p, a, g) ==
  m = "replay" => g.plan \in {<<>>, a} /\ (p # "ended" => g.plan = <<>>)

NetInHand ==
  /\ mode \in {"live", "replay"}
  /\ sent \in 0..Payloads /\ read \in 0..sent /\ losses \in 0..MaxLosses
  /\ fetch \in [at : {"asked", "answered", "settled"}, snapshot : 0..sent]
  /\ connection \in {"opening", "open"}

PageInHand ==
  /\ page \in Shown(Len(trace))
  /\ Justified(trace, page)
  /\ Complete(mode, events, trace, read, page)
  /\ PlanShown(mode, pc, ActivePlan, page)

IInv == RunInHand /\ DoneSoFar /\ EventsTell /\ NetInHand /\ PageInHand

-----------------------------------------------------------------------------
(* Sequences *)

LEMMA Appended ==
  ASSUME NEW S, NEW s \in Seq(S), NEW x \in S
  PROVE  /\ Append(s, x) \in Seq(S) /\ Len(Append(s, x)) = Len(s) + 1
         /\ \A i \in 1..Len(s) : Append(s, x)[i] = s[i]
         /\ Append(s, x)[Len(s) + 1] = x
BY AppendProperties

(* A beginning, what comes between, and an end.                            *)
LEMMA Framed ==
  ASSUME NEW S, NEW a \in S, NEW b \in S, NEW s \in Seq(S)
  PROVE  /\ <<a>> \o s \o <<b>> \in Seq(S)
         /\ Len(<<a>> \o s \o <<b>>) = Len(s) + 2
         /\ (<<a>> \o s \o <<b>>)[1] = a
         /\ \A i \in 1..Len(s) : (<<a>> \o s \o <<b>>)[i + 1] = s[i]
         /\ (<<a>> \o s \o <<b>>)[Len(s) + 2] = b
<1>1. /\ <<a>> \in Seq(S) /\ Len(<<a>>) = 1 /\ <<a>>[1] = a
      /\ <<b>> \in Seq(S) /\ Len(<<b>>) = 1 /\ <<b>>[1] = b
  OBVIOUS
<1> DEFINE h == <<a>> \o s
<1>2. /\ h \in Seq(S) /\ Len(h) = Len(s) + 1 /\ h[1] = a
      /\ \A i \in 1..Len(s) : h[i + 1] = s[i]
  <2>1. /\ h \in Seq(S) /\ Len(h) = Len(<<a>>) + Len(s)
        /\ \A i \in 1..(Len(<<a>>) + Len(s)) :
             h[i] = IF i <= Len(<<a>>) THEN <<a>>[i] ELSE s[i - Len(<<a>>)]
    BY <1>1, ConcatProperties
  <2> HIDE DEF h
  <2> QED BY <1>1, <2>1
<1> HIDE DEF h
<1>3. /\ h \o <<b>> \in Seq(S) /\ Len(h \o <<b>>) = Len(h) + 1
      /\ \A i \in 1..(Len(h) + 1) :
           (h \o <<b>>)[i] = IF i <= Len(h) THEN h[i] ELSE <<b>>[i - Len(h)]
  BY <1>1, <1>2, ConcatProperties
<1>4. (h \o <<b>>)[Len(s) + 2] = b
  BY <1>1, <1>2, <1>3
<1>5. Len(h \o <<b>>) = Len(s) + 2 /\ (h \o <<b>>)[1] = a
  BY <1>2, <1>3
<1>6. \A i \in 1..Len(s) : (h \o <<b>>)[i + 1] = s[i]
  BY <1>2, <1>3
<1> QED BY <1>3, <1>4, <1>5, <1>6 DEF h

-----------------------------------------------------------------------------
(* Traces and events that grow *)

(* What ever happened, happened.                                           *)
LEMMA EverGrows ==
  ASSUME NEW t \in Seq(Records), NEW r \in Records, NEW ok \in BOOLEAN
  PROVE  /\ Ever(t, ok) \subseteq Ever(Append(t, r), ok)
         /\ r.ok = ok => r.id \in Ever(Append(t, r), ok)
<1> DEFINE u == Append(t, r)
<1>1. /\ Len(u) = Len(t) + 1 /\ u[Len(t) + 1] = r
      /\ \A i \in 1..Len(t) : u[i] = t[i]
  BY Appended
<1> HIDE DEF u
<1>2. Ever(t, ok) \subseteq Ever(u, ok)
  BY <1>1 DEF Ever
<1>3. r.ok = ok => r.id \in Ever(u, ok)
  BY <1>1 DEF Ever
<1> QED BY <1>2, <1>3 DEF u

(* Counting replans as events are appended.                                *)
LEMMA ReplansCount ==
  ASSUME NEW e \in Seq(Said), NEW x \in Said
  PROVE  /\ \A n \in 1..Len(e) : Replanned(Append(e, x), n) = Replanned(e, n)
         /\ Cardinality(Replanned(e, Len(e))) \in Nat
         /\ x.kind = "replan" =>
              Cardinality(Replanned(Append(e, x), Len(e) + 1)) =
                Cardinality(Replanned(e, Len(e))) + 1
         /\ x.kind # "replan" =>
              Cardinality(Replanned(Append(e, x), Len(e) + 1)) =
                Cardinality(Replanned(e, Len(e)))
<1> DEFINE u == Append(e, x)
           R == Replanned(e, Len(e))
<1>1. /\ u[Len(e) + 1] = x /\ \A i \in 1..Len(e) : u[i] = e[i]
  BY Appended
<1> HIDE DEF u
<1>2. \A n \in 1..Len(e) : Replanned(u, n) = Replanned(e, n)
  BY <1>1 DEF Replanned
<1>3. IsFiniteSet(R) /\ Cardinality(R) \in Nat /\ Len(e) + 1 \notin R
  <2>1. R \subseteq 1..Len(e) /\ Len(e) \in Nat
    BY DEF Replanned
  <2>2. IsFiniteSet(1..Len(e))
    BY <2>1, FS_Interval
  <2> QED BY <2>1, <2>2, FS_Subset, FS_CardinalityType
<1>4. x.kind = "replan" => Replanned(u, Len(e) + 1) = R \cup {Len(e) + 1}
  BY <1>1 DEF Replanned
<1>5. x.kind # "replan" => Replanned(u, Len(e) + 1) = R
  BY <1>1 DEF Replanned
<1> HIDE DEF R
<1>6. Cardinality(R \cup {Len(e) + 1}) = Cardinality(R) + 1
  BY <1>3, FS_AddElement
<1> QED BY <1>2, <1>3, <1>4, <1>5, <1>6 DEF u, R

(* What the events told so far they go on telling, of a trace that grew or  *)
(* did not.                                                                *)
LEMMA ToldStaysTold ==
  ASSUME NEW e \in Seq(Said), NEW x \in Said, NEW t \in Seq(Records),
         NEW u \in Seq(Records), Len(t) <= Len(u),
         NEW n \in 1..Len(e), Tells(e, t, n)
  PROVE  Tells(Append(e, x), u, n)
<1>1. Append(e, x)[n] = e[n] /\ Replanned(Append(e, x), n) = Replanned(e, n)
  BY Appended, ReplansCount
<1>2. Len(t) \in Nat /\ Len(u) \in Nat
  OBVIOUS
<1> QED BY <1>1, <1>2 DEF Tells

(* The events after one more, whatever it is.                              *)
LEMMA EventsGrow ==
  ASSUME RunInHand, EventsTell, pc # "ended",
         NEW x \in Said, x.kind # "task_started",
         events' = Append(events, x),
         trace' \in Seq(Records), replans' \in Nat,
         Len(trace') = Len(trace) + (IF x.kind = "step_result" THEN 1 ELSE 0),
         replans' = replans + (IF x.kind = "replan" THEN 1 ELSE 0),
         pc' = "ended" <=> x.kind = "task_finished",
         x.step = (IF x.kind = "step_result" THEN Len(trace') ELSE 0),
         x.world \in 0..Len(trace'),
         x.kind = "task_finished" =>
           x.status = status' /\ x.replans = replans' /\ x.world = Len(trace')
  PROVE  EventsTell'
<1>1. /\ events \in Seq(Said) /\ Len(events) \in Nat
      /\ Len(events) = Len(trace) + replans + 1
      /\ trace \in Seq(Records) /\ Len(trace) \in Nat /\ Len(trace') \in Nat
      /\ replans \in Nat /\ Len(trace) <= Len(trace')
  BY PageAssumption DEF EventsTell, RunInHand
<1>2. /\ events' \in Seq(Said) /\ Len(events') = Len(events) + 1
      /\ \A i \in 1..Len(events) : events'[i] = events[i]
      /\ events'[Len(events) + 1] = x
  BY <1>1, Appended
<1>3. Len(events') = Len(trace') + replans' + (IF pc' = "ended" THEN 2 ELSE 1)
  <2>1. CASE x.kind = "step_result"
    BY <1>1, <1>2, <2>1
  <2>2. CASE x.kind = "replan"
    BY <1>1, <1>2, <2>2
  <2>3. CASE x.kind = "task_finished"
    BY <1>1, <1>2, <2>3
  <2> QED BY <2>1, <2>2, <2>3 DEF Said
<1>4. Cardinality(Replanned(events', Len(events'))) = replans'
  <2>1. Cardinality(Replanned(events, Len(events))) = replans
    BY DEF EventsTell
  <2>2. Len(events') = Len(events) + 1
    BY <1>2
  <2>3. CASE x.kind = "replan"
    <3>1. Cardinality(Replanned(events', Len(events) + 1)) = replans + 1
      BY <1>1, <2>1, <2>3, ReplansCount
    <3>2. replans' = replans + 1
      BY <2>3
    <3> QED BY <2>2, <3>1, <3>2
  <2>4. CASE x.kind # "replan"
    <3>1. Cardinality(Replanned(events', Len(events) + 1)) = replans
      BY <1>1, <2>1, <2>4, ReplansCount
    <3>2. replans' = replans
      BY <1>1, <2>4
    <3> QED BY <2>2, <3>1, <3>2
  <2> QED BY <2>3, <2>4
<1>5. ASSUME NEW n \in 1..Len(events)
      PROVE  /\ Tells(events', trace', n)
             /\ Closed(events', trace', n, status', replans', pc')
  <2>1. /\ Tells(events, trace, n)
        /\ Closed(events, trace, n, status, replans, pc)
    BY DEF EventsTell
  <2>2. Tells(events', trace', n)
    BY <1>1, <2>1, ToldStaysTold
  <2>3. events'[n].kind # "task_finished"
    BY <1>2, <2>1 DEF Closed
  <2> QED BY <2>2, <2>3 DEF Closed
<1>6. /\ Tells(events', trace', Len(events'))
      /\ Closed(events', trace', Len(events'), status', replans', pc')
  <2>1. Closed(events', trace', Len(events'), status', replans', pc')
    BY <1>1, <1>2 DEF Closed
  <2>2. CASE x.kind = "step_result"
    <3>1. /\ x.step = Len(trace') /\ Len(trace') = Len(trace) + 1
          /\ Len(events') = Len(trace') + replans + 1
      BY <1>1, <1>2, <2>2
    <3>2. Cardinality(Replanned(events', Len(events'))) = replans
      BY <1>1, <1>4, <2>2
    <3>3. Len(events') - Cardinality(Replanned(events', Len(events'))) = x.step + 1
      BY <1>1, <3>1, <3>2
    <3> QED BY <1>1, <1>2, <2>1, <2>2, <3>1, <3>3 DEF Tells
  <2>3. CASE x.kind # "step_result"
    BY <1>1, <1>2, <2>1, <2>3 DEF Tells
  <2> QED BY <2>1, <2>2, <2>3
<1>7. ASSUME NEW i \in 1..Len(trace')
      PROVE  \E n \in 1..Len(events') : events'[n].step = i
  <2>1. CASE i \in 1..Len(trace)
    <3>1. PICK n \in 1..Len(events) : events[n].step = i
      BY <2>1 DEF EventsTell
    <3> QED BY <1>1, <1>2, <3>1
  <2>2. CASE i \notin 1..Len(trace)
    <3>1. x.step = i
      BY <1>1, <2>2
    <3> QED BY <1>1, <1>2, <3>1
  <2> QED BY <2>1, <2>2
<1>8. \A n \in 1..Len(events') : n \in 1..Len(events) \/ n = Len(events')
  BY <1>1, <1>2
<1>9. \A n \in 1..Len(events') :
        /\ Tells(events', trace', n)
        /\ Closed(events', trace', n, status', replans', pc')
  BY <1>5, <1>6, <1>8
<1> QED BY <1>2, <1>3, <1>4, <1>7, <1>9 DEF EventsTell

-----------------------------------------------------------------------------
(* Payloads *)

Told ==
  [kind : {"task_started", "step_result", "replan", "task_finished"},
   status : Statuses, replans : 0..MaxReplans, step : Nat, world : Nat,
   plan : Plans \cup {<<>>, Absent}, versions : (0..(MaxReplans + 1)) \cup {Absent}]

(* What build_replay_payloads makes of a report.                           *)
LEMMA ReplayIs ==
  RunInHand =>
    /\ ActivePlan \in Plans \cup {<<>>}
    /\ ReplayPayloads \in Seq(Told)
    /\ Len(ReplayPayloads) = Len(trace) + 2
    /\ ReplayPayloads[1] = ReplayPayload("task_started", "running", 0, 0, 0)
    /\ \A i \in 1..Len(trace) :
         ReplayPayloads[i + 1] =
           ReplayPayload("step_result", IF trace[i].ok THEN "running" ELSE "recovering",
                         replans, i, 0)
    /\ ReplayPayloads[Len(trace) + 2] =
         ReplayPayload("task_finished", status, replans, 0, Len(trace))
<1> SUFFICES ASSUME RunInHand
             PROVE  /\ ActivePlan \in Plans \cup {<<>>}
                    /\ ReplayPayloads \in Seq(Told)
                    /\ Len(ReplayPayloads) = Len(trace) + 2
                    /\ ReplayPayloads[1] = ReplayPayload("task_started", "running", 0, 0, 0)
                    /\ \A i \in 1..Len(trace) :
                         ReplayPayloads[i + 1] =
                           ReplayPayload("step_result",
                                         IF trace[i].ok THEN "running" ELSE "recovering",
                                         replans, i, 0)
                    /\ ReplayPayloads[Len(trace) + 2] =
                         ReplayPayload("task_finished", status, replans, 0, Len(trace))
  OBVIOUS
<1>1. /\ trace \in Seq(Records) /\ Len(trace) \in Nat
      /\ status \in Statuses
      /\ replans \in 0..MaxReplans /\ replans \in Nat
      /\ plans \in Seq(Plans) /\ Len(plans) <= replans + 1
  BY PageAssumption DEF RunInHand, Statuses
<1>2. Len(plans) \in 0..(MaxReplans + 1)
  BY <1>1, PageAssumption
<1>3. ActivePlan \in Plans \cup {<<>>}
  <2>1. CASE plans = <<>>
    BY <2>1 DEF ActivePlan
  <2>2. CASE plans # <<>>
    <3>1. Len(plans) \in 1..Len(plans)
      BY <1>1, <2>2, EmptySeq
    <3> QED BY <1>1, <2>2, <3>1, ElementOfSeq DEF ActivePlan, Current
  <2> QED BY <2>1, <2>2
<1>4. ASSUME NEW k \in {"task_started", "step_result", "task_finished"},
             NEW s \in Statuses, NEW r \in 0..MaxReplans, NEW i \in Nat, NEW w \in Nat
      PROVE  ReplayPayload(k, s, r, i, w) \in Told
  BY <1>2, <1>3 DEF ReplayPayload, Told
<1>5. /\ ReplayPayload("task_started", "running", 0, 0, 0) \in Told
      /\ ReplayPayload("task_finished", status, replans, 0, Len(trace)) \in Told
  <2>1. "running" \in Statuses /\ 0 \in 0..MaxReplans
    BY PageAssumption DEF Statuses
  <2> QED BY <1>1, <1>4, <2>1
<1>6. /\ ReplayedSteps \in Seq(Told) /\ Len(ReplayedSteps) = Len(trace)
      /\ \A i \in 1..Len(trace) :
           ReplayedSteps[i] =
             ReplayPayload("step_result", IF trace[i].ok THEN "running" ELSE "recovering",
                           replans, i, 0)
  <2>1. ASSUME NEW i \in 1..Len(trace)
        PROVE  ReplayPayload("step_result", IF trace[i].ok THEN "running" ELSE "recovering",
                             replans, i, 0) \in Told
    <3>1. (IF trace[i].ok THEN "running" ELSE "recovering") \in Statuses
      BY DEF Statuses
    <3> QED BY <1>1, <1>4, <3>1
  <2>2. ReplayedSteps \in [1..Len(trace) -> Told]
    BY <2>1 DEF ReplayedSteps
  <2>3. \A i \in 1..Len(trace) :
           ReplayedSteps[i] =
             ReplayPayload("step_result", IF trace[i].ok THEN "running" ELSE "recovering",
                           replans, i, 0)
    BY DEF ReplayedSteps
  <2>4. ReplayedSteps \in Seq(Told) /\ Len(ReplayedSteps) = Len(trace)
    BY <1>1, <2>2, LenProperties
  <2> QED BY <2>3, <2>4
<1>7. /\ ReplayPayloads \in Seq(Told)
      /\ Len(ReplayPayloads) = Len(ReplayedSteps) + 2
      /\ ReplayPayloads[1] = ReplayPayload("task_started", "running", 0, 0, 0)
      /\ \A i \in 1..Len(ReplayedSteps) : ReplayPayloads[i + 1] = ReplayedSteps[i]
      /\ ReplayPayloads[Len(ReplayedSteps) + 2] =
           ReplayPayload("task_finished", status, replans, 0, Len(trace))
  <2> DEFINE a == ReplayPayload("task_started", "running", 0, 0, 0)
             b == ReplayPayload("task_finished", status, replans, 0, Len(trace))
  <2>1. ReplayPayloads = <<a>> \o ReplayedSteps \o <<b>>
    BY DEF ReplayPayloads
  <2>2. a \in Told /\ b \in Told /\ ReplayedSteps \in Seq(Told)
    BY <1>5, <1>6
  <2> HIDE DEF a, b
  <2> DEFINE r == <<a>> \o ReplayedSteps \o <<b>>
  <2>3. /\ r \in Seq(Told) /\ Len(r) = Len(ReplayedSteps) + 2 /\ r[1] = a
        /\ \A i \in 1..Len(ReplayedSteps) : r[i + 1] = ReplayedSteps[i]
        /\ r[Len(ReplayedSteps) + 2] = b
    BY <2>2, Framed
  <2> HIDE DEF r
  <2> QED BY <2>1, <2>3 DEF a, b, r
<1> QED BY <1>3, <1>6, <1>7, Zenon

LEMMA ReplayLength == RunInHand => Len(ReplayPayloads) = Len(trace) + 2
BY ReplayIs

(* Any payload there is, live or replayed.                                 *)
LEMMA PayloadIs ==
  ASSUME RunInHand, EventsTell, mode \in {"live", "replay"}, NEW n \in 1..Payloads
  PROVE  /\ Payload(n) \in Told
         /\ Payload(n).step = StepOf(mode, events, trace, n)
         /\ Payload(n).step \in 0..Len(trace)
         /\ Payload(n).world \in 0..Len(trace)
         /\ mode = "replay" => pc = "ended" /\ Payload(n).plan = ActivePlan
<1>1. /\ trace \in Seq(Records) /\ Len(trace) \in Nat
      /\ events \in Seq(Said) /\ Len(events) \in Nat
  BY DEF RunInHand, EventsTell
<1>2. CASE mode = "live"
  <2>1. n \in 1..Len(events) /\ Payload(n) = LivePayload(events[n])
    BY <1>2 DEF Payloads, Payload
  <2>2. events[n] \in Said /\ Tells(events, trace, n)
    BY <2>1, <1>1, ElementOfSeq DEF EventsTell
  <2>3. events[n].step \in 0..Len(trace) /\ events[n].world \in 0..Len(trace)
    BY <1>1, <2>2 DEF Tells
  <2>4. LivePayload(events[n]) \in Told
    BY <2>2 DEF LivePayload, Told, Said, Statuses
  <2> QED BY <1>2, <2>1, <2>3, <2>4 DEF LivePayload, StepOf
<1>3. CASE mode = "replay"
  <2>1. pc = "ended"
    BY <1>3 DEF Payloads
  <2>2. n \in 1..(Len(trace) + 2) /\ Payload(n) = ReplayPayloads[n]
    BY <1>3, <2>1, ReplayIs DEF Payloads, Payload
  <2>3. Payload(n) \in Told
    BY <1>1, <2>2, ReplayIs, ElementOfSeq
  <2>4. CASE n = 1
    BY <1>1, <1>3, <2>1, <2>2, <2>3, <2>4, ReplayIs DEF ReplayPayload, StepOf
  <2>5. CASE n \in 2..(Len(trace) + 1)
    <3>1. n - 1 \in 1..Len(trace) /\ n = (n - 1) + 1
      BY <1>1, <2>5
    <3>2. Payload(n) =
            ReplayPayload("step_result", IF trace[n - 1].ok THEN "running" ELSE "recovering",
                          replans, n - 1, 0)
      BY <2>2, <3>1, ReplayIs
    <3>3. Payload(n).step = n - 1 /\ Payload(n).world = 0 /\ Payload(n).plan = ActivePlan
      BY <3>2 DEF ReplayPayload
    <3> QED BY <1>1, <1>3, <2>1, <2>3, <2>5, <3>1, <3>3 DEF StepOf
  <2>6. CASE n = Len(trace) + 2
    <3>1. Payload(n) = ReplayPayload("task_finished", status, replans, 0, Len(trace))
      BY <2>2, <2>6, ReplayIs
    <3>2. Payload(n).step = 0 /\ Payload(n).world = Len(trace) /\ Payload(n).plan = ActivePlan
      BY <3>1 DEF ReplayPayload
    <3> QED BY <1>1, <1>3, <2>1, <2>3, <2>6, <3>2 DEF StepOf
  <2> QED BY <1>1, <2>2, <2>4, <2>5, <2>6
<1> QED BY <1>2, <1>3

-----------------------------------------------------------------------------
(* Every state *)

LEMMA InitIInv == Init => IInv
<1> SUFFICES ASSUME Init PROVE IInv
  OBVIOUS
<1> DEFINE e == Event("task_started", "running", 0, 0, 0)
<1>1. /\ pc = "prepare" /\ status = "running" /\ replans = 0 /\ attempt = 0
      /\ plans = <<>> /\ trace = <<>> /\ events = <<e>>
      /\ Len(plans) = 0 /\ Len(trace) = 0 /\ Len(events) = 1 /\ events[1] = e
      /\ plans \in Seq(Plans) /\ trace \in Seq(Records)
  BY DEF Init
<1>2. RunInHand
  BY <1>1, PageAssumption DEF RunInHand
<1>3. DoneSoFar
  BY <1>1 DEF DoneSoFar
<1>4. EventsTell
  <2>1. e \in Said /\ e.kind = "task_started" /\ e.step = 0
    BY PageAssumption DEF Event, Said
  <2>2. Replanned(events, 1) = {}
    BY <1>1, <2>1 DEF Replanned
  <2>3. Cardinality(Replanned(events, Len(events))) = replans
    BY <1>1, <2>2, FS_EmptySet
  <2>4. Tells(events, trace, 1) /\ Closed(events, trace, 1, status, replans, pc)
    BY <1>1 DEF Tells, Closed, Event
  <2>5. events \in Seq(Said)
    BY <1>1, <2>1
  <2> HIDE DEF e
  <2> QED BY <1>1, <2>3, <2>4, <2>5 DEF EventsTell
<1>5. NetInHand
  <2>1. mode \in {"live", "replay"} /\ sent = 0 /\ read = 0 /\ losses = 0
    BY DEF Init
  <2>2. 0 \in 0..Payloads
    BY <1>1, <2>1 DEF Payloads
  <2>3. fetch = [at |-> "asked", snapshot |-> 0] /\ connection = "opening"
    BY DEF Init
  <2> QED BY <2>1, <2>2, <2>3, PageAssumption DEF NetInHand
<1>6. PageInHand
  <2>1. /\ page = [status |-> Absent, replans |-> 0, world |-> Absent, plan |-> <<>>,
                   versions |-> 0, current |-> Absent, completed |-> {}, failed |-> {}]
        /\ read = 0
    BY DEF Init
  <2>2. page \in Shown(Len(trace))
    BY <2>1, PageAssumption DEF Shown, Statuses
  <2> QED BY <2>1, <2>2 DEF PageInHand, Justified, Complete, PlanShown
<1> QED BY <1>2, <1>3, <1>4, <1>5, <1>6 DEF IInv

(* A page that is told nothing while the run goes on.                      *)
LEMMA PageAside ==
  ASSUME IInv, pc # "ended", RunInHand',
         trace' = trace \/ \E r \in Records : trace' = Append(trace, r),
         events' = events \/ \E x \in Said : events' = Append(events, x),
         UNCHANGED <<mode, sent, netVars, page>>
  PROVE  NetInHand' /\ PageInHand'
<1>1. /\ trace \in Seq(Records) /\ Len(trace) \in Nat
      /\ trace' \in Seq(Records) /\ Len(trace') \in Nat
      /\ events \in Seq(Said) /\ Len(events) \in Nat
  BY DEF IInv, RunInHand, EventsTell
<1>2. /\ Len(trace) <= Len(trace')
      /\ \A i \in 1..Len(trace) : trace'[i] = trace[i]
      /\ \A ok \in BOOLEAN : Ever(trace, ok) \subseteq Ever(trace', ok)
  <2>1. CASE trace' = trace
    BY <1>1, <2>1
  <2>2. ASSUME NEW r \in Records, trace' = Append(trace, r)
        PROVE  /\ Len(trace) <= Len(trace')
               /\ \A i \in 1..Len(trace) : trace'[i] = trace[i]
               /\ \A ok \in BOOLEAN : Ever(trace, ok) \subseteq Ever(trace', ok)
    <3>1. \A ok \in BOOLEAN : Ever(trace, ok) \subseteq Ever(trace', ok)
      BY <1>1, <2>2, EverGrows
    <3>2. /\ Len(trace') = Len(trace) + 1
          /\ \A i \in 1..Len(trace) : trace'[i] = trace[i]
      BY <1>1, <2>2, Appended
    <3> QED BY <1>1, <3>1, <3>2
  <2> QED BY <2>1, <2>2
<1>3. /\ Len(events') \in Nat /\ Len(events) <= Len(events')
      /\ \A i \in 1..Len(events) : events'[i] = events[i]
  BY <1>1, Appended
<1>4. mode = "replay" => sent = 0 /\ read = 0
  BY DEF IInv, NetInHand, Payloads
<1>5. /\ mode \in {"live", "replay"}
      /\ mode = "live" => sent \in 0..Len(events)
      /\ read \in 0..sent
  BY DEF IInv, NetInHand, Payloads
<1>6. NetInHand'
  <2>1. CASE mode = "live"
    <3>1. Payloads' = Len(events')
      BY <2>1 DEF Payloads
    <3>2. sent' \in 0..Payloads'
      BY <1>1, <1>3, <1>5, <2>1, <3>1
    <3> QED BY <3>2 DEF NetInHand, IInv, netVars
  <2>2. CASE mode = "replay"
    <3>1. Len(ReplayPayloads)' = Len(trace') + 2
      <4>1. (RunInHand)' => (Len(ReplayPayloads) = Len(trace) + 2)'
        BY ReplayLength, PTL
      <4> QED BY <4>1
    <3>2. Payloads' \in Nat
      BY <1>1, <2>2, <3>1 DEF Payloads
    <3>3. sent' \in 0..Payloads'
      BY <1>4, <2>2, <3>2
    <3> QED BY <3>3 DEF NetInHand, IInv, netVars
  <2> QED BY <1>5, <2>1, <2>2
<1>7. PageInHand'
  <2>1. page' = page /\ page \in Shown(Len(trace)) /\ Justified(trace, page)
    BY DEF IInv, PageInHand
  <2>2. page' \in Shown(Len(trace'))
    BY <1>1, <1>2, <2>1 DEF Shown
  <2>3. Justified(trace', page')
    BY <1>2, <2>1 DEF Justified
  <2>4. ASSUME NEW n \in 1..read, StepOf(mode, events', trace', n) # 0
        PROVE  HasMark(trace', StepOf(mode, events', trace', n), page)
    <3>1. mode = "live" /\ n \in 1..Len(events)
      BY <1>1, <1>4, <1>5
    <3>2. /\ StepOf(mode, events', trace', n) = events[n].step
          /\ StepOf(mode, events, trace, n) = events[n].step
      BY <1>3, <3>1 DEF StepOf
    <3>3. HasMark(trace, events[n].step, page)
      BY <2>4, <3>2 DEF IInv, PageInHand, Complete
    <3>4. events[n].step \in 1..Len(trace)
      BY <2>4, <3>1, <3>2 DEF IInv, EventsTell, Tells
    <3> QED BY <1>2, <3>2, <3>3, <3>4 DEF HasMark
  <2>5. Complete(mode', events', trace', read', page')
    BY <2>4 DEF Complete, netVars
  <2>6. PlanShown(mode', pc', ActivePlan', page')
    BY DEF IInv, PageInHand, PlanShown
  <2> QED BY <2>2, <2>3, <2>5, <2>6 DEF PageInHand
<1> QED BY <1>6, <1>7

LEMMA PlanStep ==
  ASSUME IInv, NEW p \in Plans, Plan(p), UNCHANGED <<mode, sent, netVars, page>>
  PROVE  IInv'
<1>1. /\ pc = "prepare" /\ plans' = Append(plans, p)
      /\ index' = 1 /\ attempt' = 0 /\ status' = "running"
      /\ pc' = (IF p = <<>> THEN "finalize" ELSE "execute")
      /\ replans' = replans /\ trace' = trace /\ events' = events
  BY DEF Plan
<1>2. /\ plans \in Seq(Plans) /\ Len(plans) = replans
      /\ replans \in Nat /\ replans \in 0..MaxReplans /\ trace \in Seq(Records)
  BY <1>1, PageAssumption DEF IInv, RunInHand
<1>3. /\ plans' \in Seq(Plans) /\ Len(plans') = replans + 1
      /\ Current' = p
  <2>1. /\ plans' \in Seq(Plans) /\ Len(plans') = Len(plans) + 1
        /\ plans'[Len(plans) + 1] = p
    BY <1>1, <1>2, Appended
  <2> QED BY <1>2, <2>1 DEF Current
<1>4. p \in Seq(Ids) /\ Len(p) \in Nat /\ (p # <<>> => 1 \in 1..Len(p))
  BY PageAssumption, EmptySeq
<1>5. RunInHand'
  BY <1>1, <1>2, <1>3, <1>4, PageAssumption DEF RunInHand
<1>6. DoneSoFar'
  <2>1. plans' # <<>> /\ ActivePlan' = p
    BY <1>2, <1>3 DEF ActivePlan
  <2>2. pc' = "finalize" => 1..Len(p) = {}
    BY <1>1
  <2>3. status' # "succeeded" /\ 1..(index' - 1) = {}
    BY <1>1
  <2> QED BY <2>1, <2>2, <2>3 DEF DoneSoFar
<1>7. EventsTell'
  <2>1. \A n \in 1..Len(events) :
          Tells(events, trace, n) /\ Closed(events, trace, n, status, replans, pc)
    BY DEF IInv, EventsTell
  <2>2. pc' # "ended" /\ \A n \in 1..Len(events) : events[n].kind # "task_finished"
    BY <1>1, <2>1 DEF Closed
  <2>3. \A n \in 1..Len(events') :
          Tells(events', trace', n) /\ Closed(events', trace', n, status', replans', pc')
    BY <1>1, <2>1, <2>2 DEF Closed
  <2> QED BY <1>1, <2>2, <2>3 DEF IInv, EventsTell
<1>8. NetInHand' /\ PageInHand'
  BY <1>1, <1>5, PageAside
<1> QED BY <1>5, <1>6, <1>7, <1>8 DEF IInv

(* The step that passes is one more of the plan that is done.              *)
LEMMA TryStep ==
  ASSUME IInv, NEW ok \in BOOLEAN, Try(ok), UNCHANGED <<mode, sent, netVars, page>>
  PROVE  IInv'
<1> DEFINE r == [id |-> Current[index], ok |-> ok]
           x == Event("step_result", Absent, 0, Len(trace) + 1, Len(trace) + 1)
<1>1. /\ pc = "execute" /\ trace' = Append(trace, r) /\ events' = Append(events, x)
      /\ status' = status /\ replans' = replans /\ plans' = plans
      /\ pc' \in {"execute", "finalize", "exhausted"}
  BY DEF Try
<1>2. /\ plans \in Seq(Plans) /\ Len(plans) > 0 /\ Len(plans) \in Nat
      /\ Len(plans) = replans + 1
      /\ replans \in Nat /\ replans \in 0..MaxReplans
      /\ trace \in Seq(Records) /\ Len(trace) \in Nat
      /\ index \in 1..Len(Current) /\ attempt \in 0..MaxRetries
      /\ status \in {"running", "recovering"}
  BY <1>1, PageAssumption DEF IInv, RunInHand
<1>3. Current \in Plans /\ Current \in Seq(Ids) /\ Len(Current) \in Nat
  <2>1. Current \in Plans
    BY <1>2, ElementOfSeq DEF Current
  <2> QED BY <2>1, PageAssumption
<1>4. r \in Records /\ x \in Said
  <2>1. Current[index] \in Ids
    BY <1>2, <1>3, ElementOfSeq
  <2>2. r \in Records
    BY <2>1 DEF Records
  <2>3. x \in Said
    BY <1>2, PageAssumption DEF Event, Said
  <2> QED BY <2>2, <2>3
<1>5. /\ trace' \in Seq(Records) /\ Len(trace') = Len(trace) + 1
      /\ Ever(trace, TRUE) \subseteq Ever(trace', TRUE)
      /\ ok = TRUE => Current[index] \in Ever(trace', TRUE)
  <2>1. trace' \in Seq(Records) /\ Len(trace') = Len(trace) + 1
    BY <1>1, <1>2, <1>4, Appended
  <2>2. r.id = Current[index] /\ r.ok = ok
    OBVIOUS
  <2> HIDE DEF r
  <2>3. /\ Ever(trace, TRUE) \subseteq Ever(trace', TRUE)
        /\ r.ok = TRUE => r.id \in Ever(trace', TRUE)
    BY <1>1, <1>2, <1>4, EverGrows
  <2> QED BY <2>1, <2>2, <2>3
<1>6. Current' = Current /\ ActivePlan' = Current
  <2>1. plans # <<>>
    BY <1>2
  <2> QED BY <1>1, <2>1 DEF Current, ActivePlan
<1>7. /\ ok = TRUE /\ index = Len(Current) => pc' = "finalize" /\ index' = index /\ attempt' = 0
      /\ ok = TRUE /\ index # Len(Current) => pc' = "execute" /\ index' = index + 1 /\ attempt' = 0
      /\ ok = FALSE => index' = index /\ pc' \in {"execute", "exhausted"}
      /\ ok = FALSE => attempt' \in {attempt, attempt + 1} /\ (attempt' # attempt => attempt < MaxRetries)
  <2>1. CASE ok = TRUE
    BY <2>1 DEF Try
  <2>2. CASE ok = FALSE
    BY <2>2 DEF Try
  <2> QED BY <2>1, <2>2
<1>8. RunInHand'
  <2>1. attempt' \in 0..MaxRetries
    BY <1>2, <1>7, PageAssumption
  <2>2. pc' = "execute" => index' \in 1..Len(Current')
    BY <1>2, <1>3, <1>6, <1>7
  <2> QED BY <1>1, <1>2, <1>5, <2>1, <2>2 DEF RunInHand
<1>9. DoneSoFar'
  <2>0. \A j \in 1..(index - 1) : Current[j] \in Ever(trace, TRUE)
    BY <1>1 DEF IInv, DoneSoFar
  <2>1. \A j \in 1..(index - 1) : Current[j] \in Ever(trace', TRUE)
    BY <1>5, <2>0
  <2>2. ok = TRUE => \A j \in 1..index : Current[j] \in Ever(trace', TRUE)
    <3>1. \A j \in 1..index : j \in 1..(index - 1) \/ j = index
      BY <1>2, <1>3
    <3> QED BY <1>5, <2>1, <3>1
  <2>3. pc' = "execute" => \A j \in 1..(index' - 1) : Current'[j] \in Ever(trace', TRUE)
    <3>1. CASE ok = TRUE
      <4>1. pc' = "execute" => index' - 1 = index
        BY <1>2, <1>3, <1>7, <3>1
      <4> QED BY <1>6, <2>2, <3>1, <4>1
    <3>2. CASE ok = FALSE
      <4>1. index' = index
        BY <1>7, <3>2
      <4> QED BY <1>6, <2>1, <4>1
    <3> QED BY <3>1, <3>2
  <2>4. pc' = "finalize" => \A j \in 1..Len(Current) : Current[j] \in Ever(trace', TRUE)
    BY <1>2, <1>3, <1>7, <2>2
  <2>5. status' # "succeeded"
    BY <1>1, <1>2
  <2> QED BY <1>6, <2>3, <2>4, <2>5 DEF DoneSoFar
<1>10. EventsTell'
  <2>1. /\ x.kind = "step_result" /\ x.step = Len(trace') /\ x.world \in 0..Len(trace')
    BY <1>2, <1>5 DEF Event
  <2>2. pc # "ended" /\ pc' # "ended" /\ replans' = replans + 0
    BY <1>1, <1>2
  <2> HIDE DEF x
  <2>3. /\ x.kind # "task_started" /\ x.kind # "replan" /\ x.kind # "task_finished"
    BY <2>1
  <2> QED BY <1>1, <1>2, <1>4, <1>5, <2>1, <2>2, <2>3, EventsGrow DEF IInv
<1>11. NetInHand' /\ PageInHand'
  BY <1>1, <1>4, <1>8, PageAside
<1> QED BY <1>8, <1>9, <1>10, <1>11 DEF IInv

LEMMA ReplanStep ==
  ASSUME IInv, Replan, UNCHANGED <<mode, sent, netVars, page>>
  PROVE  IInv'
<1> DEFINE x == Event("replan", "recovering", replans + 1, 0, Len(trace))
<1>1. /\ pc = "exhausted" /\ replans < MaxReplans /\ replans' = replans + 1
      /\ status' = "recovering" /\ events' = Append(events, x) /\ pc' = "prepare"
      /\ plans' = plans /\ index' = index /\ attempt' = attempt /\ trace' = trace
  BY DEF Replan
<1>2. /\ replans \in Nat /\ trace \in Seq(Records) /\ Len(trace) \in Nat
  BY PageAssumption DEF IInv, RunInHand
<1>3. RunInHand'
  <2>1. Len(plans) = replans + 1
    BY <1>1, <1>2, PageAssumption DEF IInv, RunInHand
  <2> QED BY <1>1, <1>2, <2>1, PageAssumption DEF IInv, RunInHand
<1>4. DoneSoFar'
  BY <1>1 DEF DoneSoFar
<1>5. x \in Said
  BY <1>1, <1>2, PageAssumption DEF Event, Said
<1>6. EventsTell'
  <2>1. x.kind = "replan" /\ x.step = 0 /\ x.world \in 0..Len(trace')
    BY <1>1, <1>2 DEF Event
  <2> HIDE DEF x
  <2>2. x.kind # "task_started" /\ x.kind # "step_result" /\ x.kind # "task_finished"
    BY <2>1
  <2>3. /\ pc # "ended" /\ pc' # "ended"
        /\ Len(trace') = Len(trace) + (IF x.kind = "step_result" THEN 1 ELSE 0)
        /\ replans' = replans + (IF x.kind = "replan" THEN 1 ELSE 0)
        /\ x.step = (IF x.kind = "step_result" THEN Len(trace') ELSE 0)
        /\ replans' \in Nat /\ trace' \in Seq(Records)
        /\ events' = Append(events, x)
    BY <1>1, <1>2, <2>1
  <2>4. RunInHand /\ EventsTell
    BY DEF IInv
  <2> QED BY <1>5, <2>1, <2>2, <2>3, <2>4, EventsGrow
<1>7. NetInHand' /\ PageInHand'
  BY <1>1, <1>3, <1>5, PageAside
<1> QED BY <1>3, <1>4, <1>6, <1>7 DEF IInv

(* A run ends well only from where its plan is done.                       *)
LEMMA EndStep ==
  ASSUME IInv, NEW s \in {"succeeded", "failed"}, End(s),
         UNCHANGED <<mode, sent, netVars, page>>
  PROVE  IInv'
<1> DEFINE x == Event("task_finished", s, replans, 0, Len(trace))
<1>1. /\ pc \in {"finalize", "prepare", "exhausted"}
      /\ s = "succeeded" => pc = "finalize"
      /\ status' = s /\ events' = Append(events, x) /\ pc' = "ended"
      /\ replans' = replans /\ plans' = plans /\ index' = index
      /\ attempt' = attempt /\ trace' = trace
  BY DEF End
<1>2. /\ replans \in Nat /\ replans \in 0..MaxReplans
      /\ trace \in Seq(Records) /\ Len(trace) \in Nat
  BY PageAssumption DEF IInv, RunInHand
<1>3. RunInHand'
  BY <1>1, <1>2 DEF IInv, RunInHand
<1>4. DoneSoFar'
  <2>1. ActivePlan' = ActivePlan
    BY <1>1 DEF ActivePlan, Current
  <2> QED BY <1>1, <2>1 DEF IInv, DoneSoFar
<1>5. x \in Said
  BY <1>2 DEF Event, Said
<1>6. EventsTell'
  <2>1. /\ x.kind = "task_finished" /\ x.step = 0 /\ x.world \in 0..Len(trace')
        /\ x.status = status' /\ x.replans = replans' /\ x.world = Len(trace')
    BY <1>1, <1>2 DEF Event
  <2> HIDE DEF x
  <2>2. x.kind # "task_started" /\ x.kind # "step_result" /\ x.kind # "replan"
    BY <2>1
  <2>3. pc # "ended" /\ Len(trace') = Len(trace) + 0 /\ replans' = replans + 0
    BY <1>1, <1>2
  <2> QED BY <1>1, <1>2, <1>5, <2>1, <2>2, <2>3, EventsGrow DEF IInv
<1>7. NetInHand' /\ PageInHand'
  BY <1>1, <1>3, <1>5, PageAside
<1> QED BY <1>3, <1>4, <1>6, <1>7 DEF IInv

LEMMA RunStep ==
  ASSUME IInv, Run
  PROVE  IInv'
BY PlanStep, TryStep, ReplanStep, EndStep DEF Run

(* Publisher and browser leave the run alone, and what there is to publish. *)
LEMMA RunRests ==
  ASSUME IInv, UNCHANGED <<runVars, mode>>
  PROVE  /\ RunInHand' /\ DoneSoFar' /\ EventsTell'
         /\ Payloads' = Payloads /\ ActivePlan' = ActivePlan
<1>1. /\ pc' = pc /\ status' = status /\ replans' = replans /\ plans' = plans
      /\ index' = index /\ attempt' = attempt /\ trace' = trace /\ events' = events
      /\ mode' = mode
  BY DEF runVars
<1>2. Current' = Current /\ ActivePlan' = ActivePlan
  BY <1>1 DEF Current, ActivePlan
<1>3. RunInHand'
  BY <1>1, <1>2 DEF IInv, RunInHand
<1>4. DoneSoFar'
  BY <1>1, <1>2 DEF IInv, DoneSoFar
<1>5. EventsTell'
  BY <1>1 DEF IInv, EventsTell
<1>6. Payloads' = Payloads
  <2>1. (RunInHand)' => (Len(ReplayPayloads) = Len(trace) + 2)'
    BY ReplayLength, PTL
  <2>2. Len(ReplayPayloads)' = Len(ReplayPayloads)
    BY <1>1, <1>3, <2>1, ReplayLength DEF IInv
  <2> QED BY <1>1, <2>2 DEF Payloads
<1> QED BY <1>2, <1>3, <1>4, <1>5, <1>6

LEMMA PublishStep ==
  ASSUME IInv, Publish
  PROVE  IInv'
<1>1. /\ UNCHANGED <<runVars, mode>> /\ sent < Payloads /\ sent' = sent + 1
      /\ fetch' = fetch /\ connection' = connection /\ read' = read
      /\ losses' = losses /\ page' = page
  BY DEF Publish, netVars
<1>2. /\ RunInHand' /\ DoneSoFar' /\ EventsTell'
      /\ Payloads' = Payloads /\ ActivePlan' = ActivePlan
  BY <1>1, RunRests
<1>3. Payloads \in Nat
  BY ReplayLength DEF IInv, RunInHand, EventsTell, Payloads
<1>4. NetInHand'
  <2>1. /\ sent \in 0..Payloads /\ read \in 0..sent /\ losses \in 0..MaxLosses
        /\ fetch \in [at : {"asked", "answered", "settled"}, snapshot : 0..sent]
        /\ connection \in {"opening", "open"} /\ mode \in {"live", "replay"}
    BY DEF IInv, NetInHand
  <2>2. /\ sent' \in 0..Payloads' /\ read' \in 0..sent' /\ 0..sent \subseteq 0..sent'
    BY <1>1, <1>2, <1>3, <2>1
  <2>3. fetch' \in [at : {"asked", "answered", "settled"}, snapshot : 0..sent']
    BY <1>1, <2>1, <2>2
  <2> QED BY <1>1, <2>1, <2>2, <2>3 DEF NetInHand
<1>5. PageInHand'
  BY <1>1, <1>2 DEF IInv, PageInHand, runVars
<1> QED BY <1>2, <1>4, <1>5 DEF IInv

-----------------------------------------------------------------------------
(* The page *)

(* apply leaves the marks there are, adds the one of its payload, and no    *)
(* other.                                                                  *)
LEMMA Applied ==
  ASSUME IInv, NEW n \in 1..sent, Apply(n)
  PROVE  /\ page' \in Shown(Len(trace))
         /\ Justified(trace, page')
         /\ page.completed \subseteq page'.completed /\ page.failed \subseteq page'.failed
         /\ StepOf(mode, events, trace, n) # 0 =>
              HasMark(trace, StepOf(mode, events, trace, n), page')
         /\ PlanShown(mode, pc, ActivePlan, page')
<1> DEFINE p == Payload(n)
<1>1. page' = [status    |-> Given(p.status, page.status),
               replans   |-> p.replans,
               world     |-> p.world,
               plan      |-> Given(p.plan, page.plan),
               versions  |-> Given(p.versions, page.versions),
               current   |-> IF p.step = 0 THEN page.current ELSE trace[p.step].id,
               completed |-> Marked(page.completed, p, TRUE),
               failed    |-> Marked(page.failed, p, FALSE)]
  BY DEF Apply
<1>2. /\ p \in Told /\ p.step = StepOf(mode, events, trace, n)
      /\ p.step \in 0..Len(trace) /\ p.world \in 0..Len(trace)
      /\ mode = "replay" => pc = "ended" /\ p.plan = ActivePlan
  <2>1. n \in 1..Payloads /\ mode \in {"live", "replay"}
    <3>1. sent \in 0..Payloads /\ Payloads \in Nat /\ mode \in {"live", "replay"}
      BY ReplayLength DEF IInv, RunInHand, EventsTell, NetInHand, Payloads
    <3> QED BY <3>1
  <2> QED BY <2>1, PayloadIs DEF IInv
<1> HIDE DEF p
<1>3. /\ trace \in Seq(Records) /\ Len(trace) \in Nat
      /\ page \in Shown(Len(trace)) /\ Justified(trace, page)
      /\ PlanShown(mode, pc, ActivePlan, page)
  BY DEF IInv, RunInHand, PageInHand
<1>4. p.step # 0 => /\ p.step \in 1..Len(trace) /\ trace[p.step] \in Records
                    /\ trace[p.step].id \in Ids /\ trace[p.step].ok \in BOOLEAN
  <2>1. p.step # 0 => p.step \in 1..Len(trace)
    BY <1>2, <1>3
  <2>2. p.step # 0 => trace[p.step] \in Records
    BY <1>3, <2>1, ElementOfSeq
  <2> QED BY <2>1, <2>2 DEF Records
<1>5. /\ page.completed \subseteq page'.completed
      /\ page'.completed \subseteq Ever(trace, TRUE)
      /\ p.step # 0 /\ trace[p.step].ok = TRUE => trace[p.step].id \in page'.completed
  <2>1. page'.completed = Marked(page.completed, p, TRUE)
    BY <1>1
  <2> QED BY <1>3, <1>4, <2>1 DEF Marked, Justified, Ever
<1>6. /\ page.failed \subseteq page'.failed
      /\ page'.failed \subseteq Ever(trace, FALSE)
      /\ p.step # 0 /\ trace[p.step].ok = FALSE => trace[p.step].id \in page'.failed
  <2>1. page'.failed = Marked(page.failed, p, FALSE)
    BY <1>1
  <2> QED BY <1>3, <1>4, <2>1 DEF Marked, Justified, Ever
<1>7. page' \in Shown(Len(trace))
  <2>1. Ever(trace, TRUE) \subseteq Ids /\ Ever(trace, FALSE) \subseteq Ids
    <3>1. \A i \in 1..Len(trace) : trace[i].id \in Ids
      <4>1. \A i \in 1..Len(trace) : trace[i] \in Records
        BY <1>3, ElementOfSeq
      <4> QED BY <4>1 DEF Records
    <3> QED BY <3>1 DEF Ever
  <2>2. page'.completed \in SUBSET Ids /\ page'.failed \in SUBSET Ids
    BY <1>5, <1>6, <2>1
  <2>3. /\ page'.status \in Statuses /\ page'.replans \in 0..MaxReplans
        /\ page'.world \in {Absent} \cup 0..Len(trace)
    BY <1>1, <1>2, <1>3 DEF Given, Told, Shown
  <2>4. page'.plan \in Plans \cup {<<>>} /\ page'.versions \in 0..(MaxReplans + 1)
    BY <1>1, <1>2, <1>3 DEF Given, Told, Shown
  <2>5. page'.current \in Ids \cup {Absent}
    BY <1>1, <1>3, <1>4 DEF Shown
  <2>6. page' = [status |-> page'.status, replans |-> page'.replans, world |-> page'.world,
                 plan |-> page'.plan, versions |-> page'.versions,
                 current |-> page'.current, completed |-> page'.completed,
                 failed |-> page'.failed]
    BY <1>1
  <2> QED BY <2>2, <2>3, <2>4, <2>5, <2>6 DEF Shown
<1>8. StepOf(mode, events, trace, n) # 0 =>
        HasMark(trace, StepOf(mode, events, trace, n), page')
  BY <1>2, <1>4, <1>5, <1>6 DEF HasMark
<1>9. PlanShown(mode, pc, ActivePlan, page')
  <2>1. page'.plan = Given(p.plan, page.plan)
    BY <1>1
  <2> QED BY <1>2, <1>3, <2>1 DEF PlanShown, Given
<1> QED BY <1>5, <1>6, <1>7, <1>8, <1>9 DEF Justified

(* A page with more marks misses none it had.                              *)
LEMMA MarksStay ==
  ASSUME NEW g, NEW h, g.completed \subseteq h.completed, g.failed \subseteq h.failed,
         NEW m, NEW e, NEW t, NEW k, Complete(m, e, t, k, g)
  PROVE  Complete(m, e, t, k, h)
BY DEF Complete, HasMark

(* Steps of the network without the page.                                  *)
LEMMA PageWaits ==
  ASSUME IInv, UNCHANGED <<runVars, mode, sent, page>>, NetInHand', read' \in {0, read}
  PROVE  IInv'
<1>1. /\ RunInHand' /\ DoneSoFar' /\ EventsTell' /\ ActivePlan' = ActivePlan
  BY RunRests
<1>2. Complete(mode, events, trace, read', page)
  BY DEF IInv, PageInHand, Complete
<1>3. PageInHand'
  BY <1>1, <1>2 DEF IInv, PageInHand, runVars
<1> QED BY <1>1, <1>3 DEF IInv

LEMMA BrowserStep ==
  ASSUME IInv, Browser
  PROVE  IInv'
<1>1. /\ UNCHANGED <<runVars, mode, sent>>
      /\ Subscribe \/ Deliver \/ AnswerState \/ ApplyState \/ FetchFails \/ Lose
  BY DEF Browser, Receiving
<1>2. /\ RunInHand' /\ DoneSoFar' /\ EventsTell'
      /\ Payloads' = Payloads /\ ActivePlan' = ActivePlan
      /\ sent' = sent /\ mode' = mode /\ trace' = trace /\ events' = events /\ pc' = pc
  BY <1>1, RunRests DEF runVars
<1>3. /\ mode \in {"live", "replay"} /\ sent \in 0..Payloads /\ sent \in Nat
      /\ read \in 0..sent /\ losses \in 0..MaxLosses
      /\ fetch \in [at : {"asked", "answered", "settled"}, snapshot : 0..sent]
      /\ connection \in {"opening", "open"}
  BY DEF IInv, NetInHand
<1>4. CASE Subscribe
  <2>1. NetInHand' /\ UNCHANGED <<page, read>>
    BY <1>2, <1>3, <1>4 DEF Subscribe, NetInHand
  <2> QED BY <1>1, <2>1, PageWaits
<1>5. CASE AnswerState
  <2>1. NetInHand' /\ UNCHANGED <<page, read>>
    BY <1>2, <1>3, <1>5 DEF AnswerState, NetInHand
  <2> QED BY <1>1, <2>1, PageWaits
<1>6. CASE FetchFails
  <2>1. NetInHand' /\ UNCHANGED <<page, read>>
    BY <1>2, <1>3, <1>6 DEF FetchFails, Settled, NetInHand
  <2> QED BY <1>1, <2>1, PageWaits
<1>7. CASE Lose
  <2>1. NetInHand' /\ page' = page /\ read' = 0
    BY <1>2, <1>3, <1>7, PageAssumption DEF Lose, NetInHand
  <2> QED BY <1>1, <2>1, PageWaits
<1>8. CASE Deliver
  <2>1. /\ connection = "open" /\ read < sent /\ read' = read + 1 /\ Apply(read + 1)
        /\ fetch' = fetch /\ connection' = connection /\ losses' = losses
    BY <1>8 DEF Deliver
  <2>2. NetInHand'
    BY <1>2, <1>3, <2>1 DEF NetInHand
  <2>3. /\ page' \in Shown(Len(trace)) /\ Justified(trace, page')
        /\ page.completed \subseteq page'.completed /\ page.failed \subseteq page'.failed
        /\ StepOf(mode, events, trace, read + 1) # 0 =>
             HasMark(trace, StepOf(mode, events, trace, read + 1), page')
        /\ PlanShown(mode, pc, ActivePlan, page')
    <3>1. read + 1 \in 1..sent
      BY <1>3, <2>1
    <3> QED BY <2>1, <3>1, Applied
  <2>4. Complete(mode, events, trace, read, page')
    BY <2>3, MarksStay DEF IInv, PageInHand
  <2>5. Complete(mode, events, trace, read', page')
    <3>1. \A n \in 1..read' : n \in 1..read \/ n = read + 1
      BY <1>3, <2>1
    <3> QED BY <2>3, <2>4, <3>1 DEF Complete
  <2>6. PageInHand'
    BY <1>2, <2>3, <2>5 DEF PageInHand
  <2> QED BY <1>2, <2>2, <2>6 DEF IInv
<1>9. CASE ApplyState
  <2>1. /\ fetch' = Settled /\ connection' = connection /\ read' = read /\ losses' = losses
        /\ IF fetch.snapshot = 0 THEN page' = page ELSE Apply(fetch.snapshot)
    BY <1>9 DEF ApplyState
  <2>2. NetInHand'
    BY <1>2, <1>3, <2>1 DEF Settled, NetInHand
  <2>3. CASE fetch.snapshot = 0
    BY <1>1, <2>1, <2>2, <2>3, PageWaits
  <2>4. CASE fetch.snapshot # 0
    <3>1. fetch.snapshot \in 1..sent /\ Apply(fetch.snapshot)
      BY <1>3, <2>1, <2>4
    <3>2. /\ page' \in Shown(Len(trace)) /\ Justified(trace, page')
          /\ page.completed \subseteq page'.completed /\ page.failed \subseteq page'.failed
          /\ PlanShown(mode, pc, ActivePlan, page')
      BY <3>1, Applied
    <3>3. Complete(mode, events, trace, read', page')
      BY <2>1, <3>2, MarksStay DEF IInv, PageInHand
    <3>4. PageInHand'
      BY <1>2, <3>2, <3>3 DEF PageInHand
    <3> QED BY <1>2, <2>2, <3>4 DEF IInv
  <2> QED BY <2>3, <2>4
<1> QED BY <1>1, <1>4, <1>5, <1>6, <1>7, <1>8, <1>9

LEMMA NextIInv == IInv /\ [Next]_vars => IInv'
<1> SUFFICES ASSUME IInv, [Next]_vars PROVE IInv'
  OBVIOUS
<1>1. CASE Run
  BY <1>1, RunStep
<1>2. CASE Publish
  BY <1>2, PublishStep
<1>3. CASE Browser
  BY <1>3, BrowserStep
<1>4. CASE UNCHANGED vars
  <2>1. UNCHANGED <<runVars, mode, sent, page>> /\ read' = read /\ UNCHANGED netVars
    BY <1>4 DEF vars, netVars
  <2>2. Payloads' = Payloads
    BY <2>1, RunRests
  <2>3. NetInHand'
    BY <2>1, <2>2 DEF IInv, NetInHand, netVars
  <2> QED BY <2>1, <2>3, PageWaits
<1> QED BY <1>1, <1>2, <1>3, <1>4 DEF Next

(* A run, its events and its page stay tied together: whatever the browser  *)
(* and the network do, the page has the marks it was told and no others.    *)
THEOREM Invariance == Spec => []IInv
BY InitIInv, NextIInv, PTL DEF Spec

-----------------------------------------------------------------------------
(* Theorems *)

LEMMA IsTyped == IInv => TypeOK
<1> SUFFICES ASSUME IInv PROVE TypeOK
  OBVIOUS
<1>1. /\ pc \in {"prepare", "execute", "exhausted", "finalize", "ended"}
      /\ replans \in 0..MaxReplans /\ attempt \in 0..MaxRetries
  BY DEF IInv, RunInHand
<1>2. /\ mode \in {"live", "replay"}
      /\ sent \in 0..Payloads /\ read \in 0..sent /\ losses \in 0..MaxLosses
      /\ fetch \in [at : {"asked", "answered", "settled"}, snapshot : 0..sent]
      /\ connection \in {"opening", "open"}
  BY DEF IInv, NetInHand
<1>3. page \in Shown(Len(trace))
  BY DEF IInv, PageInHand
<1>4. /\ page.replans \in 0..MaxReplans /\ page.versions \in 0..(MaxReplans + 1)
      /\ page.world \in {Absent} \cup 0..Len(trace)
      /\ page.plan \in Plans \cup {<<>>}
      /\ page.completed \cup page.failed \subseteq Ids
  BY <1>3 DEF Shown
<1> QED BY <1>1, <1>2, <1>4 DEF TypeOK

(* Counters and marks stay in their bounds, and whatever is published       *)
(* gives the page something to show.                                       *)
THEOREM TypeCorrect == Spec => []TypeOK
BY Invariance, IsTyped, PTL

(* Each attempt of a run has its payload.                                  *)
LEMMA EveryAttemptIsTold ==
  ASSUME IInv, pc = "ended", NEW i \in 1..Len(trace)
  PROVE  \E n \in 1..Payloads : StepOf(mode, events, trace, n) = i
<1>1. Len(trace) \in Nat /\ mode \in {"live", "replay"}
  BY DEF IInv, RunInHand, NetInHand
<1>2. CASE mode = "live"
  <2>1. PICK n \in 1..Len(events) : events[n].step = i
    BY DEF IInv, EventsTell
  <2> QED BY <1>2, <2>1 DEF Payloads, StepOf
<1>3. CASE mode = "replay"
  <2>1. Payloads = Len(trace) + 2
    BY <1>3, ReplayLength DEF IInv, Payloads
  <2>2. i + 1 \in 1..Payloads /\ i + 1 \in 2..(Len(trace) + 1) /\ (i + 1) - 1 = i
    BY <1>1, <2>1
  <2>3. StepOf(mode, events, trace, i + 1) = i
    BY <1>3, <2>2 DEF StepOf
  <2> QED BY <2>2, <2>3
<1> QED BY <1>1, <1>2, <1>3

LEMMA MarksFollow == IInv => MarksAreTheRuns
<1> SUFFICES ASSUME IInv, CaughtUp
             PROVE  page.completed = Tried(TRUE) /\ page.failed = Tried(FALSE)
  BY DEF MarksAreTheRuns
<1>1. Tried(TRUE) = Ever(trace, TRUE) /\ Tried(FALSE) = Ever(trace, FALSE)
  BY DEF Tried, Ever
<1>2. page.completed \subseteq Ever(trace, TRUE) /\ page.failed \subseteq Ever(trace, FALSE)
  BY DEF IInv, PageInHand, Justified
<1>3. ASSUME NEW i \in 1..Len(trace)
      PROVE  HasMark(trace, i, page)
  <2>1. PICK n \in 1..Payloads : StepOf(mode, events, trace, n) = i
    BY EveryAttemptIsTold DEF CaughtUp
  <2>2. n \in 1..read /\ i # 0
    BY DEF CaughtUp
  <2> QED BY <2>1, <2>2 DEF IInv, PageInHand, Complete
<1>4. Ever(trace, TRUE) \subseteq page.completed
  BY <1>3 DEF HasMark, Ever
<1>5. Ever(trace, FALSE) \subseteq page.failed
  BY <1>3 DEF HasMark, Ever
<1> QED BY <1>1, <1>2, <1>4, <1>5

(* The marks of a page that was handed everything are those of the run,     *)
(* whatever was lost and told again on the way.                            *)
THEOREM MarksAreRight == Spec => []MarksAreTheRuns
BY Invariance, MarksFollow, PTL

LEMMA SuccessFollows == IInv => DoneWhenSucceeded
<1> SUFFICES ASSUME IInv, CaughtUp, mode = "replay", status = "succeeded",
                    NEW i \in 1..Len(page.plan)
             PROVE  page.plan[i] \in page.completed
  BY DEF DoneWhenSucceeded
<1>1. page.completed = Ever(trace, TRUE)
  BY MarksFollow DEF MarksAreTheRuns, Tried, Ever
<1>2. page.plan \in {<<>>, ActivePlan}
  BY DEF IInv, PageInHand, PlanShown
<1>3. page.plan # <<>>
  BY EmptySeq
<1> QED BY <1>1, <1>2, <1>3 DEF IInv, DoneSoFar

(* A replayed success shows a plan that is done.                           *)
THEOREM SuccessIsShown == Spec => []DoneWhenSucceeded
BY Invariance, SuccessFollows, PTL

LEMMA ReplayFollows == IInv => ReplayTellsTheRun
<1> SUFFICES ASSUME IInv, pc = "ended"
             PROVE  /\ Len(ReplayPayloads) = Place(Len(events))
                    /\ \A n \in {m \in 1..Len(events) : events[m].kind # "replan"} :
                         LET live == events[n] replay == ReplayPayloads[Place(n)] IN
                         /\ live.kind = replay.kind /\ live.step = replay.step
                         /\ live.kind # "step_result" =>
                              /\ live.status = replay.status /\ live.world = replay.world
                              /\ live.replans = replay.replans
  BY DEF ReplayTellsTheRun
<1>1. /\ Len(trace) \in Nat /\ replans \in Nat
      /\ events \in Seq(Said) /\ Len(events) = Len(trace) + replans + 2
  BY PageAssumption DEF IInv, RunInHand, EventsTell
<1>2. \A n : Place(n) = n - Cardinality(Replanned(events, n))
  BY DEF Place, Replanned
<1>3. Place(Len(events)) = Len(trace) + 2
  <2>1. Cardinality(Replanned(events, Len(events))) = replans
    BY DEF IInv, EventsTell
  <2> QED BY <1>1, <1>2, <2>1
<1>4. /\ Len(ReplayPayloads) = Len(trace) + 2
      /\ ReplayPayloads[1] = ReplayPayload("task_started", "running", 0, 0, 0)
      /\ \A i \in 1..Len(trace) :
           ReplayPayloads[i + 1] =
             ReplayPayload("step_result", IF trace[i].ok THEN "running" ELSE "recovering",
                           replans, i, 0)
      /\ ReplayPayloads[Len(trace) + 2] =
           ReplayPayload("task_finished", status, replans, 0, Len(trace))
  BY ReplayIs DEF IInv
<1>5. ASSUME NEW n \in 1..Len(events), events[n].kind # "replan"
      PROVE  LET live == events[n] replay == ReplayPayloads[Place(n)] IN
             /\ live.kind = replay.kind /\ live.step = replay.step
             /\ live.kind # "step_result" =>
                  /\ live.status = replay.status /\ live.world = replay.world
                  /\ live.replans = replay.replans
  <2>1. /\ Tells(events, trace, n) /\ Closed(events, trace, n, status, replans, pc)
        /\ events[n] \in Said
    BY <1>1, ElementOfSeq DEF IInv, EventsTell
  <2>2. CASE events[n].kind = "task_started"
    <3>1. /\ n = 1 /\ events[n].status = "running" /\ events[n].replans = 0
          /\ events[n].step = 0 /\ events[n].world = 0
      BY <2>1, <2>2 DEF Tells
    <3>2. Replanned(events, 1) = {}
      BY <2>2, <3>1 DEF Replanned
    <3>3. Place(n) = 1
      <4>1. Place(n) = 1 - Cardinality({})
        BY <1>2, <3>1, <3>2
      <4> QED BY <4>1, FS_EmptySet
    <3> QED BY <1>4, <2>2, <3>1, <3>3 DEF ReplayPayload
  <2>3. CASE events[n].kind = "step_result"
    <3>1. events[n].step \in 1..Len(trace) /\ Place(n) = events[n].step + 1
      BY <1>2, <2>1, <2>3 DEF Tells
    <3>2. ReplayPayloads[Place(n)].kind = "step_result"
          /\ ReplayPayloads[Place(n)].step = events[n].step
      <4>1. ReplayPayloads[Place(n)] = ReplayPayloads[events[n].step + 1]
        BY <3>1
      <4>2. PICK i \in 1..Len(trace) : i = events[n].step
        BY <3>1
      <4>3. ReplayPayloads[i + 1] =
              ReplayPayload("step_result", IF trace[i].ok THEN "running" ELSE "recovering",
                            replans, i, 0)
        BY <1>4
      <4> QED BY <4>1, <4>2, <4>3 DEF ReplayPayload
    <3> QED BY <2>3, <3>2
  <2>4. CASE events[n].kind = "task_finished"
    <3>1. /\ n = Len(events) /\ events[n].status = status
          /\ events[n].replans = replans /\ events[n].world = Len(trace)
      BY <2>1, <2>4 DEF Closed
    <3>2. events[n].step = 0
      BY <2>1, <2>4 DEF Tells
    <3>3. ReplayPayloads[Place(n)] =
            ReplayPayload("task_finished", status, replans, 0, Len(trace))
      BY <1>3, <1>4, <3>1
    <3> QED BY <2>4, <3>1, <3>2, <3>3 DEF ReplayPayload
  <2>5. events[n].kind \in {"task_started", "step_result", "replan", "task_finished"}
    BY <2>1 DEF Said
  <2> QED BY <1>5, <2>2, <2>3, <2>4, <2>5
<1> QED BY <1>3, <1>4, <1>5

(* An artifact tells of a run what its events told.                        *)
THEOREM ReplayIsTrue == Spec => []ReplayTellsTheRun
BY Invariance, ReplayFollows, PTL
=============================================================================
