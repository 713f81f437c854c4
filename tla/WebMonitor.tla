------------------------------ MODULE WebMonitor ------------------------------
(***************************************************************************)
(* WebMonitor: the observer between the runtimes and the broadcaster.       *)
(*                                                                          *)
(* With min_interval > 0 the threads that call on_event leave events in a   *)
(* bounded queue, and a thread of the monitor's own publishes them one by   *)
(* one; without, on_event publishes by itself.  stop() closes the monitor,  *)
(* wakes the thread and waits for it for a while.  on_event looks at        *)
(* _closed under a lock that stop() does not take.                          *)
(*                                                                          *)
(* An event is the thread that emitted it and how many it had emitted.      *)
(***************************************************************************)
EXTENDS Integers, Sequences, FiniteSets

CONSTANTS
  Callers,        \* threads that call on_event
  Stoppers,       \* threads that call stop, some of them perhaps callers
  QueueLimit,     \* queue_limit
  MaxEvents       \* bound: how many events a caller emits

ASSUME MonitorAssumption ==
  /\ IsFiniteSet(Callers)
  /\ QueueLimit \in Nat \ {0}
  /\ MaxEvents \in Nat

VARIABLES
  throttled,    \* _min_interval > 0, fixed for the life of the monitor
  call,         \* where each caller is in on_event
  emitted,      \* how often it was called by each of them
  pending,      \* _pending
  closed,       \* _closed
  stopSet,      \* _stop_event.is_set()
  stopping,     \* where each stopper is in stop
  stoppedBy,    \* who has called stop so far
  loop,         \* where _publish_loop is
  inHand,       \* the payload it took and has not published: <<>> or <<e>>
  published,    \* what the broadcaster was given, oldest first
  accepted,     \* the events that passed the look at _closed, oldest first
  dropped       \* those evicted from _pending

callers == <<call, emitted>>
stops   == <<closed, stopSet, stopping, stoppedBy>>
thread  == <<loop, inHand>>
fates   == <<published, accepted, dropped>>
vars == <<throttled, callers, pending, stops, thread, fates>>

-----------------------------------------------------------------------------

Emissions == Callers \X (1..MaxEvents)

TypeOK ==
  /\ throttled \in BOOLEAN
  /\ call \in [Callers -> {"outside", "entered", "put", "evict", "putAgain", "direct"}]
  /\ emitted \in [Callers -> 0..MaxEvents]
  /\ pending \in Seq(Emissions) /\ Len(pending) <= QueueLimit
  /\ closed \in BOOLEAN /\ stopSet \in BOOLEAN
  /\ stopping \in [Stoppers -> {"outside", "set", "join"}]
  /\ stoppedBy \subseteq Stoppers
  /\ loop \in {"none", "check", "empty", "get", "publish", "wait", "done"}
  /\ inHand \in Seq(Emissions) /\ Len(inHand) <= 1
  /\ published \in Seq(Emissions)
  /\ accepted \in Seq(Emissions)
  /\ dropped \subseteq Emissions

(* __init__ *)
Init ==
  /\ throttled \in BOOLEAN
  /\ call = [t \in Callers |-> "outside"]
  /\ emitted = [t \in Callers |-> 0]
  /\ pending = <<>>
  /\ closed = FALSE /\ stopSet = FALSE
  /\ stopping = [t \in Stoppers |-> "outside"]
  /\ stoppedBy = {}
  /\ loop = IF throttled THEN "check" ELSE "none"
  /\ inHand = <<>>
  /\ published = <<>> /\ accepted = <<>> /\ dropped = {}

(* A thread is in one method at a time.                                    *)
Outside(t) == /\ t \in Callers => call[t] = "outside"
              /\ t \in Stoppers => stopping[t] = "outside"

(* Slip: on_event takes no lock.                                           *)
LockFree_Always == TRUE

(* self._lock *)
LockFree == \A t \in Callers : call[t] \notin {"put", "evict", "putAgain"}

Room == Len(pending) < QueueLimit

Event(t) == <<t, emitted[t]>>

Goto(t, place) == call' = [call EXCEPT ![t] = place]

-----------------------------------------------------------------------------
(* on_event *)

OnEvent(t) ==
  /\ Outside(t)
  /\ emitted[t] < MaxEvents
  /\ emitted' = [emitted EXCEPT ![t] = @ + 1]
  /\ Goto(t, "entered")
  /\ UNCHANGED <<throttled, pending, stops, thread, fates>>

(* Slip: a closed monitor is not told apart.                               *)
Accept_Always(t, place) ==
  /\ Goto(t, place)
  /\ accepted' = Append(accepted, Event(t))

(* The look at _closed: go on, or return.                                  *)
Accept(t, place) ==
  IF closed
    THEN Goto(t, "outside") /\ UNCHANGED accepted
    ELSE Goto(t, place) /\ accepted' = Append(accepted, Event(t))

(* Lines 62-63, or 66-68 with the lock taken first.                        *)
Enter(t) ==
  /\ call[t] = "entered"
  /\ \/ throttled /\ LockFree /\ Accept(t, "put")
     \/ ~throttled /\ Accept(t, "direct")
  /\ UNCHANGED <<throttled, emitted, pending, stops, thread, published, dropped>>

(* Slip: _closed is looked at once more before publishing.                 *)
PublishDirect_UnlessClosed(t) ==
  /\ call[t] = "direct"
  /\ published' = IF closed THEN published ELSE Append(published, Event(t))
  /\ Goto(t, "outside")
  /\ UNCHANGED <<throttled, emitted, pending, stops, thread, accepted, dropped>>

(* Line 64 *)
PublishDirect(t) ==
  /\ call[t] = "direct"
  /\ published' = Append(published, Event(t))
  /\ Goto(t, "outside")
  /\ UNCHANGED <<throttled, emitted, pending, stops, thread, accepted, dropped>>

(* Line 70 *)
Put(t) ==
  /\ call[t] = "put"
  /\ IF Room THEN Goto(t, "outside") /\ pending' = Append(pending, Event(t))
             ELSE Goto(t, "evict") /\ UNCHANGED pending
  /\ UNCHANGED <<throttled, emitted, stops, thread, fates>>

(* Slip: the newest event waiting is given up.                             *)
Evict_Newest(t) ==
  /\ call[t] = "evict"
  /\ pending # <<>>
  /\ dropped' = dropped \cup {pending[Len(pending)]}
  /\ pending' = SubSeq(pending, 1, Len(pending) - 1)
  /\ Goto(t, "putAgain")
  /\ UNCHANGED <<throttled, emitted, stops, thread, published, accepted>>

(* Lines 72-75: the oldest event waiting goes, if the thread left one.     *)
Evict(t) ==
  /\ call[t] = "evict"
  /\ IF pending = <<>>
       THEN UNCHANGED <<pending, dropped>>
       ELSE /\ dropped' = dropped \cup {Head(pending)}
            /\ pending' = Tail(pending)
  /\ Goto(t, "putAgain")
  /\ UNCHANGED <<throttled, emitted, stops, thread, published, accepted>>

(* Line 76: queue.Full would leave on_event as an exception.               *)
PutAgain(t) ==
  /\ call[t] = "putAgain"
  /\ pending' = IF Room THEN Append(pending, Event(t)) ELSE pending
  /\ Goto(t, "outside")
  /\ UNCHANGED <<throttled, emitted, stops, thread, fates>>

-----------------------------------------------------------------------------
(* stop *)

Stop(t) ==
  /\ Outside(t)
  /\ closed' = TRUE
  /\ stopping' = [stopping EXCEPT ![t] = "set"]
  /\ stoppedBy' = stoppedBy \cup {t}
  /\ UNCHANGED <<throttled, callers, pending, stopSet, thread, fates>>

(* Slip: the thread is waited for and not told.                            *)
SetStopEvent_Forgotten(t) ==
  /\ stopping[t] = "set"
  /\ stopping' = [stopping EXCEPT ![t] = "join"]
  /\ UNCHANGED <<throttled, callers, pending, closed, stopSet, stoppedBy, thread, fates>>

SetStopEvent(t) ==
  /\ stopping[t] = "set"
  /\ stopSet' = TRUE
  /\ stopping' = [stopping EXCEPT ![t] = "join"]
  /\ UNCHANGED <<throttled, callers, pending, closed, stoppedBy, thread, fates>>

(* Lines 81-85: join returns when the thread has ended, or after 5 seconds. *)
Joined(t) ==
  /\ stopping[t] = "join"
  /\ stopping' = [stopping EXCEPT ![t] = "outside"]
  /\ UNCHANGED <<throttled, callers, pending, closed, stopSet, stoppedBy, thread, fates>>

-----------------------------------------------------------------------------
(* _publish_loop *)

(* Slip: `empty() and is_set()`.                                           *)
MayLeave_EmptyFirst ==
  /\ \/ loop = "check" /\ loop' = IF pending = <<>> THEN "empty" ELSE "get"
     \/ loop = "empty" /\ loop' = IF stopSet THEN "done" ELSE "get"
  /\ UNCHANGED <<throttled, callers, pending, stops, inHand, fates>>

(* Line 92: is_set(), and only then empty().                               *)
MayLeave ==
  /\ \/ loop = "check" /\ loop' = IF stopSet THEN "empty" ELSE "get"
     \/ loop = "empty" /\ loop' = IF pending = <<>> THEN "done" ELSE "get"
  /\ UNCHANGED <<throttled, callers, pending, stops, inHand, fates>>

(* Slip: a stack for a queue.                                              *)
Get_Newest ==
  /\ loop = "get"
  /\ IF pending = <<>>
       THEN loop' = "check" /\ UNCHANGED <<pending, inHand>>
       ELSE /\ inHand' = <<pending[Len(pending)]>>
            /\ pending' = SubSeq(pending, 1, Len(pending) - 1)
            /\ loop' = "publish"
  /\ UNCHANGED <<throttled, callers, stops, fates>>

(* Lines 94-97: get with a timeout *)
Get ==
  /\ loop = "get"
  /\ IF pending = <<>>
       THEN loop' = "check" /\ UNCHANGED <<pending, inHand>>
       ELSE /\ inHand' = <<Head(pending)>>
            /\ pending' = Tail(pending)
            /\ loop' = "publish"
  /\ UNCHANGED <<throttled, callers, stops, fates>>

(* Line 98 *)
PublishPending ==
  /\ loop = "publish"
  /\ published' = published \o inHand
  /\ inHand' = <<>>
  /\ loop' = "wait"
  /\ UNCHANGED <<throttled, callers, pending, stops, accepted, dropped>>

(* Lines 99-100: the interval passes, or the stop event cuts it short.     *)
Wait ==
  /\ loop = "wait"
  /\ loop' = "check"
  /\ UNCHANGED <<throttled, callers, pending, stops, inHand, fates>>

-----------------------------------------------------------------------------

InCall(t)   == Enter(t) \/ PublishDirect(t) \/ Put(t) \/ Evict(t) \/ PutAgain(t)
InStop(t)   == SetStopEvent(t) \/ Joined(t)
PublishLoop == MayLeave \/ Get \/ PublishPending \/ Wait

Next ==
  \/ \E t \in Callers : OnEvent(t) \/ InCall(t)
  \/ \E t \in Stoppers : Stop(t) \/ InStop(t)
  \/ PublishLoop

(* Every thread goes on once it is inside a method: none of them blocks    *)
(* for ever, as publish does not and every wait has a timeout.  Nobody     *)
(* needs to emit an event or to stop the monitor.                          *)
Fairness == /\ \A t \in Callers : WF_vars(InCall(t))
            /\ \A t \in Stoppers : WF_vars(InStop(t))
            /\ WF_vars(PublishLoop)

Spec == Init /\ [][Next]_vars /\ Fairness

-----------------------------------------------------------------------------
(* Properties *)

RangeOf(s)  == {s[i] : i \in 1..Len(s)}
InQueueCall == {t \in Callers : call[t] \in {"put", "evict", "putAgain"}}

(* The put after an eviction finds room: on_event raises nothing into the  *)
(* run it observes, whatever the thread takes and other callers put.       *)
SecondPutFindsRoom == \A t \in Callers : call[t] = "putAgain" => Room

(* What the broadcaster was given, what waits for it and what a caller is   *)
(* about to put, in this order.                                            *)
OnItsWay == IF InQueueCall = {} THEN <<>>
            ELSE <<Event(CHOOSE t \in InQueueCall : TRUE)>>

Waiting == pending \o OnItsWay
Stream  == published \o (inHand \o Waiting)

(* The events of s are in the order they have in a, none twice.             *)
InOrderOf(s, a) ==
  \A k, l \in 1..Len(s) : k < l =>
    \A i, j \in 1..Len(a) : s[k] = a[i] /\ s[l] = a[j] => i < j

InDirectCall == {t \in Callers : call[t] = "direct"}

(* These are the accepted events without the dropped ones: nothing is lost  *)
(* otherwise, doubled or overtaken.  Without throttling callers may         *)
(* overtake one another, but each accepted event is published once or about *)
(* to be, closed meanwhile or not.                                         *)
AcceptedInOrder ==
  IF throttled
    THEN RangeOf(Stream) = RangeOf(accepted) \ dropped /\ InOrderOf(Stream, accepted)
    ELSE /\ Len(published) + Cardinality(InDirectCall) = Len(accepted)
         /\ RangeOf(accepted) =
              RangeOf(published) \cup {Event(t) : t \in InDirectCall}

(* A full queue gives up its oldest events: whatever waits is newer than   *)
(* whatever was dropped.                                                   *)
DropsTheOldest ==
  \A i, j \in 1..Len(accepted) :
    accepted[i] \in dropped /\ accepted[j] \in RangeOf(pending) => i < j

(* stop() races on_event: an event accepted just before may come too late  *)
(* for the thread.  It is one event at most, however many runs there are,  *)
(* and it takes two threads: where the one that emits is the one that      *)
(* stops, as in the command line, nothing is left behind.                  *)
Stranded == RangeOf(pending) \cup {Event(t) : t \in InQueueCall}

AtMostOneStranded ==
  loop = "done" =>
    /\ Cardinality(Stranded) <= 1
    /\ \A e \in Stranded : stoppedBy # {e[1]}

(* No publisher thread is left behind by a stop.                           *)
StopEndsThread == (closed /\ throttled) ~> (loop = "done")
=============================================================================
