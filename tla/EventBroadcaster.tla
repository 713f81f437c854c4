--------------------------- MODULE EventBroadcaster ---------------------------
(***************************************************************************)
(* EventBroadcaster and the SSE handlers of the dashboard server.           *)
(*                                                                          *)
(* Threads publish events, each connection has a thread of its own that     *)
(* subscribes, takes events from its bounded queue and writes them to its   *)
(* client.  The broadcaster's lock orders publish, subscribe and            *)
(* unsubscribe, but a connection takes from its queue without it, so that a  *)
(* queue publish has just found full may be empty a moment later.            *)
(*                                                                          *)
(* A payload is the number of its publication.                              *)
(***************************************************************************)
EXTENDS Integers, Sequences, FiniteSets

CONSTANTS
  Publishers,     \* threads that call publish
  Connections,    \* SSE connections, each served once
  Nobody,         \* no connection
  HistoryLimit,   \* history_limit
  QueueLimit,     \* queue_limit
  KeepHistory,    \* keep_history
  MaxPublished    \* bound: how many events are published

ASSUME BroadcasterAssumption ==
  /\ HistoryLimit \in Nat \ {0}
  /\ QueueLimit \in Nat \ {0}
  /\ KeepHistory \in BOOLEAN
  /\ MaxPublished \in Nat
  /\ Nobody \notin Connections

VARIABLES
  published,    \* how many events have been published
  history,      \* _history
  subscribers,  \* _subscribers, whose order does not matter
  dropped,      \* _dropped_events
  queue,        \* the queue of each connection
  pc,           \* where each publisher is in publish
  item,         \* the payload it publishes
  todo,         \* the subscribers it still has to hand it to
  at,           \* the one whose queue it found full
  conn,         \* where each connection is in _stream_events
  online,       \* whether its client still listens
  since,        \* the first event a connection was due when it subscribed
  got           \* what it has taken from its queue

shared    == <<published, history, subscribers, dropped>>
publisher == <<pc, item, todo, at>>
client    == <<conn, online, since, got>>
vars == <<shared, queue, publisher, client>>

-----------------------------------------------------------------------------

Numbers == 1..MaxPublished

TypeOK ==
  /\ published \in 0..MaxPublished
  /\ history \in Seq(Numbers) /\ Len(history) <= HistoryLimit
  /\ subscribers \subseteq Connections
  /\ dropped \in Nat
  /\ queue \in [Connections -> Seq(Numbers)]
  /\ \A c \in Connections : Len(queue[c]) <= QueueLimit
  /\ pc \in [Publishers -> {"outside", "put", "evict", "putAgain"}]
  /\ item \in [Publishers -> 0..MaxPublished]
  /\ todo \in [Publishers -> SUBSET Connections]
  /\ at \in [Publishers -> Connections \cup {Nobody}]
  /\ conn \in [Connections -> {"new", "serving", "leaving", "gone"}]
  /\ online \in [Connections -> BOOLEAN]
  /\ since \in [Connections -> 1..(MaxPublished + 1)]
  /\ got \in [Connections -> Seq(Numbers)]

Init ==
  /\ published = 0 /\ history = <<>> /\ subscribers = {} /\ dropped = 0
  /\ queue = [c \in Connections |-> <<>>]
  /\ pc = [p \in Publishers |-> "outside"]
  /\ item = [p \in Publishers |-> 0]
  /\ todo = [p \in Publishers |-> {}]
  /\ at = [p \in Publishers |-> Nobody]
  /\ conn = [c \in Connections |-> "new"]
  /\ online = [c \in Connections |-> TRUE]
  /\ since = [c \in Connections |-> 1]
  /\ got = [c \in Connections |-> <<>>]

(* The newest n elements of s: what deque(maxlen=n) and s[-n:] keep.       *)
Newest(s, n) == IF Len(s) <= n THEN s ELSE SubSeq(s, Len(s) - n + 1, Len(s))

Room(c) == Len(queue[c]) < QueueLimit

(* Slip: the methods take no lock.                                         *)
LockFree_Always == TRUE

(* self._lock: only publish holds it for more than one step.               *)
LockFree == \A p \in Publishers : pc[p] = "outside"

-----------------------------------------------------------------------------
(* publish *)

(* Slip: a full history is left as it is.                                  *)
Recorded_StopsWhenFull ==
  IF KeepHistory /\ Len(history) < HistoryLimit THEN Append(history, published + 1)
                                                ELSE history

(* The history with the next event. *)
Recorded == IF KeepHistory THEN Newest(Append(history, published + 1), HistoryLimit)
                           ELSE history

(* Lines 37-40: lock, history, the list of subscribers to go through.      *)
Publish(p) ==
  /\ LockFree
  /\ pc[p] = "outside"
  /\ published < MaxPublished
  /\ published' = published + 1
  /\ history' = Recorded
  /\ item' = [item EXCEPT ![p] = published + 1]
  /\ todo' = [todo EXCEPT ![p] = subscribers]
  /\ pc' = [pc EXCEPT ![p] = IF subscribers = {} THEN "outside" ELSE "put"]
  /\ UNCHANGED <<subscribers, dropped, queue, at, client>>

(* The queue of c gets the payload, and the loop goes on; after the last   *)
(* subscriber the lock is released.                                        *)
Handed(p, c) ==
  /\ queue' = [queue EXCEPT ![c] = Append(@, item[p])]
  /\ todo' = [todo EXCEPT ![p] = @ \ {c}]
  /\ pc' = [pc EXCEPT ![p] = IF todo[p] = {c} THEN "outside" ELSE "put"]

(* Line 42 *)
Put(p, c) ==
  /\ pc[p] = "put" /\ c \in todo[p]
  /\ IF Room(c)
       THEN Handed(p, c) /\ UNCHANGED at
       ELSE /\ pc' = [pc EXCEPT ![p] = "evict"]
            /\ at' = [at EXCEPT ![p] = c]
            /\ UNCHANGED <<queue, todo>>
  /\ UNCHANGED <<shared, item, client>>

(* Slip: an eviction is counted even if the consumer was faster.           *)
Evict_CountsAlways(p) ==
  LET c == at[p] IN
    /\ pc[p] = "evict"
    /\ dropped' = dropped + 1
    /\ queue' = [queue EXCEPT ![c] = IF @ = <<>> THEN @ ELSE Tail(@)]
    /\ pc' = [pc EXCEPT ![p] = "putAgain"]
    /\ UNCHANGED <<published, history, subscribers, item, todo, at, client>>

(* Lines 45-50: the oldest event goes, unless the consumer was faster.     *)
Evict(p) ==
  LET c == at[p] IN
    /\ pc[p] = "evict"
    /\ IF queue[c] = <<>>
         THEN UNCHANGED <<queue, dropped>>
         ELSE /\ queue' = [queue EXCEPT ![c] = Tail(@)]
              /\ dropped' = dropped + 1
    /\ pc' = [pc EXCEPT ![p] = "putAgain"]
    /\ UNCHANGED <<published, history, subscribers, item, todo, at, client>>

(* Line 51: queue.Full is not caught here and would end publish.           *)
PutAgain(p) ==
  LET c == at[p] IN
    /\ pc[p] = "putAgain"
    /\ IF Room(c)
         THEN Handed(p, c)
         ELSE /\ pc' = [pc EXCEPT ![p] = "outside"]
              /\ todo' = [todo EXCEPT ![p] = {}]
              /\ UNCHANGED queue
    /\ at' = [at EXCEPT ![p] = Nobody]
    /\ UNCHANGED <<shared, item, client>>

-----------------------------------------------------------------------------
(* A connection: _stream_events *)

(* Slip: the queue is registered without the history.                      *)
Replay_Nothing == <<>>

(* Slip: the oldest part of the history instead of the newest.             *)
Replay_OldestWindow ==
  SubSeq(history, 1, IF Len(history) < QueueLimit THEN Len(history) ELSE QueueLimit)

Replay == Newest(history, QueueLimit)

(* subscribe *)
Subscribe(c) ==
  /\ LockFree
  /\ conn[c] = "new"
  /\ conn' = [conn EXCEPT ![c] = "serving"]
  /\ queue' = [queue EXCEPT ![c] = Replay]
  /\ since' = [since EXCEPT ![c] = published - Len(Newest(history, QueueLimit)) + 1]
  /\ subscribers' = subscribers \cup {c}
  /\ UNCHANGED <<published, history, dropped, publisher, online, got>>

(* Lines 146-151: the next event, taken without the broadcaster's lock.    *)
Serve(c) ==
  /\ conn[c] = "serving" /\ queue[c] # <<>>
  /\ got' = [got EXCEPT ![c] = Append(@, Head(queue[c]))]
  /\ queue' = [queue EXCEPT ![c] = Tail(@)]
  /\ UNCHANGED <<shared, publisher, conn, online, since>>

(* The client goes away; the handler does not notice yet.                  *)
Disconnect(c) ==
  /\ conn[c] = "serving" /\ online[c]
  /\ online' = [online EXCEPT ![c] = FALSE]
  /\ UNCHANGED <<shared, queue, publisher, conn, since, got>>

(* Slip: only events are written, no pings while there are none.           *)
WriteFails_NoPing(c) ==
  /\ conn[c] = "serving" /\ ~online[c]
  /\ queue[c] # <<>>
  /\ conn' = [conn EXCEPT ![c] = "leaving"]
  /\ queue' = [queue EXCEPT ![c] = Tail(@)]
  /\ got' = [got EXCEPT ![c] = Append(@, Head(queue[c]))]
  /\ UNCHANGED <<shared, publisher, online, since>>

(* Lines 146-153: writing an event or, after a second without one, a ping  *)
(* raises once the client is gone; the event taken for it is lost.         *)
WriteFails(c) ==
  /\ conn[c] = "serving" /\ ~online[c]
  /\ conn' = [conn EXCEPT ![c] = "leaving"]
  /\ IF queue[c] = <<>>
       THEN UNCHANGED <<queue, got>>
       ELSE /\ queue' = [queue EXCEPT ![c] = Tail(@)]
            /\ got' = [got EXCEPT ![c] = Append(@, Head(queue[c]))]
  /\ UNCHANGED <<shared, publisher, online, since>>

(* unsubscribe, in the finally of the handler *)
Unsubscribe(c) ==
  /\ LockFree
  /\ conn[c] = "leaving"
  /\ conn' = [conn EXCEPT ![c] = "gone"]
  /\ subscribers' = subscribers \ {c}
  /\ UNCHANGED <<published, history, dropped, queue, publisher, online, since, got>>

-----------------------------------------------------------------------------

InPublish(p) == Evict(p) \/ PutAgain(p) \/ \E c \in Connections : Put(p, c)

Handler(c) == Serve(c) \/ WriteFails(c) \/ Unsubscribe(c)

Next ==
  \/ \E p \in Publishers : Publish(p) \/ InPublish(p)
  \/ \E c \in Connections : Subscribe(c) \/ Disconnect(c) \/ Handler(c)

(* A publisher that holds the lock never blocks; a handler thread goes on  *)
(* as long as it has an event, a failing write or a lock to wait for.      *)
(* Nobody has to publish, connect or disconnect.                           *)
Fairness ==
  /\ \A p \in Publishers : WF_vars(InPublish(p))
  /\ \A c \in Connections :
       WF_vars(Serve(c)) /\ WF_vars(WriteFails(c)) /\ WF_vars(Unsubscribe(c))

Spec == Init /\ [][Next]_vars /\ Fairness

-----------------------------------------------------------------------------
(* Properties *)

(* Everything connection c was and will be handed, oldest first.           *)
Stream(c) == got[c] \o queue[c]

Increasing(s)  == \A i, j \in 1..Len(s) : i < j => s[i] < s[j]
Contiguous(s)  == \A i \in 1..(Len(s) - 1) : s[i + 1] = s[i] + 1
LastOf(s)      == s[Len(s)]

(* The put after an eviction finds room, so that publish raises nothing    *)
(* into the runtime, however consumers and other publishers interleave.    *)
SecondPutFindsRoom ==
  \A p \in Publishers : pc[p] = "putAgain" => Room(at[p])

(* A connection is shown no event twice and none out of order, across the  *)
(* seam between replay and live events too; what waits for it has no gap.  *)
StreamsInOrder ==
  \A c \in Connections : Increasing(Stream(c)) /\ Contiguous(queue[c])

(* dropped_events() is the number of events that connections were due and  *)
(* did not get: no gap in a stream goes uncounted, no drop is counted that  *)
(* a faster consumer prevented.                                            *)
Lacking(s, from, to) == {n \in from..to : \A i \in 1..Len(s) : s[i] # n}

Missed(c) ==
  LET s == Stream(c) IN IF s = <<>> THEN {} ELSE Lacking(s, since[c], LastOf(s))

DropsAreCounted ==
  (\A p \in Publishers : pc[p] # "putAgain") =>
    dropped = Cardinality({m \in Connections \X Numbers : m[2] \in Missed(m[1])})

(* GET /state is never behind what a connection has already been shown.    *)
StateNotBehindStreams ==
  KeepHistory => \A c \in Connections :
    Stream(c) # <<>> => history # <<>> /\ LastOf(Stream(c)) <= LastOf(history)

(* A client that stays is brought up to date: whatever its queue dropped   *)
(* and whatever it was doing when it subscribed, whenever the publishers   *)
(* pause it comes to be shown the newest event.                            *)
UpToDate(c) ==
  c \in subscribers /\ online[c] /\ since[c] <= published =>
    got[c] # <<>> /\ LastOf(got[c]) = published

StaysUpToDate == \A c \in Connections : []<>UpToDate(c)

(* A client that goes away is unsubscribed, even if nothing is published   *)
(* any more.                                                               *)
DeadConnectionsLeave ==
  \A c \in Connections : ~online[c] ~> c \notin subscribers

-----------------------------------------------------------------------------
(* The strengthening the proofs need                                       *)

(* At most one publisher is inside publish, and it publishes the newest     *)
(* event; whom it found full it still has to serve.                         *)
OneInside ==
  /\ \A p, q \in Publishers : pc[p] # "outside" /\ pc[q] # "outside" => p = q
  /\ \A p \in Publishers :
       /\ pc[p] = "outside" <=> todo[p] = {}
       /\ pc[p] # "outside" => item[p] = published /\ published > 0
       /\ pc[p] \in {"evict", "putAgain"} => at[p] \in todo[p]
       /\ todo[p] \subseteq subscribers

(* s holds the numbers up to n, without a gap.                             *)
Numbered(s, n) == \A i \in 1..Len(s) : s[i] = n - Len(s) + i

HistoryInHand ==
  /\ Len(history) <= published /\ Numbered(history, published)
  /\ ~KeepHistory => history = <<>>

(* A connection is subscribed from its start to its end, and has an empty  *)
(* past before.                                                            *)
ConnectionsInHand ==
  \A c \in Connections :
    /\ c \in subscribers <=> conn[c] \in {"serving", "leaving"}
    /\ conn[c] = "new" => got[c] = <<>> /\ queue[c] = <<>>

(* The newest event connection c has been handed, or would have been.      *)
Awaited(c) == \E p \in Publishers : c \in todo[p]
Due(c)     == IF Awaited(c) THEN published - 1 ELSE published

(* What was taken is in order and older than q, which ends with n.          *)
TakenBefore(g, q, n) ==
  /\ Increasing(g)
  /\ Numbered(q, n)
  /\ \A k \in 1..Len(g) : g[k] <= n - Len(q)

(* The queue of a subscriber ends with what is due; the others keep what    *)
(* they had.                                                               *)
StreamInHand(c) ==
  IF c \in subscribers THEN TakenBefore(got[c], queue[c], Due(c))
                       ELSE \E n \in 0..MaxPublished : TakenBefore(got[c], queue[c], n)

StreamsInHand == \A c \in Connections : StreamInHand(c)

(* The newest event connection c was shown, or what came before its first;  *)
(* the newest before those in its queue; and what it lacks up to there.      *)
LastShown(c) == IF got[c] = <<>> THEN since[c] - 1 ELSE LastOf(got[c])

Front(c) ==
  IF queue[c] # <<>> THEN Head(queue[c]) - 1
  ELSE IF c \in subscribers THEN Due(c) ELSE LastShown(c)

Gap(c) == Lacking(got[c], since[c], Front(c))

Lost == {m \in Connections \X Int : m[2] \in Gap(m[1])}

(* c has just lost an event to make room for the next.                      *)
Evicted(c) == \E p \in Publishers : pc[p] = "putAgain" /\ at[p] = c

(* A subscriber lost nothing it is not due, and has an empty queue only for  *)
(* having been shown all it is due, unless the last of it made room.         *)
DropInHand(c) ==
  /\ since[c] <= Front(c) + 1
  /\ queue[c] = <<>> /\ ~Evicted(c) => Due(c) = LastShown(c)

DropsInHand ==
  /\ IsFiniteSet(Lost) /\ dropped = Cardinality(Lost)
  /\ \A c \in subscribers : DropInHand(c)
=============================================================================
