--------------------------- MODULE WebCommand_proofs ---------------------------
(***************************************************************************)
(* What `demo --web` and `replay --web` leave behind when they are over,    *)
(* for any queue limit, any number of events and any number of Ctrl+C's.    *)
(*                                                                          *)
(* NothingLeftBehind speaks of the end only; what makes it inductive is     *)
(* what the main thread has started and stopped at each place on its way.   *)
(* That all was published before the server is asked to end follows from    *)
(* where each accepted event is (EventsInPlace), and from what the thread    *)
(* of the monitor must have found before it left (ThreadInHand).            *)
(***************************************************************************)
EXTENDS WebCommand, SequenceTheorems, FiniteSetTheorems, TLAPS

(* Nothing is started twice, and the calls of stop follow one another.      *)
OnTheWay ==
  /\ stopping \in [{main} -> {"outside", "set", "join"}]
  /\ at = "start" => server = "none" /\ ~web_monitor
  /\ at = "join" => /\ closed
                    /\ stopping[main] # "set" => stopSet
  /\ at \in {"shutdown", "close"} => (web_monitor => closed /\ stopSet)

IInv == OnTheWay /\ NothingLeftBehind

LEMMA InitIInv == Init => IInv
BY DEF Init, Monitor!Init, IInv, OnTheWay, NothingLeftBehind

(* Steps of other threads, and those in which the main thread calls the     *)
(* monitor's on_event.                                                     *)
LEMMA Aside ==
  ASSUME IInv, UNCHANGED <<at, ending, command, web_monitor, closed, stopSet, stopping>>,
         server' = server \/ (server = "asked" /\ server' = "out")
  PROVE  IInv'
BY DEF IInv, OnTheWay, NothingLeftBehind, Told, Unanswered

(* The main thread starts something, or goes on.                           *)
LEMMA Starts ==
  ASSUME IInv, StartServer \/ MakeMonitor \/ Announce \/ RunEnds \/ Farewell
  PROVE  IInv'
<1> USE DEF To, Leave, Handle, IInv, OnTheWay, NothingLeftBehind, Told, Unanswered, monitor, parts, cause
<1>1. CASE StartServer
  BY <1>1 DEF StartServer
<1>2. CASE MakeMonitor
  BY <1>2 DEF MakeMonitor
<1>3. CASE Announce
  BY <1>3 DEF Announce
<1>4. CASE RunEnds
  BY <1>4 DEF RunEnds
<1>5. CASE Farewell
  BY <1>5 DEF Farewell
<1>6. QED
  BY <1>1, <1>2, <1>3, <1>4, <1>5

LEMMA Interrupted ==
  ASSUME IInv, Interrupt
  PROVE  IInv'
BY DEF Interrupt, IInv, OnTheWay, NothingLeftBehind, Told, Unanswered, parts

(* The main thread stops what it has started.                              *)
LEMMA Stops ==
  ASSUME IInv, Stopping
  PROVE  IInv'
<1> USE DEF IInv, OnTheWay, NothingLeftBehind, Told, Unanswered, To, parts, cause
<1>1. CASE StopMonitor
  <2>1. CASE web_monitor
    <3>1. closed' = TRUE /\ stopping'[main] = "set" /\ stopping' \in [{main} -> {"outside", "set", "join"}]
      BY <1>1, <2>1 DEF StopMonitor, Monitor!Stop
    <3>2. at' = "join"
      BY <1>1, <2>1 DEF StopMonitor
    <3>3. QED
      BY <3>1, <3>2
  <2>2. CASE ~web_monitor
    BY <1>1, <2>2 DEF StopMonitor, monitor
  <2>3. QED
    BY <2>1, <2>2
<1>2. CASE SetStopEvent
  BY <1>2 DEF SetStopEvent, Monitor!SetStopEvent
<1>3. CASE Joined
  BY <1>3 DEF Joined, Monitor!Joined
<1>4. CASE Shutdown
  BY <1>4 DEF Shutdown, monitor
<1>5. CASE ServerClose
  BY <1>5 DEF ServerClose, monitor
<1>6. QED
  BY <1>1, <1>2, <1>3, <1>4, <1>5 DEF Stopping

(* The handlers of /events touch nothing that the main thread, the server   *)
(* or the monitor keeps.                                                   *)
LEMMA StreamsApart ==
  ASSUME Streaming \/ UNCHANGED vars
  PROVE  UNCHANGED <<monitor, command, at, parts, cause>>
  BY DEF Streaming, OpenStream, ClientLeaves, HandlerEnds, vars

LEMMA StepIInv == IInv /\ [Next]_vars => IInv'
<1> SUFFICES ASSUME IInv, [Next]_vars PROVE IInv'
  OBVIOUS
<1>1. CASE StartServer \/ MakeMonitor \/ Announce \/ RunEnds \/ Farewell
  BY <1>1, Starts
<1>2. CASE Emit
  <2>1. UNCHANGED <<at, ending, command, web_monitor, server>>
    BY <1>2 DEF Emit, parts, cause
  <2>2. UNCHANGED <<closed, stopSet, stopping>>
    BY <1>2 DEF Emit, Monitor!OnEvent, Monitor!InCall, Monitor!Enter, Monitor!PublishDirect,
                Monitor!Put, Monitor!Evict, Monitor!PutAgain, Monitor!stops
  <2>3. QED
    BY <2>1, <2>2, Aside
<1>3. CASE Interrupt
  BY <1>3, Interrupted
<1>4. CASE Stopping
  BY <1>4, Stops
<1>5. CASE ServeForever \/ ReplayPublished
  BY <1>5, Aside DEF ServeForever, ReplayPublished, monitor, cause
<1>6. CASE PublishLoop
  <2>1. UNCHANGED <<at, ending, command, web_monitor, server>>
    BY <1>6 DEF PublishLoop, parts, cause
  <2>2. UNCHANGED <<closed, stopSet, stopping>>
    BY <1>6 DEF PublishLoop, Monitor!PublishLoop, Monitor!MayLeave, Monitor!Get,
                Monitor!PublishPending, Monitor!Wait, Monitor!stops
  <2>3. QED
    BY <2>1, <2>2, Aside
<1>7. CASE Streaming \/ UNCHANGED vars
  BY <1>7, StreamsApart, Aside DEF monitor, parts, cause
<1>8. QED
  BY <1>1, <1>2, <1>3, <1>4, <1>5, <1>6, <1>7 DEF Next, Going

(* Whatever raises in a demo's run or in making its monitor, and the Ctrl+C *)
(* it waits for, leave no server and no publisher thread behind when the    *)
(* command is over; Unanswered names the ends that may.                     *)
THEOREM NothingLeft == Spec => []NothingLeftBehind
<1>1. IInv => NothingLeftBehind
  BY DEF IInv
<1> QED BY <1>1, InitIInv, StepIInv, PTL DEF Spec

-----------------------------------------------------------------------------
(* The monitor in the hands of the main thread                             *)

Events == {main} \X (1..MaxEvents)

(* What Monitor!TypeOK says, in the terms of this module.                   *)
MonitorTyped ==
  /\ throttled \in BOOLEAN
  /\ call \in [{main} -> {"outside", "entered", "put", "evict", "putAgain", "direct"}]
  /\ emitted \in [{main} -> 0..MaxEvents]
  /\ pending \in Seq(Events) /\ Len(pending) <= QueueLimit
  /\ loop \in {"none", "check", "empty", "get", "publish", "wait", "done"}
  /\ inHand \in Seq(Events) /\ Len(inHand) <= 1
  /\ published \in Seq(Events)
  /\ accepted \in Seq(Events)
  /\ dropped \subseteq Events

Base == MonitorTyped /\ CommandInHand /\ ThreadInHand

LEMMA EventTyped ==
  ASSUME MonitorTyped, CommandInHand, call[main] # "outside"
  PROVE  Monitor!Event(main) \in Events
<1>1. emitted[main] \in 1..MaxEvents
  BY CommandAssumption DEF MonitorTyped, CommandInHand
<1>2. QED
  BY <1>1 DEF Monitor!Event, Events

LEMMA PendingTyped ==
  ASSUME MonitorTyped
  PROVE  /\ Len(pending) \in Nat /\ QueueLimit \in Nat /\ QueueLimit > 0
         /\ pending # <<>> => /\ Head(pending) \in Events
                              /\ Tail(pending) \in Seq(Events)
                              /\ Len(Tail(pending)) = Len(pending) - 1
         /\ pending = <<>> => Len(pending) = 0
<1>1. pending \in Seq(Events)
  BY DEF MonitorTyped
<1>2. QED
  BY <1>1, HeadTailProperties, EmptySeq, CommandAssumption

LEMMA InitBase == Init => Base
<1> SUFFICES ASSUME Init PROVE Base
  OBVIOUS
<1> USE DEF Init, Monitor!Init
<1>1. MonitorTyped
  BY CommandAssumption, EmptySeq DEF MonitorTyped
<1>2. CommandInHand
  BY DEF CommandInHand, Closing
<1>3. ThreadInHand
  BY DEF ThreadInHand
<1>4. QED
  BY <1>1, <1>2, <1>3 DEF Base

(* Whatever leaves the monitor alone.                                       *)
LEMMA MonitorAside ==
  ASSUME MonitorTyped, ThreadInHand,
         UNCHANGED <<throttled, call, emitted, pending, loop, inHand, published, accepted, dropped>>,
         stopSet => stopSet'
  PROVE  MonitorTyped' /\ ThreadInHand'
<1>1. MonitorTyped'
  BY DEF MonitorTyped
<1>2. ThreadInHand'
  BY DEF ThreadInHand, Monitor!Room
<1>3. QED
  BY <1>1, <1>2

LEMMA StartsBase ==
  ASSUME Base, StartServer \/ MakeMonitor \/ Announce \/ RunEnds \/ Farewell
  PROVE  Base'
<1> USE DEF To, Leave, Handle, CommandInHand, Closing, monitor, parts, cause
<1>1. monitor' = monitor
  BY DEF StartServer, MakeMonitor, Announce, RunEnds, Farewell
<1>2. MonitorTyped' /\ ThreadInHand'
  BY <1>1, MonitorAside DEF Base
<1>3. CASE StartServer
  BY <1>1, <1>2, <1>3 DEF Base, StartServer
<1>4. CASE MakeMonitor
  BY <1>1, <1>2, <1>4 DEF Base, MakeMonitor
<1>5. CASE Announce
  BY <1>1, <1>2, <1>5 DEF Base, Announce
<1>6. CASE RunEnds
  BY <1>1, <1>2, <1>6 DEF Base, RunEnds, Busy
<1>7. CASE Farewell
  BY <1>1, <1>2, <1>7 DEF Base, Farewell
<1>8. QED
  BY <1>3, <1>4, <1>5, <1>6, <1>7

LEMMA InterruptBase ==
  ASSUME Base, Interrupt
  PROVE  Base'
<1>1. MonitorTyped'
  BY DEF Base, MonitorTyped, Interrupt
<1>2. ThreadInHand'
  BY DEF Base, ThreadInHand, MonitorTyped, Interrupt
<1>3. CommandInHand'
  BY DEF Base, CommandInHand, MonitorTyped, Interrupt, Closing, parts
<1>4. QED
  BY <1>1, <1>2, <1>3 DEF Base

LEMMA StoppingBase ==
  ASSUME Base, OnTheWay, Stopping \/ ServeForever \/ ReplayPublished
  PROVE  Base'
<1> USE DEF To, CommandInHand, Closing, monitor, parts, cause
<1>1. /\ UNCHANGED <<throttled, call, emitted, pending, loop, inHand, published, accepted, dropped>>
      /\ stopSet => stopSet'
  BY DEF Stopping, StopMonitor, SetStopEvent, Joined, Shutdown, ServerClose, ServeForever,
         ReplayPublished, Monitor!Stop, Monitor!SetStopEvent, Monitor!Joined,
         Monitor!callers, Monitor!thread, Monitor!fates
<1>2. MonitorTyped' /\ ThreadInHand'
  BY <1>1, MonitorAside DEF Base
<1>3. CASE StopMonitor
  BY <1>1, <1>2, <1>3 DEF Base, StopMonitor, Monitor!Stop
<1>4. CASE SetStopEvent
  BY <1>1, <1>2, <1>4 DEF Base, OnTheWay, SetStopEvent, Monitor!SetStopEvent
<1>5. CASE Joined
  <2>1. ~late' => ~throttled \/ loop = "done"
    <3>1. late' = (throttled /\ loop # "done")
      BY <1>5 DEF Joined
    <3>2. QED
      BY <3>1
  <2>2. at = "join" /\ at' = "shutdown" /\ UNCHANGED <<closed, stopSet, web_monitor, server>>
    BY <1>5 DEF Joined, Monitor!Joined
  <2>3. QED
    BY <1>1, <1>2, <2>1, <2>2 DEF Base
<1>6. CASE Shutdown
  BY <1>1, <1>2, <1>6 DEF Base, Shutdown
<1>7. CASE ServerClose
  BY <1>1, <1>2, <1>7 DEF Base, ServerClose
<1>8. CASE ServeForever
  BY <1>1, <1>2, <1>8 DEF Base, ServeForever
<1>9. CASE ReplayPublished
  BY <1>1, <1>2, <1>9 DEF Base, ReplayPublished
<1>10. QED
  BY <1>3, <1>4, <1>5, <1>6, <1>7, <1>8, <1>9 DEF Stopping

(* on_event, one step at a time.                                           *)
LEMMA EmitBase ==
  ASSUME Base, Emit
  PROVE  Base'
<1>0. /\ at = "run" /\ web_monitor /\ UNCHANGED <<command, at, parts, cause>>
      /\ Monitor!OnEvent(main) \/ Monitor!InCall(main)
  BY DEF Emit
<1>1. MonitorTyped /\ CommandInHand /\ ThreadInHand
  BY DEF Base
<1>2. ~closed /\ ~stopSet /\ ~Closing /\ loop \notin {"empty", "done"}
  BY <1>0, <1>1 DEF CommandInHand, ThreadInHand
<1>3. /\ UNCHANGED <<throttled, closed, stopSet, loop, inHand>>
      /\ ~Closing' /\ at' = "run" /\ web_monitor'
  BY <1>0, <1>2 DEF Monitor!OnEvent, Monitor!InCall, Monitor!Enter, Monitor!PublishDirect,
                    Monitor!Put, Monitor!Evict, Monitor!PutAgain, Monitor!stops,
                    Monitor!thread, Closing, parts
<1>4. ASSUME MonitorTyped', emitted'[main] > 0 \/ call'[main] = "outside",
             throttled => call'[main] # "direct",
             ~throttled => pending' = <<>> /\ call'[main] \notin {"put", "evict", "putAgain"},
             call'[main] = "putAgain" => Monitor!Room'
      PROVE  Base'
  <2>1. CommandInHand'
    BY <1>2, <1>3, <1>4 DEF CommandInHand
  <2>2. ThreadInHand'
    BY <1>1, <1>2, <1>3, <1>4 DEF ThreadInHand
  <2>3. QED
    BY <1>4, <2>1, <2>2 DEF Base
<1>5. CASE Monitor!OnEvent(main)
  <2>1. /\ emitted' = [emitted EXCEPT ![main] = @ + 1] /\ emitted[main] < MaxEvents
        /\ call' = [call EXCEPT ![main] = "entered"]
        /\ UNCHANGED <<throttled, pending, loop, inHand, published, accepted, dropped>>
    BY <1>5 DEF Monitor!OnEvent, Monitor!Goto, Monitor!thread, Monitor!fates
  <2>2. emitted[main] + 1 \in 1..MaxEvents
    BY <1>1, <2>1, CommandAssumption DEF MonitorTyped
  <2>3. MonitorTyped' /\ call'[main] = "entered" /\ emitted'[main] > 0
    BY <1>1, <2>1, <2>2 DEF MonitorTyped
  <2>4. QED
    BY <1>1, <1>4, <2>1, <2>3 DEF ThreadInHand
<1>6. CASE Monitor!Enter(main)
  <2>1. /\ call[main] = "entered"
        /\ UNCHANGED <<throttled, emitted, pending, loop, inHand, published, dropped>>
    BY <1>6 DEF Monitor!Enter, Monitor!stops, Monitor!thread
  <2>2. PICK place \in {"put", "direct"} :
          /\ place = "put" <=> throttled
          /\ call' = [call EXCEPT ![main] = place]
          /\ accepted' = Append(accepted, Monitor!Event(main))
    BY <1>1, <1>2, <1>6 DEF Monitor!Enter, Monitor!Accept, Monitor!Goto, MonitorTyped
  <2>3. accepted' \in Seq(Events)
    BY <1>1, <2>1, <2>2, EventTyped, AppendProperties DEF MonitorTyped
  <2>4. MonitorTyped' /\ call'[main] = place
    BY <1>1, <2>1, <2>2, <2>3 DEF MonitorTyped
  <2>5. emitted'[main] > 0
    BY <1>1, <2>1 DEF CommandInHand
  <2>6. QED
    BY <1>1, <1>4, <2>1, <2>2, <2>4, <2>5 DEF ThreadInHand
<1>7. CASE Monitor!PublishDirect(main)
  <2>1. /\ call[main] = "direct" /\ call' = [call EXCEPT ![main] = "outside"]
        /\ published' = Append(published, Monitor!Event(main))
        /\ UNCHANGED <<throttled, emitted, pending, loop, inHand, accepted, dropped>>
    BY <1>7 DEF Monitor!PublishDirect, Monitor!Goto, Monitor!stops, Monitor!thread
  <2>2. published' \in Seq(Events)
    BY <1>1, <2>1, EventTyped, AppendProperties DEF MonitorTyped
  <2>3. MonitorTyped' /\ call'[main] = "outside"
    BY <1>1, <2>1, <2>2 DEF MonitorTyped
  <2>4. QED
    BY <1>1, <1>4, <2>1, <2>3 DEF ThreadInHand
<1>8. CASE Monitor!Put(main) \/ Monitor!PutAgain(main)
  <2>1. /\ call[main] \in {"put", "putAgain"}
        /\ UNCHANGED <<throttled, emitted, loop, inHand, published, accepted, dropped>>
    BY <1>8 DEF Monitor!Put, Monitor!PutAgain, Monitor!stops, Monitor!thread, Monitor!fates
  <2>2. throttled
    BY <1>1, <2>1 DEF ThreadInHand, MonitorTyped
  <2>3. CASE Monitor!Room
    <3>1. /\ call' = [call EXCEPT ![main] = "outside"]
          /\ pending' = Append(pending, Monitor!Event(main))
      BY <1>8, <2>3 DEF Monitor!Put, Monitor!PutAgain, Monitor!Goto
    <3>2. /\ pending' \in Seq(Events) /\ Len(pending') = Len(pending) + 1
      BY <1>1, <2>1, <3>1, EventTyped, AppendProperties DEF MonitorTyped
    <3>3. Len(pending') <= QueueLimit
      BY <1>1, <2>3, <3>2, PendingTyped DEF Monitor!Room
    <3>4. MonitorTyped' /\ call'[main] = "outside"
      BY <1>1, <2>1, <3>1, <3>2, <3>3 DEF MonitorTyped
    <3>5. QED
      BY <1>4, <2>2, <3>4
  <2>4. CASE ~Monitor!Room
    <3>1. /\ Monitor!Put(main) /\ call' = [call EXCEPT ![main] = "evict"] /\ pending' = pending
      BY <1>1, <1>8, <2>4 DEF Monitor!Put, Monitor!PutAgain, Monitor!Goto, ThreadInHand
    <3>2. MonitorTyped' /\ call'[main] = "evict"
      BY <1>1, <2>1, <3>1 DEF MonitorTyped
    <3>3. emitted'[main] > 0
      BY <1>1, <2>1 DEF CommandInHand
    <3>4. QED
      BY <1>4, <2>2, <3>2, <3>3
  <2>5. QED
    BY <2>3, <2>4
<1>9. CASE Monitor!Evict(main)
  <2>1. /\ call[main] = "evict" /\ call' = [call EXCEPT ![main] = "putAgain"]
        /\ UNCHANGED <<throttled, emitted, loop, inHand, published, accepted>>
    BY <1>9 DEF Monitor!Evict, Monitor!Goto, Monitor!stops, Monitor!thread
  <2>2. throttled
    BY <1>1, <2>1 DEF ThreadInHand, MonitorTyped
  <2>3. /\ pending' \in Seq(Events) /\ Len(pending') < QueueLimit /\ dropped' \subseteq Events
    <3>1. CASE pending = <<>>
      BY <1>1, <1>9, <3>1, PendingTyped DEF Monitor!Evict, MonitorTyped
    <3>2. CASE pending # <<>>
      <4>1. pending' = Tail(pending) /\ dropped' = dropped \cup {Head(pending)}
        BY <1>9, <3>2 DEF Monitor!Evict
      <4>2. Len(pending) <= QueueLimit /\ dropped \subseteq Events
        BY <1>1 DEF MonitorTyped
      <4>3. QED
        BY <1>1, <3>2, <4>1, <4>2, PendingTyped
    <3>3. QED
      BY <3>1, <3>2
  <2>4. Len(pending') <= QueueLimit
    <3>1. Len(pending') \in Nat /\ QueueLimit \in Nat
      BY <2>3, CommandAssumption
    <3>2. QED
      BY <2>3, <3>1
  <2>5. MonitorTyped' /\ call'[main] = "putAgain"
    BY <1>1, <2>1, <2>3, <2>4 DEF MonitorTyped
  <2>6. Monitor!Room'
    BY <2>3 DEF Monitor!Room
  <2>7. emitted'[main] > 0
    BY <1>1, <2>1 DEF CommandInHand
  <2>8. QED
    BY <1>4, <2>2, <2>5, <2>6, <2>7
<1>10. QED
  BY <1>0, <1>5, <1>6, <1>7, <1>8, <1>9 DEF Monitor!InCall

(* The thread takes what waits and publishes it.                            *)
LEMMA LoopBase ==
  ASSUME Base, PublishLoop
  PROVE  Base'
<1>0. /\ web_monitor /\ UNCHANGED <<command, at, parts, cause>> /\ Monitor!PublishLoop
  BY DEF PublishLoop
<1>1. MonitorTyped /\ CommandInHand /\ ThreadInHand
  BY DEF Base
<1>2. UNCHANGED <<throttled, call, emitted, closed, stopSet, accepted, dropped>>
  BY <1>0 DEF Monitor!PublishLoop, Monitor!MayLeave, Monitor!Get, Monitor!PublishPending,
              Monitor!Wait, Monitor!callers, Monitor!stops, Monitor!fates
<1>3. loop \notin {"done", "none"}
  BY <1>0 DEF Monitor!PublishLoop, Monitor!MayLeave, Monitor!Get, Monitor!PublishPending, Monitor!Wait
<1>4. throttled
  BY <1>1, <1>3 DEF ThreadInHand, MonitorTyped
<1>5. CommandInHand'
  <2>1. (Closing' <=> Closing) /\ UNCHANGED <<web_monitor, late, at>>
    BY <1>0 DEF Closing, parts
  <2>2. QED
    BY <1>0, <1>1, <1>2, <1>3, <1>4, <2>1 DEF CommandInHand
<1>6. CASE Monitor!MayLeave
  <2>1. UNCHANGED <<pending, inHand, published>>
    BY <1>6 DEF Monitor!MayLeave, Monitor!fates
  <2>2. /\ loop \in {"check", "empty"} /\ loop' \in {"empty", "get", "done"}
        /\ loop' \in {"empty", "done"} => stopSet
        /\ loop' = "done" => pending = <<>>
    BY <1>1, <1>6 DEF Monitor!MayLeave, ThreadInHand
  <2>3. MonitorTyped'
    BY <1>1, <1>2, <2>1, <2>2 DEF MonitorTyped
  <2>4. ThreadInHand'
    BY <1>1, <1>2, <1>4, <2>1, <2>2 DEF ThreadInHand, Monitor!Room
  <2>5. QED
    BY <1>5, <2>3, <2>4 DEF Base
<1>7. CASE Monitor!Get /\ pending = <<>>
  <2>1. loop = "get" /\ loop' = "check" /\ UNCHANGED <<pending, inHand, published>>
    BY <1>7 DEF Monitor!Get, Monitor!fates
  <2>2. MonitorTyped'
    BY <1>1, <1>2, <2>1 DEF MonitorTyped
  <2>3. ThreadInHand'
    BY <1>1, <1>2, <1>4, <2>1 DEF ThreadInHand, Monitor!Room
  <2>4. QED
    BY <1>5, <2>2, <2>3 DEF Base
<1>8. CASE Monitor!Get /\ pending # <<>>
  <2>1. /\ loop = "get" /\ loop' = "publish" /\ inHand' = <<Head(pending)>>
        /\ pending' = Tail(pending) /\ published' = published
    BY <1>8 DEF Monitor!Get, Monitor!fates
  <2>2. /\ Head(pending) \in Events /\ pending' \in Seq(Events)
        /\ Len(pending') = Len(pending) - 1 /\ Len(pending) \in Nat /\ QueueLimit \in Nat
    BY <1>1, <1>8, <2>1, PendingTyped
  <2>3. inHand' \in Seq(Events) /\ Len(inHand') = 1 /\ inHand' # <<>>
    BY <2>1, <2>2
  <2>4. Len(pending) <= QueueLimit
    BY <1>1 DEF MonitorTyped
  <2>5. Len(pending') <= QueueLimit
    BY <2>2, <2>4
  <2>6. MonitorTyped'
    BY <1>1, <1>2, <2>1, <2>2, <2>3, <2>5 DEF MonitorTyped
  <2>7. Monitor!Room => Monitor!Room'
    BY <2>2 DEF Monitor!Room
  <2>8. ThreadInHand'
    BY <1>1, <1>2, <1>4, <2>1, <2>3, <2>7 DEF ThreadInHand
  <2>9. QED
    BY <1>5, <2>6, <2>8 DEF Base
<1>9. CASE Monitor!PublishPending
  <2>1. /\ loop = "publish" /\ loop' = "wait" /\ inHand' = <<>>
        /\ published' = published \o inHand /\ pending' = pending
    BY <1>9 DEF Monitor!PublishPending
  <2>2. published' \in Seq(Events)
    BY <1>1, <2>1, ConcatProperties DEF MonitorTyped
  <2>3. MonitorTyped'
    BY <1>1, <1>2, <2>1, <2>2 DEF MonitorTyped
  <2>4. ThreadInHand'
    BY <1>1, <1>2, <1>4, <2>1 DEF ThreadInHand, Monitor!Room
  <2>5. QED
    BY <1>5, <2>3, <2>4 DEF Base
<1>10. CASE Monitor!Wait
  <2>1. loop = "wait" /\ loop' = "check" /\ UNCHANGED <<pending, inHand, published>>
    BY <1>10 DEF Monitor!Wait, Monitor!fates
  <2>2. MonitorTyped'
    BY <1>1, <1>2, <2>1 DEF MonitorTyped
  <2>3. ThreadInHand'
    BY <1>1, <1>2, <1>4, <2>1 DEF ThreadInHand, Monitor!Room
  <2>4. QED
    BY <1>5, <2>2, <2>3 DEF Base
<1>11. QED
  BY <1>0, <1>6, <1>7, <1>8, <1>9, <1>10 DEF Monitor!PublishLoop

LEMMA StepBase == Base /\ IInv /\ [Next]_vars => Base'
<1> SUFFICES ASSUME Base, IInv, [Next]_vars PROVE Base'
  OBVIOUS
<1>1. CASE Streaming \/ UNCHANGED vars
  <2>1. UNCHANGED <<throttled, call, emitted, pending, loop, inHand, published, accepted, dropped,
                    closed, stopSet, at, web_monitor, server, late>>
    BY <1>1, StreamsApart DEF monitor, parts
  <2>2. MonitorTyped' /\ ThreadInHand'
    BY <2>1, MonitorAside DEF Base
  <2>3. CommandInHand'
    BY <2>1 DEF Base, CommandInHand, Closing
  <2>4. QED
    BY <2>2, <2>3 DEF Base
<1>2. QED
  BY <1>1, StartsBase, InterruptBase, StoppingBase, EmitBase, LoopBase DEF Next, Going, IInv

-----------------------------------------------------------------------------
(* Where the events are                                                    *)

R(s) == Monitor!RangeOf(s)

LEMMA RangeAppend ==
  ASSUME NEW S, NEW s \in Seq(S), NEW e \in S
  PROVE  R(Append(s, e)) = R(s) \cup {e} /\ Len(Append(s, e)) = Len(s) + 1
<1>1. /\ Append(s, e) \in Seq(S) /\ Len(Append(s, e)) = Len(s) + 1 /\ Len(s) \in Nat
      /\ \A i \in 1..Len(s) : Append(s, e)[i] = s[i]
      /\ Append(s, e)[Len(s) + 1] = e
  BY AppendProperties
<1>2. \A i \in 1..(Len(s) + 1) : i \in 1..Len(s) \/ i = Len(s) + 1
  BY <1>1
<1>3. QED
  BY <1>1, <1>2 DEF R, Monitor!RangeOf

LEMMA RangeEmpty == R(<<>>) = {}
BY DEF R, Monitor!RangeOf

LEMMA RangeTyped ==
  ASSUME NEW S, NEW s \in Seq(S)
  PROVE  R(s) \subseteq S
BY ElementOfSeq DEF R, Monitor!RangeOf

LEMMA JustOne ==
  ASSUME NEW S, NEW s \in Seq(S), s # <<>>, Len(s) <= 1
  PROVE  \E e \in S : s = <<e>>
<1>1. Len(s) \in Nat /\ Len(s) > 0
  BY HeadTailProperties
<1>2. Len(s) = 1 /\ s[1] \in S
  <2>1. 1 \in 1..Len(s)
    BY <1>1
  <2>2. s[1] \in S
    BY <2>1, ElementOfSeq
  <2>3. \A k \in Nat : k > 0 /\ k <= 1 => k = 1
    OBVIOUS
  <2>4. Len(s) = 1
    BY <1>1, <2>3
  <2>5. QED
    BY <2>2, <2>4
<1> DEFINE u == Append(<<>>, s[1])
<1>3. u \in Seq(S) /\ Len(u) = 1 /\ u[1] = s[1] /\ u = <<s[1]>>
  BY <1>2, EmptySeq, AppendProperties
<1> HIDE DEF u
<1>4. s = u
  BY <1>2, <1>3, SeqEqual
<1>5. QED
  BY <1>2, <1>3, <1>4

(* The oldest of what waits, all of it distinct.                            *)
LEMMA RangeHead ==
  ASSUME NEW S, NEW s \in Seq(S), s # <<>>, Distinct(s)
  PROVE  /\ R(s) = {Head(s)} \cup R(Tail(s))
         /\ Head(s) \notin R(Tail(s))
         /\ Distinct(Tail(s))
<1>1. /\ Len(s) \in Nat /\ Len(s) > 0 /\ Head(s) = s[1]
      /\ Len(Tail(s)) = Len(s) - 1
      /\ \A i \in 1..Len(Tail(s)) : Tail(s)[i] = s[i + 1]
  BY HeadTailProperties, EmptySeq
<1>2. ASSUME NEW i \in 1..Len(s)
      PROVE  s[i] \in {Head(s)} \cup R(Tail(s))
  <2>1. CASE i = 1
    BY <1>1, <2>1
  <2>2. CASE i > 1
    <3>1. i - 1 \in 1..Len(Tail(s)) /\ Tail(s)[i - 1] = s[i]
      BY <1>1, <2>2
    <3>2. QED
      BY <3>1 DEF R, Monitor!RangeOf
  <2>3. QED
    BY <2>1, <2>2
<1>3. Head(s) \in R(s)
  BY <1>1 DEF R, Monitor!RangeOf
<1>4. \A i \in 1..Len(Tail(s)) : i + 1 \in 1..Len(s) /\ i + 1 # 1
  BY <1>1
<1>5. \A i \in 1..Len(Tail(s)) : Tail(s)[i] \in R(s) /\ Tail(s)[i] # Head(s)
  <2>1. SUFFICES ASSUME NEW i \in 1..Len(Tail(s))
                 PROVE  Tail(s)[i] \in R(s) /\ Tail(s)[i] # Head(s)
    OBVIOUS
  <2>2. i + 1 \in 1..Len(s) /\ i + 1 # 1 /\ 1 \in 1..Len(s) /\ Tail(s)[i] = s[i + 1]
    BY <1>1, <1>4
  <2>3. s[i + 1] # s[1]
    BY <2>2 DEF Distinct
  <2>4. QED
    BY <1>1, <2>2, <2>3 DEF R, Monitor!RangeOf
<1>6. Distinct(Tail(s))
  <2>1. SUFFICES ASSUME NEW i \in 1..Len(Tail(s)), NEW j \in 1..Len(Tail(s)),
                        Tail(s)[i] = Tail(s)[j]
                 PROVE  i = j
    BY DEF Distinct
  <2>2. i + 1 \in 1..Len(s) /\ j + 1 \in 1..Len(s) /\ s[i + 1] = s[j + 1]
    BY <1>1, <1>4, <2>1
  <2>3. i + 1 = j + 1
    BY <2>2 DEF Distinct
  <2>4. QED
    BY <1>1, <2>3
<1>7. R(s) \subseteq {Head(s)} \cup R(Tail(s))
  BY <1>2 DEF R, Monitor!RangeOf
<1>8. R(Tail(s)) \subseteq R(s) /\ Head(s) \notin R(Tail(s))
  BY <1>5 DEF R, Monitor!RangeOf
<1>9. QED
  BY <1>3, <1>6, <1>7, <1>8

LEMMA DistinctAppend ==
  ASSUME NEW S, NEW s \in Seq(S), NEW e \in S, Distinct(s), e \notin R(s)
  PROVE  Distinct(Append(s, e))
<1> DEFINE u == Append(s, e)
<1>1. /\ Len(u) = Len(s) + 1 /\ Len(s) \in Nat
      /\ \A i \in 1..Len(s) : u[i] = s[i]
      /\ u[Len(s) + 1] = e
  BY AppendProperties
<1>2. \A i \in 1..Len(s) : s[i] # e
  BY DEF R, Monitor!RangeOf
<1> HIDE DEF u
<1>3. SUFFICES ASSUME NEW i \in 1..Len(u), NEW j \in 1..Len(u), u[i] = u[j] PROVE i = j
  BY DEF Distinct, u
<1>4. /\ i \in 1..Len(s) \/ i = Len(s) + 1
      /\ j \in 1..Len(s) \/ j = Len(s) + 1
  BY <1>1
<1>5. CASE i \in 1..Len(s) /\ j \in 1..Len(s)
  BY <1>1, <1>3, <1>5 DEF Distinct
<1>6. QED
  BY <1>1, <1>2, <1>3, <1>4, <1>5

LEMMA RangeOne == \A x : R(<<x>>) = {x}
<1> SUFFICES ASSUME NEW x PROVE R(<<x>>) = {x}
  OBVIOUS
<1> DEFINE s == <<x>>
<1>1. Len(s) = 1 /\ s[1] = x /\ 1..1 = {1}
  OBVIOUS
<1> HIDE DEF s
<1>2. R(s) = {x}
  BY <1>1 DEF R, Monitor!RangeOf
<1>3. QED
  BY <1>2 DEF s

LEMMA EnteringIs ==
  /\ call[main] \in {"put", "evict", "putAgain", "direct"} =>
       Entering = {Monitor!Event(main)} /\ Cardinality(Entering) = 1
  /\ call[main] \notin {"put", "evict", "putAgain", "direct"} =>
       Entering = {} /\ Cardinality(Entering) = 0
BY FS_EmptySet, FS_Singleton DEF Entering

(* Everything where it was.                                                 *)
LEMMA SamePlaces ==
  ASSUME EventsInPlace, call'[main] = call[main],
         UNCHANGED <<emitted, published, inHand, pending, accepted, dropped>>
  PROVE  EventsInPlace'
<1>1. Entering' = Entering /\ Passed' = Passed
  BY DEF Entering, Passed, Monitor!Event
<1>2. QED
  BY <1>1 DEF EventsInPlace

LEMMA Counts ==
  ASSUME NEW a \in Seq(Events), NEW p \in Seq(Events), NEW h \in Seq(Events),
         NEW q \in Seq(Events), NEW d, IsFiniteSet(d)
  PROVE  /\ Len(a) \in Nat /\ Len(p) \in Nat /\ Len(h) \in Nat /\ Len(q) \in Nat
         /\ Cardinality(d) \in Nat
         /\ Cardinality({}) = 0 /\ \A e : Cardinality({e}) = 1
         /\ Len(<<>>) = 0 /\ \A e : Len(<<e>>) = 1
<1>1. Cardinality(d) \in Nat /\ Cardinality({}) = 0
  BY FS_CardinalityType, FS_EmptySet
<1>2. \A e : Cardinality({e}) = 1
  BY FS_Singleton
<1>3. Len(a) \in Nat /\ Len(p) \in Nat /\ Len(h) \in Nat /\ Len(q) \in Nat
  OBVIOUS
<1>4. Len(<<>>) = 0 /\ \A e : Len(<<e>>) = 1
  OBVIOUS
<1>5. QED
  BY <1>1, <1>2, <1>3, <1>4

(* An event is accepted.                                                    *)
LEMMA EnterPlaces ==
  ASSUME NEW a \in Seq(Events), NEW p \in Seq(Events), NEW h \in Seq(Events),
         NEW q \in Seq(Events), NEW d, NEW n \in Int, NEW e \in Events,
         InPlace(a, p, h, q, {}, d, n)
  PROVE  InPlace(Append(a, e), p, h, q, {e}, d, n)
<1>1. R(Append(a, e)) = R(a) \cup {e} /\ Len(Append(a, e)) = Len(a) + 1
  BY RangeAppend
<1>2. IsFiniteSet(d)
  BY DEF InPlace
<1>3. Len(Append(a, e)) = Len(p) + Len(h) + Len(q) + Cardinality({e}) + Cardinality(d)
  <2>1. Len(a) = Len(p) + Len(h) + Len(q) + Cardinality({}) + Cardinality(d)
    BY DEF InPlace
  <2>2. Len(p) \in Nat /\ Len(h) \in Nat /\ Len(q) \in Nat /\ Cardinality(d) \in Nat
    BY <1>2, Counts
  <2>3. Cardinality({}) = 0 /\ Cardinality({e}) = 1
    BY <1>2, Counts
  <2>4. QED
    BY <1>1, <2>1, <2>2, <2>3
<1>4. R(Append(a, e)) = R(p) \cup R(h) \cup R(q) \cup {e} \cup d
  BY <1>1 DEF InPlace, R
<1>5. QED
  BY <1>3, <1>4 DEF InPlace, R

(* It is published directly.                                                *)
LEMMA DirectPlaces ==
  ASSUME NEW a \in Seq(Events), NEW p \in Seq(Events), NEW h \in Seq(Events),
         NEW q \in Seq(Events), NEW d, d \subseteq Events, NEW n \in Int, NEW e \in Events,
         e[2] = n + 1, InPlace(a, p, h, q, {e}, d, n)
  PROVE  InPlace(a, Append(p, e), h, q, {}, d, n + 1)
<1>1. R(Append(p, e)) = R(p) \cup {e} /\ Len(Append(p, e)) = Len(p) + 1
  BY RangeAppend
<1>2. IsFiniteSet(d)
  BY DEF InPlace
<1>3. \A x \in R(p) \cup R(h) \cup R(q) \cup d : x[2] <= n
  BY DEF InPlace, R
<1>4. \A x \in R(p) \cup R(h) \cup R(q) \cup d : x[2] \in Int /\ x[2] <= n + 1 /\ x # e
  <2>1. R(p) \cup R(h) \cup R(q) \cup d \subseteq Events
    BY RangeTyped
  <2>2. \A x \in Events : x[2] \in Int
    BY CommandAssumption DEF Events
  <2>3. QED
    BY <1>3, <2>1, <2>2
<1>5. Len(a) = Len(Append(p, e)) + Len(h) + Len(q) + Cardinality({}) + Cardinality(d)
  <2>1. Len(a) = Len(p) + Len(h) + Len(q) + Cardinality({e}) + Cardinality(d)
    BY DEF InPlace
  <2>2. Len(p) \in Nat /\ Len(h) \in Nat /\ Len(q) \in Nat /\ Cardinality(d) \in Nat
    BY <1>2, Counts
  <2>3. Cardinality({}) = 0 /\ Cardinality({e}) = 1
    BY <1>2, Counts
  <2>4. QED
    BY <1>1, <2>1, <2>2, <2>3
<1>6. /\ R(a) = R(p) \cup R(h) \cup R(q) \cup {e} \cup d
      /\ d \cap (R(p) \cup R(h) \cup R(q)) = {}
      /\ R(q) \cap (R(p) \cup R(h)) = {}
      /\ Distinct(q)
  BY DEF InPlace, R
<1>7. /\ R(a) = R(Append(p, e)) \cup R(h) \cup R(q) \cup {} \cup d
      /\ d \cap (R(Append(p, e)) \cup R(h) \cup R(q)) = {}
      /\ R(q) \cap (R(Append(p, e)) \cup R(h)) = {}
      /\ \A x \in R(Append(p, e)) \cup R(h) \cup R(q) \cup d : x[2] <= n + 1
  <2>1. R(a) = R(Append(p, e)) \cup R(h) \cup R(q) \cup {} \cup d
    BY <1>1, <1>6
  <2>2. /\ d \cap (R(Append(p, e)) \cup R(h) \cup R(q)) = {}
        /\ R(q) \cap (R(Append(p, e)) \cup R(h)) = {}
    BY <1>1, <1>4, <1>6
  <2>3. \A x \in R(Append(p, e)) \cup R(h) \cup R(q) \cup d : x[2] <= n + 1
    BY <1>1, <1>4
  <2>4. QED
    BY <2>1, <2>2, <2>3
<1>8. QED
  BY <1>2, <1>5, <1>6, <1>7 DEF InPlace, R

(* It is put.                                                              *)
LEMMA PutPlaces ==
  ASSUME NEW a \in Seq(Events), NEW p \in Seq(Events), NEW h \in Seq(Events),
         NEW q \in Seq(Events), NEW d, d \subseteq Events, NEW n \in Int, NEW e \in Events,
         e[2] = n + 1, InPlace(a, p, h, q, {e}, d, n)
  PROVE  InPlace(a, p, h, Append(q, e), {}, d, n + 1)
<1>1. R(Append(q, e)) = R(q) \cup {e} /\ Len(Append(q, e)) = Len(q) + 1
  BY RangeAppend
<1>2. IsFiniteSet(d)
  BY DEF InPlace
<1>3. \A x \in R(p) \cup R(h) \cup R(q) \cup d : x[2] <= n
  BY DEF InPlace, R
<1>4. \A x \in R(p) \cup R(h) \cup R(q) \cup d : x[2] \in Int /\ x[2] <= n + 1 /\ x # e
  <2>1. R(p) \cup R(h) \cup R(q) \cup d \subseteq Events
    BY RangeTyped
  <2>2. \A x \in Events : x[2] \in Int
    BY CommandAssumption DEF Events
  <2>3. QED
    BY <1>3, <2>1, <2>2
<1>5. Len(a) = Len(p) + Len(h) + Len(Append(q, e)) + Cardinality({}) + Cardinality(d)
  <2>1. Len(a) = Len(p) + Len(h) + Len(q) + Cardinality({e}) + Cardinality(d)
    BY DEF InPlace
  <2>2. Len(p) \in Nat /\ Len(h) \in Nat /\ Len(q) \in Nat /\ Cardinality(d) \in Nat
    BY <1>2, Counts
  <2>3. Cardinality({}) = 0 /\ Cardinality({e}) = 1
    BY <1>2, Counts
  <2>4. QED
    BY <1>1, <2>1, <2>2, <2>3
<1>6. /\ R(a) = R(p) \cup R(h) \cup R(q) \cup {e} \cup d
      /\ d \cap (R(p) \cup R(h) \cup R(q)) = {}
      /\ R(q) \cap (R(p) \cup R(h)) = {}
      /\ Distinct(q)
  BY DEF InPlace, R
<1>7. /\ R(a) = R(p) \cup R(h) \cup R(Append(q, e)) \cup {} \cup d
      /\ d \cap (R(p) \cup R(h) \cup R(Append(q, e))) = {}
      /\ R(Append(q, e)) \cap (R(p) \cup R(h)) = {}
      /\ \A x \in R(p) \cup R(h) \cup R(Append(q, e)) \cup d : x[2] <= n + 1
  <2>1. R(a) = R(p) \cup R(h) \cup R(Append(q, e)) \cup {} \cup d
    BY <1>1, <1>6
  <2>2. /\ d \cap (R(p) \cup R(h) \cup R(Append(q, e))) = {}
        /\ R(Append(q, e)) \cap (R(p) \cup R(h)) = {}
    BY <1>1, <1>4, <1>6
  <2>3. \A x \in R(p) \cup R(h) \cup R(Append(q, e)) \cup d : x[2] <= n + 1
    BY <1>1, <1>4
  <2>4. QED
    BY <2>1, <2>2, <2>3
<1>8. Distinct(Append(q, e))
  BY <1>4, <1>6, DistinctAppend
<1>9. QED
  BY <1>2, <1>5, <1>7, <1>8 DEF InPlace, R

(* The oldest that waits makes room for it.                                 *)
LEMMA EvictPlaces ==
  ASSUME NEW a \in Seq(Events), NEW p \in Seq(Events), NEW h \in Seq(Events),
         NEW q \in Seq(Events), q # <<>>, NEW d, NEW n \in Int, NEW e \in Events,
         InPlace(a, p, h, q, {e}, d, n)
  PROVE  InPlace(a, p, h, Tail(q), {e}, d \cup {Head(q)}, n)
<1> DEFINE x == Head(q)
           u == Tail(q)
           f == d \cup {x}
<1>1. /\ R(a) = R(p) \cup R(h) \cup R(q) \cup {e} \cup d
      /\ d \cap (R(p) \cup R(h) \cup R(q)) = {}
      /\ R(q) \cap (R(p) \cup R(h)) = {}
      /\ \A y \in R(p) \cup R(h) \cup R(q) \cup d : y[2] <= n
      /\ Distinct(q) /\ IsFiniteSet(d)
  BY DEF InPlace, R
<1>2. Len(a) = Len(p) + Len(h) + Len(q) + Cardinality({e}) + Cardinality(d)
  BY DEF InPlace
<1>3. R(q) = {x} \cup R(u) /\ x \notin R(u) /\ Distinct(u)
  BY <1>1, RangeHead
<1>4. Len(u) = Len(q) - 1 /\ u \in Seq(Events)
  BY HeadTailProperties
<1> HIDE DEF x, u, f
<1>5. x \notin d
  BY <1>1, <1>3
<1>6. IsFiniteSet(f) /\ Cardinality(f) = Cardinality(d) + 1
  BY <1>1, <1>5, FS_AddElement DEF f
<1>7. Len(a) = Len(p) + Len(h) + Len(u) + Cardinality({e}) + Cardinality(f)
  <2>1. Len(p) \in Nat /\ Len(h) \in Nat /\ Len(q) \in Nat /\ Cardinality(d) \in Nat
    BY <1>1, Counts
  <2>2. Cardinality({e}) = 1
    BY <1>1, Counts
  <2>3. QED
    BY <1>2, <1>4, <1>6, <2>1, <2>2
<1>8. /\ R(a) = R(p) \cup R(h) \cup R(u) \cup {e} \cup f
      /\ f \cap (R(p) \cup R(h) \cup R(u)) = {}
      /\ R(u) \cap (R(p) \cup R(h)) = {}
      /\ \A y \in R(p) \cup R(h) \cup R(u) \cup f : y[2] <= n
  BY <1>1, <1>3 DEF f
<1>9. InPlace(a, p, h, u, {e}, f, n)
  BY <1>3, <1>6, <1>7, <1>8 DEF InPlace, R
<1>10. QED
  BY <1>9 DEF f, u, x

(* The thread takes the oldest, and publishes it.                           *)
LEMMA GetPlaces ==
  ASSUME NEW a \in Seq(Events), NEW p \in Seq(Events),
         NEW q \in Seq(Events), q # <<>>, NEW w, NEW d, NEW n \in Int,
         Cardinality(w) \in Nat, InPlace(a, p, <<>>, q, w, d, n)
  PROVE  InPlace(a, p, <<Head(q)>>, Tail(q), w, d, n)
<1> DEFINE x == Head(q)
           u == Tail(q)
<1>1. /\ R(a) = R(p) \cup R(<<>>) \cup R(q) \cup w \cup d
      /\ d \cap (R(p) \cup R(<<>>) \cup R(q)) = {}
      /\ R(q) \cap (R(p) \cup R(<<>>)) = {}
      /\ \A y \in R(p) \cup R(<<>>) \cup R(q) \cup d : y[2] <= n
      /\ Distinct(q) /\ IsFiniteSet(d)
  BY DEF InPlace, R
<1>2. Len(a) = Len(p) + Len(<<>>) + Len(q) + Cardinality(w) + Cardinality(d)
  BY DEF InPlace
<1>3. R(q) = {x} \cup R(u) /\ x \notin R(u) /\ Distinct(u)
  BY <1>1, RangeHead
<1>4. Len(u) = Len(q) - 1 /\ u \in Seq(Events) /\ x \in Events
  BY HeadTailProperties
<1> HIDE DEF x, u
<1>5. R(<<x>>) = {x} /\ R(<<>>) = {}
  BY RangeOne, RangeEmpty
<1>6. Len(a) = Len(p) + Len(<<x>>) + Len(u) + Cardinality(w) + Cardinality(d)
  <2>1. Len(p) \in Nat /\ Len(q) \in Nat /\ Cardinality(d) \in Nat
    BY <1>1, Counts, EmptySeq
  <2>2. Len(<<>>) = 0 /\ Len(<<x>>) = 1
    OBVIOUS
  <2>3. QED
    BY <1>2, <1>4, <2>1, <2>2
<1>7. /\ R(a) = R(p) \cup R(<<x>>) \cup R(u) \cup w \cup d
      /\ d \cap (R(p) \cup R(<<x>>) \cup R(u)) = {}
      /\ R(u) \cap (R(p) \cup R(<<x>>)) = {}
      /\ \A y \in R(p) \cup R(<<x>>) \cup R(u) \cup d : y[2] <= n
  BY <1>1, <1>3, <1>5
<1>8. InPlace(a, p, <<x>>, u, w, d, n)
  BY <1>1, <1>3, <1>6, <1>7 DEF InPlace, R
<1>9. QED
  BY <1>8 DEF u, x

LEMMA PublishPlaces ==
  ASSUME NEW a \in Seq(Events), NEW p \in Seq(Events), NEW q \in Seq(Events),
         NEW w, NEW d, NEW n \in Int, NEW e \in Events,
         Cardinality(w) \in Nat, InPlace(a, p, <<e>>, q, w, d, n)
  PROVE  InPlace(a, Append(p, e), <<>>, q, w, d, n)
<1>1. R(Append(p, e)) = R(p) \cup {e} /\ Len(Append(p, e)) = Len(p) + 1
  BY RangeAppend
<1>2. R(<<e>>) = {e} /\ R(<<>>) = {}
  BY RangeOne, RangeEmpty
<1>3. /\ R(a) = R(p) \cup R(<<e>>) \cup R(q) \cup w \cup d
      /\ d \cap (R(p) \cup R(<<e>>) \cup R(q)) = {}
      /\ R(q) \cap (R(p) \cup R(<<e>>)) = {}
      /\ \A y \in R(p) \cup R(<<e>>) \cup R(q) \cup d : y[2] <= n
      /\ Distinct(q) /\ IsFiniteSet(d)
  BY DEF InPlace, R
<1>4. Len(a) = Len(Append(p, e)) + Len(<<>>) + Len(q) + Cardinality(w) + Cardinality(d)
  <2>1. Len(a) = Len(p) + Len(<<e>>) + Len(q) + Cardinality(w) + Cardinality(d)
    BY DEF InPlace
  <2>2. QED
    <3>1. Len(p) \in Nat /\ Len(q) \in Nat /\ Cardinality(d) \in Nat
      BY <1>3, Counts, EmptySeq
    <3>2. Len(<<>>) = 0 /\ Len(<<e>>) = 1
      OBVIOUS
    <3>3. QED
      BY <1>1, <2>1, <3>1, <3>2
<1>5. /\ R(a) = R(Append(p, e)) \cup R(<<>>) \cup R(q) \cup w \cup d
      /\ d \cap (R(Append(p, e)) \cup R(<<>>) \cup R(q)) = {}
      /\ R(q) \cap (R(Append(p, e)) \cup R(<<>>)) = {}
      /\ \A y \in R(Append(p, e)) \cup R(<<>>) \cup R(q) \cup d : y[2] <= n
  BY <1>1, <1>2, <1>3
<1>6. QED
  BY <1>3, <1>4, <1>5 DEF InPlace, R

LEMMA EmitEvents ==
  ASSUME Base, EventsInPlace, Emit
  PROVE  EventsInPlace'
<1>1. MonitorTyped /\ CommandInHand /\ ThreadInHand
  BY DEF Base
<1>2. /\ accepted \in Seq(Events) /\ published \in Seq(Events) /\ inHand \in Seq(Events)
      /\ pending \in Seq(Events) /\ dropped \subseteq Events
      /\ emitted[main] \in Int /\ main \in DOMAIN emitted /\ main \in DOMAIN call
  BY <1>1, CommandAssumption DEF MonitorTyped
<1> DEFINE e == Monitor!Event(main)
           n == emitted[main] - 1
<1>3. call[main] # "outside" => e \in Events /\ e[2] = n + 1
  BY <1>1, <1>2, EventTyped DEF Monitor!Event
<1>4. n \in Int /\ n + 1 = emitted[main]
  BY <1>2
<1>5. CASE Monitor!OnEvent(main)
  <2>1. /\ call[main] \in {"outside", "entered", "put", "evict", "putAgain", "direct"}
        /\ emitted'[main] = emitted[main] + 1 /\ call'[main] = "entered"
        /\ UNCHANGED <<pending, inHand, published, accepted, dropped>>
    BY <1>1, <1>2, <1>5 DEF Monitor!OnEvent, Monitor!Goto, Monitor!thread, Monitor!fates, MonitorTyped
  <2>2. call[main] = "outside"
    BY <1>5 DEF Monitor!OnEvent, Monitor!Outside
  <2>3. Entering = {} /\ Entering' = {} /\ Passed' = Passed
    BY <1>2, <2>1, <2>2 DEF Entering, Passed
  <2>4. QED
    BY <2>1, <2>3 DEF EventsInPlace
<1>6. CASE Monitor!Enter(main)
  <2>1. /\ call[main] = "entered" /\ ~closed
        /\ UNCHANGED <<emitted, pending, inHand, published, dropped>>
    BY <1>1, <1>6 DEF Monitor!Enter, Monitor!stops, Monitor!thread, CommandInHand, Emit
  <2>2. /\ call'[main] \in {"put", "direct"}
        /\ accepted' = Append(accepted, e)
    BY <1>2, <1>6, <2>1 DEF Monitor!Enter, Monitor!Accept, Monitor!Goto
  <2>3. Entering = {} /\ Entering' = {e} /\ Passed = n /\ Passed' = n
    BY <2>1, <2>2 DEF Entering, Passed, Monitor!Event
  <2>4. InPlace(accepted, published, inHand, pending, {}, dropped, n)
    BY <2>3 DEF EventsInPlace
  <2>5. e \in Events
    BY <1>3, <2>1
  <2> HIDE DEF e, n
  <2>6. InPlace(Append(accepted, e), published, inHand, pending, {e}, dropped, n)
    BY <1>2, <1>4, <2>4, <2>5, EnterPlaces
  <2>7. QED
    BY <2>1, <2>2, <2>3, <2>6 DEF EventsInPlace
<1>7. CASE Monitor!PublishDirect(main)
  <2>1. /\ call[main] = "direct" /\ call'[main] = "outside"
        /\ published' = Append(published, e)
        /\ UNCHANGED <<emitted, pending, inHand, accepted, dropped>>
    BY <1>2, <1>7 DEF Monitor!PublishDirect, Monitor!Goto, Monitor!stops, Monitor!thread
  <2>2. Entering = {e} /\ Entering' = {} /\ Passed = n /\ Passed' = n + 1
    BY <1>4, <2>1 DEF Entering, Passed
  <2>3. InPlace(accepted, published, inHand, pending, {e}, dropped, n)
    BY <2>2 DEF EventsInPlace
  <2>4. e \in Events /\ e[2] = n + 1
    BY <1>3, <2>1
  <2> HIDE DEF e, n
  <2>5. InPlace(accepted, Append(published, e), inHand, pending, {}, dropped, n + 1)
    BY <1>2, <1>4, <2>3, <2>4, DirectPlaces
  <2>6. QED
    BY <2>1, <2>2, <2>5 DEF EventsInPlace
<1>8. CASE Monitor!Put(main) \/ Monitor!PutAgain(main)
  <2>1. /\ call[main] \in {"put", "putAgain"}
        /\ UNCHANGED <<emitted, inHand, published, accepted, dropped>>
    BY <1>8 DEF Monitor!Put, Monitor!PutAgain, Monitor!stops, Monitor!thread, Monitor!fates
  <2>2. Entering = {e} /\ Passed = n
    BY <2>1 DEF Entering, Passed
  <2>3. InPlace(accepted, published, inHand, pending, {e}, dropped, n)
    BY <2>2 DEF EventsInPlace
  <2>4. CASE Monitor!Room
    <3>1. call'[main] = "outside" /\ pending' = Append(pending, e)
      BY <1>2, <1>8, <2>4 DEF Monitor!Put, Monitor!PutAgain, Monitor!Goto
    <3>2. Entering' = {} /\ Passed' = n + 1
      BY <1>4, <2>1, <3>1 DEF Entering, Passed
    <3>3. e \in Events /\ e[2] = n + 1
      BY <1>3, <2>1
    <3> HIDE DEF e, n
    <3>4. InPlace(accepted, published, inHand, Append(pending, e), {}, dropped, n + 1)
      BY <1>2, <1>4, <2>3, <3>3, PutPlaces
    <3>5. QED
      BY <2>1, <3>1, <3>2, <3>4 DEF EventsInPlace
  <2>5. CASE ~Monitor!Room
    <3>1. Monitor!Put(main) /\ call'[main] = "evict" /\ pending' = pending
      BY <1>1, <1>2, <1>8, <2>5 DEF Monitor!Put, Monitor!PutAgain, Monitor!Goto, ThreadInHand
    <3>2. Entering' = Entering /\ Passed' = Passed
      BY <2>1, <3>1 DEF Entering, Passed, Monitor!Event
    <3>3. QED
      BY <2>1, <3>1, <3>2 DEF EventsInPlace
  <2>6. QED
    BY <2>4, <2>5
<1>9. CASE Monitor!Evict(main)
  <2>1. /\ call[main] = "evict" /\ call'[main] = "putAgain"
        /\ UNCHANGED <<emitted, inHand, published, accepted>>
    BY <1>2, <1>9 DEF Monitor!Evict, Monitor!Goto, Monitor!stops, Monitor!thread
  <2>2. Entering = {e} /\ Entering' = {e} /\ Passed = n /\ Passed' = n
    BY <2>1 DEF Entering, Passed, Monitor!Event
  <2>3. InPlace(accepted, published, inHand, pending, {e}, dropped, n)
    BY <2>2 DEF EventsInPlace
  <2>4. CASE pending = <<>>
    BY <1>9, <2>1, <2>2, <2>3, <2>4 DEF Monitor!Evict, EventsInPlace
  <2>5. CASE pending # <<>>
    <3>1. pending' = Tail(pending) /\ dropped' = dropped \cup {Head(pending)}
      BY <1>9, <2>5 DEF Monitor!Evict
    <3>2. e \in Events
      BY <1>3, <2>1
    <3> HIDE DEF e, n
    <3>3. InPlace(accepted, published, inHand, Tail(pending), {e}, dropped \cup {Head(pending)}, n)
      BY <1>2, <1>4, <2>3, <2>5, <3>2, EvictPlaces
    <3>4. QED
      BY <2>1, <2>2, <3>1, <3>3 DEF EventsInPlace
  <2>6. QED
    BY <2>4, <2>5
<1>10. QED
  BY <1>5, <1>6, <1>7, <1>8, <1>9 DEF Emit, Monitor!InCall

LEMMA LoopEvents ==
  ASSUME Base, EventsInPlace, PublishLoop
  PROVE  EventsInPlace'
<1>1. MonitorTyped /\ CommandInHand /\ ThreadInHand
  BY DEF Base
<1>2. UNCHANGED <<call, emitted, accepted, dropped>>
  BY DEF PublishLoop, Monitor!PublishLoop, Monitor!MayLeave, Monitor!Get, Monitor!PublishPending,
         Monitor!Wait, Monitor!callers, Monitor!stops, Monitor!fates
<1>3. /\ accepted \in Seq(Events) /\ published \in Seq(Events) /\ inHand \in Seq(Events)
      /\ pending \in Seq(Events) /\ emitted[main] \in Int
  BY <1>1, CommandAssumption DEF MonitorTyped
<1>4. Entering' = Entering /\ Passed' = Passed /\ Cardinality(Entering) \in Nat /\ Passed \in Int
  BY <1>2, <1>3, EnteringIs DEF Entering, Passed, Monitor!Event
<1>5. CASE UNCHANGED <<pending, inHand, published>>
  BY <1>2, <1>4, <1>5 DEF EventsInPlace
<1>6. CASE Monitor!Get /\ pending # <<>>
  <2>1. /\ loop = "get" /\ inHand' = <<Head(pending)>>
        /\ pending' = Tail(pending) /\ published' = published
    BY <1>6 DEF Monitor!Get, Monitor!fates
  <2>2. inHand = <<>>
    BY <1>1, <2>1 DEF ThreadInHand
  <2>3. InPlace(accepted, published, <<>>, pending, Entering, dropped, Passed)
    BY <2>2 DEF EventsInPlace
  <2>4. InPlace(accepted, published, <<Head(pending)>>, Tail(pending), Entering, dropped, Passed)
    BY <1>3, <1>4, <1>6, <2>3, GetPlaces
  <2>5. QED
    BY <1>2, <1>4, <2>1, <2>4 DEF EventsInPlace
<1>7. CASE Monitor!PublishPending
  <2>1. /\ loop = "publish" /\ inHand' = <<>>
        /\ published' = published \o inHand /\ pending' = pending
    BY <1>7 DEF Monitor!PublishPending
  <2>2. PICK e \in Events : inHand = <<e>>
    BY <1>1, <1>3, <2>1, JustOne DEF ThreadInHand, MonitorTyped
  <2>3. published' = Append(published, e)
    BY <1>3, <2>1, <2>2, AppendIsConcat
  <2>4. InPlace(accepted, published, <<e>>, pending, Entering, dropped, Passed)
    BY <2>2 DEF EventsInPlace
  <2>5. InPlace(accepted, Append(published, e), <<>>, pending, Entering, dropped, Passed)
    BY <1>3, <1>4, <2>4, PublishPlaces
  <2>6. QED
    BY <1>2, <1>4, <2>1, <2>3, <2>5 DEF EventsInPlace
<1>8. QED
  BY <1>5, <1>6, <1>7 DEF PublishLoop, Monitor!PublishLoop, Monitor!MayLeave, Monitor!Get,
                          Monitor!Wait, Monitor!fates

LEMMA StepEvents == Base /\ EventsInHand /\ [Next]_vars => EventsInHand'
<1> SUFFICES ASSUME Base, EventsInHand, [Next]_vars, at' # "ended" \/ Closing'
             PROVE  EventsInPlace'
  BY DEF EventsInHand
<1>1. ASSUME UNCHANGED <<emitted, published, inHand, pending, accepted, dropped>>,
             call'[main] = call[main], at # "ended" \/ Closing
      PROVE  EventsInPlace'
  BY <1>1, SamePlaces DEF EventsInHand
<1>2. CASE StartServer \/ MakeMonitor \/ Announce \/ RunEnds \/ Farewell
  <2>1. monitor' = monitor /\ at # "ended"
    BY <1>2 DEF StartServer, MakeMonitor, Announce, RunEnds, Farewell, To, Leave, Handle
  <2>2. QED
    BY <1>1, <2>1 DEF monitor
<1>3. CASE Interrupt
  <2>1. at' = IF at = "wait" THEN "stop" ELSE "ended"
    BY <1>3 DEF Interrupt
  <2>2. /\ at # "ended" /\ call' = [call EXCEPT ![main] = "outside"]
        /\ UNCHANGED <<emitted, published, inHand, pending, accepted, dropped, server>>
    BY <1>3 DEF Interrupt, parts
  <2>3. at # "run"
    BY <2>1, <2>2 DEF Base, CommandInHand, Closing
  <2>4. call'[main] = call[main]
    BY <2>2, <2>3 DEF Base, CommandInHand, MonitorTyped
  <2>5. QED
    BY <1>1, <2>2, <2>4
<1>4. CASE Stopping \/ ServeForever \/ ReplayPublished
  <2>1. UNCHANGED <<call, emitted, published, inHand, pending, accepted, dropped>>
    BY <1>4 DEF Stopping, StopMonitor, SetStopEvent, Joined, Shutdown, ServerClose, ServeForever,
                ReplayPublished, Monitor!Stop, Monitor!SetStopEvent, Monitor!Joined, To, monitor,
                Monitor!callers, Monitor!thread, Monitor!fates
  <2>2. at # "ended" \/ Closing
    BY <1>4 DEF Stopping, StopMonitor, SetStopEvent, Joined, Shutdown, ServerClose, ServeForever,
                ReplayPublished, Closing
  <2>3. QED
    BY <1>1, <2>1, <2>2
<1>5. CASE Emit
  BY <1>5, EmitEvents DEF Emit, EventsInHand
<1>6. CASE PublishLoop
  <2>1. at # "ended" \/ Closing
    BY <1>6 DEF PublishLoop, parts, Closing
  <2>2. QED
    BY <1>6, <2>1, LoopEvents DEF EventsInHand
<1>7. CASE Streaming \/ UNCHANGED vars
  BY <1>1, <1>7, StreamsApart DEF monitor, parts, Closing
<1>8. QED
  BY <1>2, <1>3, <1>4, <1>5, <1>6, <1>7 DEF Next, Going

LEMMA InitEvents == Init => EventsInHand
<1> SUFFICES ASSUME Init PROVE EventsInPlace
  BY DEF EventsInHand
<1>1. /\ accepted = <<>> /\ published = <<>> /\ inHand = <<>> /\ pending = <<>>
      /\ dropped = {} /\ Entering = {}
  BY DEF Init, Monitor!Init, Entering
<1>2. Len(<<>>) = 0 /\ Cardinality({}) = 0 /\ IsFiniteSet({}) /\ Distinct(<<>>)
  BY FS_EmptySet DEF Distinct
<1>3. InPlace(<<>>, <<>>, <<>>, <<>>, {}, {}, Passed)
  BY <1>2, RangeEmpty DEF InPlace, R
<1>4. QED
  BY <1>1, <1>3 DEF EventsInPlace

LEMMA PublishedWhenClosing == Base /\ EventsInHand => PublishedBeforeClosed
<1> SUFFICES ASSUME Base, EventsInHand, Closing, ~late
             PROVE  /\ pending = <<>> /\ inHand = <<>>
                    /\ R(published) = R(accepted) \ dropped
                    /\ Len(published) + Cardinality(dropped) = Len(accepted)
  BY DEF PublishedBeforeClosed, R
<1>1. MonitorTyped /\ CommandInHand /\ ThreadInHand
  BY DEF Base
<1>2. pending = <<>> /\ inHand = <<>>
  <2>1. ~web_monitor \/ ~throttled \/ loop = "done"
    BY <1>1 DEF CommandInHand
  <2>2. CASE ~web_monitor
    BY <1>1, <2>2 DEF CommandInHand
  <2>3. CASE ~throttled
    BY <1>1, <2>3 DEF ThreadInHand
  <2>4. CASE loop = "done"
    BY <1>1, <2>4 DEF ThreadInHand
  <2>5. QED
    BY <2>1, <2>2, <2>3, <2>4
<1>3. call[main] = "outside"
  BY <1>1 DEF CommandInHand
<1>4. Entering = {}
  BY <1>3 DEF Entering
<1>5. InPlace(accepted, published, <<>>, <<>>, {}, dropped, Passed)
  BY <1>2, <1>4 DEF EventsInHand, EventsInPlace
<1>6. R(published) = R(accepted) \ dropped
  <2>1. /\ R(accepted) = R(published) \cup R(<<>>) \cup R(<<>>) \cup {} \cup dropped
        /\ dropped \cap (R(published) \cup R(<<>>) \cup R(<<>>)) = {}
    BY <1>5 DEF InPlace, R
  <2>2. QED
    BY <2>1, RangeEmpty
<1>7. Len(published) + Cardinality(dropped) = Len(accepted)
  <2>1. /\ Len(accepted) = Len(published) + Len(<<>>) + Len(<<>>) + Cardinality({}) + Cardinality(dropped)
        /\ IsFiniteSet(dropped)
    BY <1>5 DEF InPlace
  <2>2. Len(published) \in Nat /\ Cardinality(dropped) \in Nat
    BY <1>1, <2>1, FS_CardinalityType DEF MonitorTyped
  <2>3. Cardinality({}) = 0 /\ Len(<<>>) = 0
    BY FS_EmptySet
  <2>4. QED
    BY <2>1, <2>2, <2>3
<1>8. QED
  BY <1>2, <1>6, <1>7

(* When the server is asked to end, whatever the demo emitted has been      *)
(* published, once, or was dropped for want of room; unless join gave up    *)
(* waiting for the thread.                                                 *)
THEOREM PublishedFirst == Spec => []PublishedBeforeClosed
<1> QED BY InitIInv, StepIInv, InitBase, StepBase, InitEvents, StepEvents,
           PublishedWhenClosing, PTL DEF Spec
=============================================================================
