------------------------------ MODULE WebCommand ------------------------------
(***************************************************************************)
(* `demo --web` and `replay --web`: the main thread that starts the         *)
(* dashboard server and, for a demo, the monitor, runs, waits for Ctrl+C    *)
(* and stops what it started; with WebMonitor's publisher thread, the loop  *)
(* of the HTTP server, the publisher of a replay and a handler thread for    *)
(* each browser that listens to /events beside it.                         *)
(*                                                                          *)
(* Any of the calls may raise, and Ctrl+C may come at any time, once more   *)
(* while the first one is being answered.  The main thread is the one that  *)
(* emits events and the one that stops the monitor.                         *)
(***************************************************************************)
EXTENDS Integers, Sequences, FiniteSets

CONSTANTS
  QueueLimit, MaxEvents,   \* as in WebMonitor
  MaxInterrupts,           \* bound: how often Ctrl+C is pressed
  Connections              \* the connections to /events

ASSUME CommandAssumption ==
  /\ QueueLimit \in Nat \ {0}
  /\ MaxEvents \in Nat
  /\ MaxInterrupts \in Nat

VARIABLES
  throttled, call, emitted, pending, closed, stopSet, stopping,   \* as in
  stoppedBy, loop, inHand, published, accepted, dropped,          \* WebMonitor
  command,     \* "demo" or "replay"
  at,          \* where the main thread is
  web_monitor, \* whether there is one
  server,      \* the HTTP server: its loop, and then its socket
  publisher,   \* the thread that publishes a replay
  late,        \* whether join gave up waiting for the publisher thread
  ending,      \* what ended the command, and where it came up
  interrupts,  \* how often Ctrl+C was pressed
  stream       \* the handler of each connection and its browser

main == "main"

Monitor == INSTANCE WebMonitor WITH Callers <- {main}, Stoppers <- {main}

monitor == <<throttled, call, emitted, pending, closed, stopSet, stopping,
             stoppedBy, loop, inHand, published, accepted, dropped>>
parts == <<web_monitor, server, publisher, late>>
cause == <<ending, interrupts>>
vars == <<monitor, command, at, parts, cause, stream>>

Init ==
  /\ Monitor!Init
  /\ command \in {"demo", "replay"}
  /\ at = "start" /\ web_monitor = FALSE
  /\ server = "none" /\ publisher = "none" /\ late = FALSE
  /\ ending = <<"none", "start">> /\ interrupts = 0
  /\ stream = [c \in Connections |-> "none"]

Busy == call[main] # "outside" \/ stopping[main] # "outside"

(* The main thread goes on to another place, or leaves the command.        *)
To(place) ==
  at' = place /\ UNCHANGED <<monitor, command, parts, cause>>

Leave(how) ==
  /\ at' = "ended" /\ ending' = <<how, at>>
  /\ UNCHANGED <<monitor, command, parts, interrupts>>

(* An exception that a handler answers by stopping what there is.          *)
Handle(how) ==
  /\ at' = "stop" /\ ending' = <<how, at>>
  /\ UNCHANGED <<monitor, command, parts, interrupts>>

-----------------------------------------------------------------------------
(* _start_web_dashboard and _announce_dashboard *)

(* The socket is bound and the thread of the server started.               *)
StartServer ==
  /\ at = "start"
  /\ \/ /\ server' = "serving"
        /\ at' = IF command = "demo" THEN "construct" ELSE "announce"
        /\ UNCHANGED <<monitor, command, web_monitor, publisher, late, cause>>
     \/ Leave("error")

(* Slip: the server is not thought of.                                     *)
MakeMonitor_OrRaise ==
  /\ at = "construct"
  /\ \/ /\ web_monitor' = TRUE /\ at' = "announce"
        /\ UNCHANGED <<monitor, command, server, publisher, late, cause>>
     \/ Leave("error")

MakeMonitor ==
  /\ at = "construct"
  /\ \/ /\ web_monitor' = TRUE /\ at' = "announce"
        /\ UNCHANGED <<monitor, command, server, publisher, late, cause>>
     \/ Handle("error")

(* For a replay the publisher is started next.                             *)
Announce ==
  /\ at = "announce"
  /\ \/ /\ at' = "run"
        /\ publisher' = IF command = "replay" THEN "publishing" ELSE "none"
        /\ UNCHANGED <<monitor, command, web_monitor, server, late, cause>>
     \/ Leave("error")

-----------------------------------------------------------------------------
(* _cmd_demo, _cmd_replay *)

(* The runtime hands an event to the monitor.                              *)
Emit ==
  /\ at = "run" /\ web_monitor
  /\ Monitor!OnEvent(main) \/ Monitor!InCall(main)
  /\ UNCHANGED <<command, at, parts, cause>>

(* The run is over and shown, or something raises: a replay has no handler. *)
RunEnds ==
  /\ at = "run" /\ ~Busy
  /\ \/ To("farewell")
     \/ command = "demo" /\ Handle("error")
     \/ command = "replay" /\ Leave("error")

(* _wait_for_dashboard_if_needed: the print is outside the try.            *)
Farewell == at = "farewell" /\ (To("wait") \/ Leave("error"))

(* KeyboardInterrupt: only the wait expects it.  Elsewhere it leaves        *)
(* whatever the thread was doing, and gives back the locks it held.         *)
Interrupt ==
  /\ at # "ended" /\ interrupts < MaxInterrupts
  /\ interrupts' = interrupts + 1
  /\ at' = IF at = "wait" THEN "stop" ELSE "ended"
  /\ ending' = <<"interrupt", at>>
  /\ call' = [call EXCEPT ![main] = "outside"]
  /\ stopping' = [stopping EXCEPT ![main] = "outside"]
  /\ UNCHANGED <<throttled, emitted, pending, closed, stopSet, stoppedBy, loop, inHand, published,
                 accepted, dropped, command, parts>>

-----------------------------------------------------------------------------
(* _stop_web_dashboard *)

(* Slip: the server first.                                                 *)
StopMonitor_ServerFirst ==
  /\ at = "stop"
  /\ \/ /\ web_monitor /\ server = "serving"
        /\ server' = "asked"
        /\ UNCHANGED <<monitor, command, at, web_monitor, publisher, late, cause>>
     \/ /\ web_monitor /\ server = "out"
        /\ Monitor!Stop(main)
        /\ at' = "join"
        /\ UNCHANGED <<command, parts, cause>>
     \/ ~web_monitor /\ To("shutdown")

StopMonitor ==
  /\ at = "stop"
  /\ \/ /\ web_monitor
        /\ Monitor!Stop(main)
        /\ at' = "join"
        /\ UNCHANGED <<command, parts, cause>>
     \/ ~web_monitor /\ To("shutdown")

SetStopEvent ==
  /\ at = "join" /\ Monitor!SetStopEvent(main)
  /\ UNCHANGED <<command, at, parts, cause>>

(* join returns in time, or after 5 seconds.                               *)
Joined ==
  /\ at = "join" /\ Monitor!Joined(main)
  /\ late' = (throttled /\ loop # "done")
  /\ at' = "shutdown"
  /\ UNCHANGED <<command, web_monitor, server, publisher, cause>>

(* DashboardServer.stop: shutdown asks the loop to end ...                 *)
Shutdown ==
  /\ at = "shutdown"
  /\ server' = "asked" /\ at' = "close"
  /\ UNCHANGED <<monitor, command, web_monitor, publisher, late, cause>>

(* ... and waits until it has, before the socket is closed.  The handlers   *)
(* are daemon threads: they are neither asked to end nor joined.            *)
ServerClose ==
  /\ at = "close" /\ server = "out"
  /\ server' = "closed" /\ at' = "ended"
  /\ UNCHANGED <<monitor, command, web_monitor, publisher, late, cause>>

-----------------------------------------------------------------------------
(* The other threads *)

(* serve_forever looks for the request between two connections.            *)
ServeForever ==
  /\ server = "asked"
  /\ server' = "out"
  /\ UNCHANGED <<monitor, command, at, web_monitor, publisher, late, cause, stream>>

(* _publish_replay_payloads has told its last event; nobody waits for it.   *)
ReplayPublished ==
  /\ publisher = "publishing" /\ publisher' = "done"
  /\ UNCHANGED <<monitor, command, at, web_monitor, server, late, cause, stream>>

PublishLoop ==
  /\ web_monitor /\ Monitor!PublishLoop
  /\ UNCHANGED <<command, at, parts, cause, stream>>

(* The loop of the server accepts a connection and starts its handler,      *)
(* which goes round _stream_events while its browser listens, server or no  *)
(* server.                                                                 *)
OpenStream(c) ==
  /\ server \in {"serving", "asked"} /\ stream[c] = "none"
  /\ stream' = [stream EXCEPT ![c] = "open"]
  /\ UNCHANGED <<monitor, command, at, parts, cause>>

ClientLeaves(c) ==
  /\ stream[c] = "open"
  /\ stream' = [stream EXCEPT ![c] = "left"]
  /\ UNCHANGED <<monitor, command, at, parts, cause>>

(* Slip: without the ping only an event finds out that the browser is gone. *)
HandlerEnds_NoPing(c) ==
  /\ stream[c] = "left"
  /\ at = "run" \/ loop = "publish" \/ publisher = "publishing"
  /\ stream' = [stream EXCEPT ![c] = "none"]
  /\ UNCHANGED <<monitor, command, at, parts, cause>>

(* The next event, or the ping after _SSE_POLL_SECONDS without one, cannot  *)
(* be written any more.                                                    *)
HandlerEnds(c) ==
  /\ stream[c] = "left"
  /\ stream' = [stream EXCEPT ![c] = "none"]
  /\ UNCHANGED <<monitor, command, at, parts, cause>>

Going ==
  /\ \/ StartServer \/ MakeMonitor \/ Announce \/ Emit \/ RunEnds \/ Farewell
     \/ Interrupt
  /\ UNCHANGED stream

Stopping ==
  /\ StopMonitor \/ SetStopEvent \/ Joined \/ Shutdown \/ ServerClose
  /\ UNCHANGED stream

Streaming == \E c \in Connections : OpenStream(c) \/ ClientLeaves(c) \/ HandlerEnds(c)

Next ==
  Going \/ Stopping \/ ServeForever \/ ReplayPublished \/ PublishLoop \/ Streaming

(* The threads go on, and the main thread does once it stops what it has    *)
(* started; a run may take as long as it likes, and so may its user and a   *)
(* browser.                                                                *)
Fairness == /\ WF_vars(Stopping) /\ WF_vars(ServeForever)
            /\ WF_vars(ReplayPublished) /\ WF_vars(PublishLoop)
            /\ \A c \in Connections : WF_vars(HandlerEnds(c))

Spec == Init /\ [][Next]_vars /\ Fairness

-----------------------------------------------------------------------------
(* Properties *)

Told == (web_monitor => closed /\ stopSet) /\ server \in {"none", "closed"}

(* Whatever raises in a demo's run, or in making its monitor, and the       *)
(* Ctrl+C it waits for leave no server and no publisher thread behind when  *)
(* the command is over.  What may: an error in printing the address of the  *)
(* dashboard, a replay that cannot be printed, and a Ctrl+C anywhere else,  *)
(* a second one included.  The handlers of open connections are not meant.  *)
Unanswered ==
  \/ ending[1] = "error" /\ ending[2] \in {"announce", "farewell"}
  \/ ending = <<"error", "run">> /\ command = "replay"
  \/ ending[1] = "interrupt" /\ ending[2] # "wait"

NothingLeftBehind == at = "ended" => Told \/ Unanswered

(* While the server is asked to end, the monitor has nothing left to        *)
(* publish: what a demo emitted and did not drop has reached the            *)
(* broadcaster, once, unless the publisher thread was not waited for any    *)
(* longer.                                                                 *)
Closing == server \in {"asked", "out", "closed"}

PublishedBeforeClosed ==
  Closing /\ ~late =>
    /\ pending = <<>> /\ inHand = <<>>
    /\ Monitor!RangeOf(published) = Monitor!RangeOf(accepted) \ dropped
    /\ Len(published) + Cardinality(dropped) = Len(accepted)

(* A command that has begun to stop ends, and unless somebody is impatient  *)
(* so do the loop of its server, the publisher of its replay, the thread of *)
(* its monitor, not waited for if slow, and the handler of every browser    *)
(* that leaves.  One whose browser keeps listening goes on: nothing tells   *)
(* it to stop.                                                             *)
ThreadsDone ==
  /\ server = "closed" /\ publisher # "publishing"
  /\ web_monitor => loop \in {"none", "done"}
  /\ \A c \in Connections : stream[c] # "left"

StopIsComplete == at = "stop" ~> [](at = "ended" /\ (Unanswered \/ ThreadsDone))

-----------------------------------------------------------------------------
(* The strengthening the proofs need                                       *)

(* The monitor is called while the command runs and closed when it stops,   *)
(* which is before the server is.                                          *)
CommandInHand ==
  /\ call[main] # "outside" => at = "run" /\ emitted[main] > 0
  /\ ~web_monitor => pending = <<>> /\ inHand = <<>>
  /\ closed => at \in {"join", "shutdown", "close", "ended"}
  /\ stopSet => closed
  /\ Closing => at \in {"close", "ended"}
  /\ (at \in {"shutdown", "close"} \/ Closing) /\ ~late =>
       ~web_monitor \/ ~throttled \/ loop = "done"

(* The thread leaves only when told to, and leaves nothing.                 *)
ThreadInHand ==
  /\ inHand # <<>> <=> loop = "publish"
  /\ loop \in {"empty", "done"} => stopSet
  /\ loop = "done" => pending = <<>>
  /\ throttled <=> loop # "none"
  /\ throttled => call[main] # "direct"
  /\ ~throttled => pending = <<>> /\ call[main] \notin {"put", "evict", "putAgain"}
  /\ call[main] = "putAgain" => Monitor!Room

(* The event the main thread is about to put or publish, and those it has.  *)
Entering == IF call[main] \in {"put", "evict", "putAgain", "direct"}
              THEN {Monitor!Event(main)} ELSE {}

Passed == IF call[main] = "outside" THEN emitted[main] ELSE emitted[main] - 1

Distinct(s) == \A i, j \in 1..Len(s) : s[i] = s[j] => i = j

(* Each of the accepted events (a) is in one place: published (p), in the   *)
(* hand of the thread (h), waiting (q), about to be put (w), or dropped (d); *)
(* but for the one about to be put they are among the first n.               *)
InPlace(a, p, h, q, w, d, n) ==
  LET Range(s) == Monitor!RangeOf(s)
      Shown == Range(p) \cup Range(h)
  IN
    /\ Range(a) = Shown \cup Range(q) \cup w \cup d
    /\ d \cap (Shown \cup Range(q)) = {}
    /\ Range(q) \cap Shown = {}
    /\ Distinct(q)
    /\ \A e \in Shown \cup Range(q) \cup d : e[2] <= n
    /\ IsFiniteSet(d)
    /\ Len(a) = Len(p) + Len(h) + Len(q) + Cardinality(w) + Cardinality(d)

EventsInPlace == InPlace(accepted, published, inHand, pending, Entering, dropped, Passed)

(* A Ctrl+C may come in the middle of on_event, but ends the command.       *)
EventsInHand == at # "ended" \/ Closing => EventsInPlace
=============================================================================
