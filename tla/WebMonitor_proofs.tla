--------------------------- MODULE WebMonitor_proofs ---------------------------
(***************************************************************************)
(* For any callers, stoppers and queue limit: what on_event accepts reaches *)
(* the broadcaster in order or is given up for want of room, oldest first,  *)
(* but for one event at most that a racing stop leaves behind; and on_event *)
(* raises nothing for want of room.                                         *)
(*                                                                          *)
(* The lock keeps one caller at a time between the look at _closed and the  *)
(* last put (OneInQueue), so that what was published, is in hand, waits and *)
(* is about to be put is one sequence (Stream), to which an acceptance adds *)
(* at the end, from which an eviction takes the oldest that waits, and      *)
(* which nothing else changes.                                              *)
(***************************************************************************)
EXTENDS WebMonitor, SequenceTheorems, FiniteSetTheorems, TLAPS

-----------------------------------------------------------------------------
(* Sequences                                                               *)

LEMMA RangeOfAppend ==
  ASSUME NEW S, NEW s \in Seq(S), NEW e \in S
  PROVE  RangeOf(Append(s, e)) = RangeOf(s) \cup {e}
<1>1. /\ Append(s, e) \in Seq(S) /\ Len(Append(s, e)) = Len(s) + 1 /\ Len(s) \in Nat
      /\ \A i \in 1..Len(s) : Append(s, e)[i] = s[i]
      /\ Append(s, e)[Len(s) + 1] = e
  BY AppendProperties
<1>2. \A i \in 1..(Len(s) + 1) : i \in 1..Len(s) \/ i = Len(s) + 1
  BY <1>1
<1>3. QED
  BY <1>1, <1>2 DEF RangeOf

LEMMA RangeOfConcat ==
  ASSUME NEW S, NEW s \in Seq(S), NEW u \in Seq(S)
  PROVE  RangeOf(s \o u) = RangeOf(s) \cup RangeOf(u)
<1>1. /\ Len(s \o u) = Len(s) + Len(u) /\ Len(s) \in Nat /\ Len(u) \in Nat
      /\ \A i \in 1..(Len(s) + Len(u)) : (s \o u)[i] = IF i <= Len(s) THEN s[i] ELSE u[i - Len(s)]
  BY ConcatProperties
<1>2. ASSUME NEW i \in 1..Len(u)
      PROVE  i + Len(s) \in 1..Len(s \o u) /\ (s \o u)[i + Len(s)] = u[i]
  BY <1>1
<1>3. RangeOf(u) \subseteq RangeOf(s \o u)
  BY <1>2 DEF RangeOf
<1>4. RangeOf(s) \subseteq RangeOf(s \o u)
  BY <1>1 DEF RangeOf
<1>5. RangeOf(s \o u) \subseteq RangeOf(s) \cup RangeOf(u)
  BY <1>1 DEF RangeOf
<1>6. QED
  BY <1>3, <1>4, <1>5

LEMMA HeadOfConcat ==
  ASSUME NEW S, NEW s \in Seq(S), s # <<>>, NEW u \in Seq(S)
  PROVE  /\ s \o u \in Seq(S) /\ s \o u # <<>>
         /\ Head(s \o u) = Head(s)
         /\ Tail(s \o u) = Tail(s) \o u
<1>1. /\ Len(s) \in Nat /\ Len(s) > 0 /\ Len(u) \in Nat /\ Head(s) = s[1]
      /\ Tail(s) \in Seq(S) /\ Len(Tail(s)) = Len(s) - 1
      /\ \A i \in 1..Len(Tail(s)) : Tail(s)[i] = s[i + 1]
  BY HeadTailProperties, EmptySeq
<1>2. /\ s \o u \in Seq(S) /\ Len(s \o u) = Len(s) + Len(u)
      /\ \A i \in 1..(Len(s) + Len(u)) : (s \o u)[i] = IF i <= Len(s) THEN s[i] ELSE u[i - Len(s)]
  BY ConcatProperties
<1>3. s \o u # <<>>
  BY <1>1, <1>2, ConcatEqualIffEmpty
<1>4. Head(s \o u) = Head(s)
  BY <1>1, <1>2, <1>3
<1>5. /\ Tail(s \o u) \in Seq(S) /\ Len(Tail(s \o u)) = Len(s) + Len(u) - 1
      /\ \A i \in 1..Len(Tail(s \o u)) : Tail(s \o u)[i] = (s \o u)[i + 1]
  BY <1>2, <1>3, HeadTailProperties
<1>6. /\ Tail(s) \o u \in Seq(S) /\ Len(Tail(s) \o u) = Len(s) - 1 + Len(u)
      /\ \A i \in 1..(Len(s) - 1 + Len(u)) :
           (Tail(s) \o u)[i] = IF i <= Len(s) - 1 THEN Tail(s)[i] ELSE u[i - (Len(s) - 1)]
  BY <1>1, ConcatProperties
<1>7. ASSUME NEW i \in 1..Len(Tail(s \o u))
      PROVE  Tail(s \o u)[i] = (Tail(s) \o u)[i]
  <2>1. i \in 1..(Len(s) + Len(u) - 1)
    BY <1>5
  <2>2. CASE i <= Len(s) - 1
    BY <1>1, <1>2, <1>5, <1>6, <2>1, <2>2
  <2>3. CASE i > Len(s) - 1
    <3>1. (Tail(s) \o u)[i] = u[i - (Len(s) - 1)]
      BY <1>1, <1>6, <2>1, <2>3
    <3>2. Tail(s \o u)[i] = u[i + 1 - Len(s)]
      BY <1>1, <1>2, <1>5, <2>1, <2>3
    <3>3. i - (Len(s) - 1) = i + 1 - Len(s)
      BY <1>1, <2>1
    <3>4. QED
      BY <3>1, <3>2, <3>3
  <2>4. QED
    BY <1>1, <2>1, <2>2, <2>3
<1>8. Len(Tail(s \o u)) = Len(Tail(s) \o u)
  BY <1>1, <1>5, <1>6
<1>9. Tail(s \o u) = Tail(s) \o u
  BY <1>5, <1>6, <1>7, <1>8, SeqEqual
<1>10. QED
  BY <1>2, <1>3, <1>4, <1>9

LEMMA HeadAndTail ==
  ASSUME NEW S, NEW s \in Seq(S), s # <<>>
  PROVE  /\ <<Head(s)>> \in Seq(S) /\ <<Head(s)>> \o Tail(s) = s
         /\ Head(s) \in S /\ Tail(s) \in Seq(S)
<1>1. /\ Len(s) \in Nat /\ Len(s) > 0 /\ Head(s) = s[1] /\ Head(s) \in S
      /\ Tail(s) \in Seq(S) /\ Len(Tail(s)) = Len(s) - 1
      /\ \A i \in 1..Len(Tail(s)) : Tail(s)[i] = s[i + 1]
  BY HeadTailProperties, EmptySeq
<1> DEFINE h == Append(<<>>, Head(s))
<1>2. h \in Seq(S) /\ Len(h) = 1 /\ h[1] = s[1] /\ h = <<Head(s)>>
  BY <1>1, EmptySeq, AppendProperties
<1> HIDE DEF h
<1>3. /\ h \o Tail(s) \in Seq(S) /\ Len(h \o Tail(s)) = Len(s)
      /\ \A i \in 1..Len(s) : (h \o Tail(s))[i] = IF i <= 1 THEN h[i] ELSE Tail(s)[i - 1]
  BY <1>1, <1>2, ConcatProperties
<1>4. ASSUME NEW i \in 1..Len(s)
      PROVE  (h \o Tail(s))[i] = s[i]
  BY <1>1, <1>2, <1>3
<1>5. h \o Tail(s) = s
  BY <1>3, <1>4, SeqEqual
<1>6. QED
  BY <1>1, <1>2, <1>5

LEMMA RangeOfHead ==
  ASSUME NEW S, NEW s \in Seq(S), s # <<>>
  PROVE  RangeOf(s) = {Head(s)} \cup RangeOf(Tail(s))
<1>1. /\ Len(s) \in Nat /\ Len(s) > 0 /\ Head(s) = s[1]
      /\ Len(Tail(s)) = Len(s) - 1
      /\ \A i \in 1..Len(Tail(s)) : Tail(s)[i] = s[i + 1]
  BY HeadTailProperties, EmptySeq
<1>2. ASSUME NEW i \in 1..Len(s)
      PROVE  s[i] \in {Head(s)} \cup RangeOf(Tail(s))
  <2>1. CASE i = 1
    BY <1>1, <2>1
  <2>2. CASE i > 1
    <3>1. i - 1 \in 1..Len(Tail(s)) /\ Tail(s)[i - 1] = s[i]
      BY <1>1, <2>2
    <3>2. QED
      BY <3>1 DEF RangeOf
  <2>3. QED
    BY <2>1, <2>2
<1>3. Head(s) \in RangeOf(s)
  BY <1>1 DEF RangeOf
<1>4. ASSUME NEW i \in 1..Len(Tail(s))
      PROVE  Tail(s)[i] \in RangeOf(s)
  <2>1. i + 1 \in 1..Len(s) /\ Tail(s)[i] = s[i + 1]
    BY <1>1
  <2>2. QED
    BY <2>1 DEF RangeOf
<1>5. RangeOf(s) \subseteq {Head(s)} \cup RangeOf(Tail(s))
  BY <1>2 DEF RangeOf
<1>6. RangeOf(Tail(s)) \subseteq RangeOf(s)
  BY <1>4 DEF RangeOf
<1>7. QED
  BY <1>3, <1>5, <1>6

-----------------------------------------------------------------------------
(* Order                                                                   *)

LEMMA OrderWithNewest ==
  ASSUME NEW S, NEW s \in Seq(S), NEW a \in Seq(S), NEW e \in S,
         RangeOf(s) \subseteq RangeOf(a), e \notin RangeOf(a), InOrderOf(s, a)
  PROVE  InOrderOf(Append(s, e), Append(a, e))
<1> DEFINE t == Append(s, e)
           b == Append(a, e)
<1>1. /\ Len(t) = Len(s) + 1 /\ Len(s) \in Nat /\ t[Len(s) + 1] = e
      /\ \A i \in 1..Len(s) : t[i] = s[i]
      /\ Len(b) = Len(a) + 1 /\ Len(a) \in Nat /\ b[Len(a) + 1] = e
      /\ \A i \in 1..Len(a) : b[i] = a[i]
  BY AppendProperties
<1>2. \A k \in 1..Len(s) : s[k] # e
  BY DEF RangeOf
<1>3. \A i \in 1..Len(a) : a[i] # e
  BY DEF RangeOf
<1> HIDE DEF t, b
<1>4. SUFFICES ASSUME NEW k \in 1..Len(t), NEW l \in 1..Len(t), k < l,
                      NEW i \in 1..Len(b), NEW j \in 1..Len(b), t[k] = b[i], t[l] = b[j]
               PROVE  i < j
  BY DEF InOrderOf, t, b
<1>5. k \in 1..Len(s) /\ t[k] = s[k]
  BY <1>1, <1>4
<1>6. i \in 1..Len(a) /\ b[i] = a[i]
  <2>1. i # Len(a) + 1
    BY <1>1, <1>2, <1>4, <1>5
  <2>2. QED
    BY <1>1, <2>1
<1>7. CASE l = Len(s) + 1
  <2>1. b[j] = e
    BY <1>1, <1>4, <1>7
  <2>2. j = Len(a) + 1
    BY <1>1, <1>3, <2>1
  <2>3. QED
    BY <1>6, <2>2
<1>8. CASE l \in 1..Len(s)
  <2>1. t[l] = s[l] /\ s[l] # e
    BY <1>1, <1>2, <1>8
  <2>2. j \in 1..Len(a) /\ b[j] = a[j]
    <3>1. j # Len(a) + 1
      BY <1>1, <1>4, <2>1
    <3>2. QED
      BY <1>1, <3>1
  <2>3. QED
    BY <1>4, <1>5, <1>6, <1>8, <2>1, <2>2 DEF InOrderOf
<1>9. QED
  BY <1>1, <1>7, <1>8

LEMMA OrderWithoutOne ==
  ASSUME NEW S, NEW s \in Seq(S), NEW u \in Seq(S), u # <<>>, NEW a \in Seq(S),
         RangeOf(s \o u) \subseteq RangeOf(a), InOrderOf(s \o u, a)
  PROVE  /\ InOrderOf(s \o Tail(u), a)
         /\ RangeOf(s \o Tail(u)) = RangeOf(s \o u) \ {Head(u)}
         /\ \A x \in RangeOf(Tail(u)), i, j \in 1..Len(a) :
              a[i] = Head(u) /\ a[j] = x => i < j
<1> DEFINE w == s \o u
           t == s \o Tail(u)
           n == Len(s)
           f(m) == IF m <= n THEN m ELSE m + 1
<1>1. /\ Tail(u) \in Seq(S) /\ Len(u) \in Nat /\ Len(u) > 0 /\ Len(Tail(u)) = Len(u) - 1
      /\ Head(u) = u[1] /\ \A m \in 1..Len(Tail(u)) : Tail(u)[m] = u[m + 1]
  BY HeadTailProperties, EmptySeq
<1>2. /\ Len(w) = n + Len(u) /\ n \in Nat
      /\ \A m \in 1..(n + Len(u)) : w[m] = IF m <= n THEN s[m] ELSE u[m - n]
  BY ConcatProperties
<1>3. /\ Len(t) = n + Len(u) - 1
      /\ \A m \in 1..(n + Len(u) - 1) : t[m] = IF m <= n THEN s[m] ELSE Tail(u)[m - n]
  BY <1>1, <1>2, ConcatProperties
<1>4. w[n + 1] = Head(u) /\ n + 1 \in 1..Len(w)
  BY <1>1, <1>2
<1> HIDE DEF w, t, n
<1>5. ASSUME NEW m \in 1..Len(t)
      PROVE  f(m) \in 1..Len(w) /\ t[m] = w[f(m)] /\ f(m) # n + 1
  <2>1. CASE m <= n
    BY <1>1, <1>2, <1>3, <2>1
  <2>2. CASE m > n
    <3>1. t[m] = Tail(u)[m - n] /\ m - n \in 1..Len(Tail(u))
      BY <1>1, <1>2, <1>3, <2>2
    <3>2. t[m] = u[m - n + 1]
      BY <1>1, <3>1
    <3>3. w[m + 1] = u[m + 1 - n] /\ m + 1 - n = m - n + 1 /\ m + 1 \in 1..Len(w)
      BY <1>1, <1>2, <1>3, <2>2
    <3>4. QED
      BY <1>2, <2>2, <3>2, <3>3
  <2>3. QED
    BY <1>2, <1>3, <2>1, <2>2
<1>6. \A k, l \in 1..Len(t) : k < l => f(k) < f(l)
  BY <1>1, <1>2, <1>3
<1>7. \A k, l \in 1..Len(w) : k < l => \A i, j \in 1..Len(a) : w[k] = a[i] /\ w[l] = a[j] => i < j
  BY DEF InOrderOf, w
<1> HIDE DEF f
<1>8. InOrderOf(t, a)
  <2> SUFFICES ASSUME NEW k \in 1..Len(t), NEW l \in 1..Len(t), k < l,
                      NEW i \in 1..Len(a), NEW j \in 1..Len(a), t[k] = a[i], t[l] = a[j]
               PROVE  i < j
    BY DEF InOrderOf
  <2>1. f(k) \in 1..Len(w) /\ f(l) \in 1..Len(w) /\ f(k) < f(l) /\ t[k] = w[f(k)] /\ t[l] = w[f(l)]
    BY <1>5, <1>6
  <2>2. QED
    BY <1>7, <2>1
<1>9. \A k, l \in 1..Len(w) : k # l => w[k] # w[l]
  <2> SUFFICES ASSUME NEW k \in 1..Len(w), NEW l \in 1..Len(w), k < l PROVE w[k] # w[l]
    BY <1>1, <1>2
  <2>1. PICK i \in 1..Len(a) : w[k] = a[i]
    BY DEF RangeOf, w
  <2>2. QED
    BY <1>7, <2>1
<1>10. RangeOf(t) = RangeOf(w) \ {Head(u)}
  <2>1. \A m \in 1..Len(t) : t[m] \in RangeOf(w) \ {Head(u)}
    BY <1>4, <1>5, <1>9 DEF RangeOf
  <2>2. ASSUME NEW p \in 1..Len(w), w[p] # Head(u)
        PROVE  \E m \in 1..Len(t) : t[m] = w[p]
    <3>1. p # n + 1
      BY <1>4, <2>2
    <3>2. CASE p <= n
      <4>1. p \in 1..Len(t) /\ f(p) = p
        BY <1>1, <1>2, <1>3, <3>2 DEF f
      <4>2. QED
        BY <1>5, <4>1
    <3>3. CASE p > n + 1
      <4>1. p - 1 \in 1..Len(t) /\ f(p - 1) = p
        BY <1>1, <1>2, <1>3, <3>3 DEF f
      <4>2. QED
        BY <1>5, <4>1
    <3>4. QED
      BY <1>1, <1>2, <3>1, <3>2, <3>3
  <2>3. RangeOf(t) \subseteq RangeOf(w) \ {Head(u)}
    BY <2>1 DEF RangeOf
  <2>4. RangeOf(w) \ {Head(u)} \subseteq RangeOf(t)
    BY <2>2 DEF RangeOf
  <2>5. QED
    BY <2>3, <2>4
<1>11. ASSUME NEW x \in RangeOf(Tail(u)), NEW i \in 1..Len(a), NEW j \in 1..Len(a),
              a[i] = Head(u), a[j] = x
       PROVE  i < j
  <2>1. PICK m \in 1..Len(Tail(u)) : Tail(u)[m] = x
    BY DEF RangeOf
  <2>2. w[n + m + 1] = x /\ n + m + 1 \in 1..Len(w) /\ n + 1 < n + m + 1
    <3>1. n + m + 1 \in 1..(n + Len(u)) /\ n + m + 1 > n /\ n + m + 1 - n = m + 1
      BY <1>1, <1>2, <2>1
    <3>2. w[n + m + 1] = u[m + 1]
      BY <1>2, <3>1
    <3>3. QED
      BY <1>1, <1>2, <2>1, <3>1, <3>2
  <2>3. QED
    BY <1>4, <1>7, <1>11, <2>2
<1>12. QED
  BY <1>8, <1>10, <1>11 DEF t, w

-----------------------------------------------------------------------------
(* Where the threads are                                                   *)

InQueue == {"put", "evict", "putAgain"}

(* The lock, and the caller that holds it.                                 *)
OneInQueue ==
  /\ \A t, u \in Callers : call[t] \in InQueue /\ call[u] \in InQueue => t = u
  /\ \A t \in Callers : call[t] # "outside" => emitted[t] >= 1

(* The two ways of the monitor do not mix.                                 *)
Modes ==
  /\ throttled => \A t \in Callers : call[t] # "direct"
  /\ ~throttled => /\ \A t \in Callers : call[t] \notin InQueue
                   /\ pending = <<>> /\ inHand = <<>> /\ dropped = {} /\ loop = "none"
  /\ loop # "publish" => inHand = <<>>

(* What it takes to be closed, and the thread to leave.  A caller in the    *)
(* middle of a put has not stopped the monitor.                            *)
Stopped ==
  /\ closed = (stoppedBy # {})
  /\ stopSet => closed
  /\ \A t \in Stoppers : stopping[t] # "outside" => t \in stoppedBy
  /\ loop \in {"empty", "done"} => stopSet
  /\ \A t \in Callers : call[t] \in InQueue => t \notin stoppedBy

Control == OneInQueue /\ Modes /\ Stopped
Base == TypeOK /\ Control

LEMMA EventType ==
  ASSUME TypeOK, OneInQueue, NEW t \in Callers, call[t] # "outside"
  PROVE  Event(t) \in Emissions
BY MonitorAssumption DEF TypeOK, OneInQueue, Event, Emissions

LEMMA PendingType ==
  ASSUME TypeOK
  PROVE  /\ pending \in Seq(Emissions) /\ Len(pending) \in Nat
         /\ inHand \in Seq(Emissions) /\ published \in Seq(Emissions)
         /\ accepted \in Seq(Emissions)
         /\ published \o inHand \in Seq(Emissions)
         /\ pending # <<>> => /\ Head(pending) \in Emissions
                              /\ Tail(pending) \in Seq(Emissions)
                              /\ Len(Tail(pending)) = Len(pending) - 1
                              /\ <<Head(pending)>> \in Seq(Emissions)
                              /\ Len(<<Head(pending)>>) = 1
<1>1. /\ pending \in Seq(Emissions) /\ inHand \in Seq(Emissions) /\ published \in Seq(Emissions)
      /\ accepted \in Seq(Emissions)
  BY DEF TypeOK
<1>2. published \o inHand \in Seq(Emissions)
  BY <1>1, ConcatProperties
<1>3. QED
  BY <1>1, <1>2, HeadTailProperties, HeadAndTail

LEMMA InitBase == Init => Base
<1> SUFFICES ASSUME Init PROVE Base
  OBVIOUS
<1> USE MonitorAssumption DEF Init
<1>1. <<>> \in Seq(Emissions) /\ Len(<<>>) = 0
  BY EmptySeq
<1>2. TypeOK
  <2>1. /\ call \in [Callers -> {"outside", "entered", "put", "evict", "putAgain", "direct"}]
        /\ emitted \in [Callers -> 0..MaxEvents]
        /\ stopping \in [Stoppers -> {"outside", "set", "join"}]
    OBVIOUS
  <2>2. /\ pending \in Seq(Emissions) /\ Len(pending) <= QueueLimit
        /\ inHand \in Seq(Emissions) /\ Len(inHand) <= 1
        /\ published \in Seq(Emissions) /\ accepted \in Seq(Emissions)
    BY <1>1
  <2>3. /\ throttled \in BOOLEAN /\ closed \in BOOLEAN /\ stopSet \in BOOLEAN
        /\ loop \in {"none", "check", "empty", "get", "publish", "wait", "done"}
        /\ stoppedBy \subseteq Stoppers /\ dropped \subseteq Emissions
    OBVIOUS
  <2>4. QED
    BY <2>1, <2>2, <2>3 DEF TypeOK
<1>3. OneInQueue /\ Modes /\ Stopped
  BY DEF OneInQueue, Modes, Stopped, InQueue
<1>4. QED
  BY <1>2, <1>3 DEF Base, Control

LEMMA OnEventBase ==
  ASSUME Base, NEW t \in Callers, OnEvent(t)
  PROVE  Base'
<1> USE DEF OnEvent, Goto, thread, stops, fates
<1>1. TypeOK'
  BY MonitorAssumption DEF Base, TypeOK
<1>2. OneInQueue' /\ Modes' /\ Stopped'
  BY MonitorAssumption DEF Base, Control, TypeOK, Outside, OneInQueue, Modes, Stopped, InQueue
<1>3. QED
  BY <1>1, <1>2 DEF Base, Control

LEMMA EnterBase ==
  ASSUME Base, NEW t \in Callers, Enter(t)
  PROVE  Base'
<1> USE DEF Enter, Goto, thread, stops, Accept
<1>1. accepted' \in Seq(Emissions)
  <2>1. Event(t) \in Emissions
    BY EventType DEF Base, Control
  <2>2. Append(accepted, Event(t)) \in Seq(Emissions)
    BY <2>1, PendingType, AppendProperties DEF Base
  <2>3. QED
    BY <2>2, PendingType DEF Base
<1>2. TypeOK'
  BY <1>1 DEF Base, TypeOK
<1>3. call[t] = "entered" /\ \A u \in Callers \ {t} : call'[u] = call[u]
  BY DEF Base, TypeOK
<1>4. OneInQueue'
  BY <1>3 DEF Base, Control, TypeOK, OneInQueue, InQueue, LockFree
<1>5. Modes'
  BY <1>3 DEF Base, Control, TypeOK, Modes, InQueue
<1>6. Stopped'
  BY <1>3 DEF Base, Control, TypeOK, Stopped, InQueue
<1>7. QED
  BY <1>2, <1>4, <1>5, <1>6 DEF Base, Control

LEMMA DirectBase ==
  ASSUME Base, NEW t \in Callers, PublishDirect(t)
  PROVE  Base'
<1> USE DEF PublishDirect, Goto, thread, stops
<1>1. published' \in Seq(Emissions)
  <2>1. Event(t) \in Emissions
    BY EventType DEF Base, Control
  <2>2. QED
    BY <2>1, PendingType, AppendProperties DEF Base
<1>2. TypeOK'
  BY <1>1 DEF Base, TypeOK
<1>3. OneInQueue' /\ Modes' /\ Stopped'
  BY DEF Base, Control, TypeOK, OneInQueue, Modes, Stopped, InQueue
<1>4. QED
  BY <1>2, <1>3 DEF Base, Control

(* A put that finds room.                                                  *)
LEMMA PutType ==
  ASSUME Base, NEW t \in Callers, call[t] \in InQueue, Room
  PROVE  Append(pending, Event(t)) \in Seq(Emissions) /\ Len(Append(pending, Event(t))) <= QueueLimit
<1>1. Event(t) \in Emissions
  BY EventType DEF Base, Control, InQueue
<1>2. QED
  BY <1>1, PendingType, AppendProperties, MonitorAssumption DEF Base, Room

LEMMA PutBase ==
  ASSUME Base, NEW t \in Callers, Put(t) \/ PutAgain(t)
  PROVE  Base'
<1> USE DEF Put, PutAgain, Goto, thread, stops, fates
<1>1. call[t] \in {"put", "putAgain"} /\ call'[t] \in {"outside", "evict"}
      /\ \A u \in Callers \ {t} : call'[u] = call[u]
  BY DEF Base, TypeOK
<1>2. pending' \in Seq(Emissions) /\ Len(pending') <= QueueLimit
  BY <1>1, PutType DEF Base, TypeOK, InQueue
<1>3. TypeOK'
  BY <1>2 DEF Base, TypeOK
<1>4. throttled
  BY <1>1 DEF Base, Control, Modes, InQueue, TypeOK
<1>5. OneInQueue' /\ Stopped'
  <2>1. OneInQueue'
    BY <1>1 DEF Base, Control, OneInQueue, InQueue
  <2>2. Stopped'
    BY <1>1 DEF Base, Control, Stopped, InQueue
  <2>3. QED
    BY <2>1, <2>2
<1>6. Modes'
  BY <1>1, <1>4 DEF Base, Control, TypeOK, Modes, InQueue
<1>7. QED
  BY <1>3, <1>5, <1>6 DEF Base, Control

LEMMA EvictBase ==
  ASSUME Base, NEW t \in Callers, Evict(t)
  PROVE  Base'
<1> USE DEF Evict, Goto, thread, stops
<1>1. call[t] = "evict" /\ call'[t] = "putAgain" /\ \A u \in Callers \ {t} : call'[u] = call[u]
  BY DEF Base, TypeOK
<1>2. pending' \in Seq(Emissions) /\ Len(pending') <= QueueLimit /\ dropped' \subseteq Emissions
  <2>1. CASE pending = <<>>
    BY <2>1 DEF Base, TypeOK
  <2>2. CASE pending # <<>>
    <3>1. /\ Head(pending) \in Emissions /\ Tail(pending) \in Seq(Emissions)
          /\ Len(Tail(pending)) = Len(pending) - 1 /\ Len(pending) \in Nat
      BY <2>2, PendingType DEF Base
    <3>2. Len(pending) <= QueueLimit /\ QueueLimit \in Nat /\ dropped \subseteq Emissions
      BY MonitorAssumption DEF Base, TypeOK
    <3>3. pending' = Tail(pending) /\ dropped' = dropped \cup {Head(pending)}
      BY <2>2
    <3>4. QED
      BY <3>1, <3>2, <3>3
  <2>3. QED
    BY <2>1, <2>2
<1>3. TypeOK'
  BY <1>2 DEF Base, TypeOK
<1>4. throttled
  BY <1>1 DEF Base, Control, Modes, InQueue, TypeOK
<1>5. OneInQueue' /\ Stopped'
  BY <1>1 DEF Base, Control, TypeOK, OneInQueue, Stopped, InQueue
<1>6. Modes'
  BY <1>1, <1>4 DEF Base, Control, TypeOK, Modes, InQueue
<1>7. QED
  BY <1>3, <1>5, <1>6 DEF Base, Control

LEMMA StopBase ==
  ASSUME Base, NEW t \in Stoppers, Stop(t) \/ InStop(t)
  PROVE  Base'
<1> USE DEF Stop, InStop, SetStopEvent, Joined, thread, callers, fates
<1>1. TypeOK'
  BY DEF Base, TypeOK
<1>2. OneInQueue' /\ Modes'
  BY DEF Base, Control, TypeOK, OneInQueue, Modes
<1>3. Stopped'
  <2>1. CASE Stop(t)
    BY <2>1 DEF Base, Control, TypeOK, Stopped, Outside, InQueue
  <2>2. CASE SetStopEvent(t)
    BY <2>2 DEF Base, Control, TypeOK, Stopped
  <2>3. CASE Joined(t)
    BY <2>3 DEF Base, Control, TypeOK, Stopped
  <2>4. QED
    BY <2>1, <2>2, <2>3
<1>4. QED
  BY <1>1, <1>2, <1>3 DEF Base, Control

LEMMA GetBase ==
  ASSUME Base, Get, pending # <<>>
  PROVE  /\ pending' \in Seq(Emissions) /\ Len(pending') <= QueueLimit
         /\ inHand' \in Seq(Emissions) /\ Len(inHand') <= 1
<1> DEFINE h == <<Head(pending)>>
<1>1. pending' = Tail(pending) /\ inHand' = h
  BY DEF Get
<1>2. /\ Tail(pending) \in Seq(Emissions)
      /\ Len(Tail(pending)) = Len(pending) - 1 /\ Len(pending) \in Nat
      /\ h \in Seq(Emissions) /\ Len(h) = 1
  BY PendingType DEF Base
<1> HIDE DEF h
<1>3. Len(pending) <= QueueLimit /\ QueueLimit \in Nat
  BY MonitorAssumption DEF Base, TypeOK
<1>4. QED
  BY <1>1, <1>2, <1>3

LEMMA LoopBase ==
  ASSUME Base, PublishLoop
  PROVE  Base'
<1>1. /\ pending' \in Seq(Emissions) /\ Len(pending') <= QueueLimit
      /\ inHand' \in Seq(Emissions) /\ Len(inHand') <= 1
      /\ published' \in Seq(Emissions)
  <2>1. CASE MayLeave \/ Wait
    BY <2>1 DEF MayLeave, Wait, fates, Base, TypeOK
  <2>2. CASE Get
    <3>1. CASE pending = <<>>
      BY <2>2, <3>1 DEF Get, fates, Base, TypeOK
    <3>2. CASE pending # <<>>
      BY <2>2, <3>2, GetBase DEF Get, fates, Base, TypeOK
    <3>3. QED
      BY <3>1, <3>2
  <2>3. CASE PublishPending
    BY <2>3, PendingType, EmptySeq DEF PublishPending, Base, TypeOK
  <2>4. QED
    BY <2>1, <2>2, <2>3 DEF PublishLoop
<1>2. /\ loop \in {"check", "empty", "get", "publish", "wait"}
      /\ loop' \in {"none", "check", "empty", "get", "publish", "wait", "done"}
      /\ loop' \in {"empty", "done"} => stopSet
      /\ UNCHANGED <<throttled, call, emitted, closed, stopSet, stopping, stoppedBy, accepted, dropped>>
  BY DEF PublishLoop, MayLeave, Get, PublishPending, Wait, callers, stops, fates, Base, Control, Stopped
<1>3. TypeOK'
  BY <1>1, <1>2 DEF Base, TypeOK
<1>4. throttled
  BY <1>2 DEF Base, Control, Modes, TypeOK
<1>5. OneInQueue' /\ Stopped'
  BY <1>2 DEF Base, Control, OneInQueue, Stopped
<1>6. loop' # "publish" => inHand' = <<>>
  BY DEF PublishLoop, MayLeave, Get, PublishPending, Wait, Base, Control, Modes
<1>7. Modes'
  BY <1>2, <1>4, <1>6 DEF Base, Control, Modes
<1>8. QED
  BY <1>3, <1>5, <1>7 DEF Base, Control

LEMMA StepBase == Base /\ [Next]_vars => Base'
<1> SUFFICES ASSUME Base, [Next]_vars PROVE Base'
  OBVIOUS
<1>1. ASSUME NEW t \in Callers, OnEvent(t) \/ InCall(t) PROVE Base'
  BY <1>1, OnEventBase, EnterBase, DirectBase, PutBase, EvictBase DEF InCall
<1>2. ASSUME NEW t \in Stoppers, Stop(t) \/ InStop(t) PROVE Base'
  BY <1>2, StopBase
<1>3. CASE PublishLoop
  BY <1>3, LoopBase
<1>4. CASE UNCHANGED vars
  BY <1>4 DEF vars, callers, stops, thread, fates, Base, Control, TypeOK, OneInQueue, Modes, Stopped
<1>5. QED
  BY <1>1, <1>2, <1>3, <1>4 DEF Next

(* Every variable keeps its type: the pending queue stays within            *)
(* queue_limit, for any number of callers and stoppers.                     *)
THEOREM TypeCorrect == Spec => []TypeOK
<1>1. Base => TypeOK
  BY DEF Base
<1> QED BY <1>1, InitBase, StepBase, PTL DEF Spec

-----------------------------------------------------------------------------
(* The second put                                                          *)

LEMMA RoomAfterEviction ==
  ASSUME Base, NEW t \in Callers, Evict(t)
  PROVE  Len(pending') < QueueLimit
<1>1. QueueLimit \in Nat \ {0} /\ Len(pending) <= QueueLimit
  BY MonitorAssumption DEF Base, TypeOK
<1>2. CASE pending = <<>>
  BY <1>1, <1>2 DEF Evict
<1>3. CASE pending # <<>>
  <2>1. Len(Tail(pending)) = Len(pending) - 1 /\ Len(pending) \in Nat
    BY <1>3, PendingType DEF Base
  <2>2. QED
    BY <1>1, <1>3, <2>1 DEF Evict
<1>4. QED
  BY <1>2, <1>3

LEMMA RoomStep == Base /\ SecondPutFindsRoom /\ [Next]_vars => SecondPutFindsRoom'
<1> SUFFICES ASSUME Base, SecondPutFindsRoom, [Next]_vars,
                    NEW t \in Callers, call'[t] = "putAgain"
             PROVE  Len(pending') < QueueLimit
  BY DEF SecondPutFindsRoom, Room
<1>1. ASSUME UNCHANGED <<call, pending>>
      PROVE  Len(pending') < QueueLimit
  BY <1>1 DEF SecondPutFindsRoom, Room
<1>2. ASSUME NEW u \in Callers, OnEvent(u) \/ Enter(u) \/ PublishDirect(u)
      PROVE  Len(pending') < QueueLimit
  <2>1. pending' = pending /\ call[t] = "putAgain"
    BY <1>2 DEF OnEvent, Enter, Accept, PublishDirect, Goto, Base, TypeOK
  <2>2. QED
    BY <2>1 DEF SecondPutFindsRoom, Room
<1>3. ASSUME NEW u \in Callers, Put(u) \/ PutAgain(u)
      PROVE  Len(pending') < QueueLimit
  <2>1. call[u] \in InQueue /\ call[t] = "putAgain" /\ u # t
    BY <1>3 DEF Put, PutAgain, Goto, Base, TypeOK, InQueue
  <2>2. QED
    BY <2>1 DEF Base, Control, OneInQueue, InQueue
<1>4. ASSUME NEW u \in Callers, Evict(u)
      PROVE  Len(pending') < QueueLimit
  BY <1>4, RoomAfterEviction
<1>5. ASSUME NEW u \in Stoppers, Stop(u) \/ InStop(u)
      PROVE  Len(pending') < QueueLimit
  BY <1>1, <1>5 DEF Stop, InStop, SetStopEvent, Joined, callers
<1>6. CASE PublishLoop
  <2>1. CASE Get /\ pending # <<>>
    <3>1. Len(Tail(pending)) = Len(pending) - 1 /\ Len(pending) \in Nat
      BY <2>1, PendingType DEF Base
    <3>2. call[t] = "putAgain" /\ pending' = Tail(pending)
      BY <2>1 DEF Get, callers
    <3>3. Len(pending) < QueueLimit /\ QueueLimit \in Nat
      BY <3>2, MonitorAssumption DEF SecondPutFindsRoom, Room
    <3>4. QED
      BY <3>1, <3>2, <3>3
  <2>2. CASE ~(Get /\ pending # <<>>)
    BY <1>1, <1>6, <2>2 DEF PublishLoop, MayLeave, Get, PublishPending, Wait, callers
  <2>3. QED
    BY <2>1, <2>2
<1>7. CASE UNCHANGED vars
  BY <1>1, <1>7 DEF vars, callers
<1>8. QED
  BY <1>2, <1>3, <1>4, <1>5, <1>6, <1>7 DEF Next, InCall

(* The put after an eviction finds room: on_event raises no queue.Full into *)
(* the run it observes, whatever the thread takes and other callers do.     *)
THEOREM RoomForTheSecondPut == Spec => []SecondPutFindsRoom
<1>1. Init => SecondPutFindsRoom
  BY DEF Init, SecondPutFindsRoom
<1> QED BY <1>1, InitBase, StepBase, RoomStep, PTL DEF Spec

-----------------------------------------------------------------------------
(* What a stop may strand                                                  *)

(* Once the thread has left, one event at most waits, nobody is about to    *)
(* put another, and somebody else than who emitted it has stopped.          *)
Strands ==
  loop = "done" /\ pending # <<>> =>
    /\ Len(pending) = 1
    /\ \A t \in Callers : call[t] \notin InQueue
    /\ \E t \in stoppedBy : t # pending[1][1]

LEMMA StrandsStep == Base /\ Strands /\ [Next]_vars => Strands'
<1> SUFFICES ASSUME Base, Strands, [Next]_vars, loop' = "done", pending' # <<>>
             PROVE  /\ Len(pending') = 1
                    /\ \A t \in Callers : call'[t] \notin InQueue
                    /\ \E t \in stoppedBy' : t # pending'[1][1]
  BY DEF Strands
<1>1. ASSUME NEW t \in Callers, Put(t) \/ PutAgain(t), pending' # pending
      PROVE  /\ Len(pending') = 1
             /\ \A u \in Callers : call'[u] \notin InQueue
             /\ \E u \in stoppedBy' : u # pending'[1][1]
  <2>1. /\ call[t] \in InQueue /\ call'[t] = "outside" /\ loop = "done" /\ stoppedBy' = stoppedBy
        /\ pending' = Append(pending, Event(t))
        /\ \A u \in Callers \ {t} : call'[u] = call[u]
    BY <1>1 DEF Put, PutAgain, Goto, thread, stops, Base, TypeOK, InQueue
  <2>2. pending = <<>>
    BY <2>1 DEF Strands
  <2>3. pending' = <<Event(t)>>
    BY <2>1, <2>2
  <2>4. \A u \in Callers : call'[u] \notin InQueue
    BY <2>1 DEF Base, Control, OneInQueue, InQueue
  <2>5. t \notin stoppedBy /\ stoppedBy # {}
    BY <2>1 DEF Base, Control, Stopped
  <2>6. pending'[1][1] = t
    BY <2>3 DEF Event
  <2>7. QED
    BY <2>1, <2>3, <2>4, <2>5, <2>6
<1>2. ASSUME loop = "done", pending # <<>>,
             UNCHANGED pending, stoppedBy \subseteq stoppedBy',
             \A t \in Callers : call'[t] \in InQueue => call[t] \in InQueue
      PROVE  /\ Len(pending') = 1
             /\ \A t \in Callers : call'[t] \notin InQueue
             /\ \E t \in stoppedBy' : t # pending'[1][1]
  BY <1>2 DEF Strands
<1>3. ASSUME NEW t \in Callers, OnEvent(t) \/ Enter(t) \/ PublishDirect(t)
      PROVE  UNCHANGED <<pending, stoppedBy, loop>> /\ \A u \in Callers : call'[u] \in InQueue => call[u] \in InQueue
  <2>1. UNCHANGED <<pending, stoppedBy, loop>>
    BY <1>3 DEF OnEvent, Enter, PublishDirect, stops, thread
  <2>2. closed
    BY <2>1 DEF Base, Control, Stopped
  <2>3. \A u \in Callers : call'[u] \in InQueue => call[u] \in InQueue
    BY <1>3, <2>2 DEF OnEvent, Enter, Accept, PublishDirect, Goto, Base, TypeOK, InQueue
  <2>4. QED
    BY <2>1, <2>3
<1>4. ASSUME NEW t \in Callers, Put(t) \/ PutAgain(t), pending' = pending
      PROVE  UNCHANGED <<pending, stoppedBy, loop>> /\ \A u \in Callers : call'[u] \in InQueue => call[u] \in InQueue
  BY <1>4 DEF Put, PutAgain, Goto, stops, thread, Base, TypeOK, InQueue
<1>5. ASSUME NEW t \in Callers, Evict(t)
      PROVE  FALSE
  <2>1. loop = "done" /\ call[t] \in InQueue
    BY <1>5 DEF Evict, thread, InQueue
  <2>2. pending = <<>>
    BY <2>1 DEF Strands
  <2>3. QED
    BY <1>5, <2>2 DEF Evict
<1>6. ASSUME NEW t \in Stoppers, Stop(t) \/ InStop(t)
      PROVE  UNCHANGED <<pending, loop, call>> /\ stoppedBy \subseteq stoppedBy'
  BY <1>6 DEF Stop, InStop, SetStopEvent, Joined, callers, thread
<1>7. ASSUME PublishLoop
      PROVE  FALSE
  BY <1>7 DEF PublishLoop, MayLeave, Get, PublishPending, Wait
<1>8. CASE UNCHANGED vars
  BY <1>2, <1>8 DEF vars, callers, stops, thread
<1>9. QED
  BY <1>1, <1>2, <1>3, <1>4, <1>5, <1>6, <1>7, <1>8 DEF Next, InCall

(* An event accepted just before a stop is the only one that may come too   *)
(* late for the thread, and then a thread that did not emit it has stopped  *)
(* the monitor: on_event and stop called by one thread strand nothing.      *)
THEOREM OneStrandedAtMost == Spec => []AtMostOneStranded
<1>1. Init => Strands
  BY DEF Init, Strands
<1>2. Base /\ Strands => AtMostOneStranded
  <2> SUFFICES ASSUME Base, Strands, loop = "done"
               PROVE  Cardinality(Stranded) <= 1 /\ \A e \in Stranded : stoppedBy # {e[1]}
    BY DEF AtMostOneStranded
  <2>1. CASE pending # <<>>
    <3>1. InQueueCall = {}
      BY <2>1 DEF Strands, InQueueCall, InQueue
    <3>2. Len(pending) = 1
      BY <2>1 DEF Strands
    <3>3. Stranded = {pending[1]}
      BY <3>1, <3>2 DEF Stranded, RangeOf
    <3>4. Cardinality(Stranded) = 1
      BY <3>3, FS_Singleton
    <3>5. QED
      BY <2>1, <3>3, <3>4 DEF Strands
  <2>2. CASE pending = <<>> /\ InQueueCall = {}
    <3>1. Stranded = {}
      BY <2>2 DEF Stranded, RangeOf
    <3>2. QED
      BY <3>1, FS_EmptySet
  <2>3. CASE pending = <<>> /\ InQueueCall # {}
    <3>1. PICK t \in Callers : call[t] \in InQueue
      BY <2>3 DEF InQueueCall, InQueue
    <3>2. InQueueCall = {t}
      BY <3>1 DEF Base, Control, OneInQueue, InQueueCall, InQueue
    <3>3. Stranded = {Event(t)}
      BY <2>3, <3>2 DEF Stranded, RangeOf
    <3>4. Cardinality(Stranded) = 1
      BY <3>3, FS_Singleton
    <3>5. t \notin stoppedBy /\ stoppedBy # {}
      BY <3>1 DEF Base, Control, Stopped
    <3>6. QED
      BY <3>3, <3>4, <3>5 DEF Event
  <2>4. QED
    BY <2>1, <2>2, <2>3
<1> QED BY <1>1, <1>2, InitBase, StepBase, StrandsStep, PTL DEF Spec

-----------------------------------------------------------------------------
(* The stream                                                              *)

LEMMA ConcatAppend ==
  ASSUME NEW S, NEW s \in Seq(S), NEW u \in Seq(S), NEW e \in S
  PROVE  s \o Append(u, e) = Append(s \o u, e)
<1> DEFINE o == <<e>>
<1>1. o \in Seq(S) /\ Append(u, e) = u \o o /\ Append(s \o u, e) = (s \o u) \o o
  BY AppendIsConcat, ConcatProperties
<1> HIDE DEF o
<1>2. s \o (u \o o) = (s \o u) \o o
  BY <1>1, ConcatAssociative
<1>3. QED
  BY <1>1, <1>2

LEMMA TheOnly ==
  ASSUME NEW S, NEW t, S = {t}
  PROVE  (CHOOSE u \in S : TRUE) = t
OBVIOUS

LEMMA NobodyPuts ==
  ASSUME \A t \in Callers : call[t] \notin InQueue
  PROVE  OnItsWay = <<>>
BY DEF OnItsWay, InQueueCall, InQueue

LEMMA NobodyPutsNext ==
  ASSUME \A t \in Callers : call'[t] \notin InQueue
  PROVE  OnItsWay' = <<>>
BY DEF OnItsWay, InQueueCall, InQueue

LEMMA OnePuts ==
  ASSUME OneInQueue, NEW t \in Callers, call[t] \in InQueue
  PROVE  OnItsWay = <<Event(t)>>
<1>1. InQueueCall = {t}
  BY DEF OneInQueue, InQueueCall, InQueue
<1>2. (CHOOSE u \in InQueueCall : TRUE) = t
  BY <1>1, TheOnly
<1>3. QED
  BY <1>1, <1>2 DEF OnItsWay

LEMMA OnePutsNext ==
  ASSUME OneInQueue', NEW t \in Callers, call'[t] \in InQueue, emitted'[t] = emitted[t]
  PROVE  OnItsWay' = <<Event(t)>>
<1>1. InQueueCall' = {t}
  BY DEF OneInQueue, InQueueCall, InQueue
<1>2. (CHOOSE u \in InQueueCall' : TRUE) = t
  BY <1>1, TheOnly
<1>3. QED
  BY <1>1, <1>2 DEF OnItsWay, Event

LEMMA WaitingType ==
  ASSUME Base
  PROVE  /\ OnItsWay \in Seq(Emissions) /\ Waiting \in Seq(Emissions)
         /\ inHand \o Waiting \in Seq(Emissions)
         /\ Stream \in Seq(Emissions)
<1>1. OnItsWay \in Seq(Emissions)
  <2>1. CASE \A t \in Callers : call[t] \notin InQueue
    BY <2>1, NobodyPuts, EmptySeq
  <2>2. ASSUME NEW t \in Callers, call[t] \in InQueue
        PROVE  OnItsWay \in Seq(Emissions)
    <3>1. Event(t) \in Emissions
      BY <2>2, EventType DEF Base, Control, InQueue
    <3>2. OnItsWay = <<Event(t)>>
      BY <2>2, OnePuts DEF Base, Control
    <3>3. QED
      BY <3>1, <3>2
  <2>3. QED
    BY <2>1, <2>2
<1>2. Waiting \in Seq(Emissions)
  BY <1>1, PendingType, ConcatProperties DEF Base, Waiting
<1>3. inHand \o Waiting \in Seq(Emissions)
  BY <1>2, PendingType, ConcatProperties DEF Base
<1>4. Stream \in Seq(Emissions)
  BY <1>3, PendingType, ConcatProperties DEF Base, Stream
<1>5. QED
  BY <1>1, <1>2, <1>3, <1>4

(* An acceptance adds to the end of what waits.                             *)
LEMMA EnterStream ==
  ASSUME Base, Base', NEW t \in Callers, Enter(t), throttled, ~closed
  PROVE  /\ Waiting' = Append(Waiting, Event(t))
         /\ Stream' = Append(Stream, Event(t))
<1>1. /\ \A u \in Callers : call[u] \notin InQueue
      /\ call'[t] \in InQueue /\ emitted' = emitted /\ pending' = pending
      /\ published' = published /\ inHand' = inHand
  BY DEF Enter, Accept, Goto, LockFree, thread, InQueue, Base, TypeOK
<1>2. Event(t) \in Emissions
  BY EventType DEF Base, Control, Enter
<1>3. OnItsWay = <<>> /\ OnItsWay' = <<Event(t)>>
  BY <1>1, NobodyPuts, OnePutsNext DEF Base, Control
<1>4. pending \in Seq(Emissions)
  BY PendingType DEF Base
<1>5. Waiting = pending /\ Waiting' = Append(pending, Event(t))
  <2>1. pending \o <<>> = pending
    BY <1>4, ConcatEmptySeq
  <2>2. Append(pending, Event(t)) = pending \o <<Event(t)>>
    BY <1>2, <1>4, AppendIsConcat
  <2>3. QED
    BY <1>1, <1>3, <2>1, <2>2 DEF Waiting
<1>6. inHand \o Append(Waiting, Event(t)) = Append(inHand \o Waiting, Event(t))
  BY <1>2, WaitingType, PendingType, ConcatAppend DEF Base
<1>7. published \o Append(inHand \o Waiting, Event(t)) = Append(published \o (inHand \o Waiting), Event(t))
  BY <1>2, WaitingType, PendingType, ConcatAppend DEF Base
<1>8. QED
  BY <1>1, <1>5, <1>6, <1>7 DEF Stream

(* Putting moves an event from the caller's hand to the queue.              *)
LEMMA PutStream ==
  ASSUME Base, Base', SecondPutFindsRoom, NEW t \in Callers, Put(t) \/ PutAgain(t)
  PROVE  Waiting' = Waiting /\ Stream' = Stream
<1>1. /\ call[t] \in InQueue /\ emitted' = emitted /\ published' = published /\ inHand' = inHand
      /\ \A u \in Callers \ {t} : call'[u] = call[u]
  BY DEF Put, PutAgain, Goto, thread, fates, Base, TypeOK, InQueue
<1>2. Event(t) \in Emissions /\ OnItsWay = <<Event(t)>> /\ pending \in Seq(Emissions)
  BY <1>1, EventType, OnePuts, PendingType DEF Base, Control, InQueue
<1>3. CASE Room
  <2>1. pending' = Append(pending, Event(t)) /\ call'[t] = "outside"
    BY <1>3 DEF Put, PutAgain, Goto, Base, TypeOK
  <2>2. \A u \in Callers : call'[u] \notin InQueue
    BY <1>1, <2>1 DEF Base, Control, OneInQueue, InQueue
  <2>3. OnItsWay' = <<>>
    BY <2>2, NobodyPutsNext
  <2>4. /\ Append(pending, Event(t)) = pending \o <<Event(t)>>
        /\ Append(pending, Event(t)) \in Seq(Emissions)
    BY <1>2, AppendIsConcat, AppendProperties
  <2>5. Append(pending, Event(t)) \o <<>> = Append(pending, Event(t))
    BY <2>4, ConcatEmptySeq
  <2>6. Waiting' = Waiting
    BY <1>2, <2>1, <2>3, <2>4, <2>5 DEF Waiting
  <2>7. QED
    BY <1>1, <2>6 DEF Stream
<1>4. CASE ~Room
  <2>1. pending' = pending /\ call'[t] \in InQueue
    BY <1>4 DEF Put, PutAgain, Goto, Base, TypeOK, InQueue, SecondPutFindsRoom
  <2>2. OnItsWay' = <<Event(t)>>
    BY <1>1, <2>1, OnePutsNext DEF Base, Control
  <2>3. Waiting' = Waiting
    BY <1>2, <2>1, <2>2 DEF Waiting
  <2>4. QED
    BY <1>1, <2>3 DEF Stream
<1>5. QED
  BY <1>3, <1>4

(* An eviction takes the oldest that waits.                                 *)
LEMMA EvictStream ==
  ASSUME Base, Base', NEW t \in Callers, Evict(t), pending # <<>>
  PROVE  /\ Waiting # <<>> /\ Head(Waiting) = Head(pending) /\ Waiting' = Tail(Waiting)
         /\ published' = published /\ inHand' = inHand
         /\ dropped' = dropped \cup {Head(pending)}
<1>1. /\ call[t] \in InQueue /\ call'[t] \in InQueue /\ emitted' = emitted /\ pending' = Tail(pending)
      /\ published' = published /\ inHand' = inHand /\ dropped' = dropped \cup {Head(pending)}
  BY DEF Evict, Goto, thread, Base, TypeOK, InQueue
<1>2. OnItsWay' = OnItsWay
  BY <1>1, OnePuts, OnePutsNext DEF Base, Control
<1>3. pending \in Seq(Emissions) /\ OnItsWay \in Seq(Emissions)
  BY PendingType, WaitingType DEF Base
<1>4. QED
  BY <1>1, <1>2, <1>3, HeadOfConcat DEF Waiting

(* Taking an event and publishing it leave the stream as it is.             *)
LEMMA LoopStream ==
  ASSUME Base, Base', PublishLoop
  PROVE  /\ Stream' = Stream
         /\ Waiting' = Waiting \/ (Waiting # <<>> /\ Waiting' = Tail(Waiting))
<1>1. UNCHANGED <<call, emitted>>
  BY DEF PublishLoop, MayLeave, Get, PublishPending, Wait, callers
<1>2. OnItsWay' = OnItsWay
  BY <1>1 DEF OnItsWay, InQueueCall, Event
<1>3. ASSUME UNCHANGED <<pending, inHand, published>>
      PROVE  Stream' = Stream /\ Waiting' = Waiting
  BY <1>2, <1>3 DEF Stream, Waiting
<1>4. CASE Get /\ pending # <<>>
  <2>1. /\ inHand = <<>> /\ published' = published
        /\ inHand' = <<Head(pending)>> /\ pending' = Tail(pending)
    BY <1>4 DEF Get, fates, Base, Control, Modes
  <2>2. pending \in Seq(Emissions) /\ OnItsWay \in Seq(Emissions) /\ Waiting \in Seq(Emissions)
    BY PendingType, WaitingType DEF Base
  <2>3. Waiting # <<>> /\ Head(Waiting) = Head(pending) /\ Waiting' = Tail(Waiting)
    BY <1>2, <1>4, <2>1, <2>2, HeadOfConcat DEF Waiting
  <2>4. <<Head(Waiting)>> \o Tail(Waiting) = Waiting /\ <<>> \o Waiting = Waiting
    BY <2>2, <2>3, HeadAndTail, ConcatEmptySeq
  <2>5. inHand' \o Waiting' = inHand \o Waiting
    BY <2>1, <2>3, <2>4
  <2>6. QED
    BY <2>1, <2>3, <2>5 DEF Stream
<1>5. CASE PublishPending
  <2>1. published' = published \o inHand /\ inHand' = <<>> /\ pending' = pending
    BY <1>5 DEF PublishPending
  <2>2. Waiting' = Waiting
    BY <1>2, <2>1 DEF Waiting
  <2>3. published \in Seq(Emissions) /\ inHand \in Seq(Emissions) /\ Waiting \in Seq(Emissions)
    BY PendingType, WaitingType DEF Base
  <2>4. <<>> \o Waiting = Waiting
    BY <2>3, ConcatEmptySeq
  <2>5. (published \o inHand) \o Waiting = published \o (inHand \o Waiting)
    BY <2>3, ConcatAssociative
  <2>6. QED
    BY <2>1, <2>2, <2>4, <2>5 DEF Stream
<1>6. QED
  BY <1>3, <1>4, <1>5 DEF PublishLoop, MayLeave, Get, Wait, fates

-----------------------------------------------------------------------------
(* Accepted, in order                                                      *)

(* Every event is new, and only accepted ones are dropped.                  *)
Fresh ==
  /\ \A t \in Callers : call[t] = "entered" => Event(t) \notin RangeOf(accepted)
  /\ \A e \in RangeOf(accepted) : e[2] <= emitted[e[1]]
  /\ dropped \subseteq RangeOf(accepted)

OlderDropped ==
  \A i, j \in 1..Len(accepted) :
    accepted[i] \in dropped /\ accepted[j] \in RangeOf(Waiting) => i < j

InStream ==
  throttled => /\ RangeOf(Stream) = RangeOf(accepted) \ dropped
               /\ InOrderOf(Stream, accepted)
               /\ OlderDropped

(* Without throttling.                                                     *)
Directly ==
  ~throttled =>
    /\ Len(published) + Cardinality(InDirectCall) = Len(accepted)
    /\ RangeOf(accepted) = RangeOf(published) \cup {Event(t) : t \in InDirectCall}

LEMMA WaitingInStream ==
  ASSUME Base
  PROVE  RangeOf(pending) \subseteq RangeOf(Waiting) /\ RangeOf(Waiting) \subseteq RangeOf(Stream)
<1>1. /\ pending \in Seq(Emissions) /\ OnItsWay \in Seq(Emissions) /\ Waiting \in Seq(Emissions)
      /\ inHand \in Seq(Emissions) /\ published \in Seq(Emissions)
      /\ inHand \o Waiting \in Seq(Emissions)
  BY PendingType, WaitingType DEF Base
<1>2. RangeOf(Waiting) = RangeOf(pending) \cup RangeOf(OnItsWay)
  BY <1>1, RangeOfConcat DEF Waiting
<1>3. RangeOf(inHand \o Waiting) = RangeOf(inHand) \cup RangeOf(Waiting)
  BY <1>1, RangeOfConcat
<1>4. RangeOf(Stream) = RangeOf(published) \cup RangeOf(inHand \o Waiting)
  <2> DEFINE w == inHand \o Waiting
  <2>1. w \in Seq(Emissions)
    BY <1>1
  <2>2. Stream = published \o w
    BY DEF Stream
  <2> HIDE DEF w
  <2>3. RangeOf(published \o w) = RangeOf(published) \cup RangeOf(w)
    BY <1>1, <2>1, RangeOfConcat
  <2>4. QED
    BY <2>2, <2>3 DEF w
<1>5. QED
  BY <1>2, <1>3, <1>4

LEMMA AcceptStream ==
  ASSUME Base, Base', Fresh, InStream, NEW t \in Callers, Enter(t), throttled, ~closed
  PROVE  InStream'
<1> DEFINE e == Event(t)
<1>1. /\ accepted' = Append(accepted, e) /\ dropped' = dropped /\ throttled' = throttled
      /\ call[t] = "entered"
  BY DEF Enter, Accept
<1>2. /\ e \in Emissions /\ e \notin RangeOf(accepted) /\ e \notin dropped
      /\ accepted \in Seq(Emissions) /\ Stream \in Seq(Emissions) /\ Waiting \in Seq(Emissions)
  BY <1>1, EventType, PendingType, WaitingType DEF Base, Control, Fresh
<1>3. Waiting' = Append(Waiting, e) /\ Stream' = Append(Stream, e)
  BY EnterStream
<1> HIDE DEF e
<1>4. InOrderOf(Stream', accepted')
  BY <1>1, <1>2, <1>3, OrderWithNewest DEF InStream
<1>5. /\ RangeOf(Stream') = RangeOf(Stream) \cup {e}
      /\ RangeOf(accepted') = RangeOf(accepted) \cup {e}
      /\ RangeOf(Waiting') = RangeOf(Waiting) \cup {e}
  BY <1>1, <1>2, <1>3, RangeOfAppend
<1>6. RangeOf(Stream') = RangeOf(accepted') \ dropped'
  BY <1>1, <1>2, <1>5 DEF InStream
<1>7. /\ Len(accepted') = Len(accepted) + 1 /\ Len(accepted) \in Nat
      /\ \A i \in 1..Len(accepted) : accepted'[i] = accepted[i] /\ accepted[i] # e
      /\ accepted'[Len(accepted) + 1] = e
  <2>1. \A i \in 1..Len(accepted) : accepted[i] # e
    BY <1>2 DEF RangeOf
  <2>2. QED
    BY <1>1, <1>2, <2>1, AppendProperties
<1>8. ASSUME NEW i \in 1..Len(accepted'), NEW j \in 1..Len(accepted'),
             accepted'[i] \in dropped, accepted'[j] \in RangeOf(Waiting) \cup {e}
      PROVE  i < j
  <2>1. i \in 1..Len(accepted) /\ accepted[i] \in dropped
    BY <1>2, <1>7, <1>8
  <2>2. CASE j = Len(accepted) + 1
    BY <1>7, <2>1, <2>2
  <2>3. CASE j \in 1..Len(accepted)
    <3>1. accepted[j] \in RangeOf(Waiting)
      BY <1>7, <1>8, <2>3
    <3>2. QED
      BY <2>1, <2>3, <3>1 DEF InStream, OlderDropped
  <2>4. QED
    BY <1>7, <2>2, <2>3
<1>9. OlderDropped'
  BY <1>1, <1>5, <1>8 DEF OlderDropped
<1>10. QED
  BY <1>4, <1>6, <1>9 DEF InStream

LEMMA GivenUpStream ==
  ASSUME Base, Base', InStream, NEW t \in Callers, Evict(t), pending # <<>>, throttled
  PROVE  InStream'
<1> DEFINE s == published \o inHand
           h == Head(pending)
<1>1. /\ Waiting # <<>> /\ Head(Waiting) = h /\ Waiting' = Tail(Waiting)
      /\ published' = published /\ inHand' = inHand /\ dropped' = dropped \cup {h}
  BY EvictStream
<1>2. accepted' = accepted /\ throttled' = throttled
  BY DEF Evict
<1>3. /\ published \in Seq(Emissions) /\ inHand \in Seq(Emissions) /\ Waiting \in Seq(Emissions)
      /\ s \in Seq(Emissions) /\ Tail(Waiting) \in Seq(Emissions)
      /\ accepted \in Seq(Emissions)
  BY <1>1, PendingType, WaitingType, HeadTailProperties DEF Base
<1>4. Stream = s \o Waiting /\ Stream' = s \o Tail(Waiting)
  <2> DEFINE r == Tail(Waiting)
  <2>1. r \in Seq(Emissions) /\ Stream' = published \o (inHand \o r)
    BY <1>1, <1>3 DEF Stream
  <2> HIDE DEF r
  <2>2. published \in Seq(Emissions) /\ inHand \in Seq(Emissions) /\ Waiting \in Seq(Emissions)
    BY <1>3
  <2>3. published \o (inHand \o Waiting) = (published \o inHand) \o Waiting
    BY <2>2, ConcatAssociative
  <2>4. published \o (inHand \o r) = (published \o inHand) \o r
    BY <2>1, <2>2, ConcatAssociative
  <2>5. QED
    BY <2>1, <2>3, <2>4 DEF Stream, r
<1> HIDE DEF s, h
<1>5. RangeOf(s \o Waiting) \subseteq RangeOf(accepted) /\ InOrderOf(s \o Waiting, accepted)
  BY <1>4 DEF InStream
<1>6. /\ InOrderOf(s \o Tail(Waiting), accepted)
      /\ RangeOf(s \o Tail(Waiting)) = RangeOf(s \o Waiting) \ {h}
      /\ \A x \in RangeOf(Tail(Waiting)), i, j \in 1..Len(accepted) :
           accepted[i] = h /\ accepted[j] = x => i < j
  BY <1>1, <1>3, <1>5, OrderWithoutOne
<1>7. InOrderOf(Stream', accepted') /\ RangeOf(Stream') = RangeOf(accepted') \ dropped'
  BY <1>1, <1>2, <1>4, <1>6 DEF InStream
<1>8. RangeOf(Tail(Waiting)) \subseteq RangeOf(Waiting)
  BY <1>1, <1>3, RangeOfHead
<1>9. ASSUME NEW i \in 1..Len(accepted), NEW j \in 1..Len(accepted),
             accepted[i] \in dropped \cup {h}, accepted[j] \in RangeOf(Tail(Waiting))
      PROVE  i < j
  <2>1. CASE accepted[i] \in dropped
    BY <1>8, <1>9, <2>1 DEF InStream, OlderDropped
  <2>2. CASE accepted[i] = h
    BY <1>6, <1>9, <2>2
  <2>3. QED
    BY <1>9, <2>1, <2>2
<1>10. OlderDropped'
  BY <1>1, <1>2, <1>9 DEF OlderDropped
<1>11. QED
  BY <1>7, <1>10 DEF InStream

LEMMA SameMode == [Next]_vars => throttled' = throttled
<1> SUFFICES ASSUME [Next]_vars PROVE throttled' = throttled
  OBVIOUS
<1>1. ASSUME NEW t \in Callers, OnEvent(t) \/ InCall(t) PROVE throttled' = throttled
  BY <1>1 DEF OnEvent, InCall, Enter, PublishDirect, Put, Evict, PutAgain
<1>2. ASSUME NEW t \in Stoppers, Stop(t) \/ InStop(t) PROVE throttled' = throttled
  BY <1>2 DEF Stop, InStop, SetStopEvent, Joined
<1>3. CASE PublishLoop
  BY <1>3 DEF PublishLoop, MayLeave, Get, PublishPending, Wait
<1>4. CASE UNCHANGED vars
  BY <1>4 DEF vars
<1>5. QED
  BY <1>1, <1>2, <1>3, <1>4 DEF Next

LEMMA StreamStep == Base /\ Base' /\ SecondPutFindsRoom /\ Fresh /\ InStream /\ [Next]_vars => InStream'
<1> SUFFICES ASSUME Base, Base', SecondPutFindsRoom, Fresh, InStream, [Next]_vars, throttled'
             PROVE  InStream'
  BY DEF InStream
<1>0. throttled
  BY SameMode
<1>1. ASSUME Stream' = Stream, RangeOf(Waiting') \subseteq RangeOf(Waiting),
             UNCHANGED <<accepted, dropped>>
      PROVE  InStream'
  BY <1>0, <1>1 DEF InStream, OlderDropped
<1>2. ASSUME UNCHANGED <<pending, inHand, published, accepted, dropped>>, OnItsWay' = OnItsWay
      PROVE  InStream'
  BY <1>1, <1>2 DEF Stream, Waiting
<1>3. ASSUME NEW t \in Callers, OnEvent(t) PROVE InStream'
  <2>1. /\ call[t] = "outside" /\ call'[t] = "entered" /\ UNCHANGED <<pending, inHand, published, accepted, dropped>>
        /\ \A u \in Callers \ {t} : call'[u] = call[u] /\ emitted'[u] = emitted[u]
    BY <1>3 DEF OnEvent, Outside, Goto, thread, fates, Base, TypeOK
  <2>2. InQueueCall' = InQueueCall /\ \A u \in InQueueCall : Event(u)' = Event(u)
    BY <2>1 DEF InQueueCall, Event
  <2>3. OnItsWay' = OnItsWay
    <3>1. CASE InQueueCall = {}
      BY <2>2, <3>1 DEF OnItsWay
    <3>2. CASE InQueueCall # {}
      <4>1. PICK u \in Callers : call[u] \in InQueue
        BY <3>2 DEF InQueueCall, InQueue
      <4>2. u # t /\ call'[u] \in InQueue /\ emitted'[u] = emitted[u]
        BY <2>1, <4>1 DEF InQueue
      <4>3. OneInQueue /\ OneInQueue'
        BY DEF Base, Control
      <4>4. OnItsWay = <<Event(u)>>
        BY <4>1, <4>3, OnePuts
      <4>5. OnItsWay' = <<Event(u)>>
        BY <4>2, <4>3, OnePutsNext
      <4>6. QED
        BY <4>4, <4>5
    <3>3. QED
      BY <3>1, <3>2
  <2>4. QED
    BY <1>2, <2>1, <2>3
<1>4. ASSUME NEW t \in Callers, Enter(t) PROVE InStream'
  <2>1. CASE ~closed
    BY <1>0, <1>4, <2>1, AcceptStream
  <2>2. CASE closed
    <3>1. /\ call[t] = "entered" /\ call'[t] = "outside" /\ emitted' = emitted
          /\ UNCHANGED <<pending, inHand, published, accepted, dropped>>
          /\ \A u \in Callers \ {t} : call'[u] = call[u]
      BY <1>4, <2>2 DEF Enter, Accept, Goto, thread, Base, TypeOK
    <3>2. InQueueCall' = InQueueCall
      BY <3>1 DEF InQueueCall
    <3>3. QED
      BY <1>2, <3>1, <3>2 DEF OnItsWay, Event
  <2>3. QED
    BY <2>1, <2>2
<1>5. ASSUME NEW t \in Callers, PublishDirect(t) PROVE InStream'
  BY <1>0, <1>5 DEF PublishDirect, Base, Control, Modes
<1>6. ASSUME NEW t \in Callers, Put(t) \/ PutAgain(t) PROVE InStream'
  BY <1>1, <1>6, PutStream DEF Put, PutAgain, fates
<1>7. ASSUME NEW t \in Callers, Evict(t) PROVE InStream'
  <2>1. CASE pending # <<>>
    BY <1>0, <1>7, <2>1, GivenUpStream
  <2>2. CASE pending = <<>>
    <3>1. /\ call[t] \in InQueue /\ call'[t] \in InQueue /\ emitted' = emitted
          /\ UNCHANGED <<pending, inHand, published, accepted, dropped>>
      BY <1>7, <2>2 DEF Evict, Goto, thread, Base, TypeOK, InQueue
    <3>2. OneInQueue /\ OneInQueue'
      BY DEF Base, Control
    <3>3. OnItsWay = <<Event(t)>>
      BY <3>1, <3>2, OnePuts
    <3>4. OnItsWay' = <<Event(t)>>
      BY <3>1, <3>2, OnePutsNext
    <3>5. QED
      BY <1>2, <3>1, <3>3, <3>4
  <2>3. QED
    BY <2>1, <2>2
<1>8. ASSUME NEW t \in Stoppers, Stop(t) \/ InStop(t) PROVE InStream'
  <2>1. UNCHANGED <<call, emitted, pending, inHand, published, accepted, dropped>>
    BY <1>8 DEF Stop, InStop, SetStopEvent, Joined, callers, thread, fates
  <2>2. QED
    BY <1>2, <2>1 DEF OnItsWay, InQueueCall, Event
<1>9. CASE PublishLoop
  <2>1. UNCHANGED <<accepted, dropped>>
    BY <1>9 DEF PublishLoop, MayLeave, Get, PublishPending, Wait, fates
  <2>2. Waiting \in Seq(Emissions)
    BY WaitingType
  <2>3. RangeOf(Waiting') \subseteq RangeOf(Waiting)
    <3>1. CASE Waiting' = Waiting
      BY <3>1
    <3>2. CASE Waiting # <<>> /\ Waiting' = Tail(Waiting)
      BY <2>2, <3>2, RangeOfHead
    <3>3. QED
      BY <1>9, <3>1, <3>2, LoopStream
  <2>4. QED
    BY <1>1, <1>9, <2>1, <2>3, LoopStream
<1>10. CASE UNCHANGED vars
  BY <1>2, <1>10 DEF vars, callers, thread, fates, OnItsWay, InQueueCall, Event
<1>11. QED
  BY <1>3, <1>4, <1>5, <1>6, <1>7, <1>8, <1>9, <1>10 DEF Next, InCall

LEMMA FreshStep == Base /\ Base' /\ InStream /\ Fresh /\ [Next]_vars => Fresh'
<1> SUFFICES ASSUME Base, Base', InStream, Fresh, [Next]_vars
             PROVE  Fresh'
  OBVIOUS
<1>1. ASSUME UNCHANGED <<emitted, accepted>>, dropped' \subseteq RangeOf(accepted),
             \A u \in Callers : call'[u] = "entered" => call[u] = "entered"
      PROVE  Fresh'
  BY <1>1 DEF Fresh, Event
<1>2. dropped \subseteq RangeOf(accepted)
  BY DEF Fresh
<1>3. ASSUME NEW t \in Callers, OnEvent(t) PROVE Fresh'
  <2>1. /\ emitted \in [Callers -> Nat] /\ accepted \in Seq(Emissions)
        /\ emitted'[t] = emitted[t] + 1 /\ UNCHANGED <<accepted, dropped>>
        /\ \A u \in Callers \ {t} : emitted'[u] = emitted[u] /\ call'[u] = call[u]
    BY <1>3, MonitorAssumption DEF OnEvent, Goto, fates, Base, TypeOK
  <2>2. \A e \in RangeOf(accepted) : e[1] \in Callers /\ e[2] \in Nat
    BY <2>1, MonitorAssumption DEF RangeOf, Emissions
  <2>3. \A e \in RangeOf(accepted) : e[2] <= emitted'[e[1]]
    BY <2>1, <2>2 DEF Fresh
  <2>4. <<t, emitted[t] + 1>> \notin RangeOf(accepted)
    BY <2>1 DEF Fresh
  <2>5. ASSUME NEW u \in Callers, call'[u] = "entered"
        PROVE  <<u, emitted'[u]>> \notin RangeOf(accepted)
    BY <2>1, <2>4, <2>5 DEF Fresh, Event
  <2>6. QED
    BY <1>2, <2>1, <2>3, <2>5 DEF Fresh, Event
<1>4. ASSUME NEW t \in Callers, Enter(t) PROVE Fresh'
  <2>1. /\ call[t] = "entered" /\ call'[t] # "entered" /\ UNCHANGED <<emitted, dropped>>
        /\ \A u \in Callers \ {t} : call'[u] = call[u]
    BY <1>4 DEF Enter, Accept, Goto, Base, TypeOK
  <2>2. CASE closed
    <3>1. accepted' = accepted
      BY <1>4, <2>2 DEF Enter, Accept
    <3>2. QED
      BY <1>1, <1>2, <2>1, <3>1
  <2>3. CASE ~closed
    <3>1. Event(t) \in Emissions /\ accepted \in Seq(Emissions)
      BY <2>1, EventType, PendingType DEF Base, Control
    <3>2. RangeOf(accepted') = RangeOf(accepted) \cup {Event(t)}
      <4>1. accepted' = Append(accepted, Event(t))
        BY <1>4, <2>3 DEF Enter, Accept
      <4>2. QED
        BY <3>1, <4>1, RangeOfAppend
    <3>3. \A u \in Callers : call'[u] = "entered" => Event(u) \notin RangeOf(accepted')
      BY <2>1, <3>2 DEF Fresh, Event
    <3>4. emitted[t] <= emitted[t]
      BY MonitorAssumption DEF Base, TypeOK
    <3>5. \A e \in RangeOf(accepted') : e[2] <= emitted[e[1]]
      BY <3>2, <3>4 DEF Fresh, Event
    <3>6. QED
      BY <2>1, <1>2, <3>2, <3>3, <3>5 DEF Fresh, Event
  <2>4. QED
    BY <2>2, <2>3
<1>5. ASSUME NEW t \in Callers, PublishDirect(t) \/ Put(t) \/ PutAgain(t) PROVE Fresh'
  <2>1. UNCHANGED <<emitted, accepted, dropped>>
    BY <1>5 DEF PublishDirect, Put, PutAgain, fates
  <2>2. \A u \in Callers : call'[u] = "entered" => call[u] = "entered"
    BY <1>5 DEF PublishDirect, Put, PutAgain, Goto, Base, TypeOK
  <2>3. QED
    BY <1>1, <1>2, <2>1, <2>2
<1>6. ASSUME NEW t \in Callers, Evict(t) PROVE Fresh'
  <2>1. UNCHANGED <<emitted, accepted>> /\ call[t] \in InQueue
    BY <1>6 DEF Evict, InQueue
  <2>2. \A u \in Callers : call'[u] = "entered" => call[u] = "entered"
    BY <1>6 DEF Evict, Goto, Base, TypeOK
  <2>3. dropped' \subseteq RangeOf(accepted)
    <3>1. CASE pending = <<>>
      BY <1>2, <1>6, <3>1 DEF Evict
    <3>2. CASE pending # <<>>
      <4>1. throttled
        BY <2>1 DEF Base, Control, Modes
      <4> DEFINE h == Head(pending)
      <4>2. RangeOf(pending) = {h} \cup RangeOf(Tail(pending))
        BY <3>2, PendingType, RangeOfHead DEF Base
      <4>3. dropped' = dropped \cup {h}
        BY <1>6, <3>2 DEF Evict
      <4> HIDE DEF h
      <4>4. h \in RangeOf(Stream)
        BY <4>2, WaitingInStream
      <4>5. QED
        BY <1>2, <4>1, <4>3, <4>4 DEF InStream
    <3>3. QED
      BY <3>1, <3>2
  <2>4. QED
    BY <1>1, <2>1, <2>2, <2>3
<1>7. ASSUME NEW t \in Stoppers, Stop(t) \/ InStop(t) PROVE Fresh'
  <2>1. UNCHANGED <<call, emitted, accepted, dropped>>
    BY <1>7 DEF Stop, InStop, SetStopEvent, Joined, callers, fates
  <2>2. QED
    BY <1>1, <1>2, <2>1
<1>8. CASE PublishLoop
  <2>1. UNCHANGED <<call, emitted, accepted, dropped>>
    BY <1>8 DEF PublishLoop, MayLeave, Get, PublishPending, Wait, callers, fates
  <2>2. QED
    BY <1>1, <1>2, <2>1
<1>9. CASE UNCHANGED vars
  BY <1>1, <1>2, <1>9 DEF vars, callers, fates
<1>10. QED
  BY <1>3, <1>4, <1>5, <1>6, <1>7, <1>8, <1>9 DEF Next, InCall

-----------------------------------------------------------------------------
(* Without throttling                                                      *)

LEMMA DirectStep == Base /\ Base' /\ Directly /\ [Next]_vars => Directly'
<1> SUFFICES ASSUME Base, Base', Directly, [Next]_vars, ~throttled'
             PROVE  Directly'
  BY DEF Directly
<1> DEFINE InHands == {Event(t) : t \in InDirectCall}
<1>1. /\ ~throttled /\ loop = "none"
      /\ \A t \in Callers : call[t] \notin InQueue
  BY SameMode DEF Base, Control, Modes
<1>2. /\ Len(published) + Cardinality(InDirectCall) = Len(accepted)
      /\ RangeOf(accepted) = RangeOf(published) \cup InHands
  BY <1>1 DEF Directly
<1>3. InDirectCall \subseteq Callers /\ IsFiniteSet(InDirectCall)
  BY MonitorAssumption, FS_Subset DEF InDirectCall
<1>4. /\ published \in Seq(Emissions) /\ accepted \in Seq(Emissions)
      /\ Len(published) \in Nat /\ Len(accepted) \in Nat /\ Cardinality(InDirectCall) \in Nat
  BY <1>3, PendingType, FS_CardinalityType DEF Base
<1>5. ASSUME UNCHANGED <<published, accepted>>, InDirectCall' = InDirectCall,
             \A u \in InDirectCall : emitted'[u] = emitted[u]
      PROVE  Directly'
  <2>1. InHands' = InHands
    BY <1>5 DEF Event
  <2>2. QED
    BY <1>2, <1>5, <2>1 DEF Directly
<1>6. ASSUME NEW t \in Callers, OnEvent(t) PROVE Directly'
  <2>1. /\ call[t] # "direct" /\ call'[t] # "direct" /\ UNCHANGED <<published, accepted>>
        /\ \A u \in Callers \ {t} : emitted'[u] = emitted[u] /\ call'[u] = call[u]
    BY <1>6 DEF OnEvent, Outside, Goto, fates, Base, TypeOK
  <2>2. InDirectCall' = InDirectCall
    BY <2>1 DEF InDirectCall
  <2>3. \A u \in InDirectCall : emitted'[u] = emitted[u]
    BY <2>1 DEF InDirectCall
  <2>4. QED
    BY <1>5, <2>1, <2>2, <2>3
<1>7. ASSUME NEW t \in Callers, Enter(t) PROVE Directly'
  <2>1. /\ call[t] = "entered" /\ UNCHANGED <<emitted, published>>
        /\ \A u \in Callers \ {t} : call'[u] = call[u]
    BY <1>7 DEF Enter, Accept, Goto, Base, TypeOK
  <2>2. CASE closed
    <3>1. accepted' = accepted /\ call'[t] = "outside"
      BY <1>7, <2>2 DEF Enter, Accept, Goto, Base, TypeOK
    <3>2. InDirectCall' = InDirectCall
      BY <2>1, <3>1 DEF InDirectCall
    <3>3. QED
      BY <1>5, <2>1, <3>1, <3>2
  <2>3. CASE ~closed
    <3>1. accepted' = Append(accepted, Event(t)) /\ call'[t] = "direct"
      BY <1>1, <1>7, <2>3 DEF Enter, Accept, Goto, Base, TypeOK
    <3>2. InDirectCall' = InDirectCall \cup {t} /\ t \notin InDirectCall
      BY <2>1, <3>1 DEF InDirectCall
    <3>3. Cardinality(InDirectCall') = Cardinality(InDirectCall) + 1
      BY <1>3, <3>2, FS_AddElement
    <3>4. Event(t) \in Emissions
      BY <2>1, EventType DEF Base, Control
    <3>5. Len(accepted') = Len(accepted) + 1
      BY <1>4, <3>1, <3>4, AppendProperties
    <3>6. RangeOf(accepted') = RangeOf(accepted) \cup {Event(t)}
      BY <1>4, <3>1, <3>4, RangeOfAppend
    <3>7. InHands' = InHands \cup {Event(t)}
      BY <2>1, <3>2 DEF Event
    <3>8. Len(published') + Cardinality(InDirectCall') = Len(accepted')
      BY <1>2, <1>4, <2>1, <3>3, <3>5
    <3>9. RangeOf(accepted') = RangeOf(published') \cup InHands'
      BY <1>2, <2>1, <3>6, <3>7
    <3>10. QED
      BY <3>8, <3>9 DEF Directly
  <2>4. QED
    BY <2>2, <2>3
<1>8. ASSUME NEW t \in Callers, PublishDirect(t) PROVE Directly'
  <2>1. /\ call[t] = "direct" /\ call'[t] = "outside" /\ UNCHANGED <<emitted, accepted>>
        /\ \A u \in Callers \ {t} : call'[u] = call[u]
        /\ published' = Append(published, Event(t))
    BY <1>8 DEF PublishDirect, Goto, Base, TypeOK
  <2>2. InDirectCall' = InDirectCall \ {t} /\ t \in InDirectCall
    BY <2>1 DEF InDirectCall
  <2>3. Cardinality(InDirectCall') = Cardinality(InDirectCall) - 1
    BY <1>3, <2>2, FS_RemoveElement
  <2>4. Event(t) \in Emissions
    BY <2>1, EventType DEF Base, Control
  <2>5. Len(published') = Len(published) + 1
    BY <1>4, <2>1, <2>4, AppendProperties
  <2>6. RangeOf(published') = RangeOf(published) \cup {Event(t)}
    BY <1>4, <2>1, <2>4, RangeOfAppend
  <2>7. InHands = InHands' \cup {Event(t)}
    BY <2>1, <2>2 DEF Event
  <2>8. Len(published') + Cardinality(InDirectCall') = Len(accepted')
    BY <1>2, <1>4, <2>1, <2>3, <2>5
  <2>9. RangeOf(accepted') = RangeOf(published') \cup InHands'
    BY <1>2, <2>1, <2>6, <2>7
  <2>10. QED
    BY <2>8, <2>9 DEF Directly
<1>9. ASSUME NEW t \in Callers, Put(t) \/ Evict(t) \/ PutAgain(t) PROVE Directly'
  BY <1>1, <1>9 DEF Put, Evict, PutAgain, InQueue
<1>10. ASSUME NEW t \in Stoppers, Stop(t) \/ InStop(t) PROVE Directly'
  <2>1. UNCHANGED <<call, emitted, published, accepted>>
    BY <1>10 DEF Stop, InStop, SetStopEvent, Joined, callers, fates
  <2>2. QED
    BY <1>5, <2>1 DEF InDirectCall
<1>11. CASE PublishLoop
  BY <1>1, <1>11 DEF PublishLoop, MayLeave, Get, PublishPending, Wait
<1>12. CASE UNCHANGED vars
  BY <1>5, <1>12 DEF vars, callers, fates, InDirectCall
<1>13. QED
  BY <1>6, <1>7, <1>8, <1>9, <1>10, <1>11, <1>12 DEF Next, InCall

-----------------------------------------------------------------------------

Inv == Base /\ SecondPutFindsRoom /\ Fresh /\ InStream /\ Directly

LEMMA InitInv == Init => Inv
<1> SUFFICES ASSUME Init PROVE Inv
  OBVIOUS
<1>1. /\ \A t \in Callers : call[t] = "outside"
      /\ pending = <<>> /\ inHand = <<>> /\ published = <<>> /\ accepted = <<>> /\ dropped = {}
  BY DEF Init
<1>2. RangeOf(<<>>) = {}
  BY DEF RangeOf
<1>3. SecondPutFindsRoom
  BY <1>1 DEF SecondPutFindsRoom
<1>4. Fresh
  BY <1>1, <1>2 DEF Fresh
<1>5. InStream
  <2>1. OnItsWay = <<>>
    BY <1>1, NobodyPuts DEF InQueue
  <2>2. Stream = <<>>
    BY <1>1, <2>1 DEF Stream, Waiting
  <2>3. RangeOf(Stream) = RangeOf(accepted) \ dropped /\ InOrderOf(Stream, accepted)
    BY <1>1, <1>2, <2>2 DEF InOrderOf
  <2>4. OlderDropped
    BY <1>1 DEF OlderDropped
  <2>5. QED
    BY <2>3, <2>4 DEF InStream
<1>6. Directly
  <2>1. InDirectCall = {}
    BY <1>1 DEF InDirectCall
  <2>2. Cardinality(InDirectCall) = 0
    BY <2>1, FS_EmptySet
  <2>3. QED
    BY <1>1, <1>2, <2>1, <2>2 DEF Directly
<1>7. QED
  BY <1>3, <1>4, <1>5, <1>6, InitBase DEF Inv

LEMMA StepInv == Inv /\ [Next]_vars => Inv'
BY StepBase, RoomStep, FreshStep, StreamStep, DirectStep DEF Inv

(* With throttling, what was published, is in hand, waits and is about to   *)
(* be put are the accepted events that were not given up, in the order of   *)
(* their acceptance; without, each accepted event is published or about to  *)
(* be, once.                                                                *)
THEOREM AcceptedAreTold == Spec => []AcceptedInOrder
<1>1. Inv => AcceptedInOrder
  BY DEF Inv, InStream, Directly, AcceptedInOrder
<1> QED BY <1>1, InitInv, StepInv, PTL DEF Spec

(* A full queue gives up its oldest events.                                 *)
THEOREM OldestGivenUp == Spec => []DropsTheOldest
<1>1. Inv => DropsTheOldest
  <2>1. CASE throttled
    BY <2>1, WaitingInStream DEF Inv, InStream, OlderDropped, DropsTheOldest
  <2>2. CASE ~throttled
    BY <2>2 DEF Inv, Base, Control, Modes, DropsTheOldest
  <2>3. QED
    BY <2>1, <2>2
<1> QED BY <1>1, InitInv, StepInv, PTL DEF Spec
=============================================================================
