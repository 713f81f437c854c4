------------------------ MODULE EventBroadcaster_proofs ------------------------
(***************************************************************************)
(* For any number of publishers and connections and any capacities: publish *)
(* never fails for want of room, and every connection is shown its events   *)
(* in order, none twice.                                                    *)
(*                                                                          *)
(* The argument has two layers.  The lock keeps at most one publisher       *)
(* inside publish (OneInside), so that between an eviction and the second   *)
(* put only the consumer touches the queue, and it only makes more room.    *)
(* On top of that each queue always is a gapless run of numbers that ends   *)
(* with the event its subscriber is due (StreamsInHand), whoever takes or   *)
(* evicts from its front.  The drop counter is then the number of events    *)
(* that lie between what a connection was shown and what waits for it       *)
(* (DropsInHand).                                                           *)
(***************************************************************************)
EXTENDS EventBroadcaster, SequenceTheorems, FiniteSetTheorems, TLAPS

(* The newest n elements of a sequence, which deque(maxlen=n) keeps and a   *)
(* replay hands on, are its last Len(...) elements.                         *)
LEMMA NewestOf ==
  ASSUME NEW S, NEW s \in Seq(S), NEW n \in Nat
  PROVE  /\ Newest(s, n) \in Seq(S)
         /\ Len(Newest(s, n)) <= n
         /\ Len(Newest(s, n)) <= Len(s)
         /\ \A i \in 1..Len(Newest(s, n)) :
              Newest(s, n)[i] = s[Len(s) - Len(Newest(s, n)) + i]
<1>1. CASE Len(s) <= n
  BY <1>1 DEF Newest
<1>2. CASE Len(s) > n
  <2> DEFINE m == Len(s) - n + 1
             r == SubSeq(s, m, Len(s))
  <2>1. Newest(s, n) = r
    BY <1>2 DEF Newest
  <2>2. m \in Int /\ Len(s) \in Int /\ \A i \in m..Len(s) : s[i] \in S
    BY <1>2
  <2>3. /\ r \in Seq(S)
        /\ Len(r) = IF m <= Len(s) THEN Len(s) - m + 1 ELSE 0
        /\ \A i \in 1..(Len(s) - m + 1) : r[i] = s[m + i - 1]
    BY <2>2, SubSeqProperties
  <2>4. Len(r) = n
    BY <2>3
  <2>5. QED
    BY <1>2, <2>1, <2>3, <2>4
<1>3. QED
  BY <1>1, <1>2

LEMMA NumberedNewest ==
  ASSUME NEW S, NEW s \in Seq(S), NEW k \in Nat, NEW n \in Int, Numbered(s, n)
  PROVE  Numbered(Newest(s, k), n)
<1> DEFINE r == Newest(s, k)
<1>1. /\ r \in Seq(S) /\ Len(r) <= Len(s)
      /\ \A i \in 1..Len(r) : r[i] = s[Len(s) - Len(r) + i]
  BY NewestOf
<1>2. ASSUME NEW i \in 1..Len(r)
      PROVE  r[i] = n - Len(r) + i
  <2>1. Len(s) - Len(r) + i \in 1..Len(s)
    BY <1>1
  <2>2. QED
    BY <1>1, <2>1 DEF Numbered
<1>3. QED
  BY <1>2 DEF Numbered

LEMMA NumberedAppend ==
  ASSUME NEW S, NEW s \in Seq(S), NEW n \in Int, n + 1 \in S, Numbered(s, n)
  PROVE  Numbered(Append(s, n + 1), n + 1)
BY AppendProperties DEF Numbered

LEMMA IntElements ==
  ASSUME NEW S, S \subseteq Int, NEW s \in Seq(S)
  PROVE  \A i \in 1..Len(s) : s[i] \in Int
<1>1. SUFFICES ASSUME NEW i \in 1..Len(s) PROVE s[i] \in Int
  OBVIOUS
<1>2. s[i] \in S
  BY ElementOfSeq
<1>3. QED
  BY <1>2

(* Taking the oldest of the queue keeps what is taken before what waits.    *)
LEMMA Taking ==
  ASSUME NEW S, S \subseteq Int, NEW g \in Seq(S), NEW q \in Seq(S), q # <<>>,
         NEW n \in Int, TakenBefore(g, q, n)
  PROVE  TakenBefore(Append(g, Head(q)), Tail(q), n)
<1>1. /\ Head(q) = q[1] /\ Tail(q) \in Seq(S)
      /\ Len(Tail(q)) = Len(q) - 1
      /\ \A i \in 1..Len(Tail(q)) : Tail(q)[i] = q[i + 1]
      /\ Len(q) \in Nat /\ Len(q) > 0
  BY HeadTailProperties
<1>2. Head(q) = n - Len(Tail(q))
  BY <1>1 DEF TakenBefore, Numbered
<1>3. Numbered(Tail(q), n)
  BY <1>1 DEF TakenBefore, Numbered
<1> DEFINE h == Append(g, Head(q))
<1>4. /\ h \in Seq(S) /\ Len(h) = Len(g) + 1 /\ Len(g) \in Nat
      /\ \A i \in 1..Len(g) : h[i] = g[i]
      /\ h[Len(g) + 1] = Head(q)
  BY <1>1, AppendProperties
<1>5. \A k \in 1..Len(g) : g[k] \in Int /\ g[k] < Head(q)
  <2>1. \A k \in 1..Len(g) : g[k] \in Int
    BY IntElements
  <2>2. \A k \in 1..Len(g) : g[k] <= n - Len(q)
    BY DEF TakenBefore
  <2>3. QED
    BY <1>1, <1>2, <2>1, <2>2
<1>6. \A i, j \in 1..Len(h) : i < j => h[i] < h[j]
  <2> SUFFICES ASSUME NEW i \in 1..Len(h), NEW j \in 1..Len(h), i < j
               PROVE  h[i] < h[j]
    OBVIOUS
  <2>1. i \in 1..Len(g)
    BY <1>4
  <2>2. CASE j \in 1..Len(g)
    BY <1>4, <2>1, <2>2 DEF TakenBefore, Increasing
  <2>3. CASE j = Len(g) + 1
    BY <1>4, <1>5, <2>1, <2>3
  <2>4. QED
    BY <1>4, <2>2, <2>3
<1>7. \A k \in 1..Len(h) : h[k] <= n - Len(Tail(q))
  <2> SUFFICES ASSUME NEW k \in 1..Len(h) PROVE h[k] <= n - Len(Tail(q))
    OBVIOUS
  <2>1. CASE k \in 1..Len(g)
    BY <1>1, <1>2, <1>4, <1>5, <2>1
  <2>2. CASE k = Len(g) + 1
    BY <1>1, <1>2, <1>4, <2>2
  <2>3. QED
    BY <1>4, <2>1, <2>2
<1>8. QED
  BY <1>3, <1>6, <1>7 DEF TakenBefore, Increasing

LEMMA Evicting ==
  ASSUME NEW S, S \subseteq Int, NEW g \in Seq(S), NEW q \in Seq(S), q # <<>>,
         NEW n \in Int, TakenBefore(g, q, n)
  PROVE  TakenBefore(g, Tail(q), n)
<1>1. /\ Tail(q) \in Seq(S)
      /\ Len(Tail(q)) = Len(q) - 1
      /\ \A i \in 1..Len(Tail(q)) : Tail(q)[i] = q[i + 1]
      /\ Len(q) \in Nat
  BY HeadTailProperties
<1>2. Numbered(Tail(q), n)
  BY <1>1 DEF TakenBefore, Numbered
<1>3. \A k \in 1..Len(g) : g[k] <= n - Len(Tail(q))
  <2>1. \A k \in 1..Len(g) : g[k] \in Int
    BY IntElements
  <2>2. \A k \in 1..Len(g) : g[k] <= n - Len(q)
    BY DEF TakenBefore
  <2>3. QED
    BY <1>1, <2>1, <2>2
<1>4. QED
  BY <1>2, <1>3 DEF TakenBefore

LEMMA Handing ==
  ASSUME NEW S, S \subseteq Int, NEW g \in Seq(S), NEW q \in Seq(S),
         NEW n \in Int, n + 1 \in S, TakenBefore(g, q, n)
  PROVE  TakenBefore(g, Append(q, n + 1), n + 1)
<1>1. Numbered(Append(q, n + 1), n + 1)
  BY NumberedAppend DEF TakenBefore
<1>2. Len(Append(q, n + 1)) = Len(q) + 1 /\ Len(q) \in Nat
  BY AppendProperties
<1>3. \A k \in 1..Len(g) : g[k] <= n + 1 - Len(Append(q, n + 1))
  BY <1>2 DEF TakenBefore
<1>4. QED
  BY <1>1, <1>3 DEF TakenBefore

(* Taken and waiting events in one increasing stream.                       *)
LEMMA OneStream ==
  ASSUME NEW S, S \subseteq Int, NEW g \in Seq(S), NEW q \in Seq(S),
         NEW n \in Int, TakenBefore(g, q, n)
  PROVE  Increasing(g \o q) /\ Contiguous(q)
<1>1. /\ Len(g) \in Nat /\ Len(q) \in Nat
      /\ Len(g \o q) = Len(g) + Len(q)
      /\ \A i \in 1..(Len(g) + Len(q)) :
           (g \o q)[i] = IF i <= Len(g) THEN g[i] ELSE q[i - Len(g)]
  BY ConcatProperties
<1>2. Contiguous(q)
  BY <1>1 DEF TakenBefore, Numbered, Contiguous
<1>3. ASSUME NEW i \in 1..Len(g \o q), NEW j \in 1..Len(g \o q), i < j
      PROVE  (g \o q)[i] < (g \o q)[j]
  <2>1. CASE j <= Len(g)
    BY <1>1, <1>3, <2>1 DEF TakenBefore, Increasing
  <2>2. CASE i <= Len(g) /\ j > Len(g)
    <3>1. g[i] \in Int /\ g[i] <= n - Len(q)
      <4>1. i \in 1..Len(g)
        BY <1>1, <2>2
      <4>2. g[i] <= n - Len(q)
        BY <4>1 DEF TakenBefore
      <4>3. QED
        BY <4>1, <4>2, IntElements
    <3>2. q[j - Len(g)] = n - Len(q) + (j - Len(g)) /\ j - Len(g) > 0
      BY <1>1, <2>2 DEF TakenBefore, Numbered
    <3>3. QED
      BY <1>1, <2>2, <3>1, <3>2
  <2>3. CASE i > Len(g)
    BY <1>1, <1>3, <2>3 DEF TakenBefore, Numbered
  <2>4. QED
    BY <1>1, <2>1, <2>2, <2>3
<1>4. QED
  BY <1>2, <1>3 DEF Increasing

-----------------------------------------------------------------------------
(* What queues and histories are made of                                   *)

LEMMA Sequences_in_place ==
  ASSUME TypeOK
  PROVE  /\ published \in Nat /\ published <= MaxPublished
         /\ Numbers \subseteq Int
         /\ \A c \in Connections :
              /\ queue[c] \in Seq(Numbers) /\ Len(queue[c]) \in Nat
              /\ got[c] \in Seq(Numbers) /\ Len(got[c]) \in Nat
              /\ queue[c] # <<>> =>
                   /\ Head(queue[c]) \in Numbers
                   /\ Tail(queue[c]) \in Seq(Numbers)
                   /\ Len(Tail(queue[c])) = Len(queue[c]) - 1
                   /\ Append(got[c], Head(queue[c])) \in Seq(Numbers)
<1>1. published \in Nat /\ published <= MaxPublished /\ Numbers \subseteq Int
  BY BroadcasterAssumption DEF TypeOK, Numbers
<1>2. SUFFICES ASSUME NEW c \in Connections
               PROVE  /\ queue[c] \in Seq(Numbers) /\ Len(queue[c]) \in Nat
                      /\ got[c] \in Seq(Numbers) /\ Len(got[c]) \in Nat
                      /\ queue[c] # <<>> =>
                           /\ Head(queue[c]) \in Numbers
                           /\ Tail(queue[c]) \in Seq(Numbers)
                           /\ Len(Tail(queue[c])) = Len(queue[c]) - 1
                           /\ Append(got[c], Head(queue[c])) \in Seq(Numbers)
  BY <1>1
<1>3. queue[c] \in Seq(Numbers) /\ got[c] \in Seq(Numbers)
  BY DEF TypeOK
<1>4. Len(queue[c]) \in Nat /\ Len(got[c]) \in Nat
  BY <1>3
<1>5. ASSUME queue[c] # <<>>
      PROVE  /\ Head(queue[c]) \in Numbers
             /\ Tail(queue[c]) \in Seq(Numbers)
             /\ Len(Tail(queue[c])) = Len(queue[c]) - 1
  BY <1>3, <1>5, HeadTailProperties
<1>6. QED
  BY <1>3, <1>4, <1>5, AppendProperties

LEMMA BaseInit == Init => TypeOK /\ OneInside /\ HistoryInHand /\ ConnectionsInHand
<1> SUFFICES ASSUME Init PROVE TypeOK /\ OneInside /\ HistoryInHand /\ ConnectionsInHand
  OBVIOUS
<1>1. TypeOK
  BY BroadcasterAssumption DEF Init, TypeOK, Numbers
<1>2. OneInside /\ ConnectionsInHand
  BY DEF Init, OneInside, ConnectionsInHand
<1>3. HistoryInHand
  BY DEF Init, HistoryInHand, Numbered
<1>4. QED
  BY <1>1, <1>2, <1>3

LEMMA PublishBase ==
  ASSUME TypeOK, OneInside, HistoryInHand, ConnectionsInHand,
         NEW p \in Publishers, Publish(p)
  PROVE  TypeOK' /\ OneInside' /\ HistoryInHand' /\ ConnectionsInHand'
<1> USE DEF Publish, LockFree
<1>1. /\ published \in Nat /\ published + 1 \in Numbers
      /\ published' \in 0..MaxPublished
  BY BroadcasterAssumption DEF TypeOK, Numbers
<1>2. /\ history' \in Seq(Numbers) /\ Len(history') <= HistoryLimit
      /\ Len(history') <= published'
      /\ Numbered(history', published')
      /\ ~KeepHistory => history' = <<>>
  <2>1. CASE ~KeepHistory
    <3>1. history' = <<>>
      BY <2>1 DEF Recorded, HistoryInHand
    <3>2. QED
      BY <1>1, <3>1, BroadcasterAssumption DEF Numbered
  <2>2. CASE KeepHistory
    <3> DEFINE h == Append(history, published + 1)
    <3>1. /\ h \in Seq(Numbers) /\ Len(h) = Len(history) + 1
          /\ Len(history) \in Nat
      BY <1>1, AppendProperties DEF TypeOK
    <3>2. Numbered(h, published + 1)
      <4>1. Numbered(history, published) /\ history \in Seq(Numbers)
        BY DEF HistoryInHand, TypeOK
      <4>2. QED
        BY <1>1, <4>1, NumberedAppend
    <3>3. history' = Newest(h, HistoryLimit)
      BY <2>2 DEF Recorded
    <3> HIDE DEF h
    <3>4. HistoryLimit \in Nat
      BY BroadcasterAssumption
    <3>5. Numbered(Newest(h, HistoryLimit), published + 1)
      BY <1>1, <3>1, <3>2, <3>4, NumberedNewest
    <3>6. /\ Newest(h, HistoryLimit) \in Seq(Numbers)
          /\ Len(Newest(h, HistoryLimit)) <= HistoryLimit
          /\ Len(Newest(h, HistoryLimit)) <= Len(h)
      BY <3>1, <3>4, NewestOf
    <3>7. QED
      BY <1>1, <2>2, <3>1, <3>3, <3>5, <3>6 DEF HistoryInHand
  <2>3. QED
    BY <2>1, <2>2
<1>3. TypeOK'
  BY <1>1, <1>2 DEF TypeOK, client
<1>4. OneInside'
  BY <1>1 DEF OneInside, TypeOK
<1>5. HistoryInHand'
  BY <1>2 DEF HistoryInHand
<1>6. ConnectionsInHand'
  BY DEF ConnectionsInHand, client
<1>7. QED
  BY <1>3, <1>4, <1>5, <1>6

(* A queue that grows by one event of the publisher inside, below its limit. *)
LEMMA HandedBase ==
  ASSUME TypeOK, OneInside, NEW p \in Publishers, NEW c \in todo[p],
         Room(c), Handed(p, c)
  PROVE  /\ queue' \in [Connections -> Seq(Numbers)]
         /\ \A d \in Connections : Len(queue'[d]) <= QueueLimit
         /\ todo' \in [Publishers -> SUBSET Connections]
         /\ pc' \in [Publishers -> {"outside", "put", "evict", "putAgain"}]
         /\ pc[p] # "outside" /\ published \in Numbers
<1>1. c \in Connections /\ pc[p] # "outside" /\ item[p] = published
  BY DEF TypeOK, OneInside
<1>2. published \in Numbers
  BY <1>1 DEF Numbers, TypeOK, OneInside
<1> DEFINE q == Append(queue[c], item[p])
<1>3. q \in Seq(Numbers) /\ Len(q) = Len(queue[c]) + 1
  BY <1>1, <1>2, Sequences_in_place, AppendProperties
<1>4. Len(q) <= QueueLimit
  BY <1>1, <1>3, Sequences_in_place, BroadcasterAssumption DEF Room
<1>5. queue' = [queue EXCEPT ![c] = q]
  BY DEF Handed
<1> HIDE DEF q
<1>6. queue' \in [Connections -> Seq(Numbers)]
  BY <1>1, <1>3, <1>5 DEF TypeOK
<1>7. \A d \in Connections : Len(queue'[d]) <= QueueLimit
  BY <1>1, <1>4, <1>5 DEF TypeOK
<1>8. /\ todo' \in [Publishers -> SUBSET Connections]
      /\ pc' \in [Publishers -> {"outside", "put", "evict", "putAgain"}]
  BY <1>1 DEF TypeOK, Handed
<1>9. QED
  BY <1>1, <1>2, <1>6, <1>7, <1>8

(* The publisher inside stays the only one whatever it does next.           *)
LEMMA StillOneInside ==
  ASSUME OneInside, NEW p \in Publishers, pc[p] # "outside",
         published' = published, subscribers' = subscribers, item' = item,
         \A q \in Publishers \ {p} : pc'[q] = pc[q] /\ todo'[q] = todo[q],
         todo'[p] \subseteq todo[p],
         pc'[p] = "outside" <=> todo'[p] = {},
         pc'[p] \in {"evict", "putAgain"} => at'[p] \in todo'[p]
  PROVE  OneInside'
<1>1. \A q \in Publishers \ {p} : pc[q] = "outside" /\ todo[q] = {}
  BY DEF OneInside
<1>2. \A q, r \in Publishers : pc'[q] # "outside" /\ pc'[r] # "outside" => q = r
  BY <1>1
<1>3. ASSUME NEW q \in Publishers
      PROVE  /\ pc'[q] = "outside" <=> todo'[q] = {}
             /\ pc'[q] # "outside" => item'[q] = published' /\ published' > 0
             /\ pc'[q] \in {"evict", "putAgain"} => at'[q] \in todo'[q]
             /\ todo'[q] \subseteq subscribers'
  <2>1. CASE q = p
    BY <2>1 DEF OneInside
  <2>2. CASE q # p
    BY <1>1, <2>2 DEF OneInside
  <2>3. QED
    BY <2>1, <2>2
<1>4. QED
  BY <1>2, <1>3 DEF OneInside

LEMMA PutBase ==
  ASSUME TypeOK, OneInside, HistoryInHand, ConnectionsInHand,
         NEW p \in Publishers, NEW c \in Connections, Put(p, c)
  PROVE  TypeOK' /\ OneInside' /\ HistoryInHand' /\ ConnectionsInHand'
<1>1. c \in todo[p] /\ pc[p] = "put" /\ c \in subscribers
  BY DEF Put, OneInside
<1>2. TypeOK'
  <2>1. CASE Room(c)
    BY <1>1, <2>1, HandedBase DEF Put, TypeOK, shared, client
  <2>2. CASE ~Room(c)
    BY <1>1, <2>2 DEF Put, TypeOK, shared, client
  <2>3. QED
    BY <2>1, <2>2
<1>3. OneInside'
  <2>1. CASE Room(c)
    <3>1. /\ pc'[p] = (IF todo[p] = {c} THEN "outside" ELSE "put")
          /\ todo'[p] = todo[p] \ {c}
          /\ \A q \in Publishers \ {p} : pc'[q] = pc[q] /\ todo'[q] = todo[q]
          /\ item' = item /\ published' = published /\ subscribers' = subscribers
      BY <2>1 DEF Put, Handed, TypeOK, shared
    <3>2. QED
      BY <1>1, <3>1, StillOneInside
  <2>2. CASE ~Room(c)
    <3>1. /\ pc'[p] = "evict" /\ todo'[p] = todo[p] /\ at'[p] = c
          /\ \A q \in Publishers \ {p} : pc'[q] = pc[q] /\ todo'[q] = todo[q]
          /\ item' = item /\ published' = published /\ subscribers' = subscribers
      BY <2>2 DEF Put, TypeOK, shared
    <3>2. QED
      BY <1>1, <3>1, StillOneInside
  <2>3. QED
    BY <2>1, <2>2
<1>4. HistoryInHand'
  BY DEF HistoryInHand, Put, shared
<1>5. ConnectionsInHand'
  <2>1. CASE Room(c)
    BY <1>1, <2>1 DEF Put, Handed, TypeOK, ConnectionsInHand, shared, client
  <2>2. CASE ~Room(c)
    BY <2>2 DEF Put, ConnectionsInHand, shared, client
  <2>3. QED
    BY <2>1, <2>2
<1>6. QED
  BY <1>2, <1>3, <1>4, <1>5

LEMMA EvictBase ==
  ASSUME TypeOK, OneInside, HistoryInHand, ConnectionsInHand,
         NEW p \in Publishers, Evict(p)
  PROVE  TypeOK' /\ OneInside' /\ HistoryInHand' /\ ConnectionsInHand'
<1>1. /\ at[p] \in todo[p] /\ pc[p] = "evict"
      /\ at[p] \in subscribers /\ at[p] \in Connections
  BY DEF Evict, OneInside, TypeOK
<1>2. /\ queue' \in [Connections -> Seq(Numbers)]
      /\ \A d \in Connections : Len(queue'[d]) <= QueueLimit
      /\ dropped' \in Nat
  <2>1. CASE queue[at[p]] = <<>>
    BY <2>1 DEF Evict, TypeOK
  <2>2. CASE queue[at[p]] # <<>>
    <3>1. /\ Tail(queue[at[p]]) \in Seq(Numbers)
          /\ Len(Tail(queue[at[p]])) <= QueueLimit
      BY <1>1, <2>2, Sequences_in_place, BroadcasterAssumption DEF TypeOK
    <3>2. /\ queue' = [queue EXCEPT ![at[p]] = Tail(queue[at[p]])]
          /\ dropped' = dropped + 1
      BY <2>2 DEF Evict
    <3>3. QED
      BY <1>1, <3>1, <3>2 DEF TypeOK
  <2>3. QED
    BY <2>1, <2>2
<1>3. TypeOK'
  BY <1>2 DEF TypeOK, Evict, client
<1>4. OneInside'
  BY <1>1 DEF OneInside, TypeOK, Evict
<1>5. HistoryInHand'
  BY DEF HistoryInHand, Evict
<1>6. ConnectionsInHand'
  <2>1. \A d \in Connections : d # at[p] => queue'[d] = queue[d]
    BY DEF Evict, TypeOK
  <2>2. QED
    BY <1>1, <2>1 DEF Evict, ConnectionsInHand, client
<1>7. QED
  BY <1>3, <1>4, <1>5, <1>6

LEMMA PutAgainBase ==
  ASSUME TypeOK, OneInside, HistoryInHand, ConnectionsInHand,
         NEW p \in Publishers, PutAgain(p)
  PROVE  TypeOK' /\ OneInside' /\ HistoryInHand' /\ ConnectionsInHand'
<1>1. /\ at[p] \in todo[p] /\ pc[p] = "putAgain"
      /\ at[p] \in subscribers /\ at[p] \in Connections
  BY DEF PutAgain, OneInside, TypeOK
<1>2. TypeOK'
  <2>1. CASE Room(at[p])
    BY <1>1, <2>1, HandedBase DEF PutAgain, TypeOK, shared, client
  <2>2. CASE ~Room(at[p])
    BY <1>1, <2>2 DEF PutAgain, TypeOK, shared, client
  <2>3. QED
    BY <2>1, <2>2
<1>3. OneInside'
  <2>1. CASE Room(at[p])
    <3>1. /\ pc'[p] = (IF todo[p] = {at[p]} THEN "outside" ELSE "put")
          /\ todo'[p] = todo[p] \ {at[p]}
          /\ \A q \in Publishers \ {p} : pc'[q] = pc[q] /\ todo'[q] = todo[q]
          /\ item' = item /\ published' = published /\ subscribers' = subscribers
      BY <2>1 DEF PutAgain, Handed, TypeOK, shared
    <3>2. QED
      BY <1>1, <3>1, StillOneInside
  <2>2. CASE ~Room(at[p])
    <3>1. /\ pc'[p] = "outside" /\ todo'[p] = {}
          /\ \A q \in Publishers \ {p} : pc'[q] = pc[q] /\ todo'[q] = todo[q]
          /\ item' = item /\ published' = published /\ subscribers' = subscribers
      BY <2>2 DEF PutAgain, TypeOK, shared
    <3>2. QED
      BY <1>1, <3>1, StillOneInside
  <2>3. QED
    BY <2>1, <2>2
<1>4. HistoryInHand'
  BY DEF HistoryInHand, PutAgain, shared
<1>5. ConnectionsInHand'
  <2>1. \A d \in Connections : d # at[p] => queue'[d] = queue[d]
    BY <1>1 DEF PutAgain, Handed, TypeOK
  <2>2. QED
    BY <1>1, <2>1 DEF PutAgain, ConnectionsInHand, shared, client
<1>6. QED
  BY <1>2, <1>3, <1>4, <1>5

LEMMA SubscribeBase ==
  ASSUME TypeOK, OneInside, HistoryInHand, ConnectionsInHand,
         NEW c \in Connections, Subscribe(c)
  PROVE  TypeOK' /\ OneInside' /\ HistoryInHand' /\ ConnectionsInHand'
<1>1. /\ Replay \in Seq(Numbers) /\ Len(Replay) <= QueueLimit
      /\ Len(Replay) <= Len(history) /\ Len(Replay) \in Nat
  <2>1. history \in Seq(Numbers) /\ QueueLimit \in Nat
    BY BroadcasterAssumption DEF TypeOK
  <2>2. /\ Replay \in Seq(Numbers) /\ Len(Replay) <= QueueLimit
        /\ Len(Replay) <= Len(history)
    BY <2>1, NewestOf DEF Replay
  <2>3. QED
    BY <2>2
<1>2. since' \in [Connections -> 1..(MaxPublished + 1)]
  <2>1. published - Len(Replay) + 1 \in 1..(MaxPublished + 1)
    BY <1>1, Sequences_in_place, BroadcasterAssumption DEF TypeOK, HistoryInHand
  <2>2. since' = [since EXCEPT ![c] = published - Len(Replay) + 1]
    BY DEF Subscribe, Replay
  <2>3. QED
    BY <2>1, <2>2 DEF TypeOK
<1>3. TypeOK'
  BY <1>1, <1>2 DEF TypeOK, Subscribe, publisher
<1>4. OneInside'
  BY DEF OneInside, Subscribe, publisher, LockFree
<1>5. HistoryInHand'
  BY DEF HistoryInHand, Subscribe
<1>6. ConnectionsInHand'
  BY DEF ConnectionsInHand, Subscribe, TypeOK
<1>7. QED
  BY <1>3, <1>4, <1>5, <1>6

(* Taking an event, with or without success in writing it.                  *)
LEMMA TakenTypes ==
  ASSUME TypeOK, NEW c \in Connections, queue[c] # <<>>,
         got' = [got EXCEPT ![c] = Append(@, Head(queue[c]))],
         queue' = [queue EXCEPT ![c] = Tail(@)]
  PROVE  /\ queue' \in [Connections -> Seq(Numbers)]
         /\ \A d \in Connections : Len(queue'[d]) <= QueueLimit
         /\ got' \in [Connections -> Seq(Numbers)]
         /\ \A d \in Connections : d # c => queue'[d] = queue[d] /\ got'[d] = got[d]
         /\ got'[c] = Append(got[c], Head(queue[c])) /\ queue'[c] = Tail(queue[c])
<1>1. /\ Tail(queue[c]) \in Seq(Numbers)
      /\ Len(Tail(queue[c])) <= QueueLimit
      /\ Append(got[c], Head(queue[c])) \in Seq(Numbers)
  BY Sequences_in_place, BroadcasterAssumption DEF TypeOK
<1>2. QED
  BY <1>1 DEF TypeOK

LEMMA ServeBase ==
  ASSUME TypeOK, OneInside, HistoryInHand, ConnectionsInHand,
         NEW c \in Connections, Serve(c)
  PROVE  TypeOK' /\ OneInside' /\ HistoryInHand' /\ ConnectionsInHand'
<1>1. TypeOK'
  BY TakenTypes DEF TypeOK, Serve, shared, publisher
<1>2. OneInside' /\ HistoryInHand'
  BY DEF OneInside, HistoryInHand, Serve, shared, publisher
<1>3. ConnectionsInHand'
  BY TakenTypes DEF ConnectionsInHand, Serve, shared
<1>4. QED
  BY <1>1, <1>2, <1>3

LEMMA WriteFailsBase ==
  ASSUME TypeOK, OneInside, HistoryInHand, ConnectionsInHand,
         NEW c \in Connections, WriteFails(c)
  PROVE  TypeOK' /\ OneInside' /\ HistoryInHand' /\ ConnectionsInHand'
<1>1. TypeOK'
  <2>1. CASE queue[c] = <<>>
    BY <2>1 DEF TypeOK, WriteFails, shared, publisher
  <2>2. CASE queue[c] # <<>>
    BY <2>2, TakenTypes DEF TypeOK, WriteFails, shared, publisher
  <2>3. QED
    BY <2>1, <2>2
<1>2. OneInside' /\ HistoryInHand'
  BY DEF OneInside, HistoryInHand, WriteFails, shared, publisher
<1>3. ConnectionsInHand'
  <2>1. CASE queue[c] = <<>>
    BY <2>1 DEF ConnectionsInHand, WriteFails, shared, TypeOK
  <2>2. CASE queue[c] # <<>>
    BY <2>2, TakenTypes DEF ConnectionsInHand, WriteFails, shared, TypeOK
  <2>3. QED
    BY <2>1, <2>2
<1>4. QED
  BY <1>1, <1>2, <1>3

LEMMA DisconnectBase ==
  ASSUME TypeOK, OneInside, HistoryInHand, ConnectionsInHand,
         NEW c \in Connections, Disconnect(c)
  PROVE  TypeOK' /\ OneInside' /\ HistoryInHand' /\ ConnectionsInHand'
BY DEF TypeOK, OneInside, HistoryInHand, ConnectionsInHand, Disconnect, shared,
       publisher

LEMMA UnsubscribeBase ==
  ASSUME TypeOK, OneInside, HistoryInHand, ConnectionsInHand,
         NEW c \in Connections, Unsubscribe(c)
  PROVE  TypeOK' /\ OneInside' /\ HistoryInHand' /\ ConnectionsInHand'
<1>1. TypeOK'
  BY DEF TypeOK, Unsubscribe, publisher
<1>2. OneInside'
  BY DEF OneInside, Unsubscribe, publisher, LockFree
<1>3. HistoryInHand' /\ ConnectionsInHand'
  BY DEF HistoryInHand, ConnectionsInHand, Unsubscribe, TypeOK
<1>4. QED
  BY <1>1, <1>2, <1>3

Base == TypeOK /\ OneInside /\ HistoryInHand /\ ConnectionsInHand

LEMMA BaseStep == Base /\ [Next]_vars => Base'
<1> SUFFICES ASSUME Base, [Next]_vars PROVE Base'
  OBVIOUS
<1>0. TypeOK /\ OneInside /\ HistoryInHand /\ ConnectionsInHand
  BY DEF Base
<1>1. ASSUME NEW p \in Publishers, Publish(p) PROVE Base'
  BY <1>0, <1>1, PublishBase DEF Base
<1>2. ASSUME NEW p \in Publishers, InPublish(p) PROVE Base'
  <2>1. CASE Evict(p)
    BY <1>0, <2>1, EvictBase DEF Base
  <2>2. CASE PutAgain(p)
    BY <1>0, <2>2, PutAgainBase DEF Base
  <2>3. CASE \E c \in Connections : Put(p, c)
    BY <1>0, <2>3, PutBase DEF Base
  <2>4. QED
    BY <1>2, <2>1, <2>2, <2>3 DEF InPublish
<1>3. ASSUME NEW c \in Connections, Subscribe(c) PROVE Base'
  BY <1>0, <1>3, SubscribeBase DEF Base
<1>4. ASSUME NEW c \in Connections, Disconnect(c) PROVE Base'
  BY <1>0, <1>4, DisconnectBase DEF Base
<1>5. ASSUME NEW c \in Connections, Handler(c) PROVE Base'
  <2>1. CASE Serve(c)
    BY <1>0, <2>1, ServeBase DEF Base
  <2>2. CASE WriteFails(c)
    BY <1>0, <2>2, WriteFailsBase DEF Base
  <2>3. CASE Unsubscribe(c)
    BY <1>0, <2>3, UnsubscribeBase DEF Base
  <2>4. QED
    BY <1>5, <2>1, <2>2, <2>3 DEF Handler
<1>6. CASE UNCHANGED vars
  BY <1>0, <1>6 DEF Base, TypeOK, OneInside, HistoryInHand, ConnectionsInHand, vars,
                    shared, publisher, client
<1>7. QED
  BY <1>1, <1>2, <1>3, <1>4, <1>5, <1>6 DEF Next

(* Every variable keeps its type, with queues within queue_limit and the    *)
(* history within history_limit, and publishers take turns.                 *)
THEOREM TypeCorrect == Spec => []TypeOK
<1>1. Init => Base
  BY BaseInit DEF Base
<1>2. Base => TypeOK
  BY DEF Base
<1>3. QED
  BY <1>1, <1>2, BaseStep, PTL DEF Spec

-----------------------------------------------------------------------------
(* The second put                                                          *)

(* While a publisher is inside, the others are not.                         *)
LEMMA Alone ==
  ASSUME OneInside, NEW p \in Publishers, pc[p] # "outside"
  PROVE  \A q \in Publishers \ {p} : pc[q] = "outside" /\ todo[q] = {}
BY DEF OneInside

LEMMA RoomTaken ==
  ASSUME TypeOK, OneInside, SecondPutFindsRoom, NEW c \in Connections,
         pc' = pc, at' = at,
         \/ queue' = queue
         \/ queue[c] # <<>> /\ queue' = [queue EXCEPT ![c] = Tail(@)]
  PROVE  SecondPutFindsRoom'
<1>1. \A d \in Connections : Len(queue'[d]) \in Nat /\ Len(queue'[d]) <= Len(queue[d])
  <2>1. CASE queue' = queue
    BY <2>1, Sequences_in_place
  <2>2. CASE queue[c] # <<>> /\ queue' = [queue EXCEPT ![c] = Tail(@)]
    BY <2>2, Sequences_in_place DEF TypeOK
  <2>3. QED
    BY <2>1, <2>2
<1>2. ASSUME NEW p \in Publishers, pc[p] = "putAgain"
      PROVE  Len(queue'[at[p]]) < QueueLimit
  <2>1. at[p] \in Connections /\ Len(queue[at[p]]) < QueueLimit
    BY <1>2 DEF SecondPutFindsRoom, Room, OneInside, TypeOK
  <2>2. QED
    BY <1>1, <2>1, Sequences_in_place, BroadcasterAssumption
<1>3. QED
  BY <1>2 DEF SecondPutFindsRoom, Room

LEMMA RoomStep == Base /\ SecondPutFindsRoom /\ [Next]_vars => SecondPutFindsRoom'
<1> SUFFICES ASSUME Base, SecondPutFindsRoom, [Next]_vars PROVE SecondPutFindsRoom'
  OBVIOUS
<1>0. TypeOK /\ OneInside /\ HistoryInHand /\ ConnectionsInHand
  BY DEF Base
<1>1. ASSUME NEW p \in Publishers, Publish(p) PROVE SecondPutFindsRoom'
  BY <1>0, <1>1 DEF Publish, LockFree, SecondPutFindsRoom, TypeOK
<1>2. ASSUME NEW p \in Publishers, InPublish(p) PROVE SecondPutFindsRoom'
  <2>0. \A q \in Publishers \ {p} : pc[q] = "outside"
    BY <1>0, <1>2, Alone DEF InPublish, Evict, Put, PutAgain
  <2>1. CASE Evict(p)
    <3>1. at[p] \in Connections
      BY <1>0, <2>1 DEF Evict, OneInside, TypeOK
    <3>2. Len(queue'[at[p]]) < QueueLimit
      <4>1. CASE queue[at[p]] = <<>>
        BY <2>1, <4>1, BroadcasterAssumption DEF Evict
      <4>2. CASE queue[at[p]] # <<>>
        <5>1. queue'[at[p]] = Tail(queue[at[p]])
          BY <1>0, <2>1, <3>1, <4>2 DEF Evict, TypeOK
        <5>2. Len(queue[at[p]]) <= QueueLimit
          BY <1>0, <3>1 DEF TypeOK
        <5>3. QED
          BY <1>0, <3>1, <4>2, <5>1, <5>2, Sequences_in_place, BroadcasterAssumption
      <4>3. QED
        BY <4>1, <4>2
    <3>3. QED
      BY <1>0, <2>0, <2>1, <3>2 DEF Evict, SecondPutFindsRoom, Room, TypeOK
  <2>2. CASE PutAgain(p)
    BY <1>0, <2>0, <2>2 DEF PutAgain, Handed, SecondPutFindsRoom, TypeOK
  <2>3. CASE \E c \in Connections : Put(p, c)
    BY <1>0, <2>0, <2>3 DEF Put, Handed, SecondPutFindsRoom, TypeOK
  <2>4. QED
    BY <1>2, <2>1, <2>2, <2>3 DEF InPublish
<1>3. ASSUME NEW c \in Connections, Subscribe(c) \/ Unsubscribe(c)
      PROVE  SecondPutFindsRoom'
  BY <1>3 DEF Subscribe, Unsubscribe, LockFree, SecondPutFindsRoom, publisher
<1>4. ASSUME NEW c \in Connections, Disconnect(c) PROVE SecondPutFindsRoom'
  BY <1>0, <1>4, RoomTaken DEF Disconnect, publisher
<1>5. ASSUME NEW c \in Connections, Serve(c) \/ WriteFails(c)
      PROVE  SecondPutFindsRoom'
  BY <1>0, <1>5, RoomTaken DEF Serve, WriteFails, publisher
<1>6. CASE UNCHANGED vars
  BY <1>6 DEF SecondPutFindsRoom, Room, vars, publisher
<1>7. QED
  BY <1>1, <1>2, <1>3, <1>4, <1>5, <1>6 DEF Next, Handler

(* publish never raises queue.Full, for any number of publishers, of        *)
(* connections that take events meanwhile, and any capacity.                *)
THEOREM RoomForTheSecondPut == Spec => []SecondPutFindsRoom
<1>1. Init => Base /\ SecondPutFindsRoom
  <2>1. Init => SecondPutFindsRoom
    BY DEF Init, SecondPutFindsRoom
  <2>2. QED
    BY <2>1, BaseInit DEF Base
<1>2. QED
  BY <1>1, BaseStep, RoomStep, PTL DEF Spec

-----------------------------------------------------------------------------
(* Streams                                                                 *)

LEMMA SameStream ==
  ASSUME NEW d \in Connections, StreamInHand(d),
         queue'[d] = queue[d], got'[d] = got[d],
         d \in subscribers' <=> d \in subscribers,
         d \in subscribers => Due(d)' = Due(d)
  PROVE  StreamInHand(d)'
BY DEF StreamInHand

LEMMA DueType ==
  ASSUME TypeOK, OneInside, NEW d \in Connections
  PROVE  Due(d) \in 0..MaxPublished /\ Due(d) \in Int
<1>1. CASE Awaited(d)
  <2>1. PICK p \in Publishers : d \in todo[p]
    BY <1>1 DEF Awaited
  <2>2. published > 0
    BY <2>1 DEF OneInside
  <2>3. QED
    BY <1>1, <2>2, Sequences_in_place, BroadcasterAssumption DEF Due
<1>2. CASE ~Awaited(d)
  BY <1>2, Sequences_in_place, BroadcasterAssumption DEF Due
<1>3. QED
  BY <1>1, <1>2

(* The publisher inside hands the event to c.                               *)
LEMMA HandedStreams ==
  ASSUME TypeOK, OneInside, StreamsInHand, NEW p \in Publishers, NEW c \in todo[p],
         Handed(p, c), UNCHANGED <<shared, client>>
  PROVE  StreamsInHand'
<1>1. /\ c \in Connections /\ c \in subscribers /\ pc[p] # "outside"
      /\ item[p] = published /\ published \in Numbers
  BY DEF TypeOK, OneInside, Numbers
<1>2. \A q \in Publishers \ {p} : todo[q] = {}
  BY <1>1, Alone
<1>3. /\ todo'[p] = todo[p] \ {c}
      /\ \A q \in Publishers \ {p} : todo'[q] = todo[q]
      /\ queue'[c] = Append(queue[c], published)
      /\ \A d \in Connections \ {c} : queue'[d] = queue[d]
      /\ got' = got /\ subscribers' = subscribers /\ published' = published
  BY <1>1 DEF Handed, TypeOK, shared, client
<1>4. ASSUME NEW d \in Connections PROVE StreamInHand(d)'
  <2>1. CASE d # c
    <3>1. Due(d)' = Due(d)
      BY <1>3, <2>1 DEF Due, Awaited
    <3>2. QED
      BY <1>3, <2>1, <3>1, SameStream DEF StreamsInHand
  <2>2. CASE d = c
    <3>1. Due(c) = published - 1 /\ Due(c)' = published
      BY <1>2, <1>3 DEF Due, Awaited
    <3>2. TakenBefore(got[c], queue[c], published - 1)
      BY <1>1, <3>1 DEF StreamsInHand, StreamInHand
    <3>3. /\ Numbers \subseteq Int /\ published - 1 \in Int
          /\ (published - 1) + 1 = published
      BY <1>1, Sequences_in_place
    <3>4. TakenBefore(got[c], Append(queue[c], published), published)
      <4> DEFINE n == published - 1
      <4>1. n \in Int /\ n + 1 = published /\ n + 1 \in Numbers
        BY <1>1, <3>3
      <4>2. TakenBefore(got[c], queue[c], n)
        BY <3>2
      <4> HIDE DEF n
      <4>3. TakenBefore(got[c], Append(queue[c], n + 1), n + 1)
        BY <1>1, <3>3, <4>1, <4>2, Sequences_in_place, Handing
      <4>4. QED
        BY <4>1, <4>3
    <3>5. QED
      BY <1>1, <1>3, <2>2, <3>1, <3>4 DEF StreamInHand
  <2>3. QED
    BY <2>1, <2>2
<1>5. QED
  BY <1>4 DEF StreamsInHand

(* A connection takes an event.                                             *)
LEMMA TakenStreams ==
  ASSUME TypeOK, OneInside, ConnectionsInHand, StreamsInHand, NEW c \in Connections,
         conn[c] = "serving", queue[c] # <<>>,
         got' = [got EXCEPT ![c] = Append(@, Head(queue[c]))],
         queue' = [queue EXCEPT ![c] = Tail(@)],
         UNCHANGED <<shared, todo>>
  PROVE  StreamsInHand'
<1>1. c \in subscribers
  BY DEF ConnectionsInHand
<1>2. /\ \A d \in Connections : d # c => queue'[d] = queue[d] /\ got'[d] = got[d]
      /\ got'[c] = Append(got[c], Head(queue[c])) /\ queue'[c] = Tail(queue[c])
  BY TakenTypes
<1>3. subscribers' = subscribers /\ \A d \in Connections : Due(d)' = Due(d)
  BY DEF Due, Awaited, shared
<1>4. ASSUME NEW d \in Connections PROVE StreamInHand(d)'
  <2>1. CASE d # c
    BY <1>2, <1>3, <2>1, SameStream DEF StreamsInHand
  <2>2. CASE d = c
    <3>1. TakenBefore(got[c], queue[c], Due(c))
      BY <1>1 DEF StreamsInHand, StreamInHand
    <3>2. TakenBefore(Append(got[c], Head(queue[c])), Tail(queue[c]), Due(c))
      BY <3>1, DueType, Sequences_in_place, Taking
    <3>3. QED
      BY <1>1, <1>2, <1>3, <2>2, <3>2 DEF StreamInHand
  <2>3. QED
    BY <2>1, <2>2
<1>5. QED
  BY <1>4 DEF StreamsInHand

LEMMA EvictStreams ==
  ASSUME TypeOK, OneInside, StreamsInHand, NEW p \in Publishers, Evict(p)
  PROVE  StreamsInHand'
<1>1. at[p] \in Connections /\ at[p] \in subscribers
  BY DEF Evict, OneInside, TypeOK
<1>2. /\ subscribers' = subscribers /\ got' = got
      /\ \A d \in Connections : Due(d)' = Due(d)
      /\ \A d \in Connections : d # at[p] => queue'[d] = queue[d]
      /\ queue'[at[p]] = IF queue[at[p]] = <<>> THEN queue[at[p]] ELSE Tail(queue[at[p]])
  BY <1>1 DEF Evict, Due, Awaited, client, TypeOK
<1>3. ASSUME NEW d \in Connections PROVE StreamInHand(d)'
  <2>1. CASE d # at[p] \/ queue[d] = <<>>
    BY <1>2, <2>1, SameStream DEF StreamsInHand
  <2>2. CASE d = at[p] /\ queue[d] # <<>>
    <3>1. TakenBefore(got[d], queue[d], Due(d))
      BY <1>1, <2>2 DEF StreamsInHand, StreamInHand
    <3>2. TakenBefore(got[d], Tail(queue[d]), Due(d))
      BY <2>2, <3>1, DueType, Sequences_in_place, Evicting
    <3>3. QED
      BY <1>1, <1>2, <2>2, <3>2 DEF StreamInHand
  <2>3. QED
    BY <2>1, <2>2
<1>4. QED
  BY <1>3 DEF StreamsInHand

LEMMA PublishStreams ==
  ASSUME TypeOK, OneInside, StreamsInHand, NEW p \in Publishers, Publish(p)
  PROVE  StreamsInHand'
<1>1. \A q \in Publishers : todo[q] = {}
  BY DEF Publish, LockFree, OneInside
<1>2. /\ queue' = queue /\ got' = got /\ subscribers' = subscribers
      /\ published' = published + 1 /\ todo'[p] = subscribers
      /\ published \in Nat
  BY Sequences_in_place DEF Publish, client, TypeOK
<1>3. \A d \in Connections : d \in subscribers => Due(d)' = Due(d)
  BY <1>1, <1>2 DEF Due, Awaited
<1>4. QED
  BY <1>2, <1>3, SameStream DEF StreamsInHand

LEMMA SubscribeStreams ==
  ASSUME TypeOK, OneInside, HistoryInHand, ConnectionsInHand, StreamsInHand,
         NEW c \in Connections, Subscribe(c)
  PROVE  StreamsInHand'
<1>1. \A q \in Publishers : todo[q] = {}
  BY DEF Subscribe, LockFree, OneInside
<1>2. /\ \A d \in Connections : d # c => queue'[d] = queue[d]
      /\ queue'[c] = Replay /\ got' = got
      /\ subscribers' = subscribers \cup {c}
      /\ published' = published /\ todo' = todo
      /\ got[c] = <<>>
  BY DEF Subscribe, publisher, TypeOK, ConnectionsInHand
<1>3. \A d \in Connections : Due(d)' = Due(d) /\ Due(d) = published
  BY <1>1, <1>2 DEF Due, Awaited
<1>4. ASSUME NEW d \in Connections PROVE StreamInHand(d)'
  <2>1. CASE d # c
    BY <1>2, <1>3, <2>1, SameStream DEF StreamsInHand
  <2>2. CASE d = c
    <3>1. Numbered(Replay, published)
      BY NumberedNewest, Sequences_in_place, BroadcasterAssumption
         DEF Replay, HistoryInHand, TypeOK
    <3>2. TakenBefore(<<>>, Replay, published)
      BY <3>1 DEF TakenBefore, Increasing
    <3>3. QED
      BY <1>2, <1>3, <2>2, <3>2 DEF StreamInHand
  <2>3. QED
    BY <2>1, <2>2
<1>5. QED
  BY <1>4 DEF StreamsInHand

LEMMA UnsubscribeStreams ==
  ASSUME TypeOK, OneInside, ConnectionsInHand, StreamsInHand, NEW c \in Connections, Unsubscribe(c)
  PROVE  StreamsInHand'
<1>1. /\ queue' = queue /\ got' = got /\ subscribers' = subscribers \ {c}
      /\ published' = published /\ todo' = todo
      /\ c \in subscribers
  BY DEF Unsubscribe, publisher, ConnectionsInHand
<1>2. \A d \in Connections : Due(d)' = Due(d)
  BY <1>1 DEF Due, Awaited
<1>3. ASSUME NEW d \in Connections PROVE StreamInHand(d)'
  <2>1. CASE d # c
    BY <1>1, <1>2, <2>1, SameStream DEF StreamsInHand
  <2>2. CASE d = c
    BY <1>1, <2>2, DueType DEF StreamsInHand, StreamInHand
  <2>3. QED
    BY <2>1, <2>2
<1>4. QED
  BY <1>3 DEF StreamsInHand

LEMMA StreamsStep == Base /\ StreamsInHand /\ SecondPutFindsRoom /\ [Next]_vars => StreamsInHand'
<1> SUFFICES ASSUME Base, StreamsInHand, SecondPutFindsRoom, [Next]_vars
             PROVE  StreamsInHand'
  OBVIOUS
<1>0. TypeOK /\ OneInside /\ HistoryInHand /\ ConnectionsInHand
  BY DEF Base
<1>1. ASSUME UNCHANGED <<published, subscribers, queue, got, todo>>
      PROVE  StreamsInHand'
  <2>1. \A d \in Connections : Due(d)' = Due(d)
    BY <1>1 DEF Due, Awaited
  <2>2. QED
    BY <1>1, <2>1, SameStream DEF StreamsInHand
<1>2. ASSUME NEW p \in Publishers, Publish(p) PROVE StreamsInHand'
  BY <1>0, <1>2, PublishStreams
<1>3. ASSUME NEW p \in Publishers, InPublish(p) PROVE StreamsInHand'
  <2>1. CASE Evict(p)
    BY <1>0, <2>1, EvictStreams
  <2>2. CASE PutAgain(p)
    <3>1. at[p] \in todo[p] /\ Room(at[p])
      BY <1>0, <2>2 DEF PutAgain, OneInside, SecondPutFindsRoom
    <3>2. QED
      BY <1>0, <2>2, <3>1, HandedStreams DEF PutAgain
  <2>3. ASSUME NEW c \in Connections, Put(p, c) PROVE StreamsInHand'
    <3>1. CASE Room(c)
      BY <1>0, <2>3, <3>1, HandedStreams DEF Put
    <3>2. CASE ~Room(c)
      BY <1>1, <2>3, <3>2 DEF Put, shared, client
    <3>3. QED
      BY <3>1, <3>2
  <2>4. QED
    BY <1>3, <2>1, <2>2, <2>3 DEF InPublish
<1>4. ASSUME NEW c \in Connections, Subscribe(c) PROVE StreamsInHand'
  BY <1>0, <1>4, SubscribeStreams
<1>5. ASSUME NEW c \in Connections, Disconnect(c) PROVE StreamsInHand'
  BY <1>1, <1>5 DEF Disconnect, shared, publisher
<1>6. ASSUME NEW c \in Connections, Handler(c) PROVE StreamsInHand'
  <2>1. CASE Serve(c)
    BY <1>0, <2>1, TakenStreams DEF Serve, publisher
  <2>2. CASE WriteFails(c) /\ queue[c] = <<>>
    BY <1>1, <2>2 DEF WriteFails, shared, publisher
  <2>3. CASE WriteFails(c) /\ queue[c] # <<>>
    BY <1>0, <2>3, TakenStreams DEF WriteFails, publisher
  <2>4. CASE Unsubscribe(c)
    BY <1>0, <2>4, UnsubscribeStreams
  <2>5. QED
    BY <1>6, <2>1, <2>2, <2>3, <2>4 DEF Handler
<1>7. CASE UNCHANGED vars
  BY <1>1, <1>7 DEF vars, shared, publisher, client
<1>8. QED
  BY <1>2, <1>3, <1>4, <1>5, <1>6, <1>7 DEF Next

LEMMA StreamsInit == Init => StreamsInHand
<1> SUFFICES ASSUME Init, NEW c \in Connections PROVE StreamInHand(c)
  BY DEF StreamsInHand
<1>1. c \notin subscribers /\ got[c] = <<>> /\ queue[c] = <<>>
  BY DEF Init
<1>2. 0 \in 0..MaxPublished
  BY BroadcasterAssumption
<1>3. TakenBefore(got[c], queue[c], 0)
  BY <1>1 DEF TakenBefore, Increasing, Numbered
<1>4. QED
  BY <1>1, <1>2, <1>3 DEF StreamInHand

(* No connection is shown an event twice or out of order, across the seam   *)
(* between replay and live events and whatever is evicted meanwhile.        *)
THEOREM StreamsKeepOrder == Spec => []StreamsInOrder
<1>1. Init => StreamsInHand
  BY StreamsInit
<1>2. Init => SecondPutFindsRoom
  BY DEF Init, SecondPutFindsRoom
<1>3. Init => Base
  BY BaseInit DEF Base
<1>4. Base /\ StreamsInHand => StreamsInOrder
  <2> SUFFICES ASSUME Base, StreamsInHand, NEW c \in Connections
               PROVE  Increasing(Stream(c)) /\ Contiguous(queue[c])
    BY DEF StreamsInOrder
  <2>1. PICK n \in 0..MaxPublished : TakenBefore(got[c], queue[c], n)
    BY DueType DEF Base, StreamsInHand, StreamInHand
  <2>2. /\ got[c] \in Seq(Numbers) /\ queue[c] \in Seq(Numbers)
        /\ Numbers \subseteq Int /\ n \in Int
    BY Sequences_in_place, BroadcasterAssumption DEF Base
  <2>3. QED
    BY <2>1, <2>2, OneStream DEF Stream
<1>5. QED
  BY <1>1, <1>2, <1>3, <1>4, BaseStep, RoomStep, StreamsStep, PTL DEF Spec
-----------------------------------------------------------------------------
(* The snapshot of /state                                                   *)

(* Nobody has an event that is not published, and a history that is kept    *)
(* has the newest.                                                         *)
NothingEarly ==
  /\ \A c \in Connections : queue[c] \in Seq(1..published) /\ got[c] \in Seq(1..published)
  /\ KeepHistory /\ published > 0 => history # <<>>

LEMMA HistorySequence ==
  ASSUME TypeOK, HistoryInHand
  PROVE  history \in Seq(1..published)
<1>1. /\ history \in Seq(Numbers) /\ Len(history) \in Nat /\ published \in Nat
      /\ Len(history) <= published
  BY Sequences_in_place DEF TypeOK, HistoryInHand
<1>2. ASSUME NEW i \in 1..Len(history)
      PROVE  history[i] \in 1..published
  <2>1. history[i] = published - Len(history) + i
    BY <1>2 DEF HistoryInHand, Numbered
  <2>2. QED
    BY <1>1, <2>1
<1>3. history = [i \in 1..Len(history) |-> history[i]]
  BY <1>1
<1>4. QED
  BY <1>1, <1>2, <1>3

LEMMA TakenEarly ==
  ASSUME NothingEarly, TypeOK, NEW c \in Connections, queue[c] # <<>>,
         \/ got' = got
         \/ got' = [got EXCEPT ![c] = Append(@, Head(queue[c]))],
         queue' = [queue EXCEPT ![c] = Tail(@)],
         published' = published, history' = history
  PROVE  NothingEarly'
<1>1. queue[c] \in Seq(1..published) /\ got[c] \in Seq(1..published)
  BY DEF NothingEarly
<1>2. Head(queue[c]) \in 1..published /\ Tail(queue[c]) \in Seq(1..published)
  BY <1>1, HeadTailProperties
<1>3. Append(got[c], Head(queue[c])) \in Seq(1..published)
  BY <1>1, <1>2, AppendProperties
<1>4. QED
  BY <1>1, <1>2, <1>3 DEF NothingEarly, TypeOK

LEMMA HandedEarly ==
  ASSUME NothingEarly, TypeOK, OneInside, NEW p \in Publishers, NEW c \in Connections,
         pc[p] # "outside", Handed(p, c),
         published' = published, history' = history, got' = got
  PROVE  NothingEarly'
<1>1. item[p] \in 1..published
  BY Sequences_in_place DEF OneInside
<1>2. queue[c] \in Seq(1..published)
  BY DEF NothingEarly
<1>3. Append(queue[c], item[p]) \in Seq(1..published)
  BY <1>1, <1>2, AppendProperties
<1>4. QED
  BY <1>3 DEF Handed, NothingEarly, TypeOK

LEMMA PublishEarly ==
  ASSUME NothingEarly, TypeOK, NEW p \in Publishers, Publish(p)
  PROVE  NothingEarly'
<1>1. published' = published + 1 /\ published \in Nat /\ queue' = queue /\ got' = got
  BY Sequences_in_place DEF Publish, client
<1>2. 1..published \subseteq 1..published'
  BY <1>1
<1>3. \A c \in Connections : queue[c] \in Seq(1..published') /\ got[c] \in Seq(1..published')
  BY <1>2, SeqMonotonic DEF NothingEarly
<1>4. ASSUME KeepHistory PROVE history' # <<>>
  <2> DEFINE h == Append(history, published + 1)
  <2>1. history \in Seq(Numbers) /\ published + 1 \in Numbers
    BY <1>1, BroadcasterAssumption DEF TypeOK, Publish, Numbers
  <2>2. h \in Seq(Numbers) /\ Len(h) = Len(history) + 1 /\ Len(history) \in Nat
    BY <2>1, AppendProperties
  <2>3. history' = Newest(h, HistoryLimit)
    BY <1>4 DEF Publish, Recorded
  <2> HIDE DEF h
  <2>4. HistoryLimit \in Nat /\ HistoryLimit > 0
    BY BroadcasterAssumption
  <2>5. CASE Len(h) <= HistoryLimit
    BY <2>2, <2>3, <2>5 DEF Newest
  <2>6. CASE Len(h) > HistoryLimit
    <3>1. /\ Len(h) - HistoryLimit + 1 \in Int /\ Len(h) \in Int
          /\ \A i \in (Len(h) - HistoryLimit + 1)..Len(h) : h[i] \in Numbers
      BY <2>2, <2>4, <2>6
    <3>2. Len(SubSeq(h, Len(h) - HistoryLimit + 1, Len(h))) = HistoryLimit
      BY <3>1, <2>2, <2>4, <2>6, SubSeqProperties
    <3>3. history' = SubSeq(h, Len(h) - HistoryLimit + 1, Len(h))
      BY <2>2, <2>3, <2>4, <2>6 DEF Newest
    <3>4. Len(history') > 0 /\ Len(<<>>) = 0
      BY <2>4, <3>2, <3>3
    <3>5. QED
      BY <3>4
  <2>7. QED
    BY <2>2, <2>4, <2>5, <2>6
<1>5. QED
  BY <1>1, <1>3, <1>4 DEF NothingEarly

LEMMA EarlyStep == Base /\ NothingEarly /\ [Next]_vars => NothingEarly'
<1> SUFFICES ASSUME Base, NothingEarly, [Next]_vars PROVE NothingEarly'
  OBVIOUS
<1>0. TypeOK /\ OneInside /\ HistoryInHand
  BY DEF Base
<1>1. ASSUME UNCHANGED <<published, history, queue, got>> PROVE NothingEarly'
  BY <1>1 DEF NothingEarly
<1>2. ASSUME NEW p \in Publishers, Publish(p) PROVE NothingEarly'
  BY <1>0, <1>2, PublishEarly
<1>3. ASSUME NEW p \in Publishers, InPublish(p) PROVE NothingEarly'
  <2>1. CASE Evict(p)
    <3>1. CASE queue[at[p]] = <<>>
      BY <1>1, <2>1, <3>1 DEF Evict, client
    <3>2. CASE queue[at[p]] # <<>>
      <4>1. at[p] \in Connections
        BY <1>0, <2>1 DEF Evict, OneInside, TypeOK
      <4>2. QED
        BY <1>0, <2>1, <3>2, <4>1, TakenEarly DEF Evict, client
    <3>3. QED
      BY <3>1, <3>2
  <2>2. CASE PutAgain(p)
    <3>1. CASE Room(at[p])
      <4>1. at[p] \in Connections
        BY <1>0, <2>2 DEF PutAgain, OneInside, TypeOK
      <4>2. QED
        BY <1>0, <2>2, <3>1, <4>1, HandedEarly DEF PutAgain, shared, client
    <3>2. CASE ~Room(at[p])
      BY <1>1, <2>2, <3>2 DEF PutAgain, shared, client
    <3>3. QED
      BY <3>1, <3>2
  <2>3. ASSUME NEW c \in Connections, Put(p, c) PROVE NothingEarly'
    <3>1. CASE Room(c)
      BY <1>0, <2>3, <3>1, HandedEarly DEF Put, shared, client
    <3>2. CASE ~Room(c)
      BY <1>1, <2>3, <3>2 DEF Put, shared, client
    <3>3. QED
      BY <3>1, <3>2
  <2>4. QED
    BY <1>3, <2>1, <2>2, <2>3 DEF InPublish
<1>4. ASSUME NEW c \in Connections, Subscribe(c) PROVE NothingEarly'
  <2>1. Replay \in Seq(1..published)
    BY <1>0, HistorySequence, NewestOf, BroadcasterAssumption DEF Replay
  <2>2. QED
    BY <1>4, <2>1 DEF Subscribe, NothingEarly, TypeOK, Base
<1>5. ASSUME NEW c \in Connections, Disconnect(c) PROVE NothingEarly'
  BY <1>1, <1>5 DEF Disconnect, shared
<1>6. ASSUME NEW c \in Connections, Handler(c) PROVE NothingEarly'
  <2>1. CASE Serve(c)
    BY <1>0, <2>1, TakenEarly DEF Serve, shared
  <2>2. CASE WriteFails(c) /\ queue[c] = <<>>
    BY <1>1, <2>2 DEF WriteFails, shared
  <2>3. CASE WriteFails(c) /\ queue[c] # <<>>
    BY <1>0, <2>3, TakenEarly DEF WriteFails, shared
  <2>4. CASE Unsubscribe(c)
    BY <1>1, <2>4 DEF Unsubscribe
  <2>5. QED
    BY <1>6, <2>1, <2>2, <2>3, <2>4 DEF Handler
<1>7. CASE UNCHANGED vars
  BY <1>1, <1>7 DEF vars, shared, client
<1>8. QED
  BY <1>2, <1>3, <1>4, <1>5, <1>6, <1>7 DEF Next

(* GET /state, which hands out the newest of the history, is never behind   *)
(* what a connection has been shown or is about to be, in the middle of a   *)
(* publish too.                                                            *)
THEOREM StateIsUpToDate == Spec => []StateNotBehindStreams
<1>1. Init => NothingEarly
  BY DEF Init, NothingEarly
<1>2. Init => Base
  BY BaseInit DEF Base
<1>3. Base /\ NothingEarly => StateNotBehindStreams
  <2> SUFFICES ASSUME Base, NothingEarly, KeepHistory,
                      NEW c \in Connections, Stream(c) # <<>>
               PROVE  history # <<>> /\ LastOf(Stream(c)) <= LastOf(history)
    BY DEF StateNotBehindStreams
  <2>1. TypeOK /\ HistoryInHand /\ published \in Nat
    BY Sequences_in_place DEF Base
  <2>2. Stream(c) \in Seq(1..published)
    BY DEF NothingEarly, Stream
  <2>3. Len(Stream(c)) \in 1..Len(Stream(c))
    BY <2>2, EmptySeq
  <2>4. LastOf(Stream(c)) \in 1..published
    BY <2>2, <2>3, ElementOfSeq DEF LastOf
  <2>5. published > 0 /\ history # <<>>
    BY <2>1, <2>4 DEF NothingEarly
  <2>6. Len(history) \in 1..Len(history) /\ Len(history) \in Nat
    BY <2>1, <2>5, EmptySeq DEF TypeOK
  <2>7. LastOf(history) = published
    BY <2>1, <2>6 DEF HistoryInHand, Numbered, LastOf
  <2>8. QED
    BY <2>1, <2>4, <2>5, <2>7
<1>4. QED
  BY <1>1, <1>2, <1>3, BaseStep, EarlyStep, PTL DEF Spec

-----------------------------------------------------------------------------
(* Drops                                                                   *)

(* Showing the event after f closes no gap and opens none.                  *)
LEMMA LackingTaken ==
  ASSUME NEW S, S \subseteq Int, NEW g \in Seq(S), NEW a \in Int, NEW f \in Int,
         f + 1 \in S
  PROVE  Lacking(Append(g, f + 1), a, f + 1) = Lacking(g, a, f)
<1> DEFINE h == Append(g, f + 1)
<1>1. /\ Len(h) = Len(g) + 1 /\ Len(g) \in Nat
      /\ \A i \in 1..Len(g) : h[i] = g[i]
      /\ h[Len(g) + 1] = f + 1
  BY AppendProperties
<1> HIDE DEF h
<1>2. ASSUME NEW n \in Lacking(h, a, f + 1) PROVE n \in Lacking(g, a, f)
  <2>1. n \in a..(f + 1) /\ \A i \in 1..Len(h) : h[i] # n
    BY <1>2 DEF Lacking
  <2>2. Len(g) + 1 \in 1..Len(h)
    BY <1>1
  <2>3. n # f + 1
    BY <1>1, <2>1, <2>2
  <2>4. \A i \in 1..Len(g) : g[i] # n
    BY <1>1, <2>1
  <2>5. n \in a..f
    BY <2>1, <2>3
  <2>6. QED
    BY <2>4, <2>5 DEF Lacking
<1>3. ASSUME NEW n \in Lacking(g, a, f) PROVE n \in Lacking(h, a, f + 1)
  <2>1. n \in a..f /\ \A i \in 1..Len(g) : g[i] # n
    BY <1>3 DEF Lacking
  <2>2. n \in a..(f + 1) /\ n # f + 1
    BY <2>1
  <2>3. \A i \in 1..Len(h) : h[i] # n
    BY <1>1, <2>1, <2>2
  <2>4. QED
    BY <2>2, <2>3 DEF Lacking
<1>4. QED
  BY <1>2, <1>3 DEF h

(* Passing over the event after f leaves exactly one more gap.              *)
LEMMA LackingEvicted ==
  ASSUME NEW S, S \subseteq Int, NEW g \in Seq(S), NEW a \in Int, NEW f \in Int,
         a <= f + 1, \A i \in 1..Len(g) : g[i] <= f
  PROVE  /\ Lacking(g, a, f + 1) = Lacking(g, a, f) \cup {f + 1}
         /\ f + 1 \notin Lacking(g, a, f)
<1>1. \A i \in 1..Len(g) : g[i] # f + 1
  <2>1. \A i \in 1..Len(g) : g[i] \in Int
    BY IntElements
  <2>2. QED
    BY <2>1
<1>2. f + 1 \in Lacking(g, a, f + 1)
  BY <1>1 DEF Lacking
<1>3. \A n \in Int : n \in a..(f + 1) <=> n \in a..f \/ n = f + 1
  OBVIOUS
<1>4. QED
  BY <1>2, <1>3 DEF Lacking

(* The newest event before those in the queue of a subscriber.              *)
LEMMA FrontOf ==
  ASSUME TypeOK, OneInside, StreamsInHand, NEW c \in Connections, c \in subscribers
  PROVE  Front(c) = Due(c) - Len(queue[c])
<1>1. CASE queue[c] = <<>>
  BY <1>1, DueType DEF Front
<1>2. CASE queue[c] # <<>>
  <2>1. /\ Head(queue[c]) = queue[c][1] /\ Len(queue[c]) \in Nat /\ Len(queue[c]) > 0
    BY <1>2, Sequences_in_place, HeadTailProperties
  <2>2. queue[c][1] = Due(c) - Len(queue[c]) + 1
    <3>1. Numbered(queue[c], Due(c))
      BY DEF StreamsInHand, StreamInHand, TakenBefore
    <3>2. 1 \in 1..Len(queue[c])
      BY <2>1
    <3>3. QED
      BY <3>1, <3>2 DEF Numbered
  <2>3. QED
    BY <1>2, <2>1, <2>2, DueType DEF Front
<1>3. QED
  BY <1>1, <1>2

FrontsInHand == \A c \in subscribers : Front(c) = Due(c) - Len(queue[c])

LEMMA Fronts == Base /\ StreamsInHand => FrontsInHand
BY FrontOf DEF Base, FrontsInHand, TypeOK

LEMMA FrontsAfter == Base' /\ StreamsInHand' => FrontsInHand'
BY Fronts, PTL

LEMMA ShownType ==
  ASSUME TypeOK, NEW c \in Connections
  PROVE  LastShown(c) \in 0..MaxPublished
<1>1. got[c] \in Seq(Numbers) /\ since[c] \in 1..(MaxPublished + 1) /\ MaxPublished \in Nat
  BY BroadcasterAssumption DEF TypeOK
<1>2. CASE got[c] = <<>>
  BY <1>1, <1>2 DEF LastShown
<1>3. CASE got[c] # <<>>
  <2>1. Len(got[c]) \in 1..Len(got[c])
    BY <1>1, <1>3, EmptySeq
  <2>2. LastOf(got[c]) \in Numbers
    BY <1>1, <2>1, ElementOfSeq DEF LastOf
  <2>3. QED
    BY <1>1, <1>3, <2>2 DEF LastShown, Numbers
<1>4. QED
  BY <1>2, <1>3

LEMMA FrontType ==
  ASSUME TypeOK, OneInside, NEW c \in Connections
  PROVE  Front(c) \in 0..MaxPublished
<1>1. CASE queue[c] # <<>>
  <2>1. Head(queue[c]) \in Numbers
    BY <1>1, Sequences_in_place
  <2>2. QED
    BY <1>1, <2>1, BroadcasterAssumption DEF Front, Numbers
<1>2. CASE queue[c] = <<>>
  BY <1>2, DueType, ShownType DEF Front
<1>3. QED
  BY <1>1, <1>2

LEMMA SameGap ==
  ASSUME NEW d, queue'[d] = queue[d], got'[d] = got[d], since'[d] = since[d],
         d \in subscribers' <=> d \in subscribers,
         d \in subscribers => Due(d)' = Due(d)
  PROVE  /\ LastShown(d)' = LastShown(d)
         /\ Front(d)' = Front(d)
         /\ Gap(d)' = Gap(d)
<1>1. LastShown(d)' = LastShown(d)
  BY DEF LastShown
<1>2. Front(d)' = Front(d)
  BY <1>1 DEF Front
<1>3. QED
  BY <1>1, <1>2 DEF Gap

LEMMA SameLost ==
  ASSUME \A d \in Connections : Gap(d)' = Gap(d)
  PROVE  Lost' = Lost
BY DEF Lost

(* One more gap is one more event lost.                                     *)
LEMMA OneMoreLost ==
  ASSUME NEW c \in Connections, NEW n \in Int,
         Gap(c)' = Gap(c) \cup {n}, n \notin Gap(c),
         \A d \in Connections \ {c} : Gap(d)' = Gap(d),
         IsFiniteSet(Lost), dropped = Cardinality(Lost), dropped' = dropped + 1
  PROVE  IsFiniteSet(Lost') /\ dropped' = Cardinality(Lost')
<1>1. ASSUME NEW m \in Lost' PROVE m \in Lost \cup {<<c, n>>}
  <2>1. m \in Connections \X Int /\ m[2] \in Gap(m[1])'
    BY <1>1 DEF Lost
  <2>2. CASE m[1] = c /\ m[2] = n
    BY <2>1, <2>2
  <2>3. CASE m[1] # c \/ m[2] # n
    <3>1. m[1] \in Connections
      BY <2>1
    <3>2. m[2] \in Gap(m[1])
      BY <2>1, <2>3, <3>1
    <3>3. QED
      BY <2>1, <3>2 DEF Lost
  <2>4. QED
    BY <2>2, <2>3
<1>2. ASSUME NEW m \in Lost \cup {<<c, n>>} PROVE m \in Lost'
  <2>1. CASE m = <<c, n>>
    BY <2>1 DEF Lost
  <2>2. CASE m \in Lost
    <3>1. m \in Connections \X Int /\ m[2] \in Gap(m[1]) /\ m[1] \in Connections
      BY <2>2 DEF Lost
    <3>2. m[2] \in Gap(m[1])'
      BY <3>1
    <3>3. QED
      BY <3>1, <3>2 DEF Lost
  <2>3. QED
    BY <1>2, <2>1, <2>2
<1>3. <<c, n>> \notin Lost
  BY DEF Lost
<1> DEFINE K == Lost
           L == Lost'
<1>4. L = K \cup {<<c, n>>} /\ <<c, n>> \notin K /\ IsFiniteSet(K)
  BY <1>1, <1>2, <1>3
<1> HIDE DEF K, L
<1>5. IsFiniteSet(L) /\ Cardinality(L) = Cardinality(K) + 1
  BY <1>4, FS_AddElement
<1>6. QED
  BY <1>5 DEF K, L

(* A subscriber nothing happens to.                                         *)
LEMMA SameDrop ==
  ASSUME NEW d, d \in subscribers, DropInHand(d),
         queue'[d] = queue[d], got'[d] = got[d], since'[d] = since[d],
         d \in subscribers', Due(d)' = Due(d), Evicted(d) => Evicted(d)'
  PROVE  DropInHand(d)'
<1>1. LastShown(d)' = LastShown(d) /\ Front(d)' = Front(d)
  BY SameGap
<1>2. QED
  BY <1>1 DEF DropInHand

LEMMA SameDrops ==
  ASSUME DropsInHand, subscribers' = subscribers, dropped' = dropped,
         queue' = queue, got' = got, since' = since,
         \A d \in subscribers : Due(d)' = Due(d) /\ (Evicted(d) => Evicted(d)')
  PROVE  DropsInHand'
<1>1. \A d \in Connections : Gap(d)' = Gap(d)
  BY SameGap
<1>2. Lost' = Lost
  BY <1>1, SameLost
<1>3. ASSUME NEW d \in subscribers PROVE DropInHand(d)'
  BY <1>3, SameDrop DEF DropsInHand
<1>4. QED
  BY <1>2, <1>3 DEF DropsInHand

(* The event that is handed out adds to what is due and to what waits.      *)
LEMMA HandedDrops ==
  ASSUME TypeOK, OneInside, FrontsInHand, FrontsInHand', DropsInHand,
         NEW p \in Publishers, NEW c \in todo[p],
         Handed(p, c), UNCHANGED <<shared, client>>,
         pc[p] = "putAgain" => at[p] = c
  PROVE  DropsInHand'
<1>1. /\ c \in Connections /\ c \in subscribers /\ pc[p] # "outside"
      /\ item[p] = published /\ published \in Numbers
  BY DEF TypeOK, OneInside, Numbers
<1>2. \A q \in Publishers \ {p} : todo[q] = {} /\ pc[q] = "outside"
  BY <1>1, Alone
<1>3. /\ todo'[p] = todo[p] \ {c}
      /\ \A q \in Publishers \ {p} : todo'[q] = todo[q]
      /\ queue'[c] = Append(queue[c], published)
      /\ \A d \in Connections \ {c} : queue'[d] = queue[d]
      /\ got' = got /\ subscribers' = subscribers /\ published' = published
      /\ since' = since /\ dropped' = dropped
  BY <1>1 DEF Handed, TypeOK, shared, client
<1>4. Due(c) = published - 1 /\ Due(c)' = published
  BY <1>2, <1>3 DEF Due, Awaited
<1>5. Len(queue'[c]) = Len(queue[c]) + 1 /\ queue'[c] # <<>> /\ Len(queue[c]) \in Nat
  <2>1. queue[c] \in Seq(Numbers)
    BY <1>1, Sequences_in_place
  <2>2. QED
    BY <1>1, <1>3, <2>1, AppendProperties
<1>6. Front(c)' = Front(c)
  <2>1. Front(c) = Due(c) - Len(queue[c])
    BY <1>1 DEF FrontsInHand
  <2>2. Front(c)' = Due(c)' - Len(queue'[c])
    BY <1>1, <1>3 DEF FrontsInHand
  <2>3. QED
    BY <1>1, <1>4, <1>5, <2>1, <2>2, Sequences_in_place
<1>7. \A d \in Connections \ {c} : Due(d)' = Due(d)
  BY <1>3 DEF Due, Awaited
<1>8. \A d \in Connections : Gap(d)' = Gap(d)
  <2>1. Gap(c)' = Gap(c)
    BY <1>3, <1>6 DEF Gap
  <2>2. \A d \in Connections \ {c} : Gap(d)' = Gap(d)
    BY <1>3, <1>7, SameGap
  <2>3. QED
    BY <2>1, <2>2
<1>9. Lost' = Lost
  BY <1>8, SameLost
<1>10. ASSUME NEW d \in subscribers PROVE DropInHand(d)'
  <2>1. CASE d # c
    <3>1. d \in Connections \ {c}
      BY <2>1 DEF TypeOK
    <3>2. ~Evicted(d)
      BY <1>2, <2>1 DEF Evicted
    <3>3. QED
      BY <1>3, <1>7, <3>1, <3>2, SameDrop DEF DropsInHand
  <2>2. CASE d = c
    BY <1>3, <1>5, <1>6, <2>2 DEF DropsInHand, DropInHand
  <2>3. QED
    BY <2>1, <2>2
<1>11. QED
  BY <1>3, <1>9, <1>10 DEF DropsInHand

(* Making room in a queue that is not empty loses its oldest.               *)
LEMMA EvictDrops ==
  ASSUME TypeOK, OneInside, StreamsInHand, FrontsInHand, FrontsInHand', DropsInHand,
         NEW p \in Publishers, NEW c, c = at[p], Evict(p), queue[c] # <<>>
  PROVE  DropsInHand'
<1>1. c \in Connections /\ c \in subscribers
  BY DEF Evict, OneInside, TypeOK
<1>2. /\ subscribers' = subscribers /\ got' = got /\ since' = since
      /\ \A d \in Connections : Due(d)' = Due(d)
      /\ \A d \in Connections \ {c} : queue'[d] = queue[d]
      /\ queue'[c] = Tail(queue[c]) /\ dropped' = dropped + 1
      /\ pc'[p] = "putAgain" /\ at' = at
      /\ \A q \in Publishers \ {p} : pc'[q] = pc[q]
  BY <1>1 DEF Evict, Due, Awaited, client, TypeOK
<1>3. Len(queue'[c]) = Len(queue[c]) - 1 /\ Len(queue[c]) \in Nat
  BY <1>1, <1>2, Sequences_in_place
<1>4. Front(c) = Due(c) - Len(queue[c])
  BY <1>1 DEF FrontsInHand
<1>5. Front(c)' = Front(c) + 1
  <2>1. Front(c)' = Due(c)' - Len(queue'[c])
    BY <1>1, <1>2 DEF FrontsInHand
  <2>2. QED
    BY <1>1, <1>2, <1>3, <1>4, <2>1, DueType
<1>6. since[c] <= Front(c) + 1 /\ since[c] \in Int /\ Front(c) \in Int
  <2>1. since[c] <= Front(c) + 1
    BY <1>1 DEF DropsInHand, DropInHand
  <2>2. since[c] \in Int
    BY <1>1, BroadcasterAssumption DEF TypeOK
  <2>3. Front(c) \in Int
    BY <1>1, FrontType, BroadcasterAssumption
  <2>4. QED
    BY <2>1, <2>2, <2>3
<1>7. \A i \in 1..Len(got[c]) : got[c][i] <= Front(c)
  BY <1>1, <1>4 DEF StreamsInHand, StreamInHand, TakenBefore
<1>8. Gap(c)' = Gap(c) \cup {Front(c) + 1} /\ Front(c) + 1 \notin Gap(c)
  <2> DEFINE g == got[c]
             a == since[c]
             f == Front(c)
  <2>1. g \in Seq(Numbers) /\ Numbers \subseteq Int
    BY <1>1, Sequences_in_place
  <2>2. Gap(c) = Lacking(g, a, f) /\ Gap(c)' = Lacking(g, a, f + 1)
    BY <1>2, <1>5 DEF Gap
  <2>3. a <= f + 1 /\ a \in Int /\ f \in Int /\ \A i \in 1..Len(g) : g[i] <= f
    BY <1>6, <1>7
  <2> HIDE DEF g, a, f
  <2>4. /\ Lacking(g, a, f + 1) = Lacking(g, a, f) \cup {f + 1}
        /\ f + 1 \notin Lacking(g, a, f)
    BY <2>1, <2>3, LackingEvicted
  <2>5. QED
    BY <2>2, <2>4 DEF f
<1>9. \A d \in Connections \ {c} : Gap(d)' = Gap(d)
  BY <1>2, SameGap
<1>10. IsFiniteSet(Lost') /\ dropped' = Cardinality(Lost')
  <2>1. Front(c) + 1 \in Int
    BY <1>6
  <2>2. IsFiniteSet(Lost) /\ dropped = Cardinality(Lost)
    BY DEF DropsInHand
  <2>3. QED
    BY <1>1, <1>2, <1>8, <1>9, <2>1, <2>2, OneMoreLost
<1>11. ASSUME NEW d \in subscribers PROVE DropInHand(d)'
  <2>1. CASE d # c
    <3>1. d \in Connections \ {c} /\ d \in subscribers'
      BY <1>2, <2>1 DEF TypeOK
    <3>2. Evicted(d) => Evicted(d)'
      BY <1>2 DEF Evicted, Evict
    <3>3. QED
      BY <1>2, <3>1, <3>2, SameDrop DEF DropsInHand
  <2>2. CASE d = c
    <3>1. Evicted(c)'
      BY <1>2 DEF Evicted
    <3>2. since'[c] <= Front(c)' + 1
      BY <1>2, <1>5, <1>6
    <3>3. QED
      BY <2>2, <3>1, <3>2 DEF DropInHand
  <2>3. QED
    BY <2>1, <2>2
<1>12. QED
  BY <1>2, <1>10, <1>11 DEF DropsInHand

(* A subscriber takes an event: it is shown, not lost.                      *)
LEMMA TakenDrops ==
  ASSUME TypeOK, OneInside, ConnectionsInHand, FrontsInHand, FrontsInHand', DropsInHand,
         NEW c \in Connections, conn[c] = "serving", queue[c] # <<>>,
         got' = [got EXCEPT ![c] = Append(@, Head(queue[c]))],
         queue' = [queue EXCEPT ![c] = Tail(@)],
         UNCHANGED <<shared, publisher, since>>
  PROVE  DropsInHand'
<1>1. c \in subscribers
  BY DEF ConnectionsInHand
<1>2. /\ \A d \in Connections : d # c => queue'[d] = queue[d] /\ got'[d] = got[d]
      /\ got'[c] = Append(got[c], Head(queue[c])) /\ queue'[c] = Tail(queue[c])
  BY TakenTypes
<1>3. /\ subscribers' = subscribers /\ since' = since /\ dropped' = dropped
      /\ \A d \in Connections : Due(d)' = Due(d) /\ (Evicted(d)' <=> Evicted(d))
  BY DEF Due, Awaited, Evicted, shared, publisher
<1>4. /\ Head(queue[c]) \in Numbers /\ Numbers \subseteq Int
      /\ Len(queue'[c]) = Len(queue[c]) - 1 /\ Len(queue[c]) \in Nat
      /\ got[c] \in Seq(Numbers) /\ queue'[c] \in Seq(Numbers)
  BY <1>2, Sequences_in_place
<1>5. Front(c) = Due(c) - Len(queue[c]) /\ Front(c)' = Due(c) - Len(queue'[c])
  BY <1>1, <1>3 DEF FrontsInHand
<1>6. Front(c) \in Int /\ Front(c)' = Front(c) + 1
  <2>1. Due(c) \in Int
    BY DueType
  <2>2. QED
    BY <1>4, <1>5, <2>1
<1>7. Head(queue[c]) = Front(c) + 1
  <2>1. Front(c) = Head(queue[c]) - 1
    BY DEF Front
  <2>2. Head(queue[c]) \in Int
    BY <1>4
  <2>3. QED
    BY <2>1, <2>2
<1>8. Gap(c)' = Gap(c)
  <2> DEFINE g == got[c]
             a == since[c]
             f == Front(c)
  <2>1. g \in Seq(Numbers) /\ f \in Int /\ f + 1 \in Numbers /\ Numbers \subseteq Int
    BY <1>4, <1>6, <1>7
  <2>2. a \in Int
    BY BroadcasterAssumption DEF TypeOK
  <2>3. Gap(c) = Lacking(g, a, f) /\ Gap(c)' = Lacking(Append(g, f + 1), a, f + 1)
    BY <1>2, <1>3, <1>6, <1>7 DEF Gap
  <2> HIDE DEF g, a, f
  <2>4. Lacking(Append(g, f + 1), a, f + 1) = Lacking(g, a, f)
    BY <2>1, <2>2, LackingTaken
  <2>5. QED
    BY <2>3, <2>4
<1>9. \A d \in Connections : d # c => Gap(d)' = Gap(d)
  BY <1>2, <1>3, SameGap
<1>10. Lost' = Lost
  BY <1>8, <1>9, SameLost
<1>11. LastShown(c)' = Head(queue[c])
  <2>1. /\ Len(got'[c]) = Len(got[c]) + 1 /\ Len(got[c]) \in Nat
        /\ got'[c][Len(got[c]) + 1] = Head(queue[c])
        /\ got'[c] # <<>>
    BY <1>2, <1>4, AppendProperties
  <2>2. QED
    BY <2>1 DEF LastShown, LastOf
<1>12. ASSUME NEW d \in subscribers PROVE DropInHand(d)'
  <2>1. CASE d # c
    <3>1. d \in Connections
      BY DEF TypeOK
    <3>2. QED
      BY <1>2, <1>3, <2>1, <3>1, SameDrop DEF DropsInHand
  <2>2. CASE d = c
    <3>1. since[c] <= Front(c) + 1 /\ since[c] \in Int
      BY <1>1, BroadcasterAssumption DEF DropsInHand, DropInHand, TypeOK
    <3>2. since'[c] <= Front(c)' + 1
      BY <1>3, <1>6, <3>1
    <3>3. ASSUME queue'[c] = <<>> PROVE Due(c)' = LastShown(c)'
      <4>1. Len(queue'[c]) = 0
        BY <3>3
      <4>2. Due(c) \in Int
        BY DueType
      <4>3. Due(c) - 0 = Due(c)
        BY <4>2
      <4>4. Front(c)' = Due(c)
        BY <1>5, <4>1, <4>3
      <4>5. QED
        BY <1>3, <1>6, <1>7, <1>11, <4>4
    <3>4. QED
      BY <2>2, <3>2, <3>3 DEF DropInHand
  <2>3. QED
    BY <2>1, <2>2
<1>13. QED
  BY <1>3, <1>10, <1>12 DEF DropsInHand

(* A new connection is due what it is replayed and what comes after.        *)
LEMMA SubscribeDrops ==
  ASSUME TypeOK, OneInside, ConnectionsInHand, FrontsInHand', DropsInHand,
         NEW c \in Connections, Subscribe(c)
  PROVE  DropsInHand'
<1>1. \A q \in Publishers : todo[q] = {} /\ pc[q] = "outside"
  BY DEF Subscribe, LockFree, OneInside
<1>2. /\ \A d \in Connections : d # c => queue'[d] = queue[d] /\ since'[d] = since[d]
      /\ queue'[c] = Replay /\ got' = got
      /\ since'[c] = published - Len(Replay) + 1
      /\ subscribers' = subscribers \cup {c} /\ c \notin subscribers
      /\ published' = published /\ todo' = todo /\ dropped' = dropped
      /\ got[c] = <<>> /\ queue[c] = <<>>
  BY DEF Subscribe, publisher, TypeOK, ConnectionsInHand, Replay
<1>3. \A d \in Connections : Due(d)' = Due(d) /\ Due(d) = published
  BY <1>1, <1>2 DEF Due, Awaited
<1>4. Front(c) = since[c] - 1 /\ since[c] \in Int
  BY <1>2, BroadcasterAssumption DEF Front, LastShown, TypeOK
<1>5. Len(Replay) \in Nat /\ published \in Nat
  <2>1. history \in Seq(Numbers) /\ QueueLimit \in Nat
    BY BroadcasterAssumption DEF TypeOK
  <2>2. Replay \in Seq(Numbers)
    BY <2>1, NewestOf DEF Replay
  <2>3. QED
    BY <2>2, Sequences_in_place
<1>6. Front(c)' = published - Len(Replay)
  BY <1>2, <1>3 DEF FrontsInHand
<1>7. Gap(c) = {} /\ Gap(c)' = {}
  BY <1>2, <1>4, <1>5, <1>6 DEF Gap, Lacking
<1>8. \A d \in Connections : d # c => Gap(d)' = Gap(d)
  BY <1>2, <1>3, SameGap
<1>9. Lost' = Lost
  BY <1>7, <1>8, SameLost
<1>10. ASSUME NEW d \in subscribers' PROVE DropInHand(d)'
  <2>1. CASE d # c
    <3>1. d \in Connections /\ d \in subscribers /\ ~Evicted(d)
      BY <1>1, <1>2, <2>1 DEF TypeOK, Evicted
    <3>2. QED
      BY <1>2, <1>3, <2>1, <3>1, SameDrop DEF DropsInHand
  <2>2. CASE d = c
    <3>1. since'[c] <= Front(c)' + 1
      BY <1>2, <1>5, <1>6
    <3>2. queue'[c] = <<>> => Due(c)' = LastShown(c)'
      BY <1>2, <1>3, <1>5 DEF LastShown
    <3>3. QED
      BY <2>2, <3>1, <3>2 DEF DropInHand
  <2>3. QED
    BY <2>1, <2>2
<1>11. QED
  BY <1>2, <1>9, <1>10 DEF DropsInHand

(* Whoever leaves with an empty queue was shown all it was due.             *)
LEMMA UnsubscribeDrops ==
  ASSUME TypeOK, OneInside, ConnectionsInHand, DropsInHand,
         NEW c \in Connections, Unsubscribe(c)
  PROVE  DropsInHand'
<1>1. /\ queue' = queue /\ got' = got /\ since' = since /\ dropped' = dropped
      /\ subscribers' = subscribers \ {c} /\ c \in subscribers
      /\ published' = published /\ todo' = todo
  BY DEF Unsubscribe, publisher, ConnectionsInHand
<1>2. \A d \in Connections : Due(d)' = Due(d) /\ ~Evicted(d)
  BY <1>1 DEF Due, Awaited, Evicted, Unsubscribe, LockFree
<1>3. Front(c)' = Front(c)
  <2>1. CASE queue[c] # <<>>
    BY <1>1, <2>1 DEF Front
  <2>2. CASE queue[c] = <<>>
    <3>1. Due(c) = LastShown(c)
      BY <1>1, <1>2, <2>2 DEF DropsInHand, DropInHand
    <3>2. LastShown(c)' = LastShown(c)
      BY <1>1 DEF LastShown
    <3>3. QED
      BY <1>1, <2>2, <3>1, <3>2 DEF Front
  <2>3. QED
    BY <2>1, <2>2
<1>4. \A d \in Connections : Gap(d)' = Gap(d)
  <2>1. Gap(c)' = Gap(c)
    BY <1>1, <1>3 DEF Gap
  <2>2. \A d \in Connections : d # c => Gap(d)' = Gap(d)
    BY <1>1, <1>2, SameGap
  <2>3. QED
    BY <2>1, <2>2
<1>5. Lost' = Lost
  BY <1>4, SameLost
<1>6. ASSUME NEW d \in subscribers' PROVE DropInHand(d)'
  <2>1. d \in Connections /\ d \in subscribers
    BY <1>1 DEF TypeOK
  <2>2. QED
    BY <1>1, <1>2, <2>1, SameDrop DEF DropsInHand
<1>7. QED
  BY <1>1, <1>5, <1>6 DEF DropsInHand

LEMMA DropsStep ==
  Base /\ StreamsInHand /\ SecondPutFindsRoom /\ FrontsInHand /\ FrontsInHand'
    /\ DropsInHand /\ [Next]_vars => DropsInHand'
<1> SUFFICES ASSUME Base, StreamsInHand, SecondPutFindsRoom, FrontsInHand, FrontsInHand',
                    DropsInHand, [Next]_vars
             PROVE  DropsInHand'
  OBVIOUS
<1>0. TypeOK /\ OneInside /\ HistoryInHand /\ ConnectionsInHand
  BY DEF Base
<1>1. ASSUME UNCHANGED <<published, subscribers, dropped, queue, got, since, todo>>,
             \A d \in Connections : Evicted(d) => Evicted(d)'
      PROVE  DropsInHand'
  <2>1. \A d \in Connections : Due(d)' = Due(d)
    BY <1>1 DEF Due, Awaited
  <2>2. QED
    BY <1>0, <1>1, <2>1, SameDrops DEF TypeOK
<1>2. ASSUME NEW p \in Publishers, Publish(p) PROVE DropsInHand'
  <2>1. \A q \in Publishers : todo[q] = {} /\ pc[q] = "outside"
    BY <1>0, <1>2 DEF Publish, LockFree, OneInside
  <2>2. /\ queue' = queue /\ got' = got /\ subscribers' = subscribers
        /\ published' = published + 1 /\ todo'[p] = subscribers /\ since' = since
        /\ dropped' = dropped /\ published \in Nat
    BY <1>0, <1>2, Sequences_in_place DEF Publish, client, TypeOK
  <2>3. \A d \in subscribers : Due(d)' = Due(d) /\ ~Evicted(d)
    BY <2>1, <2>2 DEF Due, Awaited, Evicted
  <2>4. QED
    BY <2>2, <2>3, SameDrops
<1>3. ASSUME NEW p \in Publishers, InPublish(p) PROVE DropsInHand'
  <2>1. CASE Evict(p) /\ queue[at[p]] # <<>>
    BY <1>0, <2>1, EvictDrops
  <2>2. CASE Evict(p) /\ queue[at[p]] = <<>>
    <3>1. \A d \in Connections : Evicted(d) => Evicted(d)'
      BY <1>0, <2>2 DEF Evict, Evicted, TypeOK
    <3>2. QED
      BY <1>1, <2>2, <3>1 DEF Evict, client
  <2>3. CASE PutAgain(p)
    <3>1. at[p] \in todo[p] /\ Room(at[p])
      BY <1>0, <2>3 DEF PutAgain, OneInside, SecondPutFindsRoom
    <3>2. QED
      BY <1>0, <2>3, <3>1, HandedDrops DEF PutAgain
  <2>4. ASSUME NEW c \in Connections, Put(p, c) PROVE DropsInHand'
    <3>1. CASE Room(c)
      BY <1>0, <2>4, <3>1, HandedDrops DEF Put
    <3>2. CASE ~Room(c)
      <4>1. \A d \in Connections : Evicted(d) => Evicted(d)'
        BY <1>0, <2>4, <3>2 DEF Put, Evicted, TypeOK
      <4>2. QED
        BY <1>1, <2>4, <3>2, <4>1 DEF Put, shared, client
    <3>3. QED
      BY <3>1, <3>2
  <2>5. QED
    BY <1>3, <2>1, <2>2, <2>3, <2>4 DEF InPublish
<1>4. ASSUME NEW c \in Connections, Subscribe(c) PROVE DropsInHand'
  BY <1>0, <1>4, SubscribeDrops
<1>5. ASSUME UNCHANGED <<shared, queue, publisher, since, got>> PROVE DropsInHand'
  BY <1>1, <1>5 DEF shared, publisher, Evicted
<1>6. ASSUME NEW c \in Connections, Disconnect(c) PROVE DropsInHand'
  BY <1>5, <1>6 DEF Disconnect
<1>7. ASSUME NEW c \in Connections, Handler(c) PROVE DropsInHand'
  <2>1. CASE Serve(c)
    BY <1>0, <2>1, TakenDrops DEF Serve
  <2>2. CASE WriteFails(c) /\ queue[c] = <<>>
    BY <1>5, <2>2 DEF WriteFails
  <2>3. CASE WriteFails(c) /\ queue[c] # <<>>
    BY <1>0, <2>3, TakenDrops DEF WriteFails
  <2>4. CASE Unsubscribe(c)
    BY <1>0, <2>4, UnsubscribeDrops
  <2>5. QED
    BY <1>7, <2>1, <2>2, <2>3, <2>4 DEF Handler
<1>8. CASE UNCHANGED vars
  BY <1>5, <1>8 DEF vars, client
<1>9. QED
  BY <1>2, <1>3, <1>4, <1>6, <1>7, <1>8 DEF Next

LEMMA DropsInit == Init => DropsInHand
<1> SUFFICES ASSUME Init PROVE DropsInHand
  OBVIOUS
<1>1. subscribers = {} /\ dropped = 0
  BY DEF Init
<1>2. \A c \in Connections : Front(c) = 0 /\ since[c] = 1
  BY DEF Init, Front, LastShown
<1>3. \A c \in Connections : Gap(c) = {}
  BY <1>2 DEF Gap, Lacking
<1>4. Lost = {}
  BY <1>3 DEF Lost
<1>5. QED
  BY <1>1, <1>4, FS_EmptySet DEF DropsInHand

(* What waits closes no gap before it and opens none.                       *)
LEMMA LackingWaiting ==
  ASSUME NEW S, S \subseteq Int, NEW g \in Seq(S), NEW q \in Seq(S), q # <<>>,
         NEW n \in Int, NEW a \in Int, TakenBefore(g, q, n)
  PROVE  /\ Head(q) - 1 = n - Len(q)
         /\ g \o q # <<>> /\ LastOf(g \o q) = n
         /\ Lacking(g \o q, a, n) = Lacking(g, a, n - Len(q))
<1> DEFINE s == g \o q
           G == Len(g)
           Q == Len(q)
<1>1. /\ s \in Seq(S) /\ Len(s) = G + Q /\ G \in Nat /\ Q \in Nat
      /\ \A i \in 1..(G + Q) : s[i] = IF i <= G THEN g[i] ELSE q[i - G]
  BY ConcatProperties
<1>2. Q > 0 /\ Head(q) = q[1]
  BY HeadTailProperties
<1>3. /\ \A i \in 1..Q : q[i] = n - Q + i
      /\ \A i \in 1..G : g[i] <= n - Q
  BY DEF TakenBefore, Numbered
<1>4. s = <<>> => Len(s) = 0
  OBVIOUS
<1>5. s[Len(s)] = LastOf(s)
  BY DEF LastOf
<1> HIDE DEF s, G, Q
<1>6. \A i \in 1..G : s[i] = g[i]
  BY <1>1
<1>7. \A i \in 1..Q : s[G + i] = n - Q + i
  <2> SUFFICES ASSUME NEW i \in 1..Q PROVE s[G + i] = n - Q + i
    OBVIOUS
  <2>1. G + i \in 1..(G + Q) /\ ~(G + i <= G) /\ (G + i) - G = i
    BY <1>1
  <2>2. QED
    BY <1>1, <1>3, <2>1
<1>8. Head(q) - 1 = n - Q
  BY <1>1, <1>2, <1>3
<1>9. s # <<>> /\ s[Len(s)] = n
  <2>1. Q \in 1..Q /\ n - Q + Q = n /\ Len(s) # 0
    BY <1>1, <1>2
  <2>2. s[G + Q] = n
    BY <1>7, <2>1
  <2>3. QED
    BY <1>1, <1>4, <2>1, <2>2
<1>10. ASSUME NEW k \in Lacking(g, a, n - Q) PROVE k \in Lacking(s, a, n)
  <2>1. k \in a..n /\ k <= n - Q /\ \A i \in 1..G : g[i] # k
    BY <1>1, <1>10 DEF Lacking, G
  <2>2. ASSUME NEW i \in 1..Len(s) PROVE s[i] # k
    <3>1. CASE i <= G
      BY <1>1, <1>6, <2>1, <3>1
    <3>2. CASE i > G
      <4>1. i - G \in 1..Q /\ G + (i - G) = i
        BY <1>1, <3>2
      <4>2. s[i] = n - Q + (i - G)
        BY <1>7, <4>1
      <4>3. QED
        BY <1>1, <2>1, <4>1, <4>2
    <3>3. QED
      BY <1>1, <3>1, <3>2
  <2>3. QED
    BY <2>1, <2>2 DEF Lacking
<1>11. ASSUME NEW k \in Lacking(s, a, n) PROVE k \in Lacking(g, a, n - Q)
  <2>1. k \in a..n /\ \A i \in 1..Len(s) : s[i] # k
    BY <1>11 DEF Lacking
  <2>2. \A i \in 1..G : g[i] # k
    <3>1. \A i \in 1..G : i \in 1..Len(s)
      BY <1>1
    <3>2. QED
      BY <1>6, <2>1, <3>1
  <2>3. k <= n - Q
    <3>1. SUFFICES ASSUME k > n - Q PROVE FALSE
      BY <1>1, <2>1
    <3>2. k - (n - Q) \in 1..Q
      BY <1>1, <2>1, <3>1
    <3>3. s[G + (k - (n - Q))] = n - Q + (k - (n - Q))
      BY <1>7, <3>2
    <3>4. G + (k - (n - Q)) \in 1..Len(s) /\ n - Q + (k - (n - Q)) = k
      BY <1>1, <2>1, <3>2
    <3>5. QED
      BY <2>1, <3>3, <3>4
  <2>4. QED
    BY <1>1, <2>1, <2>2, <2>3 DEF Lacking, G
<1>12. QED
  BY <1>5, <1>8, <1>9, <1>10, <1>11 DEF s, Q

(* With nobody between an eviction and the put after it, what the front of  *)
(* the queue has passed is what the whole stream passes over.               *)
LEMMA GapsAreMissed ==
  ASSUME Base, StreamsInHand, DropsInHand, NEW c \in Connections, ~Evicted(c)
  PROVE  Gap(c) = Missed(c)
<1>0. TypeOK /\ OneInside
  BY DEF Base
<1> DEFINE g == got[c]
           q == queue[c]
           s == Stream(c)
<1>1. /\ g \in Seq(Numbers) /\ q \in Seq(Numbers) /\ Numbers \subseteq Int
      /\ since[c] \in Int
  BY <1>0, Sequences_in_place, BroadcasterAssumption DEF TypeOK
<1>2. s = g \o q
  BY DEF Stream
<1>3. CASE q # <<>>
  <2>1. PICK n \in 0..MaxPublished : TakenBefore(g, q, n)
    BY <1>0, DueType DEF StreamsInHand, StreamInHand
  <2>2. n \in Int
    BY BroadcasterAssumption
  <2>3. Front(c) = Head(q) - 1
    BY <1>3 DEF Front
  <2>4. Gap(c) = Lacking(g, since[c], Front(c))
    BY DEF Gap
  <2>5. Missed(c) = IF s = <<>> THEN {} ELSE Lacking(s, since[c], LastOf(s))
    BY DEF Missed
  <2> HIDE DEF g, q, s
  <2>6. /\ Head(q) - 1 = n - Len(q) /\ s # <<>> /\ LastOf(s) = n
        /\ Lacking(s, since[c], n) = Lacking(g, since[c], n - Len(q))
    BY <1>1, <1>2, <1>3, <2>1, <2>2, LackingWaiting
  <2>7. QED
    BY <2>3, <2>4, <2>5, <2>6
<1>4. CASE q = <<>>
  <2>1. Front(c) = LastShown(c)
    <3>1. CASE c \in subscribers
      BY <1>4, <3>1 DEF Front, DropsInHand, DropInHand
    <3>2. CASE c \notin subscribers
      BY <1>4, <3>2 DEF Front
    <3>3. QED
      BY <3>1, <3>2
  <2>2. s = g
    BY <1>1, <1>4, ConcatEmptySeq DEF Stream
  <2>3. CASE g = <<>>
    BY <1>1, <2>1, <2>2, <2>3 DEF Gap, Lacking, Missed, LastShown
  <2>4. CASE g # <<>>
    BY <2>1, <2>2, <2>4 DEF Gap, Missed, LastShown
  <2>5. QED
    BY <2>3, <2>4
<1>5. QED
  BY <1>3, <1>4

LEMMA DropsCount == Base /\ StreamsInHand /\ DropsInHand => DropsAreCounted
<1> SUFFICES ASSUME Base, StreamsInHand, DropsInHand,
                    \A p \in Publishers : pc[p] # "putAgain"
             PROVE  dropped = Cardinality({m \in Connections \X Numbers : m[2] \in Missed(m[1])})
  BY DEF DropsAreCounted
<1> DEFINE M == {m \in Connections \X Numbers : m[2] \in Missed(m[1])}
<1>1. \A c \in Connections : Gap(c) = Missed(c)
  BY GapsAreMissed DEF Evicted
<1>2. \A c \in Connections : Gap(c) \subseteq Numbers
  <2> SUFFICES ASSUME NEW c \in Connections, NEW n \in Gap(c) PROVE n \in Numbers
    OBVIOUS
  <2>1. Front(c) \in 0..MaxPublished /\ since[c] \in 1..(MaxPublished + 1)
    BY FrontType DEF Base, TypeOK
  <2>2. n \in since[c]..Front(c)
    BY DEF Gap, Lacking
  <2>3. QED
    BY <2>1, <2>2, BroadcasterAssumption DEF Numbers
<1>3. ASSUME NEW m \in Lost PROVE m \in M
  <2>1. m \in Connections \X Int /\ m[1] \in Connections /\ m[2] \in Gap(m[1])
    BY <1>3 DEF Lost
  <2>2. m[2] \in Numbers /\ m[2] \in Missed(m[1])
    BY <1>1, <1>2, <2>1
  <2>3. QED
    BY <2>1, <2>2
<1>4. ASSUME NEW m \in M PROVE m \in Lost
  <2>1. m \in Connections \X Numbers /\ m[1] \in Connections /\ m[2] \in Missed(m[1])
    BY <1>4
  <2>2. m[2] \in Gap(m[1]) /\ Numbers \subseteq Int
    BY <1>1, <2>1, Sequences_in_place DEF Base
  <2>3. QED
    BY <2>1, <2>2 DEF Lost
<1>5. Lost = M
  BY <1>3, <1>4
<1>6. QED
  BY <1>5 DEF DropsInHand

(* dropped_events() is exactly how many events connections were due and     *)
(* lost, whoever takes from a full queue between the failed put and the      *)
(* eviction.                                                               *)
THEOREM DropsCounted == Spec => []DropsAreCounted
<1>1. Init => Base /\ StreamsInHand /\ SecondPutFindsRoom /\ DropsInHand
  BY BaseInit, StreamsInit, DropsInit DEF Base, Init, SecondPutFindsRoom
<1>2. QED
  BY <1>1, BaseStep, RoomStep, StreamsStep, DropsStep, Fronts, FrontsAfter, DropsCount, PTL
     DEF Spec
=============================================================================
