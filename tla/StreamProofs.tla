---------------------------- MODULE StreamProofs ----------------------------
(* Theorems about Stream: they hold for every set of clients, stuck or not,  *)
(* every cap and length of the queues, and any number of snapshots.         *)
EXTENDS Stream, SequenceTheorems, FiniteSetTheorems, TLAPS

-----------------------------------------------------------------------------
(* The inductive invariant.                                                 *)

\* What may come before what on a connection resynchronised with r.
Before(a, b, r) == a < b \/ (a = b /\ a = r)

\* A snapshot on its way has been published, or is the one the connection was
\* resynchronised with; m is the newest gathered, p the newest published.
Known(n, m, p, r) == n \in 1 .. m /\ (n <= p \/ n = r)

\* The queue q, the snapshot h in hand and the one shown, s, each before the
\* next.
Order(q, h, s, m, p, r) ==
  /\ \A i \in 1 .. Len(q) : Known(q[i], m, p, r)
  /\ h # 0 => Known(h, m, p, r)
  /\ s # 0 => Known(s, m, p, r)
  /\ \A i, j \in 1 .. Len(q) : i < j => Before(q[i], q[j], r)
  /\ h # 0 => \A i \in 1 .. Len(q) : Before(h, q[i], r)
  /\ s # 0 => \A i \in 1 .. Len(q) : Before(s, q[i], r)
  /\ s # 0 /\ h # 0 => Before(s, h, r)

\* The newest snapshot shown or on its way.
Latest(q, h, s) == IF q # <<>> THEN q[Len(q)] ELSE IF h # 0 THEN h ELSE s

\* The types, with the cycle: between the gathering and the publication there
\* is a snapshot to publish.
CycleInv ==
  /\ phase \in {"sleep", "persist", "gates", "closed"}
  /\ made \in Nat /\ published \in 0 .. made
  /\ phase \in {"persist", "gates"} => published < made
  /\ subs \subseteq here /\ here \subseteq Client
  /\ queue \in [Client -> Seq(Nat)] /\ hand \in [Client -> Nat]
  /\ seen \in [Client -> Nat] /\ resync \in [Client -> 0 .. made]

OrderInv(c) == Order(queue[c], hand[c], seen[c], made, published, resync[c])

StreamInv ==
  /\ CycleInv
  /\ \A c \in here : OrderInv(c)
  /\ \A c \in Client \ here : queue[c] = <<>> /\ hand[c] = 0 /\ seen[c] = 0
  /\ \A c \in subs : Latest(queue[c], hand[c], seen[c]) >= published

-----------------------------------------------------------------------------
(* The queues.                                                              *)

\* Enqueue appends, after it has dropped the oldest of a full queue.
LEMMA Enqueued ==
  ASSUME NEW q \in Seq(Nat), NEW n \in Nat
  PROVE  /\ Enqueue(q, n) \in Seq(Nat)
         /\ Enqueue(q, n) # <<>>
         /\ Enqueue(q, n)[Len(Enqueue(q, n))] = n
         /\ \E d \in {0, 1} :
              /\ d <= Len(q)
              /\ Len(Enqueue(q, n)) = Len(q) - d + 1
              /\ \A i \in 1 .. Len(q) - d : Enqueue(q, n)[i] = q[i + d]
<1>1. CASE Len(q) = QUEUE_MAXLEN
  <2>1. q # <<>> /\ Tail(q) \in Seq(Nat) /\ Len(Tail(q)) = Len(q) - 1
    BY <1>1, StreamAssumption
  <2>2. \A i \in 1 .. Len(q) - 1 : Tail(q)[i] = q[i + 1]
    BY <2>1
  <2>3. Enqueue(q, n) = Append(Tail(q), n)
    BY <1>1 DEF Enqueue
  <2>4. /\ Append(Tail(q), n) \in Seq(Nat)
        /\ Len(Append(Tail(q), n)) = Len(q)
        /\ \A i \in 1 .. Len(q) - 1 : Append(Tail(q), n)[i] = q[i + 1]
        /\ Append(Tail(q), n)[Len(q)] = n
    BY <2>1, <2>2
  <2>5. /\ 1 <= Len(q) /\ Len(Enqueue(q, n)) = Len(q) - 1 + 1
        /\ \A i \in 1 .. Len(q) - 1 : Enqueue(q, n)[i] = q[i + 1]
    BY <2>1, <2>3, <2>4
  <2>6. /\ Enqueue(q, n) \in Seq(Nat) /\ Enqueue(q, n) # <<>>
        /\ Enqueue(q, n)[Len(Enqueue(q, n))] = n
    BY <2>1, <2>3, <2>4
  <2> QED
    BY <2>5, <2>6
<1>2. CASE Len(q) # QUEUE_MAXLEN
  <2>1. Enqueue(q, n) = Append(q, n)
    BY <1>2 DEF Enqueue
  <2>2. /\ Append(q, n) \in Seq(Nat) /\ Append(q, n) # <<>>
        /\ Len(Append(q, n)) = Len(q) - 0 + 1
        /\ Append(q, n)[Len(Append(q, n))] = n
        /\ \A i \in 1 .. Len(q) - 0 : Append(q, n)[i] = q[i + 0]
    OBVIOUS
  <2> QED
    BY <2>1, <2>2
<1> QED
  BY <1>1, <1>2

-----------------------------------------------------------------------------
(* What each operation does to one connection.                              *)

\* More gathered, more published: the order of a connection is not disturbed.
LEMMA OrderKept ==
  ASSUME NEW q \in Seq(Nat), NEW h \in Nat, NEW s \in Nat, NEW r \in Nat,
         NEW m \in Nat, NEW p \in Nat, NEW m2 \in Nat, NEW p2 \in Nat,
         Order(q, h, s, m, p, r), m <= m2, p <= p2
  PROVE  Order(q, h, s, m2, p2, r)
<1>1. ASSUME NEW n \in Nat, Known(n, m, p, r) PROVE Known(n, m2, p2, r)
  BY <1>1 DEF Known
<1>2. \A i \in 1 .. Len(q) : q[i] \in Nat
  OBVIOUS
<1> QED
  BY <1>1, <1>2 DEF Order

\* The publication appends the newest snapshot, after everything on its way.
LEMMA OrderPublished ==
  ASSUME NEW q \in Seq(Nat), NEW h \in Nat, NEW s \in Nat, NEW r \in Nat,
         NEW m \in Nat, NEW p \in Nat,
         Order(q, h, s, m, p, r), p < m, r <= m
  PROVE  Order(Enqueue(q, m), h, s, m, m, r)
<1> DEFINE e == Enqueue(q, m)
<1>1. ASSUME NEW n \in Nat, Known(n, m, p, r)
      PROVE  Known(n, m, m, r) /\ Before(n, m, r)
  BY <1>1 DEF Known, Before
<1>2. e \in Seq(Nat) /\ e # <<>> /\ e[Len(e)] = m
  BY Enqueued
<1>3. PICK d \in {0, 1} :
        /\ d <= Len(q) /\ Len(e) = Len(q) - d + 1
        /\ \A i \in 1 .. Len(q) - d : e[i] = q[i + d]
  BY Enqueued
<1> HIDE DEF e
<1>4. Len(e) \in Nat /\ Len(q) \in Nat /\ d \in Nat
  BY <1>2
<1>5. ASSUME NEW i \in 1 .. Len(e), i # Len(e)
      PROVE  i < Len(e) /\ i + d \in 1 .. Len(q) /\ e[i] = q[i + d]
  <2>1. i \in 1 .. Len(q) - d /\ i < Len(e) /\ i + d \in 1 .. Len(q)
    BY <1>3, <1>4, <1>5
  <2> QED
    BY <1>3, <2>1
<1>6. ASSUME NEW i \in 1 .. Len(q)
      PROVE  q[i] \in Nat /\ Known(q[i], m, m, r) /\ Before(q[i], m, r)
  BY <1>1 DEF Order
<1>7. Known(m, m, m, r)
  BY <1>3 DEF Known, Order
<1>8. \A i \in 1 .. Len(e) : Known(e[i], m, m, r)
  BY <1>2, <1>5, <1>6, <1>7
<1>9. /\ h # 0 => Known(h, m, m, r) /\ Before(h, m, r)
      /\ s # 0 => Known(s, m, m, r) /\ Before(s, m, r)
  BY <1>1 DEF Order
<1>10. ASSUME NEW i \in 1 .. Len(e), NEW j \in 1 .. Len(e), i < j
       PROVE  Before(e[i], e[j], r)
  <2>1. i # Len(e) /\ i \in Nat /\ j \in Nat
    BY <1>4, <1>10
  <2>2. i + d \in 1 .. Len(q) /\ e[i] = q[i + d]
    BY <1>5, <2>1
  <2>3. CASE j = Len(e)
    BY <1>2, <1>6, <2>2, <2>3
  <2>4. CASE j # Len(e)
    <3>1. j + d \in 1 .. Len(q) /\ e[j] = q[j + d]
      BY <1>5, <2>4
    <3>2. i + d < j + d
      BY <1>4, <1>10, <2>1
    <3> QED
      BY <2>2, <3>1, <3>2 DEF Order
  <2> QED
    BY <2>3, <2>4
<1>11. /\ h # 0 => \A i \in 1 .. Len(e) : Before(h, e[i], r)
       /\ s # 0 => \A i \in 1 .. Len(e) : Before(s, e[i], r)
  BY <1>2, <1>5, <1>9 DEF Order
<1>12. Order(e, h, s, m, m, r)
  BY <1>8, <1>9, <1>10, <1>11 DEF Order
<1> QED
  BY <1>12 DEF e

\* The oldest snapshot of the queue is taken in hand.
LEMMA OrderTaken ==
  ASSUME NEW q \in Seq(Nat), NEW s \in Nat, NEW r \in Nat,
         NEW m \in Nat, NEW p \in Nat,
         Order(q, 0, s, m, p, r), q # <<>>
  PROVE  /\ Order(Tail(q), Head(q), s, m, p, r)
         /\ Latest(Tail(q), Head(q), s) = Latest(q, 0, s)
<1>1. /\ Tail(q) \in Seq(Nat) /\ Len(Tail(q)) = Len(q) - 1
      /\ Head(q) = q[1] /\ Len(q) \in Nat \ {0}
      /\ \A i \in 1 .. Len(q) - 1 : Tail(q)[i] = q[i + 1]
  OBVIOUS
<1>2. Known(q[1], m, p, r) /\ q[1] # 0
  BY <1>1 DEF Order, Known
<1>3. \A i \in 1 .. Len(q) - 1 : i + 1 \in 1 .. Len(q) /\ 1 < i + 1
  BY <1>1
<1>4. \A i \in 1 .. Len(Tail(q)) :
        Known(Tail(q)[i], m, p, r) /\ Before(Head(q), Tail(q)[i], r)
  BY <1>1, <1>3 DEF Order
<1>5. s # 0 => /\ Before(s, Head(q), r)
               /\ \A i \in 1 .. Len(Tail(q)) : Before(s, Tail(q)[i], r)
  BY <1>1, <1>3 DEF Order
<1>6. \A i, j \in 1 .. Len(Tail(q)) : i < j => Before(Tail(q)[i], Tail(q)[j], r)
  BY <1>1, <1>3 DEF Order
<1>7. Order(Tail(q), Head(q), s, m, p, r)
  BY <1>1, <1>2, <1>4, <1>5, <1>6 DEF Order
<1>8. Latest(Tail(q), Head(q), s) = Latest(q, 0, s)
  <2>1. CASE Len(q) = 1
    <3>1. \A t \in Seq(Nat) : t # <<>> => Len(t) # 0
      BY EmptySeq
    <3>2. Tail(q) \in Seq(Nat) /\ Len(Tail(q)) = 0
      BY <1>1, <2>1
    <3>3. Tail(q) = <<>>
      BY ONLY <3>1, <3>2
    <3> QED
      BY <1>1, <1>2, <2>1, <3>3 DEF Latest
  <2>2. CASE Len(q) # 1
    <3>1. Len(q) - 1 \in 1 .. (Len(q) - 1) /\ (Len(q) - 1) + 1 = Len(q)
      BY <1>1, <2>2
    <3>2. Len(Tail(q)) # 0 /\ Len(Tail(q)) = Len(q) - 1
      BY <1>1, <2>2
    <3>3. Tail(q)[Len(q) - 1] = q[Len(q)]
      BY <1>1, <3>1
    <3>4. Tail(q) # <<>>
      BY <1>1, <3>2, EmptySeq
    <3> QED
      BY <3>2, <3>3, <3>4 DEF Latest
  <2> QED
    BY <2>1, <2>2
<1> QED
  BY <1>7, <1>8

\* The one in hand is shown.
LEMMA OrderSent ==
  ASSUME NEW q \in Seq(Nat), NEW h \in Nat, NEW s \in Nat, NEW r \in Nat,
         NEW m \in Nat, NEW p \in Nat,
         Order(q, h, s, m, p, r), h # 0
  PROVE  Order(q, 0, h, m, p, r) /\ Latest(q, 0, h) = Latest(q, h, s)
BY DEF Order, Latest

\* A new connection has nothing, or the latest snapshot alone.
LEMMA OrderConnected ==
  ASSUME NEW m \in Nat, NEW p \in 0 .. m
  PROVE  LET q == IF m = 0 THEN <<>> ELSE <<m>>
         IN  /\ q \in Seq(Nat) /\ Order(q, 0, 0, m, p, m)
             /\ Latest(q, 0, 0) >= p
<1>1. CASE m = 0
  BY <1>1 DEF Order, Latest
<1>2. CASE m # 0
  <2>1. <<m>> \in Seq(Nat) /\ Len(<<m>>) = 1 /\ <<m>>[1] = m /\ <<m>> # <<>>
    OBVIOUS
  <2> QED
    BY <1>2, <2>1 DEF Order, Latest, Known
<1> QED
  BY <1>1, <1>2

-----------------------------------------------------------------------------
(* The steps.                                                               *)

LEMMA InitialStream == Init => StreamInv
BY DEF Init, StreamInv, CycleInv

\* A step that leaves the connections alone.
LEMMA CollectorStep ==
  ASSUME StreamInv, UNCHANGED clients,
         phase' \in {"sleep", "persist", "gates", "closed"},
         made' \in Nat, made <= made', published' = published,
         phase' \in {"persist", "gates"} => published' < made'
  PROVE  StreamInv'
<1>1. CycleInv'
  BY DEF StreamInv, CycleInv, clients
<1>2. ASSUME NEW c \in here PROVE OrderInv(c)'
  <2>1. /\ c \in Client /\ queue[c] \in Seq(Nat) /\ hand[c] \in Nat /\ seen[c] \in Nat
        /\ resync[c] \in Nat /\ made \in Nat /\ published \in Nat
        /\ Order(queue[c], hand[c], seen[c], made, published, resync[c])
    BY <1>2 DEF StreamInv, CycleInv, OrderInv
  <2>2. made' \in Nat /\ published' \in Nat /\ made <= made' /\ published <= published'
    BY <2>1
  <2>3. Order(queue[c], hand[c], seen[c], made', published', resync[c])
    BY ONLY <2>1, <2>2, OrderKept
  <2> QED
    BY <2>3 DEF OrderInv, clients
<1> QED
  BY <1>1, <1>2 DEF StreamInv, clients

LEMMA PublishStep == StreamInv /\ Publish => StreamInv'
<1> SUFFICES ASSUME StreamInv, Publish PROVE StreamInv'
  OBVIOUS
<1>1. /\ CycleInv /\ published < made /\ made \in Nat /\ published \in Nat
      /\ published' = made /\ phase' = "sleep"
      /\ UNCHANGED <<made, subs, hand, seen, here, resync>>
  BY DEF StreamInv, CycleInv, Publish
<1>2. queue' \in [Client -> Seq(Nat)]
  BY <1>1, Enqueued DEF Publish, CycleInv
<1>3. CycleInv'
  BY <1>1, <1>2 DEF CycleInv
<1>4. ASSUME NEW c \in here
      PROVE  /\ c \in Client /\ queue[c] \in Seq(Nat) /\ hand[c] \in Nat
             /\ seen[c] \in Nat /\ resync[c] \in 0 .. made
             /\ Order(queue[c], hand[c], seen[c], made, published, resync[c])
             /\ queue'[c] = IF c \in subs THEN Enqueue(queue[c], made) ELSE queue[c]
  BY <1>1, <1>4 DEF StreamInv, CycleInv, OrderInv, Publish
<1>5. ASSUME NEW c \in here PROVE OrderInv(c)'
  <2>1. Order(queue'[c], hand[c], seen[c], made, made, resync[c])
    <3>1. CASE c \in subs
      BY <1>1, <1>4, <3>1, OrderPublished
    <3>2. CASE c \notin subs
      <4>1. /\ queue[c] \in Seq(Nat) /\ hand[c] \in Nat /\ seen[c] \in Nat
            /\ resync[c] \in Nat /\ made \in Nat /\ published \in Nat
            /\ made <= made /\ published <= made
            /\ Order(queue[c], hand[c], seen[c], made, published, resync[c])
        BY <1>1, <1>4, <1>5
      <4>2. Order(queue[c], hand[c], seen[c], made, made, resync[c])
        BY ONLY <4>1, OrderKept
      <4> QED
        BY <1>4, <1>5, <3>2, <4>2
    <3> QED
      BY <3>1, <3>2
  <2> QED
    BY <1>1, <2>1 DEF OrderInv
<1>6. ASSUME NEW c \in subs
      PROVE  Latest(queue'[c], hand[c], seen[c]) >= published'
  BY <1>1, <1>4, <1>6, Enqueued DEF CycleInv, Latest
<1>7. ASSUME NEW c \in Client \ here
      PROVE  queue'[c] = <<>> /\ hand[c] = 0 /\ seen[c] = 0
  BY <1>1, <1>7 DEF StreamInv, CycleInv, Publish
<1> QED
  BY <1>1, <1>3, <1>5, <1>6, <1>7 DEF StreamInv

\* A step of one connection that stays leaves what it has on its way in order.
LEMMA ConnectionStep ==
  ASSUME StreamInv, UNCHANGED collector, NEW c \in Client,
         CycleInv', here' = here \cup {c}, subs' \subseteq subs \cup {c},
         OrderInv(c)',
         c \in subs' => Latest(queue'[c], hand'[c], seen'[c]) >= published,
         \A d \in Client \ {c} : /\ queue'[d] = queue[d] /\ hand'[d] = hand[d]
                                 /\ seen'[d] = seen[d] /\ resync'[d] = resync[d]
  PROVE  StreamInv'
<1>1. made' = made /\ published' = published /\ here \subseteq Client /\ subs \subseteq here
  BY DEF collector, StreamInv, CycleInv
<1>2. ASSUME NEW d \in here' PROVE OrderInv(d)'
  BY <1>1, <1>2 DEF StreamInv, OrderInv
<1> QED
  BY <1>1, <1>2 DEF StreamInv

LEMMA ConnectStep ==
  ASSUME StreamInv, NEW c \in Client, Connect(c) PROVE StreamInv'
<1> DEFINE q == IF made = 0 THEN <<>> ELSE <<made>>
<1>1. /\ CycleInv /\ made \in Nat /\ published \in 0 .. made /\ UNCHANGED collector
      /\ made' = made /\ published' = published
      /\ hand[c] = 0 /\ seen[c] = 0 /\ UNCHANGED <<hand, seen>>
      /\ subs' = subs \cup {c} /\ here' = here \cup {c}
      /\ queue' = [queue EXCEPT ![c] = q] /\ resync' = [resync EXCEPT ![c] = made]
  BY DEF StreamInv, CycleInv, Connect, collector
<1>2. q \in Seq(Nat) /\ Order(q, 0, 0, made, published, made) /\ Latest(q, 0, 0) >= published
  BY <1>1, OrderConnected
<1> HIDE DEF q
<1>3. /\ queue' \in [Client -> Seq(Nat)] /\ queue'[c] = q
      /\ resync' \in [Client -> 0 .. made] /\ resync'[c] = made
  BY <1>1, <1>2 DEF CycleInv
<1>4. CycleInv'
  BY <1>1, <1>3 DEF CycleInv, collector
<1>5. OrderInv(c)'
  BY <1>1, <1>2, <1>3 DEF OrderInv
<1>6. \A d \in Client \ {c} : /\ queue'[d] = queue[d] /\ hand'[d] = hand[d]
                              /\ seen'[d] = seen[d] /\ resync'[d] = resync[d]
  BY <1>1 DEF CycleInv
<1> QED
  BY <1>1, <1>2, <1>3, <1>4, <1>5, <1>6, ConnectionStep

LEMMA TakeStep ==
  ASSUME StreamInv, NEW c \in Client, Take(c) PROVE StreamInv'
<1>1. /\ CycleInv /\ UNCHANGED collector /\ made' = made /\ published' = published
      /\ c \in here /\ hand[c] = 0 /\ queue[c] # <<>> /\ queue[c] \in Seq(Nat)
      /\ seen[c] \in Nat /\ resync[c] \in Nat /\ made \in Nat /\ published \in Nat
      /\ UNCHANGED <<seen, resync, subs, here>>
      /\ queue' = [queue EXCEPT ![c] = Tail(@)]
      /\ hand' = [hand EXCEPT ![c] = Head(queue[c])]
  BY DEF StreamInv, CycleInv, Take, collector
<1>2. /\ Tail(queue[c]) \in Seq(Nat) /\ Head(queue[c]) \in Nat
      /\ Order(queue[c], 0, seen[c], made, published, resync[c])
  BY <1>1 DEF StreamInv, OrderInv
<1>3. /\ queue' \in [Client -> Seq(Nat)] /\ queue'[c] = Tail(queue[c])
      /\ hand' \in [Client -> Nat] /\ hand'[c] = Head(queue[c])
  BY <1>1, <1>2 DEF CycleInv
<1>4. CycleInv'
  BY <1>1, <1>3 DEF CycleInv, collector
<1>5. /\ Order(Tail(queue[c]), Head(queue[c]), seen[c], made, published, resync[c])
      /\ Latest(Tail(queue[c]), Head(queue[c]), seen[c]) = Latest(queue[c], 0, seen[c])
  BY <1>1, <1>2, OrderTaken
<1>6. OrderInv(c)'
  BY <1>1, <1>3, <1>5 DEF OrderInv
<1>7. c \in subs' => Latest(queue'[c], hand'[c], seen'[c]) >= published
  BY <1>1, <1>3, <1>5 DEF StreamInv
<1>8. \A d \in Client \ {c} : /\ queue'[d] = queue[d] /\ hand'[d] = hand[d]
                              /\ seen'[d] = seen[d] /\ resync'[d] = resync[d]
  BY <1>1 DEF CycleInv
<1> QED
  BY <1>1, <1>4, <1>6, <1>7, <1>8, ConnectionStep

LEMMA SendStep ==
  ASSUME StreamInv, NEW c \in Client, Send(c) PROVE StreamInv'
<1>1. /\ CycleInv /\ UNCHANGED collector /\ made' = made /\ published' = published
      /\ c \in here /\ hand[c] # 0 /\ hand[c] \in Nat /\ queue[c] \in Seq(Nat)
      /\ seen[c] \in Nat /\ resync[c] \in Nat /\ made \in Nat /\ published \in Nat
      /\ UNCHANGED <<queue, resync, subs, here>>
      /\ seen' = [seen EXCEPT ![c] = hand[c]] /\ hand' = [hand EXCEPT ![c] = 0]
  BY DEF StreamInv, CycleInv, Send, collector
<1>2. Order(queue[c], hand[c], seen[c], made, published, resync[c])
  BY <1>1 DEF StreamInv, OrderInv
<1>3. /\ seen' \in [Client -> Nat] /\ seen'[c] = hand[c]
      /\ hand' \in [Client -> Nat] /\ hand'[c] = 0
  BY <1>1 DEF CycleInv
<1>4. CycleInv'
  BY <1>1, <1>3 DEF CycleInv, collector
<1>5. /\ Order(queue[c], 0, hand[c], made, published, resync[c])
      /\ Latest(queue[c], 0, hand[c]) = Latest(queue[c], hand[c], seen[c])
  BY <1>1, <1>2, OrderSent
<1>6. OrderInv(c)'
  BY <1>1, <1>3, <1>5 DEF OrderInv
<1>7. c \in subs' => Latest(queue'[c], hand'[c], seen'[c]) >= published
  BY <1>1, <1>3, <1>5 DEF StreamInv
<1>8. \A d \in Client \ {c} : /\ queue'[d] = queue[d] /\ hand'[d] = hand[d]
                              /\ seen'[d] = seen[d] /\ resync'[d] = resync[d]
  BY <1>1 DEF CycleInv
<1> QED
  BY <1>1, <1>4, <1>6, <1>7, <1>8, ConnectionStep

LEMMA DisconnectStep ==
  ASSUME StreamInv, NEW c \in Client, Disconnect(c) PROVE StreamInv'
<1>1. /\ CycleInv /\ UNCHANGED collector /\ made' = made /\ published' = published
      /\ here' = here \ {c} /\ subs' = subs \ {c}
      /\ queue' = [queue EXCEPT ![c] = <<>>] /\ resync' = [resync EXCEPT ![c] = 0]
      /\ hand' = [hand EXCEPT ![c] = 0] /\ seen' = [seen EXCEPT ![c] = 0]
  BY DEF StreamInv, Disconnect, Forget, collector
<1>2. <<>> \in Seq(Nat) /\ 0 \in Nat /\ 0 \in 0 .. made
  BY <1>1 DEF CycleInv
<1>3. /\ queue' \in [Client -> Seq(Nat)] /\ resync' \in [Client -> 0 .. made]
      /\ hand' \in [Client -> Nat] /\ seen' \in [Client -> Nat]
  BY <1>1, <1>2 DEF CycleInv
<1>4. CycleInv'
  BY <1>1, <1>3 DEF CycleInv, collector
<1>5. \A d \in Client \ {c} : /\ queue'[d] = queue[d] /\ hand'[d] = hand[d]
                              /\ seen'[d] = seen[d] /\ resync'[d] = resync[d]
  BY <1>1 DEF CycleInv
<1>6. queue'[c] = <<>> /\ hand'[c] = 0 /\ seen'[c] = 0
  BY <1>1 DEF CycleInv
<1>7. here \subseteq Client /\ subs \subseteq Client
  BY <1>1 DEF CycleInv
<1>8. ASSUME NEW d \in here' PROVE OrderInv(d)'
  BY <1>1, <1>5, <1>7, <1>8 DEF StreamInv, OrderInv
<1>9. ASSUME NEW d \in Client \ here'
      PROVE  queue'[d] = <<>> /\ hand'[d] = 0 /\ seen'[d] = 0
  BY <1>1, <1>5, <1>6, <1>9 DEF StreamInv
<1>10. ASSUME NEW d \in subs' PROVE Latest(queue'[d], hand'[d], seen'[d]) >= published'
  BY <1>1, <1>5, <1>7, <1>10 DEF StreamInv
<1> QED
  BY <1>4, <1>8, <1>9, <1>10 DEF StreamInv

\* The invariant holds of every behaviour.
LEMMA StreamInvariant == Spec => []StreamInv
<1>1. StreamInv /\ [Next]_vars => StreamInv'
  <2> SUFFICES ASSUME StreamInv, [Next]_vars PROVE StreamInv'
    OBVIOUS
  <2>1. CASE Gather
    BY <2>1, CollectorStep DEF Gather, StreamInv, CycleInv
  <2>2. CASE Persist
    BY <2>2, CollectorStep DEF Persist, StreamInv, CycleInv
  <2>3. CASE PersistFails
    BY <2>3, CollectorStep DEF PersistFails, StreamInv, CycleInv
  <2>4. CASE Publish
    BY <2>4, PublishStep
  <2>5. CASE Close
    <3>1. CycleInv'
      BY <2>5 DEF Close, StreamInv, CycleInv
    <3> QED
      BY <2>5, <3>1 DEF Close, StreamInv, OrderInv
  <2>6. ASSUME NEW c \in Client, Connect(c) \/ HandlerNext(c) \/ Disconnect(c)
        PROVE  StreamInv'
    BY <2>6, ConnectStep, TakeStep, SendStep, DisconnectStep DEF HandlerNext
  <2>7. CASE UNCHANGED vars
    <3>1. UNCHANGED clients /\ UNCHANGED collector /\ phase' = phase
      BY <2>7 DEF vars, clients, collector
    <3> QED
      BY <2>7, <3>1, CollectorStep DEF StreamInv, CycleInv, collector
  <2> QED
    BY <2>1, <2>2, <2>3, <2>4, <2>5, <2>6, <2>7 DEF Next, CollectorNext
<1> QED
  BY <1>1, InitialStream, PTL DEF Spec

-----------------------------------------------------------------------------
(* What it is for.                                                          *)

\* The cap on the subscribers and the length of the queues hold whatever the
\* number of browsers and however long they stay (subscribe and _enqueue of
\* broker.py).
THEOREM BoundsHold == Spec => []TypeOK
<1> DEFINE Bounds == IsFiniteSet(subs) /\ TypeOK
<1>1. Init => Bounds
  BY FS_EmptySet, StreamAssumption DEF Init, TypeOK
<1>2. Bounds /\ StreamInv /\ [Next]_vars => Bounds'
  <2> SUFFICES ASSUME Bounds, StreamInv, [Next]_vars PROVE Bounds'
    OBVIOUS
  <2>1. CycleInv /\ QUEUE_MAXLEN \in Nat \ {0} /\ MAX_SUBSCRIBERS \in Nat \ {0} /\ MaxSnapshots \in Nat
    BY StreamAssumption DEF StreamInv
  <2>2. CASE Gather \/ Persist \/ PersistFails \/ UNCHANGED vars
    BY <2>1, <2>2 DEF Gather, Persist, PersistFails, vars, collector, clients, TypeOK
  <2>3. CASE Publish
    <3>1. ASSUME NEW c \in Client PROVE Len(queue'[c]) <= QUEUE_MAXLEN
      <4>1. queue[c] \in Seq(Nat) /\ Len(queue[c]) <= QUEUE_MAXLEN /\ made \in Nat
        BY <2>1 DEF CycleInv, TypeOK
      <4>2. Len(Enqueue(queue[c], made)) <= QUEUE_MAXLEN
        BY <2>1, <4>1 DEF Enqueue
      <4> QED
        BY <2>3, <4>1, <4>2 DEF Publish
    <3> QED
      BY <2>1, <2>3, <3>1 DEF Publish, TypeOK, CycleInv
  <2>4. CASE Close
    BY <2>1, <2>4, FS_EmptySet DEF Close, TypeOK
  <2>5. ASSUME NEW c \in Client, Connect(c) PROVE Bounds'
    <3>1. c \notin subs /\ IsFiniteSet(subs \cup {c}) /\ Cardinality(subs \cup {c}) = Cardinality(subs) + 1
      BY <2>5, FS_AddElement DEF Connect, TypeOK
    <3>2. Cardinality(subs) \in Nat /\ Cardinality(subs) < MAX_SUBSCRIBERS
      BY <2>5, FS_CardinalityType DEF Connect
    <3>3. ASSUME NEW d \in Client PROVE Len(queue'[d]) <= QUEUE_MAXLEN
      BY <2>1, <2>5, <3>3 DEF Connect, TypeOK, CycleInv
    <3>4. subs' \subseteq here' /\ here' \subseteq Client /\ subs' = subs \cup {c} /\ UNCHANGED collector
      BY <2>5 DEF Connect, TypeOK
    <3> QED
      BY <2>1, <3>1, <3>2, <3>3, <3>4 DEF TypeOK, collector
  <2>6. ASSUME NEW c \in Client, Take(c) PROVE Bounds'
    <3>1. ASSUME NEW d \in Client PROVE Len(queue'[d]) <= QUEUE_MAXLEN
      <4>1. queue[c] \in Seq(Nat) /\ queue[c] # <<>> /\ Len(queue[c]) <= QUEUE_MAXLEN
        BY <2>1, <2>6 DEF Take, TypeOK, CycleInv
      <4>2. Len(Tail(queue[c])) <= QUEUE_MAXLEN
        BY <2>1, <4>1
      <4> QED
        BY <2>1, <2>6, <4>2 DEF Take, TypeOK, CycleInv
    <3> QED
      BY <2>6, <3>1 DEF Take, TypeOK, collector
  <2>7. ASSUME NEW c \in Client, Send(c) PROVE Bounds'
    BY <2>7 DEF Send, TypeOK, collector
  <2>8. ASSUME NEW c \in Client, Disconnect(c) PROVE Bounds'
    <3>1. /\ IsFiniteSet(subs \ {c}) /\ Cardinality(subs) \in Nat
          /\ Cardinality(subs \ {c}) \in Nat
          /\ Cardinality(subs \ {c}) <= Cardinality(subs)
      <4>1. IsFiniteSet(subs) /\ IsFiniteSet(subs \ {c})
        BY FS_RemoveElement
      <4>2. Cardinality(subs) \in Nat /\ Cardinality(subs \ {c}) \in Nat
        BY <4>1, FS_CardinalityType
      <4>3. \/ Cardinality(subs \ {c}) = Cardinality(subs)
            \/ Cardinality(subs \ {c}) = Cardinality(subs) - 1
        BY <4>1, FS_RemoveElement
      <4> QED
        BY <4>1, <4>2, <4>3
    <3>2. ASSUME NEW d \in Client PROVE Len(queue'[d]) <= QUEUE_MAXLEN
      BY <2>1, <2>8 DEF Disconnect, Forget, TypeOK, CycleInv
    <3>3. /\ subs' \subseteq here' /\ here' \subseteq Client /\ subs' = subs \ {c}
          /\ UNCHANGED collector
      BY <2>8 DEF Disconnect, TypeOK
    <3>4. Cardinality(subs') <= MAX_SUBSCRIBERS
      BY <2>1, <3>1, <3>3 DEF TypeOK
    <3> QED
      BY <3>1, <3>2, <3>3, <3>4 DEF TypeOK, collector
  <2> QED
    BY <2>2, <2>3, <2>4, <2>5, <2>6, <2>7, <2>8 DEF Next, CollectorNext, HandlerNext
<1>3. Bounds => TypeOK
  OBVIOUS
<1> QED
  BY <1>1, <1>2, <1>3, StreamInvariant, PTL DEF Spec

\* What a connection has shown, is writing and will write is in order.
LEMMA PipelineOrdered ==
  ASSUME CycleInv, NEW c \in Client, OrderInv(c),
         NEW i \in 1 .. (Len(Pipeline(c)) - 1)
  PROVE  Before(Pipeline(c)[i], Pipeline(c)[i + 1], resync[c])
<1> DEFINE q == queue[c]  h == hand[c]  s == seen[c]
<1>1. q \in Seq(Nat) /\ h \in Nat /\ s \in Nat /\ Len(q) \in Nat
  BY DEF CycleInv
<1>2. /\ \A k, j \in 1 .. Len(q) : k < j => Before(q[k], q[j], resync[c])
      /\ h # 0 => \A k \in 1 .. Len(q) : Before(h, q[k], resync[c])
      /\ s # 0 => \A k \in 1 .. Len(q) : Before(s, q[k], resync[c])
      /\ s # 0 /\ h # 0 => Before(s, h, resync[c])
  BY DEF OrderInv, Order
<1>3. Pipeline(c) = (IF s = 0 THEN <<>> ELSE <<s>>) \o (IF h = 0 THEN <<>> ELSE <<h>>) \o q
  BY DEF Pipeline
<1> HIDE DEF q, h, s
<1>4. CASE s = 0 /\ h = 0
  <2>1. Pipeline(c) = q
    BY <1>1, <1>3, <1>4
  <2> QED
    BY <1>1, <1>2, <2>1
<1>5. CASE s # 0 /\ h = 0
  <2>1. /\ Len(Pipeline(c)) = Len(q) + 1 /\ Pipeline(c)[1] = s
        /\ \A k \in 1 .. Len(q) : Pipeline(c)[k + 1] = q[k]
    BY <1>1, <1>3, <1>5
  <2>2. i \in 1 .. Len(q) /\ Pipeline(c)[i + 1] = q[i]
    BY <1>1, <2>1
  <2>3. CASE i = 1
    BY <1>2, <1>5, <2>1, <2>2, <2>3
  <2>4. CASE i # 1
    <3>1. i - 1 \in 1 .. Len(q) /\ i - 1 < i /\ (i - 1) + 1 = i
      BY <1>1, <2>2, <2>4
    <3>2. Pipeline(c)[i] = q[i - 1]
      BY <2>1, <3>1
    <3> QED
      BY <1>2, <2>2, <3>1, <3>2
  <2> QED
    BY <2>3, <2>4
<1>6. CASE s = 0 /\ h # 0
  <2>1. /\ Len(Pipeline(c)) = Len(q) + 1 /\ Pipeline(c)[1] = h
        /\ \A k \in 1 .. Len(q) : Pipeline(c)[k + 1] = q[k]
    BY <1>1, <1>3, <1>6
  <2>2. i \in 1 .. Len(q) /\ Pipeline(c)[i + 1] = q[i]
    BY <1>1, <2>1
  <2>3. CASE i = 1
    BY <1>2, <1>6, <2>1, <2>2, <2>3
  <2>4. CASE i # 1
    <3>1. i - 1 \in 1 .. Len(q) /\ i - 1 < i /\ (i - 1) + 1 = i
      BY <1>1, <2>2, <2>4
    <3>2. Pipeline(c)[i] = q[i - 1]
      BY <2>1, <3>1
    <3> QED
      BY <1>2, <2>2, <3>1, <3>2
  <2> QED
    BY <2>3, <2>4
<1>7. CASE s # 0 /\ h # 0
  <2>1. /\ Len(Pipeline(c)) = Len(q) + 2 /\ Pipeline(c)[1] = s /\ Pipeline(c)[2] = h
        /\ \A k \in 1 .. Len(q) : Pipeline(c)[k + 2] = q[k]
    <3> DEFINE a == <<s>> \o <<h>>
    <3>1. a \in Seq(Nat) /\ Len(a) = 2 /\ a[1] = s /\ a[2] = h
      BY <1>1
    <3>2. Pipeline(c) = a \o q
      BY <1>3, <1>7
    <3> HIDE DEF a
    <3>3. /\ Len(a \o q) = Len(q) + 2
          /\ \A j \in 1 .. Len(q) + 2 : (a \o q)[j] = IF j <= 2 THEN a[j] ELSE q[j - 2]
      <4>1. /\ Len(a \o q) = Len(a) + Len(q)
            /\ \A j \in 1 .. Len(a) + Len(q) :
                 (a \o q)[j] = IF j <= Len(a) THEN a[j] ELSE q[j - Len(a)]
        BY <1>1, <3>1, ConcatProperties
      <4>2. Len(a) = 2 /\ Len(a) + Len(q) = Len(q) + 2
        BY <1>1, <3>1
      <4> QED
        BY <4>1, <4>2
    <3>4. (a \o q)[1] = s /\ (a \o q)[2] = h
      BY <1>1, <3>1, <3>3
    <3>5. ASSUME NEW k \in 1 .. Len(q) PROVE (a \o q)[k + 2] = q[k]
      BY <1>1, <3>3
    <3> QED
      BY <3>2, <3>3, <3>4, <3>5
  <2>2. CASE i = 1
    BY <1>2, <1>7, <2>1, <2>2
  <2>3. CASE i = 2
    <3>1. 1 \in 1 .. Len(q) /\ i + 1 = 1 + 2
      BY <1>1, <2>1, <2>3
    <3> QED
      BY <1>2, <1>7, <2>1, <2>3, <3>1
  <2>4. CASE i \notin {1, 2}
    <3>1. /\ i - 2 \in 1 .. Len(q) /\ i - 1 \in 1 .. Len(q) /\ i - 2 < i - 1
          /\ (i - 2) + 2 = i /\ (i - 1) + 2 = i + 1
      BY <1>1, <2>1, <2>4
    <3>2. Pipeline(c)[i] = q[i - 2] /\ Pipeline(c)[i + 1] = q[i - 1]
      BY <2>1, <3>1
    <3> QED
      BY <1>2, <3>1, <3>2
  <2> QED
    BY <2>2, <2>3, <2>4
<1> QED
  BY <1>4, <1>5, <1>6, <1>7

\* The newest of what a connection has shown and has on its way.
LEMMA PipelineNewest ==
  ASSUME CycleInv, NEW c \in Client
  PROVE  Newest(c) = Latest(queue[c], hand[c], seen[c])
<1> DEFINE q == queue[c]  h == hand[c]  s == seen[c]
<1>1. q \in Seq(Nat) /\ h \in Nat /\ s \in Nat /\ Len(q) \in Nat
  BY DEF CycleInv
<1>2. Pipeline(c) = (IF s = 0 THEN <<>> ELSE <<s>>) \o (IF h = 0 THEN <<>> ELSE <<h>>) \o q
  BY DEF Pipeline
<1> HIDE DEF q, h, s
<1> DEFINE a == (IF s = 0 THEN <<>> ELSE <<s>>) \o (IF h = 0 THEN <<>> ELSE <<h>>)
<1>3. /\ a \in Seq(Nat) /\ Len(a) \in Nat
      /\ (s = 0 /\ h = 0) => a = <<>>
      /\ h # 0 => a # <<>> /\ a[Len(a)] = h
      /\ (h = 0 /\ s # 0) => a # <<>> /\ a[Len(a)] = s
  BY <1>1
<1>4. Pipeline(c) = a \o q
  BY <1>2
<1> HIDE DEF a
<1>5. CASE q = <<>>
  <2>1. Pipeline(c) = a
    BY <1>3, <1>4, <1>5
  <2>2. Newest(c) = IF h # 0 THEN h ELSE s
    BY <1>1, <1>3, <2>1 DEF Newest
  <2> QED
    BY <1>5, <2>2 DEF Latest, q, h, s
<1>6. CASE q # <<>>
  <2>1. Len(q) \in 1 .. Len(q) /\ Len(a \o q) = Len(a) + Len(q)
    BY <1>1, <1>3, <1>6, EmptySeq
  <2>2. (a \o q)[Len(a) + Len(q)] = q[Len(q)] /\ a \o q # <<>>
    BY <1>1, <1>3, <2>1
  <2>3. Newest(c) = q[Len(q)]
    BY <1>4, <2>1, <2>2 DEF Newest
  <2> QED
    BY <1>6, <2>3 DEF Latest, q, h, s
<1> QED
  BY <1>5, <1>6

\* A browser never goes back in time, and sees twice only the snapshot it was
\* resynchronised with (api_stream of main.py, subscribe and _enqueue of
\* broker.py).
THEOREM NeverBackInTime == Spec => []InOrder
<1>1. StreamInv => InOrder
  BY PipelineOrdered DEF StreamInv, CycleInv, InOrder, Before
<1> QED
  BY <1>1, StreamInvariant, PTL

\* Whatever a full queue drops, the newest snapshot published is kept for
\* every subscriber (_enqueue of broker.py).
THEOREM TheNewestIsKept == Spec => []NewestKept
<1>1. StreamInv => NewestKept
  BY PipelineNewest DEF StreamInv, CycleInv, NewestKept
<1> QED
  BY <1>1, StreamInvariant, PTL

\* The handlers, the broker and its queues implement Feed: what a browser is
\* promised holds of what it is shown.
THEOREM StreamImplementsFeed == Spec => ImplementsFeed
<1>1. Init => F!Init
  BY DEF Init, F!Init
<1>2. StreamInv /\ [Next]_vars => [F!Next]_<<made, here, seen>>
  <2> SUFFICES ASSUME StreamInv, [Next]_vars PROVE [F!Next]_<<made, here, seen>>
    OBVIOUS
  <2>1. CASE Gather
    BY <2>1 DEF Gather, clients, F!Next, F!Make
  <2>2. CASE Persist \/ PersistFails \/ Publish \/ Close \/ UNCHANGED vars
    BY <2>2 DEF Persist, PersistFails, Publish, Close, clients, vars
  <2>3. ASSUME NEW c \in Client, Connect(c) PROVE [F!Next]_<<made, here, seen>>
    BY <2>3 DEF Connect, collector, F!Next, F!Join
  <2>4. ASSUME NEW c \in Client, Take(c) PROVE [F!Next]_<<made, here, seen>>
    BY <2>4 DEF Take, collector
  <2>5. ASSUME NEW c \in Client, Send(c) PROVE [F!Next]_<<made, here, seen>>
    <3>1. /\ c \in here /\ hand[c] # 0 /\ OrderInv(c) /\ hand[c] \in Nat
          /\ seen[c] \in Nat /\ resync[c] \in Nat /\ made \in Nat
      BY <2>5 DEF Send, StreamInv, CycleInv
    <3>2. hand[c] \in 1 .. made /\ hand[c] >= seen[c]
      BY <3>1 DEF OrderInv, Order, Known, Before
    <3> QED
      BY <2>5, <3>1, <3>2 DEF Send, collector, F!Next, F!Show
  <2>6. ASSUME NEW c \in Client, Disconnect(c) PROVE [F!Next]_<<made, here, seen>>
    BY <2>6 DEF Disconnect, Forget, collector, F!Next, F!Leave
  <2> QED
    BY <2>1, <2>2, <2>3, <2>4, <2>5, <2>6 DEF Next, CollectorNext, HandlerNext
<1> QED
  BY <1>1, <1>2, StreamInvariant, PTL DEF Spec, ImplementsFeed, F!Spec
=============================================================================
