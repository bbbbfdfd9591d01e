------------------------------- MODULE Stream -------------------------------
(***************************************************************************)
(* The live stream: Collector._cycle of raidwatch/collector.py publishes   *)
(* each snapshot through raidwatch/broker.py to the bounded queues of the  *)
(* SSE handlers, api_stream of raidwatch/main.py, which write to browsers. *)
(*                                                                         *)
(* Collector and handlers are tasks of one event loop: a step runs from    *)
(* one await to the next.  The broker's lock is never held across an       *)
(* await, so subscribe, unsubscribe and publish are each one step.         *)
(* Snapshots are numbered in the order they are gathered.                  *)
(***************************************************************************)
EXTENDS Naturals, Sequences, FiniteSets

CONSTANTS
  Client,           \* the SSE connections a browser may open
  Stuck,            \* those whose socket never drains
  MAX_SUBSCRIBERS,
  QUEUE_MAXLEN,
  PersistMayFail,   \* may the write of the metrics row raise?
  MaxSnapshots      \* bound: cycles of one behaviour

ASSUME StreamAssumption ==
  /\ Stuck \subseteq Client
  /\ MAX_SUBSCRIBERS \in Nat \ {0} /\ QUEUE_MAXLEN \in Nat \ {0}
  /\ PersistMayFail \in BOOLEAN
  /\ MaxSnapshots \in Nat

VARIABLES
  phase,      \* where the collector's cycle is
  made,       \* the newest snapshot, collector.latest; 0 is None
  published,  \* the newest snapshot handed to the broker
  subs,       \* broker._subscribers
  queue,      \* queue[c], the bounded queue of connection c
  hand,       \* the snapshot the handler is writing to its socket, or 0
  seen,       \* the last one written on this connection, or 0
  here,       \* connections whose handler runs
  resync      \* the snapshot enqueued at subscription

vars == <<phase, made, published, subs, queue, hand, seen, here, resync>>
collector == <<phase, made, published>>
clients == <<subs, queue, hand, seen, here, resync>>

Init ==
  /\ phase = "sleep" /\ made = 0 /\ published = 0
  /\ subs = {} /\ here = {}
  /\ queue = [c \in Client |-> <<>>]
  /\ hand = [c \in Client |-> 0] /\ seen = [c \in Client |-> 0]
  /\ resync = [c \in Client |-> 0]

-----------------------------------------------------------------------------
\* Keeps the queue and drops the new item instead.
Enqueue_DropNewest(q, n) == IF Len(q) = QUEUE_MAXLEN THEN q ELSE Append(q, n)

\* The newest goes first.
Enqueue_Front(q, n) ==
  <<n>> \o (IF Len(q) = QUEUE_MAXLEN THEN SubSeq(q, 1, Len(q) - 1) ELSE q)

\* Drop-oldest backpressure.
Enqueue(q, n) ==
  IF Len(q) = QUEUE_MAXLEN THEN Append(Tail(q), n) ELSE Append(q, n)

-----------------------------------------------------------------------------
(* The collector.                                                          *)

\* Gathering ends: latest is replaced before anything is written.
Gather ==
  /\ phase = "sleep" /\ made < MaxSnapshots
  /\ made' = made + 1 /\ phase' = "persist"
  /\ UNCHANGED <<published, clients>>

Persist ==
  /\ phase = "persist" /\ phase' = "gates"
  /\ UNCHANGED <<made, published, clients>>

\* The write raises: the cycle ends before the publication.
PersistFails ==
  /\ PersistMayFail
  /\ phase = "persist" /\ phase' = "sleep"
  /\ UNCHANGED <<made, published, clients>>

\* The publication waits for the slowest client.
Publish_WaitsForRoom ==
  /\ phase = "gates" /\ \A c \in subs : Len(queue[c]) < QUEUE_MAXLEN
  /\ published' = made /\ phase' = "sleep"
  /\ queue' = [c \in Client |-> IF c \in subs THEN Append(queue[c], made)
                                ELSE queue[c]]
  /\ UNCHANGED <<made, subs, hand, seen, here, resync>>

\* The gates have been evaluated, whatever came of it.
Publish ==
  /\ phase = "gates" /\ phase' = "sleep"
  /\ published' = made
  /\ queue' = [c \in Client |-> IF c \in subs THEN Enqueue(queue[c], made)
                                ELSE queue[c]]
  /\ UNCHANGED <<made, subs, hand, seen, here, resync>>

\* Shutdown, after the collector has stopped.
Close ==
  /\ phase = "sleep" /\ phase' = "closed"
  /\ subs' = {}
  /\ UNCHANGED <<made, published, queue, hand, seen, here, resync>>

-----------------------------------------------------------------------------
(* The SSE handlers.                                                       *)

\* A subscription with the latest snapshot first; beyond the cap subscribe
\* raises, the stream ends and nothing changes.
Connect(c) ==
  /\ c \notin here /\ phase # "closed"
  /\ Cardinality(subs) < MAX_SUBSCRIBERS
  /\ subs' = subs \cup {c} /\ here' = here \cup {c}
  /\ resync' = [resync EXCEPT ![c] = made]
  /\ queue' = [queue EXCEPT ![c] = IF made = 0 THEN <<>> ELSE <<made>>]
  /\ UNCHANGED <<collector, hand, seen>>

\* The queue is taken for empty while one snapshot is left in it.
Take_LeavesOne(c) ==
  /\ c \in here /\ hand[c] = 0 /\ Len(queue[c]) > 1
  /\ hand' = [hand EXCEPT ![c] = Head(queue[c])]
  /\ queue' = [queue EXCEPT ![c] = Tail(@)]
  /\ UNCHANGED <<collector, subs, seen, here, resync>>

\* The handler takes the oldest snapshot once the last one is written.
Take(c) ==
  /\ c \in here /\ hand[c] = 0 /\ queue[c] # <<>>
  /\ hand' = [hand EXCEPT ![c] = Head(queue[c])]
  /\ queue' = [queue EXCEPT ![c] = Tail(@)]
  /\ UNCHANGED <<collector, subs, seen, here, resync>>

\* The browser has received it.
Send(c) ==
  /\ c \in here \ Stuck /\ hand[c] # 0
  /\ seen' = [seen EXCEPT ![c] = hand[c]]
  /\ hand' = [hand EXCEPT ![c] = 0]
  /\ UNCHANGED <<collector, subs, queue, here, resync>>

\* What belongs to the connection is left for the next one to find.
Forget_Nothing(f, c, nothing) == f' = f

Forget(f, c, nothing) == f' = [f EXCEPT ![c] = nothing]

\* The handler is cancelled at either await, and unsubscribes in its finally;
\* its queue is garbage.
Disconnect(c) ==
  /\ c \in here
  /\ here' = here \ {c} /\ subs' = subs \ {c}
  /\ Forget(queue, c, <<>>)
  /\ Forget(hand, c, 0) /\ Forget(seen, c, 0) /\ Forget(resync, c, 0)
  /\ UNCHANGED collector

-----------------------------------------------------------------------------
CollectorNext == Gather \/ Persist \/ PersistFails \/ Publish
HandlerNext(c) == Take(c) \/ Send(c)

Next == \/ CollectorNext \/ Close
        \/ \E c \in Client : Connect(c) \/ HandlerNext(c) \/ Disconnect(c)

\* The event loop runs the collector and every handler that can run.  No
\* browser has to connect, stay or drain its socket.
Fairness == WF_vars(CollectorNext) /\ \A c \in Client : WF_vars(HandlerNext(c))

Spec == Init /\ [][Next]_vars /\ Fairness

-----------------------------------------------------------------------------
TypeOK ==
  /\ phase \in {"sleep", "persist", "gates", "closed"}
  /\ made \in 0..MaxSnapshots /\ published \in 0..made
  /\ subs \subseteq here /\ here \subseteq Client
  /\ Cardinality(subs) <= MAX_SUBSCRIBERS
  /\ \A c \in Client : Len(queue[c]) <= QUEUE_MAXLEN

\* What connection c has shown, is writing and will write, oldest first.
Pipeline(c) ==
  LET nonzero(n) == IF n = 0 THEN <<>> ELSE <<n>>
  IN nonzero(seen[c]) \o nonzero(hand[c]) \o queue[c]

\* A connection never goes back in time, and the only snapshot it can show
\* twice is the one it was resynchronised with (subscribing while that
\* snapshot waits for its publication).
InOrder == \A c \in here : \A i \in 1..(Len(Pipeline(c)) - 1) :
  LET a == Pipeline(c)[i]  b == Pipeline(c)[i + 1]
  IN a < b \/ (a = b /\ a = resync[c])

Newest(c) == IF Pipeline(c) = <<>> THEN 0 ELSE Pipeline(c)[Len(Pipeline(c))]

\* However far a subscriber has fallen behind, the newest snapshot published
\* is still on its way to it: the queue drops old snapshots, never the newest,
\* and a reconnection starts from the present.
NewestKept == \A c \in subs : Newest(c) >= published

\* A browser that drains its socket gets to see the newest snapshot published
\* while it is subscribed, or one after it.
CatchesUp ==
  \A c \in Client \ Stuck : \A n \in 1..MaxSnapshots :
    (c \in subs /\ published = n) ~> (seen[c] >= n \/ c \notin subs)

\* A stuck browser never stalls the collection.
CyclesEnd == phase # "sleep" ~> phase \in {"sleep", "closed"}

\* The stream implements the promise of Feed to each browser.
F == INSTANCE Feed WITH Client <- Client, made <- made, here <- here, seen <- seen
ImplementsFeed == F!Spec
=============================================================================
