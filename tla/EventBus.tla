------------------------------ MODULE EventBus ------------------------------
(* core/bus.py: the in-process bus.  publish() has no await, so it is one   *)
(* action for all subscribers of a topic.  The messages of a topic are      *)
(* known by the order in which they were published.  Who subscribes and     *)
(* what consumers do with their items is in Events.tla.                     *)
EXTENDS Naturals, Sequences, FiniteSets

CONSTANTS
    TopicPolicy,  \* _TOPIC_POLICY: topic -> [policy, maxsize]
    Subs,         \* subscriptions that are ever made
    TopicOf,      \* the topic of each
    MaxPublished  \* bound: messages published on each topic

DropOldest == "drop_oldest"
DisconnectSlow == "disconnect_slow"

Topics == DOMAIN TopicPolicy

ASSUME EventBusAssumption ==
    /\ \A t \in Topics :
          /\ TopicPolicy[t].policy \in {DropOldest, DisconnectSlow}
          /\ TopicPolicy[t].maxsize \in Nat \ {0}
    /\ TopicOf \in [Subs -> Topics]
    /\ MaxPublished \in [Topics -> Nat]

VARIABLES
    published, \* messages published so far on each topic
    subs,      \* EventBus._subs
    queue,     \* Subscription.queue
    closed,    \* subscriptions with _closed set
    consumer,  \* "none": not subscribed; "absent": nobody iterates yet; "busy"
               \* with an item; suspended on queue "get"; "done": events() ended
    first,     \* history: messages published before the subscription
    got        \* history: what each consumer was given

busVars == <<published, subs, queue, closed, consumer, first, got>>

SENTINEL == 0

BusInit ==
    /\ published = [t \in Topics |-> 0]
    /\ subs = {}
    /\ queue = [s \in Subs |-> <<>>]
    /\ closed = {}
    /\ consumer = [s \in Subs |-> "none"]
    /\ first = [s \in Subs |-> 0]
    /\ got = [s \in Subs |-> <<>>]

MaxSize(s) == TopicPolicy[TopicOf[s]].maxsize
Policy(s) == TopicPolicy[TopicOf[s]].policy

\* subscribe(), once for each of ss, by a coroutine that is as told.
Subscribe(ss, as) ==
    /\ \A s \in ss : consumer[s] = "none"
    /\ consumer' = [s \in Subs |-> IF s \in ss THEN as ELSE consumer[s]]
    /\ subs' = subs \cup ss
    /\ first' = [s \in Subs |-> IF s \in ss THEN published[TopicOf[s]] ELSE first[s]]
    /\ UNCHANGED <<published, queue, closed, got>>

\* unsubscribe() and close(), for each of ss: a sentinel wakes a consumer
\* suspended on get(), if there is room for it.
Unsubscribe(ss) ==
    /\ subs' = subs \ ss
    /\ closed' = closed \cup ss
    /\ queue' = [s \in Subs |->
          IF s \in ss \ closed /\ Len(queue[s]) < MaxSize(s) THEN Append(queue[s], SENTINEL) ELSE queue[s]]
    /\ UNCHANGED <<published, first, got>>

----------------------------------------------------------------------------
(* publish() *)

On(t) == {s \in subs : TopicOf[s] = t}

Overflows(s) == Len(queue[s]) = MaxSize(s)

\* Seeded fault: asyncio.Queue() without maxsize.
Put_Unbounded(s, n) == Append(queue[s], n)

\* The queue of s after the message n.
Put(s, n) == IF Overflows(s) THEN Append(Tail(queue[s]), n) ELSE Append(queue[s], n)

\* Subscribers a publish disconnects; unsubscribe() finds no room for a sentinel.
Slow(t) == {s \in On(t) : Policy(s) = DisconnectSlow /\ Overflows(s)}

\* Seeded faults: the message is dropped and the slow subscriber kept; on
\* overflow the new message is dropped instead of the oldest; one slow
\* subscriber ends the loop over all of them.
Publish_KeepsSlow(t) ==
    /\ published[t] < MaxPublished[t] /\ published' = [published EXCEPT ![t] = @ + 1]
    /\ queue' = [s \in Subs |-> IF s \in On(t) \ Slow(t) THEN Put(s, published[t] + 1) ELSE queue[s]]
    /\ UNCHANGED <<subs, closed, consumer, first, got>>
Publish_DropsNewest(t) ==
    /\ published[t] < MaxPublished[t] /\ published' = [published EXCEPT ![t] = @ + 1]
    /\ queue' = [s \in Subs |->
          IF s \in On(t) /\ ~Overflows(s) THEN Append(queue[s], published[t] + 1) ELSE queue[s]]
    /\ UNCHANGED <<subs, closed, consumer, first, got>>
Publish_StopsAtSlow(t) ==
    /\ published[t] < MaxPublished[t] /\ published' = [published EXCEPT ![t] = @ + 1]
    /\ subs' = subs \ Slow(t)
    /\ closed' = closed \cup Slow(t)
    /\ queue' = [s \in Subs |-> IF s \in On(t) /\ Slow(t) = {} THEN Put(s, published[t] + 1) ELSE queue[s]]
    /\ UNCHANGED <<consumer, first, got>>

Publish(t) ==
    /\ published[t] < MaxPublished[t] /\ published' = [published EXCEPT ![t] = @ + 1]
    /\ subs' = subs \ Slow(t)
    /\ closed' = closed \cup Slow(t)
    /\ queue' = [s \in Subs |-> IF s \in On(t) \ Slow(t) THEN Put(s, published[t] + 1) ELSE queue[s]]
    /\ UNCHANGED <<consumer, first, got>>

----------------------------------------------------------------------------
(* events() *)

\* queue.get() returns: an item is handed to the consumer, a sentinel ends it.
Takes(s) ==
    /\ queue[s] # <<>>
    /\ queue' = [queue EXCEPT ![s] = Tail(@)]
    /\ IF Head(queue[s]) = SENTINEL
       THEN consumer' = [consumer EXCEPT ![s] = "done"] /\ UNCHANGED got
       ELSE /\ consumer' = [consumer EXCEPT ![s] = "busy"]
            /\ got' = [got EXCEPT ![s] = Append(@, Head(queue[s]))]

\* Seeded fault: `while True' for `while not self._closed'.
Asks_Forever(s) ==
    /\ consumer[s] = "busy"
    /\ IF queue[s] = <<>>
       THEN consumer' = [consumer EXCEPT ![s] = "get"] /\ UNCHANGED <<queue, got>>
       ELSE Takes(s)
    /\ UNCHANGED <<published, subs, closed, first>>

\* The consumer is done with its item and asks for the next: a subscription
\* closed meanwhile gives none, whatever is still queued.
Asks(s) ==
    /\ consumer[s] = "busy"
    /\ IF s \in closed
       THEN consumer' = [consumer EXCEPT ![s] = "done"] /\ UNCHANGED <<queue, got>>
       ELSE IF queue[s] = <<>>
       THEN consumer' = [consumer EXCEPT ![s] = "get"] /\ UNCHANGED <<queue, got>>
       ELSE Takes(s)
    /\ UNCHANGED <<published, subs, closed, first>>

Woken(s) ==
    /\ consumer[s] = "get"
    /\ Takes(s)
    /\ UNCHANGED <<published, subs, closed, first>>

----------------------------------------------------------------------------
(* Properties *)

BusTypeOK ==
    /\ published \in [Topics -> Nat] /\ \A t \in Topics : published[t] <= MaxPublished[t]
    /\ subs \in SUBSET Subs /\ closed \in SUBSET Subs
    /\ queue \in [Subs -> Seq(Nat)] /\ \A s \in Subs : Len(queue[s]) <= MaxSize(s)
    /\ consumer \in [Subs -> {"none", "absent", "busy", "get", "done"}]
    /\ first \in [Subs -> Nat]
    /\ got \in [Subs -> Seq(Nat)]

\* What a consumer was given, then what waits for it, up to a sentinel.
Stream(s) ==
    LET q == queue[s]
    IN  got[s] \o (IF q # <<>> /\ q[Len(q)] = SENTINEL THEN SubSeq(q, 1, Len(q) - 1) ELSE q)

\* A DISCONNECT_SLOW topic never "loses a message silently" (bus.py:27): a
\* consumer is given what was published from its subscription on, without a
\* gap, and nothing is missing as long as it is connected, however slow the
\* other subscribers of the topic are.
NoSilentGap ==
    \A s \in Subs : Policy(s) = DisconnectSlow =>
        /\ \A i \in 1 .. Len(Stream(s)) : Stream(s)[i] = first[s] + i
        /\ s \in subs => first[s] + Len(Stream(s)) = published[TopicOf[s]]

\* On a DROP_OLDEST topic a slow consumer keeps its subscription and has the
\* newest messages waiting, in order; what it missed is older than all of them.
NewestSurvive ==
    \A s \in subs : Policy(s) = DropOldest =>
        LET n == published[TopicOf[s]]
        IN  /\ s \notin closed
            /\ \A i \in 1 .. Len(queue[s]) : queue[s][i] = n - Len(queue[s]) + i
            /\ \A i \in 1 .. Len(got[s]) :
                  /\ got[s][i] <= n - Len(queue[s])
                  /\ i > 1 => got[s][i - 1] < got[s][i]
=============================================================================
