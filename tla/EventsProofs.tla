---------------------------- MODULE EventsProofs ----------------------------
(* Proofs about Events.tla: what the policies of the bus keep, whoever      *)
(* subscribes, publishes and consumes, that handlers leave nothing, and     *)
(* that the console misses nothing.                                         *)
EXTENDS Events, SequenceTheorems, FiniteSetTheorems, TLAPS

----------------------------------------------------------------------------
(* Queues as sequences of numbered messages *)

\* The messages of q are those that follow the message b.
Follows(q, b) == \A i \in 1 .. Len(q) : q[i] = b + i

\* The same, up to a sentinel.
FollowsUpTo(q, b) == \A i \in 1 .. Len(q) : q[i] # SENTINEL => q[i] = b + i

NoSentinel(q) == \A i \in 1 .. Len(q) : q[i] # SENTINEL
SentinelLast(q) == \A i \in 1 .. Len(q) : q[i] = SENTINEL => i = Len(q)

\* The messages of g are in order, and none is newer than b.
Rising(g, b) == \A i \in 1 .. Len(g) : g[i] <= b /\ (i > 1 => g[i - 1] < g[i])

LEMMA AppendIs ==
    ASSUME NEW q \in Seq(Nat), NEW n \in Nat
    PROVE  /\ Append(q, n) \in Seq(Nat) /\ Len(Append(q, n)) = Len(q) + 1 /\ Len(q) \in Nat
           /\ \A i \in 1 .. Len(q) + 1 :
                 \/ i = Len(q) + 1 /\ Append(q, n)[i] = n
                 \/ i \in 1 .. Len(q) /\ Append(q, n)[i] = q[i]
OBVIOUS

LEMMA TailIs ==
    ASSUME NEW q \in Seq(Nat), q # <<>>
    PROVE  /\ Tail(q) \in Seq(Nat) /\ Len(Tail(q)) = Len(q) - 1 /\ Len(q) \in Nat \ {0}
           /\ \A i \in 1 .. Len(q) - 1 : i + 1 \in 1 .. Len(q) /\ Tail(q)[i] = q[i + 1]
           /\ Head(q) = q[1] /\ Head(q) \in Nat /\ 1 \in 1 .. Len(q)
OBVIOUS

\* A sentinel or the next message may be appended.
LEMMA AppendKeeps ==
    ASSUME NEW q \in Seq(Nat), NEW n \in Nat, NEW b \in Int, NoSentinel(q)
    PROVE  /\ SentinelLast(Append(q, n))
           /\ n # SENTINEL => NoSentinel(Append(q, n))
           /\ FollowsUpTo(q, b) /\ n \in {SENTINEL, b + Len(q) + 1} => FollowsUpTo(Append(q, n), b)
           /\ Follows(q, b) /\ n = b + Len(q) + 1 => Follows(Append(q, n), b)
<1> DEFINE a == Append(q, n)
<1>1. /\ Len(a) = Len(q) + 1 /\ Len(q) \in Nat
      /\ \A i \in 1 .. Len(q) + 1 :
            (i = Len(q) + 1 /\ a[i] = n) \/ (i \in 1 .. Len(q) /\ a[i] = q[i])
  BY AppendIs
<1> HIDE DEF a
<1>2. SentinelLast(a)
  BY <1>1 DEF NoSentinel, SentinelLast
<1>3. n # SENTINEL => NoSentinel(a)
  BY <1>1 DEF NoSentinel
<1>4. FollowsUpTo(q, b) /\ n \in {SENTINEL, b + Len(q) + 1} => FollowsUpTo(a, b)
  <2> SUFFICES ASSUME FollowsUpTo(q, b), n \in {SENTINEL, b + Len(q) + 1},
                      NEW i \in 1 .. Len(q) + 1, a[i] # SENTINEL
               PROVE  a[i] = b + i
    BY <1>1 DEF FollowsUpTo
  <2>1. CASE i = Len(q) + 1 /\ a[i] = n
    BY <1>1, <2>1
  <2>2. CASE i \in 1 .. Len(q) /\ a[i] = q[i]
    BY <2>2 DEF FollowsUpTo
  <2> QED BY <1>1, <2>1, <2>2
<1>5. Follows(q, b) /\ n = b + Len(q) + 1 => Follows(a, b)
  <2> SUFFICES ASSUME Follows(q, b), n = b + Len(q) + 1, NEW i \in 1 .. Len(q) + 1
               PROVE  a[i] = b + i
    BY <1>1 DEF Follows
  <2>1. CASE i = Len(q) + 1 /\ a[i] = n
    BY <1>1, <2>1
  <2>2. CASE i \in 1 .. Len(q) /\ a[i] = q[i]
    BY <2>2 DEF Follows
  <2> QED BY <1>1, <2>1, <2>2
<1> QED BY <1>2, <1>3, <1>4, <1>5 DEF a

\* The oldest message is taken.
LEMMA TailKeeps ==
    ASSUME NEW q \in Seq(Nat), q # <<>>, NEW b \in Int
    PROVE  /\ SentinelLast(q) => SentinelLast(Tail(q)) /\ (Head(q) = SENTINEL => Tail(q) = <<>>)
           /\ NoSentinel(q) => NoSentinel(Tail(q)) /\ Head(q) # SENTINEL
           /\ FollowsUpTo(q, b) => FollowsUpTo(Tail(q), b + 1) /\ Head(q) \in {SENTINEL, b + 1}
           /\ Follows(q, b) => Follows(Tail(q), b + 1) /\ Head(q) = b + 1
<1> DEFINE t == Tail(q)
<1>1. /\ t \in Seq(Nat) /\ Len(t) = Len(q) - 1 /\ Len(q) \in Nat \ {0}
      /\ \A i \in 1 .. Len(q) - 1 : i + 1 \in 1 .. Len(q) /\ t[i] = q[i + 1]
      /\ Head(q) = q[1] /\ Head(q) \in Nat /\ 1 \in 1 .. Len(q)
  BY TailIs
<1>0. t = <<>> <=> Len(t) = 0
  BY <1>1, EmptySeq
<1> HIDE DEF t
<1>2. SentinelLast(q) => SentinelLast(t) /\ (Head(q) = SENTINEL => t = <<>>)
  <2> SUFFICES ASSUME SentinelLast(q) PROVE SentinelLast(t) /\ (q[1] = SENTINEL => Len(t) = 0)
    BY <1>0, <1>1
  <2>1. ASSUME NEW i \in 1 .. Len(t), t[i] = SENTINEL PROVE i = Len(t)
    <3>1. i \in 1 .. Len(q) - 1 /\ i \in Nat
      BY <1>1
    <3>2. t[i] = q[i + 1] /\ i + 1 \in 1 .. Len(q)
      BY <1>1, <3>1
    <3>3. i + 1 = Len(q)
      BY <2>1, <3>2 DEF SentinelLast
    <3> QED BY <1>1, <3>1, <3>3
  <2>2. q[1] = SENTINEL => Len(q) = 1
    BY <1>1 DEF SentinelLast
  <2> QED BY <1>1, <2>1, <2>2 DEF SentinelLast
<1>3. NoSentinel(q) => NoSentinel(t) /\ Head(q) # SENTINEL
  BY <1>1 DEF NoSentinel
<1>4. ASSUME FollowsUpTo(q, b) PROVE FollowsUpTo(t, b + 1) /\ Head(q) \in {SENTINEL, b + 1}
  <2>1. ASSUME NEW i \in 1 .. Len(t), t[i] # SENTINEL PROVE t[i] = b + 1 + i
    <3>1. i \in 1 .. Len(q) - 1
      BY <1>1
    <3>2. t[i] = q[i + 1] /\ i + 1 \in 1 .. Len(q) /\ i \in Nat
      BY <1>1, <3>1
    <3>3. q[i + 1] = b + (i + 1)
      BY <1>4, <2>1, <3>2 DEF FollowsUpTo
    <3> QED BY <3>2, <3>3
  <2>2. q[1] # SENTINEL => q[1] = b + 1
    BY <1>1, <1>4 DEF FollowsUpTo
  <2> QED BY <1>1, <2>1, <2>2 DEF FollowsUpTo
<1>5. Follows(q, b) => Follows(t, b + 1) /\ Head(q) = b + 1
  BY <1>1 DEF Follows
<1> QED BY <1>2, <1>3, <1>4, <1>5 DEF t

LEMMA FollowsAppend ==
    ASSUME NEW g \in Seq(Nat), NEW b \in Int, Follows(g, b), b + Len(g) + 1 \in Nat
    PROVE  Follows(Append(g, b + Len(g) + 1), b)
<1> DEFINE n == b + Len(g) + 1
           a == Append(g, n)
<1>1. n \in Nat /\ n = b + (Len(g) + 1) /\ Len(g) \in Nat
  OBVIOUS
<1> HIDE DEF n
<1>2. /\ Len(a) = Len(g) + 1
      /\ \A i \in 1 .. Len(g) + 1 :
            (i = Len(g) + 1 /\ a[i] = n) \/ (i \in 1 .. Len(g) /\ a[i] = g[i])
  BY <1>1, AppendIs
<1> HIDE DEF a
<1>3. Follows(a, b)
  BY <1>1, <1>2 DEF Follows
<1> QED BY <1>3 DEF a, n

\* A consumer is given the next message.
LEMMA RisingAppend ==
    ASSUME NEW g \in Seq(Nat), NEW b \in Int, Rising(g, b), b + 1 \in Nat
    PROVE  Rising(Append(g, b + 1), b + 1)
<1> DEFINE a == Append(g, b + 1)
<1>1. /\ Len(a) = Len(g) + 1 /\ Len(g) \in Nat
      /\ \A i \in 1 .. Len(g) + 1 :
            (i = Len(g) + 1 /\ a[i] = b + 1) \/ (i \in 1 .. Len(g) /\ a[i] = g[i])
      /\ \A i \in 1 .. Len(g) : g[i] \in Nat
  BY AppendIs
<1> HIDE DEF a
<1>2. ASSUME NEW i \in 1 .. Len(g) + 1
      PROVE  a[i] <= b + 1 /\ (i > 1 => a[i - 1] < a[i])
  <2>1. CASE i = Len(g) + 1 /\ a[i] = b + 1
    <3>1. i > 1 => i - 1 \in 1 .. Len(g) /\ a[i - 1] = g[i - 1]
      BY <1>1, <2>1
    <3> QED BY <1>1, <2>1, <3>1 DEF Rising
  <2>2. CASE i \in 1 .. Len(g) /\ a[i] = g[i]
    <3>1. i > 1 => i - 1 \in 1 .. Len(g) /\ a[i - 1] = g[i - 1]
      <4>1. i > 1 => i - 1 \in 1 .. Len(g) /\ i - 1 \in 1 .. Len(g) + 1 /\ i - 1 # Len(g) + 1
        BY <1>1, <2>2
      <4> QED BY <1>1, <4>1
    <3> QED BY <1>1, <2>2, <3>1 DEF Rising
  <2> QED BY <1>1, <2>1, <2>2
<1> QED BY <1>1, <1>2 DEF Rising, a

LEMMA RisingLater ==
    ASSUME NEW g \in Seq(Nat), NEW b \in Int, NEW c \in Int, Rising(g, b), b <= c
    PROVE  Rising(g, c)
<1>1. \A i \in 1 .. Len(g) : g[i] \in Nat
  OBVIOUS
<1> QED BY <1>1 DEF Rising

----------------------------------------------------------------------------
(* The invariant of the bus *)

Consumers == {"none", "absent", "busy", "get", "done"}

\* A subscription nobody has made is empty, one on the bus is not closed, and
\* a sentinel is the last thing a closed one is sent.
Life(s) ==
    /\ consumer[s] = "none" => s \notin subs \cup closed /\ queue[s] = <<>> /\ got[s] = <<>>
    /\ s \in subs => s \notin closed
    /\ s \notin closed => NoSentinel(queue[s])
    /\ SentinelLast(queue[s])

\* What s was given and what waits for it follows its subscription, and leads
\* up to the newest message as long as it is on the bus.
Gapless(s) ==
    /\ Follows(got[s], first[s])
    /\ FollowsUpTo(queue[s], first[s] + Len(got[s]))
    /\ s \in subs => first[s] + Len(got[s]) + Len(queue[s]) = published[TopicOf[s]]

\* The newest messages wait for s, and what it was given is older.
Newest(s) ==
    LET b == published[TopicOf[s]] - Len(queue[s])
    IN  Follows(queue[s], b) /\ Rising(got[s], b)

SubInv(s) ==
    /\ Life(s)
    /\ Policy(s) = DisconnectSlow => Gapless(s)
    /\ Policy(s) = DropOldest /\ s \in subs => Newest(s)

BusInv == BusTypeOK /\ \A s \in Subs : SubInv(s)

LEMMA QueueTypes ==
    ASSUME BusTypeOK, NEW s \in Subs
    PROVE  /\ queue[s] \in Seq(Nat) /\ got[s] \in Seq(Nat) /\ first[s] \in Nat
           /\ Len(queue[s]) \in Nat /\ Len(got[s]) \in Nat
           /\ TopicOf[s] \in Topics /\ published[TopicOf[s]] \in Nat
           /\ MaxSize(s) \in Nat \ {0}
           /\ Policy(s) \in {DropOldest, DisconnectSlow} /\ DropOldest # DisconnectSlow
BY EventBusAssumption DEF BusTypeOK, MaxSize, Policy, DropOldest, DisconnectSlow

----------------------------------------------------------------------------
(* It implies what the runs check *)

CutOff(q) == IF q # <<>> /\ q[Len(q)] = SENTINEL THEN SubSeq(q, 1, Len(q) - 1) ELSE q

LEMMA CutOffIs ==
    ASSUME NEW q \in Seq(Nat), SentinelLast(q), NEW b \in Int, FollowsUpTo(q, b)
    PROVE  CutOff(q) \in Seq(Nat) /\ Follows(CutOff(q), b) /\ (NoSentinel(q) => CutOff(q) = q)
<1>1. CASE q # <<>> /\ q[Len(q)] = SENTINEL
  <2> DEFINE n == Len(q) - 1
  <2>1. Len(q) \in Nat \ {0} /\ n \in Int /\ 1 \in Int /\ \A i \in 1 .. n : q[i] \in Nat
    BY <1>1, EmptySeq
  <2>2. /\ SubSeq(q, 1, n) \in Seq(Nat)
        /\ Len(SubSeq(q, 1, n)) = IF 1 <= n THEN n - 1 + 1 ELSE 0
        /\ \A i \in 1 .. n - 1 + 1 : SubSeq(q, 1, n)[i] = q[1 + i - 1]
    <3> HIDE DEF n
    <3> QED BY <2>1, SubSeqProperties
  <2>3. Len(SubSeq(q, 1, n)) = n /\ \A i \in 1 .. n : SubSeq(q, 1, n)[i] = q[i]
    <3>1. n \in Nat
      BY <2>1
    <3> HIDE DEF n
    <3> QED BY <2>2, <3>1
  <2>4. ASSUME NEW i \in 1 .. n PROVE q[i] = b + i
    <3>1. i \in 1 .. Len(q) /\ i # Len(q)
      BY <2>1
    <3>2. q[i] # SENTINEL
      BY <3>1 DEF SentinelLast
    <3> QED BY <3>1, <3>2 DEF FollowsUpTo
  <2>5. CutOff(q) = SubSeq(q, 1, n)
    BY <1>1 DEF CutOff
  <2>6. ~NoSentinel(q)
    BY <1>1, <2>1 DEF NoSentinel
  <2> QED BY <2>2, <2>3, <2>4, <2>5, <2>6 DEF Follows
<1>2. CASE ~(q # <<>> /\ q[Len(q)] = SENTINEL)
  <2>1. CutOff(q) = q
    BY <1>2 DEF CutOff
  <2>2. \A i \in 1 .. Len(q) : q[i] # SENTINEL
    BY <1>2 DEF SentinelLast
  <2> QED BY <2>1, <2>2 DEF FollowsUpTo, Follows
<1> QED BY <1>1, <1>2

\* A sequence and what follows it, joined.
LEMMA Joined ==
    ASSUME NEW f \in Nat, NEW g \in Seq(Nat), NEW w \in Seq(Nat), Follows(g, f), Follows(w, f + Len(g))
    PROVE  Len(g \o w) = Len(g) + Len(w) /\ Follows(g \o w, f)
<1>1. Len(g) \in Nat /\ Len(w) \in Nat /\ Len(g \o w) = Len(g) + Len(w)
  OBVIOUS
<1>2. ASSUME NEW i \in 1 .. Len(g) + Len(w)
      PROVE  (g \o w)[i] = f + i
  <2>1. CASE i <= Len(g)
    BY <1>1, <2>1 DEF Follows
  <2>2. CASE i > Len(g)
    <3>1. (g \o w)[i] = w[i - Len(g)] /\ i - Len(g) \in 1 .. Len(w)
      BY <1>1, <2>2
    <3> QED BY <1>1, <3>1 DEF Follows
  <2> QED BY <1>1, <2>1, <2>2
<1> QED BY <1>1, <1>2 DEF Follows

LEMMA BusInvGap == BusInv => NoSilentGap
<1> SUFFICES ASSUME BusInv, NEW s \in Subs, Policy(s) = DisconnectSlow
             PROVE  /\ \A i \in 1 .. Len(Stream(s)) : Stream(s)[i] = first[s] + i
                    /\ s \in subs => first[s] + Len(Stream(s)) = published[TopicOf[s]]
  BY DEF NoSilentGap
<1>1. Life(s) /\ Gapless(s) /\ BusTypeOK
  BY DEF BusInv, SubInv
<1>2. ASSUME NEW f \in Nat, NEW g \in Seq(Nat), NEW q \in Seq(Nat), NEW n,
             f = first[s], g = got[s], q = queue[s], n = published[TopicOf[s]]
      PROVE  /\ \A i \in 1 .. Len(Stream(s)) : Stream(s)[i] = f + i
             /\ s \in subs => f + Len(Stream(s)) = n
  <2>1. Stream(s) = g \o CutOff(q)
    BY <1>2 DEF Stream, CutOff
  <2>2. /\ Follows(g, f) /\ FollowsUpTo(q, f + Len(g)) /\ SentinelLast(q)
        /\ s \in subs => NoSentinel(q) /\ f + Len(g) + Len(q) = n
    BY <1>1, <1>2 DEF Gapless, Life
  <2>3. Len(g) \in Nat /\ Len(q) \in Nat /\ f + Len(g) \in Int
    OBVIOUS
  <2>4. CutOff(q) \in Seq(Nat) /\ Follows(CutOff(q), f + Len(g)) /\ (NoSentinel(q) => CutOff(q) = q)
    BY <2>2, <2>3, CutOffIs
  <2>5. Len(g \o CutOff(q)) = Len(g) + Len(CutOff(q)) /\ Follows(g \o CutOff(q), f)
    BY <2>2, <2>4, Joined
  <2>6. ASSUME s \in subs
        PROVE  f + Len(g \o CutOff(q)) = n
    <3>1. Len(g \o CutOff(q)) = Len(g) + Len(q) /\ f + Len(g) + Len(q) = n
      BY <2>2, <2>4, <2>5, <2>6
    <3> QED BY <2>3, <3>1
  <2> QED BY <2>1, <2>5, <2>6 DEF Follows
<1> QED BY <1>1, <1>2, QueueTypes

LEMMA BusInvNewest == BusInv => NewestSurvive
<1> SUFFICES ASSUME BusInv, NEW s \in subs, Policy(s) = DropOldest, NEW n, n = published[TopicOf[s]]
             PROVE  /\ s \notin closed
                    /\ \A i \in 1 .. Len(queue[s]) : queue[s][i] = n - Len(queue[s]) + i
                    /\ \A i \in 1 .. Len(got[s]) :
                          got[s][i] <= n - Len(queue[s]) /\ (i > 1 => got[s][i - 1] < got[s][i])
  BY DEF NewestSurvive
<1>1. Life(s) /\ Newest(s)
  BY DEF BusInv, SubInv, BusTypeOK
<1> QED BY <1>1 DEF Life, Newest, Follows, Rising

----------------------------------------------------------------------------
(* and every step of the bus keeps it *)

LEMMA InitBus == BusInit => BusInv
<1> SUFFICES ASSUME BusInit PROVE BusInv
  OBVIOUS
<1>1. BusTypeOK
  <2>1. \A t \in Topics : 0 <= MaxPublished[t] /\ published[t] = 0
    BY EventBusAssumption DEF BusInit
  <2>2. \A s \in Subs : Len(queue[s]) <= MaxSize(s)
    BY EventBusAssumption DEF BusInit, MaxSize
  <2> QED BY <2>1, <2>2 DEF BusInit, BusTypeOK
<1>2. ASSUME NEW s \in Subs PROVE SubInv(s)
  <2>1. queue[s] = <<>> /\ got[s] = <<>> /\ s \notin subs /\ s \notin closed
    BY DEF BusInit
  <2>2. Life(s)
    BY <2>1 DEF Life, NoSentinel, SentinelLast
  <2>3. Gapless(s)
    BY <2>1 DEF Gapless, Follows, FollowsUpTo
  <2> QED BY <2>1, <2>2, <2>3 DEF SubInv
<1> QED BY <1>1, <1>2 DEF BusInv

\* Nothing of s changes but its consumer.
LEMMA SubStays ==
    ASSUME BusTypeOK, NEW s \in Subs, SubInv(s),
           queue'[s] = queue[s], got'[s] = got[s], first'[s] = first[s],
           published'[TopicOf[s]] = published[TopicOf[s]],
           s \in subs' <=> s \in subs, s \in closed' <=> s \in closed,
           consumer'[s] = "none" => consumer[s] = "none"
    PROVE  SubInv(s)'
<1>1. Life(s)'
  BY DEF SubInv, Life
<1>2. (Policy(s) = DisconnectSlow => Gapless(s)')
  BY DEF SubInv, Gapless
<1>3. Policy(s) = DropOldest /\ s \in subs' => Newest(s)'
  BY DEF SubInv, Newest
<1> QED BY <1>1, <1>2, <1>3 DEF SubInv, Policy

\* Only the consumers change.
LEMMA ConsumersBus ==
    ASSUME BusInv, UNCHANGED <<published, subs, queue, closed, first, got>>,
           consumer' \in [Subs -> Consumers],
           \A s \in Subs : consumer'[s] = "none" => consumer[s] = "none"
    PROVE  BusInv'
<1>1. BusTypeOK'
  BY DEF BusInv, BusTypeOK, Consumers, MaxSize
<1>2. ASSUME NEW s \in Subs PROVE SubInv(s)'
  BY SubStays DEF BusInv
<1> QED BY <1>1, <1>2 DEF BusInv

LEMMA SubscribeBus ==
    ASSUME BusInv, NEW ss \in SUBSET Subs, NEW as \in {"absent", "busy"}, Subscribe(ss, as)
    PROVE  BusInv'
<1>1. BusTypeOK'
  <2>1. first' \in [Subs -> Nat]
    BY QueueTypes DEF Subscribe, BusInv, BusTypeOK
  <2>2. consumer' \in [Subs -> Consumers]
    BY DEF Subscribe, BusInv, BusTypeOK, Consumers
  <2> QED BY <2>1, <2>2 DEF Subscribe, BusInv, BusTypeOK, Consumers, MaxSize
<1>2. ASSUME NEW s \in Subs PROVE SubInv(s)'
  <2>1. /\ SubInv(s) /\ BusTypeOK /\ queue'[s] = queue[s] /\ got'[s] = got[s] /\ closed' = closed
        /\ published'[TopicOf[s]] = published[TopicOf[s]]
        /\ consumer'[s] = (IF s \in ss THEN as ELSE consumer[s])
        /\ first'[s] = (IF s \in ss THEN published[TopicOf[s]] ELSE first[s])
        /\ subs' = subs \cup ss /\ (s \in ss => consumer[s] = "none")
    BY DEF Subscribe, BusInv
  <2>2. CASE s \in ss
    <3>1. queue'[s] = <<>> /\ got'[s] = <<>> /\ s \notin closed' /\ consumer'[s] # "none"
      BY <2>1, <2>2 DEF SubInv, Life
    <3>2. Life(s)'
      BY <3>1 DEF Life, NoSentinel, SentinelLast
    <3>3. published[TopicOf[s]] \in Nat /\ first'[s] = published[TopicOf[s]]
      BY <2>1, <2>2, QueueTypes
    <3>4. Gapless(s)' /\ Newest(s)'
      BY <2>1, <3>1, <3>3 DEF Gapless, Newest, Follows, FollowsUpTo, Rising
    <3> QED BY <3>2, <3>4 DEF SubInv
  <2>3. CASE s \notin ss
    BY <2>1, <2>3, SubStays
  <2> QED BY <2>2, <2>3
<1> QED BY <1>1, <1>2 DEF BusInv

LEMMA UnsubscribeBus ==
    ASSUME BusInv, NEW ss \in SUBSET Subs, Unsubscribe(ss), \A s \in ss : consumer[s] # "none",
           consumer' \in [Subs -> Consumers], \A s \in Subs : consumer'[s] = "none" => consumer[s] = "none"
    PROVE  BusInv'
<1>1. ASSUME NEW s \in Subs
      PROVE  /\ queue'[s] = IF s \in ss \ closed /\ Len(queue[s]) < MaxSize(s)
                            THEN Append(queue[s], SENTINEL) ELSE queue[s]
             /\ queue'[s] \in Seq(Nat) /\ Len(queue'[s]) <= MaxSize(s)
  <2>1. queue'[s] = IF s \in ss \ closed /\ Len(queue[s]) < MaxSize(s)
                    THEN Append(queue[s], SENTINEL) ELSE queue[s]
    BY DEF Unsubscribe
  <2>2. queue[s] \in Seq(Nat) /\ Len(queue[s]) <= MaxSize(s) /\ MaxSize(s) \in Nat /\ SENTINEL \in Nat
    BY QueueTypes DEF BusInv, BusTypeOK, SENTINEL
  <2>3. Append(queue[s], SENTINEL) \in Seq(Nat) /\ Len(Append(queue[s], SENTINEL)) = Len(queue[s]) + 1
    BY <2>2, AppendIs
  <2> QED BY <2>1, <2>2, <2>3
<1>2. BusTypeOK'
  <2>1. queue' \in [Subs -> Seq(Nat)]
    BY <1>1 DEF Unsubscribe
  <2>2. \A s \in Subs : Len(queue'[s]) <= MaxSize(s)
    BY <1>1
  <2>3. subs' \in SUBSET Subs /\ closed' \in SUBSET Subs /\ UNCHANGED <<published, first, got>>
    BY DEF Unsubscribe, BusInv, BusTypeOK
  <2> QED BY <2>1, <2>2, <2>3 DEF BusInv, BusTypeOK, Consumers, MaxSize
<1>3. ASSUME NEW s \in Subs PROVE SubInv(s)'
  <2>1. SubInv(s) /\ BusTypeOK /\ UNCHANGED <<published, first, got>> /\ subs' = subs \ ss /\ closed' = closed \cup ss
    BY DEF Unsubscribe, BusInv
  <2>2. CASE s \in ss
    <3> DEFINE q == queue[s]
               b == first[s] + Len(got[s])
    <3>1. q \in Seq(Nat) /\ b \in Int /\ SENTINEL \in Nat
      BY <2>1, QueueTypes DEF SENTINEL
    <3>2. \/ queue'[s] = q
          \/ s \notin closed /\ queue'[s] = Append(q, SENTINEL)
      BY <1>1
    <3>3. SentinelLast(q) /\ (s \notin closed => NoSentinel(q))
      BY <2>1 DEF SubInv, Life
    <3>4. ASSUME s \notin closed
          PROVE  /\ SentinelLast(Append(q, SENTINEL))
                 /\ FollowsUpTo(q, b) => FollowsUpTo(Append(q, SENTINEL), b)
      <4> HIDE DEF q, b
      <4> QED BY <3>1, <3>3, <3>4, AppendKeeps
    <3>5. SentinelLast(queue'[s]) /\ (FollowsUpTo(q, b) => FollowsUpTo(queue'[s], b))
      BY <3>2, <3>3, <3>4
    <3>6. Life(s)'
      BY <2>1, <2>2, <3>5 DEF Life
    <3>7. Policy(s) = DisconnectSlow => Gapless(s)'
      BY <2>1, <2>2, <3>5 DEF SubInv, Gapless
    <3> QED BY <2>1, <2>2, <3>6, <3>7 DEF SubInv, Policy
  <2>3. CASE s \notin ss
    <3>1. queue'[s] = queue[s]
      BY <1>1, <2>3
    <3> QED BY <2>1, <2>3, <3>1, SubStays
  <2> QED BY <2>2, <2>3
<1> QED BY <1>2, <1>3 DEF BusInv

\* A consumer takes the oldest item.
LEMMA TakesBus ==
    ASSUME BusInv, NEW s \in Subs, Takes(s), UNCHANGED <<published, subs, closed, first>>
    PROVE  BusInv'
<1> DEFINE q == queue[s]
           g == got[s]
           h == Head(queue[s])
<1>1. /\ q \in Seq(Nat) /\ q # <<>> /\ g \in Seq(Nat) /\ SubInv(s) /\ BusTypeOK /\ Len(q) <= MaxSize(s)
      /\ MaxSize(s) \in Nat /\ Len(q) \in Nat /\ Len(g) \in Nat /\ first[s] \in Nat /\ published[TopicOf[s]] \in Nat
  BY QueueTypes DEF BusInv, BusTypeOK, Takes
<1>2. Tail(q) \in Seq(Nat) /\ Len(Tail(q)) = Len(q) - 1 /\ h \in Nat
  BY <1>1, TailIs
<1>3. /\ queue' = [queue EXCEPT ![s] = Tail(q)]
      /\ \/ h = SENTINEL /\ consumer' = [consumer EXCEPT ![s] = "done"] /\ got' = got
         \/ h # SENTINEL /\ consumer' = [consumer EXCEPT ![s] = "busy"] /\ got' = [got EXCEPT ![s] = Append(g, h)]
  BY DEF Takes
<1>4. Append(g, h) \in Seq(Nat) /\ Len(Append(g, h)) = Len(g) + 1
  BY <1>1, <1>2, AppendIs
<1>5. BusTypeOK'
  <2>1. queue' \in [Subs -> Seq(Nat)] /\ \A u \in Subs : Len(queue'[u]) <= MaxSize(u)
    BY <1>1, <1>2, <1>3 DEF BusInv, BusTypeOK
  <2>2. got' \in [Subs -> Seq(Nat)] /\ consumer' \in [Subs -> Consumers]
    BY <1>3, <1>4 DEF BusInv, BusTypeOK, Consumers
  <2> QED BY <2>1, <2>2 DEF BusInv, BusTypeOK, Consumers, MaxSize
<1>6. ASSUME NEW u \in Subs, u # s PROVE SubInv(u)'
  <2>1. queue'[u] = queue[u] /\ got'[u] = got[u] /\ consumer'[u] = consumer[u] /\ SubInv(u)
    BY <1>3, <1>6 DEF BusInv, BusTypeOK
  <2> QED BY <1>1, <2>1, SubStays
<1>7. queue'[s] = Tail(q) /\ consumer'[s] # "none" /\ got'[s] = IF h = SENTINEL THEN g ELSE Append(g, h)
  BY <1>1, <1>3 DEF BusTypeOK
<1>8. SentinelLast(q) /\ (s \notin closed => NoSentinel(q)) /\ (s \in subs => s \notin closed) /\ consumer[s] # "none"
  BY <1>1 DEF SubInv, Life
<1>9. /\ SentinelLast(Tail(q)) /\ (h = SENTINEL => Tail(q) = <<>>)
      /\ NoSentinel(q) => NoSentinel(Tail(q)) /\ h # SENTINEL
      /\ \A b \in Int : /\ FollowsUpTo(q, b) => FollowsUpTo(Tail(q), b + 1) /\ h \in {SENTINEL, b + 1}
                        /\ Follows(q, b) => Follows(Tail(q), b + 1) /\ h = b + 1
  <2> HIDE DEF q
  <2>1. Head(q) = h
    BY DEF q
  <2> HIDE DEF h
  <2> QED BY <1>1, <1>8, <2>1, TailKeeps
<1> HIDE DEF q, g, h
<1>10. Life(s)'
  BY <1>7, <1>8, <1>9 DEF Life
<1>11. ASSUME Policy(s) = DisconnectSlow PROVE Gapless(s)'
  <2> DEFINE f == first[s]
             b == f + Len(g)
  <2>1. /\ Follows(g, f) /\ FollowsUpTo(q, b) /\ (s \in subs => b + Len(q) = published[TopicOf[s]])
        /\ b \in Int /\ b + 1 \in Nat
    BY <1>1, <1>11 DEF SubInv, Gapless, q, g
  <2>2. FollowsUpTo(Tail(q), b + 1) /\ h \in {SENTINEL, b + 1}
    BY <1>9, <2>1
  <2>3. CASE h = SENTINEL
    <3>1. Tail(q) = <<>> /\ s \notin subs
      BY <1>8, <1>9, <2>3
    <3>2. queue'[s] = <<>> /\ got'[s] = g /\ first'[s] = f /\ s \notin subs'
      BY <1>7, <2>3, <3>1
    <3> QED BY <2>1, <3>2 DEF Gapless, FollowsUpTo
  <2>4. CASE h # SENTINEL
    <3>1. h = b + 1 /\ Follows(Append(g, h), f)
      BY <1>1, <2>1, <2>2, <2>4, FollowsAppend
    <3>2. queue'[s] = Tail(q) /\ got'[s] = Append(g, h)
      BY <1>7, <2>4
    <3>3. first'[s] = f /\ subs' = subs /\ published'[TopicOf[s]] = published[TopicOf[s]]
      OBVIOUS
    <3>4. f + Len(Append(g, h)) = b + 1
      <4>1. f \in Nat /\ Len(g) \in Nat /\ Len(Append(g, h)) = Len(g) + 1
        BY <1>1, <1>4
      <4> QED BY <4>1
    <3>5. s \in subs => b + 1 + Len(Tail(q)) = published[TopicOf[s]]
      <4> HIDE DEF b
      <4> QED BY <1>1, <1>2, <2>1
    <3> HIDE DEF b, f
    <3> QED BY <2>2, <3>1, <3>2, <3>3, <3>4, <3>5 DEF Gapless
  <2> QED BY <2>3, <2>4
<1>12. ASSUME Policy(s) = DropOldest, s \in subs PROVE Newest(s)'
  <2> DEFINE n == published[TopicOf[s]]
             b == n - Len(q)
  <2>1. Follows(q, b) /\ Rising(g, b) /\ b \in Int
    BY <1>1, <1>12 DEF SubInv, Newest, q, g
  <2>2. Follows(Tail(q), b + 1) /\ h = b + 1 /\ h # SENTINEL
    BY <1>8, <1>9, <1>12, <2>1
  <2>3. Rising(Append(g, h), b + 1)
    BY <1>1, <1>2, <2>1, <2>2, RisingAppend
  <2>4. queue'[s] = Tail(q) /\ got'[s] = Append(g, h) /\ published'[TopicOf[s]] - Len(Tail(q)) = b + 1
    BY <1>1, <1>2, <1>7, <2>2
  <2> QED BY <2>2, <2>3, <2>4 DEF Newest
<1>13. SubInv(s)'
  BY <1>10, <1>11, <1>12 DEF SubInv, Policy
<1> QED BY <1>5, <1>6, <1>13 DEF BusInv

\* A message for a subscriber that keeps its subscription.
LEMMA PutKeeps ==
    ASSUME BusInv, NEW s \in subs, ~(Policy(s) = DisconnectSlow /\ Overflows(s)),
           NEW p \in Nat, p = published[TopicOf[s]],
           queue'[s] = Put(s, p + 1), got'[s] = got[s], first'[s] = first[s], published'[TopicOf[s]] = p + 1,
           subs' \subseteq subs, s \notin closed', consumer'[s] = consumer[s]
    PROVE  /\ queue'[s] \in Seq(Nat) /\ Len(queue'[s]) <= MaxSize(s)
           /\ SubInv(s)'
<1> DEFINE q == queue[s]
           g == got[s]
           f == first[s]
           m == MaxSize(s)
<1>1. /\ s \in Subs /\ SubInv(s) /\ q \in Seq(Nat) /\ g \in Seq(Nat) /\ f \in Nat /\ Len(q) \in Nat /\ Len(g) \in Nat
      /\ m \in Nat \ {0} /\ Len(q) <= m
      /\ Policy(s) \in {DropOldest, DisconnectSlow} /\ DropOldest # DisconnectSlow
  <2>1. s \in Subs
    BY DEF BusInv, BusTypeOK
  <2> QED BY <2>1, QueueTypes DEF BusInv, BusTypeOK
<1>2. /\ NoSentinel(q) /\ consumer[s] # "none"
      /\ Policy(s) = DisconnectSlow => Follows(g, f) /\ FollowsUpTo(q, f + Len(g)) /\ f + Len(g) + Len(q) = p
      /\ Policy(s) = DropOldest => Follows(q, p - Len(q)) /\ Rising(g, p - Len(q))
  BY <1>1 DEF SubInv, Life, Gapless, Newest
<1>3. Overflows(s) <=> Len(q) = m
  BY DEF Overflows
<1>4. /\ Overflows(s) => queue'[s] = Append(Tail(q), p + 1)
      /\ ~Overflows(s) => queue'[s] = Append(q, p + 1)
  BY DEF Put
<1>5. p + 1 \in Nat /\ p + 1 # SENTINEL
  BY DEF SENTINEL
<1> HIDE DEF q, g, f, m
<1>6. CASE ~Overflows(s)
  <2> DEFINE a == Append(q, p + 1)
             b == p - Len(q)
  <2>1. a \in Seq(Nat) /\ Len(a) = Len(q) + 1
    BY <1>1, <1>5, AppendIs
  <2>2. b \in Int /\ f + Len(g) \in Int /\ p + 1 = b + Len(q) + 1
    BY <1>1
  <2>3. \A c \in Int : /\ SentinelLast(a) /\ NoSentinel(a)
                       /\ FollowsUpTo(q, c) /\ p + 1 = c + Len(q) + 1 => FollowsUpTo(a, c)
                       /\ Follows(q, c) /\ p + 1 = c + Len(q) + 1 => Follows(a, c)
    <3> SUFFICES ASSUME NEW c \in Int
                 PROVE  /\ SentinelLast(a) /\ NoSentinel(a)
                        /\ FollowsUpTo(q, c) /\ p + 1 = c + Len(q) + 1 => FollowsUpTo(a, c)
                        /\ Follows(q, c) /\ p + 1 = c + Len(q) + 1 => Follows(a, c)
      OBVIOUS
    <3> DEFINE n == p + 1
    <3>1. n \in Nat /\ n # SENTINEL
      BY <1>5
    <3> HIDE DEF n
    <3>2. /\ SentinelLast(Append(q, n)) /\ NoSentinel(Append(q, n))
          /\ FollowsUpTo(q, c) /\ n = c + Len(q) + 1 => FollowsUpTo(Append(q, n), c)
          /\ Follows(q, c) /\ n = c + Len(q) + 1 => Follows(Append(q, n), c)
      BY <1>1, <1>2, <3>1, AppendKeeps
    <3> QED BY <3>2 DEF n
  <2>4. queue'[s] = a
    BY <1>4, <1>6
  <2>5. Len(q) + 1 <= m
    BY <1>1, <1>3, <1>6
  <2>6. p + 1 - (Len(q) + 1) = b
    BY <1>1
  <2> HIDE DEF a, b
  <2>7. Life(s)'
    BY <1>2, <2>2, <2>3, <2>4 DEF Life
  <2>8. ASSUME Policy(s) = DisconnectSlow PROVE Gapless(s)'
    <3>1. Follows(g, f) /\ FollowsUpTo(q, f + Len(g)) /\ f + Len(g) + Len(q) = p
      BY <1>2, <2>8
    <3>2. p + 1 = f + Len(g) + Len(q) + 1
      BY <3>1
    <3>3. FollowsUpTo(a, f + Len(g))
      BY <2>2, <2>3, <3>1, <3>2
    <3>4. f + Len(g) + Len(a) = p + 1
      BY <1>1, <2>1, <3>1
    <3>5. got'[s] = g /\ first'[s] = f
      BY DEF g, f
    <3> QED BY <2>4, <3>1, <3>3, <3>4, <3>5 DEF Gapless
  <2>9. ASSUME Policy(s) = DropOldest PROVE Newest(s)'
    <3>1. Follows(q, b) /\ Rising(g, b)
      BY <1>2, <2>9 DEF b
    <3>2. Follows(a, b)
      BY <2>2, <2>3, <3>1
    <3>3. published'[TopicOf[s]] - Len(queue'[s]) = b /\ got'[s] = g
      BY <2>1, <2>4, <2>6 DEF g
    <3> QED BY <2>4, <3>1, <3>2, <3>3 DEF Newest
  <2> QED BY <2>1, <2>4, <2>5, <2>7, <2>8, <2>9 DEF SubInv, Policy, m
<1>7. CASE Overflows(s)
  <2> DEFINE t == Tail(q)
             a == Append(t, p + 1)
             b == p - Len(q)
  <2>1. q # <<>> /\ Len(q) = m /\ Policy(s) = DropOldest
    BY <1>1, <1>3, <1>7, EmptySeq
  <2>2. t \in Seq(Nat) /\ Len(t) = Len(q) - 1 /\ Len(t) \in Nat
    <3>1. q \in Seq(Nat) /\ q # <<>>
      BY <1>1, <2>1
    <3> HIDE DEF q
    <3>2. t \in Seq(Nat) /\ Len(t) = Len(q) - 1
      BY <3>1, TailIs, Zenon
    <3> QED BY <3>2
  <2>3. b \in Int /\ b + 1 \in Int /\ p + 1 = b + 1 + Len(t) + 1 /\ b <= b + 1
    <3>1. p \in Int /\ Len(q) \in Int /\ Len(t) = Len(q) - 1
      BY <1>1, <2>2
    <3> HIDE DEF t
    <3> QED BY <3>1
  <2>4. NoSentinel(t) /\ (Follows(q, b) => Follows(t, b + 1))
    <3> HIDE DEF b
    <3> QED BY <1>1, <1>2, <2>1, <2>3, TailKeeps
  <2>5. Follows(q, b) /\ Rising(g, b)
    BY <1>2, <2>1
  <2> HIDE DEF t, b
  <2>6. a \in Seq(Nat) /\ Len(a) = Len(q)
    <3> DEFINE n == p + 1
    <3>1. n \in Nat
      BY <1>5
    <3> HIDE DEF n
    <3>2. Append(t, n) \in Seq(Nat) /\ Len(Append(t, n)) = Len(t) + 1
      BY <2>2, <3>1, AppendIs
    <3> QED BY <1>1, <2>2, <3>2 DEF n
  <2>7. SentinelLast(a) /\ NoSentinel(a) /\ Follows(a, b + 1)
    <3> DEFINE n == p + 1
               c == b + 1
    <3>1. n \in Nat /\ n # SENTINEL /\ c \in Int /\ n = c + Len(t) + 1 /\ Follows(t, c)
      BY <1>5, <2>3, <2>4, <2>5
    <3> HIDE DEF n, c
    <3>2. SentinelLast(Append(t, n)) /\ NoSentinel(Append(t, n)) /\ Follows(Append(t, n), c)
      BY <2>2, <2>4, <3>1, AppendKeeps
    <3> QED BY <3>2 DEF n, c
  <2>8. queue'[s] = a
    BY <1>4, <1>7 DEF t
  <2>9. Rising(g, b + 1)
    BY <1>1, <2>3, <2>5, RisingLater
  <2> HIDE DEF a
  <2>10. p + 1 - Len(a) = b + 1
    <3>1. Len(a) \in Nat /\ Len(a) = Len(q) /\ b = p - Len(q)
      BY <1>1, <2>6 DEF b
    <3> QED BY <3>1
  <2>11. Life(s)'
    BY <1>2, <2>7, <2>8 DEF Life
  <2>12. Newest(s)'
    <3>1. published'[TopicOf[s]] - Len(queue'[s]) = b + 1 /\ got'[s] = g
      BY <2>8, <2>10 DEF g
    <3> QED BY <2>7, <2>8, <2>9, <3>1 DEF Newest
  <2> QED BY <1>1, <2>1, <2>6, <2>8, <2>11, <2>12 DEF SubInv, Policy, m
<1> QED BY <1>6, <1>7

LEMMA PublishBus ==
    ASSUME BusInv, NEW t \in Topics, Publish(t)
    PROVE  BusInv'
<1> DEFINE p == published[t]
<1>1. /\ BusTypeOK /\ p \in Nat /\ p < MaxPublished[t] /\ MaxPublished[t] \in Nat
      /\ published' = [published EXCEPT ![t] = p + 1]
      /\ subs' = subs \ Slow(t) /\ closed' = closed \cup Slow(t)
      /\ UNCHANGED <<consumer, first, got>>
  BY EventBusAssumption DEF Publish, BusInv, BusTypeOK
<1>2. Slow(t) \subseteq subs /\ subs \subseteq Subs /\ published'[t] = p + 1
  BY <1>1 DEF Slow, On, BusTypeOK
<1>3. ASSUME NEW s \in Subs
      PROVE  queue'[s] \in Seq(Nat) /\ Len(queue'[s]) <= MaxSize(s) /\ SubInv(s)'
  <2>1. /\ SubInv(s) /\ queue[s] \in Seq(Nat) /\ Len(queue[s]) <= MaxSize(s)
        /\ queue'[s] = IF s \in On(t) \ Slow(t) THEN Put(s, p + 1) ELSE queue[s]
    BY DEF Publish, BusInv, BusTypeOK
  <2>2. CASE TopicOf[s] # t
    <3>1. s \notin On(t) /\ s \notin Slow(t)
      BY <2>2 DEF On, Slow
    <3>2. published'[TopicOf[s]] = published[TopicOf[s]]
      BY <1>1, <2>2, QueueTypes DEF BusTypeOK
    <3>3. SubInv(s)'
      BY <1>1, <2>1, <3>1, <3>2, SubStays
    <3> QED BY <2>1, <3>1, <3>3
  <2>3. CASE TopicOf[s] = t /\ s \notin subs
    <3>1. s \notin On(t) /\ s \notin Slow(t) /\ s \notin subs' /\ queue'[s] = queue[s]
      BY <1>1, <2>1, <2>3 DEF On, Slow
    <3>2. Life(s)'
      BY <1>1, <2>1, <3>1 DEF SubInv, Life
    <3>3. Policy(s) = DisconnectSlow => Gapless(s)'
      BY <1>1, <2>1, <3>1 DEF SubInv, Gapless
    <3> QED BY <2>1, <3>1, <3>2, <3>3 DEF SubInv, Policy
  <2>4. CASE s \in Slow(t)
    <3>1. s \in subs /\ s \notin subs' /\ s \in closed' /\ queue'[s] = queue[s] /\ consumer' = consumer
      BY <1>1, <1>2, <2>1, <2>4
    <3>2. Life(s)'
      BY <2>1, <3>1 DEF SubInv, Life
    <3>3. Policy(s) = DisconnectSlow => Gapless(s)'
      BY <1>1, <2>1, <3>1 DEF SubInv, Gapless
    <3> QED BY <2>1, <3>1, <3>2, <3>3 DEF SubInv, Policy
  <2>5. CASE s \in On(t) \ Slow(t)
    <3>1. /\ s \in subs /\ TopicOf[s] = t /\ s \notin closed /\ ~(Policy(s) = DisconnectSlow /\ Overflows(s))
      BY <2>1, <2>5 DEF On, Slow, SubInv, Life
    <3>2. /\ queue'[s] = Put(s, p + 1) /\ got'[s] = got[s] /\ first'[s] = first[s] /\ p = published[TopicOf[s]]
          /\ published'[TopicOf[s]] = p + 1 /\ subs' \subseteq subs /\ s \notin closed' /\ consumer'[s] = consumer[s]
      BY <1>1, <1>2, <2>1, <2>5, <3>1
    <3> HIDE DEF p
    <3> QED BY <1>1, <3>1, <3>2, PutKeeps
  <2> QED BY <2>2, <2>3, <2>4, <2>5 DEF On
<1>4. BusTypeOK'
  <2>1. published' \in [Topics -> Nat] /\ \A u \in Topics : published'[u] <= MaxPublished[u]
    <3>1. p + 1 \in Nat /\ p + 1 <= MaxPublished[t]
      BY <1>1
    <3> HIDE DEF p
    <3> QED BY <1>1, <3>1 DEF BusTypeOK
  <2>2. subs' \in SUBSET Subs /\ closed' \in SUBSET Subs
    BY <1>1, <1>2 DEF BusTypeOK
  <2>3. queue' \in [Subs -> Seq(Nat)]
    BY <1>3 DEF Publish
  <2>4. \A s \in Subs : Len(queue'[s]) <= MaxSize(s)
    BY <1>3
  <2> QED BY <1>1, <2>1, <2>2, <2>3, <2>4 DEF BusTypeOK, MaxSize
<1> QED BY <1>3, <1>4 DEF BusInv

\* A consumer asks for its next item, or is woken by it.
LEMMA AsksBus ==
    ASSUME BusInv, NEW s \in Subs, Asks(s) \/ Woken(s)
    PROVE  BusInv'
<1>1. UNCHANGED <<published, subs, closed, first>>
  BY DEF Asks, Woken
<1>2. CASE Takes(s)
  BY <1>1, <1>2, TakesBus
<1>3. ASSUME NEW to \in {"done", "get"}, consumer' = [consumer EXCEPT ![s] = to], UNCHANGED <<queue, got>>
      PROVE  BusInv'
  <2>1. consumer \in [Subs -> Consumers]
    BY DEF BusInv, BusTypeOK, Consumers
  <2>2. consumer' \in [Subs -> Consumers] /\ \A u \in Subs : consumer'[u] = "none" => consumer[u] = "none"
    BY <1>3, <2>1 DEF Consumers
  <2> QED BY <1>1, <1>3, <2>2, ConsumersBus
<1> QED BY <1>2, <1>3 DEF Asks, Woken

----------------------------------------------------------------------------
(* The socket and the persister *)

\* Where the consumers of the socket are while its handler is somewhere, and
\* that only one that leaves has ended consumers on the bus.
SocketInv ==
    /\ \A s \in SocketSubs :
          /\ socket = "none" => consumer[s] = "none"
          /\ socket = "snapshot" => consumer[s] = "absent"
          /\ socket \in {"get", "sending"} => consumer[s] \in {"busy", "get", "done"}
          /\ socket = "leaving" => consumer[s] = "done"
          /\ socket = "ended" => s \notin subs /\ consumer[s] \in {"none", "absent", "done"}
    /\ \A s \in subs : consumer[s] = "done" => socket = "leaving" /\ s \in SocketSubs

EventsInv == BusInv /\ SocketInv

LEMMA SubscribersAre ==
    /\ SocketSubs \subseteq Subs /\ Persister \in Subs /\ {Persister} \subseteq Subs /\ Persister \notin SocketSubs
    /\ StateTopic \in Topics /\ LogTopic \in Topics
BY EventsAssumption

LEMMA InitEvents == Init => EventsInv
<1>1. Init => BusInv
  BY InitBus DEF Init
<1>2. Init => SocketInv
  BY SubscribersAre DEF Init, BusInit, SocketInv
<1> QED BY <1>1, <1>2 DEF EventsInv

\* A consumer that asks or is woken ends only if its subscription is off the bus.
LEMMA AskingEnds ==
    ASSUME BusInv, NEW s \in Subs, Asks(s) \/ Woken(s)
    PROVE  /\ consumer' \in [Subs -> Consumers] /\ consumer'[s] \in {"busy", "get", "done"}
           /\ \A u \in Subs \ {s} : consumer'[u] = consumer[u]
           /\ consumer'[s] = "done" => s \notin subs
           /\ subs' = subs
<1>1. consumer \in [Subs -> Consumers] /\ subs' = subs /\ Life(s) /\ queue[s] \in Seq(Nat)
  BY QueueTypes DEF BusInv, BusTypeOK, SubInv, Consumers, Asks, Woken
<1>2. CASE Takes(s)
  <2>1. queue[s] # <<>> /\ (Head(queue[s]) = SENTINEL => s \notin subs)
    <3>1. queue[s] # <<>>
      BY <1>2 DEF Takes
    <3>2. NoSentinel(queue[s]) => Head(queue[s]) # SENTINEL
      BY <1>1, <3>1, TailKeeps, 0 \in Int
    <3> QED BY <1>1, <3>1, <3>2 DEF Life
  <2>2. \/ consumer' = [consumer EXCEPT ![s] = "done"] /\ Head(queue[s]) = SENTINEL
        \/ consumer' = [consumer EXCEPT ![s] = "busy"]
    BY <1>2 DEF Takes
  <2> QED BY <1>1, <2>1, <2>2 DEF Consumers
<1>3. CASE ~Takes(s)
  <2>1. \/ consumer' = [consumer EXCEPT ![s] = "done"] /\ s \in closed
        \/ consumer' = [consumer EXCEPT ![s] = "get"]
    BY <1>3 DEF Asks, Woken
  <2> QED BY <1>1, <2>1 DEF Consumers, Life
<1> QED BY <1>2, <1>3

\* Each step of a subscriber keeps the bus as it should be.
LEMMA NextBus == EventsInv /\ [Next]_vars => BusInv'
<1> SUFFICES ASSUME EventsInv, [Next]_vars PROVE BusInv'
  OBVIOUS
<1>1. BusInv /\ SocketInv /\ consumer \in [Subs -> Consumers]
  BY DEF EventsInv, BusInv, BusTypeOK, Consumers
<1>2. CASE SetState \/ DrainStderr
  BY <1>1, <1>2, PublishBus, SubscribersAre DEF SetState, DrainStderr
<1>3. CASE PersisterStarts \/ Connects
  BY <1>1, <1>3, SubscribeBus, SubscribersAre DEF PersisterStarts, Connects
<1>4. CASE PersisterGoesOn \/ PersisterWoken
  BY <1>1, <1>4, AsksBus, SubscribersAre DEF PersisterGoesOn, PersisterWoken
<1>5. CASE PersisterCancelled
  <2>1. /\ Unsubscribe({Persister}) /\ consumer[Persister] # "none"
        /\ consumer' = [consumer EXCEPT ![Persister] = "done"]
    BY <1>5 DEF PersisterCancelled
  <2>2. consumer' \in [Subs -> Consumers] /\ \A u \in Subs : consumer'[u] = "none" => consumer[u] = "none"
    BY <1>1, <2>1 DEF Consumers
  <2> QED BY <1>1, <2>1, <2>2, UnsubscribeBus, SubscribersAre
<1>6. CASE PeerLeaves \/ SenderWoken \/ Sent
  BY <1>1, <1>6, ConsumersBus DEF PeerLeaves, SenderWoken, Sent, busVars
<1>7. CASE SnapshotSent \/ SendFails
  <2>1. UNCHANGED <<published, subs, queue, closed, first, got>>
    BY <1>7 DEF SnapshotSent, SendFails
  <2>2. \/ consumer' = [s \in Subs |-> IF s \in SocketSubs THEN "busy" ELSE consumer[s]]
        \/ consumer' = [s \in Subs |-> IF s \in SocketSubs THEN "done" ELSE consumer[s]]
    BY <1>7 DEF SnapshotSent, SendFails
  <2>3. consumer' \in [Subs -> Consumers] /\ \A u \in Subs : consumer'[u] = "none" => consumer[u] = "none"
    BY <1>1, <2>2 DEF Consumers
  <2> QED BY <1>1, <2>1, <2>3, ConsumersBus
<1>8. CASE SnapshotFails \/ SocketEnds
  <2>1. Unsubscribe(SocketSubs) /\ consumer' = consumer /\ \A s \in SocketSubs : consumer[s] # "none"
    BY <1>1, <1>8 DEF SnapshotFails, SocketEnds, SocketInv
  <2> QED BY <1>1, <2>1, UnsubscribeBus, SubscribersAre
<1>9. ASSUME NEW s \in SocketSubs, FeederGoesOn(s) \/ FeederWoken(s) PROVE BusInv'
  BY <1>1, <1>9, AsksBus, SubscribersAre DEF FeederGoesOn, FeederWoken
<1>10. CASE UNCHANGED vars
  BY <1>1, <1>10, ConsumersBus DEF vars, busVars
<1> QED BY <1>2, <1>3, <1>4, <1>5, <1>6, <1>7, <1>8, <1>9, <1>10 DEF Next

LEMMA NextSocket == EventsInv /\ [Next]_vars => SocketInv'
<1> SUFFICES ASSUME EventsInv, [Next]_vars PROVE SocketInv'
  OBVIOUS
<1>1. BusInv /\ SocketInv /\ consumer \in [Subs -> Consumers] /\ subs \subseteq Subs
  BY DEF EventsInv, BusInv, BusTypeOK, Consumers
<1> USE SubscribersAre
<1>2. CASE SetState \/ DrainStderr
  <2>1. socket' = socket /\ consumer' = consumer /\ subs' \subseteq subs
    BY <1>2 DEF SetState, DrainStderr, Publish, socketVars
  <2> QED BY <1>1, <2>1 DEF SocketInv
<1>3. CASE PersisterStarts
  <2>1. /\ socket' = socket /\ subs' = subs \cup {Persister}
        /\ consumer'[Persister] = "busy" /\ \A u \in Subs \ {Persister} : consumer'[u] = consumer[u]
    BY <1>3 DEF PersisterStarts, Subscribe, socketVars
  <2> QED BY <1>1, <2>1 DEF SocketInv
<1>4. CASE PersisterGoesOn \/ PersisterWoken
  <2>1. socket' = socket /\ (Asks(Persister) \/ Woken(Persister))
    BY <1>4 DEF PersisterGoesOn, PersisterWoken, socketVars
  <2>2. /\ subs' = subs /\ (consumer'[Persister] = "done" => Persister \notin subs)
        /\ \A u \in Subs \ {Persister} : consumer'[u] = consumer[u]
    BY <1>1, <2>1, AskingEnds
  <2> QED BY <1>1, <2>1, <2>2 DEF SocketInv
<1>5. CASE PersisterCancelled
  <2>1. /\ socket \in {"none", "ended"} /\ socket' = "ended" /\ subs' = subs \ {Persister}
        /\ \A u \in Subs \ {Persister} : consumer'[u] = consumer[u]
    BY <1>1, <1>5 DEF PersisterCancelled, Unsubscribe
  <2>2. \A s \in SocketSubs : consumer[s] = "none" => s \notin subs
    BY <1>1 DEF BusInv, SubInv, Life
  <2> QED BY <1>1, <2>1, <2>2 DEF SocketInv
<1>6. CASE Connects
  <2>1. /\ socket = "none" /\ socket' = "snapshot" /\ subs' = subs \cup SocketSubs
        /\ \A u \in Subs : consumer'[u] = IF u \in SocketSubs THEN "absent" ELSE consumer[u]
    BY <1>6 DEF Connects, Subscribe
  <2> QED BY <1>1, <2>1 DEF SocketInv
<1>7. CASE PeerLeaves
  BY <1>1, <1>7 DEF PeerLeaves, busVars, SocketInv
<1>8. CASE SnapshotSent
  <2>1. /\ socket = "snapshot" /\ socket' = "get" /\ subs' = subs
        /\ \A u \in Subs : consumer'[u] = IF u \in SocketSubs THEN "busy" ELSE consumer[u]
    BY <1>8 DEF SnapshotSent
  <2> QED BY <1>1, <2>1 DEF SocketInv
<1>9. CASE SnapshotFails
  <2>1. socket = "snapshot" /\ socket' = "ended" /\ subs' = subs \ SocketSubs /\ consumer' = consumer
    BY <1>9 DEF SnapshotFails, Unsubscribe
  <2> QED BY <1>1, <2>1 DEF SocketInv
<1>10. ASSUME NEW s \in SocketSubs, FeederGoesOn(s) \/ FeederWoken(s) PROVE SocketInv'
  <2>1. socket \in {"get", "sending"} /\ socket' = socket /\ (Asks(s) \/ Woken(s))
    BY <1>10 DEF FeederGoesOn, FeederWoken, socketVars
  <2>2. /\ subs' = subs /\ (consumer'[s] = "done" => s \notin subs) /\ consumer'[s] \in {"busy", "get", "done"}
        /\ \A u \in Subs \ {s} : consumer'[u] = consumer[u]
    BY <1>1, <2>1, AskingEnds
  <2> QED BY <1>1, <2>1, <2>2 DEF SocketInv
<1>11. CASE SenderWoken \/ Sent
  <2>1. socket \in {"get", "sending"} /\ socket' \in {"get", "sending"} /\ subs' = subs /\ consumer' = consumer
    BY <1>11 DEF SenderWoken, Sent, busVars
  <2> QED BY <1>1, <2>1 DEF SocketInv
<1>12. CASE SendFails
  <2>1. /\ socket = "sending" /\ socket' = "leaving" /\ subs' = subs
        /\ \A u \in Subs : consumer'[u] = IF u \in SocketSubs THEN "done" ELSE consumer[u]
    BY <1>12 DEF SendFails
  <2> QED BY <1>1, <2>1 DEF SocketInv
<1>13. CASE SocketEnds
  <2>1. socket = "leaving" /\ socket' = "ended" /\ subs' = subs \ SocketSubs /\ consumer' = consumer
    BY <1>13 DEF SocketEnds, Unsubscribe
  <2> QED BY <1>1, <2>1 DEF SocketInv
<1>14. CASE UNCHANGED vars
  BY <1>1, <1>14 DEF vars, busVars, socketVars, SocketInv
<1> QED BY <1>2, <1>3, <1>4, <1>5, <1>6, <1>7, <1>8, <1>9, <1>10, <1>11, <1>12, <1>13, <1>14 DEF Next

----------------------------------------------------------------------------
(* Types of the socket and of the saves *)

Pairs == SocketSubs \X Nat

SocketTypes ==
    /\ socket \in {"none", "snapshot", "get", "sending", "leaving", "ended"}
    /\ peer \in BOOLEAN /\ snapshot \in Nat
    /\ merged \in Seq(Pairs) /\ Len(merged) <= MergedSize
    /\ fed \in [SocketSubs -> Nat]
    /\ sending \in Seq(Pairs) /\ Len(sending) = IF socket = "sending" THEN 1 ELSE 0
    /\ shown \in [SocketSubs -> Seq(Nat)]
    /\ row \in Nat /\ raised \in Nat

LEMMA InitTypes == Init => SocketTypes
<1> SUFFICES ASSUME Init PROVE SocketTypes
  OBVIOUS
<1>1. /\ <<>> \in Seq(Pairs) /\ Len(<<>>) = 0 /\ <<>> \in Seq(Nat)
  BY EmptySeq
<1>2. row \in Nat /\ raised \in Nat
  BY DEF Init
<1>3. /\ socket = "none" /\ peer = FALSE /\ snapshot = 0 /\ merged = <<>> /\ sending = <<>>
      /\ fed = [s \in SocketSubs |-> 0] /\ shown = [s \in SocketSubs |-> <<>>]
  BY DEF Init
<1>4. 0 <= MergedSize
  BY EventsAssumption
<1>5. fed \in [SocketSubs -> Nat] /\ shown \in [SocketSubs -> Seq(Nat)]
  BY <1>1, <1>3
<1>6. merged \in Seq(Pairs) /\ Len(merged) = 0 /\ sending \in Seq(Pairs) /\ Len(sending) = 0
  BY <1>1, <1>3
<1> QED BY <1>2, <1>3, <1>4, <1>5, <1>6 DEF SocketTypes

LEMMA PairsHead ==
    ASSUME NEW m \in Seq(Pairs), m # <<>>
    PROVE  /\ Tail(m) \in Seq(Pairs) /\ Len(Tail(m)) = Len(m) - 1 /\ Len(m) \in Nat
           /\ <<Head(m)>> \in Seq(Pairs) /\ Len(<<Head(m)>>) = 1
<1>1. Head(m) \in Pairs /\ Tail(m) \in Seq(Pairs) /\ Len(Tail(m)) = Len(m) - 1 /\ Len(m) \in Nat
  OBVIOUS
<1> QED BY <1>1

LEMMA NextTypes == BusTypeOK /\ SocketTypes /\ [Next]_vars => SocketTypes'
<1> SUFFICES ASSUME BusTypeOK, SocketTypes, [Next]_vars PROVE SocketTypes'
  OBVIOUS
<1> USE SubscribersAre DEF saves
<1>1. MergedSize \in Nat \ {0} /\ Len(merged) \in Nat
  BY EventsAssumption DEF SocketTypes
<1>2. CASE SetState \/ DrainStderr \/ PersisterStarts \/ PersisterWoken
  BY <1>2 DEF SetState, DrainStderr, PersisterStarts, PersisterWoken, socketVars, SocketTypes
<1>3. ASSUME NEW s \in Subs, got[s] # <<>> PROVE Last(got[s]) \in Nat
  <2>1. got[s] \in Seq(Nat) /\ Len(got[s]) \in Nat \ {0}
    BY <1>3, QueueTypes, EmptySeq
  <2> QED BY <2>1 DEF Last
<1>4. CASE PersisterGoesOn
  <2>1. row' \in Nat /\ raised' \in Nat
    <3>1. row \in Nat /\ raised \in Nat
      BY DEF SocketTypes
    <3>2. CASE got[Persister] = <<>>
      BY <1>4, <3>1, <3>2 DEF PersisterGoesOn, saves
    <3>3. CASE got[Persister] # <<>>
      <4>1. Last(got[Persister]) \in Nat
        BY <1>3, <3>3
      <4>2. Saves(Last(got[Persister]))
        BY <1>4, <3>3 DEF PersisterGoesOn
      <4> QED BY <3>1, <4>1, <4>2 DEF Saves
    <3> QED BY <3>2, <3>3
  <2> QED BY <1>4, <2>1 DEF PersisterGoesOn, socketVars, SocketTypes
<1>5. CASE PersisterCancelled
  <2>1. row' \in Nat
    BY <1>3, <1>5 DEF PersisterCancelled, SocketTypes
  <2> QED BY <1>5, <2>1 DEF PersisterCancelled, SocketTypes
<1>6. CASE Connects \/ PeerLeaves \/ SnapshotSent \/ SnapshotFails \/ SocketEnds
  <2>1. Connects => published[StateTopic] \in Nat
    BY DEF BusTypeOK
  <2> QED BY <1>6, <2>1 DEF Connects, PeerLeaves, SnapshotSent, SnapshotFails, SocketEnds, SocketTypes
<1>7. ASSUME NEW s \in SocketSubs, FeederGoesOn(s) PROVE SocketTypes'
  <2>1. CASE fed[s] < Len(got[s])
    <3> DEFINE item == <<s, Last(got[s])>>
    <3>1. got[s] # <<>>
      <4>1. got[s] \in Seq(Nat) /\ fed[s] \in Nat
        BY QueueTypes DEF SocketTypes
      <4> QED BY <2>1, <4>1, EmptySeq
    <3>2. item \in Pairs
      BY <1>3, <3>1 DEF Pairs
    <3>3. /\ Len(merged) < MergedSize /\ merged' = Append(merged, item) /\ fed' = [fed EXCEPT ![s] = @ + 1]
          /\ UNCHANGED <<socket, peer, snapshot, sending, shown, saves>>
      BY <1>7, <2>1 DEF FeederGoesOn
    <3> HIDE DEF item
    <3>4. merged' \in Seq(Pairs) /\ Len(merged') <= MergedSize
      <4>1. Append(merged, item) \in Seq(Pairs) /\ Len(Append(merged, item)) = Len(merged) + 1
        BY <3>2 DEF SocketTypes
      <4> QED BY <1>1, <3>3, <4>1
    <3>5. fed' \in [SocketSubs -> Nat]
      BY <3>3 DEF SocketTypes
    <3> QED BY <3>3, <3>4, <3>5 DEF SocketTypes
  <2>2. CASE ~(fed[s] < Len(got[s]))
    BY <1>7, <2>2 DEF FeederGoesOn, SocketTypes
  <2> QED BY <2>1, <2>2
<1>8. ASSUME NEW s \in SocketSubs, FeederWoken(s) PROVE SocketTypes'
  BY <1>8 DEF FeederWoken, socketVars, SocketTypes
<1>9. ASSUME merged # <<>>, merged' = Tail(merged), sending' = <<Head(merged)>>, socket' = "sending"
      PROVE  /\ merged' \in Seq(Pairs) /\ Len(merged') <= MergedSize
             /\ sending' \in Seq(Pairs) /\ Len(sending') = 1
  <2>1. merged \in Seq(Pairs) /\ Len(merged) <= MergedSize
    BY DEF SocketTypes
  <2> QED BY <1>1, <1>9, <2>1, PairsHead
<1>10. CASE SenderWoken
  <2>1. /\ merged # <<>> /\ merged' = Tail(merged) /\ sending' = <<Head(merged)>> /\ socket' = "sending"
        /\ UNCHANGED <<peer, snapshot, fed, shown, saves>>
    BY <1>10 DEF SenderWoken
  <2> QED BY <1>9, <2>1 DEF SocketTypes
<1>11. CASE Sent
  <2>1. shown' \in [SocketSubs -> Seq(Nat)]
    <3>1. sending \in Seq(Pairs) /\ Len(sending) = 1
      BY <1>11 DEF Sent, SocketTypes
    <3>2. sending[1] \in Pairs
      BY <3>1
    <3>3. sending[1][1] \in SocketSubs /\ sending[1][2] \in Nat
      BY <3>2 DEF Pairs
    <3>4. shown' = [shown EXCEPT ![sending[1][1]] = Append(@, sending[1][2])]
      BY <1>11 DEF Sent
    <3> QED BY <3>3, <3>4 DEF SocketTypes
  <2>2. UNCHANGED <<peer, snapshot, fed, saves>> /\ socket = "sending"
    BY <1>11 DEF Sent
  <2>3. CASE merged = <<>>
    BY <1>11, <2>1, <2>2, <2>3 DEF Sent, SocketTypes
  <2>4. CASE merged # <<>>
    <3>1. merged' = Tail(merged) /\ sending' = <<Head(merged)>> /\ socket' = "sending"
      BY <1>11, <2>2, <2>4 DEF Sent
    <3> QED BY <1>9, <2>1, <2>2, <2>4, <3>1 DEF SocketTypes
  <2> QED BY <2>3, <2>4
<1>12. CASE SendFails
  BY <1>1, <1>12 DEF SendFails, SocketTypes
<1>13. CASE UNCHANGED vars
  BY <1>13 DEF vars, socketVars, SocketTypes
<1> QED BY <1>2, <1>4, <1>5, <1>6, <1>7, <1>8, <1>10, <1>11, <1>12, <1>13 DEF Next

----------------------------------------------------------------------------
(* The theorems *)

\* The invariant of the bus and of its subscribers, on which the theorems below
\* rest: whatever Runtime and the event socket subscribe, publish and consume.
THEOREM EventsKept == FairSpec => [](EventsInv /\ SocketTypes)
<1>1. Init => EventsInv /\ SocketTypes
  BY InitEvents, InitTypes
<1>2. EventsInv /\ SocketTypes /\ [Next]_vars => (EventsInv /\ SocketTypes)'
  BY NextBus, NextSocket, NextTypes DEF EventsInv, BusInv
<1> QED BY <1>1, <1>2, PTL DEF FairSpec

\* Queues never outgrow _TOPIC_POLICY (bus.py:28), nor the merged queue of ws_events
\* (api.py:200) its size; one item at most is being sent.
THEOREM TypeCorrect == FairSpec => []TypeOK
<1>1. EventsInv /\ SocketTypes => TypeOK
  BY DEF EventsInv, BusInv, SocketTypes, Pairs, TypeOK
<1> QED BY <1>1, EventsKept, PTL

\* Subscribers of a DISCONNECT_SLOW topic (bus.py:87) never miss a message while
\* they are on the bus, and what they were given before has no gap, for any
\* number of topics, subscribers and messages and any sizes of their queues.
THEOREM NothingLostSilently == FairSpec => []NoSilentGap
<1>1. EventsInv => NoSilentGap
  BY BusInvGap DEF EventsInv
<1> QED BY <1>1, EventsKept, PTL

\* On a DROP_OLDEST topic (bus.py:87) the newest messages wait for each subscriber,
\* whatever it has missed.
THEOREM NewestWait == FairSpec => []NewestSurvive
<1>1. EventsInv => NewestSurvive
  BY BusInvNewest DEF EventsInv
<1> QED BY <1>1, EventsKept, PTL

\* Handlers of the event socket (api.py:176) leave no subscription and
\* no feeder behind, however they end, and no consumer is gone for good while
\* its subscription is on the bus.
THEOREM NothingStays == FairSpec => []LeavesNothing
<1>1. EventsInv => LeavesNothing
  BY DEF EventsInv, SocketInv, LeavesNothing
<1> QED BY <1>1, EventsKept, PTL

----------------------------------------------------------------------------
(* What is in line for the client *)

\* How many of the first i items of the line l are of s.
Count(l, s, i) == Cardinality({j \in 1 .. i : l[j][1] = s})

\* The items of s in the line l go on in g where those shown end.
InLine(l, s, sh, g) ==
    /\ \A i \in 1 .. Len(sh) : i <= Len(g) /\ sh[i] = g[i]
    /\ \A i \in 1 .. Len(l) : l[i][1] = s =>
          LET k == Len(sh) + Count(l, s, i) IN k \in 1 .. Len(g) /\ l[i][2] = g[k]

LEMMA CountFinite ==
    ASSUME NEW l, NEW s, NEW i \in Nat
    PROVE  IsFiniteSet({j \in 1 .. i : l[j][1] = s}) /\ Cardinality({j \in 1 .. i : l[j][1] = s}) \in Nat
<1> DEFINE S == {j \in 1 .. i : l[j][1] = s}
<1>1. IsFiniteSet(1 .. i) /\ S \in SUBSET (1 .. i)
  BY FS_Interval
<1> HIDE DEF S
<1>2. IsFiniteSet(S)
  BY <1>1, FS_Subset
<1>3. Cardinality(S) \in Nat
  BY <1>2, FS_CardinalityType
<1> QED BY <1>2, <1>3 DEF S

LEMMA CountIs ==
    ASSUME NEW l, NEW s, NEW i \in Nat
    PROVE  /\ Count(l, s, i) \in Nat /\ Count(l, s, 0) = 0
           /\ Count(l, s, i + 1) = IF l[i + 1][1] = s THEN Count(l, s, i) + 1 ELSE Count(l, s, i)
<1> DEFINE S == {j \in 1 .. i : l[j][1] = s}
           T == {j \in 1 .. i + 1 : l[j][1] = s}
<1>1. IsFiniteSet(S) /\ Cardinality(S) \in Nat
  BY CountFinite
<1>2. Count(l, s, 0) = 0
  <2>1. {j \in 1 .. 0 : l[j][1] = s} = {}
    OBVIOUS
  <2> QED BY <2>1, FS_EmptySet DEF Count
<1>3. CASE l[i + 1][1] = s
  <2>1. T = S \cup {i + 1} /\ i + 1 \notin S
    BY <1>3
  <2> HIDE DEF S, T
  <2>2. Cardinality(T) = Cardinality(S) + 1
    BY <1>1, <2>1, FS_AddElement
  <2> QED BY <1>1, <1>2, <1>3, <2>2 DEF Count, S, T
<1>4. CASE l[i + 1][1] # s
  <2>1. T = S
    BY <1>4
  <2> QED BY <1>1, <1>2, <1>4, <2>1 DEF Count
<1> QED BY <1>3, <1>4

LEMMA CountFirst == ASSUME NEW l, NEW s, l[1][1] = s PROVE Count(l, s, 1) = 1
<1>1. 0 \in Nat /\ 0 + 1 = 1
  OBVIOUS
<1>2. Count(l, s, 0) = 0 /\ Count(l, s, 0 + 1) = Count(l, s, 0) + 1
  BY CountIs
<1> QED BY <1>1, <1>2

\* The first i items of m are those of l.
Same(l, m, i) == \A j \in 1 .. i : m[j] = l[j]

LEMMA CountSame ==
    ASSUME NEW l, NEW m, NEW s, NEW i \in Nat, Same(l, m, i)
    PROVE  Count(m, s, i) = Count(l, s, i)
<1>1. {j \in 1 .. i : m[j][1] = s} = {j \in 1 .. i : l[j][1] = s}
  BY DEF Same
<1> QED BY <1>1 DEF Count

\* The next item of l is of another.
LEMMA CountSkips ==
    ASSUME NEW l, NEW s, NEW i \in Nat, l[i + 1][1] # s
    PROVE  Count(l, s, i + 1) = Count(l, s, i)
BY CountIs

\* The first i items of m are those of l that follow its first.
Shifted(l, m, i) == \A j \in 1 .. i : m[j] = l[j + 1]
FirstIs(l, s) == l[1][1] = s

LEMMA CountShift ==
    ASSUME NEW l, NEW m, NEW s, NEW i \in Nat, Shifted(l, m, i)
    PROVE  /\ FirstIs(l, s) => Count(l, s, i + 1) = Count(m, s, i) + 1
           /\ ~FirstIs(l, s) => Count(l, s, i + 1) = Count(m, s, i)
<1> DEFINE A == {j \in 1 .. i : m[j][1] = s}
           B == {j \in 1 .. i + 1 : l[j][1] = s}
           C == B \ {1}
           f == [j \in A |-> j + 1]
<1> USE DEF Shifted, FirstIs
<1>1. IsFiniteSet(A) /\ Cardinality(A) \in Nat /\ IsFiniteSet(B) /\ Cardinality(B) \in Nat
  <2> DEFINE n == i + 1
  <2>1. n \in Nat
    OBVIOUS
  <2> HIDE DEF n
  <2>2. IsFiniteSet({j \in 1 .. n : l[j][1] = s}) /\ Cardinality({j \in 1 .. n : l[j][1] = s}) \in Nat
    BY <2>1, CountFinite, Zenon
  <2>3. IsFiniteSet(A) /\ Cardinality(A) \in Nat
    BY CountFinite, Zenon
  <2> QED BY <2>2, <2>3 DEF n
<1>2. f \in [A -> C]
  OBVIOUS
<1>3. \A a, b \in A : f[a] = f[b] => a = b
  OBVIOUS
<1>4. ASSUME NEW c \in C PROVE \E a \in A : f[a] = c
  <2>1. c - 1 \in 1 .. i /\ (c - 1) + 1 = c
    OBVIOUS
  <2>2. m[c - 1] = l[c]
    BY <2>1
  <2>3. c - 1 \in A
    BY <2>1, <2>2
  <2> QED BY <2>1, <2>3
<1>5. ExistsBijection(A, C)
  <2> HIDE DEF A, C, f
  <2>1. f \in Injection(A, C)
    BY <1>2, <1>3 DEF Injection, IsInjective
  <2>2. f \in Surjection(A, C)
    BY <1>2, <1>4 DEF Surjection
  <2> QED BY <2>1, <2>2 DEF Bijection, ExistsBijection
<1>6. Cardinality(C) = Cardinality(A)
  <2> HIDE DEF A, C
  <2> QED BY <1>1, <1>5, FS_Bijection
<1>7. Cardinality(C) = IF 1 \in B THEN Cardinality(B) - 1 ELSE Cardinality(B)
  <2> HIDE DEF B
  <2> QED BY <1>1, FS_RemoveElement
<1>8. 1 \in B <=> l[1][1] = s
  OBVIOUS
<1> HIDE DEF A, B, C
<1> QED BY <1>1, <1>6, <1>7, <1>8 DEF Count, A, B

\* The feeder is given an item.
LEMMA InLineGiven ==
    ASSUME NEW l, NEW s, NEW sh \in Seq(Nat), NEW g \in Seq(Nat), NEW n \in Nat, InLine(l, s, sh, g)
    PROVE  InLine(l, s, sh, Append(g, n))
<1> DEFINE a == Append(g, n)
<1>1. Len(a) = Len(g) + 1 /\ Len(g) \in Nat /\ \A i \in 1 .. Len(g) : a[i] = g[i]
  BY AppendIs
<1> HIDE DEF a
<1>2. ASSUME NEW i \in 1 .. Len(sh) PROVE i <= Len(a) /\ sh[i] = a[i]
  <2>1. i <= Len(g) /\ sh[i] = g[i] /\ i \in 1 .. Len(g)
    BY DEF InLine
  <2> QED BY <1>1, <2>1
<1>3. ASSUME NEW i \in 1 .. Len(l), l[i][1] = s, NEW k, k = Len(sh) + Count(l, s, i)
      PROVE  k \in 1 .. Len(a) /\ l[i][2] = a[k]
  <2>1. k \in 1 .. Len(g) /\ l[i][2] = g[k]
    BY <1>3 DEF InLine
  <2> QED BY <1>1, <2>1
<1> QED BY <1>2, <1>3 DEF InLine, a

LEMMA AppendAtEnd ==
    ASSUME NEW p \in Seq(Pairs), NEW q \in Seq(Pairs), NEW x \in Pairs
    PROVE  p \o Append(q, x) = Append(p \o q, x)
<1> DEFINE one == <<x>>
<1>1. one \in Seq(Pairs) /\ p \o q \in Seq(Pairs)
  BY ConcatProperties
<1>2. Append(q, x) = q \o one /\ Append(p \o q, x) = (p \o q) \o one
  BY <1>1, AppendIsConcat
<1> HIDE DEF one
<1>3. p \o (q \o one) = (p \o q) \o one
  BY <1>1, ConcatAssociative
<1> QED BY <1>2, <1>3

LEMMA LineGrows ==
    ASSUME NEW l \in Seq(Pairs), NEW x \in Pairs
    PROVE  /\ Append(l, x) \in Seq(Pairs) /\ Len(Append(l, x)) = Len(l) + 1 /\ Len(l) \in Nat
           /\ Append(l, x)[Len(l) + 1] = x /\ \A i \in 1 .. Len(l) : Append(l, x)[i] = l[i]
OBVIOUS

\* It is put in line: of another subscription ...
LEMMA InLineOther ==
    ASSUME NEW l \in Seq(Pairs), NEW s, NEW sh \in Seq(Nat), NEW g \in Seq(Nat), InLine(l, s, sh, g),
           NEW x \in Pairs, x[1] # s
    PROVE  InLine(Append(l, x), s, sh, g) /\ Count(Append(l, x), s, Len(l) + 1) = Count(l, s, Len(l))
<1> DEFINE a == Append(l, x)
<1>1. Len(a) = Len(l) + 1 /\ Len(l) \in Nat /\ a[Len(l) + 1] = x /\ \A i \in 1 .. Len(l) : a[i] = l[i]
  BY LineGrows
<1> HIDE DEF a
<1>2. ASSUME NEW i \in 0 .. Len(l) PROVE Count(a, s, i) = Count(l, s, i)
  <2>1. i \in Nat /\ Same(l, a, i)
    BY <1>1 DEF Same
  <2> QED BY <2>1, CountSame
<1>3. ASSUME NEW i \in 1 .. Len(a), a[i][1] = s, NEW k, k = Len(sh) + Count(a, s, i)
      PROVE  k \in 1 .. Len(g) /\ a[i][2] = g[k]
  <2>1. i \in 1 .. Len(l)
    <3>1. i # Len(l) + 1
      BY <1>1, <1>3
    <3> QED BY <1>1, <3>1
  <2>2. a[i] = l[i] /\ Count(a, s, i) = Count(l, s, i)
    BY <1>1, <1>2, <2>1
  <2> QED BY <1>3, <2>1, <2>2 DEF InLine
<1>4. Count(a, s, Len(l) + 1) = Count(l, s, Len(l))
  <2>1. Count(a, s, Len(l) + 1) = Count(a, s, Len(l))
    <3> DEFINE n == Len(l)
    <3>1. n \in Nat /\ a[n + 1][1] # s
      BY <1>1
    <3> HIDE DEF n
    <3>2. Count(a, s, n + 1) = Count(a, s, n)
      BY <3>1, CountSkips, Zenon
    <3> QED BY <3>2 DEF n
  <2> QED BY <1>1, <1>2, <2>1
<1>5. \A i \in 1 .. Len(sh) : i <= Len(g) /\ sh[i] = g[i]
  BY DEF InLine
<1> QED BY <1>3, <1>4, <1>5 DEF InLine, a

\* ... or the last one given of this.
LEMMA InLineFed ==
    ASSUME NEW l \in Seq(Pairs), NEW s, NEW sh \in Seq(Nat), NEW g \in Seq(Nat), InLine(l, s, sh, g),
           Len(sh) + Count(l, s, Len(l)) + 1 = Len(g), NEW x \in Pairs, x[1] = s, x[2] = g[Len(g)]
    PROVE  InLine(Append(l, x), s, sh, g) /\ Len(sh) + Count(Append(l, x), s, Len(l) + 1) = Len(g)
<1> DEFINE a == Append(l, x)
<1>1. Len(a) = Len(l) + 1 /\ Len(l) \in Nat /\ a[Len(l) + 1] = x /\ \A i \in 1 .. Len(l) : a[i] = l[i]
  BY LineGrows
<1> HIDE DEF a
<1>2. ASSUME NEW i \in 0 .. Len(l) PROVE Count(a, s, i) = Count(l, s, i)
  <2>1. i \in Nat /\ Same(l, a, i)
    BY <1>1 DEF Same
  <2> QED BY <2>1, CountSame
<1>3. Len(sh) + Count(a, s, Len(l) + 1) = Len(g) /\ Len(sh) \in Nat /\ Len(g) \in Nat \ {0}
  <2>1. Count(a, s, Len(l) + 1) = Count(a, s, Len(l)) + 1
    BY <1>1, CountIs
  <2>2. Count(a, s, Len(l)) = Count(l, s, Len(l)) /\ Count(l, s, Len(l)) \in Nat
    BY <1>1, <1>2, CountIs
  <2>3. Len(sh) \in Nat /\ Len(g) \in Nat
    OBVIOUS
  <2> QED BY <2>1, <2>2, <2>3
<1>4. ASSUME NEW i \in 1 .. Len(a), a[i][1] = s, NEW k, k = Len(sh) + Count(a, s, i)
      PROVE  k \in 1 .. Len(g) /\ a[i][2] = g[k]
  <2>1. CASE i = Len(l) + 1
    <3>1. k = Len(g) /\ a[i] = x
      BY <1>1, <1>3, <1>4, <2>1
    <3> QED BY <1>3, <3>1
  <2>2. CASE i # Len(l) + 1
    <3>1. i \in 1 .. Len(l)
      BY <1>1, <2>2
    <3>2. a[i] = l[i] /\ Count(a, s, i) = Count(l, s, i)
      BY <1>1, <1>2, <3>1
    <3> QED BY <1>4, <3>1, <3>2 DEF InLine
  <2> QED BY <2>1, <2>2
<1>5. \A i \in 1 .. Len(sh) : i <= Len(g) /\ sh[i] = g[i]
  BY DEF InLine
<1> QED BY <1>3, <1>4, <1>5 DEF InLine, a

\* The first item of l is sent to the client: of this subscription ...
LEMMA InLineShown ==
    ASSUME NEW l \in Seq(Pairs), NEW m \in Seq(Pairs), NEW s, NEW sh \in Seq(Nat), NEW g \in Seq(Nat),
           InLine(l, s, sh, g), Len(l) = Len(m) + 1, \A j \in 1 .. Len(m) : m[j] = l[j + 1], l[1][1] = s
    PROVE  /\ InLine(m, s, Append(sh, l[1][2]), g)
           /\ Len(Append(sh, l[1][2])) + Count(m, s, Len(m)) = Len(sh) + Count(l, s, Len(l))
<1>1. Len(m) \in Nat /\ Len(l) \in Nat /\ 1 \in 1 .. Len(l) /\ Len(sh) \in Nat /\ Len(g) \in Nat
  OBVIOUS
<1>2. ASSUME NEW i \in 0 .. Len(m) PROVE Count(l, s, i + 1) = Count(m, s, i) + 1 /\ Count(m, s, i) \in Nat
  <2>1. i \in Nat /\ Shifted(l, m, i)
    BY <1>1 DEF Shifted
  <2>2. FirstIs(l, s)
    BY DEF FirstIs
  <2>3. Count(l, s, i + 1) = Count(m, s, i) + 1
    BY <2>1, <2>2, CountShift
  <2>4. Count(m, s, i) \in Nat
    BY <2>1, CountIs, Zenon
  <2> QED BY <2>3, <2>4
<1>3. Len(sh) + 1 \in 1 .. Len(g) /\ l[1][2] = g[Len(sh) + 1] /\ l[1][2] \in Nat
  <2>1. Count(l, s, 1) = 1
    BY CountFirst
  <2>2. l[1][2] = g[Len(sh) + 1] /\ Len(sh) + 1 \in 1 .. Len(g)
    BY <1>1, <2>1 DEF InLine
  <2> QED BY <2>2
<1> DEFINE x == l[1][2]
           t == Append(sh, x)
<1>4. Len(t) = Len(sh) + 1 /\ t[Len(sh) + 1] = x /\ \A i \in 1 .. Len(sh) : t[i] = sh[i]
  BY <1>3
<1> HIDE DEF t, x
<1>5. ASSUME NEW i \in 1 .. Len(t) PROVE i <= Len(g) /\ t[i] = g[i]
  <2>1. CASE i = Len(sh) + 1
    BY <1>1, <1>3, <1>4, <2>1 DEF x
  <2>2. CASE i # Len(sh) + 1
    <3>1. i \in 1 .. Len(sh)
      BY <1>1, <1>4, <2>2
    <3> QED BY <1>4, <3>1 DEF InLine
  <2> QED BY <2>1, <2>2
<1>6. ASSUME NEW i \in 1 .. Len(m), m[i][1] = s, NEW k, k = Len(t) + Count(m, s, i)
      PROVE  k \in 1 .. Len(g) /\ m[i][2] = g[k]
  <2>1. i + 1 \in 1 .. Len(l) /\ m[i] = l[i + 1] /\ i \in 0 .. Len(m)
    BY <1>1
  <2>2. k = Len(sh) + Count(l, s, i + 1)
    BY <1>1, <1>2, <1>4, <1>6, <2>1
  <2> QED BY <1>6, <2>1, <2>2 DEF InLine
<1>7. Len(t) + Count(m, s, Len(m)) = Len(sh) + Count(l, s, Len(l))
  <2>1. Count(l, s, Len(m) + 1) = Count(m, s, Len(m)) + 1 /\ Count(m, s, Len(m)) \in Nat
    BY <1>1, <1>2
  <2>2. Len(l) = Len(m) + 1
    OBVIOUS
  <2> QED BY <1>1, <1>4, <2>1, <2>2
<1> QED BY <1>5, <1>6, <1>7 DEF InLine, t, x

\* ... or of another.
LEMMA InLineLeft ==
    ASSUME NEW l \in Seq(Pairs), NEW m \in Seq(Pairs), NEW s, NEW sh \in Seq(Nat), NEW g \in Seq(Nat),
           InLine(l, s, sh, g), Len(l) = Len(m) + 1, \A j \in 1 .. Len(m) : m[j] = l[j + 1], l[1][1] # s
    PROVE  InLine(m, s, sh, g) /\ Count(m, s, Len(m)) = Count(l, s, Len(l))
<1>1. Len(m) \in Nat /\ Len(l) \in Nat
  OBVIOUS
<1>2. ASSUME NEW i \in 0 .. Len(m) PROVE Count(l, s, i + 1) = Count(m, s, i)
  <2>1. i \in Nat /\ Shifted(l, m, i)
    BY <1>1 DEF Shifted
  <2>2. ~FirstIs(l, s)
    BY DEF FirstIs
  <2> QED BY <2>1, <2>2, CountShift
<1>3. ASSUME NEW i \in 1 .. Len(m), m[i][1] = s, NEW k, k = Len(sh) + Count(m, s, i)
      PROVE  k \in 1 .. Len(g) /\ m[i][2] = g[k]
  <2>1. i + 1 \in 1 .. Len(l) /\ m[i] = l[i + 1] /\ i \in 0 .. Len(m)
    BY <1>1
  <2>2. k = Len(sh) + Count(l, s, i + 1)
    BY <1>2, <1>3, <2>1
  <2> QED BY <1>3, <2>1, <2>2 DEF InLine
<1>4. Count(m, s, Len(m)) = Count(l, s, Len(l))
  BY <1>1, <1>2
<1>5. \A i \in 1 .. Len(sh) : i <= Len(g) /\ sh[i] = g[i]
  BY DEF InLine
<1> QED BY <1>3, <1>4, <1>5 DEF InLine

----------------------------------------------------------------------------
(* The way of an item to the client *)

\* As long as the socket has not failed: what was given to a feeder is shown, in
\* line or, one item, in its hand; and the snapshot is where the state feed begins.
OrderInv ==
    /\ socket \in {"none", "snapshot", "get", "sending"} =>
          \A s \in SocketSubs :
              /\ InLine(Line, s, shown[s], got[s])
              /\ Len(shown[s]) + Count(Line, s, Len(Line)) = fed[s]
              /\ fed[s] = Len(got[s]) \/ (consumer[s] = "busy" /\ fed[s] + 1 = Len(got[s]))
    /\ socket \in {"snapshot", "get", "sending"} => snapshot = first[StateFeed]

LEMMA OrderNothingMissed == EventsInv /\ SocketTypes /\ OrderInv => NothingMissed
<1> SUFFICES ASSUME EventsInv, SocketTypes, OrderInv, socket \in {"snapshot", "get", "sending"}
             PROVE  /\ \A s \in SocketSubs :
                          /\ \A i \in 1 .. Len(shown[s]) : i <= Len(got[s]) /\ shown[s][i] = got[s][i]
                          /\ \A i \in 1 .. Len(Line) : Line[i][1] = s =>
                                LET k == Len(shown[s]) + Ahead(s, i)
                                IN  k \in 1 .. Len(got[s]) /\ Line[i][2] = got[s][k]
                          /\ Len(got[s]) - (Len(shown[s]) + Ahead(s, Len(Line))) \in {0, 1}
                    /\ \A i \in 1 .. Len(got[StateFeed]) : got[StateFeed][i] = snapshot + i
                    /\ StateFeed \in subs => snapshot + Len(Stream(StateFeed)) = published[StateTopic]
  BY DEF NothingMissed
<1>1. \A s, i : Ahead(s, i) = Count(Line, s, i)
  BY DEF Ahead, Count
<1>2. ASSUME NEW s \in SocketSubs
      PROVE  /\ InLine(Line, s, shown[s], got[s])
             /\ Len(got[s]) - (Len(shown[s]) + Ahead(s, Len(Line))) \in {0, 1}
  <2>1. /\ InLine(Line, s, shown[s], got[s]) /\ Len(shown[s]) + Count(Line, s, Len(Line)) = fed[s]
        /\ fed[s] = Len(got[s]) \/ fed[s] + 1 = Len(got[s])
    BY DEF OrderInv
  <2>2. Len(got[s]) \in Nat /\ fed[s] \in Nat
    BY QueueTypes, SubscribersAre DEF EventsInv, BusInv, SocketTypes
  <2>3. Len(got[s]) - fed[s] \in {0, 1}
    BY <2>1, <2>2
  <2> QED BY <1>1, <2>1, <2>3
<1>3. /\ StateFeed \in Subs /\ TopicOf[StateFeed] = StateTopic /\ Policy(StateFeed) = DisconnectSlow
      /\ snapshot = first[StateFeed]
  BY EventsAssumption DEF OrderInv, Policy
<1>4. \A i \in 1 .. Len(got[StateFeed]) : got[StateFeed][i] = snapshot + i
  BY <1>3 DEF EventsInv, BusInv, SubInv, Gapless, Follows
<1>5. StateFeed \in subs => snapshot + Len(Stream(StateFeed)) = published[StateTopic]
  BY <1>3, BusInvGap DEF EventsInv, NoSilentGap
<1> QED BY <1>1, <1>2, <1>4, <1>5 DEF InLine

LEMMA InitOrder == Init => OrderInv
<1> SUFFICES ASSUME Init PROVE OrderInv
  OBVIOUS
<1>1. Line = <<>> /\ socket = "none"
  BY DEF Init, Line
<1>2. ASSUME NEW s \in SocketSubs
      PROVE  shown[s] = <<>> /\ fed[s] = 0 /\ got[s] = <<>>
  BY SubscribersAre DEF Init, BusInit
<1>3. \A s : Count(<<>>, s, 0) = 0
  BY CountIs, 0 \in Nat
<1>4. Len(<<>>) = 0
  OBVIOUS
<1> QED BY <1>1, <1>2, <1>3, <1>4 DEF OrderInv, InLine

\* A consumer asks or is woken: what it may have been given, it holds.
LEMMA AskingGives ==
    ASSUME BusInv, NEW s \in Subs, Asks(s) \/ Woken(s)
    PROVE  /\ first' = first
           /\ \A u \in Subs \ {s} : got'[u] = got[u] /\ consumer'[u] = consumer[u]
           /\ \/ got'[s] = got[s]
              \/ consumer'[s] = "busy" /\ \E n \in Nat : got'[s] = Append(got[s], n)
<1>1. /\ consumer \in [Subs -> Consumers] /\ queue[s] \in Seq(Nat) /\ got \in [Subs -> Seq(Nat)]
  BY QueueTypes DEF BusInv, BusTypeOK, Consumers
<1>2. CASE Takes(s)
  <2>1. queue[s] # <<>> /\ Head(queue[s]) \in Nat
    BY <1>1, <1>2, TailIs DEF Takes
  <2>2. \/ got' = got
        \/ /\ got' = [got EXCEPT ![s] = Append(@, Head(queue[s]))]
           /\ consumer' = [consumer EXCEPT ![s] = "busy"]
    BY <1>2 DEF Takes
  <2>3. consumer' = [consumer EXCEPT ![s] = "busy"] \/ consumer' = [consumer EXCEPT ![s] = "done"]
    BY <1>2 DEF Takes
  <2> DEFINE n == Head(queue[s])
  <2> HIDE DEF n
  <2>4. got' = got \/ (got' = [got EXCEPT ![s] = Append(@, n)] /\ consumer' = [consumer EXCEPT ![s] = "busy"])
    BY <2>2 DEF n
  <2>5. n \in Nat /\ first' = first
    BY <2>1 DEF n, Asks, Woken
  <2> QED BY <1>1, <2>3, <2>4, <2>5
<1>3. CASE ~Takes(s)
  <2>1. /\ got' = got /\ first' = first
        /\ consumer' = [consumer EXCEPT ![s] = "done"] \/ consumer' = [consumer EXCEPT ![s] = "get"]
    BY <1>3 DEF Asks, Woken
  <2> QED BY <1>1, <2>1
<1> QED BY <1>2, <1>3

\* The line, what is shown and the feeders stay as they are, and so do the
\* consumers, unless they are at work now.
LEMMA OrderStays ==
    ASSUME OrderInv, socket \in {"none", "snapshot", "get", "sending"},
           UNCHANGED <<shown, fed>>, Line' = Line, snapshot' = snapshot, first'[StateFeed] = first[StateFeed],
           socket' \in {"snapshot", "get", "sending"} => socket \in {"snapshot", "get", "sending"},
           \A s \in SocketSubs : got'[s] = got[s] /\ (consumer'[s] = consumer[s] \/ consumer[s] # "busy")
    PROVE  OrderInv'
BY DEF OrderInv

\* A feeder whose items are all in line asks for the next.
LEMMA OrderGiven ==
    ASSUME EventsInv, SocketTypes, NEW s \in SocketSubs, NEW l, NEW f,
           InLine(l, s, shown[s], got[s]), f = Len(got[s]), Asks(s) \/ Woken(s)
    PROVE  /\ InLine(l, s, shown[s], got'[s])
           /\ f = Len(got'[s]) \/ (consumer'[s] = "busy" /\ f + 1 = Len(got'[s]))
<1>1. s \in Subs /\ shown[s] \in Seq(Nat) /\ got[s] \in Seq(Nat) /\ BusInv
  BY SubscribersAre, QueueTypes DEF EventsInv, BusInv, SocketTypes
<1>2. CASE got'[s] = got[s]
  BY <1>2
<1>3. ASSUME NEW n \in Nat, consumer'[s] = "busy", got'[s] = Append(got[s], n)
      PROVE  /\ InLine(l, s, shown[s], got'[s])
             /\ f = Len(got'[s]) \/ (consumer'[s] = "busy" /\ f + 1 = Len(got'[s]))
  <2>1. InLine(l, s, shown[s], Append(got[s], n))
    BY <1>1, InLineGiven
  <2>2. Len(Append(got[s], n)) = Len(got[s]) + 1
    BY <1>1
  <2> QED BY <1>3, <2>1, <2>2
<1> QED BY <1>1, <1>2, <1>3, AskingGives

LEMMA LineTypes ==
    ASSUME SocketTypes
    PROVE  /\ merged \in Seq(Pairs) /\ sending \in Seq(Pairs) /\ Line \in Seq(Pairs)
           /\ Len(Line) \in Nat
<1>1. merged \in Seq(Pairs) /\ sending \in Seq(Pairs)
  BY DEF SocketTypes
<1>2. sending \o merged \in Seq(Pairs)
  BY <1>1, ConcatProperties
<1> QED BY <1>1, <1>2 DEF Line

\* A feeder puts its item in line.
LEMMA OrderFed ==
    ASSUME EventsInv, SocketTypes, OrderInv, NEW s \in SocketSubs, FeederGoesOn(s) PROVE OrderInv'
<1>1. /\ socket \in {"get", "sending"} /\ UNCHANGED <<socket, snapshot, sending, shown>> /\ Asks(s)
      /\ s \in Subs /\ SocketSubs \subseteq Subs /\ StateFeed \in Subs
      /\ BusInv /\ consumer[s] = "busy"
  BY SubscribersAre, EventsAssumption DEF FeederGoesOn, Asks, EventsInv
<1>2. /\ first' = first /\ \A u \in Subs \ {s} : got'[u] = got[u] /\ consumer'[u] = consumer[u]
  BY <1>1, AskingGives
<1>3. \A u \in SocketSubs :
         /\ InLine(Line, u, shown[u], got[u]) /\ Len(shown[u]) + Count(Line, u, Len(Line)) = fed[u]
         /\ fed[u] = Len(got[u]) \/ (consumer[u] = "busy" /\ fed[u] + 1 = Len(got[u]))
         /\ shown[u] \in Seq(Nat) /\ got[u] \in Seq(Nat) /\ fed[u] \in Nat /\ Len(got[u]) \in Nat
  BY <1>1, QueueTypes DEF OrderInv, SocketTypes, BusInv
<1>4. snapshot' = first'[StateFeed]
  BY <1>1, <1>2 DEF OrderInv
<1>5. CASE fed[s] < Len(got[s])
  <2> DEFINE x == <<s, Last(got[s])>>
             a == Append(Line, x)
             f == fed[s] + 1
  <2>1. fed[s] + 1 = Len(got[s]) /\ Len(got[s]) \in Nat \ {0} /\ got[s] \in Seq(Nat)
    BY <1>3, <1>5
  <2>2. x \in Pairs /\ x[1] = s /\ x[2] = got[s][Len(got[s])]
    <3>1. Last(got[s]) = got[s][Len(got[s])] /\ got[s][Len(got[s])] \in Nat
      BY <2>1 DEF Last
    <3> QED BY <3>1 DEF Pairs
  <2>3. merged' = Append(merged, x) /\ fed' = [fed EXCEPT ![s] = f]
    BY <1>5 DEF FeederGoesOn
  <2> HIDE DEF x
  <2>4. Line' = a
    <3>1. sending \o Append(merged, x) = Append(sending \o merged, x)
      BY <2>2, LineTypes, AppendAtEnd, Zenon
    <3>2. Line' = sending \o Append(merged, x)
      BY <1>1, <2>3 DEF Line
    <3> QED BY <3>1, <3>2 DEF Line
  <2>5. Line \in Seq(Pairs) /\ Len(a) = Len(Line) + 1
    BY <2>2, LineTypes, LineGrows
  <2>6. InLine(a, s, shown[s], got[s]) /\ Len(shown[s]) + Count(a, s, Len(a)) = f
    <3>1. Len(shown[s]) + Count(Line, s, Len(Line)) + 1 = Len(got[s])
      BY <1>3, <2>1
    <3>2. InLine(a, s, shown[s], got[s]) /\ Len(shown[s]) + Count(a, s, Len(Line) + 1) = Len(got[s])
      <4> DEFINE l == Line
                 sh == shown[s]
                 g == got[s]
      <4>1. /\ l \in Seq(Pairs) /\ sh \in Seq(Nat) /\ g \in Seq(Nat) /\ InLine(l, s, sh, g)
            /\ Len(sh) + Count(l, s, Len(l)) + 1 = Len(g) /\ x \in Pairs /\ x[1] = s /\ x[2] = g[Len(g)]
        BY <1>3, <2>2, <2>5, <3>1
      <4> HIDE DEF l, sh, g
      <4>2. InLine(Append(l, x), s, sh, g) /\ Len(sh) + Count(Append(l, x), s, Len(l) + 1) = Len(g)
        BY <4>1, InLineFed
      <4> QED BY <4>2 DEF l, sh, g
    <3> QED BY <2>1, <2>5, <3>2
  <2>7. ASSUME NEW u \in SocketSubs \ {s}
        PROVE  InLine(a, u, shown[u], got[u]) /\ Count(a, u, Len(a)) = Count(Line, u, Len(Line))
    BY <1>3, <2>2, <2>5, InLineOther
  <2> HIDE DEF a
  <2>8. f = Len(got[s])
    BY <2>1
  <2>9. fed'[s] = f /\ \A u \in SocketSubs \ {s} : fed'[u] = fed[u]
    BY <2>3 DEF SocketTypes
  <2> HIDE DEF f
  <2>10. /\ InLine(a, s, shown[s], got'[s])
         /\ f = Len(got'[s]) \/ (consumer'[s] = "busy" /\ f + 1 = Len(got'[s]))
    BY <1>1, <2>6, <2>8, OrderGiven
  <2>11. ASSUME NEW u \in SocketSubs
         PROVE  /\ InLine(Line', u, shown'[u], got'[u])
                /\ Len(shown'[u]) + Count(Line', u, Len(Line')) = fed'[u]
                /\ fed'[u] = Len(got'[u]) \/ (consumer'[u] = "busy" /\ fed'[u] + 1 = Len(got'[u]))
    <3>1. CASE u = s
      BY <1>1, <2>4, <2>6, <2>9, <2>10, <3>1
    <3>2. CASE u # s
      BY <1>1, <1>2, <1>3, <2>4, <2>7, <2>9, <3>2
    <3> QED BY <3>1, <3>2
  <2> QED BY <1>4, <2>11 DEF OrderInv
<1>6. CASE ~(fed[s] < Len(got[s]))
  <2>1. Line' = Line /\ fed' = fed
    BY <1>1, <1>6 DEF FeederGoesOn, Line
  <2>2. fed[s] = Len(got[s])
    BY <1>3, <1>6
  <2>3. /\ InLine(Line, s, shown[s], got'[s])
        /\ fed[s] = Len(got'[s]) \/ (consumer'[s] = "busy" /\ fed[s] + 1 = Len(got'[s]))
    BY <1>1, <1>3, <2>2, OrderGiven
  <2>4. ASSUME NEW u \in SocketSubs
        PROVE  /\ InLine(Line', u, shown'[u], got'[u])
               /\ Len(shown'[u]) + Count(Line', u, Len(Line')) = fed'[u]
               /\ fed'[u] = Len(got'[u]) \/ (consumer'[u] = "busy" /\ fed'[u] + 1 = Len(got'[u]))
    BY <1>1, <1>2, <1>3, <2>1, <2>3
  <2> QED BY <1>4, <2>4 DEF OrderInv
<1> QED BY <1>5, <1>6

LEMMA OrderWoken ==
    ASSUME EventsInv, SocketTypes, OrderInv, NEW s \in SocketSubs, FeederWoken(s) PROVE OrderInv'
<1>1. /\ socket \in {"get", "sending"} /\ UNCHANGED socketVars /\ Woken(s) /\ consumer[s] = "get"
      /\ s \in Subs /\ SocketSubs \subseteq Subs /\ StateFeed \in Subs /\ BusInv
  BY SubscribersAre, EventsAssumption DEF FeederWoken, Woken, EventsInv
<1>2. /\ first' = first /\ \A u \in Subs \ {s} : got'[u] = got[u] /\ consumer'[u] = consumer[u]
  BY <1>1, AskingGives
<1>3. \A u \in SocketSubs :
         /\ InLine(Line, u, shown[u], got[u]) /\ Len(shown[u]) + Count(Line, u, Len(Line)) = fed[u]
         /\ fed[u] = Len(got[u]) \/ (consumer[u] = "busy" /\ fed[u] + 1 = Len(got[u]))
  BY <1>1 DEF OrderInv
<1>4. Line' = Line /\ fed' = fed /\ shown' = shown /\ socket' = socket /\ snapshot' = snapshot
  BY <1>1 DEF socketVars, Line
<1>5. /\ InLine(Line, s, shown[s], got'[s])
      /\ fed[s] = Len(got'[s]) \/ (consumer'[s] = "busy" /\ fed[s] + 1 = Len(got'[s]))
  BY <1>1, <1>3, OrderGiven
<1>6. ASSUME NEW u \in SocketSubs
      PROVE  /\ InLine(Line', u, shown'[u], got'[u])
             /\ Len(shown'[u]) + Count(Line', u, Len(Line')) = fed'[u]
             /\ fed'[u] = Len(got'[u]) \/ (consumer'[u] = "busy" /\ fed'[u] + 1 = Len(got'[u]))
  BY <1>1, <1>2, <1>3, <1>4, <1>5
<1> QED BY <1>1, <1>2, <1>4, <1>6 DEF OrderInv

\* The sender sends an item.
LEMMA OrderSent == ASSUME EventsInv, SocketTypes, OrderInv, Sent PROVE OrderInv'
<1>1. /\ socket = "sending" /\ socket' \in {"get", "sending"} /\ UNCHANGED <<busVars, snapshot, fed>>
      /\ shown' = [shown EXCEPT ![sending[1][1]] = Append(@, sending[1][2])]
  BY DEF Sent
<1>2. \A u \in SocketSubs :
         /\ InLine(Line, u, shown[u], got[u]) /\ Len(shown[u]) + Count(Line, u, Len(Line)) = fed[u]
         /\ fed[u] = Len(got[u]) \/ (consumer[u] = "busy" /\ fed[u] + 1 = Len(got[u]))
         /\ shown[u] \in Seq(Nat) /\ got[u] \in Seq(Nat)
  BY <1>1, QueueTypes, SubscribersAre DEF OrderInv, SocketTypes, EventsInv, BusInv
<1>3. merged \in Seq(Pairs) /\ sending \in Seq(Pairs) /\ Line \in Seq(Pairs) /\ Len(sending) = 1
  BY <1>1, LineTypes DEF SocketTypes
<1>4. /\ Len(Line) = Len(merged) + 1 /\ Line[1] = sending[1]
      /\ \A j \in 1 .. Len(merged) : merged[j] = Line[j + 1]
  <2>1. /\ Len(sending \o merged) = Len(sending) + Len(merged)
        /\ \A i \in 1 .. Len(sending) + Len(merged) :
              (sending \o merged)[i] = IF i <= Len(sending) THEN sending[i] ELSE merged[i - Len(sending)]
    BY <1>3, ConcatProperties
  <2>2. Len(merged) \in Nat
    BY <1>3
  <2> QED BY <1>3, <2>1, <2>2 DEF Line
<1>5. Line' = merged
  <2>1. CASE merged = <<>>
    BY <1>3, <2>1 DEF Sent, Line
  <2>2. CASE merged # <<>>
    <3>1. Line' = <<Head(merged)>> \o Tail(merged)
      BY <2>2 DEF Sent, Line
    <3>2. <<Head(merged)>> \o Tail(merged) = merged
      BY <1>3, <2>2
    <3> QED BY <3>1, <3>2
  <2> QED BY <2>1, <2>2
<1> DEFINE x == sending[1]
<1>6. x \in Pairs /\ x[1] \in SocketSubs /\ x[2] \in Nat
  BY <1>3 DEF Pairs
<1>7. ASSUME NEW u \in SocketSubs
      PROVE  /\ InLine(merged, u, shown'[u], got[u])
             /\ Len(shown'[u]) + Count(merged, u, Len(merged)) = fed[u]
  <2>1. CASE u = x[1]
    <3>1. shown'[u] = Append(shown[u], Line[1][2]) /\ Line[1][1] = u
      BY <1>1, <1>4, <2>1 DEF SocketTypes
    <3> DEFINE l == Line
               sh == shown[u]
               g == got[u]
    <3>2. /\ l \in Seq(Pairs) /\ merged \in Seq(Pairs) /\ sh \in Seq(Nat) /\ g \in Seq(Nat)
          /\ InLine(l, u, sh, g) /\ Len(l) = Len(merged) + 1 /\ l[1][1] = u
          /\ \A j \in 1 .. Len(merged) : merged[j] = l[j + 1]
      BY <1>2, <1>3, <1>4, <3>1
    <3>3. shown'[u] = Append(sh, l[1][2]) /\ Len(sh) + Count(l, u, Len(l)) = fed[u]
      BY <1>2, <3>1
    <3> HIDE DEF l, sh, g
    <3>4. /\ InLine(merged, u, Append(sh, l[1][2]), g)
          /\ Len(Append(sh, l[1][2])) + Count(merged, u, Len(merged)) = Len(sh) + Count(l, u, Len(l))
      BY <3>2, InLineShown
    <3> QED BY <3>3, <3>4 DEF g
  <2>2. CASE u # x[1]
    <3>1. shown'[u] = shown[u] /\ Line[1][1] # u
      BY <1>1, <1>4, <2>2 DEF SocketTypes
    <3> QED BY <1>2, <1>3, <1>4, <3>1, InLineLeft
  <2> QED BY <2>1, <2>2
<1> HIDE DEF x
<1> QED BY <1>1, <1>2, <1>5, <1>7 DEF OrderInv, busVars

LEMMA NextOrder == EventsInv /\ SocketTypes /\ OrderInv /\ [Next]_vars => OrderInv'
<1> SUFFICES ASSUME EventsInv, SocketTypes, OrderInv, [Next]_vars PROVE OrderInv'
  OBVIOUS
<1> USE SubscribersAre
<1>1. BusInv /\ SocketInv /\ consumer \in [Subs -> Consumers] /\ StateFeed \in SocketSubs
  BY EventsAssumption DEF EventsInv, BusInv, BusTypeOK, Consumers
<1>2. socketVars' = socketVars => Line' = Line
  BY DEF socketVars, Line
<1>3. CASE socket \in {"leaving", "ended"}
  <2>1. socket' \in {"leaving", "ended"}
    BY <1>3 DEF Next, SetState, DrainStderr, PersisterStarts, PersisterGoesOn, PersisterWoken, PersisterCancelled,
          Connects, PeerLeaves, SnapshotSent, SnapshotFails, FeederGoesOn, FeederWoken, SenderWoken, Sent,
          SendFails, SocketEnds, vars, socketVars
  <2> QED BY <2>1 DEF OrderInv
<1> SUFFICES ASSUME socket \in {"none", "snapshot", "get", "sending"} PROVE OrderInv'
  BY <1>3 DEF SocketTypes
<1>4. CASE SetState \/ DrainStderr
  BY <1>1, <1>2, <1>4, OrderStays DEF SetState, DrainStderr, Publish, socketVars
<1>5. CASE PersisterStarts
  BY <1>1, <1>2, <1>5, OrderStays DEF PersisterStarts, Subscribe, socketVars
<1>6. CASE PersisterGoesOn \/ PersisterWoken
  <2>1. UNCHANGED socketVars /\ (Asks(Persister) \/ Woken(Persister))
    BY <1>6 DEF PersisterGoesOn, PersisterWoken
  <2>2. first' = first /\ \A u \in SocketSubs : got'[u] = got[u] /\ consumer'[u] = consumer[u]
    BY <1>1, <2>1, AskingGives
  <2> QED BY <1>1, <1>2, <2>1, <2>2, OrderStays DEF socketVars
<1>7. CASE PersisterCancelled \/ SnapshotFails \/ SendFails \/ SocketEnds
  <2>1. socket' \in {"leaving", "ended"}
    BY <1>7 DEF PersisterCancelled, SnapshotFails, SendFails, SocketEnds
  <2> QED BY <2>1 DEF OrderInv
<1>8. CASE Connects
  <2>1. /\ snapshot' = first'[StateFeed] /\ UNCHANGED <<merged, fed, sending, shown, got>>
        /\ \A s \in SocketSubs : consumer[s] = "none" /\ consumer[s] # "busy"
    BY <1>1, <1>8, EventsAssumption DEF Connects, Subscribe
  <2>2. Line' = Line
    BY <2>1 DEF Line
  <2> QED BY <2>1, <2>2 DEF OrderInv
<1>9. CASE PeerLeaves
  BY <1>9, OrderStays DEF PeerLeaves, busVars, Line
<1>10. CASE SnapshotSent
  <2>1. UNCHANGED <<first, got, snapshot, merged, fed, sending, shown>> /\ socket = "snapshot"
    BY <1>10 DEF SnapshotSent
  <2>2. Line' = Line
    BY <2>1 DEF Line
  <2>3. \A s \in SocketSubs : consumer[s] # "busy"
    BY <1>1, <2>1 DEF SocketInv
  <2> QED BY <2>1, <2>2, <2>3, OrderStays
<1>11. CASE SenderWoken
  <2>1. /\ socket = "get" /\ socket' = "sending" /\ UNCHANGED <<busVars, snapshot, fed, shown>>
        /\ merged # <<>> /\ merged' = Tail(merged) /\ sending' = <<Head(merged)>>
    BY <1>11 DEF SenderWoken
  <2>2. sending \in Seq(Pairs) /\ Len(sending) = 0 /\ merged \in Seq(Pairs)
    BY <2>1 DEF SocketTypes
  <2>3. sending = <<>>
    BY <2>2, EmptySeq
  <2>4. Line = merged
    BY <2>2, <2>3, ConcatEmptySeq DEF Line
  <2>5. Line' = <<Head(merged)>> \o Tail(merged) /\ <<Head(merged)>> \o Tail(merged) = merged
    BY <2>1, <2>2 DEF Line
  <2> QED BY <2>1, <2>4, <2>5, OrderStays DEF busVars
<1>12. CASE Sent
  BY <1>12, OrderSent
<1>13. ASSUME NEW s \in SocketSubs, FeederGoesOn(s) \/ FeederWoken(s) PROVE OrderInv'
  BY <1>13, OrderFed, OrderWoken
<1>14. CASE UNCHANGED vars
  BY <1>2, <1>14, OrderStays DEF vars, busVars, socketVars
<1> QED BY <1>4, <1>5, <1>6, <1>7, <1>8, <1>9, <1>10, <1>11, <1>12, <1>13, <1>14 DEF Next

\* The event socket (api.py:176) shows its client what its subscriptions gave, in
\* order, once and without an omission, beginning with the first state after the
\* snapshot, for any number of subscriptions and any sizes of the queues.
THEOREM ConsoleMissesNothing == FairSpec => []NothingMissed
<1>1. Init => EventsInv /\ SocketTypes /\ OrderInv
  BY InitEvents, InitTypes, InitOrder
<1>2. EventsInv /\ SocketTypes /\ OrderInv /\ [Next]_vars => (EventsInv /\ SocketTypes /\ OrderInv)'
  BY NextBus, NextSocket, NextTypes, NextOrder DEF EventsInv, BusInv
<1> QED BY <1>1, <1>2, OrderNothingMissed, PTL DEF FairSpec
=============================================================================
