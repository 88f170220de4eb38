-------------------------- MODULE McpClientProofs --------------------------
(* Theorems about McpClient.tla: its inductive invariant, the invariants    *)
(* it gives, and the refinement of Rpc.                                     *)
EXTENDS McpClient, FiniteSetTheorems, TLAPS

USE McpClientAssumption

\* A history variable or future holds one of these.
LEMMA Futures ==
    /\ Undecided \in Future /\ Error \in Future /\ Lost \in Future /\ Cancelled \in Future
    /\ \A r \in 0 .. MaxRequests : Result(r) \in Future
    /\ Undecided.kind # "result" /\ Error.kind # "result" /\ Lost.kind # "result"
    /\ Cancelled.kind # "result"
    /\ Undecided # Lost /\ Undecided # Cancelled /\ Undecided # Error
    /\ \A r : Undecided # Result(r)
BY DEF Future, Undecided, Error, Lost, Cancelled, Result

\* What is left in the pipe after a line was read, and the line.
LEMMA ReadsOne ==
    ASSUME lines \in Seq(Line), lines # <<>>
    PROVE  /\ Head(lines) \in Line /\ Head(lines) = lines[1] /\ 1 \in 1 .. Len(lines)
           /\ Tail(lines) \in Seq(Line)
           /\ \A k \in 1 .. Len(Tail(lines)) :
                 k + 1 \in 1 .. Len(lines) /\ Tail(lines)[k] = lines[k + 1]
OBVIOUS

\* The initial states satisfy the invariant.
LEMMA InitInv == ASSUME Init PROVE IInv
<1>1. TypeOK
  <2>1. MaxRequests \in Nat /\ Undecided \in Future
    BY Futures
  <2>2. asked \in 0 .. MaxRequests /\ nextId \in 0 .. MaxRequests /\ 0 \in 0 .. MaxRequests
    BY <2>1 DEF Init
  <2>3. waiters \in [Requests -> 0 .. MaxRequests]
    BY <2>2 DEF Init
  <2>4. fut \in [Requests -> Future] /\ outcome \in [Requests -> Future]
    BY <2>1 DEF Init
  <2>5. current \in [Callers -> 0 .. MaxRequests] /\ rid \in [Callers -> 0 .. MaxRequests]
    BY <2>2 DEF Init
  <2>6. lines \in Seq(Line) /\ atModule \in SUBSET [id : Requests, of : Requests]
    BY DEF Init
  <2> QED BY <2>2, <2>3, <2>4, <2>5, <2>6 DEF Init, TypeOK
<1>2. OwnAnswers
  BY Futures DEF Init, OwnAnswers, Requests
<1>3. NoCrossTalk /\ Suspended /\ ClosedReadsNot /\ ClosedIsEmpty
  BY Futures DEF Init, NoCrossTalk, Suspended, ClosedReadsNot, ClosedIsEmpty, Requests
<1> QED BY <1>1, <1>2, <1>3 DEF IInv

----------------------------------------------------------------------------
(* The callers *)

LEMMA RequestInv ==
    ASSUME IInv, NEW c \in Callers, Request(c) PROVE IInv'
<1> USE DEF Request, Asks
<1> DEFINE r == asked + 1
<1>1. r \in Requests /\ r \in 0 .. MaxRequests /\ asked \in Nat /\ r = nextId + 1
  BY DEF IInv, TypeOK, OwnAnswers, Requests
<1>2. TypeOK'
  <2>1. asked' \in 0 .. MaxRequests /\ nextId' \in 0 .. MaxRequests
        /\ rid' \in [Callers -> 0 .. MaxRequests]
    BY <1>1 DEF IInv, TypeOK
  <2>2. waiters' \in [Requests -> 0 .. MaxRequests] /\ current' \in [Callers -> 0 .. MaxRequests]
    BY <1>1 DEF IInv, TypeOK
  <2>3. atModule' \in SUBSET [id : Requests, of : Requests]
    BY <1>1 DEF IInv, TypeOK
  <2>4. outcome' \in [Requests -> Future]
    BY Futures DEF IInv, TypeOK
  <2> QED BY <2>1, <2>2, <2>3, <2>4 DEF IInv, TypeOK
<1>3. OwnAnswers'
  <2>1. /\ asked' = r /\ nextId' = r /\ rid' = [rid EXCEPT ![c] = r]
        /\ UNCHANGED <<lines, fut>>
    BY <1>1
  <2>2. \A d \in Callers : current'[d] # 0 => rid'[d] = current'[d]
    <3>1. current' = current \/ current' = [current EXCEPT ![c] = r]
      BY <1>1
    <3> QED BY <2>1, <3>1 DEF IInv, TypeOK, OwnAnswers
  <2>3. \A i \in Requests : waiters'[i] \in {0, i}
    <3>1. waiters' = waiters \/ waiters' = [waiters EXCEPT ![r] = r]
      BY <1>1
    <3> QED BY <3>1 DEF IInv, TypeOK, OwnAnswers
  <2>4. \A q \in atModule' : q.id = q.of
    <3>1. atModule' = atModule \/ atModule' = atModule \cup {[id |-> r, of |-> r]}
      BY <1>1
    <3> QED BY <3>1 DEF IInv, OwnAnswers
  <2> HIDE DEF Request, Asks
  <2> QED BY <2>1, <2>2, <2>3, <2>4 DEF IInv, OwnAnswers
<1>4. NoCrossTalk'
  <2>1. \A q \in Requests : outcome'[q] = outcome[q] \/ outcome'[q] = Lost
    BY <1>1 DEF IInv, TypeOK
  <2> QED BY <2>1, Futures DEF IInv, NoCrossTalk
<1>5. fut[r] = Undecided /\ outcome[r] = Undecided /\ \A d \in Callers : current[d] # r
  BY <1>1 DEF IInv, TypeOK, Suspended
<1>6. Suspended'
  <2>1. CASE writable
    <3>1. waiters' = [waiters EXCEPT ![r] = r] /\ current' = [current EXCEPT ![c] = r]
          /\ outcome' = outcome /\ fut' = fut /\ asked' = r
      BY <1>1, <2>1
    <3>2. \A i \in Requests : waiters'[i] # 0 =>
            fut'[i] \in {Undecided, Cancelled} /\ \E d \in Callers : current'[d] = i
      BY <1>1, <1>5, <3>1 DEF IInv, TypeOK, Suspended, Requests
    <3>3. \A d, e \in Callers : current'[d] # 0 /\ current'[d] = current'[e] => d = e
      BY <1>1, <1>5, <3>1 DEF IInv, TypeOK, Suspended
    <3>4. \A d \in Callers : current'[d] # 0 => current'[d] <= asked' /\ outcome'[current'[d]] = Undecided
      BY <1>1, <1>5, <3>1 DEF IInv, TypeOK, Suspended
    <3>5. \A q \in Requests : q > asked' => fut'[q] = Undecided /\ outcome'[q] = Undecided
      BY <1>1, <3>1 DEF IInv, Suspended, Requests
    <3> QED BY <3>2, <3>3, <3>4, <3>5 DEF Suspended
  <2>2. CASE ~writable
    <3>1. waiters' = waiters /\ current' = current /\ fut' = fut /\ asked' = r
          /\ outcome' = [outcome EXCEPT ![r] = Lost]
      BY <2>2
    <3>2. \A d \in Callers : current'[d] # 0 => current'[d] <= asked' /\ outcome'[current'[d]] = Undecided
      BY <1>1, <1>5, <3>1 DEF IInv, TypeOK, Suspended, Requests
    <3>3. \A q \in Requests : q > asked' => fut'[q] = Undecided /\ outcome'[q] = Undecided
      BY <1>1, <3>1 DEF IInv, TypeOK, Suspended, Requests
    <3> QED BY <3>1, <3>2, <3>3 DEF IInv, Suspended
  <2> QED BY <2>1, <2>2
<1>7. ClosedReadsNot' /\ ClosedIsEmpty'
  BY DEF IInv, ClosedReadsNot, ClosedIsEmpty
<1> QED BY <1>2, <1>3, <1>4, <1>6, <1>7 DEF IInv

LEMMA TimerInv ==
    ASSUME IInv, NEW c \in Callers, TimerFires(c) PROVE IInv'
<1> USE DEF TimerFires, callVars, moduleVars
<1>1. current[c] \in Requests
  BY DEF IInv, TypeOK, Requests
<1>2. TypeOK'
  BY <1>1, Futures DEF IInv, TypeOK
<1>3. OwnAnswers' /\ NoCrossTalk'
  BY <1>1, Futures DEF IInv, TypeOK, OwnAnswers, NoCrossTalk
<1>4. Suspended'
  BY <1>1 DEF IInv, TypeOK, Suspended, Requests
<1>5. ClosedReadsNot' /\ ClosedIsEmpty'
  BY DEF IInv, ClosedReadsNot, ClosedIsEmpty, Waiting
<1> QED BY <1>2, <1>3, <1>4, <1>5 DEF IInv

LEMMA EndInv ==
    ASSUME IInv, NEW c \in Callers, RequestEnds(c) PROVE IInv'
<1> USE DEF RequestEnds, Resumed, moduleVars
<1> DEFINE r == current[c]
<1>1. r \in Requests /\ rid[c] = r /\ waiters \in [Requests -> 0 .. MaxRequests]
  BY DEF IInv, TypeOK, OwnAnswers, Requests
<1>2. waiters' \in [Requests -> 0 .. MaxRequests] /\ waiters'[r] = 0
      /\ \A i \in Requests : waiters'[i] \in {0, waiters[i]}
  BY <1>1 DEF IInv, Suspended, Requests
<1>3. TypeOK'
  BY <1>1, <1>2 DEF IInv, TypeOK
<1>4. OwnAnswers'
  BY <1>1, <1>2 DEF IInv, TypeOK, OwnAnswers
<1>5. NoCrossTalk'
  BY <1>1 DEF IInv, TypeOK, OwnAnswers, NoCrossTalk
<1>6. Suspended'
  <2>1. \A i \in Requests : waiters'[i] # 0 =>
          fut'[i] \in {Undecided, Cancelled} /\ \E d \in Callers : current'[d] = i
    BY <1>1, <1>2 DEF IInv, TypeOK, Suspended
  <2>2. \A d, e \in Callers : current'[d] # 0 /\ current'[d] = current'[e] => d = e
    BY DEF IInv, TypeOK, Suspended
  <2>3. \A d \in Callers : current'[d] # 0 => current'[d] <= asked' /\ outcome'[current'[d]] = Undecided
    BY <1>1 DEF IInv, TypeOK, Suspended
  <2>4. \A q \in Requests : q > asked' => fut'[q] = Undecided /\ outcome'[q] = Undecided
    BY <1>1 DEF IInv, TypeOK, Suspended, Requests
  <2> QED BY <2>1, <2>2, <2>3, <2>4 DEF Suspended
<1>7. ClosedReadsNot' /\ ClosedIsEmpty'
  BY <1>1, <1>2 DEF IInv, ClosedReadsNot, ClosedIsEmpty, Waiting
<1> QED BY <1>3, <1>4, <1>5, <1>6, <1>7 DEF IInv

----------------------------------------------------------------------------
(* The read loop *)

\* Reading a line keeps what is in the pipe honest.
LEMMA PipeStaysHonest ==
    ASSUME IInv, lines # <<>>, lines' = Tail(lines)
    PROVE  /\ lines' \in Seq(Line)
           /\ \A k \in 1 .. Len(lines') : lines'[k].kind \in Responses => lines'[k].id = lines'[k].of
           /\ Head(lines).kind \in Responses => Head(lines).id = Head(lines).of
<1>1. lines \in Seq(Line)
  BY DEF IInv, TypeOK
<1> QED BY <1>1, ReadsOne DEF IInv, OwnAnswers

\* The waiters and futures after FailAll.
LEMMA FailAllInv ==
    ASSUME IInv, FailAll
    PROVE  /\ fut' \in [Requests -> Future] /\ waiters' = [i \in Requests |-> 0]
           /\ \A r \in Requests :
                 /\ fut'[r].kind = "result" => fut'[r].of = r
                 /\ r > asked => fut'[r] = Undecided
<1>1. \A r \in Requests : fut'[r] = fut[r] \/ (fut'[r] = Lost /\ r \in Waiting)
  BY DEF FailAll
<1>2. \A r \in Waiting : r <= asked
  <2> SUFFICES ASSUME NEW i \in Requests, waiters[i] # 0 PROVE waiters[i] <= asked
    BY DEF Waiting
  <2>1. waiters[i] = i /\ \E c \in Callers : current[c] = i
    BY DEF IInv, OwnAnswers, Suspended
  <2> QED BY <2>1 DEF IInv, Suspended, Requests
<1>3. asked \in Nat
  BY DEF IInv, TypeOK
<1> QED BY <1>1, <1>2, <1>3, Futures DEF FailAll, IInv, TypeOK, OwnAnswers, Suspended, Requests

LEMMA LoopEndsInv ==
    ASSUME IInv, LoopEnds PROVE IInv'
<1> USE DEF LoopEnds, callVars, moduleVars
<1>1. lines' = lines \/ (lines # <<>> /\ lines' = Tail(lines))
  BY DEF Read
<1>2. lines' \in Seq(Line)
      /\ \A k \in 1 .. Len(lines') : lines'[k].kind \in Responses => lines'[k].id = lines'[k].of
  BY <1>1, PipeStaysHonest DEF IInv, TypeOK, OwnAnswers
<1>3. TypeOK'
  BY <1>2, FailAllInv DEF IInv, TypeOK
<1>4. OwnAnswers'
  BY <1>2, FailAllInv DEF IInv, OwnAnswers
<1>5. NoCrossTalk' /\ ClosedReadsNot'
  BY DEF IInv, NoCrossTalk, ClosedReadsNot
<1>6. Suspended' /\ ClosedIsEmpty'
  BY FailAllInv DEF IInv, Suspended, ClosedIsEmpty, Waiting
<1> QED BY <1>3, <1>4, <1>5, <1>6 DEF IInv

LEMMA CloseInv ==
    ASSUME IInv, Close PROVE IInv'
<1> USE DEF Close, callVars, moduleVars
<1>1. CASE loop = "reading"
  <2>1. TypeOK' /\ OwnAnswers' /\ NoCrossTalk' /\ Suspended'
    BY <1>1 DEF IInv, TypeOK, OwnAnswers, NoCrossTalk, Suspended
  <2>2. ClosedReadsNot' /\ ClosedIsEmpty'
    BY <1>1 DEF ClosedReadsNot, ClosedIsEmpty
  <2> QED BY <2>1, <2>2 DEF IInv
<1>2. CASE loop # "reading"
  <2>1. TypeOK'
    BY <1>2, FailAllInv DEF IInv, TypeOK
  <2>2. OwnAnswers'
    BY <1>2, FailAllInv DEF IInv, OwnAnswers
  <2>3. NoCrossTalk' /\ ClosedReadsNot'
    BY <1>2 DEF IInv, NoCrossTalk, ClosedReadsNot
  <2>4. Suspended' /\ ClosedIsEmpty'
    BY <1>2, FailAllInv DEF IInv, Suspended, ClosedIsEmpty, Waiting
  <2> QED BY <2>1, <2>2, <2>3, <2>4 DEF IInv
<1> QED BY <1>1, <1>2

LEMMA CloseReturnsInv ==
    ASSUME IInv, CloseReturns PROVE IInv'
<1> USE DEF CloseReturns, callVars, moduleVars
<1>1. TypeOK'
  BY FailAllInv DEF IInv, TypeOK
<1>2. OwnAnswers'
  BY FailAllInv DEF IInv, OwnAnswers
<1>3. NoCrossTalk' /\ ClosedReadsNot'
  BY DEF IInv, NoCrossTalk, ClosedReadsNot
<1>4. Suspended' /\ ClosedIsEmpty'
  BY FailAllInv DEF IInv, Suspended, ClosedIsEmpty, Waiting
<1> QED BY <1>1, <1>2, <1>3, <1>4 DEF IInv

LEMMA DispatchInv ==
    ASSUME IInv, Dispatch PROVE IInv'
<1> DEFINE l == Head(lines)
<1> USE DEF callVars, moduleVars
<1>1. loop = "reading" /\ lines # <<>> /\ lines' = Tail(lines) /\ l.kind \in Responses
      /\ UNCHANGED <<callVars, moduleVars, loop, closed>>
  BY DEF Dispatch, Read
<1>2. lines' \in Seq(Line) /\ l.id = l.of
      /\ \A k \in 1 .. Len(lines') : lines'[k].kind \in Responses => lines'[k].id = lines'[k].of
  BY <1>1, PipeStaysHonest
<1>3. NoCrossTalk' /\ ClosedReadsNot' /\ ClosedIsEmpty'
  BY <1>1 DEF IInv, NoCrossTalk, ClosedReadsNot, ClosedIsEmpty
<1>4. CASE UNCHANGED <<waiters, fut>>
  <2>1. TypeOK' /\ OwnAnswers' /\ Suspended'
    BY <1>1, <1>2, <1>4 DEF IInv, TypeOK, OwnAnswers, Suspended
  <2> QED BY <1>3, <2>1 DEF IInv
<1>5. CASE l.id \in Requests /\ waiters[l.id] # 0 /\ Tell(waiters[l.id], l)
  <2> DEFINE r == l.id
  <2>1. r \in Requests /\ r \in 0 .. MaxRequests /\ waiters[r] = r /\ r <= asked
    BY <1>5 DEF IInv, OwnAnswers, Suspended, TypeOK, Requests
  <2>2. waiters' = [waiters EXCEPT ![r] = 0]
    BY <1>5 DEF Tell
  <2>3. fut' = fut \/ fut' = [fut EXCEPT ![r] = Error] \/ fut' = [fut EXCEPT ![r] = Result(r)]
    BY <1>2, <1>5, <2>1 DEF Tell
  <2>4. fut' \in [Requests -> Future]
    BY <2>1, <2>3, Futures DEF IInv, TypeOK
  <2>5. \A q \in Requests : fut'[q].kind = "result" => fut'[q].of = q
    <3>1. Result(r).of = r
      BY DEF Result
    <3>2. \A q \in Requests : fut'[q] \in {fut[q], Error} \/ (q = r /\ fut'[q] = Result(r))
      BY <2>1, <2>3 DEF IInv, TypeOK
    <3> QED BY <3>1, <3>2, Futures DEF IInv, OwnAnswers
  <2>6. TypeOK'
    <3>1. waiters' \in [Requests -> 0 .. MaxRequests]
      BY <2>1, <2>2 DEF IInv, TypeOK
    <3> QED BY <1>1, <1>2, <2>4, <3>1 DEF IInv, TypeOK
  <2>7. OwnAnswers'
    <3>1. \A i \in Requests : waiters'[i] \in {0, i}
      BY <2>1, <2>2 DEF IInv, TypeOK, OwnAnswers
    <3> QED BY <1>1, <1>2, <2>5, <3>1 DEF IInv, OwnAnswers
  <2>8. Suspended'
    <3>1. UNCHANGED <<asked, current, outcome>>
      BY <1>1
    <3>2. \A i \in Requests : waiters'[i] # 0 =>
             fut'[i] \in {Undecided, Cancelled} /\ \E c \in Callers : current[c] = i
      <4>1. \A i \in Requests : waiters'[i] # 0 => i # r /\ waiters[i] # 0 /\ fut'[i] = fut[i]
        BY <2>1, <2>2, <2>3 DEF IInv, TypeOK
      <4> QED BY <4>1 DEF IInv, Suspended
    <3>3. \A q \in Requests : q > asked => fut'[q] = Undecided
      <4>1. \A q \in Requests : q > asked => q # r
        BY <2>1 DEF IInv, TypeOK, Requests
      <4>2. \A q \in Requests : q > asked => fut'[q] = fut[q]
        BY <2>1, <2>3, <4>1 DEF IInv, TypeOK
      <4> QED BY <4>2 DEF IInv, Suspended
    <3> QED BY <3>1, <3>2, <3>3 DEF IInv, Suspended
  <2> QED BY <1>3, <2>6, <2>7, <2>8 DEF IInv
<1> QED BY <1>4, <1>5 DEF Dispatch

LEMMA IgnoreInv ==
    ASSUME IInv, Ignore PROVE IInv'
<1> USE DEF Ignore, Read, callVars, moduleVars
<1>1. TypeOK' /\ OwnAnswers'
  BY PipeStaysHonest DEF IInv, TypeOK, OwnAnswers
<1>2. NoCrossTalk' /\ Suspended' /\ ClosedReadsNot' /\ ClosedIsEmpty'
  BY DEF IInv, NoCrossTalk, Suspended, ClosedReadsNot, ClosedIsEmpty, Waiting
<1> QED BY <1>1, <1>2 DEF IInv

----------------------------------------------------------------------------
(* The module *)

\* A line is added to the pipe; a response carries the id of its request.
LEMMA WritesInv ==
    ASSUME IInv, NEW l \in Line, Writes(l),
           l.kind \in Responses => l.id = l.of,
           UNCHANGED <<callVars, waiters, fut, moduleVars, loop, closed>>
    PROVE  IInv'
<1> USE DEF Writes, callVars, moduleVars
<1>1. lines \in Seq(Line) /\ lines' = Append(lines, l)
  BY DEF IInv, TypeOK
<1>2. lines' \in Seq(Line) /\ Len(lines') = Len(lines) + 1 /\ lines'[Len(lines) + 1] = l
      /\ \A k \in 1 .. Len(lines) : lines'[k] = lines[k]
  BY <1>1
<1>3. TypeOK'
  BY <1>2 DEF IInv, TypeOK
<1>4. OwnAnswers'
  BY <1>1, <1>2 DEF IInv, OwnAnswers
<1>5. NoCrossTalk' /\ Suspended' /\ ClosedReadsNot' /\ ClosedIsEmpty'
  BY DEF IInv, NoCrossTalk, Suspended, ClosedReadsNot, ClosedIsEmpty, Waiting
<1> QED BY <1>3, <1>4, <1>5 DEF IInv

LEMMA ModuleInv ==
    ASSUME IInv,
           \/ \E q \in atModule, kind \in Responses : Answers(q, kind)
           \/ \E kind \in Others : Babbles(kind)
           \/ Exits \/ StdinBreaks
    PROVE  IInv'
<1>1. ASSUME NEW q \in atModule, NEW kind \in Responses, Answers(q, kind) PROVE IInv'
  <2>1. q.id = q.of /\ [kind |-> kind, id |-> q.id, of |-> q.of] \in Line
    BY DEF IInv, TypeOK, OwnAnswers, Line, Requests
  <2> QED BY <1>1, <2>1, WritesInv DEF Answers
<1>2. ASSUME NEW kind \in Others, Babbles(kind) PROVE IInv'
  <2>1. [kind |-> kind, id |-> 0, of |-> 0] \in Line
    BY DEF Line
  <2> QED BY <1>2, <2>1, WritesInv DEF Babbles
<1>3. ASSUME Exits \/ StdinBreaks PROVE IInv'
  <2> USE <1>3 DEF Exits, StdinBreaks, callVars
  <2>1. TypeOK' /\ OwnAnswers'
    BY DEF IInv, TypeOK, OwnAnswers
  <2>2. NoCrossTalk' /\ Suspended' /\ ClosedReadsNot' /\ ClosedIsEmpty'
    BY DEF IInv, NoCrossTalk, Suspended, ClosedReadsNot, ClosedIsEmpty, Waiting
  <2> QED BY <2>1, <2>2 DEF IInv
<1> QED BY <1>1, <1>2, <1>3

\* Every step of the client, its callers or the module keeps the invariant.
LEMMA NextInv == ASSUME IInv, [Next]_vars PROVE IInv'
<1>1. CASE UNCHANGED vars
  <2>1. TypeOK' /\ OwnAnswers' /\ NoCrossTalk'
    BY <1>1 DEF IInv, TypeOK, OwnAnswers, NoCrossTalk, vars
  <2>2. Suspended' /\ ClosedReadsNot' /\ ClosedIsEmpty'
    BY <1>1 DEF IInv, Suspended, ClosedReadsNot, ClosedIsEmpty, Waiting, vars
  <2> QED BY <2>1, <2>2 DEF IInv
<1>2. ASSUME NEW c \in Callers, Request(c) \/ TimerFires(c) \/ RequestEnds(c) PROVE IInv'
  BY <1>2, RequestInv, TimerInv, EndInv
<1>3. CASE Dispatch \/ Ignore \/ LoopEnds \/ Close \/ CloseReturns
  BY <1>3, DispatchInv, IgnoreInv, LoopEndsInv, CloseInv, CloseReturnsInv
<1> QED BY <1>1, <1>2, <1>3, ModuleInv DEF Next

----------------------------------------------------------------------------
(* Theorems *)

\* The id map, the futures and what is on the wire agree with each other,
\* whatever the module writes: for any callers and any number of requests.
THEOREM IdsAgree == Spec => []IInv
<1>1. Init => IInv
  BY InitInv
<1>2. IInv /\ [Next]_vars => IInv'
  BY NextInv
<1> QED BY <1>1, <1>2, PTL DEF Spec

\* A request that returns a result returns the answer to that request
\* (mcpclient.py:101-108).
THEOREM OwnResults == Spec => []NoCrossTalk
<1>1. IInv => NoCrossTalk
  BY DEF IInv
<1> QED BY <1>1, IdsAgree, PTL

\* Nobody is left in the map of a closed client (mcpclient.py:193-201).
THEOREM CloseFreesAll == Spec => []ClosedIsEmpty
<1>1. IInv => ClosedIsEmpty
  BY DEF IInv
<1> QED BY <1>1, IdsAgree, PTL

\* Each waiter belongs to exactly one suspended caller (mcpclient.py:146-156).
THEOREM WaitersHaveOwners == Spec => []WaitersOwned
<1>1. ASSUME IInv PROVE WaitersOwned
  <2> SUFFICES ASSUME NEW i \in Requests, waiters[i] # 0
               PROVE  Cardinality({c \in Callers : rid[c] = i /\ current[c] = waiters[i]}) = 1
    BY DEF WaitersOwned
  <2>1. waiters[i] = i
    BY <1>1 DEF IInv, OwnAnswers
  <2>2. PICK c \in Callers : current[c] = i
    BY <1>1 DEF IInv, Suspended
  <2>3. rid[c] = i /\ i # 0
    BY <1>1, <2>1, <2>2 DEF IInv, OwnAnswers
  <2>4. {d \in Callers : rid[d] = i /\ current[d] = waiters[i]} = {c}
    BY <1>1, <2>1, <2>2, <2>3 DEF IInv, Suspended
  <2> QED BY <2>4, FS_Singleton
<1> QED BY <1>1, IdsAgree, PTL

\* The client implements the abstract request: what a caller is told is told
\* once, and is its own answer or a failure (mcpclient.py:3-6).
THEOREM Refinement == Spec => ImplementsRpc
<1> DEFINE stages == [r \in Requests |-> Stage(r)]
<1>1. Init => Calls!Init
  BY DEF Init, Calls!Init, Stage, Requests
<1>2. ASSUME IInv, [Next]_vars PROVE [Calls!Next]_stages
  <2>1. CASE UNCHANGED <<asked, outcome>>
    BY <2>1 DEF Stage
  <2>2. ASSUME NEW c \in Callers, Request(c) PROVE [Calls!Next]_stages
    <3>0. PICK r : r = asked + 1
      OBVIOUS
    <3>1. r \in Requests /\ r \in Nat /\ asked \in Nat /\ outcome[r] = Undecided /\ r > asked
      BY <1>2, <2>2, <3>0 DEF IInv, TypeOK, Suspended, Request, Asks, Requests
    <3>2. asked' = r /\ \A q \in Requests \ {r} : outcome'[q] = outcome[q]
      BY <1>2, <2>2, <3>0 DEF Request, Asks, IInv, TypeOK
    <3>3. outcome'[r] \in {Undecided, Lost}
      <4>1. outcome' = outcome \/ outcome' = [outcome EXCEPT ![r] = Lost]
        BY <2>2, <3>0 DEF Request, Asks
      <4> QED BY <1>2, <3>1, <4>1 DEF IInv, TypeOK
    <3>4. Stage(r) = "unasked" /\ Stage(r)' \in {"asked", "failed"}
      <4>1. Lost.kind # "result" /\ ~(r > asked')
        BY <3>1, <3>2, Futures
      <4> QED BY <3>1, <3>2, <3>3, <4>1 DEF Stage
    <3>5. \A q \in Requests \ {r} : Stage(q)' = Stage(q)
      BY <3>0, <3>1, <3>2 DEF Stage, Requests
    <3>6. stages[r] = "unasked" /\ \E s \in {"asked", "failed"} : stages' = [stages EXCEPT ![r] = s]
      BY <3>1, <3>4, <3>5
    <3> QED BY <3>1, <3>6 DEF Calls!Next, Calls!Ask, Calls!Refuse, Calls!Becomes
  <2>3. ASSUME NEW c \in Callers, RequestEnds(c) PROVE [Calls!Next]_stages
    <3>0. PICK r : r = current[c]
      OBVIOUS
    <3>1. r \in Requests /\ r \in Nat /\ asked \in Nat /\ outcome[r] = Undecided /\ r <= asked /\ fut[r] # Undecided
      BY <1>2, <2>3, <3>0 DEF IInv, TypeOK, Suspended, RequestEnds, Resumed, Requests
    <3>2. asked' = asked /\ outcome' = [outcome EXCEPT ![r] = fut[r]] /\ outcome \in [Requests -> Future]
      BY <1>2, <2>3, <3>0 DEF RequestEnds, Resumed, IInv, TypeOK
    <3>3. fut[r].kind = "result" => fut[r].of = r
      BY <1>2, <3>1 DEF IInv, OwnAnswers
    <3>4. Stage(r) = "asked" /\ Stage(r)' \in {"answered", "failed"}
      BY <3>1, <3>2, <3>3 DEF Stage
    <3>5. \A q \in Requests \ {r} : Stage(q)' = Stage(q)
      BY <3>1, <3>2 DEF Stage
    <3>6. stages[r] = "asked" /\ \E s \in {"answered", "failed"} : stages' = [stages EXCEPT ![r] = s]
      BY <3>1, <3>4, <3>5
    <3> QED BY <3>1, <3>6 DEF Calls!Next, Calls!Answer, Calls!Fail, Calls!Becomes
  <2>4. ASSUME NEW c \in Callers, TimerFires(c) PROVE UNCHANGED <<asked, outcome>>
    BY <2>4 DEF TimerFires, callVars
  <2>5. ASSUME Dispatch \/ Ignore \/ LoopEnds \/ Close \/ CloseReturns PROVE UNCHANGED <<asked, outcome>>
    BY <2>5 DEF Dispatch, Ignore, LoopEnds, Close, CloseReturns, callVars
  <2>6. ASSUME \/ \E q \in atModule, kind \in Responses : Answers(q, kind)
               \/ \E kind \in Others : Babbles(kind)
               \/ Exits \/ StdinBreaks
        PROVE  UNCHANGED <<asked, outcome>>
    BY <2>6 DEF Answers, Babbles, Exits, StdinBreaks, callVars
  <2> QED BY <1>2, <2>1, <2>2, <2>3, <2>4, <2>5, <2>6 DEF Next, vars
<1> QED BY <1>1, <1>2, IdsAgree, PTL DEF Spec, ImplementsRpc, Calls!Spec
=============================================================================
