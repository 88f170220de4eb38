----------------------------- MODULE McpClient -----------------------------
(* core/mcpclient.py: JSON-RPC over the pipes of one module process, with   *)
(* the id map `_pending', the read loop that resolves its futures and       *)
(* close().  The code between two awaits is one action.                     *)
(*                                                                          *)
(* The client does not serialise its callers (ModuleApi.tla models the lock *)
(* that does), so they overlap here.  A request is known by its number, the *)
(* order in which request() made it; what the module sends back carries the *)
(* id it was given and, as history, the number of the request it answers.   *)
EXTENDS Naturals, Sequences, FiniteSets

CONSTANTS
    Callers,     \* coroutines that call request()
    MaxRequests, \* bound: requests made
    MaxLines     \* bound: lines in the pipe that have not been read

ASSUME McpClientAssumption == MaxRequests \in Nat /\ MaxLines \in Nat

VARIABLES
    asked,    \* requests made so far
    nextId,   \* _next_id
    waiters,  \* _pending: the request whose future an id leads to; 0: no key
    fut,      \* the future of each request
    current,  \* the request each caller is suspended on; 0: none
    rid,      \* the local `rid' of each caller
    outcome,  \* history: what request() returned or raised, for each request
    atModule, \* requests the module has been sent
    lines,    \* stdout of the module, not read yet
    eof,      \* the process is gone
    writable, \* not stdin.is_closing()
    loop,     \* _read_task; "cancelled": close() waits for its end; "joined":
              \* it has ended and close() is about to be resumed
    closed    \* _closed

callVars == <<asked, nextId, current, rid, outcome>>
moduleVars == <<atModule, eof, writable>>
vars == <<asked, nextId, waiters, fut, current, rid, outcome, atModule, lines,
          eof, writable, loop, closed>>

Requests == 1 .. MaxRequests
Undecided == [kind |-> "undecided", of |-> 0]
Result(r) == [kind |-> "result", of |-> r]
Error == [kind |-> "error", of |-> 0]        \* McpError of the module
Lost == [kind |-> "lost", of |-> 0]          \* McpError(-1, ...)
Cancelled == [kind |-> "cancelled", of |-> 0]

Responses == {"result", "error", "bad_error"}
Others == {"other", "flood"}
Line == [kind : Responses \cup Others, id : Nat, of : Nat]

Init ==
    /\ asked = 0 /\ nextId = 0
    /\ waiters = [i \in Requests |-> 0]
    /\ fut = [r \in Requests |-> Undecided]
    /\ current = [c \in Callers |-> 0]
    /\ rid = [c \in Callers |-> 0]
    /\ outcome = [r \in Requests |-> Undecided]
    /\ atModule = {}
    /\ lines = <<>>
    /\ eof = FALSE /\ writable = TRUE /\ closed = FALSE
    /\ loop = "reading"

----------------------------------------------------------------------------
(* request() *)

\* Caller c makes its request under the id i.
Asks(c, i) ==
    /\ current[c] = 0 /\ ~closed /\ asked < MaxRequests
    /\ asked' = asked + 1
    /\ nextId' = i
    /\ rid' = [rid EXCEPT ![c] = i]
    /\ IF writable
       THEN /\ waiters' = [waiters EXCEPT ![i] = asked + 1]
            /\ current' = [current EXCEPT ![c] = asked + 1]
            /\ atModule' = atModule \cup {[id |-> i, of |-> asked + 1]}
            /\ UNCHANGED outcome
       ELSE /\ outcome' = [outcome EXCEPT ![asked + 1] = Lost]
            /\ UNCHANGED <<waiters, current, atModule>>
    /\ UNCHANGED <<fut, lines, eof, writable, loop, closed>>

\* Seeded fault: the lowest free id is given out again.
Request_ReusesIds(c) == Asks(c, 1 + Cardinality({i \in Requests : waiters[i] # 0}))

\* A write that fails takes its own waiter back.  (A closed client refuses.)
Request(c) == Asks(c, nextId + 1)

\* Seeded fault: no timer.
TimerFires_Never(c) == FALSE

\* wait_for's timer, or a cancellation of the caller, cancels the future.  A
\* future decided just before is dropped all the same: the caller is resumed
\* with the cancellation.
TimerFires(c) ==
    /\ current[c] # 0 /\ fut[current[c]] # Cancelled
    /\ fut' = [fut EXCEPT ![current[c]] = Cancelled]
    /\ UNCHANGED <<callVars, waiters, moduleVars, lines, loop, closed>>

\* The caller is resumed with what its future says.
Resumed(c) ==
    /\ current[c] # 0 /\ fut[current[c]] # Undecided
    /\ outcome' = [outcome EXCEPT ![current[c]] = fut[current[c]]]
    /\ current' = [current EXCEPT ![c] = 0]
    /\ UNCHANGED <<asked, nextId, rid, fut, moduleVars, lines, loop, closed>>

\* Seeded fault: the waiter of a timed-out request is left in the map.
RequestEnds_Leaks(c) == Resumed(c) /\ UNCHANGED waiters

\* The waiter of a timed-out or cancelled request is dropped.
RequestEnds(c) ==
    /\ Resumed(c)
    /\ waiters' = IF fut[current[c]] = Cancelled THEN [waiters EXCEPT ![rid[c]] = 0] ELSE waiters

----------------------------------------------------------------------------
(* _read_loop, _dispatch and _fail_all *)

Waiting == {waiters[i] : i \in Requests} \ {0}

FailAll ==
    /\ fut' = [r \in Requests |-> IF r \in Waiting /\ fut[r] = Undecided THEN Lost ELSE fut[r]]
    /\ waiters' = [i \in Requests |-> 0]

Read(kinds) == loop = "reading" /\ lines # <<>> /\ Head(lines).kind \in kinds /\ lines' = Tail(lines)

\* Seeded fault: set_result(msg) for set_result(msg["result"]).
Tell_Raw(r, l) ==
    /\ waiters' = [waiters EXCEPT ![l.id] = 0]
    /\ fut' = IF fut[r] # Undecided THEN fut ELSE [fut EXCEPT ![r] = l]

\* The future of request r is told the response in line l.  `err.get' of a
\* malformed error raises: the waiter is gone, its future not decided.
Tell(r, l) ==
    /\ waiters' = [waiters EXCEPT ![l.id] = 0]
    /\ fut' = IF fut[r] # Undecided \/ l.kind = "bad_error" THEN fut
               ELSE [fut EXCEPT ![r] = IF l.kind = "error" THEN Error ELSE Result(l.of)]

\* Seeded fault: an orphan is handed to somebody who waits.
Dispatch_HandsOver ==
    LET l == Head(lines)
    IN  /\ Read(Responses)
        /\ IF Waiting # {}
           THEN Tell(IF waiters[l.id] # 0 THEN waiters[l.id] ELSE CHOOSE r \in Waiting : TRUE, l)
           ELSE UNCHANGED <<waiters, fut>>
        /\ UNCHANGED <<callVars, moduleVars, loop, closed>>

\* An orphan is discarded.
Dispatch ==
    LET l == Head(lines)
    IN  /\ Read(Responses)
        /\ IF l.id \in Requests /\ waiters[l.id] # 0
           THEN Tell(waiters[l.id], l)
           ELSE UNCHANGED <<waiters, fut>>
        /\ UNCHANGED <<callVars, moduleVars, loop, closed>>

\* A request of the module, refused without touching the map, or a
\* notification, bad JSON or another line that is no response.
Ignore ==
    /\ Read({"other"})
    /\ UNCHANGED <<callVars, waiters, fut, moduleVars, loop, closed>>

\* close() has cancelled it, the pipe is at its end, or a line is past the limit.
LoopEnds ==
    /\ \/ loop = "cancelled" /\ loop' = "joined" /\ UNCHANGED lines
       \/ loop = "reading" /\ eof /\ lines = <<>> /\ loop' = "ended" /\ UNCHANGED lines
       \/ Read({"flood"}) /\ loop' = "ended"
    /\ FailAll
    /\ UNCHANGED <<callVars, moduleVars, closed>>

\* Seeded fault: close() leaves a client whose read loop has ended as it is.
Close_LoopOnly ==
    /\ ~closed
    /\ closed' = TRUE
    /\ loop' = IF loop = "reading" THEN "cancelled" ELSE loop
    /\ UNCHANGED <<callVars, waiters, fut, moduleVars, lines>>

\* close(): the read loop is cancelled and awaited; one that has ended before
\* leaves the waiters of later requests to close() itself.
Close ==
    /\ ~closed
    /\ closed' = TRUE
    /\ IF loop = "reading"
       THEN loop' = "cancelled" /\ UNCHANGED <<fut, waiters>>
       ELSE FailAll /\ UNCHANGED loop
    /\ UNCHANGED <<callVars, moduleVars, lines>>

\* close() is resumed and fails whoever waits once more.
CloseReturns ==
    /\ loop = "joined" /\ loop' = "ended"
    /\ FailAll
    /\ UNCHANGED <<callVars, moduleVars, lines, closed>>

----------------------------------------------------------------------------
(* The module process: it may answer what it was sent late, twice, out of   *)
(* order or not at all, and write anything else in between.                 *)

Writes(l) == ~eof /\ Len(lines) < MaxLines /\ lines' = Append(lines, l)

Answers(q, kind) ==
    /\ Writes([kind |-> kind, id |-> q.id, of |-> q.of])
    /\ UNCHANGED <<callVars, waiters, fut, moduleVars, loop, closed>>

Babbles(kind) ==
    /\ Writes([kind |-> kind, id |-> 0, of |-> 0])
    /\ UNCHANGED <<callVars, waiters, fut, moduleVars, loop, closed>>

Exits ==
    /\ ~eof /\ eof' = TRUE
    /\ UNCHANGED <<callVars, waiters, fut, atModule, lines, writable, loop, closed>>

StdinBreaks ==
    /\ writable /\ writable' = FALSE
    /\ UNCHANGED <<callVars, waiters, fut, atModule, lines, eof, loop, closed>>

Next ==
    \/ \E c \in Callers : Request(c) \/ TimerFires(c) \/ RequestEnds(c)
    \/ Dispatch \/ Ignore \/ LoopEnds \/ Close \/ CloseReturns
    \/ \E q \in atModule, kind \in Responses : Answers(q, kind)
    \/ \E kind \in Others : Babbles(kind)
    \/ Exits \/ StdinBreaks

Spec == Init /\ [][Next]_vars

\* Every timer fires and every coroutine is resumed; the module need not answer.
FairSpec == Spec /\ \A c \in Callers : WF_vars(TimerFires(c)) /\ WF_vars(RequestEnds(c))

----------------------------------------------------------------------------
(* Properties *)

Future == [kind : {"undecided", "result", "error", "lost", "cancelled"}, of : 0 .. MaxRequests]

TypeOK ==
    /\ asked \in 0 .. MaxRequests /\ nextId \in 0 .. MaxRequests
    /\ waiters \in [Requests -> 0 .. MaxRequests]
    /\ fut \in [Requests -> Future]
    /\ current \in [Callers -> 0 .. MaxRequests]
    /\ rid \in [Callers -> 0 .. MaxRequests]
    /\ outcome \in [Requests -> Future]
    /\ atModule \in SUBSET [id : Requests, of : Requests]
    /\ lines \in Seq(Line)
    /\ eof \in BOOLEAN /\ writable \in BOOLEAN /\ closed \in BOOLEAN
    /\ loop \in {"reading", "cancelled", "joined", "ended"}

\* "Never hand it to the next caller" (mcpclient.py:104): a request that
\* returns a result returns the module's answer to that very request, however
\* late, doubled or reordered the answers are and whatever timed out before.
NoCrossTalk ==
    \A r \in Requests : outcome[r].kind = "result" => outcome[r].of = r

\* The id map holds the waiters of suspended callers and nothing else: no
\* entry outlives its request, and two callers never share one.
WaitersOwned ==
    \A i \in Requests : waiters[i] # 0 =>
        Cardinality({c \in Callers : rid[c] = i /\ current[c] = waiters[i]}) = 1

\* Once close() has returned nobody is left waiting in the map, also not a
\* request made after the read loop had ended by itself.
ClosedIsEmpty == closed /\ loop = "ended" => Waiting = {}

\* Every request ends, whatever the module writes and however it dies: also one
\* whose waiter a malformed answer has removed, and one made when nobody reads.
RequestsEnd == \A c \in Callers : current[c] # 0 ~> current[c] = 0

\* What makes NoCrossTalk inductive: ids are the numbers of the requests, also
\* on the wire, so that a decided future tells its own request ...
OwnAnswers ==
    /\ nextId = asked
    /\ \A c \in Callers : current[c] # 0 => rid[c] = current[c]
    /\ \A i \in Requests : waiters[i] \in {0, i}
    /\ \A q \in atModule : q.id = q.of
    /\ \A k \in 1 .. Len(lines) : lines[k].kind \in Responses => lines[k].id = lines[k].of
    /\ \A r \in Requests : fut[r].kind = "result" => fut[r].of = r

\* ... and a waiter is the one of a suspended caller, of whom there is one for
\* each request made and not ended.
Suspended ==
    /\ \A i \in Requests : waiters[i] # 0 =>
          fut[i] \in {Undecided, Cancelled} /\ \E c \in Callers : current[c] = i
    /\ \A c, d \in Callers : current[c] # 0 /\ current[c] = current[d] => c = d
    /\ \A c \in Callers : current[c] # 0 => current[c] <= asked /\ outcome[current[c]] = Undecided
    /\ \A r \in Requests : r > asked => fut[r] = Undecided /\ outcome[r] = Undecided

\* A closed client reads no more.
ClosedReadsNot == closed => loop # "reading"

\* The inductive invariant (McpClientProofs.tla), which gives all four.
IInv == TypeOK /\ OwnAnswers /\ NoCrossTalk /\ Suspended /\ ClosedReadsNot /\ ClosedIsEmpty

Stage(r) ==
    IF r > asked THEN "unasked"
    ELSE IF outcome[r] = Undecided THEN "asked"
    ELSE IF outcome[r].kind # "result" THEN "failed"
    ELSE IF outcome[r].of = r THEN "answered"
    ELSE "crossed"

Calls == INSTANCE Rpc WITH stage <- [r \in Requests |-> Stage(r)]

\* The id map, the futures and the read loop implement the request that ends
\* once, with its own answer or with a failure (mcpclient.py:3-6).
ImplementsRpc == Calls!Spec
=============================================================================
