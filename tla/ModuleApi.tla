----------------------------- MODULE ModuleApi -----------------------------
(* core/moduleapi.py: the one path every tool call takes,                  *)
(*   validate -> policy gate -> allow | deny | confirm -> dispatch -> audit *)
(* with the pending_calls and tool_calls tables it writes (storage/store.py)*)
(* and the per-module lock it shares with the health probe of               *)
(* core/supervisor.py.                                                      *)
(*                                                                          *)
(* A task is one coroutine that enters ModuleAPI once: call() or confirm(). *)
(* Code between two awaits is one action.  The health probe of module m is  *)
(* the actor m itself: it queues on the same lock.  The supervisor is the   *)
(* environment here: it moves `phase' and `link' (Supervisor.tla has it in  *)
(* full).  A tool with its frozen arguments is one member of Ops.           *)
EXTENDS Naturals, Sequences, FiniteSets

CONSTANTS
    Modules,        \* module names
    Ops,            \* a tool together with its arguments
    Principals,     \* "agent", "scheduler", "dev", ...
    Subject,        \* principal a confirmed call is recorded under
    Tasks,          \* coroutines that call ModuleAPI
    Policy,         \* what Gate.evaluate answers: [Principals \X Modules \X Ops -> Outcomes]
    Advertised,     \* <<module, op>> pairs whose tool the handshake listed
    Cancellable,    \* tasks a scheduler shutdown can cancel
    StoreFails,     \* may a store statement raise?
    MaxCrashes,     \* bound: crashes of the hub
    NoJob           \* not a job

Outcomes == {"allow", "deny", "confirm"}
Phases == {"starting", "ready", "degraded", "down"}
Links == {"open", "dead", "closed"}
Statuses == {"none", "pending", "confirmed", "expired"}
Actors == Tasks \cup Modules
Job == [principal : Principals \cup {Subject}, module : Modules, op : Ops]

ASSUME ModuleApiAssumption ==
    /\ Tasks \cap Modules = {}
    /\ Policy \in [Principals \X Modules \X Ops -> Outcomes]
    /\ Advertised \subseteq Modules \X Ops
    /\ Cancellable \subseteq Tasks
    /\ StoreFails \in BOOLEAN
    /\ MaxCrashes \in Nat
    /\ NoJob \notin Job

VARIABLES
    phase,   \* Module.state, as the calls see it
    link,    \* Module.client and its process; "dead": exited, not yet noticed
    lockq,   \* Module.lock: holder first, then the waiters in FIFO order
    running, \* requests a module process has received and not finished
    pc,      \* where each actor is suspended
    via,     \* the pending row a confirm names (the task itself for a call)
    job,     \* what the task is to run
    answer,  \* what the task is told
    pending, \* pending_calls: the row each asking task created
    due,     \* rows whose expires_at has passed
    audit,   \* tool_calls: the rows each task wrote
    sent,    \* history: the tasks whose request was written
    earlier, \* history: the confirms of its row that a confirm comes after
    crashes

moduleVars == <<phase, link>>
taskVars == <<via, job, earlier>>
storeVars == <<pending, due>>
vars == <<phase, link, lockq, running, pc, via, job, answer, pending, due,
          audit, sent, earlier, crashes>>

Init ==
    /\ phase = [m \in Modules |-> "starting"]
    /\ link = [m \in Modules |-> "closed"]
    /\ lockq = [m \in Modules |-> <<>>]
    /\ running = [m \in Modules |-> {}]
    /\ pc = [a \in Actors |-> "idle"]
    /\ via = [t \in Tasks |-> t]
    /\ job = [t \in Tasks |-> NoJob]
    /\ answer = [t \in Tasks |-> "none"]
    /\ pending = [t \in Tasks |-> [status |-> "none", job |-> NoJob]]
    /\ due = {}
    /\ audit = [t \in Tasks |-> <<>>]
    /\ sent = {}
    /\ earlier = [t \in Tasks |-> {}]
    /\ crashes = 0

----------------------------------------------------------------------------
(* The lock of a module. *)

\* The queue q without the actor in position i.
DropAt(q, i) == [j \in 1 .. Len(q) - 1 |-> IF j < i THEN q[j] ELSE q[j + 1]]

\* The module whose lock actor a uses.
ModuleOf(a) == IF a \in Modules THEN a ELSE job[a].module

\* Actor a stops holding, or waiting for, the lock of m.
Leave(a, m) ==
    \E i \in 1 .. Len(lockq[m]) :
        /\ lockq[m][i] = a
        /\ lockq' = [lockq EXCEPT ![m] = DropAt(@, i)]

\* The holder of the lock writes its request: client.call_tool.
\* A closed client refuses it; a dead process loses it.
Send(a, m) ==
    \/ /\ link[m] \in {"open", "dead"}
       /\ pc' = [pc EXCEPT ![a] = "flight"]
       /\ sent' = sent \cup ({a} \cap Tasks)
       /\ running' = [running EXCEPT ![m] = IF link[m] = "open" THEN @ \cup {a} ELSE @]
    \/ /\ link[m] = "closed"
       /\ pc' = [pc EXCEPT ![a] = "refused"]
       /\ UNCHANGED <<sent, running>>

\* Seeded fault: the lock is not waited for.
Enter_Unlocked(a, m) == lockq' = [lockq EXCEPT ![m] = Append(@, a)] /\ Send(a, m)

\* `async with mod.lock': a free lock is taken, and the request written,
\* without a suspension; otherwise the actor joins the queue.
Enter(a, m) ==
    /\ lockq' = [lockq EXCEPT ![m] = Append(@, a)]
    /\ IF lockq[m] = <<>>
       THEN Send(a, m)
       ELSE pc' = [pc EXCEPT ![a] = "lock"] /\ UNCHANGED <<sent, running>>

\* The lock has reached the actor at the head of the queue.
Granted(a) ==
    /\ pc[a] = "lock"
    /\ lockq[ModuleOf(a)] # <<>> /\ Head(lockq[ModuleOf(a)]) = a
    /\ Send(a, ModuleOf(a))
    /\ UNCHANGED <<moduleVars, lockq, taskVars, answer, storeVars, audit, crashes>>

----------------------------------------------------------------------------
(* call(module, tool, args, principal) *)

\* The checks before the gate: unknown tool, reserved tool, module not ready.
CallRejected(t) ==
    /\ pc[t] = "idle"
    /\ \E m \in Modules, o \in Ops : phase[m] # "ready" \/ <<m, o>> \notin Advertised
    /\ pc' = [pc EXCEPT ![t] = "done"]
    /\ answer' = [answer EXCEPT ![t] = "rejected"]
    /\ UNCHANGED <<moduleVars, lockq, running, taskVars, storeVars, audit, sent, crashes>>

\* What Gate.evaluate answers to j.
Verdict(j) == Policy[j.principal, j.module, j.op]

\* The gate has answered `outcome' to task t, which asks for j.
Evaluated(t, j, outcome) ==
    /\ pc[t] = "idle"
    /\ phase[j.module] = "ready"
    /\ <<j.module, j.op>> \in Advertised
    /\ Verdict(j) = outcome
    /\ job' = [job EXCEPT ![t] = j]
    /\ UNCHANGED <<moduleVars, via, earlier, storeVars, audit, crashes>>

CallDenied(t, j) ==
    /\ Evaluated(t, j, "deny")
    /\ pc' = [pc EXCEPT ![t] = "audit"]
    /\ answer' = [answer EXCEPT ![t] = "denied"]
    /\ UNCHANGED <<lockq, running, sent>>

CallAsks(t, j) ==
    /\ Evaluated(t, j, "confirm")
    /\ pc' = [pc EXCEPT ![t] = "create"]
    /\ UNCHANGED <<lockq, running, sent, answer>>

CallAllowed(t, j) ==
    /\ Evaluated(t, j, "allow")
    /\ Enter(t, j.module)
    /\ UNCHANGED answer

Asked(t) == [pending EXCEPT ![t] = [status |-> "pending", job |-> job[t]]]

\* Seeded fault: the confirm branch falls through to the dispatch.
CreatePending_FallsThrough(t) ==
    /\ pc[t] = "create"
    /\ pending' = Asked(t)
    /\ Enter(t, job[t].module)
    /\ answer' = [answer EXCEPT ![t] = "pending"]
    /\ UNCHANGED <<moduleVars, taskVars, due, audit, crashes>>

\* store.create_pending.  What the coroutine does when it is resumed, up to the
\* next await, nobody else sees: the event, and the arguments of the audit.
CreatePending(t) ==
    /\ pc[t] = "create"
    /\ pending' = Asked(t)
    /\ pc' = [pc EXCEPT ![t] = "audit"]
    /\ answer' = [answer EXCEPT ![t] = "pending"]
    /\ UNCHANGED <<moduleVars, lockq, running, taskVars, due, audit, sent, crashes>>

----------------------------------------------------------------------------
(* confirm(pending_id, subject) *)

Saw == {"sawNothing", "sawPending", "sawAnswered"}
ConfirmPcs == Saw \cup {"read", "expire", "mark"}
Confirms(q) == {t \in Tasks : via[t] = q /\ t # q}

Confirm(t, q) ==
    /\ pc[t] = "idle"
    /\ t # q
    /\ via' = [via EXCEPT ![t] = q]
    /\ earlier' = [earlier EXCEPT ![t] = {u \in Confirms(q) : u \in sent \/ pc[u] = "done"}]
    /\ pc' = [pc EXCEPT ![t] = "read"]
    /\ UNCHANGED <<moduleVars, lockq, running, job, answer, storeVars, audit, sent, crashes>>

\* store.get_pending: the row is copied now, the coroutine resumes later.
ReadPending(t) ==
    /\ pc[t] = "read"
    /\ pc' = [pc EXCEPT ![t] = CASE pending[via[t]].status = "none" -> "sawNothing"
                                  [] pending[via[t]].status = "pending" -> "sawPending"
                                  [] OTHER -> "sawAnswered"]
    /\ UNCHANGED <<moduleVars, lockq, running, taskVars, answer, storeVars, audit, sent, crashes>>

\* unknown_pending, not_pending, module_not_ready: answered at once, no audit.
ConfirmRefused(t) ==
    /\ \/ pc[t] = "sawNothing" /\ answer' = [answer EXCEPT ![t] = "unknown_pending"]
       \/ pc[t] = "sawAnswered" /\ answer' = [answer EXCEPT ![t] = "not_pending"]
       \/ /\ pc[t] = "sawPending" /\ via[t] \notin due
          /\ phase[pending[via[t]].job.module] # "ready"
          /\ answer' = [answer EXCEPT ![t] = "module_not_ready"]
    /\ pc' = [pc EXCEPT ![t] = "done"]
    /\ UNCHANGED <<moduleVars, lockq, running, taskVars, storeVars, audit, sent, crashes>>

ConfirmTooLate(t) ==
    /\ pc[t] = "sawPending" /\ via[t] \in due
    /\ pc' = [pc EXCEPT ![t] = "expire"]
    /\ UNCHANGED <<moduleVars, lockq, running, taskVars, answer, storeVars, audit, sent, crashes>>

\* The row is pending, in time and its module ready; the call to run is in js.
Accepts(t, js) ==
    /\ pc[t] = "sawPending" /\ via[t] \notin due
    /\ phase[pending[via[t]].job.module] = "ready"
    /\ job' \in {[job EXCEPT ![t] = j] : j \in js}
    /\ pc' = [pc EXCEPT ![t] = "mark"]
    /\ UNCHANGED <<moduleVars, lockq, running, via, earlier, answer, storeVars, audit, sent, crashes>>

\* Seeded faults: the arguments are not the frozen ones; the subject is dropped.
ConfirmAccepted_Unfrozen(t) ==
    Accepts(t, {[pending[via[t]].job EXCEPT !.principal = Subject, !.op = o] : o \in Ops})
ConfirmAccepted_AsAsker(t) == Accepts(t, {pending[via[t]].job})

\* The frozen call is taken from the row, under the confirming subject.
ConfirmAccepted(t) == Accepts(t, {[pending[via[t]].job EXCEPT !.principal = Subject]})

\* store.set_pending_status: UPDATE ... WHERE id=?, whatever the status was.
WithStatus(t, s) == [pending EXCEPT ![via[t]].status = s]

\* Seeded fault: the wrong status is written.
MarkExpired_Mislabelled(t) ==
    /\ pc[t] = "expire"
    /\ pending' = WithStatus(t, "cancelled")
    /\ pc' = [pc EXCEPT ![t] = "done"]
    /\ answer' = [answer EXCEPT ![t] = "expired"]
    /\ UNCHANGED <<moduleVars, lockq, running, taskVars, due, audit, sent, crashes>>

MarkExpired(t) ==
    /\ pc[t] = "expire"
    /\ pending' = WithStatus(t, "expired")
    /\ pc' = [pc EXCEPT ![t] = "done"]
    /\ answer' = [answer EXCEPT ![t] = "expired"]
    /\ UNCHANGED <<moduleVars, lockq, running, taskVars, due, audit, sent, crashes>>

\* Seeded fault: the row is not marked before the dispatch.
MarkConfirmed_Unmarked(t) ==
    /\ pc[t] = "mark"
    /\ pc' = [pc EXCEPT ![t] = "marked"]
    /\ UNCHANGED <<moduleVars, lockq, running, taskVars, answer, storeVars, audit, sent, crashes>>

\* The UPDATE is committed; the coroutine is resumed later.
MarkConfirmed(t) ==
    /\ pc[t] = "mark"
    /\ pending' = WithStatus(t, "confirmed")
    /\ pc' = [pc EXCEPT ![t] = "marked"]
    /\ UNCHANGED <<moduleVars, lockq, running, taskVars, answer, due, audit, sent, crashes>>

Dispatch(t) ==
    /\ pc[t] = "marked"
    /\ Enter(t, job[t].module)
    /\ UNCHANGED <<moduleVars, taskVars, answer, storeVars, audit, crashes>>

----------------------------------------------------------------------------
(* _dispatch: what can come back *)

\* A result: the lock is released, then the call is audited.
Reply(t, o) ==
    /\ pc[t] = "flight"
    /\ t \in running[job[t].module]
    /\ running' = [running EXCEPT ![job[t].module] = @ \ {t}]
    /\ Leave(t, job[t].module)
    /\ pc' = [pc EXCEPT ![t] = "audit"]
    /\ answer' = [answer EXCEPT ![t] = o]
    /\ UNCHANGED <<moduleVars, taskVars, storeVars, audit, sent, crashes>>

\* A timeout or an error: audited with the lock still held.
Failed(t, o) ==
    /\ pc' = [pc EXCEPT ![t] = "auditHeld"]
    /\ answer' = [answer EXCEPT ![t] = o]
    /\ UNCHANGED <<moduleVars, lockq, taskVars, storeVars, audit, sent, crashes>>

\* Seeded fault: no timeout.
Timeout_Never(t) == FALSE

Timeout(t) == pc[t] = "flight" /\ Failed(t, "timeout") /\ UNCHANGED running

ErrorReply(t) ==
    /\ pc[t] = "flight"
    /\ t \in running[job[t].module]
    /\ running' = [running EXCEPT ![job[t].module] = @ \ {t}]
    /\ Failed(t, "error")

\* The client was closed before the write, or its connection ended after it.
NoConnection(t) ==
    /\ pc[t] = "refused" \/ (pc[t] = "flight" /\ t \notin running[job[t].module])
    /\ Failed(t, "error")
    /\ UNCHANGED running

\* store.record_tool_call: a failed statement is swallowed.
Audited(t) ==
    \/ audit' = [audit EXCEPT ![t] = Append(@, [job |-> job[t], result |-> answer[t]])]
    \/ StoreFails /\ UNCHANGED audit

\* Seeded fault: the error path does not release the lock.
AuditAndReturn_KeepsLock(t) ==
    /\ pc[t] \in {"audit", "auditHeld"}
    /\ Audited(t)
    /\ pc' = [pc EXCEPT ![t] = "done"]
    /\ UNCHANGED <<moduleVars, lockq, running, taskVars, answer, storeVars, sent, crashes>>

AuditAndReturn(t) ==
    /\ \/ pc[t] = "audit" /\ UNCHANGED lockq
       \/ pc[t] = "auditHeld" /\ Leave(t, job[t].module)
    /\ Audited(t)
    /\ pc' = [pc EXCEPT ![t] = "done"]
    /\ UNCHANGED <<moduleVars, running, taskVars, answer, storeVars, sent, crashes>>

\* A statement of create_pending, get_pending or set_pending_status raises
\* (before or after it took effect) and the exception leaves ModuleAPI.
StoreRaises(t) ==
    /\ StoreFails
    /\ \/ pc[t] = "read" /\ UNCHANGED pending
       \/ pc[t] = "create" /\ pending' \in {pending, Asked(t)}
       \/ pc[t] = "expire" /\ pending' \in {pending, WithStatus(t, "expired")}
       \/ pc[t] = "mark" /\ pending' \in {pending, WithStatus(t, "confirmed")}
    /\ pc' = [pc EXCEPT ![t] = "done"]
    /\ answer' = [answer EXCEPT ![t] = "raised"]
    /\ UNCHANGED <<moduleVars, lockq, running, taskVars, due, audit, sent, crashes>>

\* CancelledError at an await of call(); the store's thread may still finish.
Cancel(t) ==
    /\ t \in Cancellable
    /\ \/ pc[t] = "create" /\ pending' \in {pending, Asked(t)} /\ UNCHANGED <<lockq, audit>>
       \/ pc[t] = "audit" /\ (Audited(t) \/ UNCHANGED audit) /\ UNCHANGED <<lockq, pending>>
       \/ /\ pc[t] = "auditHeld" /\ (Audited(t) \/ UNCHANGED audit)
          /\ Leave(t, job[t].module) /\ UNCHANGED pending
       \/ pc[t] \in {"lock", "flight"} /\ Leave(t, job[t].module) /\ UNCHANGED <<audit, pending>>
    /\ pc' = [pc EXCEPT ![t] = "done"]
    /\ answer' = [answer EXCEPT ![t] = "cancelled"]
    /\ UNCHANGED <<moduleVars, running, taskVars, due, sent, crashes>>

----------------------------------------------------------------------------
(* The health probe, and the module process *)

ProbeStarts(m) ==
    /\ pc[m] = "idle"
    /\ phase[m] \in {"ready", "degraded"} /\ link[m] \in {"open", "dead"}
    /\ Enter(m, m)
    /\ UNCHANGED <<moduleVars, taskVars, answer, storeVars, audit, crashes>>

\* A healthy or unhealthy answer, a timeout or an error, each ending the probe.
ProbeEnds(m) ==
    /\ pc[m] \in {"flight", "refused"}
    /\ Leave(m, m)
    /\ pc' = [pc EXCEPT ![m] = "idle"]
    /\ \/ /\ m \in running[m]
          /\ phase' = [phase EXCEPT ![m] = IF @ \in {"ready", "degraded"} THEN "ready" ELSE @]
          /\ running' = [running EXCEPT ![m] = @ \ {m}]
       \/ /\ phase' = [phase EXCEPT ![m] = IF @ \in {"ready", "degraded"} THEN "degraded" ELSE @]
          /\ running' \in {running, [running EXCEPT ![m] = @ \ {m}]}
    /\ UNCHANGED <<link, taskVars, answer, storeVars, audit, sent, crashes>>

\* The module finishes a request nobody waits for any more (an orphan reply).
LateFinish(m) ==
    /\ \E a \in running[m] : pc[a] # "flight" /\ running' = [running EXCEPT ![m] = @ \ {a}]
    /\ UNCHANGED <<moduleVars, lockq, pc, taskVars, answer, storeVars, audit, sent, crashes>>

ProcessDies(m) ==
    /\ link[m] = "open"
    /\ link' = [link EXCEPT ![m] = "dead"]
    /\ running' = [running EXCEPT ![m] = {}]
    /\ UNCHANGED <<phase, lockq, pc, taskVars, answer, storeVars, audit, sent, crashes>>

\* proc.wait() returns in _supervise: the probe is cancelled, the client closed.
ExitNoticed(m) ==
    /\ link[m] = "dead" /\ phase[m] \in {"ready", "degraded"}
    /\ link' = [link EXCEPT ![m] = "closed"]
    /\ IF pc[m] = "idle" THEN UNCHANGED lockq ELSE Leave(m, m)
    /\ pc' = [pc EXCEPT ![m] = "idle"]
    /\ UNCHANGED <<phase, running, taskVars, answer, storeVars, audit, sent, crashes>>

\* The phase after an exit, a failed spawn or a failed handshake.
Restart(m) ==
    /\ \/ link[m] = "closed" /\ phase[m] \in {"ready", "degraded"}
       \/ link[m] # "open" /\ phase[m] = "starting"
    /\ phase' \in {[phase EXCEPT ![m] = "starting"], [phase EXCEPT ![m] = "down"]}
    /\ UNCHANGED <<link, lockq, running, pc, taskVars, answer, storeVars, audit, sent, crashes>>

\* A new process with a new client, not yet handshaken.
Spawn(m) ==
    /\ phase[m] = "starting" /\ link[m] # "open"
    /\ link' = [link EXCEPT ![m] = "open"]
    /\ UNCHANGED <<phase, lockq, running, pc, taskVars, answer, storeVars, audit, sent, crashes>>

Handshake(m) ==
    /\ phase[m] = "starting" /\ link[m] = "open"
    /\ phase' = [phase EXCEPT ![m] = "ready"]
    /\ UNCHANGED <<link, lockq, running, pc, taskVars, answer, storeVars, audit, sent, crashes>>

\* expires_at of a row passes.  It is read after a row was seen pending, and
\* only then: a row nobody can confirm any more need not expire.
Expire(q) ==
    /\ q \notin due
    /\ pending[q].status = "pending" \/ \E t \in Confirms(q) : pc[t] = "sawPending"
    /\ due' = due \cup {q}
    /\ UNCHANGED <<moduleVars, lockq, running, pc, taskVars, answer, pending, audit, sent, crashes>>

\* The hub dies and is started again: coroutines, locks and processes are gone,
\* the two tables stay.
Crash ==
    /\ crashes < MaxCrashes
    /\ crashes' = crashes + 1
    /\ phase' = [m \in Modules |-> "starting"]
    /\ link' = [m \in Modules |-> "closed"]
    /\ lockq' = [m \in Modules |-> <<>>]
    /\ running' = [m \in Modules |-> {}]
    /\ pc' = [a \in Actors |-> IF a \in Tasks /\ pc[a] # "idle" THEN "done" ELSE "idle"]
    /\ answer' = [t \in Tasks |-> IF pc[t] \in {"idle", "done"} THEN answer[t] ELSE "lost"]
    /\ UNCHANGED <<taskVars, storeVars, audit, sent>>

----------------------------------------------------------------------------
Asking(t) ==
    \/ CallRejected(t)
    \/ \E p \in Principals, m \in Modules, o \in Ops :
          LET j == [principal |-> p, module |-> m, op |-> o]
          IN  CallDenied(t, j) \/ CallAsks(t, j) \/ CallAllowed(t, j)
    \/ \E q \in Tasks : Confirm(t, q)

\* What the hub does for a task once it has been asked.
TaskStep(t) ==
    \/ CreatePending(t) \/ ReadPending(t)
    \/ ConfirmRefused(t) \/ ConfirmTooLate(t) \/ ConfirmAccepted(t)
    \/ MarkExpired(t) \/ MarkConfirmed(t) \/ Dispatch(t)
    \/ Granted(t) \/ Timeout(t) \/ NoConnection(t) \/ AuditAndReturn(t)

ModuleAnswers(t) == ErrorReply(t) \/ \E o \in {"ok", "tool_error", "bad_result"} : Reply(t, o)

ProbeStep(m) == Granted(m) \/ ProbeEnds(m)

Supervised(m) ==
    \/ ProbeStarts(m) \/ ProbeStep(m) \/ LateFinish(m)
    \/ ProcessDies(m) \/ ExitNoticed(m) \/ Restart(m) \/ Spawn(m) \/ Handshake(m)

Next ==
    \/ \E t \in Tasks : Asking(t) \/ TaskStep(t) \/ ModuleAnswers(t) \/ StoreRaises(t) \/ Cancel(t)
    \/ \E m \in Modules : Supervised(m)
    \/ \E q \in Tasks : Expire(q)
    \/ Crash

Spec == Init /\ [][Next]_vars

\* asyncio resumes every coroutine whose await is over, and wait_for ends every
\* request; nothing is assumed of callers, modules or the supervisor.
Fairness ==
    /\ \A t \in Tasks : WF_vars(TaskStep(t))
    /\ \A m \in Modules : WF_vars(ProbeStep(m))

FairSpec == Spec /\ Fairness

----------------------------------------------------------------------------
(* Properties *)

LockPcs == {"lock", "flight", "refused", "auditHeld"}
PCs == LockPcs \cup ConfirmPcs \cup {"idle", "create", "marked", "audit", "done"}
Answers == {"none", "rejected", "denied", "pending", "unknown_pending", "not_pending",
            "module_not_ready", "expired", "ok", "tool_error", "bad_result", "timeout",
            "error", "raised", "cancelled", "lost"}

TypeOK ==
    /\ phase \in [Modules -> Phases]
    /\ link \in [Modules -> Links]
    /\ lockq \in [Modules -> Seq(Actors)]
    /\ running \in [Modules -> SUBSET Actors]
    /\ pc \in [Actors -> PCs]
    /\ via \in [Tasks -> Tasks]
    /\ job \in [Tasks -> Job \cup {NoJob}]
    /\ answer \in [Tasks -> Answers]
    /\ pending \in [Tasks -> [status : Statuses, job : Job \cup {NoJob}]]
    /\ due \in SUBSET Tasks
    /\ audit \in [Tasks -> Seq([job : Job, result : Answers])]
    /\ sent \in SUBSET Tasks
    /\ earlier \in [Tasks -> SUBSET Tasks]
    /\ crashes \in 0 .. MaxCrashes

\* A lock is never left to somebody who will not release it: everything in a
\* module's queue is, once, an actor suspended on that lock, and only the head
\* has got past the wait, whatever was cancelled, restarted or failed.
LockOwned ==
    \A m \in Modules : \A i \in 1 .. Len(lockq[m]) :
        LET a == lockq[m][i]
        IN  /\ pc[a] \in (IF i = 1 THEN LockPcs ELSE {"lock"})
            /\ ModuleOf(a) = m
            /\ \A j \in 1 .. Len(lockq[m]) : lockq[m][j] = a => j = i

\* "one in-flight call per module" (moduleapi.py:10): of the tool calls and the
\* probe of a module at most one is between its request and its answer, across
\* cancellations and restarts of the module.
OneInFlight ==
    \A a, b \in Actors :
        pc[a] = "flight" /\ pc[b] = "flight" /\ ModuleOf(a) = ModuleOf(b) => a = b

\* Who is past the wait is at the head of the queue of its module.
HolderAtHead ==
    \A a \in Actors : pc[a] \in LockPcs \ {"lock"} =>
        lockq[ModuleOf(a)] # <<>> /\ lockq[ModuleOf(a)][1] = a

\* A task that acts on a call has one, and so has a row that exists.
JobKnown ==
    \A t \in Tasks :
        /\ pc[t] \in LockPcs \cup {"create", "mark", "marked", "audit"} => job[t] \in Job
        /\ pending[t].status # "none" => pending[t].job \in Job
        /\ pc[t] \in {"sawPending", "expire", "mark"} => pending[via[t]].status # "none"

\* The inductive strengthening of OneInFlight (ModuleApiProofs.tla): no lock is
\* left to somebody who will not release it, whatever is cancelled or restarted.
IInv == TypeOK /\ LockOwned /\ HolderAtHead /\ JobKnown

\* A question that was executed, or declared expired, stays answered, across a
\* crash and a restart of the hub as well: a confirm that begins afterwards
\* neither executes it nor declares it expired (again).
AnsweredOnce ==
    \A q \in Tasks : \A t, u \in Confirms(q) :
        u \in earlier[t] /\ (u \in sent \/ answer[u] = "expired")
            => t \notin sent /\ answer[t] # "expired"

\* The audit trail tells what the caller was told: a call that was sent and
\* answered has exactly one row, for the call that ran and with its result, and
\* a confirmed call is recorded under the confirming subject.
AuditTruthful ==
    \A t \in Tasks :
        /\ pc[t] = "done" /\ t \in sent /\ answer[t] \notin {"cancelled", "lost"} /\ ~StoreFails
              => audit[t] = <<[job |-> job[t], result |-> answer[t]]>>
        /\ \A i \in 1 .. Len(audit[t]) :
              audit[t][i].job.principal \in (IF via[t] = t THEN Principals ELSE {Subject})

\* "not_pending", "expired", "policy_denied", ...: a caller told that nothing
\* was done is told the truth, and all that the audit trail may say of its call
\* is that it was denied or is pending.
RefusalIsTrue ==
    \A t \in Tasks :
        answer[t] \in {"rejected", "denied", "pending", "unknown_pending", "not_pending",
                       "module_not_ready", "expired", "raised"}
            => /\ t \notin sent
               /\ \A i \in 1 .. Len(audit[t]) : audit[t][i].result \in {"denied", "pending"}

\* Every call() and confirm() that was entered returns ("never a hang",
\* moduleapi.py:7), whatever the module and the supervisor do.
CallReturns == \A t \in Tasks : pc[t] # "idle" ~> pc[t] = "done"

(* What the abstract specification sees of this one. *)
Standing(t) ==
    IF t \in sent THEN "spent"
    ELSE IF pc[t] \in {"marked", "lock", "refused"} THEN "granted"
    ELSE IF pc[t] \in ConfirmPcs \cup {"idle", "create"} THEN "none"
    ELSE "void"

Holding(t) == IF pc[t] \in {"sawPending", "expire", "mark"} THEN {via[t]} ELSE {}

Auth == INSTANCE Authority WITH
    standing <- [t \in Tasks |-> Standing(t)],
    grant <- [t \in Tasks |-> IF Standing(t) \in {"granted", "spent"} THEN job[t] ELSE NoJob],
    holding <- [t \in Tasks |-> Holding(t)],
    question <- pending

\* The call path implements the authority it promises: a call runs only on an
\* "allow" of the gate or on one question that it found open and confirmed, with
\* the frozen arguments, and once on each right (moduleapi.py:11-12).
ImplementsAuthority == Auth!Spec

\* It "creates a pending confirmation" (README.md:82), which is confirmed once:
\* of the confirms that name a row at most one executes its call.
ConfirmedOnce == \A q \in Tasks : \A t, u \in Confirms(q) : {t, u} \subseteq sent => t = u

\* "Every call, allowed or denied, is written to a SQLite audit log" (README.md:27).
EverySentCallAudited == \A t \in Tasks : pc[t] = "done" /\ t \in sent => Len(audit[t]) = 1
=============================================================================
