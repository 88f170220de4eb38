--------------------------- MODULE CallPathProofs ---------------------------
(* More proofs about ModuleApi.tla: what a caller and the audit trail are   *)
(* told, and that an answered question stays answered.  IInv comes from     *)
(* ModuleApiProofs.tla.                                                     *)
EXTENDS ModuleApiProofs

USE ModuleApiAssumption DEF Actors

Ran == {"ok", "tool_error", "bad_result"}
NotRun == {"rejected", "denied", "pending", "unknown_pending", "not_pending",
           "module_not_ready", "expired", "raised"}
SentPcs == {"flight", "auditHeld", "audit", "done"}
Unanswered == PCs \ {"audit", "auditHeld", "done"}

\* A request is written when the task is in flight, and not before; until it is
\* answered the task has been told nothing, and until it is done nothing is in
\* the audit trail.
Answered(t) ==
    /\ t \in sent => pc[t] \in SentPcs
    /\ pc[t] = "flight" => t \in sent
    /\ pc[t] \in Unanswered => answer[t] = "none"
    /\ pc[t] = "auditHeld" => answer[t] \in {"timeout", "error"}
    /\ pc[t] = "audit" => answer[t] \in (IF t \in sent THEN Ran ELSE {"denied", "pending"})
    /\ answer[t] \in NotRun
          => t \notin sent /\ \A i \in 1 .. Len(audit[t]) : audit[t][i].result \in {"denied", "pending"}
    /\ pc[t] # "done" => audit[t] = <<>>
    /\ pc[t] = "done" /\ t \in sent /\ answer[t] \notin {"cancelled", "lost"} /\ ~StoreFails
          => audit[t] = <<[job |-> job[t], result |-> answer[t]]>>

\* Whose call a task is to run: the asker's, or the subject's that confirmed.
Principal(t) == IF via[t] = t THEN Principals ELSE {Subject}

Attributed(t) ==
    /\ pc[t] = "idle" => via[t] = t
    /\ pc[t] \in LockPcs \cup {"create", "mark", "marked", "audit"} => job[t].principal \in Principal(t)
    /\ \A i \in 1 .. Len(audit[t]) : audit[t][i].job.principal \in Principal(t)

\* A task that asks has no row yet, and asks what the gate wants confirmed; one
\* that confirms carries the call of the row.
Entitled(t) ==
    /\ pc[t] \in {"idle", "create"} => pending[t].status = "none"
    /\ pc[t] = "create" => Verdict(job[t]) = "confirm" /\ via[t] = t
    /\ pc[t] \in Saw \cup {"read", "expire", "mark", "marked"} => via[t] # t
    /\ pc[t] = "mark" => job[t] = [pending[via[t]].job EXCEPT !.principal = Subject]

Told(t) == Answered(t) /\ Attributed(t) /\ Entitled(t)

TellInv == \A t \in Tasks : Told(t)

Acting == {"sawPending", "expire", "mark"}
Closed == {"confirmed", "expired"}

\* A confirm that has marked its row, and one that acts on it, or has.
Decided(t) == via[t] # t /\ (pc[t] \in LockPcs \cup {"marked"} \/ t \in sent \/ answer[t] = "expired")
Took(t) == (via[t] # t /\ pc[t] \in Acting) \/ Decided(t)

\* A row that was marked is not open again; the confirms that came before t are
\* through with it, or have run; and t acts on it only if none of them marked it.
OnceInv ==
    /\ \A t \in Tasks : Decided(t) => pending[via[t]].status \in Closed
    /\ \A t \in Tasks : \A u \in earlier[t] :
          (pc[u] = "done" \/ u \in sent) /\ via[u] = via[t] /\ via[u] # u
    /\ \A t \in Tasks : Took(t) => \A u \in earlier[t] : ~Decided(u)

----------------------------------------------------------------------------
(* What a step may do to the tasks *)

\* Everything about task u but its row stays the same.
Stays(u) ==
    /\ pc'[u] = pc[u] /\ via'[u] = via[u] /\ job'[u] = job[u]
    /\ answer'[u] = answer[u] /\ audit'[u] = audit[u]
    /\ earlier'[u] = earlier[u]
    /\ u \in sent' <=> u \in sent

\* A step of task t writes its own row, or the status of the one it confirms.
RowStep(t) ==
    \/ UNCHANGED pending
    \/ pc[t] = "create" /\ pending' = Asked(t)
    \/ pc[t] = "expire" /\ pending' = WithStatus(t, "expired")
    \/ pc[t] = "mark" /\ pending' = WithStatus(t, "confirmed")

TaskAction(t) ==
    Asking(t) \/ TaskStep(t) \/ ModuleAnswers(t) \/ StoreRaises(t) \/ Cancel(t)

\* The request of a task is recorded as sent exactly if it gets in flight.
LEMMA SendMarks ==
    ASSUME TypeOK, NEW a \in Actors, NEW m \in Modules, Send(a, m) \/ Enter(a, m)
    PROVE  /\ pc' = [pc EXCEPT ![a] = pc'[a]]
           /\ pc'[a] \in {"lock", "flight", "refused"}
           /\ a \in Tasks => sent' = IF pc'[a] = "flight" THEN sent \cup {a} ELSE sent
           /\ a \notin Tasks => sent' = sent
<1> DEFINE Marks == /\ pc' = [pc EXCEPT ![a] = pc'[a]]
                    /\ pc'[a] \in {"lock", "flight", "refused"}
                    /\ a \in Tasks => sent' = IF pc'[a] = "flight" THEN sent \cup {a} ELSE sent
                    /\ a \notin Tasks => sent' = sent
<1>1. ASSUME Send(a, m)
      PROVE  \/ pc' = [pc EXCEPT ![a] = "flight"] /\ sent' = sent \cup ({a} \cap Tasks)
             \/ pc' = [pc EXCEPT ![a] = "refused"] /\ sent' = sent
  BY <1>1 DEF Send
<1>2. \/ pc' = [pc EXCEPT ![a] = "flight"] /\ sent' = sent \cup ({a} \cap Tasks)
      \/ pc' = [pc EXCEPT ![a] = "refused"] /\ sent' = sent
      \/ pc' = [pc EXCEPT ![a] = "lock"] /\ sent' = sent
  BY <1>1 DEF Enter
<1>3. ASSUME NEW p, pc' = [pc EXCEPT ![a] = p]
      PROVE  pc'[a] = p /\ pc' = [pc EXCEPT ![a] = pc'[a]]
  BY <1>3 DEF TypeOK
<1>4. CASE pc' = [pc EXCEPT ![a] = "flight"] /\ sent' = sent \cup ({a} \cap Tasks)
  <2>1. pc'[a] = "flight" /\ pc' = [pc EXCEPT ![a] = pc'[a]]
    BY <1>3, <1>4
  <2>2. a \in Tasks => sent' = sent \cup {a}
    BY <1>4
  <2>3. a \notin Tasks => sent' = sent
    BY <1>4
  <2> QED BY <2>1, <2>2, <2>3
<1>5. ASSUME NEW p \in {"refused", "lock"}, pc' = [pc EXCEPT ![a] = p], sent' = sent PROVE Marks
  <2>1. pc'[a] = p /\ pc' = [pc EXCEPT ![a] = pc'[a]]
    BY <1>3, <1>5
  <2> QED BY <1>5, <2>1
<1> QED BY <1>2, <1>4, <1>5

\* A task that is asked for a call moves itself.
LEMMA AskingFrame ==
    ASSUME IInv, NEW t \in Tasks, Asking(t)
    PROVE  UNCHANGED pending /\ \A u \in Tasks \ {t} : Stays(u)
<1> USE DEF moduleVars, taskVars, storeVars
<1>0. TypeOK
  BY DEF IInv
<1>1. CASE CallRejected(t) \/ \E q \in Tasks : Confirm(t, q)
  BY <1>0, <1>1 DEF CallRejected, Confirm, Stays, TypeOK
<1>2. ASSUME NEW j \in Job, CallDenied(t, j) \/ CallAsks(t, j) \/ CallAllowed(t, j)
      PROVE  UNCHANGED pending /\ \A u \in Tasks \ {t} : Stays(u)
  <2>1. job' = [job EXCEPT ![t] = j] /\ UNCHANGED <<via, earlier, pending, audit>> /\ j.module \in Modules
    BY <1>2 DEF CallDenied, CallAsks, CallAllowed, Evaluated, Job
  <2>2. CASE CallDenied(t, j) \/ CallAsks(t, j)
    BY <1>0, <2>1, <2>2 DEF CallDenied, CallAsks, Stays, TypeOK
  <2>3. CASE CallAllowed(t, j)
    <3>1. Enter(t, j.module) /\ UNCHANGED answer
      BY <2>3 DEF CallAllowed
    <3>2. pc' = [pc EXCEPT ![t] = pc'[t]] /\ (sent' = sent \/ sent' = sent \cup {t})
      BY <1>0, <2>1, <3>1, SendMarks
    <3> QED BY <1>0, <2>1, <3>1, <3>2 DEF Stays, TypeOK
  <2> QED BY <1>2, <2>2, <2>3
<1>3. ASSUME NEW p \in Principals, NEW m \in Modules, NEW o \in Ops
      PROVE  [principal |-> p, module |-> m, op |-> o] \in Job
  BY DEF Job
<1> QED BY <1>1, <1>2, <1>3 DEF Asking

LEMMA TaskFrame ==
    ASSUME IInv, NEW t \in Tasks, TaskAction(t)
    PROVE  RowStep(t) /\ \A u \in Tasks \ {t} : Stays(u)
<1> USE DEF moduleVars, taskVars, storeVars
<1>0. TypeOK /\ JobKnown
  BY DEF IInv
<1>1. CASE Asking(t)
  BY <1>1, AskingFrame DEF RowStep
<1>2. CASE CreatePending(t) \/ ReadPending(t) \/ ConfirmRefused(t) \/ ConfirmTooLate(t)
                            \/ MarkExpired(t) \/ MarkConfirmed(t)
  BY <1>0, <1>2 DEF CreatePending, ReadPending, ConfirmRefused, ConfirmTooLate, MarkExpired,
                    MarkConfirmed, RowStep, Stays, TypeOK
<1>3. CASE ConfirmAccepted(t)
  BY <1>0, <1>3 DEF ConfirmAccepted, Accepts, RowStep, Stays, TypeOK
<1>4. CASE Dispatch(t)
  <2>1. job[t].module \in Modules
    BY <1>0, <1>4 DEF Dispatch, JobKnown, Job
  <2>2. pc' = [pc EXCEPT ![t] = pc'[t]] /\ (sent' = sent \/ sent' = sent \cup {t})
    BY <1>0, <1>4, <2>1, SendMarks DEF Dispatch
  <2> QED BY <1>0, <1>4, <2>2 DEF Dispatch, RowStep, Stays, TypeOK
<1>5. CASE Granted(t)
  <2>1. ModuleOf(t) \in Modules /\ Send(t, ModuleOf(t))
    BY <1>0, <1>5, OnLock DEF Granted, LockPcs
  <2>2. pc' = [pc EXCEPT ![t] = pc'[t]] /\ (sent' = sent \/ sent' = sent \cup {t})
    BY <1>0, <2>1, SendMarks
  <2> QED BY <1>0, <1>5, <2>2 DEF Granted, RowStep, Stays, TypeOK
<1>6. CASE Timeout(t) \/ NoConnection(t) \/ ErrorReply(t) \/ ModuleAnswers(t)
  BY <1>0, <1>6 DEF Timeout, NoConnection, ErrorReply, ModuleAnswers, Failed, Reply, RowStep, Stays, TypeOK
<1>7. CASE AuditAndReturn(t)
  BY <1>0, <1>7 DEF AuditAndReturn, Audited, RowStep, Stays, TypeOK
<1>8. CASE StoreRaises(t)
  BY <1>0, <1>8 DEF StoreRaises, RowStep, Stays, TypeOK
<1>9. CASE Cancel(t)
  BY <1>0, <1>9 DEF Cancel, Audited, RowStep, Stays, TypeOK
<1> QED BY <1>1, <1>2, <1>3, <1>4, <1>5, <1>6, <1>7, <1>8, <1>9 DEF TaskAction, TaskStep

\* A row that exists keeps its call, and one that does not is made by its task.
LEMMA RowsKept ==
    ASSUME IInv, NEW t \in Tasks, RowStep(t), NEW q \in Tasks
    PROVE  /\ pending[q].status # "none" /\ ~(q = t /\ pc[t] = "create")
                 => pending'[q].status # "none" /\ pending'[q].job = pending[q].job
           /\ pending[q].status = "none" /\ q # t => pending'[q].status = "none"
<1> USE DEF IInv, TypeOK, JobKnown
<1>1. CASE UNCHANGED pending
  BY <1>1
<1>2. CASE pc[t] = "create" /\ pending' = Asked(t)
  BY <1>2 DEF Asked
<1>3. CASE pc[t] = "expire" /\ pending' = WithStatus(t, "expired")
  BY <1>3 DEF WithStatus
<1>4. CASE pc[t] = "mark" /\ pending' = WithStatus(t, "confirmed")
  BY <1>4 DEF WithStatus
<1> QED BY <1>1, <1>2, <1>3, <1>4 DEF RowStep

----------------------------------------------------------------------------
(* What callers and the audit trail are told *)

\* The other tasks notice nothing of a step of t, but the row they confirm.
LEMMA OthersTold ==
    ASSUME IInv, TellInv, NEW t \in Tasks, TaskAction(t), NEW u \in Tasks \ {t}
    PROVE  Told(u)'
<1>1. Told(u) /\ Told(t) /\ Stays(u) /\ RowStep(t)
  BY TaskFrame DEF TellInv
<1>2. Answered(u)' /\ Attributed(u)'
  BY <1>1 DEF Told, Stays, Answered, Attributed, Principal
<1>3. pending[u].status = "none" => pending'[u].status = "none"
  BY <1>1, RowsKept
<1>4. pc[u] = "mark" => pending'[via[u]].job = pending[via[u]].job
  <2> SUFFICES ASSUME pc[u] = "mark" PROVE pending'[via[u]].job = pending[via[u]].job
    OBVIOUS
  <2>1. via[u] \in Tasks /\ pending[via[u]].status # "none"
    BY DEF IInv, TypeOK, JobKnown
  <2>2. ~(via[u] = t /\ pc[t] = "create")
    BY <1>1, <2>1 DEF Told, Entitled
  <2> QED BY <1>1, <2>1, <2>2, RowsKept
<1>5. Entitled(u)'
  BY <1>1, <1>3, <1>4 DEF Told, Stays, Entitled
<1> QED BY <1>2, <1>5 DEF Told

\* The task itself, outside every lock.
LEMMA OutsideTold ==
    ASSUME IInv, TellInv, NEW t \in Tasks,
           \/ CallRejected(t) \/ CreatePending(t) \/ ReadPending(t) \/ ConfirmRefused(t)
           \/ ConfirmTooLate(t) \/ ConfirmAccepted(t) \/ MarkExpired(t) \/ MarkConfirmed(t) \/ StoreRaises(t)
           \/ \E j \in Job : j.principal \in Principals /\ (CallDenied(t, j) \/ CallAsks(t, j))
           \/ \E q \in Tasks : Confirm(t, q)
    PROVE  Told(t)'
<1> USE DEF moduleVars, taskVars, storeVars
<1>0. TypeOK /\ JobKnown /\ Answered(t) /\ Attributed(t) /\ Entitled(t)
  BY DEF IInv, TellInv, Told
<1>1. CASE CallRejected(t)
  <2>1. /\ pc[t] = "idle" /\ pc'[t] = "done" /\ answer'[t] = "rejected"
        /\ UNCHANGED <<via, job, pending, audit, sent>>
    BY <1>0, <1>1 DEF CallRejected, TypeOK
  <2> QED BY <1>0, <2>1 DEF Told, Answered, Attributed, Entitled, Principal, SentPcs, Unanswered,
                            PCs, NotRun, LockPcs, ConfirmPcs, Saw
<1>2. CASE CreatePending(t)
  <2>1. /\ pc[t] = "create" /\ pc'[t] = "audit" /\ answer'[t] = "pending"
        /\ UNCHANGED <<via, job, audit, sent>>
    BY <1>0, <1>2 DEF CreatePending, TypeOK
  <2> QED BY <1>0, <2>1 DEF Told, Answered, Attributed, Entitled, Principal, SentPcs, Unanswered,
                            PCs, NotRun, LockPcs, ConfirmPcs, Saw
<1>3. CASE ReadPending(t) \/ ConfirmTooLate(t)
  <2>1. /\ pc[t] \in Saw \cup {"read"} /\ pc'[t] \in Saw \cup {"expire"}
        /\ UNCHANGED <<answer, via, job, audit, sent, pending>>
    BY <1>0, <1>3 DEF ReadPending, ConfirmTooLate, TypeOK, Saw
  <2> QED BY <1>0, <2>1 DEF Told, Answered, Attributed, Entitled, Principal, SentPcs, Unanswered,
                            PCs, NotRun, LockPcs, ConfirmPcs, Saw
<1>4. CASE ConfirmRefused(t)
  <2>1. /\ pc[t] \in Saw /\ pc'[t] = "done" /\ answer'[t] \in NotRun
        /\ UNCHANGED <<via, job, audit, sent, pending>>
    BY <1>0, <1>4 DEF ConfirmRefused, TypeOK, NotRun, Saw
  <2> QED BY <1>0, <2>1 DEF Told, Answered, Attributed, Entitled, Principal, SentPcs, Unanswered,
                            PCs, NotRun, LockPcs, ConfirmPcs, Saw
<1>5. CASE ConfirmAccepted(t)
  <2>1. /\ pc[t] = "sawPending" /\ pc'[t] = "mark"
        /\ job' = [job EXCEPT ![t] = [pending[via[t]].job EXCEPT !.principal = Subject]]
        /\ UNCHANGED <<answer, via, audit, sent, pending>>
    BY <1>0, <1>5 DEF ConfirmAccepted, Accepts, TypeOK
  <2>2. pending[via[t]].job \in Job
    BY <1>0, <2>1 DEF JobKnown, TypeOK
  <2>3. /\ job'[t] = [pending[via[t]].job EXCEPT !.principal = Subject]
        /\ job'[t].principal = Subject
    BY <1>0, <2>1, <2>2 DEF Job, TypeOK
  <2> QED BY <1>0, <2>1, <2>3 DEF Told, Answered, Attributed, Entitled, Principal, SentPcs,
                            Unanswered, PCs, NotRun, LockPcs, ConfirmPcs, Saw
<1>6. CASE MarkExpired(t) \/ StoreRaises(t)
  <2>1. /\ pc[t] \in {"expire", "read", "create", "mark"} /\ pc'[t] = "done"
        /\ answer'[t] \in {"expired", "raised"}
        /\ UNCHANGED <<via, job, audit, sent>>
    BY <1>0, <1>6 DEF MarkExpired, StoreRaises, TypeOK
  <2> QED BY <1>0, <2>1 DEF Told, Answered, Attributed, Entitled, Principal, SentPcs, Unanswered,
                            PCs, NotRun, LockPcs, ConfirmPcs, Saw
<1>7. ASSUME NEW j \in Job, j.principal \in Principals, CallDenied(t, j) \/ CallAsks(t, j)
      PROVE  Told(t)'
  <2>1. /\ pc[t] = "idle" /\ job'[t] = j
        /\ \/ pc'[t] = "audit" /\ answer'[t] = "denied"
           \/ pc'[t] = "create" /\ Verdict(j) = "confirm" /\ UNCHANGED answer
        /\ UNCHANGED <<via, audit, sent, pending>>
    BY <1>0, <1>7 DEF CallDenied, CallAsks, Evaluated, TypeOK
  <2>2. Verdict(j)' = Verdict(j)
    BY DEF Verdict
  <2> QED BY <1>0, <1>7, <2>1, <2>2 DEF Told, Answered, Attributed, Entitled, Principal, SentPcs,
                            Unanswered, PCs, NotRun, LockPcs, ConfirmPcs, Saw
<1>8. ASSUME NEW q \in Tasks, Confirm(t, q) PROVE Told(t)'
  <2>1. /\ pc[t] = "idle" /\ pc'[t] = "read" /\ via'[t] = q /\ q # t
        /\ UNCHANGED <<job, answer, audit, sent, pending>>
    BY <1>0, <1>8 DEF Confirm, TypeOK
  <2> QED BY <1>0, <2>1 DEF Told, Answered, Attributed, Entitled, Principal, SentPcs, Unanswered,
                            PCs, NotRun, LockPcs, ConfirmPcs, Saw
<1>9. CASE MarkConfirmed(t)
  <2>1. /\ pc[t] = "mark" /\ pc'[t] = "marked"
        /\ UNCHANGED <<answer, via, job, audit, sent>>
    BY <1>0, <1>9 DEF MarkConfirmed, TypeOK
  <2> QED BY <1>0, <2>1 DEF Told, Answered, Attributed, Entitled, Principal, SentPcs, Unanswered,
                            PCs, NotRun, LockPcs, ConfirmPcs, Saw
<1> QED BY <1>1, <1>2, <1>3, <1>4, <1>5, <1>6, <1>7, <1>8, <1>9

\* The task itself, as it takes, holds or leaves a lock and writes its audit row.
LEMMA LockTold ==
    ASSUME IInv, TellInv, NEW t \in Tasks,
           \/ Dispatch(t) \/ Granted(t) \/ Timeout(t) \/ NoConnection(t) \/ ErrorReply(t)
           \/ AuditAndReturn(t) \/ Cancel(t)
           \/ \E j \in Job : j.principal \in Principals /\ CallAllowed(t, j)
           \/ \E o \in Ran : Reply(t, o)
    PROVE  Told(t)'
<1> USE DEF moduleVars, taskVars, storeVars
<1>0. TypeOK /\ JobKnown /\ Answered(t) /\ Attributed(t) /\ Entitled(t) /\ t \in Actors
  BY DEF IInv, TellInv, Told
<1> DEFINE Sent == t \in sent' <=> (t \in sent \/ pc'[t] = "flight")
<1>1. ASSUME NEW j \in Job, j.principal \in Principals, CallAllowed(t, j) PROVE Told(t)'
  <2>1. /\ pc[t] = "idle" /\ job'[t] = j /\ Enter(t, j.module) /\ j.module \in Modules
        /\ UNCHANGED <<via, answer, audit, pending>>
    BY <1>0, <1>1 DEF CallAllowed, Evaluated, TypeOK, Job
  <2>2. pc'[t] \in {"lock", "flight", "refused"} /\ Sent
    BY <1>0, <2>1, SendMarks
  <2> QED BY <1>0, <1>1, <2>1, <2>2 DEF Told, Answered, Attributed, Entitled, Principal, SentPcs,
                            Unanswered, PCs, NotRun, LockPcs, ConfirmPcs, Saw
<1>2. CASE Dispatch(t)
  <2>1. /\ pc[t] = "marked" /\ Enter(t, job[t].module) /\ job[t].module \in Modules
        /\ UNCHANGED <<via, job, answer, audit, pending>>
    BY <1>0, <1>2 DEF Dispatch, JobKnown, Job
  <2>2. pc'[t] \in {"lock", "flight", "refused"} /\ Sent
    BY <1>0, <2>1, SendMarks
  <2> QED BY <1>0, <2>1, <2>2 DEF Told, Answered, Attributed, Entitled, Principal, SentPcs,
                            Unanswered, PCs, NotRun, LockPcs, ConfirmPcs, Saw
<1>3. CASE Granted(t)
  <2>1. /\ pc[t] = "lock" /\ Send(t, ModuleOf(t)) /\ ModuleOf(t) \in Modules
        /\ UNCHANGED <<via, job, answer, audit, pending>>
    BY <1>0, <1>3, OnLock DEF Granted, LockPcs
  <2>2. pc'[t] \in {"lock", "flight", "refused"} /\ Sent
    BY <1>0, <2>1, SendMarks
  <2> QED BY <1>0, <2>1, <2>2 DEF Told, Answered, Attributed, Entitled, Principal, SentPcs,
                            Unanswered, PCs, NotRun, LockPcs, ConfirmPcs, Saw
<1>4. CASE Timeout(t) \/ NoConnection(t) \/ ErrorReply(t)
  <2>1. /\ pc[t] \in {"flight", "refused"} /\ pc'[t] = "auditHeld"
        /\ answer'[t] \in {"timeout", "error"}
        /\ UNCHANGED <<via, job, audit, pending, sent>>
    BY <1>0, <1>4 DEF Timeout, NoConnection, ErrorReply, Failed, TypeOK
  <2> QED BY <1>0, <2>1 DEF Told, Answered, Attributed, Entitled, Principal, SentPcs,
                            Unanswered, PCs, NotRun, LockPcs, ConfirmPcs, Saw
<1>5. ASSUME NEW o \in Ran, Reply(t, o) PROVE Told(t)'
  <2>1. /\ pc[t] = "flight" /\ pc'[t] = "audit" /\ answer'[t] = o
        /\ UNCHANGED <<via, job, audit, pending, sent>>
    BY <1>0, <1>5 DEF Reply, TypeOK
  <2> QED BY <1>0, <1>5, <2>1 DEF Told, Answered, Attributed, Entitled, Principal, SentPcs,
                            Unanswered, PCs, NotRun, LockPcs, ConfirmPcs, Saw, Ran
<1>6. CASE AuditAndReturn(t)
  <2>1. /\ pc[t] \in {"audit", "auditHeld"} /\ pc'[t] = "done" /\ Audited(t)
        /\ UNCHANGED <<via, job, answer, pending, sent>>
    BY <1>0, <1>6 DEF AuditAndReturn, TypeOK
  <2>2. \/ audit'[t] = <<[job |-> job[t], result |-> answer[t]]>>
        \/ StoreFails /\ audit'[t] = <<>>
    BY <1>0, <2>1 DEF Audited, Answered, TypeOK
  <2>3. Answered(t)'
    BY <1>0, <2>1, <2>2 DEF Answered, SentPcs, Unanswered, PCs, NotRun, Ran
  <2>4. Attributed(t)'
    <3>1. job[t].principal \in Principal(t)
      BY <1>0, <2>1 DEF Attributed, LockPcs
    <3>2. ASSUME NEW i \in 1 .. Len(audit'[t]) PROVE audit'[t][i].job.principal \in Principal(t)
      BY <2>2, <3>1
    <3> QED BY <2>1, <3>2 DEF Attributed, Principal, LockPcs
  <2> QED BY <1>0, <2>1, <2>3, <2>4 DEF Told, Entitled, ConfirmPcs, Saw
<1>7. CASE Cancel(t)
  <2>1. /\ pc[t] \in {"create", "audit", "auditHeld", "lock", "flight"} /\ pc'[t] = "done"
        /\ (Audited(t) /\ pc[t] \in {"audit", "auditHeld"}) \/ UNCHANGED audit
        /\ answer'[t] = "cancelled"
        /\ UNCHANGED <<via, job, sent>>
    BY <1>0, <1>7 DEF Cancel, TypeOK
  <2>2. \/ audit'[t] = <<[job |-> job[t], result |-> answer[t]]>> /\ pc[t] \in {"audit", "auditHeld"}
        \/ audit'[t] = <<>>
    BY <1>0, <2>1 DEF Audited, Answered, TypeOK
  <2>3. Answered(t)'
    BY <1>0, <2>1, <2>2 DEF Answered, SentPcs, Unanswered, PCs, NotRun
  <2>4. Attributed(t)'
    <3>1. pc[t] \in {"audit", "auditHeld"} => job[t].principal \in Principal(t)
      BY <1>0 DEF Attributed, LockPcs
    <3>2. ASSUME NEW i \in 1 .. Len(audit'[t]) PROVE audit'[t][i].job.principal \in Principal(t)
      BY <2>2, <3>1
    <3> QED BY <2>1, <3>2 DEF Attributed, Principal, LockPcs
  <2> QED BY <1>0, <2>1, <2>3, <2>4 DEF Told, Entitled, ConfirmPcs, Saw
<1> QED BY <1>1, <1>2, <1>3, <1>4, <1>5, <1>6, <1>7

\* A step of a module, its probe or the clock touches no task and no row.
LEMMA ModuleFrame ==
    ASSUME IInv, NEW m \in Modules, Supervised(m)
    PROVE  UNCHANGED pending /\ \A u \in Tasks : Stays(u)
<1> USE DEF moduleVars, taskVars, storeVars
<1>0. TypeOK /\ m \in Actors /\ m \notin Tasks /\ ModuleOf(m) = m
  BY DEF IInv, ModuleOf
<1>1. CASE ProbeStarts(m) \/ Granted(m)
  <2>1. UNCHANGED <<via, job, earlier, answer, audit, pending>> /\ (Enter(m, m) \/ Send(m, m))
    BY <1>0, <1>1 DEF ProbeStarts, Granted
  <2>2. pc' = [pc EXCEPT ![m] = pc'[m]] /\ sent' = sent
    BY <1>0, <2>1, SendMarks
  <2> QED BY <1>0, <2>1, <2>2 DEF Stays, TypeOK
<1>2. CASE ProbeEnds(m) \/ ExitNoticed(m)
  BY <1>0, <1>2 DEF ProbeEnds, ExitNoticed, Stays, TypeOK
<1>3. CASE LateFinish(m) \/ ProcessDies(m) \/ Restart(m) \/ Spawn(m) \/ Handshake(m)
  BY <1>3 DEF LateFinish, ProcessDies, Restart, Spawn, Handshake, Stays
<1> QED BY <1>1, <1>2, <1>3 DEF Supervised, ProbeStep

LEMMA QuietTold ==
    ASSUME TellInv, UNCHANGED pending, \A u \in Tasks : Stays(u)
    PROVE  TellInv'
  BY DEF TellInv, Told, Stays, Answered, Attributed, Entitled, Principal

LEMMA CrashTold == ASSUME IInv, TellInv, Crash PROVE TellInv'
<1> SUFFICES ASSUME NEW t \in Tasks PROVE Told(t)'
  BY DEF TellInv
<1>1. /\ UNCHANGED <<via, job, pending, audit, sent>>
      /\ pc'[t] = IF pc[t] = "idle" THEN "idle" ELSE "done"
      /\ answer'[t] = IF pc[t] \in {"idle", "done"} THEN answer[t] ELSE "lost"
  BY DEF Crash, taskVars, storeVars
<1>2. Answered(t) /\ Attributed(t) /\ Entitled(t)
  BY DEF TellInv, Told
<1> QED BY <1>1, <1>2 DEF Told, Answered, Attributed, Entitled, Principal, SentPcs,
                            Unanswered, PCs, NotRun, LockPcs, ConfirmPcs, Saw

LEMMA TellInit == Init => TellInv
  BY DEF Init, TellInv, Told, Answered, Attributed, Entitled, Principal, Unanswered, PCs, NotRun,
         LockPcs, ConfirmPcs, Saw

LEMMA TellNext == IInv /\ TellInv /\ [Next]_vars => TellInv'
<1> SUFFICES ASSUME IInv, TellInv, [Next]_vars PROVE TellInv'
  OBVIOUS
<1>1. ASSUME NEW t \in Tasks, TaskAction(t) PROVE TellInv'
  <2>1. Told(t)'
    <3>1. ASSUME NEW p \in Principals, NEW m \in Modules, NEW o \in Ops,
                 NEW j, j = [principal |-> p, module |-> m, op |-> o]
          PROVE  j \in Job /\ j.principal \in Principals
      BY <3>1 DEF Job
    <3>2. CASE Asking(t)
      BY <3>1, <3>2, OutsideTold, LockTold DEF Asking
    <3>3. CASE ~Asking(t)
      BY <1>1, <3>3, OutsideTold, LockTold DEF TaskAction, TaskStep, ModuleAnswers, Ran
    <3> QED BY <3>2, <3>3
  <2> QED BY <1>1, <2>1, OthersTold DEF TellInv
<1>2. ASSUME NEW m \in Modules, Supervised(m) PROVE TellInv'
  BY <1>2, ModuleFrame, QuietTold
<1>3. ASSUME NEW q \in Tasks, Expire(q) PROVE TellInv'
  BY <1>3, QuietTold DEF Expire, Stays, taskVars
<1>4. CASE Crash
  BY <1>4, CrashTold
<1>5. CASE UNCHANGED vars
  BY <1>5, QuietTold DEF vars, Stays
<1> QED BY <1>1, <1>2, <1>3, <1>4, <1>5 DEF Next, TaskAction

\* At each await, what a task has asked, been told and audited agree with the
\* call it makes and with whose call it is (moduleapi.py:47-166).
THEOREM TellsTruth == Spec => []TellInv
  BY LockDiscipline, TellInit, TellNext, PTL DEF Spec

\* A caller told that nothing was done is told the truth, with any policy,
\* cancellations, store failures and crashes (moduleapi.py:35-115).
THEOREM RefusalsAreTrue == Spec => []RefusalIsTrue
<1>1. TellInv => RefusalIsTrue
  BY DEF TellInv, Told, Answered, RefusalIsTrue, NotRun
<1> QED BY <1>1, TellsTruth, PTL

\* A call that was sent and answered has exactly its own audit row, under the
\* principal that asked for it or the subject that confirmed it.
THEOREM AuditMatches == Spec => []AuditTruthful
<1>1. TellInv => AuditTruthful
  BY DEF TellInv, Told, Answered, Attributed, Principal, AuditTruthful
<1> QED BY <1>1, TellsTruth, PTL

----------------------------------------------------------------------------
(* An answered question stays answered *)

\* What a task has reached is not taken back, and a row it marks is closed.
Proceeds(t) ==
    /\ pc[t] # "done" /\ via'[t] = via[t] /\ earlier'[t] = earlier[t]
    /\ t \in sent => t \in sent'
    /\ Decided(t)' => Decided(t) \/ (t \notin sent /\ pending'[via[t]].status \in Closed)
    /\ Took(t)' => Took(t) \/ pending[via[t]].status = "pending"

\* A closed row stays closed.
LEMMA RowsClosed ==
    ASSUME IInv, TellInv, NEW t \in Tasks, RowStep(t), NEW q \in Tasks, pending[q].status \in Closed
    PROVE  pending'[q].status \in Closed
<1> USE DEF IInv, TypeOK, Closed
<1>1. CASE UNCHANGED pending
  BY <1>1
<1>2. CASE pc[t] = "create" /\ pending' = Asked(t)
  BY <1>2 DEF Asked, TellInv, Told, Entitled
<1>3. CASE pc[t] = "expire" /\ pending' = WithStatus(t, "expired")
  BY <1>3 DEF WithStatus
<1>4. CASE pc[t] = "mark" /\ pending' = WithStatus(t, "confirmed")
  BY <1>4 DEF WithStatus
<1> QED BY <1>1, <1>2, <1>3, <1>4 DEF RowStep

\* Whoever is in a history of confirms is there for good.
LEMMA OnceProceeds ==
    ASSUME IInv, TellInv, OnceInv, NEW t \in Tasks, RowStep(t), Proceeds(t),
           \A u \in Tasks \ {t} : Stays(u)
    PROVE  OnceInv'
<1>0. \A u \in Tasks : via[u] \in Tasks /\ via'[u] = via[u] /\ earlier'[u] = earlier[u]
  BY DEF IInv, TypeOK, Proceeds, Stays
<1>1. \A u \in Tasks : earlier[u] \subseteq Tasks
  BY DEF IInv, TypeOK
<1>2. \A u \in Tasks \ {t} : (Decided(u)' <=> Decided(u)) /\ (Took(u)' <=> Took(u))
  BY DEF Stays, Decided, Took
<1>3. ASSUME NEW u \in Tasks, Decided(u)' PROVE pending'[via'[u]].status \in Closed
  <2>1. CASE Decided(u)
    BY <1>0, <2>1, RowsClosed DEF OnceInv
  <2>2. CASE ~Decided(u)
    BY <1>0, <1>2, <1>3, <2>2 DEF Proceeds
  <2> QED BY <2>1, <2>2
<1>4. ASSUME NEW v \in Tasks, NEW u \in earlier[v]
      PROVE  (pc'[u] = "done" \/ u \in sent') /\ via'[u] = via'[v] /\ via'[u] # u
  <2>1. (pc[u] = "done" \/ u \in sent) /\ via[u] = via[v] /\ via[u] # u /\ u \in Tasks
    BY <1>1, <1>4 DEF OnceInv
  <2> QED BY <1>0, <2>1 DEF Proceeds, Stays
<1>5. ASSUME NEW v \in Tasks, Took(v)', NEW u \in earlier[v] PROVE ~Decided(u)'
  <2>1. (pc[u] = "done" \/ u \in sent) /\ via[u] = via[v] /\ via[u] # u /\ u \in Tasks
    BY <1>1, <1>5 DEF OnceInv
  <2>2. ~Decided(u)
    <3>1. CASE Took(v)
      BY <1>5, <3>1 DEF OnceInv
    <3>2. CASE ~Took(v)
      <4>1. pending[via[v]].status = "pending"
        BY <1>2, <1>5, <3>2 DEF Proceeds
      <4> QED BY <2>1, <4>1 DEF OnceInv, Closed
    <3> QED BY <3>1, <3>2
  <2>3. u = t => pc[t] # "done" /\ t \in sent
    BY <2>1 DEF Proceeds
  <2>4. u # t
    BY <2>1, <2>2, <2>3 DEF Decided
  <2> QED BY <1>2, <2>1, <2>2, <2>4
<1> QED BY <1>0, <1>3, <1>4, <1>5 DEF OnceInv

\* A confirm begins: it has not taken its row up yet.
LEMMA OnceConfirm ==
    ASSUME IInv, TellInv, OnceInv, NEW t \in Tasks, NEW q \in Tasks, Confirm(t, q)
    PROVE  OnceInv'
<1> DEFINE before == {u \in Confirms(q) : u \in sent \/ pc[u] = "done"}
<1>1. /\ pc[t] = "idle" /\ pc'[t] = "read" /\ via[t] = t /\ via'[t] = q /\ q # t
      /\ earlier' = [earlier EXCEPT ![t] = before]
      /\ UNCHANGED <<pending, sent, answer>> /\ t \notin sent /\ answer[t] = "none"
      /\ \A u \in Tasks \ {t} : pc'[u] = pc[u] /\ via'[u] = via[u]
  BY DEF Confirm, IInv, TypeOK, TellInv, Told, Answered, Attributed, SentPcs, Unanswered, PCs,
         taskVars, storeVars
<1>2. ~Took(t)' /\ ~Decided(t)'
  BY <1>1 DEF Took, Decided, Acting, LockPcs
<1>3. \A u \in Tasks \ {t} : (Decided(u)' <=> Decided(u)) /\ (Took(u)' <=> Took(u))
  BY <1>1 DEF Took, Decided
<1>4. /\ earlier'[t] = before /\ \A u \in Tasks \ {t} : earlier'[u] = earlier[u]
      /\ \A u \in Tasks : earlier[u] \subseteq Tasks
  BY <1>1 DEF IInv, TypeOK
<1>5. \A u \in before : u \in Tasks \ {t} /\ via[u] = q /\ u # q /\ (u \in sent \/ pc[u] = "done")
  BY <1>1 DEF Confirms
<1>6. \A v \in Tasks : \A u \in earlier[v] : u # t
  BY <1>1 DEF OnceInv
<1> HIDE DEF before
<1>7. \A v \in Tasks : \A u \in earlier'[v] :
         (pc'[u] = "done" \/ u \in sent') /\ via'[u] = via'[v] /\ via'[u] # u
  <2>1. ASSUME NEW u \in before
        PROVE  (pc'[u] = "done" \/ u \in sent') /\ via'[u] = via'[t] /\ via'[u] # u
    BY <1>1, <1>5
  <2>2. ASSUME NEW v \in Tasks \ {t}, NEW u \in earlier[v]
        PROVE  (pc'[u] = "done" \/ u \in sent') /\ via'[u] = via'[v] /\ via'[u] # u
    <3>1. (pc[u] = "done" \/ u \in sent) /\ via[u] = via[v] /\ via[u] # u /\ u \in Tasks \ {t}
      BY <1>4, <1>6 DEF OnceInv
    <3> QED BY <1>1, <3>1
  <2> QED BY <1>4, <2>1, <2>2
<1>8. \A v \in Tasks : Took(v)' => \A u \in earlier'[v] : ~Decided(u)'
  <2> SUFFICES ASSUME NEW v \in Tasks \ {t}, Took(v), NEW u \in earlier[v] PROVE ~Decided(u)'
    BY <1>2, <1>3, <1>4
  <2> QED BY <1>3, <1>4, <1>6 DEF OnceInv
<1>9. \A u \in Tasks : Decided(u)' => pending'[via'[u]].status \in Closed
  BY <1>1, <1>2, <1>3 DEF OnceInv
<1> QED BY <1>7, <1>8, <1>9 DEF OnceInv

\* Every other step of a task takes it further.
LEMMA TaskProceeds ==
    ASSUME IInv, TellInv, NEW t \in Tasks, TaskAction(t), \A q \in Tasks : ~Confirm(t, q)
    PROVE  Proceeds(t)
<1> USE DEF moduleVars, taskVars, storeVars
<1>0. TypeOK /\ JobKnown /\ Told(t) /\ t \in Actors /\ via[t] \in Tasks
  BY DEF IInv, TellInv, TypeOK
<1> DEFINE Goes == /\ pc[t] # "done" /\ via'[t] = via[t] /\ earlier'[t] = earlier[t]
                   /\ t \in sent => t \in sent'
<1>1. CASE Asking(t)
  <2>1. ASSUME NEW j \in Job, CallDenied(t, j) \/ CallAsks(t, j) \/ CallAllowed(t, j)
        PROVE  Goes /\ pc[t] = "idle"
    <3>1. pc[t] = "idle" /\ UNCHANGED <<via, earlier>> /\ t \notin sent
      BY <1>0, <2>1 DEF CallDenied, CallAsks, CallAllowed, Evaluated, Told, Answered, SentPcs
    <3> QED BY <3>1
  <2>2. CallRejected(t) => Goes /\ pc[t] = "idle"
    BY <1>0 DEF CallRejected
  <2>3. ASSUME NEW p \in Principals, NEW m \in Modules, NEW o \in Ops
        PROVE  [principal |-> p, module |-> m, op |-> o] \in Job
    BY DEF Job
  <2>4. Goes /\ pc[t] = "idle"
    BY <1>1, <2>1, <2>2, <2>3 DEF Asking
  <2>5. via[t] = t
    BY <1>0, <2>4 DEF Told, Attributed
  <2> QED BY <2>4, <2>5 DEF Proceeds, Decided, Took
<1>2. CASE CreatePending(t) \/ ReadPending(t) \/ ConfirmRefused(t) \/ ConfirmTooLate(t) \/ ConfirmAccepted(t)
           \/ StoreRaises(t)
  <2>1. /\ Goes /\ UNCHANGED sent /\ t \notin sent
        /\ pc'[t] \in Saw \cup {"expire", "mark", "audit", "done"}
        /\ pc'[t] = "done" => answer'[t] # "expired"
        /\ pc'[t] # "done" => answer'[t] \in {"none", "pending"}
        /\ pc'[t] \in Acting => pc[t] \in Acting \/ pending[via[t]].status = "pending"
    BY <1>0, <1>2 DEF CreatePending, ReadPending, ConfirmRefused, ConfirmTooLate, ConfirmAccepted,
                      Accepts, StoreRaises, TypeOK, Told, Answered, SentPcs, Unanswered, PCs,
                      ConfirmPcs, Saw, Acting
  <2> QED BY <2>1 DEF Proceeds, Decided, Took, LockPcs, Saw, Acting
<1>3. CASE MarkExpired(t) \/ MarkConfirmed(t)
  <2>1. /\ Goes /\ t \notin sent /\ pc[t] \in {"expire", "mark"} /\ via[t] # t
        /\ \E s \in Closed : pending' = WithStatus(t, s)
    BY <1>0, <1>3 DEF MarkExpired, MarkConfirmed, Closed, Told, Answered, Entitled, SentPcs
  <2>2. pending'[via[t]].status \in Closed
    BY <1>0, <2>1 DEF WithStatus, TypeOK, Closed
  <2> QED BY <2>1, <2>2 DEF Proceeds, Took, Acting
<1>4. CASE Dispatch(t) \/ Granted(t) \/ Timeout(t) \/ NoConnection(t) \/ ErrorReply(t)
  <2>1. pc[t] \in LockPcs \cup {"marked"} /\ UNCHANGED <<via, earlier>>
    BY <1>4 DEF Dispatch, Granted, Timeout, NoConnection, ErrorReply, Failed, LockPcs
  <2>2. t \in sent => t \in sent'
    <3>1. CASE Dispatch(t)
      <4>1. Enter(t, job[t].module) /\ job[t].module \in Modules
        BY <1>0, <3>1 DEF Dispatch, JobKnown, Job
      <4> QED BY <1>0, <4>1, SendMarks
    <3>2. CASE Granted(t)
      <4>1. ModuleOf(t) \in Modules /\ Send(t, ModuleOf(t))
        BY <1>0, <3>2, OnLock DEF Granted, LockPcs
      <4> QED BY <1>0, <4>1, SendMarks
    <3>3. CASE Timeout(t) \/ NoConnection(t) \/ ErrorReply(t)
      BY <3>3 DEF Timeout, NoConnection, ErrorReply, Failed
    <3> QED BY <1>4, <3>1, <3>2, <3>3
  <2>3. via[t] # t => Decided(t)
    BY <2>1 DEF Decided
  <2> QED BY <2>1, <2>2, <2>3 DEF Proceeds, Decided, Took, LockPcs
<1>5. CASE AuditAndReturn(t) \/ ModuleAnswers(t) \/ Cancel(t)
  <2>1. /\ Goes /\ UNCHANGED sent
        /\ pc'[t] \in {"audit", "auditHeld", "done"} /\ answer'[t] # "expired"
        /\ pc'[t] = "auditHeld" => pc[t] \in LockPcs
    <3>1. CASE AuditAndReturn(t)
      BY <1>0, <3>1 DEF AuditAndReturn, TypeOK, Told, Answered, Ran
    <3>2. CASE ModuleAnswers(t) \/ Cancel(t)
      BY <1>0, <3>2 DEF ModuleAnswers, ErrorReply, Failed, Reply, Cancel, TypeOK, LockPcs
    <3> QED BY <1>5, <3>1, <3>2
  <2> QED BY <2>1 DEF Proceeds, Decided, Took, LockPcs, Acting
<1> QED BY <1>1, <1>2, <1>3, <1>4, <1>5 DEF TaskAction, TaskStep

LEMMA OnceInit == Init => OnceInv
  BY DEF Init, OnceInv, Decided, Took

LEMMA OnceNext == IInv /\ TellInv /\ OnceInv /\ [Next]_vars => OnceInv'
<1> SUFFICES ASSUME IInv, TellInv, OnceInv, [Next]_vars PROVE OnceInv'
  OBVIOUS
<1>0. \A u \in Tasks : earlier[u] \subseteq Tasks
  BY DEF IInv, TypeOK
<1>1. ASSUME NEW t \in Tasks, TaskAction(t) PROVE OnceInv'
  <2>1. CASE \E q \in Tasks : Confirm(t, q)
    BY <2>1, OnceConfirm
  <2>2. CASE ~\E q \in Tasks : Confirm(t, q)
    BY <1>1, <2>2, TaskFrame, TaskProceeds, OnceProceeds
  <2> QED BY <2>1, <2>2
<1>2. ASSUME UNCHANGED pending, \A u \in Tasks : Stays(u) PROVE OnceInv'
  <2>1. \A u \in Tasks : (Decided(u)' <=> Decided(u)) /\ (Took(u)' <=> Took(u))
    BY <1>2 DEF Stays, Decided, Took
  <2> QED BY <1>0, <1>2, <2>1 DEF OnceInv, Stays
<1>3. ASSUME NEW m \in Modules, Supervised(m) PROVE OnceInv'
  BY <1>2, <1>3, ModuleFrame
<1>4. ASSUME NEW q \in Tasks, Expire(q) PROVE OnceInv'
  BY <1>2, <1>4 DEF Expire, Stays, taskVars
<1>5. CASE Crash
  <2>1. /\ UNCHANGED <<via, earlier, pending, sent>>
        /\ \A t \in Tasks : pc'[t] = IF pc[t] = "idle" THEN "idle" ELSE "done"
        /\ \A t \in Tasks : answer'[t] \in {answer[t], "lost"}
    BY <1>5 DEF Crash, taskVars, storeVars
  <2>2. \A u \in Tasks : (Decided(u)' => Decided(u)) /\ (Took(u)' => Took(u))
    BY <2>1 DEF Decided, Took, Acting, LockPcs
  <2> QED BY <1>0, <2>1, <2>2 DEF OnceInv
<1>6. CASE UNCHANGED vars
  BY <1>2, <1>6 DEF vars, Stays
<1> QED BY <1>1, <1>3, <1>4, <1>5, <1>6 DEF Next, TaskAction

\* A question that was executed, or declared expired, is neither executed nor
\* declared expired by a confirm that begins afterwards, whatever else overlaps,
\* fails or is restarted in between (moduleapi.py:86-109).
THEOREM AnsweredForGood == Spec => []AnsweredOnce
<1>1. OnceInv /\ TypeOK => AnsweredOnce
  <2> SUFFICES ASSUME OnceInv, TypeOK, NEW q \in Tasks, NEW t \in Confirms(q), NEW u \in Confirms(q),
                      u \in earlier[t], u \in sent \/ answer[u] = "expired"
               PROVE  t \notin sent /\ answer[t] # "expired"
    BY DEF AnsweredOnce
  <2>1. t \in Tasks /\ via[t] # t /\ Decided(u)
    BY DEF Confirms, Decided
  <2>2. ~Took(t)
    BY <2>1 DEF OnceInv
  <2> QED BY <2>1, <2>2 DEF Took, Decided
<1>2. IInv => TypeOK
  BY DEF IInv
<1> QED BY <1>1, <1>2, OnceInit, OnceNext, LockDiscipline, TellsTruth, PTL DEF Spec
=============================================================================
