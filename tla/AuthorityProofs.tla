-------------------------- MODULE AuthorityProofs --------------------------
(* ModuleApi.tla implements Authority.tla: every step of the call path is   *)
(* one step of the authority, or none.                                      *)
EXTENDS CallPathProofs

USE ModuleApiAssumption DEF Actors

Standings == [t \in Tasks |-> Standing(t)]
Grant(t) == IF Standing(t) \in {"granted", "spent"} THEN job[t] ELSE NoJob
Grants == [t \in Tasks |-> Grant(t)]
Holdings == [t \in Tasks |-> Holding(t)]

\* A step of the authority, or none.
AuthStep == Auth!Next \/ UNCHANGED <<Standings, Grants, Holdings, pending>>

OthersOf(t) == \A u \in Tasks \ {t} : Stays(u)

\* Only the right of the task that moves can change, and what it has in hand.
LEMMA OneMoves ==
    ASSUME NEW t \in Tasks, OthersOf(t)
    PROVE  /\ Standings' = [Standings EXCEPT ![t] = Standing(t)']
           /\ Grants' = [Grants EXCEPT ![t] = Grant(t)']
           /\ Holdings' = [Holdings EXCEPT ![t] = Holding(t)']
           /\ Standings[t] = Standing(t) /\ Grants[t] = Grant(t) /\ Holdings[t] = Holding(t)
<1>1. \A u \in Tasks \ {t} : Standing(u)' = Standing(u) /\ Grant(u)' = Grant(u)
  BY DEF OthersOf, Stays, Standing, Grant
<1>2. \A u \in Tasks \ {t} : Holding(u)' = Holding(u)
  BY DEF OthersOf, Stays, Holding
<1> QED BY <1>1, <1>2 DEF Standings, Grants, Holdings

LEMMA ByNothing ==
    ASSUME NEW t \in Tasks, OthersOf(t), UNCHANGED pending,
           Standing(t)' = Standing(t), Grant(t)' = Grant(t), Holding(t)' = Holding(t)
    PROVE  AuthStep
<1>1. Standings' = Standings
  BY OneMoves DEF Standings
<1>2. Grants' = Grants
  BY OneMoves DEF Grants
<1>3. Holdings' = Holdings
  BY OneMoves DEF Holdings
<1> QED BY <1>1, <1>2, <1>3 DEF AuthStep

LEMMA ByAbandon ==
    ASSUME NEW t \in Tasks, OthersOf(t), UNCHANGED pending,
           Standing(t) \in {"none", "granted"}, Standing(t)' = "void", Holding(t)' = {}
    PROVE  AuthStep
<1>1. Grant(t)' = NoJob
  BY DEF Grant
<1>2. /\ Standings' = [u \in Tasks |-> IF u \in {t} THEN "void" ELSE Standings[u]]
      /\ Grants' = [u \in Tasks |-> IF u \in {t} THEN NoJob ELSE Grants[u]]
      /\ Holdings' = [u \in Tasks |-> IF u \in {t} THEN {} ELSE Holdings[u]]
  BY <1>1, OneMoves DEF Standings, Grants, Holdings
<1>3. Auth!Abandon({t})
  BY <1>2, OneMoves DEF Auth!Abandon, Standings, Grants, Grant, Holdings
<1> QED BY <1>3 DEF AuthStep, Auth!Next

\* The task's standing, right and hand change as the authority says.
LEMMA ByBecoming ==
    ASSUME NEW t \in Tasks, OthersOf(t), NEW j, Grant(t)' = j, Holding(t)' = {}
    PROVE  Auth!Becomes(t, Standing(t)', j)
BY OneMoves DEF Auth!Becomes, Standings, Grants, Grant, Holdings

LEMMA ByPermit ==
    ASSUME NEW t \in Tasks, OthersOf(t), UNCHANGED pending, NEW j \in Auth!Wish,
           Verdict(j) = "allow", Standing(t) = "none", Standing(t)' \in {"granted", "spent"},
           job'[t] = j, Holding(t) = {}, Holding(t)' = {}
    PROVE  AuthStep
<1>1. Grant(t)' = j
  BY DEF Grant
<1>2. Auth!Verdict(j) = "allow"
  BY Zenon DEF Verdict, Auth!Verdict
<1>3. Auth!Becomes(t, Standing(t)', j)
  BY <1>1, ByBecoming
<1>4. Auth!Permit(t, j)
  BY <1>2, <1>3 DEF Auth!Permit
<1> QED BY <1>4 DEF AuthStep, Auth!Next

LEMMA ByAsk ==
    ASSUME NEW t \in Tasks, OthersOf(t), job[t] \in Auth!Wish, Verdict(job[t]) = "confirm",
           Standing(t) = "none", Standing(t)' = "void", Holding(t) = {}, Holding(t)' = {},
           pending[t].status = "none", pending' = Asked(t)
    PROVE  AuthStep
<1>1. Auth!Becomes(t, "void", NoJob)
  <2>1. Grant(t)' = NoJob
    BY DEF Grant
  <2> QED BY <2>1, ByBecoming
<1>2. Auth!Verdict(job[t]) = "confirm"
  BY Zenon DEF Verdict, Auth!Verdict
<1>3. Auth!Ask(t, job[t])
  BY <1>1, <1>2 DEF Auth!Ask, Asked
<1> QED BY <1>3 DEF AuthStep, Auth!Next

LEMMA ByTakeUp ==
    ASSUME NEW t \in Tasks, OthersOf(t), UNCHANGED pending, via[t] \in Tasks,
           Standing(t) = "none", Standing(t)' = "none", pending[via[t]].status = "pending",
           Holding(t) = {}, Holding(t)' = {via[t]}
    PROVE  AuthStep
<1>1. Grant(t) = NoJob /\ Grant(t)' = NoJob
  BY DEF Grant
<1>2. Standings' = Standings
  BY OneMoves DEF Standings
<1>3. Grants' = Grants
  BY <1>1, OneMoves DEF Grants
<1>4. Holdings' = [Holdings EXCEPT ![t] = {via[t]}]
  BY OneMoves
<1>5. Auth!TakeUp(t, via[t])
  BY <1>2, <1>3, <1>4 DEF Auth!TakeUp, Standings, Grants, Grant, Holdings
<1> QED BY <1>5 DEF AuthStep, Auth!Next

LEMMA ByLapse ==
    ASSUME NEW t \in Tasks, OthersOf(t), via[t] \in Tasks,
           Standing(t) = "none", Standing(t)' = "void", Holding(t) = {via[t]}, Holding(t)' = {},
           pending' = WithStatus(t, "expired")
    PROVE  AuthStep
<1>1. Auth!Becomes(t, "void", NoJob)
  <2>1. Grant(t)' = NoJob
    BY DEF Grant
  <2> QED BY <2>1, ByBecoming
<1>2. Auth!Lapse(t, via[t])
  BY <1>1 DEF Auth!Lapse, WithStatus
<1> QED BY <1>2 DEF AuthStep, Auth!Next

LEMMA ByApprove ==
    ASSUME NEW t \in Tasks, OthersOf(t), via[t] \in Tasks,
           Standing(t) = "none", Holding(t) = {via[t]}, Holding(t)' = {},
           pending' = WithStatus(t, "confirmed"),
           \/ Standing(t)' = "void"
           \/ /\ Standing(t)' = "granted"
              /\ job'[t] = [pending[via[t]].job EXCEPT !.principal = Subject]
    PROVE  AuthStep
<1> PICK frozen : frozen = [pending[via[t]].job EXCEPT !.principal = Subject]
  OBVIOUS
<1>1. \/ Auth!Becomes(t, "void", NoJob)
      \/ Auth!Becomes(t, "granted", frozen)
  <2>1. CASE Standing(t)' = "void"
    <3>1. Grant(t)' = NoJob
      BY <2>1 DEF Grant
    <3> QED BY <2>1, <3>1, ByBecoming
  <2>2. CASE Standing(t)' = "granted" /\ job'[t] = frozen
    <3>1. Grant(t)' = frozen
      BY <2>2 DEF Grant
    <3>2. Auth!Becomes(t, Standing(t)', frozen)
      BY <3>1, ByBecoming
    <3> QED BY <2>2, <3>2
  <2> QED BY <2>1, <2>2
<1>2. Auth!Approve(t, via[t])
  <2>1. pending' = [pending EXCEPT ![via[t]].status = "confirmed"]
    BY DEF WithStatus
  <2>2. [u \in Tasks |-> Standing(u)][t] = "none" /\ via[t] \in [u \in Tasks |-> Holding(u)][t]
    OBVIOUS
  <2>3. \/ Auth!Becomes(t, "void", NoJob)
        \/ Auth!Becomes(t, "granted", [pending[via[t]].job EXCEPT !.principal = Subject])
    BY <1>1 DEF Auth!Becomes
  <2> QED BY <2>1, <2>2, <2>3, Zenon DEF Auth!Approve
<1> QED BY <1>2 DEF AuthStep, Auth!Next

LEMMA ByPerform ==
    ASSUME NEW t \in Tasks, OthersOf(t), UNCHANGED <<job, pending>>,
           Standing(t) = "granted", Standing(t)' = "spent", Holding(t)' = Holding(t)
    PROVE  AuthStep
<1>1. Grants' = Grants
  BY OneMoves DEF Grant, Grants
<1>2. Holdings' = Holdings
  BY OneMoves DEF Holdings
<1>3. Auth!Perform(t)
  BY <1>1, <1>2, OneMoves DEF Auth!Perform, Standings, Grants, Grant, Holdings
<1> QED BY <1>3 DEF AuthStep, Auth!Next

----------------------------------------------------------------------------
(* Which step of the authority each step of the call path is *)

LEMMA AskingSteps ==
    ASSUME IInv, TellInv, NEW t \in Tasks, Asking(t)
    PROVE  AuthStep
<1> USE DEF moduleVars, taskVars, storeVars
<1>0. TypeOK /\ JobKnown /\ Told(t) /\ t \in Actors
  BY DEF IInv, TellInv
<1>1. UNCHANGED pending /\ OthersOf(t)
  BY AskingFrame DEF OthersOf
<1>2. pc[t] = "idle" /\ t \notin sent /\ Standing(t) = "none" /\ Holding(t) = {}
  <2>1. ASSUME NEW j, CallDenied(t, j) \/ CallAsks(t, j) \/ CallAllowed(t, j) PROVE pc[t] = "idle"
    BY <2>1 DEF CallDenied, CallAsks, CallAllowed, Evaluated
  <2>2. ASSUME NEW q \in Tasks, CallRejected(t) \/ Confirm(t, q) PROVE pc[t] = "idle"
    BY <2>2 DEF CallRejected, Confirm
  <2>3. pc[t] = "idle"
    BY <2>1, <2>2 DEF Asking
  <2> QED BY <1>0, <2>3 DEF Told, Answered, SentPcs, Standing, Holding
<1>3. CASE CallRejected(t)
  <2>1. Standing(t)' = "void" /\ Holding(t)' = {}
    BY <1>0, <1>2, <1>3 DEF CallRejected, Standing, Holding, TypeOK, ConfirmPcs, Saw
  <2> QED BY <1>1, <1>2, <2>1, ByAbandon
<1>4. ASSUME NEW q \in Tasks, Confirm(t, q) PROVE AuthStep
  <2>1. Standing(t)' = "none" /\ Holding(t)' = {}
    BY <1>0, <1>2, <1>4 DEF Confirm, Standing, Holding, TypeOK, ConfirmPcs
  <2> QED BY <1>1, <1>2, <2>1, ByNothing DEF Grant
<1>5. ASSUME NEW p \in Principals, NEW m \in Modules, NEW o \in Ops,
             NEW j, j = [principal |-> p, module |-> m, op |-> o],
             CallDenied(t, j) \/ CallAsks(t, j) \/ CallAllowed(t, j)
      PROVE  AuthStep
  <2>0. j \in Auth!Wish /\ j.module \in Modules /\ job'[t] = j
    BY <1>0, <1>5 DEF Auth!Wish, CallDenied, CallAsks, CallAllowed, Evaluated, TypeOK
  <2>1. CASE CallDenied(t, j)
    <3>1. Standing(t)' = "void" /\ Holding(t)' = {}
      BY <1>0, <1>2, <2>1 DEF CallDenied, Standing, Holding, TypeOK, ConfirmPcs, Saw
    <3> QED BY <1>1, <1>2, <3>1, ByAbandon
  <2>2. CASE CallAsks(t, j)
    <3>1. Standing(t)' = "none" /\ Holding(t)' = {}
      BY <1>0, <1>2, <2>2 DEF CallAsks, Standing, Holding, TypeOK, ConfirmPcs
    <3> QED BY <1>1, <1>2, <3>1, ByNothing DEF Grant
  <2>3. CASE CallAllowed(t, j)
    <3>1. Enter(t, j.module) /\ Verdict(j) = "allow"
      BY <2>3 DEF CallAllowed, Evaluated
    <3>2. /\ pc'[t] \in {"lock", "flight", "refused"}
          /\ sent' = IF pc'[t] = "flight" THEN sent \cup {t} ELSE sent
      BY <1>0, <2>0, <3>1, SendMarks
    <3>3. Standing(t)' \in {"granted", "spent"} /\ Holding(t)' = {}
      BY <1>2, <3>2 DEF Standing, Holding
    <3> QED BY <1>1, <1>2, <2>0, <3>1, <3>3, ByPermit
  <2> QED BY <1>5, <2>1, <2>2, <2>3
<1> QED BY <1>3, <1>4, <1>5 DEF Asking

\* The row a task creates: its question, or nothing if the statement was lost.
LEMMA CreateSteps ==
    ASSUME IInv, TellInv, NEW t \in Tasks, OthersOf(t), pc[t] = "create",
           pending' = Asked(t) \/ UNCHANGED pending,
           sent' = sent, pc'[t] \in {"audit", "done"}
    PROVE  AuthStep
<1>0. TypeOK /\ JobKnown /\ Told(t)
  BY DEF IInv, TellInv
<1>1. /\ t \notin sent /\ Standing(t) = "none" /\ Standing(t)' = "void"
      /\ Holding(t) = {} /\ Holding(t)' = {}
  BY <1>0 DEF Told, Answered, SentPcs, Standing, Holding, ConfirmPcs, Saw
<1>2. CASE UNCHANGED pending
  BY <1>1, <1>2, ByAbandon
<1>3. CASE pending' = Asked(t)
  <2>1. /\ pending[t].status = "none" /\ Verdict(job[t]) = "confirm"
        /\ job[t] \in Job /\ job[t].principal \in Principals
    BY <1>0 DEF Told, Entitled, Attributed, Principal, JobKnown
  <2>2. job[t] \in Auth!Wish
    BY <2>1 DEF Auth!Wish, Job
  <2> QED BY <1>1, <1>3, <2>1, <2>2, ByAsk
<1> QED BY <1>2, <1>3

\* A confirm before it marks its row: it takes the question up, goes on with it
\* in hand, or ends with nothing done.
LEMMA ReadingSteps ==
    ASSUME IInv, TellInv, NEW t \in Tasks, OthersOf(t), UNCHANGED pending, sent' = sent,
           \/ pc[t] = "read" /\ pc'[t] \in {"sawNothing", "sawAnswered"}
           \/ pc[t] = "read" /\ pc'[t] = "sawPending" /\ via'[t] = via[t]
              /\ pending[via[t]].status = "pending"
           \/ pc[t] = "sawPending" /\ pc'[t] \in {"expire", "mark"} /\ via'[t] = via[t]
           \/ pc[t] \in ConfirmPcs /\ pc'[t] = "done"
    PROVE  AuthStep
<1>1. pc[t] \in ConfirmPcs /\ t \notin sent /\ Standing(t) = "none" /\ via[t] \in Tasks
  BY DEF IInv, TypeOK, TellInv, Told, Answered, SentPcs, Standing, ConfirmPcs, Saw
<1>2. CASE pc'[t] = "done"
  <2>1. Standing(t)' = "void" /\ Holding(t)' = {}
    BY <1>1, <1>2 DEF Standing, Holding, ConfirmPcs, Saw
  <2> QED BY <1>1, <2>1, ByAbandon
<1>3. CASE pc'[t] # "done"
  <2>1. Standing(t)' = "none" /\ Grant(t) = NoJob /\ Grant(t)' = NoJob
    BY <1>1, <1>3 DEF Standing, Grant, ConfirmPcs, Saw
  <2>2. CASE pc'[t] = "sawPending"
    <3>1. Holding(t) = {} /\ Holding(t)' = {via[t]} /\ pending[via[t]].status = "pending"
      BY <2>2 DEF Holding, ConfirmPcs, Saw
    <3> QED BY <1>1, <2>1, <3>1, ByTakeUp
  <2>3. CASE pc'[t] # "sawPending"
    <3>1. Holding(t)' = Holding(t)
      BY <1>3, <2>3 DEF Holding
    <3> QED BY <1>1, <2>1, <3>1, ByNothing
  <2> QED BY <2>2, <2>3
<1> QED BY <1>2, <1>3

\* A confirm as it marks its row: the question in hand lapses, or is approved
\* and gives the right to the frozen call, which may be lost.
LEMMA MarkingSteps ==
    ASSUME IInv, TellInv, NEW t \in Tasks, OthersOf(t), sent' = sent,
           \/ /\ pc[t] = "expire" /\ pending' = WithStatus(t, "expired") /\ pc'[t] = "done"
           \/ /\ pc[t] = "mark" /\ pending' = WithStatus(t, "confirmed") /\ pc'[t] = "done"
           \/ /\ pc[t] = "mark" /\ pending' = WithStatus(t, "confirmed") /\ pc'[t] = "marked"
              /\ UNCHANGED job
    PROVE  AuthStep
<1>1. /\ via[t] \in Tasks /\ t \notin sent /\ Standing(t) = "none"
      /\ Holding(t) = {via[t]} /\ Holding(t)' = {}
      /\ pc[t] = "mark" => job[t] = [pending[via[t]].job EXCEPT !.principal = Subject]
  <2>1. via[t] \in Tasks
    BY DEF IInv, TypeOK
  <2>2. t \notin sent
    BY DEF TellInv, Told, Answered, SentPcs
  <2>3. pc[t] = "mark" => job[t] = [pending[via[t]].job EXCEPT !.principal = Subject]
    BY DEF TellInv, Told, Entitled
  <2> QED BY <2>1, <2>2, <2>3 DEF Standing, Holding, ConfirmPcs
<1>2. CASE pc'[t] = "done"
  <2>1. Standing(t)' = "void"
    BY <1>1, <1>2 DEF Standing, ConfirmPcs, Saw
  <2> QED BY <1>1, <2>1, ByLapse, ByApprove
<1>3. CASE pc[t] = "mark" /\ pending' = WithStatus(t, "confirmed") /\ pc'[t] = "marked" /\ UNCHANGED job
  <2>1. Standing(t)' = "granted"
    BY <1>1, <1>3 DEF Standing
  <2> QED BY <1>1, <1>3, <2>1, ByApprove
<1> QED BY <1>2, <1>3

\* A task past the gate: it uses its right, gives it up, or has used it.
LEMMA RunningSteps ==
    ASSUME IInv, TellInv, NEW t \in Tasks, OthersOf(t), UNCHANGED <<job, pending>>,
           \/ /\ pc[t] \in {"marked", "lock"} /\ pc'[t] \in {"lock", "flight", "refused"}
              /\ sent' = IF pc'[t] = "flight" THEN sent \cup {t} ELSE sent
           \/ /\ pc[t] \in {"lock", "flight", "refused", "auditHeld", "audit"}
              /\ pc'[t] \in {"auditHeld", "audit", "done"} /\ sent' = sent
    PROVE  AuthStep
<1>1. Answered(t) /\ Holding(t) = {} /\ Holding(t)' = {}
  BY DEF TellInv, Told, Holding
<1>2. CASE t \in sent
  <2>1. Standing(t) = "spent" /\ Standing(t)' = "spent"
    BY <1>2 DEF Standing
  <2> QED BY <1>1, <2>1, ByNothing DEF Grant
<1>3. CASE t \notin sent /\ pc[t] \in {"auditHeld", "audit"}
  <2>1. Standing(t) = "void" /\ Standing(t)' = "void"
    BY <1>3 DEF Standing, ConfirmPcs, Saw
  <2> QED BY <1>1, <2>1, ByNothing DEF Grant
<1>4. CASE t \notin sent /\ pc[t] \in {"marked", "lock", "refused"}
  <2>1. Standing(t) = "granted"
    BY <1>4 DEF Standing
  <2>2. CASE pc'[t] = "flight"
    <3>1. Standing(t)' = "spent"
      BY <1>4, <2>2 DEF Standing
    <3> QED BY <1>1, <2>1, <3>1, ByPerform
  <2>3. CASE pc'[t] \in {"lock", "refused"}
    <3>1. Standing(t)' = "granted"
      BY <1>4, <2>3 DEF Standing
    <3> QED BY <1>1, <2>1, <3>1, ByNothing DEF Grant
  <2>4. CASE pc'[t] \in {"auditHeld", "audit", "done"}
    <3>1. Standing(t)' = "void"
      BY <1>4, <2>4 DEF Standing, ConfirmPcs, Saw
    <3> QED BY <1>1, <2>1, <3>1, ByAbandon
  <2> QED BY <2>2, <2>3, <2>4
<1> QED BY <1>1, <1>2, <1>3, <1>4 DEF Answered

LEMMA TaskSteps ==
    ASSUME IInv, TellInv, NEW t \in Tasks, TaskAction(t)
    PROVE  AuthStep
<1> USE DEF moduleVars, taskVars, storeVars
<1>0. TypeOK /\ JobKnown /\ t \in Actors /\ OthersOf(t)
  BY TaskFrame DEF IInv, OthersOf
<1>1. CASE Asking(t)
  BY <1>1, AskingSteps
<1>2. CASE CreatePending(t) \/ (pc[t] = "create" /\ (StoreRaises(t) \/ Cancel(t)))
  <2>1. /\ pc[t] = "create" /\ (pending' = Asked(t) \/ UNCHANGED pending)
        /\ sent' = sent /\ pc'[t] \in {"audit", "done"}
    BY <1>0, <1>2 DEF CreatePending, StoreRaises, Cancel, TypeOK
  <2> QED BY <1>0, <2>1, CreateSteps
<1>3. CASE ReadPending(t)
  <2>1. /\ pc[t] = "read" /\ UNCHANGED pending /\ sent' = sent /\ via'[t] = via[t]
        /\ \/ pc'[t] \in {"sawNothing", "sawAnswered"}
           \/ pc'[t] = "sawPending" /\ pending[via[t]].status = "pending"
    BY <1>0, <1>3 DEF ReadPending, TypeOK
  <2> QED BY <1>0, <2>1, ReadingSteps
<1>4. CASE ConfirmRefused(t) \/ ConfirmTooLate(t) \/ ConfirmAccepted(t)
  <2>1. UNCHANGED pending /\ sent' = sent /\ via'[t] = via[t]
    BY <1>0, <1>4 DEF ConfirmRefused, ConfirmTooLate, ConfirmAccepted, Accepts
  <2>2. \/ pc[t] = "sawPending" /\ pc'[t] \in {"expire", "mark"}
        \/ pc[t] \in ConfirmPcs /\ pc'[t] = "done"
    BY <1>0, <1>4 DEF ConfirmRefused, ConfirmTooLate, ConfirmAccepted, Accepts,
                      TypeOK, ConfirmPcs, Saw
  <2> QED BY <1>0, <2>1, <2>2, ReadingSteps
<1>5. CASE MarkExpired(t)
  <2>1. /\ pc[t] = "expire" /\ pending' = WithStatus(t, "expired")
        /\ pc'[t] = "done" /\ sent' = sent
    BY <1>0, <1>5 DEF MarkExpired, TypeOK
  <2> QED BY <1>0, <2>1, MarkingSteps
<1>6. CASE MarkConfirmed(t)
  <2>1. /\ pc[t] = "mark" /\ pending' = WithStatus(t, "confirmed") /\ UNCHANGED job
        /\ pc'[t] = "marked" /\ sent' = sent
    BY <1>0, <1>6 DEF MarkConfirmed, TypeOK
  <2> QED BY <1>0, <2>1, MarkingSteps
<1>7. CASE StoreRaises(t) /\ pc[t] # "create"
  <2>1. /\ pc'[t] = "done" /\ sent' = sent
        /\ \/ pc[t] \in {"read", "expire", "mark"} /\ UNCHANGED pending
           \/ pc[t] = "expire" /\ pending' = WithStatus(t, "expired")
           \/ pc[t] = "mark" /\ pending' = WithStatus(t, "confirmed")
    BY <1>0, <1>7 DEF StoreRaises, TypeOK
  <2>2. {"read", "expire", "mark"} \subseteq ConfirmPcs
    BY DEF ConfirmPcs
  <2> QED BY <1>0, <2>1, <2>2, MarkingSteps, ReadingSteps
<1>8. CASE Dispatch(t) \/ Granted(t)
  <2>1. /\ pc[t] \in {"marked", "lock"} /\ UNCHANGED <<job, pending>>
        /\ \E m \in Modules : Send(t, m) \/ Enter(t, m)
    <3>1. CASE Dispatch(t)
      BY <1>0, <3>1 DEF Dispatch, JobKnown, Job
    <3>2. CASE Granted(t)
      BY <1>0, <3>2, OnLock DEF Granted, LockPcs
    <3> QED BY <1>8, <3>1, <3>2
  <2>2. /\ pc'[t] \in {"lock", "flight", "refused"}
        /\ sent' = IF pc'[t] = "flight" THEN sent \cup {t} ELSE sent
    BY <1>0, <2>1, SendMarks
  <2> QED BY <1>0, <2>1, <2>2, RunningSteps
<1>9. CASE \/ Timeout(t) \/ NoConnection(t) \/ AuditAndReturn(t) \/ ModuleAnswers(t)
           \/ (Cancel(t) /\ pc[t] # "create")
  <2>1. /\ pc[t] \in {"lock", "flight", "refused", "auditHeld", "audit"}
        /\ pc'[t] \in {"auditHeld", "audit", "done"} /\ sent' = sent /\ UNCHANGED <<job, pending>>
    BY <1>0, <1>9 DEF Timeout, NoConnection, ModuleAnswers, ErrorReply, Failed, Reply,
                      AuditAndReturn, Cancel, TypeOK
  <2> QED BY <1>0, <2>1, RunningSteps
<1> QED BY <1>1, <1>2, <1>3, <1>4, <1>5, <1>6, <1>7, <1>8, <1>9 DEF TaskAction, TaskStep

\* A crash abandons whatever was under way.
LEMMA CrashSteps == ASSUME IInv, TellInv, Crash PROVE AuthStep
<1> PICK S : S = {t \in Tasks : Standing(t)' # Standing(t) \/ Holding(t)' # Holding(t)}
  OBVIOUS
<1>1. /\ UNCHANGED <<job, pending, sent>>
      /\ \A t \in Tasks : pc'[t] = IF pc[t] = "idle" THEN "idle" ELSE "done"
  BY DEF Crash, taskVars, storeVars
<1>2. \A t \in Tasks : Holding(t)' = {} /\ (t \notin S => Holding(t) = {})
  BY <1>1 DEF Holding
<1>3. ASSUME NEW t \in S PROVE Standing(t) \in {"none", "granted"} /\ Standing(t)' = "void"
  <2>1. t \notin sent /\ pc[t] # "idle"
    <3>1. CASE Holding(t) # {}
      BY <3>1 DEF Holding, TellInv, Told, Answered, SentPcs
    <3>2. CASE Holding(t) = {}
      BY <1>1, <1>2, <3>2 DEF Standing
    <3> QED BY <3>1, <3>2
  <2>2. Standing(t)' = "void"
    BY <1>1, <2>1 DEF Standing, ConfirmPcs, Saw
  <2>3. Standing(t) # "void"
    BY <1>2, <2>2 DEF Standing, Holding, ConfirmPcs, Saw
  <2> QED BY <2>1, <2>2, <2>3 DEF Standing
<1>4. \A t \in Tasks \ S : Standing(t)' = Standing(t) /\ Grant(t)' = Grant(t)
  BY <1>1 DEF Grant
<1>5. \A t \in S : Grant(t)' = NoJob
  BY <1>3 DEF Grant
<1>6. S \in SUBSET Tasks
  OBVIOUS
<1>7. Standings' = [t \in Tasks |-> IF t \in S THEN "void" ELSE Standings[t]]
  BY <1>3, <1>4, <1>6 DEF Standings
<1>8. Grants' = [t \in Tasks |-> IF t \in S THEN NoJob ELSE Grants[t]]
  BY <1>4, <1>5, <1>6 DEF Grants
<1>9. Holdings' = [t \in Tasks |-> IF t \in S THEN {} ELSE Holdings[t]]
  BY <1>2, <1>6 DEF Holdings
<1>10. Auth!Abandon(S)
  BY <1>1, <1>3, <1>6, <1>7, <1>8, <1>9 DEF Auth!Abandon, Standings, Grants, Grant, Holdings
<1> QED BY <1>6, <1>10 DEF AuthStep, Auth!Next

LEMMA QuietSteps ==
    ASSUME UNCHANGED pending, \A u \in Tasks : Stays(u)
    PROVE  AuthStep
<1>1. \A u \in Tasks : Standing(u)' = Standing(u) /\ Grant(u)' = Grant(u)
  BY DEF Stays, Standing, Grant
<1>2. \A u \in Tasks : Holding(u)' = Holding(u)
  BY DEF Stays, Holding
<1> QED BY <1>1, <1>2 DEF AuthStep, Standings, Grants, Holdings

\* The call path implements the authority it promises: a call runs only on an
\* "allow" of the gate or on one question that it found open and confirmed, with
\* the frozen arguments, once on each right, for any tasks, policy, faults,
\* crashes and overlaps (moduleapi.py:11-12).
THEOREM PathImplementsAuthority == Spec => ImplementsAuthority
<1>1. Init => Auth!Init
  BY DEF Init, Auth!Init, Standing, Holding, ConfirmPcs, Saw
<1>2. ASSUME IInv, TellInv, [Next]_vars PROVE [Auth!Next]_(Auth!vars)
  <2>1. ASSUME NEW t \in Tasks, TaskAction(t) PROVE AuthStep
    BY <1>2, <2>1, TaskSteps
  <2>2. ASSUME NEW m \in Modules, Supervised(m) PROVE AuthStep
    BY <1>2, <2>2, ModuleFrame, QuietSteps
  <2>3. ASSUME NEW q \in Tasks, Expire(q) PROVE AuthStep
    BY <2>3, QuietSteps DEF Expire, Stays, taskVars
  <2>4. ASSUME Crash PROVE AuthStep
    BY <1>2, <2>4, CrashSteps
  <2>5. ASSUME UNCHANGED vars PROVE AuthStep
    BY <2>5, QuietSteps DEF vars, Stays
  <2>6. AuthStep
    BY <1>2, <2>1, <2>2, <2>3, <2>4, <2>5 DEF Next, TaskAction
  <2> QED BY <2>6 DEF AuthStep, Auth!vars, Standings, Grants, Grant, Holdings
<1> QED BY <1>1, <1>2, LockDiscipline, TellsTruth, PTL DEF Spec, ImplementsAuthority, Auth!Spec
=============================================================================
