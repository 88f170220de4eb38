-------------------------- MODULE ModuleApiProofs --------------------------
(* Proofs about ModuleApi.tla: the inductive invariant IInv, and from it    *)
(* that at most one request per module is in flight.                        *)
EXTENDS ModuleApi, TLAPS

USE ModuleApiAssumption DEF Actors

\* The module of every actor but a stays the same.
OthersStay(a) == \A b \in Actors : b # a => ModuleOf(b)' = ModuleOf(b)

\* Only the actor a changes its place.
OnlyMoves(a) == pc' = [pc EXCEPT ![a] = pc'[a]] /\ pc'[a] \in PCs

LockInv == LockOwned /\ HolderAtHead

\* The same invariant, one actor of one queue at a time.
LEMMA QueueEntry ==
    ASSUME TypeOK, LockOwned, NEW m \in Modules, NEW i \in 1 .. Len(lockq[m])
    PROVE  /\ lockq[m][i] \in Actors
           /\ pc[lockq[m][i]] \in LockPcs
           /\ i # 1 => pc[lockq[m][i]] = "lock"
           /\ ModuleOf(lockq[m][i]) = m
           /\ \A j \in 1 .. Len(lockq[m]) : lockq[m][j] = lockq[m][i] => j = i
  BY DEF TypeOK, LockOwned, LockPcs

\* An actor outside every lock that stays outside disturbs no queue.
LEMMA OutsideStep ==
    ASSUME TypeOK, LockInv, NEW a \in Actors, OnlyMoves(a), OthersStay(a),
           pc[a] \notin LockPcs, pc'[a] \notin LockPcs, UNCHANGED lockq
    PROVE  LockInv'
<1>1. LockOwned'
  <2> SUFFICES ASSUME NEW m \in Modules, NEW i \in 1 .. Len(lockq[m]), NEW b, b = lockq[m][i]
               PROVE  /\ pc'[b] \in (IF i = 1 THEN LockPcs ELSE {"lock"})
                      /\ ModuleOf(b)' = m
                      /\ \A j \in 1 .. Len(lockq[m]) : lockq[m][j] = b => j = i
    BY DEF LockOwned, ModuleOf
  <2>1. /\ b \in Actors /\ pc[b] \in (IF i = 1 THEN LockPcs ELSE {"lock"}) /\ ModuleOf(b) = m
        /\ \A j \in 1 .. Len(lockq[m]) : lockq[m][j] = b => j = i
    BY QueueEntry DEF LockInv
  <2>2. b # a
    BY <2>1 DEF LockPcs
  <2> QED BY <2>1, <2>2 DEF OnlyMoves, OthersStay, TypeOK
<1>2. HolderAtHead'
  BY DEF LockInv, HolderAtHead, TypeOK, OnlyMoves, OthersStay, ModuleOf, LockPcs
<1> QED BY <1>1, <1>2 DEF LockInv

\* The actor at the head of a queue moves on while it keeps the lock.
LEMMA HolderStep ==
    ASSUME TypeOK, LockInv, NEW a \in Actors, OnlyMoves(a), UNCHANGED <<job, lockq>>,
           pc'[a] \in LockPcs \ {"lock"}, pc[a] \in LockPcs,
           lockq[ModuleOf(a)] # <<>>, lockq[ModuleOf(a)][1] = a
    PROVE  LockInv'
<1>1. LockOwned'
  <2> SUFFICES ASSUME NEW m \in Modules, NEW i \in 1 .. Len(lockq[m]), NEW b, b = lockq[m][i]
               PROVE  /\ pc'[b] \in (IF i = 1 THEN LockPcs ELSE {"lock"})
                      /\ ModuleOf(b)' = m
                      /\ \A j \in 1 .. Len(lockq[m]) : lockq[m][j] = b => j = i
    BY DEF LockOwned, ModuleOf
  <2>1. /\ b \in Actors /\ pc[b] \in (IF i = 1 THEN LockPcs ELSE {"lock"}) /\ ModuleOf(b) = m
        /\ \A j \in 1 .. Len(lockq[m]) : lockq[m][j] = b => j = i
    BY QueueEntry DEF LockInv
  <2>2. ModuleOf(b)' = ModuleOf(b)
    BY DEF ModuleOf
  <2>3. b = a => i = 1
    BY <2>1 DEF TypeOK
  <2> QED BY <2>1, <2>2, <2>3 DEF OnlyMoves, TypeOK, LockPcs
<1>2. HolderAtHead'
  <2> SUFFICES ASSUME NEW b \in Actors, pc'[b] \in LockPcs \ {"lock"}
               PROVE  lockq[ModuleOf(b)] # <<>> /\ lockq[ModuleOf(b)][1] = b
    BY DEF HolderAtHead, ModuleOf
  <2>1. CASE b = a
    BY <2>1
  <2>2. CASE b # a
    BY <2>2 DEF LockInv, HolderAtHead, OnlyMoves, TypeOK
  <2> QED BY <2>1, <2>2
<1> QED BY <1>1, <1>2 DEF LockInv

\* d is what remains of the queue q that an actor leaves from position k.
Dropped(d, q, k) ==
    /\ Len(d) = Len(q) - 1
    /\ \A j \in 1 .. Len(q) - 1 : d[j] = IF j < k THEN q[j] ELSE q[j + 1]

LEMMA DropAtProperties ==
    ASSUME NEW S, NEW q \in Seq(S), NEW k \in 1 .. Len(q)
    PROVE  DropAt(q, k) \in Seq(S) /\ Dropped(DropAt(q, k), q, k)
<1>1. \A j \in 1 .. Len(q) - 1 : (IF j < k THEN q[j] ELSE q[j + 1]) \in S
  OBVIOUS
<1>2. Len(q) - 1 \in Nat
  OBVIOUS
<1>3. DropAt(q, k) \in Seq(S)
  BY <1>1, <1>2 DEF DropAt
<1>4. Len(DropAt(q, k)) = Len(q) - 1
  BY <1>2, <1>3 DEF DropAt
<1> QED BY <1>3, <1>4 DEF DropAt, Dropped

\* Leaving a lock, from the head or from the wait, wakes nobody by itself.
LEMMA LeaveStep ==
    ASSUME TypeOK, LockInv, NEW a \in Actors, OnlyMoves(a), UNCHANGED job,
           pc'[a] \notin LockPcs, NEW m \in Modules, Leave(a, m), ModuleOf(a) = m
    PROVE  LockInv' /\ lockq' \in [Modules -> Seq(Actors)]
<1>1. PICK k \in 1 .. Len(lockq[m]) :
         lockq[m][k] = a /\ lockq' = [lockq EXCEPT ![m] = DropAt(lockq[m], k)]
  BY DEF Leave
<1> PICK d : d = DropAt(lockq[m], k)
  OBVIOUS
<1>2. lockq[m] \in Seq(Actors)
  BY DEF TypeOK
<1>0. d \in Seq(Actors) /\ Dropped(d, lockq[m], k)
  BY <1>1, <1>2, DropAtProperties
<1>3. /\ lockq' \in [Modules -> Seq(Actors)]
      /\ lockq'[m] = d
      /\ \A n \in Modules \ {m} : lockq'[n] = lockq[n]
  BY <1>1, <1>0 DEF TypeOK
<1>4. /\ Len(lockq'[m]) = Len(lockq[m]) - 1
      /\ \A j \in 1 .. Len(lockq'[m]) :
            lockq'[m][j] = IF j < k THEN lockq[m][j] ELSE lockq[m][j + 1]
  <2>1. Len(lockq'[m]) = Len(lockq[m]) - 1
    BY <1>3, <1>0 DEF Dropped
  <2>2. \A j \in 1 .. Len(lockq'[m]) : lockq'[m][j] = d[j] /\ j \in 1 .. Len(lockq[m]) - 1
    BY <1>3, <2>1
  <2> QED BY <1>0, <2>1, <2>2 DEF Dropped
<1>5. \A b : ModuleOf(b)' = ModuleOf(b)
  BY DEF ModuleOf
<1>6. LockOwned'
  <2> SUFFICES ASSUME NEW n \in Modules, NEW i \in 1 .. Len(lockq'[n]), NEW b, b = lockq'[n][i]
               PROVE  /\ pc'[b] \in (IF i = 1 THEN LockPcs ELSE {"lock"})
                      /\ ModuleOf(b)' = n
                      /\ \A j \in 1 .. Len(lockq'[n]) : lockq'[n][j] = b => j = i
    BY DEF LockOwned, ModuleOf
  <2>1. CASE n = m
    <3> DEFINE p == IF i < k THEN i ELSE i + 1
    <3>1. p \in 1 .. Len(lockq[m]) /\ p # k /\ b = lockq[m][p] /\ (i # 1 => p # 1)
      <4>1. Len(lockq[m]) \in Nat
        BY <1>2
      <4>2. i \in 1 .. Len(lockq[m]) - 1
        BY <1>4, <2>1
      <4>3. p \in 1 .. Len(lockq[m]) /\ p # k /\ (i # 1 => p # 1)
        BY <4>1, <4>2
      <4>4. b = lockq[m][p]
        BY <1>4, <2>1
      <4> QED BY <4>3, <4>4
    <3>2. /\ b \in Actors /\ pc[b] \in LockPcs /\ (p # 1 => pc[b] = "lock") /\ ModuleOf(b) = m
          /\ \A j \in 1 .. Len(lockq[m]) : lockq[m][j] = b => j = p
      BY <3>1, QueueEntry DEF LockInv
    <3>3. b # a
      BY <1>1, <3>1, <3>2
    <3>4. \A j \in 1 .. Len(lockq'[n]) : lockq'[n][j] = b => j = i
      <4> SUFFICES ASSUME NEW j \in 1 .. Len(lockq'[m]), lockq'[m][j] = b
                   PROVE  j = i
        BY <2>1
      <4> DEFINE r == IF j < k THEN j ELSE j + 1
      <4>1. r \in 1 .. Len(lockq[m]) /\ lockq[m][r] = b
        BY <1>2, <1>4
      <4>2. r = p
        BY <3>2, <4>1
      <4> QED BY <1>2, <1>4, <2>1, <4>2
    <3> QED BY <1>5, <2>1, <3>1, <3>2, <3>3, <3>4 DEF OnlyMoves, TypeOK, LockPcs
  <2>2. CASE n # m
    <3>1. lockq'[n] = lockq[n]
      BY <1>3, <2>2
    <3>2. /\ b \in Actors /\ pc[b] \in LockPcs /\ (i # 1 => pc[b] = "lock") /\ ModuleOf(b) = n
          /\ \A j \in 1 .. Len(lockq[n]) : lockq[n][j] = b => j = i
      BY <3>1, QueueEntry DEF LockInv
    <3>3. b # a
      BY <2>2, <3>2
    <3> QED BY <1>5, <3>1, <3>2, <3>3 DEF OnlyMoves, TypeOK
  <2> QED BY <2>1, <2>2
<1>7. HolderAtHead'
  <2> SUFFICES ASSUME NEW b \in Actors, pc'[b] \in LockPcs \ {"lock"}
               PROVE  lockq'[ModuleOf(b)] # <<>> /\ lockq'[ModuleOf(b)][1] = b
    BY <1>5 DEF HolderAtHead
  <2>1. b # a /\ pc'[b] = pc[b]
    BY DEF OnlyMoves, TypeOK
  <2>2. lockq[ModuleOf(b)] # <<>> /\ lockq[ModuleOf(b)][1] = b
    BY <2>1 DEF LockInv, HolderAtHead
  <2>3. CASE ModuleOf(b) = m
    <3>1. k # 1 /\ Len(lockq[m]) \in Nat
      BY <1>1, <1>2, <2>1, <2>2, <2>3
    <3>2. 1 \in 1 .. Len(lockq'[m]) /\ lockq'[m][1] = b
      BY <1>2, <1>4, <2>2, <2>3, <3>1
    <3>3. lockq'[m] # <<>>
      BY <3>2
    <3> QED BY <2>3, <3>2, <3>3
  <2>4. CASE ModuleOf(b) # m
    <3>1. lockq'[ModuleOf(b)] = lockq[ModuleOf(b)]
      BY <1>1, <2>4 DEF TypeOK
    <3> QED BY <2>2, <3>1
  <2> QED BY <2>3, <2>4
<1> QED BY <1>3, <1>6, <1>7 DEF LockInv

\* Entering appends to the queue; only an empty queue lets the actor through.
LEMMA EnterStep ==
    ASSUME TypeOK, LockInv, NEW a \in Actors, OnlyMoves(a), OthersStay(a),
           pc[a] \notin LockPcs, pc'[a] \in LockPcs, NEW m \in Modules, ModuleOf(a)' = m,
           lockq' = [lockq EXCEPT ![m] = Append(lockq[m], a)],
           lockq[m] # <<>> => pc'[a] = "lock"
    PROVE  LockInv' /\ lockq' \in [Modules -> Seq(Actors)]
<1>1. /\ lockq[m] \in Seq(Actors) /\ Len(lockq[m]) \in Nat
      /\ lockq' \in [Modules -> Seq(Actors)]
      /\ \A n \in Modules \ {m} : lockq'[n] = lockq[n]
  BY DEF TypeOK
<1>2. /\ Len(lockq'[m]) = Len(lockq[m]) + 1
      /\ \A j \in 1 .. Len(lockq[m]) : lockq'[m][j] = lockq[m][j]
      /\ lockq'[m][Len(lockq[m]) + 1] = a
  BY <1>1 DEF TypeOK
<1>3. LockOwned'
  <2> SUFFICES ASSUME NEW n \in Modules, NEW i \in 1 .. Len(lockq'[n]), NEW b, b = lockq'[n][i]
               PROVE  /\ pc'[b] \in (IF i = 1 THEN LockPcs ELSE {"lock"})
                      /\ ModuleOf(b)' = n
                      /\ \A j \in 1 .. Len(lockq'[n]) : lockq'[n][j] = b => j = i
    BY DEF LockOwned, ModuleOf
  <2>1. \A j \in 1 .. Len(lockq[n]) : lockq[n][j] # a /\ lockq'[n][j] = lockq[n][j]
    BY <1>1, <1>2, QueueEntry DEF LockInv
  <2>2. CASE i \in 1 .. Len(lockq[n])
    <3>1. /\ b \in Actors /\ pc[b] \in LockPcs /\ (i # 1 => pc[b] = "lock") /\ ModuleOf(b) = n
          /\ \A j \in 1 .. Len(lockq[n]) : lockq[n][j] = b => j = i
          /\ b # a /\ b = lockq[n][i]
      BY <2>1, <2>2, QueueEntry DEF LockInv
    <3>2. \A j \in 1 .. Len(lockq'[n]) : lockq'[n][j] = b => j = i
      BY <1>1, <1>2, <2>1, <3>1
    <3>3. pc'[b] = pc[b] /\ ModuleOf(b)' = ModuleOf(b)
      BY <3>1 DEF OnlyMoves, OthersStay, TypeOK
    <3> QED BY <3>1, <3>2, <3>3
  <2>3. CASE i \notin 1 .. Len(lockq[n])
    <3>1. n = m /\ i = Len(lockq[m]) + 1 /\ b = a
      BY <1>1, <1>2, <2>3
    <3>2. i # 1 => pc'[b] = "lock"
      BY <1>1, <3>1
    <3>3. \A j \in 1 .. Len(lockq'[n]) : lockq'[n][j] = b => j = i
      BY <1>1, <1>2, <2>1, <3>1
    <3> QED BY <3>1, <3>2, <3>3
  <2> QED BY <2>2, <2>3
<1>4. HolderAtHead'
  <2> SUFFICES ASSUME NEW b \in Actors, pc'[b] \in LockPcs \ {"lock"}
               PROVE  lockq'[ModuleOf(b)'] # <<>> /\ lockq'[ModuleOf(b)'][1] = b
    BY DEF HolderAtHead
  <2>1. CASE b = a
    BY <1>1, <1>2, <2>1
  <2>2. CASE b # a
    <3>1. pc[b] \in LockPcs \ {"lock"} /\ ModuleOf(b)' = ModuleOf(b)
      BY <2>2 DEF OnlyMoves, OthersStay, TypeOK
    <3>2. lockq[ModuleOf(b)] # <<>> /\ lockq[ModuleOf(b)][1] = b
      BY <3>1 DEF LockInv, HolderAtHead
    <3>3. CASE ModuleOf(b) = m
      BY <1>1, <1>2, <3>1, <3>2, <3>3
    <3>4. CASE ModuleOf(b) # m
      BY <3>1, <3>2, <3>4 DEF TypeOK
    <3> QED BY <3>3, <3>4
  <2> QED BY <2>1, <2>2
<1> QED BY <1>1, <1>3, <1>4 DEF LockInv

\* What Send and Enter do to the variables they touch.
LEMMA SendType ==
    ASSUME TypeOK, NEW a \in Actors, NEW m \in Modules, Send(a, m)
    PROVE  /\ OnlyMoves(a) /\ pc'[a] \in {"flight", "refused"}
           /\ running' \in [Modules -> SUBSET Actors]
           /\ sent' \in SUBSET Tasks
<1>1. OnlyMoves(a) /\ pc'[a] \in {"flight", "refused"}
  BY DEF Send, TypeOK, OnlyMoves, PCs, LockPcs
<1>2. running' \in [Modules -> SUBSET Actors]
  <2>1. running \in [Modules -> SUBSET Actors] /\ running[m] \cup {a} \in SUBSET Actors
    BY DEF TypeOK
  <2>2. CASE UNCHANGED running
    BY <2>1, <2>2
  <2>3. CASE running' = [running EXCEPT ![m] = running[m] \cup {a}]
    BY <2>1, <2>3
  <2> QED BY <2>1, <2>2, <2>3 DEF Send
<1>3. sent' \in SUBSET Tasks
  BY DEF Send, TypeOK
<1> QED BY <1>1, <1>2, <1>3

LEMMA EnterType ==
    ASSUME TypeOK, NEW a \in Actors, NEW m \in Modules, Enter(a, m)
    PROVE  /\ OnlyMoves(a) /\ pc'[a] \in {"lock", "flight", "refused"}
           /\ lockq[m] # <<>> => pc'[a] = "lock"
           /\ lockq' = [lockq EXCEPT ![m] = Append(lockq[m], a)]
           /\ running' \in [Modules -> SUBSET Actors]
           /\ sent' \in SUBSET Tasks
<1>1. CASE lockq[m] = <<>>
  BY <1>1, SendType DEF Enter
<1>2. CASE lockq[m] # <<>>
  BY <1>2 DEF Enter, TypeOK, OnlyMoves, PCs, LockPcs
<1> QED BY <1>1, <1>2

\* An actor on a lock is on the lock of a module.
LEMMA OnLock ==
    ASSUME TypeOK, JobKnown, NEW a \in Actors, pc[a] \in LockPcs
    PROVE  /\ ModuleOf(a) \in Modules
           /\ a \in Tasks => ModuleOf(a) = job[a].module /\ job[a] \in Job
  BY DEF JobKnown, ModuleOf, Job

LEMMA RowTypes ==
    ASSUME TypeOK, NEW t \in Tasks
    PROVE  /\ Asked(t) \in [Tasks -> [status : Statuses, job : Job \cup {NoJob}]]
           /\ \A s \in Statuses :
                 WithStatus(t, s) \in [Tasks -> [status : Statuses, job : Job \cup {NoJob}]]
           /\ job[t] \in Job /\ Audited(t) => audit' \in [Tasks -> Seq([job : Job, result : Answers])]
<1> DEFINE Row == [status : Statuses, job : Job \cup {NoJob}]
<1>1. pending \in [Tasks -> Row] /\ via[t] \in Tasks /\ job[t] \in Job \cup {NoJob}
  BY DEF TypeOK
<1>2. [status |-> "pending", job |-> job[t]] \in Row
  BY <1>1 DEF Statuses
<1>3. Asked(t) \in [Tasks -> Row]
  BY <1>1, <1>2 DEF Asked
<1>4. ASSUME NEW s \in Statuses PROVE WithStatus(t, s) \in [Tasks -> Row]
  <2>1. [pending[via[t]] EXCEPT !.status = s] \in Row
    BY <1>1
  <2> QED BY <1>1, <2>1 DEF WithStatus
<1>5. ASSUME job[t] \in Job, Audited(t)
      PROVE  audit' \in [Tasks -> Seq([job : Job, result : Answers])]
  <2> DEFINE Entry == [job : Job, result : Answers]
             entry == [job |-> job[t], result |-> answer[t]]
  <2>1. entry \in Entry
    BY <1>5 DEF TypeOK
  <2>2. audit \in [Tasks -> Seq(Entry)]
    BY DEF TypeOK
  <2>3. audit' = [audit EXCEPT ![t] = Append(audit[t], entry)] \/ UNCHANGED audit
    BY <1>5 DEF Audited
  <2> HIDE DEF Entry, entry
  <2>4. Append(audit[t], entry) \in Seq(Entry)
    BY <2>1, <2>2
  <2>5. audit' \in [Tasks -> Seq(Entry)]
    BY <2>2, <2>3, <2>4
  <2> QED BY <2>5 DEF Entry
<1> QED BY <1>3, <1>4, <1>5

\* Tasks outside every lock.  One step per action, one under it per conjunct.
LEMMA OutsideActions ==
    ASSUME IInv, NEW t \in Tasks,
           \/ CallRejected(t) \/ CreatePending(t) \/ ReadPending(t) \/ ConfirmRefused(t)
           \/ ConfirmTooLate(t) \/ ConfirmAccepted(t) \/ MarkExpired(t) \/ MarkConfirmed(t) \/ StoreRaises(t)
           \/ \E j \in Job : CallDenied(t, j) \/ CallAsks(t, j)
           \/ \E q \in Tasks : Confirm(t, q)
    PROVE  IInv'
<1> USE DEF moduleVars, taskVars, storeVars
<1>0. TypeOK /\ LockInv /\ JobKnown /\ t \in Actors
  BY DEF IInv, LockInv
<1>1. ASSUME CallRejected(t) PROVE IInv'
  <2>0. OnlyMoves(t) /\ pc[t] \notin LockPcs /\ pc'[t] \notin LockPcs
    BY <1>0, <1>1 DEF CallRejected, TypeOK, OnlyMoves, PCs, ConfirmPcs, Saw, LockPcs
  <2>1. TypeOK'
    BY <1>0, <1>1, <2>0 DEF CallRejected, TypeOK, OnlyMoves, Answers
  <2>2. JobKnown'
    BY <1>0, <1>1, <2>0 DEF CallRejected, TypeOK, JobKnown, LockPcs
  <2>3. LockInv'
    <3>1. OthersStay(t) /\ UNCHANGED lockq
      BY <1>0, <1>1 DEF CallRejected, OthersStay, ModuleOf, TypeOK
    <3> QED BY <1>0, <2>0, <3>1, OutsideStep
  <2> QED BY <2>1, <2>2, <2>3 DEF IInv, LockInv
<1>2. ASSUME CreatePending(t) PROVE IInv'
  <2>0. OnlyMoves(t) /\ pc[t] \notin LockPcs /\ pc'[t] \notin LockPcs
    BY <1>0, <1>2 DEF CreatePending, TypeOK, OnlyMoves, PCs, ConfirmPcs, Saw, LockPcs
  <2>1. TypeOK'
    BY <1>0, <1>2, <2>0, RowTypes DEF CreatePending, TypeOK, OnlyMoves, Answers
  <2>2. JobKnown'
    BY <1>0, <1>2, <2>0 DEF CreatePending, TypeOK, JobKnown, LockPcs, Asked
  <2>3. LockInv'
    <3>1. OthersStay(t) /\ UNCHANGED lockq
      BY <1>0, <1>2 DEF CreatePending, OthersStay, ModuleOf, TypeOK
    <3> QED BY <1>0, <2>0, <3>1, OutsideStep
  <2> QED BY <2>1, <2>2, <2>3 DEF IInv, LockInv
<1>3. ASSUME ReadPending(t) PROVE IInv'
  <2>0. OnlyMoves(t) /\ pc[t] \notin LockPcs /\ pc'[t] \notin LockPcs
    BY <1>0, <1>3 DEF ReadPending, TypeOK, OnlyMoves, PCs, ConfirmPcs, Saw, LockPcs
  <2>1. TypeOK'
    BY <1>0, <1>3, <2>0 DEF ReadPending, TypeOK, OnlyMoves, Answers
  <2>2. JobKnown'
    BY <1>0, <1>3, <2>0 DEF ReadPending, TypeOK, JobKnown, LockPcs
  <2>3. LockInv'
    <3>1. OthersStay(t) /\ UNCHANGED lockq
      BY <1>0, <1>3 DEF ReadPending, OthersStay, ModuleOf, TypeOK
    <3> QED BY <1>0, <2>0, <3>1, OutsideStep
  <2> QED BY <2>1, <2>2, <2>3 DEF IInv, LockInv
<1>4. ASSUME ConfirmRefused(t) PROVE IInv'
  <2>0. OnlyMoves(t) /\ pc[t] \notin LockPcs /\ pc'[t] \notin LockPcs
    BY <1>0, <1>4 DEF ConfirmRefused, TypeOK, OnlyMoves, PCs, ConfirmPcs, Saw, LockPcs
  <2>1. TypeOK'
    BY <1>0, <1>4, <2>0 DEF ConfirmRefused, TypeOK, OnlyMoves, Answers
  <2>2. JobKnown'
    <3>1. pc'[t] = "done" /\ UNCHANGED <<job, via, pending>> /\ \A u \in Tasks \ {t} : pc'[u] = pc[u]
      BY <1>0, <1>4 DEF ConfirmRefused, TypeOK
    <3> QED BY <1>0, <3>1 DEF JobKnown, LockPcs
  <2>3. LockInv'
    <3>1. OthersStay(t) /\ UNCHANGED lockq
      BY <1>0, <1>4 DEF ConfirmRefused, OthersStay, ModuleOf, TypeOK
    <3> QED BY <1>0, <2>0, <3>1, OutsideStep
  <2> QED BY <2>1, <2>2, <2>3 DEF IInv, LockInv
<1>5. ASSUME ConfirmTooLate(t) PROVE IInv'
  <2>0. OnlyMoves(t) /\ pc[t] \notin LockPcs /\ pc'[t] \notin LockPcs
    BY <1>0, <1>5 DEF ConfirmTooLate, TypeOK, OnlyMoves, PCs, ConfirmPcs, Saw, LockPcs
  <2>1. TypeOK'
    BY <1>0, <1>5, <2>0 DEF ConfirmTooLate, TypeOK, OnlyMoves, Answers
  <2>2. JobKnown'
    BY <1>0, <1>5, <2>0 DEF ConfirmTooLate, TypeOK, JobKnown, LockPcs
  <2>3. LockInv'
    <3>1. OthersStay(t) /\ UNCHANGED lockq
      BY <1>0, <1>5 DEF ConfirmTooLate, OthersStay, ModuleOf, TypeOK
    <3> QED BY <1>0, <2>0, <3>1, OutsideStep
  <2> QED BY <2>1, <2>2, <2>3 DEF IInv, LockInv
<1>6. ASSUME ConfirmAccepted(t) PROVE IInv'
  <2>0. OnlyMoves(t) /\ pc[t] \notin LockPcs /\ pc'[t] \notin LockPcs
    BY <1>0, <1>6 DEF ConfirmAccepted, Accepts, TypeOK, OnlyMoves, PCs, ConfirmPcs, Saw, LockPcs
  <2> DEFINE frozen == [pending[via[t]].job EXCEPT !.principal = Subject]
  <2>a. frozen \in Job
    <3>1. pending[via[t]].job \in Job
      BY <1>0, <1>6 DEF ConfirmAccepted, Accepts, JobKnown, TypeOK
    <3> QED BY <3>1 DEF Job
  <2>b. job' = [job EXCEPT ![t] = frozen]
    BY <1>6 DEF ConfirmAccepted, Accepts
  <2> HIDE DEF frozen
  <2>1. TypeOK'
    BY <1>0, <1>6, <2>0, <2>a, <2>b DEF ConfirmAccepted, Accepts, TypeOK, OnlyMoves
  <2>2. JobKnown'
    BY <1>0, <1>6, <2>0, <2>a, <2>b DEF ConfirmAccepted, Accepts, TypeOK, JobKnown, LockPcs
  <2>3. LockInv'
    <3>1. OthersStay(t) /\ UNCHANGED lockq
      BY <1>0, <1>6 DEF ConfirmAccepted, Accepts, OthersStay, ModuleOf, TypeOK
    <3> QED BY <1>0, <2>0, <3>1, OutsideStep
  <2> QED BY <2>1, <2>2, <2>3 DEF IInv, LockInv
<1>7. ASSUME MarkExpired(t) PROVE IInv'
  <2>0. OnlyMoves(t) /\ pc[t] \notin LockPcs /\ pc'[t] \notin LockPcs
    BY <1>0, <1>7 DEF MarkExpired, TypeOK, OnlyMoves, PCs, ConfirmPcs, Saw, LockPcs
  <2>1. TypeOK'
    BY <1>0, <1>7, <2>0, RowTypes DEF MarkExpired, TypeOK, OnlyMoves, Answers, Statuses
  <2>2. JobKnown'
    BY <1>0, <1>7, <2>0 DEF MarkExpired, TypeOK, JobKnown, LockPcs, WithStatus
  <2>3. LockInv'
    <3>1. OthersStay(t) /\ UNCHANGED lockq
      BY <1>0, <1>7 DEF MarkExpired, OthersStay, ModuleOf, TypeOK
    <3> QED BY <1>0, <2>0, <3>1, OutsideStep
  <2> QED BY <2>1, <2>2, <2>3 DEF IInv, LockInv
<1>8. ASSUME StoreRaises(t) PROVE IInv'
  <2>0. OnlyMoves(t) /\ pc[t] \notin LockPcs /\ pc'[t] \notin LockPcs
    BY <1>0, <1>8 DEF StoreRaises, TypeOK, OnlyMoves, PCs, ConfirmPcs, Saw, LockPcs
  <2>z. \/ UNCHANGED pending
        \/ pc[t] = "create" /\ pending' = Asked(t)
        \/ pc[t] = "expire" /\ pending' = WithStatus(t, "expired")
        \/ pc[t] = "mark" /\ pending' = WithStatus(t, "confirmed")
    BY <1>8 DEF StoreRaises
  <2>a. pending' \in [Tasks -> [status : Statuses, job : Job \cup {NoJob}]]
    <3>1. pending \in [Tasks -> [status : Statuses, job : Job \cup {NoJob}]]
      BY <1>0 DEF TypeOK
    <3>2. CASE UNCHANGED pending
      BY <3>1, <3>2
    <3>3. CASE pc[t] = "create" /\ pending' = Asked(t)
      BY <1>0, <3>3, RowTypes
    <3>4. CASE pc[t] = "expire" /\ pending' = WithStatus(t, "expired")
      BY <1>0, <3>4, RowTypes DEF Statuses
    <3>5. CASE pc[t] = "mark" /\ pending' = WithStatus(t, "confirmed")
      BY <1>0, <3>5, RowTypes DEF Statuses
    <3> QED BY <2>z, <3>2, <3>3, <3>4, <3>5
  <2>b. \A q \in Tasks : /\ pending'[q].status # "none" => pending'[q].job \in Job
                         /\ pending[q].status # "none" => pending'[q].status # "none"
    <3>1. CASE UNCHANGED pending
      BY <1>0, <3>1 DEF JobKnown
    <3>2. CASE pc[t] = "create" /\ pending' = Asked(t)
      BY <1>0, <3>2 DEF JobKnown, Asked, TypeOK
    <3>3. CASE pc[t] = "expire" /\ pending' = WithStatus(t, "expired")
      BY <1>0, <3>3 DEF JobKnown, WithStatus, TypeOK
    <3>4. CASE pc[t] = "mark" /\ pending' = WithStatus(t, "confirmed")
      BY <1>0, <3>4 DEF JobKnown, WithStatus, TypeOK
    <3> QED BY <2>z, <3>1, <3>2, <3>3, <3>4
  <2>1. TypeOK'
    BY <1>0, <1>8, <2>0, <2>a DEF StoreRaises, TypeOK, OnlyMoves, Answers
  <2>2. JobKnown'
    BY <1>0, <1>8, <2>0, <2>b DEF StoreRaises, TypeOK, JobKnown, LockPcs
  <2>3. LockInv'
    <3>1. OthersStay(t) /\ UNCHANGED lockq
      BY <1>0, <1>8 DEF StoreRaises, OthersStay, ModuleOf, TypeOK
    <3> QED BY <1>0, <2>0, <3>1, OutsideStep
  <2> QED BY <2>1, <2>2, <2>3 DEF IInv, LockInv
<1>9. ASSUME NEW j \in Job, CallDenied(t, j) PROVE IInv'
  <2>0. OnlyMoves(t) /\ pc[t] \notin LockPcs /\ pc'[t] \notin LockPcs
    BY <1>0, <1>9 DEF CallDenied, Evaluated, TypeOK, OnlyMoves, PCs, ConfirmPcs, Saw, LockPcs
  <2>1. TypeOK'
    BY <1>0, <1>9, <2>0 DEF CallDenied, Evaluated, TypeOK, OnlyMoves, Answers
  <2>2. JobKnown'
    BY <1>0, <1>9, <2>0 DEF CallDenied, Evaluated, TypeOK, JobKnown, LockPcs
  <2>3. LockInv'
    <3>1. OthersStay(t) /\ UNCHANGED lockq
      BY <1>0, <1>9 DEF CallDenied, Evaluated, OthersStay, ModuleOf, TypeOK
    <3> QED BY <1>0, <2>0, <3>1, OutsideStep
  <2> QED BY <2>1, <2>2, <2>3 DEF IInv, LockInv
<1>10. ASSUME NEW j \in Job, CallAsks(t, j) PROVE IInv'
  <2>0. OnlyMoves(t) /\ pc[t] \notin LockPcs /\ pc'[t] \notin LockPcs
    BY <1>0, <1>10 DEF CallAsks, Evaluated, TypeOK, OnlyMoves, PCs, ConfirmPcs, Saw, LockPcs
  <2>1. TypeOK'
    BY <1>0, <1>10, <2>0 DEF CallAsks, Evaluated, TypeOK, OnlyMoves, Answers
  <2>2. JobKnown'
    BY <1>0, <1>10, <2>0 DEF CallAsks, Evaluated, TypeOK, JobKnown, LockPcs
  <2>3. LockInv'
    <3>1. OthersStay(t) /\ UNCHANGED lockq
      BY <1>0, <1>10 DEF CallAsks, Evaluated, OthersStay, ModuleOf, TypeOK
    <3> QED BY <1>0, <2>0, <3>1, OutsideStep
  <2> QED BY <2>1, <2>2, <2>3 DEF IInv, LockInv
<1>11. ASSUME NEW q \in Tasks, Confirm(t, q) PROVE IInv'
  <2>0. OnlyMoves(t) /\ pc[t] \notin LockPcs /\ pc'[t] \notin LockPcs
    BY <1>0, <1>11 DEF Confirm, TypeOK, OnlyMoves, PCs, ConfirmPcs, Saw, LockPcs
  <2>1. TypeOK'
    <3>1. /\ via' = [via EXCEPT ![t] = q]
          /\ earlier' = [earlier EXCEPT ![t] = {u \in Confirms(q) : u \in sent \/ pc[u] = "done"}]
          /\ UNCHANGED <<phase, link, lockq, running, job, answer, pending, due, audit, sent, crashes>>
      BY <1>11 DEF Confirm
    <3>2. {u \in Confirms(q) : u \in sent \/ pc[u] = "done"} \in SUBSET Tasks
      BY DEF Confirms
    <3>3. earlier' \in [Tasks -> SUBSET Tasks]
      BY <1>0, <3>1, <3>2 DEF TypeOK
    <3>4. via' \in [Tasks -> Tasks] /\ pc' \in [Actors -> PCs]
      BY <1>0, <2>0, <3>1 DEF TypeOK, OnlyMoves
    <3> QED BY <1>0, <3>1, <3>3, <3>4 DEF TypeOK
  <2>2. JobKnown'
    BY <1>0, <1>11, <2>0 DEF Confirm, TypeOK, JobKnown, LockPcs
  <2>3. LockInv'
    <3>1. OthersStay(t) /\ UNCHANGED lockq
      BY <1>0, <1>11 DEF Confirm, OthersStay, ModuleOf, TypeOK
    <3> QED BY <1>0, <2>0, <3>1, OutsideStep
  <2> QED BY <2>1, <2>2, <2>3 DEF IInv, LockInv
<1>12. ASSUME MarkConfirmed(t) PROVE IInv'
  <2>0. OnlyMoves(t) /\ pc[t] \notin LockPcs /\ pc'[t] \notin LockPcs
    BY <1>0, <1>12 DEF MarkConfirmed, TypeOK, OnlyMoves, PCs, ConfirmPcs, Saw, LockPcs
  <2>1. TypeOK'
    BY <1>0, <1>12, <2>0, RowTypes DEF MarkConfirmed, TypeOK, OnlyMoves, Answers, Statuses
  <2>2. JobKnown'
    BY <1>0, <1>12, <2>0 DEF MarkConfirmed, TypeOK, JobKnown, LockPcs, WithStatus
  <2>3. LockInv'
    <3>1. OthersStay(t) /\ UNCHANGED lockq
      BY <1>0, <1>12 DEF MarkConfirmed, OthersStay, ModuleOf, TypeOK
    <3> QED BY <1>0, <2>0, <3>1, OutsideStep
  <2> QED BY <2>1, <2>2, <2>3 DEF IInv, LockInv
<1> QED BY <1>1, <1>2, <1>3, <1>4, <1>5, <1>6, <1>7, <1>8, <1>9, <1>10, <1>11, <1>12

\* Tasks that take, hold or leave a lock.
LEMMA LockActions ==
    ASSUME IInv, NEW t \in Tasks,
           \/ Dispatch(t) \/ Granted(t) \/ Timeout(t) \/ NoConnection(t) \/ ErrorReply(t)
           \/ AuditAndReturn(t) \/ Cancel(t)
           \/ \E j \in Job : CallAllowed(t, j)
           \/ \E o \in {"ok", "tool_error", "bad_result"} : Reply(t, o)
    PROVE  IInv'
<1> USE DEF moduleVars, taskVars, storeVars
<1>0. TypeOK /\ LockInv /\ JobKnown /\ t \in Actors /\ t \notin Modules
  BY DEF IInv, LockInv
<1>1. ASSUME NEW j \in Job, CallAllowed(t, j) PROVE IInv'
  <2>0. /\ pc[t] = "idle" /\ j.module \in Modules /\ Enter(t, j.module)
        /\ job' = [job EXCEPT ![t] = j]
    BY <1>1 DEF CallAllowed, Evaluated, Job
  <2>1. OthersStay(t) /\ ModuleOf(t)' = j.module
    BY <1>0, <2>0 DEF OthersStay, ModuleOf, TypeOK
  <2>2. /\ OnlyMoves(t) /\ pc'[t] \in {"lock", "flight", "refused"}
        /\ lockq[j.module] # <<>> => pc'[t] = "lock"
        /\ lockq' = [lockq EXCEPT ![j.module] = Append(lockq[j.module], t)]
        /\ running' \in [Modules -> SUBSET Actors]
        /\ sent' \in SUBSET Tasks
    BY <1>0, <2>0, EnterType
  <2>3. LockInv' /\ lockq' \in [Modules -> Seq(Actors)]
    BY <1>0, <2>0, <2>1, <2>2, EnterStep DEF LockPcs
  <2>4. TypeOK'
    <3>1. UNCHANGED <<phase, link, via, earlier, pending, due, audit, crashes, answer>>
      BY <1>1 DEF CallAllowed, Evaluated
    <3>2. job' \in [Tasks -> Job \cup {NoJob}]
      BY <1>0, <2>0 DEF TypeOK
    <3>3. pc' \in [Actors -> PCs]
      BY <1>0, <2>2 DEF OnlyMoves, TypeOK
    <3> QED BY <1>0, <2>2, <2>3, <3>1, <3>2, <3>3 DEF TypeOK
  <2>5. JobKnown'
    <3>1. pending' = pending /\ via' = via
      BY <1>1 DEF CallAllowed, Evaluated
    <3>2. \A u \in Tasks : u # t => pc'[u] = pc[u] /\ job'[u] = job[u]
      BY <1>0, <2>0, <2>2 DEF OnlyMoves, TypeOK
    <3>3. job'[t] = j
      BY <1>0, <2>0 DEF TypeOK
    <3> QED BY <1>0, <2>2, <3>1, <3>2, <3>3 DEF JobKnown
  <2> QED BY <2>3, <2>4, <2>5 DEF IInv, LockInv
<1>2. ASSUME Dispatch(t) PROVE IInv'
  <2>0. /\ pc[t] = "marked" /\ job[t].module \in Modules /\ Enter(t, job[t].module)
        /\ UNCHANGED job /\ ModuleOf(t)' = job[t].module /\ OthersStay(t)
    BY <1>0, <1>2 DEF Dispatch, JobKnown, Job, ModuleOf, OthersStay
  <2>1. /\ OnlyMoves(t) /\ pc'[t] \in {"lock", "flight", "refused"}
        /\ lockq[job[t].module] # <<>> => pc'[t] = "lock"
        /\ lockq' = [lockq EXCEPT ![job[t].module] = Append(lockq[job[t].module], t)]
        /\ running' \in [Modules -> SUBSET Actors]
        /\ sent' \in SUBSET Tasks
    BY <1>0, <2>0, EnterType
  <2>2. LockInv' /\ lockq' \in [Modules -> Seq(Actors)]
    BY <1>0, <2>0, <2>1, EnterStep DEF LockPcs
  <2>4. TypeOK'
    <3>1. UNCHANGED <<phase, link, via, job, earlier, pending, due, audit, crashes, answer>>
      BY <1>2 DEF Dispatch
    <3>2. pc' \in [Actors -> PCs]
      BY <1>0, <2>1 DEF OnlyMoves, TypeOK
    <3> QED BY <1>0, <2>1, <2>2, <3>1, <3>2 DEF TypeOK
  <2>5. JobKnown'
    BY <1>0, <1>2, <2>0, <2>1 DEF Dispatch, TypeOK, OnlyMoves, JobKnown, LockPcs
  <2> QED BY <2>2, <2>4, <2>5 DEF IInv, LockInv
<1>3. ASSUME Granted(t) PROVE IInv'
  <2>1. ModuleOf(t) \in Modules /\ pc[t] = "lock" /\ Send(t, ModuleOf(t))
    BY <1>0, <1>3, OnLock DEF Granted, LockPcs
  <2>2. /\ OnlyMoves(t) /\ pc'[t] \in {"flight", "refused"}
        /\ running' \in [Modules -> SUBSET Actors]
        /\ sent' \in SUBSET Tasks
    BY <1>0, <2>1, SendType
  <2>3. lockq[ModuleOf(t)] # <<>> /\ lockq[ModuleOf(t)][1] = t
    BY <1>0, <1>3, <2>1 DEF Granted, TypeOK
  <2>4. LockInv'
    BY <1>0, <1>3, <2>1, <2>2, <2>3, HolderStep DEF Granted, LockPcs
  <2>5. TypeOK'
    <3>1. UNCHANGED <<phase, link, lockq, via, job, earlier, answer, pending, due, audit, crashes>>
      BY <1>3 DEF Granted, moduleVars, taskVars, storeVars
    <3> QED BY <1>0, <2>2, <3>1 DEF TypeOK, OnlyMoves
  <2>6. JobKnown'
    <3>1. pc[t] \in LockPcs /\ UNCHANGED <<job, via, pending>> /\ OnlyMoves(t)
      BY <1>0, <1>3, <2>1, <2>2 DEF Granted, LockPcs, moduleVars, taskVars, storeVars
    <3>2. pc'[t] \in LockPcs /\ \A u \in Tasks \ {t} : pc'[u] = pc[u]
      BY <1>0, <2>2, <3>1 DEF TypeOK, OnlyMoves, LockPcs
    <3> QED BY <1>0, <3>1, <3>2 DEF JobKnown, LockPcs
  <2> QED BY <2>4, <2>5, <2>6 DEF IInv, LockInv
<1>4. ASSUME Timeout(t) \/ NoConnection(t) \/ ErrorReply(t) PROVE IInv'
  <2>1. /\ pc[t] \in {"flight", "refused"} /\ pc' = [pc EXCEPT ![t] = "auditHeld"]
        /\ answer'= [answer EXCEPT ![t] = "timeout"] \/ answer'= [answer EXCEPT ![t] = "error"]
        /\ UNCHANGED <<moduleVars, lockq, taskVars, storeVars, audit, sent, crashes>>
    BY <1>4 DEF Timeout, NoConnection, ErrorReply, Failed
  <2>2. running' \in [Modules -> SUBSET Actors]
    BY <1>0, <1>4 DEF Timeout, NoConnection, ErrorReply, TypeOK
  <2>3. ModuleOf(t) \in Modules /\ lockq[ModuleOf(t)] # <<>> /\ lockq[ModuleOf(t)][1] = t
    BY <1>0, <2>1, OnLock DEF LockInv, HolderAtHead, LockPcs
  <2>4. OnlyMoves(t) /\ pc'[t] = "auditHeld"
    BY <1>0, <2>1 DEF TypeOK, OnlyMoves, PCs, LockPcs
  <2>5. LockInv'
    BY <1>0, <2>1, <2>3, <2>4, HolderStep DEF LockPcs
  <2>6. TypeOK'
    <3>1. answer' \in [Tasks -> Answers]
      BY <1>0, <2>1 DEF TypeOK, Answers
    <3>2. UNCHANGED <<phase, link, lockq, via, job, earlier, pending, due, audit, sent, crashes>>
      BY <2>1 DEF moduleVars, taskVars, storeVars
    <3> QED BY <1>0, <2>2, <2>4, <3>1, <3>2 DEF TypeOK, OnlyMoves
  <2>7. JobKnown'
    BY <1>0, <2>1 DEF TypeOK, JobKnown, LockPcs
  <2> QED BY <2>5, <2>6, <2>7 DEF IInv, LockInv
<1>5. ASSUME NEW o \in {"ok", "tool_error", "bad_result"}, Reply(t, o) PROVE IInv'
  <2>1. OnlyMoves(t) /\ pc[t] = "flight" /\ pc'[t] = "audit"
    BY <1>0, <1>5 DEF Reply, TypeOK, OnlyMoves, PCs
  <2>2. ModuleOf(t) \in Modules /\ Leave(t, ModuleOf(t))
    BY <1>0, <1>5, <2>1, OnLock DEF Reply, LockPcs
  <2>3. LockInv' /\ lockq' \in [Modules -> Seq(Actors)]
    BY <1>0, <1>5, <2>1, <2>2, LeaveStep DEF Reply, LockPcs
  <2>4. running' \in [Modules -> SUBSET Actors]
    BY <1>0, <1>5 DEF Reply, TypeOK
  <2>5. TypeOK'
    BY <1>0, <1>5, <2>1, <2>3, <2>4 DEF Reply, TypeOK, OnlyMoves, Answers
  <2>6. JobKnown'
    BY <1>0, <1>5 DEF Reply, TypeOK, JobKnown, LockPcs
  <2> QED BY <2>3, <2>5, <2>6 DEF IInv, LockInv
<1>6. ASSUME AuditAndReturn(t) PROVE IInv'
  <2>1. OnlyMoves(t) /\ pc[t] \in {"audit", "auditHeld"} /\ pc'[t] = "done" /\ UNCHANGED job
    BY <1>0, <1>6 DEF AuditAndReturn, TypeOK, OnlyMoves, PCs
  <2>2. LockInv' /\ lockq' \in [Modules -> Seq(Actors)]
    <3>1. CASE pc[t] = "audit" /\ UNCHANGED lockq
      BY <1>0, <2>1, <3>1, OutsideStep DEF OthersStay, ModuleOf, LockPcs, TypeOK
    <3>2. CASE pc[t] = "auditHeld" /\ Leave(t, job[t].module)
      <4>1. ModuleOf(t) \in Modules /\ Leave(t, ModuleOf(t))
        BY <1>0, <3>2, OnLock DEF LockPcs
      <4> QED BY <1>0, <2>1, <4>1, LeaveStep DEF LockPcs
    <3> QED BY <1>6, <3>1, <3>2 DEF AuditAndReturn
  <2>3. audit' \in [Tasks -> Seq([job : Job, result : Answers])]
    BY <1>0, <1>6, <2>1, RowTypes DEF AuditAndReturn, JobKnown, LockPcs
  <2>4. TypeOK'
    BY <1>0, <1>6, <2>1, <2>2, <2>3 DEF AuditAndReturn, TypeOK, OnlyMoves
  <2>5. JobKnown'
    BY <1>0, <1>6, <2>1 DEF AuditAndReturn, TypeOK, JobKnown, LockPcs
  <2> QED BY <2>2, <2>4, <2>5 DEF IInv, LockInv
<1>7. ASSUME Cancel(t) PROVE IInv'
  <2>1. /\ OnlyMoves(t) /\ pc[t] \in LockPcs \cup {"create", "audit"} /\ pc'[t] = "done"
        /\ pc[t] \in {"create", "audit"} \/ pc[t] \in LockPcs
        /\ UNCHANGED job
    BY <1>0, <1>7 DEF Cancel, TypeOK, OnlyMoves, PCs, LockPcs
  <2>2. LockInv' /\ lockq' \in [Modules -> Seq(Actors)]
    <3>1. CASE pc[t] \in {"create", "audit"}
      <4>1. UNCHANGED lockq
        BY <1>7, <3>1 DEF Cancel
      <4> QED BY <1>0, <2>1, <3>1, <4>1, OutsideStep DEF OthersStay, ModuleOf, LockPcs, TypeOK
    <3>2. CASE pc[t] \in LockPcs
      <4>1. Leave(t, job[t].module)
        BY <1>7, <3>2 DEF Cancel, LockPcs
      <4>2. ModuleOf(t) \in Modules /\ Leave(t, ModuleOf(t))
        BY <1>0, <3>2, <4>1, OnLock
      <4> QED BY <1>0, <2>1, <4>2, LeaveStep DEF LockPcs
    <3> QED BY <2>1, <3>1, <3>2
  <2>3. /\ UNCHANGED pending \/ (pc[t] = "create" /\ pending' = Asked(t))
        /\ UNCHANGED audit \/ (Audited(t) /\ pc[t] \in {"audit", "auditHeld"})
    BY <1>7 DEF Cancel
  <2>4. audit' \in [Tasks -> Seq([job : Job, result : Answers])]
    <3>1. CASE UNCHANGED audit
      BY <1>0, <3>1 DEF TypeOK
    <3>2. CASE Audited(t) /\ pc[t] \in {"audit", "auditHeld"}
      BY <1>0, <3>2, RowTypes DEF JobKnown, LockPcs
    <3> QED BY <2>3, <3>1, <3>2
  <2>5. /\ pending' \in [Tasks -> [status : Statuses, job : Job \cup {NoJob}]]
        /\ \A q \in Tasks : /\ pending'[q].status # "none" => pending'[q].job \in Job
                            /\ pending[q].status # "none" => pending'[q].status # "none"
    <3>1. CASE UNCHANGED pending
      BY <1>0, <3>1 DEF TypeOK, JobKnown
    <3>2. CASE pc[t] = "create" /\ pending' = Asked(t)
      <4>1. pending' \in [Tasks -> [status : Statuses, job : Job \cup {NoJob}]]
        BY <1>0, <3>2, RowTypes
      <4>2. \A q \in Tasks : /\ pending'[q].status # "none" => pending'[q].job \in Job
                             /\ pending[q].status # "none" => pending'[q].status # "none"
        BY <1>0, <3>2 DEF JobKnown, Asked, TypeOK
      <4> QED BY <4>1, <4>2
    <3> QED BY <2>3, <3>1, <3>2
  <2>6. TypeOK'
    BY <1>0, <1>7, <2>1, <2>2, <2>4, <2>5 DEF Cancel, TypeOK, OnlyMoves, Answers
  <2>7. JobKnown'
    BY <1>0, <1>7, <2>1, <2>5 DEF Cancel, TypeOK, JobKnown, LockPcs
  <2> QED BY <2>2, <2>6, <2>7 DEF IInv, LockInv
<1> QED BY <1>1, <1>2, <1>3, <1>4, <1>5, <1>6, <1>7

\* The probe, the process, the clock and the crash.
LEMMA ModuleActions ==
    ASSUME IInv, NEW m \in Modules,
           \/ ProbeStarts(m) \/ Granted(m) \/ ProbeEnds(m) \/ LateFinish(m) \/ ProcessDies(m)
           \/ ExitNoticed(m) \/ Restart(m) \/ Spawn(m) \/ Handshake(m)
    PROVE  IInv'
<1> USE DEF moduleVars, taskVars, storeVars
<1>0. TypeOK /\ LockInv /\ JobKnown /\ m \in Actors /\ m \notin Tasks /\ ModuleOf(m) = m
  BY DEF IInv, LockInv, ModuleOf
<1>1. ASSUME ProbeStarts(m) PROVE IInv'
  <2>0. /\ pc[m] = "idle" /\ Enter(m, m) /\ UNCHANGED job
        /\ OthersStay(m) /\ ModuleOf(m)' = m
    BY <1>0, <1>1 DEF ProbeStarts, OthersStay, ModuleOf
  <2>1. /\ OnlyMoves(m) /\ pc'[m] \in {"lock", "flight", "refused"}
        /\ lockq[m] # <<>> => pc'[m] = "lock"
        /\ lockq' = [lockq EXCEPT ![m] = Append(lockq[m], m)]
        /\ running' \in [Modules -> SUBSET Actors]
        /\ sent' \in SUBSET Tasks
    BY <1>0, <2>0, EnterType
  <2>2. LockInv' /\ lockq' \in [Modules -> Seq(Actors)]
    BY <1>0, <2>0, <2>1, EnterStep DEF LockPcs
  <2>3. TypeOK'
    <3>1. UNCHANGED <<phase, link, via, job, earlier, pending, due, audit, crashes, answer>>
      BY <1>1 DEF ProbeStarts
    <3>2. pc' \in [Actors -> PCs]
      BY <1>0, <2>1 DEF OnlyMoves, TypeOK
    <3> QED BY <1>0, <2>1, <2>2, <3>1, <3>2 DEF TypeOK
  <2>4. JobKnown'
    BY <1>0, <1>1, <2>1 DEF ProbeStarts, TypeOK, OnlyMoves, JobKnown
  <2> QED BY <2>2, <2>3, <2>4 DEF IInv, LockInv
<1>2. ASSUME Granted(m) PROVE IInv'
  <2>1. pc[m] = "lock" /\ Send(m, m) /\ lockq[m] # <<>> /\ lockq[m][1] = m
    BY <1>0, <1>2 DEF Granted, TypeOK
  <2>2. /\ OnlyMoves(m) /\ pc'[m] \in {"flight", "refused"}
        /\ running' \in [Modules -> SUBSET Actors]
        /\ sent' \in SUBSET Tasks
    BY <1>0, <2>1, SendType
  <2>3. LockInv'
    BY <1>0, <1>2, <2>1, <2>2, HolderStep DEF Granted, LockPcs
  <2>4. TypeOK'
    <3>1. UNCHANGED <<phase, link, lockq, via, job, earlier, answer, pending, due, audit, crashes>>
      BY <1>2 DEF Granted
    <3>2. pc' \in [Actors -> PCs]
      BY <1>0, <2>2 DEF OnlyMoves, TypeOK
    <3> QED BY <1>0, <2>2, <3>1, <3>2 DEF TypeOK
  <2>5. JobKnown'
    BY <1>0, <1>2, <2>1, <2>2 DEF Granted, TypeOK, OnlyMoves, JobKnown, LockPcs
  <2> QED BY <2>3, <2>4, <2>5 DEF IInv, LockInv
<1>3. ASSUME ProbeEnds(m) PROVE IInv'
  <2>1. OnlyMoves(m) /\ pc'[m] = "idle" /\ Leave(m, m) /\ UNCHANGED job
    BY <1>0, <1>3 DEF ProbeEnds, TypeOK, OnlyMoves, PCs
  <2>2. LockInv' /\ lockq' \in [Modules -> Seq(Actors)]
    BY <1>0, <2>1, LeaveStep DEF LockPcs
  <2>3. phase' \in [Modules -> Phases] /\ running' \in [Modules -> SUBSET Actors]
    <3>1. phase \in [Modules -> Phases] /\ running \in [Modules -> SUBSET Actors]
      BY <1>0 DEF TypeOK
    <3>2. phase' \in [Modules -> Phases]
      BY <1>3, <3>1 DEF ProbeEnds, Phases
    <3>3. running' = running \/ running' = [running EXCEPT ![m] = running[m] \ {m}]
      BY <1>3 DEF ProbeEnds
    <3>4. running[m] \ {m} \in SUBSET Actors
      BY <3>1
    <3> QED BY <3>1, <3>2, <3>3, <3>4
  <2>4. TypeOK'
    BY <1>0, <1>3, <2>1, <2>2, <2>3 DEF ProbeEnds, TypeOK, OnlyMoves
  <2>5. JobKnown'
    BY <1>0, <1>3 DEF ProbeEnds, TypeOK, JobKnown, LockPcs
  <2> QED BY <2>2, <2>4, <2>5 DEF IInv, LockInv
<1>4. ASSUME ExitNoticed(m) PROVE IInv'
  <2>1. OnlyMoves(m) /\ pc'[m] = "idle" /\ UNCHANGED job
    BY <1>0, <1>4 DEF ExitNoticed, TypeOK, OnlyMoves, PCs
  <2>2. LockInv' /\ lockq' \in [Modules -> Seq(Actors)]
    <3>1. CASE pc[m] = "idle"
      <4>1. UNCHANGED lockq
        BY <1>4, <3>1 DEF ExitNoticed
      <4> QED BY <1>0, <2>1, <3>1, <4>1, OutsideStep DEF OthersStay, ModuleOf, LockPcs, TypeOK
    <3>2. CASE pc[m] # "idle"
      BY <1>0, <1>4, <2>1, <3>2, LeaveStep DEF ExitNoticed, LockPcs
    <3> QED BY <3>1, <3>2
  <2>3. TypeOK'
    BY <1>0, <1>4, <2>1, <2>2 DEF ExitNoticed, TypeOK, OnlyMoves, Links
  <2>4. JobKnown'
    BY <1>0, <1>4 DEF ExitNoticed, TypeOK, JobKnown, LockPcs
  <2> QED BY <2>2, <2>3, <2>4 DEF IInv, LockInv
<1>5. ASSUME LateFinish(m) \/ ProcessDies(m) \/ Restart(m) \/ Spawn(m) \/ Handshake(m) PROVE IInv'
  <2>1. UNCHANGED <<lockq, pc, via, job, earlier, pending, due, answer, audit, sent, crashes>>
    BY <1>5 DEF LateFinish, ProcessDies, Restart, Spawn, Handshake
  <2>2. running' \in [Modules -> SUBSET Actors]
    <3>1. running \in [Modules -> SUBSET Actors]
      BY <1>0 DEF TypeOK
    <3>2. CASE LateFinish(m)
      BY <3>1, <3>2 DEF LateFinish
    <3>3. CASE ProcessDies(m)
      BY <3>1, <3>3 DEF ProcessDies
    <3>4. CASE UNCHANGED running
      BY <3>1, <3>4
    <3> QED BY <1>5, <3>2, <3>3, <3>4 DEF Restart, Spawn, Handshake
  <2>3. phase' \in [Modules -> Phases] /\ link' \in [Modules -> Links]
    BY <1>0, <1>5 DEF LateFinish, ProcessDies, Restart, Spawn, Handshake, TypeOK, Phases, Links
  <2>4. TypeOK'
    BY <1>0, <2>1, <2>2, <2>3 DEF TypeOK
  <2>5. JobKnown'
    BY <1>0, <2>1 DEF JobKnown
  <2>6. LockInv'
    BY <1>0, <2>1 DEF LockInv, LockOwned, HolderAtHead, ModuleOf
  <2> QED BY <2>4, <2>5, <2>6 DEF IInv, LockInv
<1> QED BY <1>1, <1>2, <1>3, <1>4, <1>5

LEMMA ExpireStep == ASSUME IInv, NEW q \in Tasks, Expire(q) PROVE IInv'
<1> USE DEF moduleVars, taskVars, storeVars
<1>1. TypeOK'
  BY DEF Expire, IInv, TypeOK
<1>2. JobKnown'
  BY DEF Expire, IInv, JobKnown
<1>3. LockOwned' /\ HolderAtHead'
  BY DEF Expire, IInv, LockOwned, HolderAtHead, ModuleOf
<1> QED BY <1>1, <1>2, <1>3 DEF IInv

LEMMA CrashStep == ASSUME IInv, Crash PROVE IInv'
<1> USE DEF moduleVars, taskVars, storeVars
<1>1. TypeOK'
  <2>1. pc' \in [Actors -> PCs] /\ answer' \in [Tasks -> Answers] /\ crashes' \in 0 .. MaxCrashes
    BY DEF Crash, IInv, TypeOK, PCs, Answers
  <2>2. /\ phase' \in [Modules -> Phases] /\ link' \in [Modules -> Links]
        /\ lockq' \in [Modules -> Seq(Actors)] /\ running' \in [Modules -> SUBSET Actors]
    BY DEF Crash, Phases, Links
  <2> QED BY <2>1, <2>2 DEF Crash, IInv, TypeOK
<1>2. JobKnown'
  BY DEF Crash, IInv, TypeOK, JobKnown, LockPcs
<1>3. LockOwned'
  BY DEF Crash, LockOwned
<1>4. HolderAtHead'
  BY DEF Crash, IInv, TypeOK, HolderAtHead, LockPcs
<1> QED BY <1>1, <1>2, <1>3, <1>4 DEF IInv

LEMMA InitInv == Init => IInv
<1> SUFFICES ASSUME Init PROVE IInv
  OBVIOUS
<1>1. TypeOK
  BY DEF Init, TypeOK, Phases, Links, PCs, Answers, Statuses
<1>2. JobKnown
  BY DEF Init, JobKnown, LockPcs
<1>3. LockOwned /\ HolderAtHead
  BY DEF Init, LockOwned, HolderAtHead, LockPcs
<1> QED BY <1>1, <1>2, <1>3 DEF IInv

LEMMA StutterStep == ASSUME IInv, UNCHANGED vars PROVE IInv'
<1> USE DEF vars
<1>1. TypeOK' /\ JobKnown'
  BY DEF IInv, TypeOK, JobKnown
<1>2. LockOwned' /\ HolderAtHead'
  BY DEF IInv, LockOwned, HolderAtHead, ModuleOf
<1> QED BY <1>1, <1>2 DEF IInv

LEMMA NextInv == IInv /\ [Next]_vars => IInv'
<1> SUFFICES ASSUME IInv, [Next]_vars PROVE IInv'
  OBVIOUS
<1>1. ASSUME NEW t \in Tasks, Asking(t) PROVE IInv'
  <2>1. CASE CallRejected(t) \/ \E q \in Tasks : Confirm(t, q)
    BY <2>1, OutsideActions
  <2>2. ASSUME NEW p \in Principals, NEW m \in Modules, NEW o \in Ops,
               NEW j, j = [principal |-> p, module |-> m, op |-> o],
               CallDenied(t, j) \/ CallAsks(t, j) \/ CallAllowed(t, j)
        PROVE  IInv'
    <3>1. j \in Job
      BY <2>2 DEF Job
    <3> QED BY <2>2, <3>1, OutsideActions, LockActions
  <2> QED BY <1>1, <2>1, <2>2 DEF Asking
<1>2. ASSUME NEW t \in Tasks, TaskStep(t) PROVE IInv'
  BY <1>2, OutsideActions, LockActions DEF TaskStep
<1>3. ASSUME NEW t \in Tasks, ModuleAnswers(t) \/ StoreRaises(t) \/ Cancel(t) PROVE IInv'
  BY <1>3, OutsideActions, LockActions DEF ModuleAnswers
<1>4. ASSUME NEW m \in Modules, Supervised(m) PROVE IInv'
  BY <1>4, ModuleActions DEF Supervised, ProbeStep
<1>5. ASSUME NEW q \in Tasks, Expire(q) PROVE IInv'
  BY <1>5, ExpireStep
<1>6. CASE Crash
  BY <1>6, CrashStep
<1>7. CASE UNCHANGED vars
  BY <1>7, StutterStep
<1> QED BY <1>1, <1>2, <1>3, <1>4, <1>5, <1>6, <1>7 DEF Next

\* Whatever is cancelled, restarted, failed or crashed, every module's lock is
\* held and awaited only by actors that will leave it, and who is past the wait
\* is at the head: the strengthening of OneInFlight, for every set of modules,
\* tasks, tools and every policy.
THEOREM LockDiscipline == Spec => []IInv
<1> QED BY InitInv, NextInv, PTL DEF Spec

\* TypeOK for every instance.
THEOREM TypeCorrect == Spec => []TypeOK
<1>1. IInv => TypeOK
  BY DEF IInv
<1> QED BY <1>1, LockDiscipline, PTL

\* "one in-flight call per module" (moduleapi.py:10): of the tool calls and the
\* probe of a module at most one is between its request and its answer.
THEOREM MutualExclusion == Spec => []OneInFlight
<1>1. IInv => OneInFlight
  BY DEF IInv, OneInFlight, HolderAtHead, LockPcs
<1> QED BY <1>1, LockDiscipline, PTL
=============================================================================
