-------------------------- MODULE SupervisorProofs --------------------------
(* Proofs about Supervisor.tla.  Backed is the inductive strengthening of   *)
(* what Module.state promises, Halts of what stop() promises.               *)
EXTENDS Supervisor, TLAPS

USE SupervisorAssumption

Waiting == {"begin", "spawn", "backoff"}     \* no process, and none before it left
Serving == {"watch", "joinHealth", "closing"} \* after a handshake

\* What _supervise knows of its process at each await, and what Module.state,
\* the health task and the restart counter are there.
Backed(m) ==
    /\ sup[m] \in Waiting \cup {"none", "joinHealth", "closing"} => proc[m] \notin Alive
    /\ sup[m] = "none" => state[m] = "unconfigured"
    /\ sup[m] = "begin" => state[m] = "stopped"
    /\ sup[m] \in {"spawn", "backoff", "handshake", "killing"} => state[m] = "starting"
    /\ sup[m] \in Serving => state[m] \in {"ready", "degraded"} /\ readySince[m] # "none"
    /\ sup[m] = "done" /\ ~stopping => state[m] = "failed"
    /\ state[m] = "failed" => sup[m] = "done" /\ proc[m] \notin Alive
    /\ health[m] \in {"sleep", "probe"} =>
          sup[m] = "watch" \/ (sup[m] = "done" /\ stopping /\ state[m] # "failed")
    /\ health[m] = "cancelled" =>
          sup[m] = "joinHealth" \/ (sup[m] \in {"closing", "done"} /\ stopping)

\* Every process asked for but the one under way has been counted as a failure.
Counted(m) ==
    /\ sup[m] # "done" => restarts[m] <= MaxRetries
    /\ attempts[m] <= (IF sup[m] \in {"none", "begin", "backoff"} THEN restarts[m]
                       ELSE IF sup[m] = "done" THEN MaxRetries + 1 ELSE restarts[m] + 1)

\* How far stop() is, and what it may rely on there.
Stopped(m) ==
    /\ m \in cancelled => stopAt[m] = "cancelled"
    /\ stopAt[m] # "none" => stopping

BackedInv == TypeOK /\ \A m \in Modules : Backed(m) /\ Counted(m) /\ Stopped(m)

\* Past the kill there is no process, and nobody left to start one.
Halts(m) ==
    /\ client[m] = "open" => proc[m] \in Alive \cup {"exited"}
    /\ sup[m] = "spawn" => client[m] # "open"
    /\ stopAt[m] = "killing" => sup[m] # "spawn"
    /\ stopAt[m] \in {"closing", "cancelled"} =>
          proc[m] \notin Alive /\ (sup[m] = "spawn" => m \in cancelled)
    /\ stopDone => sup[m] = "none" \/ (sup[m] = "done" /\ stopAt[m] = "cancelled")

HaltInv == \A m \in Modules : Halts(m)

----------------------------------------------------------------------------
(* The invariant is inductive *)

Good(m) == Backed(m) /\ Counted(m) /\ Stopped(m)

\* Only module m is touched, and stop() does not go back.
Same(m) ==
    /\ \A n \in Modules \ {m} :
          /\ state'[n] = state[n] /\ proc'[n] = proc[n] /\ client'[n] = client[n]
          /\ sup'[n] = sup[n] /\ health'[n] = health[n] /\ (n \in cancelled' <=> n \in cancelled)
          /\ restarts'[n] = restarts[n] /\ readySince'[n] = readySince[n]
          /\ attempts'[n] = attempts[n] /\ stopAt'[n] = stopAt[n]
    /\ stopping' = stopping /\ stopDone' = stopDone

LEMMA OnlyOne ==
    ASSUME BackedInv, TypeOK', NEW m \in Modules, Same(m), Good(m)'
    PROVE  BackedInv'
<1>1. ASSUME NEW n \in Modules \ {m} PROVE Good(n)'
  BY DEF BackedInv, Same, Good, Backed, Counted, Stopped
<1> QED BY <1>1 DEF BackedInv, Good

LEMMA FailureType ==
    ASSUME TypeOK, NEW m \in Modules, restarts[m] <= MaxRetries, Failure(m)
    PROVE  /\ restarts' \in [Modules -> 0 .. MaxRetries + 1]
           /\ readySince' \in [Modules -> {"none", "young", "old"}]
           /\ attempts' \in [Modules -> Nat]
           /\ state' = [state EXCEPT ![m] = state'[m]] /\ sup' = [sup EXCEPT ![m] = sup'[m]]
           /\ restarts' = [restarts EXCEPT ![m] = restarts'[m]]
           /\ readySince' = [readySince EXCEPT ![m] = "none"]
           /\ attempts' = [attempts EXCEPT ![m] = attempts'[m]]
           /\ readySince'[m] = "none"
           /\ \/ state'[m] = "failed" /\ sup'[m] = "done"
              \/ state'[m] = "starting" /\ sup'[m] = "backoff" /\ restarts'[m] <= MaxRetries
           /\ attempts[m] <= restarts[m] + 1 => attempts'[m] <= restarts'[m]
<1> DEFINE reset == readySince[m] = "old"
           count == (IF reset THEN 0 ELSE restarts[m]) + 1
<1>1. restarts[m] \in 0 .. MaxRetries + 1 /\ attempts[m] \in Nat /\ MaxRetries \in Nat
  BY DEF TypeOK
<1>2. count \in 1 .. MaxRetries + 1
  BY <1>1
<1>3. /\ restarts' = [restarts EXCEPT ![m] = count] /\ readySince' = [readySince EXCEPT ![m] = "none"]
      /\ attempts' = IF reset THEN [attempts EXCEPT ![m] = 0] ELSE attempts
      /\ \/ count > MaxRetries /\ state' = [state EXCEPT ![m] = "failed"] /\ sup' = [sup EXCEPT ![m] = "done"]
         \/ ~(count > MaxRetries) /\ state' = [state EXCEPT ![m] = "starting"]
            /\ sup' = [sup EXCEPT ![m] = "backoff"]
  BY DEF Failure, Set
<1>4. count = IF reset THEN 1 ELSE restarts[m] + 1
  BY <1>1
<1> HIDE DEF count
<1>5. /\ restarts'[m] = count /\ readySince'[m] = "none"
      /\ attempts'[m] = IF reset THEN 0 ELSE attempts[m]
  BY <1>3 DEF TypeOK
<1>6. \/ count > MaxRetries /\ state'[m] = "failed" /\ sup'[m] = "done"
      \/ ~(count > MaxRetries) /\ state'[m] = "starting" /\ sup'[m] = "backoff"
  BY <1>3 DEF TypeOK
<1>7. /\ restarts' \in [Modules -> 0 .. MaxRetries + 1] /\ attempts' \in [Modules -> Nat]
      /\ readySince' \in [Modules -> {"none", "young", "old"}]
  BY <1>2, <1>3 DEF TypeOK
<1>8. /\ state' = [state EXCEPT ![m] = state'[m]] /\ sup' = [sup EXCEPT ![m] = sup'[m]]
      /\ attempts' = [attempts EXCEPT ![m] = attempts'[m]]
  BY <1>3, <1>5, <1>6 DEF TypeOK
<1> QED BY <1>1, <1>2, <1>3, <1>4, <1>5, <1>6, <1>7, <1>8

LEMMA SuperviseInv ==
    ASSUME BackedInv, NEW m \in Modules, SuperviseStep(m) \/ HandshakeOk(m)
    PROVE  BackedInv'
<1> USE DEF Set, stopVars, Resumes, Alive, States, Waiting, Serving
<1>1. CASE LoopTop(m)
  <2>1. TypeOK'
    BY <1>1 DEF LoopTop, BackedInv, TypeOK
  <2>2. Same(m)
    BY <1>1 DEF LoopTop, BackedInv, TypeOK, Same
  <2>3. Good(m)'
    BY <1>1 DEF LoopTop, BackedInv, TypeOK, Good, Backed, Counted, Stopped
  <2> QED BY <2>1, <2>2, <2>3, OnlyOne
<1>2. CASE SpawnFails(m)
  <2>1. TypeOK'
    BY <1>2, FailureType DEF SpawnFails, BackedInv, TypeOK, Counted
  <2>2. Same(m)
    BY <1>2, FailureType DEF SpawnFails, BackedInv, TypeOK, Counted, Same
  <2>3. Good(m)'
    BY <1>2, FailureType DEF SpawnFails, BackedInv, TypeOK, Good, Backed, Counted, Stopped
  <2> QED BY <2>1, <2>2, <2>3, OnlyOne
<1>3. CASE Spawned(m)
  <2>1. TypeOK'
    BY <1>3 DEF Spawned, BackedInv, TypeOK
  <2>2. Same(m)
    BY <1>3 DEF Spawned, BackedInv, TypeOK, Same
  <2>3. Good(m)'
    BY <1>3 DEF Spawned, BackedInv, TypeOK, Good, Backed, Counted, Stopped
  <2> QED BY <2>1, <2>2, <2>3, OnlyOne
<1>4. CASE HandshakeOk(m)
  <2>1. TypeOK'
    BY <1>4 DEF HandshakeOk, BackedInv, TypeOK
  <2>2. Same(m)
    BY <1>4 DEF HandshakeOk, BackedInv, TypeOK, Same
  <2>3. Good(m)'
    BY <1>4 DEF HandshakeOk, BackedInv, TypeOK, Good, Backed, Counted, Stopped
  <2> QED BY <2>1, <2>2, <2>3, OnlyOne
<1>5. CASE HandshakeFails(m)
  <2>1. TypeOK'
    BY <1>5, FailureType DEF HandshakeFails, BackedInv, TypeOK, Counted
  <2>2. Same(m)
    BY <1>5, FailureType DEF HandshakeFails, BackedInv, TypeOK, Counted, Same
  <2>3. Good(m)'
    BY <1>5, FailureType DEF HandshakeFails, BackedInv, TypeOK, Good, Backed, Counted, Stopped
  <2> QED BY <2>1, <2>2, <2>3, OnlyOne
<1>6. CASE Killed(m)
  <2>1. TypeOK'
    BY <1>6, FailureType DEF Killed, BackedInv, TypeOK, Counted
  <2>2. Same(m)
    BY <1>6, FailureType DEF Killed, BackedInv, TypeOK, Counted, Same
  <2>3. Good(m)'
    BY <1>6, FailureType DEF Killed, BackedInv, TypeOK, Good, Backed, Counted, Stopped
  <2> QED BY <2>1, <2>2, <2>3, OnlyOne
<1>7. CASE ExitNoticed(m)
  <2>1. TypeOK'
    BY <1>7 DEF ExitNoticed, BackedInv, TypeOK
  <2>2. Same(m)
    BY <1>7 DEF ExitNoticed, BackedInv, TypeOK, Same
  <2>3. Good(m)'
    BY <1>7 DEF ExitNoticed, BackedInv, TypeOK, Good, Backed, Counted, Stopped
  <2> QED BY <2>1, <2>2, <2>3, OnlyOne
<1>8. CASE HealthJoined(m)
  <2>1. TypeOK'
    BY <1>8 DEF HealthJoined, BackedInv, TypeOK
  <2>2. Same(m)
    BY <1>8 DEF HealthJoined, BackedInv, TypeOK, Same
  <2>3. Good(m)'
    BY <1>8 DEF HealthJoined, BackedInv, TypeOK, Good, Backed, Counted, Stopped
  <2> QED BY <2>1, <2>2, <2>3, OnlyOne
<1>9. CASE Closed(m)
  <2>1. TypeOK'
    BY <1>9, FailureType DEF Closed, BackedInv, TypeOK, Counted
  <2>2. Same(m)
    BY <1>9, FailureType DEF Closed, BackedInv, TypeOK, Counted, Same
  <2>3. Good(m)'
    BY <1>9, FailureType DEF Closed, BackedInv, TypeOK, Good, Backed, Counted, Stopped
  <2> QED BY <2>1, <2>2, <2>3, OnlyOne
<1>10. CASE CancelMet(m)
  <2>1. TypeOK'
    BY <1>10 DEF CancelMet, BackedInv, TypeOK
  <2>2. Same(m)
    BY <1>10 DEF CancelMet, BackedInv, TypeOK, Same
  <2>3. Good(m)'
    BY <1>10 DEF CancelMet, BackedInv, TypeOK, Good, Backed, Counted, Stopped
  <2> QED BY <2>1, <2>2, <2>3, OnlyOne
<1> QED BY <1>1, <1>2, <1>3, <1>4, <1>5, <1>6, <1>7, <1>8, <1>9, <1>10 DEF SuperviseStep

LEMMA HealthInv == ASSUME BackedInv, NEW m \in Modules, HealthStep(m) PROVE BackedInv'
<1> USE DEF Set, stopVars, Alive, States, Waiting, Serving
<1>1. CASE ProbeSent(m)
  <2>1. TypeOK'
    BY <1>1 DEF ProbeSent, BackedInv, TypeOK
  <2>2. Same(m)
    BY <1>1 DEF ProbeSent, BackedInv, TypeOK, Same
  <2>3. Good(m)'
    BY <1>1 DEF ProbeSent, BackedInv, TypeOK, Good, Backed, Counted, Stopped
  <2> QED BY <2>1, <2>2, <2>3, OnlyOne
<1>2. ASSUME NEW s \in {"ready", "degraded"}, ProbeAnswered(m, s) PROVE BackedInv'
  <2>1. TypeOK'
    BY <1>2 DEF ProbeAnswered, BackedInv, TypeOK
  <2>2. Same(m)
    BY <1>2 DEF ProbeAnswered, BackedInv, TypeOK, Same
  <2>3. Good(m)'
    BY <1>2 DEF ProbeAnswered, BackedInv, TypeOK, Good, Backed, Counted, Stopped
  <2> QED BY <2>1, <2>2, <2>3, OnlyOne
<1>3. CASE HealthEnds(m)
  <2>1. TypeOK'
    BY <1>3 DEF HealthEnds, BackedInv, TypeOK
  <2>2. Same(m)
    BY <1>3 DEF HealthEnds, BackedInv, TypeOK, Same
  <2>3. Good(m)'
    BY <1>3 DEF HealthEnds, BackedInv, TypeOK, Good, Backed, Counted, Stopped
  <2> QED BY <2>1, <2>2, <2>3, OnlyOne
<1> QED BY <1>1, <1>2, <1>3 DEF HealthStep

LEMMA StopInv == ASSUME BackedInv, NEW m \in Modules, StopStep(m) PROVE BackedInv'
<1> USE DEF Set, modVars, Alive, States, Waiting, Serving, StopCloses
<1>1. CASE StopTurns(m)
  <2>1. TypeOK'
    BY <1>1 DEF StopTurns, BackedInv, TypeOK
  <2>2. Same(m)
    BY <1>1 DEF StopTurns, BackedInv, TypeOK, Same
  <2>3. Good(m)'
    BY <1>1 DEF StopTurns, BackedInv, TypeOK, Good, Backed, Counted, Stopped
  <2> QED BY <2>1, <2>2, <2>3, OnlyOne
<1>2. CASE StopKilled(m)
  <2>1. TypeOK'
    BY <1>2 DEF StopKilled, BackedInv, TypeOK
  <2>2. Same(m)
    BY <1>2 DEF StopKilled, BackedInv, TypeOK, Same
  <2>3. Good(m)'
    BY <1>2 DEF StopKilled, BackedInv, TypeOK, Good, Backed, Counted, Stopped
  <2> QED BY <2>1, <2>2, <2>3, OnlyOne
<1>3. CASE StopClosed(m)
  <2>1. TypeOK'
    BY <1>3 DEF StopClosed, BackedInv, TypeOK
  <2>2. Same(m)
    BY <1>3 DEF StopClosed, BackedInv, TypeOK, Same
  <2>3. Good(m)'
    BY <1>3 DEF StopClosed, BackedInv, TypeOK, Good, Backed, Counted, Stopped
  <2> QED BY <2>1, <2>2, <2>3, OnlyOne
<1> QED BY <1>1, <1>2, <1>3 DEF StopStep

LEMMA ProcessInv ==
    ASSUME BackedInv, NEW m \in Modules,
           Escalate(m) \/ Exits(m) \/ Reaped(m) \/ ConnectionEnds(m) \/ Ages(m)
    PROVE  BackedInv'
<1> USE DEF Set, stopVars, Alive, States, Waiting, Serving
<1>1. CASE Escalate(m)
  <2>1. TypeOK'
    BY <1>1 DEF Escalate, Resumes, BackedInv, TypeOK
  <2>2. Same(m)
    BY <1>1 DEF Escalate, Resumes, BackedInv, TypeOK, Same
  <2>3. Good(m)'
    BY <1>1 DEF Escalate, Resumes, BackedInv, TypeOK, Good, Backed, Counted, Stopped
  <2> QED BY <2>1, <2>2, <2>3, OnlyOne
<1>2. CASE Exits(m)
  <2>1. TypeOK'
    BY <1>2 DEF Exits, BackedInv, TypeOK
  <2>2. Same(m)
    BY <1>2 DEF Exits, BackedInv, TypeOK, Same
  <2>3. Good(m)'
    BY <1>2 DEF Exits, BackedInv, TypeOK, Good, Backed, Counted, Stopped
  <2> QED BY <2>1, <2>2, <2>3, OnlyOne
<1>3. CASE Reaped(m)
  <2>1. TypeOK'
    BY <1>3 DEF Reaped, BackedInv, TypeOK
  <2>2. Same(m)
    BY <1>3 DEF Reaped, BackedInv, TypeOK, Same
  <2>3. Good(m)'
    BY <1>3 DEF Reaped, BackedInv, TypeOK, Good, Backed, Counted, Stopped
  <2> QED BY <2>1, <2>2, <2>3, OnlyOne
<1>4. CASE ConnectionEnds(m)
  <2>1. TypeOK'
    BY <1>4 DEF ConnectionEnds, BackedInv, TypeOK
  <2>2. Same(m)
    BY <1>4 DEF ConnectionEnds, BackedInv, TypeOK, Same
  <2>3. Good(m)'
    BY <1>4 DEF ConnectionEnds, BackedInv, TypeOK, Good, Backed, Counted, Stopped
  <2> QED BY <2>1, <2>2, <2>3, OnlyOne
<1>5. CASE Ages(m)
  <2>1. TypeOK'
    BY <1>5 DEF Ages, BackedInv, TypeOK
  <2>2. Same(m)
    BY <1>5 DEF Ages, BackedInv, TypeOK, Same
  <2>3. Good(m)'
    BY <1>5 DEF Ages, BackedInv, TypeOK, Good, Backed, Counted, Stopped
  <2> QED BY <2>1, <2>2, <2>3, OnlyOne
<1> QED BY <1>1, <1>2, <1>3, <1>4, <1>5

\* The shutdown begins and ends for all modules at once.
LEMMA ShutdownInv == ASSUME BackedInv, StopBegins \/ StopEnds PROVE BackedInv'
<1> USE DEF modVars, Alive, States, Waiting, Serving
<1>1. TypeOK'
  <2>1. CASE StopBegins
    <3>1. stopAt' \in [Modules -> {"none", "todo", "killing", "closing", "cancelled"}]
      BY <2>1 DEF StopBegins
    <3>2. UNCHANGED <<state, proc, client, sup, health, restarts, readySince, attempts, cancelled, stopDone>>
          /\ stopping' \in BOOLEAN
      BY <2>1 DEF StopBegins
    <3> QED BY <3>1, <3>2 DEF BackedInv, TypeOK
  <2>2. CASE StopEnds
    <3>1. state' \in [Modules -> States]
      <4>1. ASSUME NEW m \in Modules
            PROVE  (IF state[m] \in {"unconfigured", "failed"} THEN state[m] ELSE "stopped") \in States
        BY DEF BackedInv, TypeOK
      <4> QED BY <2>2, <4>1 DEF StopEnds
    <3>2. UNCHANGED <<proc, client, sup, health, cancelled, restarts, readySince, attempts, stopping, stopAt>>
          /\ stopDone' \in BOOLEAN
      BY <2>2 DEF StopEnds
    <3> QED BY <3>1, <3>2 DEF BackedInv, TypeOK
  <2> QED BY <2>1, <2>2
<1>2. ASSUME NEW m \in Modules PROVE Good(m)'
  <2>1. CASE StopBegins
    BY <2>1 DEF StopBegins, BackedInv, TypeOK, Good, Backed, Counted, Stopped
  <2>2. CASE StopEnds
    BY <2>2 DEF StopEnds, Ended, BackedInv, TypeOK, Good, Backed, Counted, Stopped
  <2> QED BY <2>1, <2>2
<1> QED BY <1>1, <1>2 DEF BackedInv, Good

LEMMA InitBacked == Init => BackedInv
<1> SUFFICES ASSUME Init PROVE BackedInv
  OBVIOUS
<1>1. ASSUME NEW m \in Modules
      PROVE  /\ \/ state[m] = "unconfigured" /\ sup[m] = "none"
                \/ state[m] = "stopped" /\ sup[m] = "begin"
             /\ proc[m] = "none" /\ client[m] = "none" /\ health[m] = "none" /\ m \notin cancelled
             /\ restarts[m] = 0 /\ attempts[m] = 0 /\ readySince[m] = "none" /\ stopAt[m] = "none"
  BY DEF Init
<1>2. \A m \in Modules : Good(m)
  BY <1>1 DEF Good, Backed, Counted, Stopped, Alive, Waiting, Serving
<1>3. TypeOK
  <2>1. state \in [Modules -> States]
    BY DEF Init, States
  <2>2. sup \in [Modules -> {"none", "begin", "spawn", "handshake", "killing", "backoff",
                             "watch", "joinHealth", "closing", "done"}]
    BY DEF Init
  <2>3. proc \in [Modules -> Alive \cup {"none", "exited", "reaped"}]
    BY DEF Init
  <2>4. client \in [Modules -> {"none", "open", "lost", "closed"}]
        /\ health \in [Modules -> {"none", "sleep", "probe", "cancelled"}]
    BY DEF Init
  <2>5. restarts \in [Modules -> 0 .. MaxRetries + 1] /\ attempts \in [Modules -> Nat]
    <3>1. 0 \in 0 .. MaxRetries + 1
      OBVIOUS
    <3> QED BY <3>1 DEF Init
  <2>6. readySince \in [Modules -> {"none", "young", "old"}]
        /\ stopAt \in [Modules -> {"none", "todo", "killing", "closing", "cancelled"}]
    BY DEF Init
  <2>7. cancelled \in SUBSET Modules /\ stopping \in BOOLEAN /\ stopDone \in BOOLEAN
    BY DEF Init
  <2> QED BY <2>1, <2>2, <2>3, <2>4, <2>5, <2>6, <2>7 DEF TypeOK
<1> QED BY <1>2, <1>3 DEF BackedInv, Good

LEMMA NextBacked == BackedInv /\ [Next]_vars => BackedInv'
<1> SUFFICES ASSUME BackedInv, [Next]_vars PROVE BackedInv'
  OBVIOUS
<1>1. CASE UNCHANGED vars
  BY <1>1 DEF vars, BackedInv, TypeOK, Backed, Counted, Stopped
<1>2. CASE StopBegins \/ StopEnds
  BY <1>2, ShutdownInv
<1> QED BY <1>1, <1>2, SuperviseInv, HealthInv, StopInv, ProcessInv DEF Next

\* What a module's supervise task, health task and counters agree on.
THEOREM StatesBacked == Spec => []BackedInv
  BY InitBacked, NextBacked, PTL DEF Spec

\* Every variable of the supervisor has its type.
THEOREM TypeCorrect == Spec => []TypeOK
<1>1. BackedInv => TypeOK
  BY DEF BackedInv
<1> QED BY <1>1, StatesBacked, PTL

\* Module.state is backed by the supervise task (supervisor.py:147-246).
THEOREM StateHasTask == Spec => []StateIsBacked
<1>1. ASSUME BackedInv, NEW m \in Modules
      PROVE  /\ state[m] \in {"ready", "degraded"} /\ ~stopping
                   => sup[m] \in {"watch", "joinHealth", "closing"} /\ readySince[m] # "none"
             /\ state[m] = "failed" => sup[m] = "done" /\ proc[m] \notin Alive
             /\ sup[m] = "done" /\ ~stopping => state[m] = "failed"
  BY <1>1 DEF BackedInv, TypeOK, Backed, Serving, Waiting
<1>2. BackedInv => StateIsBacked
  BY <1>1 DEF StateIsBacked
<1> QED BY <1>2, StatesBacked, PTL

\* One generation of a module at a time (supervisor.py:147-181, 219).
THEOREM NoOverlap == Spec => []OneGeneration
<1>1. BackedInv => OneGeneration
  BY DEF BackedInv, Backed, OneGeneration, TypeOK, Waiting
<1> QED BY <1>1, StatesBacked, PTL

\* restart.max_retries holds (supervisor.py:183-196).
THEOREM RestartsBounded == Spec => []RetriesBounded
<1>1. BackedInv => RetriesBounded
  BY DEF BackedInv, Counted, RetriesBounded, TypeOK
<1> QED BY <1>1, StatesBacked, PTL
----------------------------------------------------------------------------
(* stop() leaves no process behind.  The pipes of a process must close      *)
(* within a backoff of its exit: otherwise stop() may be awaiting the close *)
(* of the old connection while _supervise, which dropped that connection,   *)
(* starts a process that stop() never looks at again.                       *)

LEMMA OnlyOneHalts ==
    ASSUME HaltInv, NEW m \in Modules, Same(m), Halts(m)' PROVE HaltInv'
<1>1. ASSUME NEW n \in Modules \ {m} PROVE Halts(n)'
  BY DEF HaltInv, Same, Halts
<1> QED BY <1>1 DEF HaltInv

LEMMA SuperviseHalts ==
    ASSUME ~PipesHeld, BackedInv, HaltInv, NEW m \in Modules, SuperviseStep(m) \/ HandshakeOk(m)
    PROVE  HaltInv'
<1> USE DEF Set, stopVars, Resumes, Alive, Waiting, Serving
<1>1. CASE LoopTop(m)
  <2>1. Same(m)
    BY <1>1 DEF LoopTop, BackedInv, TypeOK, Same
  <2>2. Halts(m)'
    BY <1>1 DEF LoopTop, BackedInv, TypeOK, Backed, Counted, Stopped, HaltInv, Halts
  <2> QED BY <2>1, <2>2, OnlyOneHalts
<1>2. CASE SpawnFails(m)
  <2>1. Same(m)
    BY <1>2, FailureType DEF SpawnFails, BackedInv, TypeOK, Counted, Same
  <2>2. Halts(m)'
    BY <1>2, FailureType DEF SpawnFails, BackedInv, TypeOK, Backed, Counted, Stopped, HaltInv, Halts
  <2> QED BY <2>1, <2>2, OnlyOneHalts
<1>3. CASE Spawned(m)
  <2>1. Same(m)
    BY <1>3 DEF Spawned, BackedInv, TypeOK, Same
  <2>2. Halts(m)'
    BY <1>3 DEF Spawned, BackedInv, TypeOK, Backed, Counted, Stopped, HaltInv, Halts
  <2> QED BY <2>1, <2>2, OnlyOneHalts
<1>4. CASE HandshakeOk(m)
  <2>1. Same(m)
    BY <1>4 DEF HandshakeOk, BackedInv, TypeOK, Same
  <2>2. Halts(m)'
    BY <1>4 DEF HandshakeOk, BackedInv, TypeOK, Backed, Counted, Stopped, HaltInv, Halts
  <2> QED BY <2>1, <2>2, OnlyOneHalts
<1>5. CASE HandshakeFails(m)
  <2>1. Same(m)
    BY <1>5, FailureType DEF HandshakeFails, BackedInv, TypeOK, Counted, Same
  <2>2. Halts(m)'
    BY <1>5, FailureType DEF HandshakeFails, BackedInv, TypeOK, Backed, Counted, Stopped, HaltInv, Halts
  <2> QED BY <2>1, <2>2, OnlyOneHalts
<1>6. CASE Killed(m)
  <2>1. Same(m)
    BY <1>6, FailureType DEF Killed, BackedInv, TypeOK, Counted, Same
  <2>2. Halts(m)'
    BY <1>6, FailureType DEF Killed, BackedInv, TypeOK, Backed, Counted, Stopped, HaltInv, Halts
  <2> QED BY <2>1, <2>2, OnlyOneHalts
<1>7. CASE ExitNoticed(m)
  <2>1. Same(m)
    BY <1>7 DEF ExitNoticed, BackedInv, TypeOK, Same
  <2>2. Halts(m)'
    BY <1>7 DEF ExitNoticed, BackedInv, TypeOK, Backed, Counted, Stopped, HaltInv, Halts
  <2> QED BY <2>1, <2>2, OnlyOneHalts
<1>8. CASE HealthJoined(m)
  <2>1. Same(m)
    BY <1>8 DEF HealthJoined, BackedInv, TypeOK, Same
  <2>2. Halts(m)'
    BY <1>8 DEF HealthJoined, BackedInv, TypeOK, Backed, Counted, Stopped, HaltInv, Halts
  <2> QED BY <2>1, <2>2, OnlyOneHalts
<1>9. CASE Closed(m)
  <2>1. Same(m)
    BY <1>9, FailureType DEF Closed, BackedInv, TypeOK, Counted, Same
  <2>2. Halts(m)'
    BY <1>9, FailureType DEF Closed, BackedInv, TypeOK, Backed, Counted, Stopped, HaltInv, Halts
  <2> QED BY <2>1, <2>2, OnlyOneHalts
<1>10. CASE CancelMet(m)
  <2>1. Same(m)
    BY <1>10 DEF CancelMet, BackedInv, TypeOK, Same
  <2>2. Halts(m)'
    BY <1>10 DEF CancelMet, BackedInv, TypeOK, Backed, Counted, Stopped, HaltInv, Halts
  <2> QED BY <2>1, <2>2, OnlyOneHalts
<1> QED BY <1>1, <1>2, <1>3, <1>4, <1>5, <1>6, <1>7, <1>8, <1>9, <1>10 DEF SuperviseStep

LEMMA StopHalts == ASSUME BackedInv, HaltInv, NEW m \in Modules, StopStep(m) PROVE HaltInv'
<1> USE DEF Set, modVars, Alive, Waiting, Serving, StopCloses, Ended
<1>1. CASE StopTurns(m)
  <2>1. Same(m)
    BY <1>1 DEF StopTurns, BackedInv, TypeOK, Same
  <2>2. Halts(m)'
    BY <1>1 DEF StopTurns, BackedInv, TypeOK, Backed, Counted, Stopped, HaltInv, Halts
  <2> QED BY <2>1, <2>2, OnlyOneHalts
<1>2. CASE StopKilled(m)
  <2>1. Same(m)
    BY <1>2 DEF StopKilled, BackedInv, TypeOK, Same
  <2>2. Halts(m)'
    BY <1>2 DEF StopKilled, BackedInv, TypeOK, Backed, Counted, Stopped, HaltInv, Halts
  <2> QED BY <2>1, <2>2, OnlyOneHalts
<1>3. CASE StopClosed(m)
  <2>1. Same(m)
    BY <1>3 DEF StopClosed, BackedInv, TypeOK, Same
  <2>2. Halts(m)'
    BY <1>3 DEF StopClosed, BackedInv, TypeOK, Backed, Counted, Stopped, HaltInv, Halts
  <2> QED BY <2>1, <2>2, OnlyOneHalts
<1> QED BY <1>1, <1>2, <1>3 DEF StopStep

LEMMA OthersHalt ==
    ASSUME BackedInv, HaltInv, NEW m \in Modules,
           \/ Escalate(m) \/ Exits(m) \/ Reaped(m) \/ ConnectionEnds(m) \/ Ages(m)
           \/ HealthStep(m)
    PROVE  HaltInv'
<1> USE DEF Set, stopVars, Alive, Waiting, Serving
<1>1. CASE Escalate(m)
  <2>1. Same(m)
    BY <1>1 DEF Escalate, Resumes, BackedInv, TypeOK, Same
  <2>2. Halts(m)'
    BY <1>1 DEF Escalate, Resumes, BackedInv, TypeOK, Backed, Counted, Stopped, HaltInv, Halts
  <2> QED BY <2>1, <2>2, OnlyOneHalts
<1>2. CASE Exits(m)
  <2>1. Same(m)
    BY <1>2 DEF Exits, BackedInv, TypeOK, Same
  <2>2. Halts(m)'
    BY <1>2 DEF Exits, BackedInv, TypeOK, Backed, Counted, Stopped, HaltInv, Halts
  <2> QED BY <2>1, <2>2, OnlyOneHalts
<1>3. CASE Reaped(m)
  <2>1. Same(m)
    BY <1>3 DEF Reaped, BackedInv, TypeOK, Same
  <2>2. Halts(m)'
    BY <1>3 DEF Reaped, BackedInv, TypeOK, Backed, Counted, Stopped, HaltInv, Halts
  <2> QED BY <2>1, <2>2, OnlyOneHalts
<1>4. CASE ConnectionEnds(m)
  <2>1. Same(m)
    BY <1>4 DEF ConnectionEnds, BackedInv, TypeOK, Same
  <2>2. Halts(m)'
    BY <1>4 DEF ConnectionEnds, BackedInv, TypeOK, Backed, Counted, Stopped, HaltInv, Halts
  <2> QED BY <2>1, <2>2, OnlyOneHalts
<1>5. CASE Ages(m)
  <2>1. Same(m)
    BY <1>5 DEF Ages, BackedInv, TypeOK, Same
  <2>2. Halts(m)'
    BY <1>5 DEF Ages, BackedInv, TypeOK, Backed, Counted, Stopped, HaltInv, Halts
  <2> QED BY <2>1, <2>2, OnlyOneHalts
<1>6. CASE HealthStep(m)
  <2>1. Same(m)
    BY <1>6 DEF HealthStep, ProbeSent, ProbeAnswered, HealthEnds, BackedInv, TypeOK, Same
  <2>2. Halts(m)'
    BY <1>6 DEF HealthStep, ProbeSent, ProbeAnswered, HealthEnds, BackedInv, TypeOK, Backed, Counted, Stopped, HaltInv, Halts
  <2> QED BY <2>1, <2>2, OnlyOneHalts
<1> QED BY <1>1, <1>2, <1>3, <1>4, <1>5, <1>6

LEMMA ShutdownHalts == ASSUME BackedInv, HaltInv, StopBegins \/ StopEnds PROVE HaltInv'
<1>1. ASSUME NEW m \in Modules PROVE Halts(m)'
  <2>1. CASE StopBegins
    <3>1. stopAt'[m] \in {"none", "todo"} /\ UNCHANGED <<client, proc, sup, cancelled, stopDone>>
      BY <2>1 DEF StopBegins, modVars
    <3>2. stopAt[m] = "none"
      BY <2>1 DEF StopBegins, BackedInv, Stopped
    <3> QED BY <3>1, <3>2 DEF HaltInv, Halts
  <2>2. CASE StopEnds
    BY <2>2 DEF StopEnds, Ended, HaltInv, Halts
  <2> QED BY <2>1, <2>2
<1> QED BY <1>1 DEF HaltInv

LEMMA InitHalts == Init => HaltInv
  BY DEF Init, HaltInv, Halts

LEMMA NextHalts == ASSUME ~PipesHeld PROVE BackedInv /\ HaltInv /\ [Next]_vars => HaltInv'
<1> SUFFICES ASSUME BackedInv, HaltInv, [Next]_vars PROVE HaltInv'
  OBVIOUS
<1>1. CASE UNCHANGED vars
  BY <1>1 DEF vars, HaltInv, Halts
<1>2. CASE StopBegins \/ StopEnds
  BY <1>2, ShutdownHalts
<1> QED BY <1>1, <1>2, SuperviseHalts, StopHalts, OthersHalt DEF Next

\* Whatever the supervise tasks were doing when stop() began, it leaves no
\* module process and no task that could start one (supervisor.py:361-377).
THEOREM StopLeavesNoProcess == ASSUME ~PipesHeld PROVE Spec => []NoProcessAfterStop
<1>1. BackedInv /\ HaltInv => NoProcessAfterStop
  BY DEF BackedInv, TypeOK, Backed, Stopped, HaltInv, Halts, NoProcessAfterStop, Waiting
<1>2. Spec => []HaltInv
  BY StatesBacked, InitHalts, NextHalts, PTL DEF Spec
<1> QED BY <1>1, <1>2, StatesBacked, PTL

\* A failed module stays failed: nothing is left that would write its state.
LEMMA StepKeepsFailed ==
    ASSUME BackedInv, [Next]_vars, NEW m \in Modules, state[m] = "failed" PROVE state'[m] = "failed"
<1>1. /\ sup[m] = "done" /\ health[m] \notin {"sleep", "probe"}
      /\ state \in [Modules -> States]
  BY DEF BackedInv, TypeOK, Backed
<1>2. CASE UNCHANGED vars
  BY <1>2 DEF vars
<1>3. CASE StopBegins \/ StopEnds
  BY <1>3 DEF StopBegins, StopEnds, modVars
<1>4. ASSUME NEW n \in Modules, SuperviseStep(n) \/ HandshakeOk(n) PROVE state'[m] = "failed"
  BY <1>1, <1>4 DEF SuperviseStep, LoopTop, SpawnFails, Spawned, HandshakeOk, HandshakeFails, Killed,
     ExitNoticed, HealthJoined, Closed, CancelMet, Failure, Resumes, Set
<1>5. ASSUME NEW n \in Modules, HealthStep(n) PROVE state'[m] = "failed"
  BY <1>1, <1>5 DEF HealthStep, ProbeSent, ProbeAnswered, HealthEnds, Set
<1>6. ASSUME NEW n \in Modules,
             \/ StopStep(n) \/ Escalate(n) \/ Exits(n) \/ Reaped(n) \/ ConnectionEnds(n) \/ Ages(n)
      PROVE  state'[m] = "failed"
  BY <1>6 DEF StopStep, StopTurns, StopKilled, StopClosed, Escalate, Exits, Reaped, ConnectionEnds,
     Ages, modVars
<1> QED BY <1>2, <1>3, <1>4, <1>5, <1>6 DEF Next

\* Failed is final: nothing brings a module back that was given up
\* (supervisor.py:149-153).
THEOREM FailedStays == Spec => FailedIsFinal
<1>1. BackedInv /\ [Next]_vars
        => [\A m \in Modules : state[m] = "failed" => state'[m] \in {"failed", "stopped"}]_vars
  BY StepKeepsFailed
<1> QED BY <1>1, StatesBacked, PTL DEF Spec, FailedIsFinal
=============================================================================
