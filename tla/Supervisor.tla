----------------------------- MODULE Supervisor -----------------------------
(* core/supervisor.py: one _supervise task per configured module (spawn,    *)
(* handshake, watch, back off, give up), its _health_loop, and stop(), as   *)
(* coroutines of one event loop: one action is the code between two awaits. *)
(* The module process, its pipes and the clock are the environment.         *)
(*                                                                          *)
(* task.cancel() only requests: `cancelled[m]' is set, and the task meets   *)
(* the CancelledError at the await where it is suspended.                   *)
EXTENDS Naturals, FiniteSets

CONSTANTS
    Modules,     \* modules with a valid manifest
    MaxRetries,  \* restart.max_retries of a manifest
    PipesHeld    \* may a child of a module keep its pipes open for longer than
                 \* a backoff after the module has exited?

ASSUME SupervisorAssumption == MaxRetries \in Nat /\ PipesHeld \in BOOLEAN

VARIABLES
    state,     \* Module.state
    proc,      \* the process of Module.proc; "exited": returncode set,
               \* "reaped": its pipes are closed too and wait() returns
    client,    \* Module.client; "lost": its read loop has ended
    sup,       \* where _supervise is suspended
    health,    \* where _health_loop is suspended
    cancelled, \* modules whose _supervise task has a cancellation to meet
    restarts,  \* Module.restarts
    readySince,\* Module.ready_since; "old": at least reset_after_s ago
    attempts,  \* history: processes asked for since the counter was last reset
    stopping,  \* Supervisor._stopping
    stopAt,    \* how far stop() is with each module
    stopDone   \* stop() has returned

modVars == <<state, proc, client, sup, health, restarts, readySince, attempts>>
stopVars == <<cancelled, stopping, stopAt, stopDone>>
vars == <<state, proc, client, sup, health, cancelled, restarts, readySince,
          attempts, stopping, stopAt, stopDone>>

States == {"unconfigured", "starting", "ready", "degraded", "failed", "stopped"}
Alive == {"running", "terminating", "killed"}  \* returncode is None

\* discover(): every manifest read, nothing spawned; start(): one task each.
Init ==
    /\ state \in [Modules -> {"unconfigured", "stopped"}]
    /\ proc = [m \in Modules |-> "none"]
    /\ client = [m \in Modules |-> "none"]
    /\ sup = [m \in Modules |-> IF state[m] = "unconfigured" THEN "none" ELSE "begin"]
    /\ health = [m \in Modules |-> "none"]
    /\ cancelled = {}
    /\ restarts = [m \in Modules |-> 0]
    /\ readySince = [m \in Modules |-> "none"]
    /\ attempts = [m \in Modules |-> 0]
    /\ stopping = FALSE
    /\ stopAt = [m \in Modules |-> "none"]
    /\ stopDone = FALSE

Set(f, m, v) == f' = [f EXCEPT ![m] = v]

\* Modules whose _supervise task has ended.
Ended == {m \in Modules : sup[m] = "done"}

\* _supervise is resumed at the await named l by what it waited for.
Resumes(m, l) == sup[m] = l /\ m \notin cancelled

----------------------------------------------------------------------------
(* _supervise *)

\* `while not self._stopping', then the head of _spawn_and_init.
LoopTop(m) ==
    /\ Resumes(m, "begin") \/ Resumes(m, "backoff")
    /\ PipesHeld \/ proc[m] # "exited"
    /\ IF stopping
       THEN Set(sup, m, "done") /\ UNCHANGED <<state, attempts>>
       ELSE Set(sup, m, "spawn") /\ Set(state, m, "starting") /\ Set(attempts, m, attempts[m] + 1)
    /\ UNCHANGED <<proc, client, health, restarts, readySince, stopVars>>

\* Seeded fault: >= MaxRetries + 1 written as > MaxRetries + 1.
Failure_OffByOne(m) ==
    LET count == (IF readySince[m] = "old" THEN 0 ELSE restarts[m]) + 1
    IN  /\ Set(restarts, m, count)
        /\ Set(readySince, m, "none")
        /\ UNCHANGED attempts
        /\ IF count > MaxRetries + 1
           THEN Set(state, m, "failed") /\ Set(sup, m, "done")
           ELSE Set(state, m, "starting") /\ Set(sup, m, "backoff")

\* _register_failure, and the backoff or the return that follows it.
Failure(m) ==
    LET reset == readySince[m] = "old"
        count == (IF reset THEN 0 ELSE restarts[m]) + 1
    IN  /\ Set(restarts, m, count)
        /\ Set(readySince, m, "none")
        /\ attempts' = IF reset THEN [attempts EXCEPT ![m] = 0] ELSE attempts
        /\ IF count > MaxRetries
           THEN Set(state, m, "failed") /\ Set(sup, m, "done")
           ELSE Set(state, m, "starting") /\ Set(sup, m, "backoff")

\* Seeded fault: a spawn that fails is retried without being counted.
SpawnFails_Uncounted(m) ==
    /\ Resumes(m, "spawn")
    /\ Set(sup, m, "backoff")
    /\ UNCHANGED <<state, proc, client, health, restarts, readySince, attempts, stopVars>>

SpawnFails(m) ==
    /\ Resumes(m, "spawn")
    /\ Failure(m)
    /\ UNCHANGED <<proc, client, health, stopVars>>

Spawned(m) ==
    /\ Resumes(m, "spawn")
    /\ Set(proc, m, "running")
    /\ Set(client, m, "open")
    /\ Set(sup, m, "handshake")
    /\ UNCHANGED <<state, health, restarts, readySince, attempts, stopVars>>

\* READY; the health task is created and the process waited for.  If the
\* process has exited since, wait() returns at once and the task is cancelled
\* before it ran.
HandshakeOk(m) ==
    /\ Resumes(m, "handshake") /\ client[m] \in {"open", "lost"}
    /\ Set(state, m, "ready")
    /\ Set(readySince, m, "young")
    /\ IF proc[m] \in Alive
       THEN Set(sup, m, "watch") /\ Set(health, m, "sleep")
       ELSE Set(sup, m, "joinHealth") /\ Set(health, m, "cancelled")
    /\ UNCHANGED <<proc, client, restarts, attempts, stopVars>>

\* Seeded faults: the process is not killed; there is no startup timeout.
HandshakeFails_NoKill(m) ==
    /\ Resumes(m, "handshake")
    /\ Failure(m)
    /\ UNCHANGED <<proc, client, health, stopVars>>
HandshakeFails_NoTimeout(m) ==
    /\ Resumes(m, "handshake") /\ client[m] # "open" /\ proc[m] \notin Alive
    /\ Failure(m)
    /\ UNCHANGED <<proc, client, health, stopVars>>

\* An error reply, a lost connection or startup_timeout_s: _kill(proc).
HandshakeFails(m) ==
    /\ Resumes(m, "handshake")
    /\ IF proc[m] \in Alive
       THEN /\ Set(proc, m, IF proc[m] = "running" THEN "terminating" ELSE proc[m])
            /\ Set(sup, m, "killing")
            /\ UNCHANGED <<state, restarts, readySince, attempts>>
       ELSE Failure(m) /\ UNCHANGED proc
    /\ UNCHANGED <<client, health, stopVars>>

\* Seeded fault: SIGTERM is all there is.
Escalate_Never(m) == FALSE

\* SIGKILL, five seconds after SIGTERM.
Escalate(m) ==
    /\ proc[m] = "terminating"
    /\ Resumes(m, "killing") \/ stopAt[m] = "killing"
    /\ Set(proc, m, "killed")
    /\ UNCHANGED <<state, client, sup, health, restarts, readySince, attempts, stopVars>>

Killed(m) ==
    /\ Resumes(m, "killing") /\ proc[m] = "reaped"
    /\ Failure(m)
    /\ UNCHANGED <<proc, client, health, stopVars>>

\* Seeded fault: the health task is neither cancelled nor awaited.
ExitNoticed_LeavesHealth(m) ==
    /\ Resumes(m, "watch") /\ proc[m] = "reaped"
    /\ Set(client, m, "closed")
    /\ Set(sup, m, "closing")
    /\ UNCHANGED <<state, proc, health, restarts, readySince, attempts, stopVars>>

\* proc.wait() returns: the health task is cancelled and awaited.
ExitNoticed(m) ==
    /\ Resumes(m, "watch") /\ proc[m] = "reaped"
    /\ Set(health, m, IF health[m] = "none" THEN "none" ELSE "cancelled")
    /\ Set(sup, m, "joinHealth")
    /\ UNCHANGED <<state, proc, client, restarts, readySince, attempts, stopVars>>

\* Seeded fault: what the health task raised ends _supervise too.
HealthJoined_Raises(m) ==
    /\ sup[m] = "joinHealth"
    /\ health[m] = "none" \/ m \in cancelled
    /\ cancelled' = cancelled \ {m}
    /\ Set(sup, m, "done")
    /\ UNCHANGED <<state, proc, client, health, restarts, readySince, attempts, stopping, stopAt, stopDone>>

\* `except (CancelledError, Exception): pass' takes a cancellation of
\* _supervise for the end of the health task.  Then client.close().
HealthJoined(m) ==
    /\ sup[m] = "joinHealth"
    /\ health[m] = "none" \/ m \in cancelled
    /\ cancelled' = cancelled \ {m}
    /\ Set(client, m, "closed")
    /\ Set(sup, m, "closing")
    /\ UNCHANGED <<state, proc, health, restarts, readySince, attempts, stopping, stopAt, stopDone>>

\* close() swallows a cancellation too; _stopping is what ends the task.
Closed(m) ==
    /\ sup[m] = "closing"
    /\ cancelled' = cancelled \ {m}
    /\ IF stopping
       THEN Set(sup, m, "done") /\ UNCHANGED <<state, restarts, readySince, attempts>>
       ELSE Failure(m)
    /\ UNCHANGED <<proc, client, health, stopping, stopAt, stopDone>>

\* The CancelledError ends _supervise at any other await.  A process being
\* created is killed by the event loop; a health task is left as it is.
CancelMet(m) ==
    /\ m \in cancelled /\ sup[m] \in {"begin", "spawn", "handshake", "killing", "backoff", "watch"}
    /\ cancelled' = cancelled \ {m}
    /\ Set(sup, m, "done")
    /\ UNCHANGED <<state, proc, client, health, restarts, readySince, attempts, stopping, stopAt, stopDone>>

----------------------------------------------------------------------------
(* _health_loop *)

\* The interval is over; the probe is sent when the module lock is free.
ProbeSent(m) ==
    /\ health[m] = "sleep"
    /\ Set(health, m, "probe")
    /\ UNCHANGED <<state, proc, client, sup, restarts, readySince, attempts, stopVars>>

\* A healthy answer needs a connection; anything else, or nothing, degrades.
ProbeAnswered(m, s) ==
    /\ health[m] = "probe"
    /\ s = "ready" => client[m] = "open"
    /\ Set(state, m, s)
    /\ Set(health, m, "sleep")
    /\ UNCHANGED <<proc, client, sup, restarts, readySince, attempts, stopVars>>

HealthEnds(m) ==
    /\ health[m] = "cancelled"
    /\ Set(health, m, "none")
    /\ UNCHANGED <<state, proc, client, sup, restarts, readySince, attempts, stopVars>>

----------------------------------------------------------------------------
(* stop(): the modules one after the other, then all their tasks *)

StopBegins ==
    /\ ~stopping
    /\ stopping' = TRUE
    /\ stopAt' = [m \in Modules |-> IF sup[m] = "none" THEN "none" ELSE "todo"]
    /\ UNCHANGED <<modVars, cancelled, stopDone>>

\* `if mod.client: await mod.client.close()', which suspends only while the
\* read loop is still there; then task.cancel(), which a finished task ignores.
StopCloses(m) ==
    /\ IF client[m] = "none" THEN UNCHANGED client ELSE Set(client, m, "closed")
    /\ IF client[m] = "open"
       THEN Set(stopAt, m, "closing") /\ UNCHANGED cancelled
       ELSE Set(stopAt, m, "cancelled") /\ cancelled' = cancelled \cup ({m} \ Ended)

\* Seeded fault: the process is left to notice the end of its stdin.
StopTurns_NoKill(m) ==
    /\ stopAt[m] = "todo" /\ \A n \in Modules : stopAt[n] \notin {"killing", "closing"}
    /\ StopCloses(m)
    /\ UNCHANGED <<state, proc, sup, health, restarts, readySince, attempts, stopping, stopDone>>

StopTurns(m) ==
    /\ stopAt[m] = "todo" /\ \A n \in Modules : stopAt[n] \notin {"killing", "closing"}
    /\ IF proc[m] \in Alive
       THEN /\ Set(proc, m, IF proc[m] = "running" THEN "terminating" ELSE proc[m])
            /\ Set(stopAt, m, "killing")
            /\ UNCHANGED <<client, cancelled>>
       ELSE StopCloses(m) /\ UNCHANGED proc
    /\ UNCHANGED <<state, sup, health, restarts, readySince, attempts, stopping, stopDone>>

StopKilled(m) ==
    /\ stopAt[m] = "killing" /\ proc[m] = "reaped"
    /\ StopCloses(m)
    /\ UNCHANGED <<state, proc, sup, health, restarts, readySince, attempts, stopping, stopDone>>

StopClosed(m) ==
    /\ stopAt[m] = "closing"
    /\ Set(stopAt, m, "cancelled")
    /\ cancelled' = cancelled \cup ({m} \ Ended)
    /\ UNCHANGED <<modVars, stopping, stopDone>>

\* Every task has been awaited: what is not failed or unconfigured is stopped.
StopEnds ==
    /\ stopping /\ ~stopDone
    /\ \A m \in Modules : sup[m] # "none" => stopAt[m] = "cancelled" /\ m \in Ended
    /\ stopDone' = TRUE
    /\ state' = [m \in Modules |-> IF state[m] \in {"unconfigured", "failed"} THEN state[m] ELSE "stopped"]
    /\ UNCHANGED <<proc, client, sup, health, cancelled, restarts, readySince, attempts, stopping, stopAt>>

----------------------------------------------------------------------------
(* The process, its pipes and the clock *)

\* A process may exit at any time, and does when it is sent SIGKILL.
Exits(m) ==
    /\ proc[m] \in Alive
    /\ Set(proc, m, "exited")
    /\ UNCHANGED <<state, client, sup, health, restarts, readySince, attempts, stopVars>>

\* The last pipe closes, which is also the end of stdout.
Reaped(m) ==
    /\ proc[m] = "exited"
    /\ Set(proc, m, "reaped")
    /\ Set(client, m, IF client[m] = "open" THEN "lost" ELSE client[m])
    /\ UNCHANGED <<state, sup, health, restarts, readySince, attempts, stopVars>>

\* End of stdout, or a line past the limit: the read loop ends.
ConnectionEnds(m) ==
    /\ client[m] = "open"
    /\ Set(client, m, "lost")
    /\ UNCHANGED <<state, proc, sup, health, restarts, readySince, attempts, stopVars>>

\* reset_after_s have passed since the handshake.
Ages(m) ==
    /\ readySince[m] = "young"
    /\ Set(readySince, m, "old")
    /\ UNCHANGED <<state, proc, client, sup, health, restarts, attempts, stopVars>>

----------------------------------------------------------------------------
\* What happens to _supervise without any help from the module.
SuperviseStep(m) ==
    \/ LoopTop(m) \/ SpawnFails(m) \/ Spawned(m) \/ HandshakeFails(m)
    \/ Killed(m) \/ ExitNoticed(m) \/ HealthJoined(m) \/ Closed(m) \/ CancelMet(m)

HealthStep(m) == ProbeSent(m) \/ HealthEnds(m) \/ \E s \in {"ready", "degraded"} : ProbeAnswered(m, s)

StopStep(m) == StopTurns(m) \/ StopKilled(m) \/ StopClosed(m)

Next ==
    \/ \E m \in Modules :
          \/ SuperviseStep(m) \/ HandshakeOk(m) \/ HealthStep(m) \/ StopStep(m) \/ Escalate(m)
          \/ Exits(m) \/ Reaped(m) \/ ConnectionEnds(m) \/ Ages(m)
    \/ StopBegins \/ StopEnds

Spec == Init /\ [][Next]_vars

\* The event loop resumes every coroutine whose await is over and every
\* handshake, probe and wait for a SIGTERM has a timeout; SIGKILL kills, and the
\* pipes of a process that has exited close.  No module need ever answer and
\* stop() need never be called.
Fairness ==
    /\ \A m \in Modules :
          /\ WF_vars(SuperviseStep(m)) /\ WF_vars(HealthStep(m)) /\ WF_vars(StopStep(m))
          /\ WF_vars(Escalate(m)) /\ WF_vars(Reaped(m))
          /\ WF_vars(proc[m] = "killed" /\ Exits(m))
    /\ WF_vars(StopEnds)

FairSpec == Spec /\ Fairness

----------------------------------------------------------------------------
(* Properties *)

TypeOK ==
    /\ state \in [Modules -> States]
    /\ proc \in [Modules -> Alive \cup {"none", "exited", "reaped"}]
    /\ client \in [Modules -> {"none", "open", "lost", "closed"}]
    /\ sup \in [Modules -> {"none", "begin", "spawn", "handshake", "killing", "backoff",
                            "watch", "joinHealth", "closing", "done"}]
    /\ health \in [Modules -> {"none", "sleep", "probe", "cancelled"}]
    /\ cancelled \in SUBSET Modules
    /\ restarts \in [Modules -> 0 .. MaxRetries + 1]
    /\ readySince \in [Modules -> {"none", "young", "old"}]
    /\ attempts \in [Modules -> Nat]
    /\ stopping \in BOOLEAN /\ stopDone \in BOOLEAN
    /\ stopAt \in [Modules -> {"none", "todo", "killing", "closing", "cancelled"}]

\* What the console and the module API read in Module.state is backed by the
\* supervise task: a module that is ready or degraded before a shutdown has had
\* its handshake, and a task waits for its process or is clearing it away; one
\* that is failed has no such task and no living process; and before a shutdown
\* a task ends in no other way than by giving its module up as failed.
StateIsBacked ==
    \A m \in Modules :
        /\ state[m] \in {"ready", "degraded"} /\ ~stopping
              => sup[m] \in {"watch", "joinHealth", "closing"} /\ readySince[m] # "none"
        /\ state[m] = "failed" => sup[m] = "done" /\ proc[m] \notin Alive
        /\ sup[m] = "done" /\ ~stopping => state[m] = "failed"

\* A process is started only after the one before it has gone, with its health
\* task: one generation of a module at a time.
OneGeneration ==
    \A m \in Modules :
        sup[m] \in {"begin", "spawn", "backoff"} => proc[m] \notin Alive /\ health[m] = "none"

\* restart.max_retries holds: between two resets of the counter a module is
\* started at most once and then MaxRetries times again.
RetriesBounded == \A m \in Modules : attempts[m] <= MaxRetries + 1

\* stop() leaves no module process behind, whatever the supervise tasks were
\* doing when it began.
NoProcessAfterStop == stopDone => \A m \in Modules : proc[m] \notin Alive /\ sup[m] \in {"none", "done"}

\* A module that was given up (supervisor.py:191-194) is not brought back by a
\* restart, nor by a probe or a cancellation of its tasks that comes late.  The
\* one step out of failed that the state machine draws (9-14) leads to stopped;
\* stop() does not take it (375-377), and nothing here depends on it.
FailedIsFinal ==
    [][\A m \in Modules : state[m] = "failed" => state'[m] \in {"failed", "stopped"}]_vars

\* "the module does not hang forever in `starting`" (supervisor.py:226).
StartingEnds == \A m \in Modules : state[m] = "starting" ~> state[m] # "starting"

\* A process that has exited is noticed: its module does not stay ready.
ExitIsNoticed ==
    \A m \in Modules : proc[m] = "reaped" /\ state[m] = "ready" ~> state[m] # "ready"

\* stop() returns, whatever the modules do with SIGTERM.
StopReturns == stopping ~> stopDone

\* After stop() every module that ran is stopped, and stays so
\* (test_supervisor.py:85: `assert sup.modules["fake"].state == State.STOPPED').
StoppedStaysStopped == [][\A m \in Modules : stopDone /\ state[m] = "stopped" => state'[m] = "stopped"]_vars
=============================================================================
