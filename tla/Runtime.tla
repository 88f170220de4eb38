------------------------------ MODULE Runtime ------------------------------
(* core/runtime.py: the hub from hub_starting to hub_stopped, composed with *)
(* the scheduler, the modules as far as READY goes, and what the web server *)
(* is asked to serve: routines by hand and event sockets.  uvicorn is       *)
(* external: once should_exit is set it takes nothing new, closes the       *)
(* sockets, and waits for the handlers that still run (no                   *)
(* timeout_graceful_shutdown is given).                                     *)
EXTENDS Scheduler

CONSTANT Sockets  \* event sockets that ever connect

VARIABLES
    at,          \* how far Runtime.run has come
    should_exit, \* Server.should_exit
    socket       \* "none", "live", "parked" (the connection is gone, the handler
                 \* suspended on merged.get()), "woken" (an event is on its way to
                 \* that handler), or "closed" (the handler is through)

vars == <<schedulerVars, at, should_exit, socket>>

Init ==
    /\ SchedulerInit
    /\ at = "starting" /\ should_exit = FALSE
    /\ socket = [s \in Sockets |-> "none"]

\* An event is on its way, through subscriptions and feeders, to every handler.
Wake == socket' = [s \in Sockets |-> IF socket[s] = "parked" THEN "woken" ELSE socket[s]]

Published == IF fired' # fired \/ state' # state THEN Wake ELSE socket' = socket

----------------------------------------------------------------------------
(* What goes on around Runtime.run *)

Serving == at # "starting" /\ ~should_exit

ByCron(r, id) == CronFires(r, id) /\ Published /\ UNCHANGED <<at, should_exit>>
ByHand(r, id) == Serving /\ RunManually(r, id) /\ Published /\ UNCHANGED <<at, should_exit>>

RunGoesOn(r) ==
    /\ (\E result \in {"ok", "failed", "refused"} : StepReturns(r, result)) \/ StepRaises(r)
    /\ Published /\ UNCHANGED <<at, should_exit>>

JobsHalt == Halts /\ Published /\ UNCHANGED <<at, should_exit>>

ModuleChanges(m) ==
    /\ at \in {"serving", "draining", "stopping"}
    /\ ModuleMoves(m) /\ Published /\ UNCHANGED <<at, should_exit>>

\* A module writes to stderr: module.log is an event too.
LogLine ==
    /\ at \in {"serving", "draining", "stopping"}
    /\ Wake /\ UNCHANGED <<schedulerVars, at, should_exit>>

Connects(s) ==
    /\ Serving /\ socket[s] = "none"
    /\ socket' = [socket EXCEPT ![s] = "live"]
    /\ UNCHANGED <<schedulerVars, at, should_exit>>

\* The client leaves; after should_exit the server closes the connection.
Disconnects(s) ==
    /\ socket[s] = "live"
    /\ socket' = [socket EXCEPT ![s] = "parked"]
    /\ UNCHANGED <<schedulerVars, at, should_exit>>

\* The handler sends the event on a connection that is gone: the send raises.
HandlerEnds(s) ==
    /\ socket[s] = "woken"
    /\ socket' = [socket EXCEPT ![s] = "closed"]
    /\ UNCHANGED <<schedulerVars, at, should_exit>>

----------------------------------------------------------------------------
(* Runtime.run *)

\* The store is open, the supervise tasks are created: the jobs start, then the
\* persister and the server.
Starts ==
    /\ at = "starting" /\ at' = "serving"
    /\ jobs' = "running"
    /\ UNCHANGED <<policy, state, runVars, should_exit, socket>>

\* Seeded fault: the server is awaited without having been told.
RequestStop_Untold ==
    /\ at = "serving" /\ at' = "draining"
    /\ UNCHANGED <<schedulerVars, should_exit, socket>>

\* SIGTERM or SIGINT.
RequestStop ==
    /\ at = "serving" /\ at' = "draining"
    /\ should_exit' = TRUE
    /\ UNCHANGED <<schedulerVars, socket>>

\* The server has nothing left to wait for.
Idle == should_exit /\ Active("hand") = {} /\ \A s \in Sockets : socket[s] \in {"none", "closed"}

\* Seeded fault: the scheduler is left running.
Drained_KeepsJobs ==
    /\ at = "draining" /\ Idle
    /\ at' = "stopping"
    /\ UNCHANGED <<schedulerVars, should_exit, socket>>

\* await server_task returns: the scheduler and the persister are told to stop.
Drained ==
    /\ at = "draining" /\ Idle
    /\ at' = "stopping"
    /\ jobs' = "stopping"
    /\ UNCHANGED <<policy, state, runVars, should_exit, socket>>

\* supervisor.stop() returns.  It awaits the supervise tasks, which lets the
\* shutdown of the scheduler through first.
ModulesStop ==
    /\ at = "stopping" /\ jobs # "stopping"
    /\ at' = "closing"
    /\ state' = [m \in Modules |-> "stopped"]
    /\ UNCHANGED <<policy, jobs, runVars, should_exit, socket>>

\* The adapters and the store are closed.
StoreCloses ==
    /\ at = "closing" /\ at' = "stopped"
    /\ UNCHANGED <<schedulerVars, should_exit, socket>>

\* The hub has stopped and nothing happens any more.
Done == at = "stopped" /\ UNCHANGED vars

Next ==
    \/ \E r \in Runs : RunGoesOn(r) \/ \E id \in DOMAIN Schedules : ByCron(r, id) \/ ByHand(r, id)
    \/ \E m \in Modules : ModuleChanges(m)
    \/ \E s \in Sockets : Connects(s) \/ Disconnects(s) \/ HandlerEnds(s)
    \/ LogLine \/ JobsHalt
    \/ Starts \/ RequestStop \/ Drained \/ ModulesStop \/ StoreCloses \/ Done

\* A call of the module API returns (CallReturns of ModuleApi), the event loop
\* runs what is scheduled, uvicorn closes what it has open when it is told to.
\* Nobody has to ask for anything, and modules need not say a word.
FairSpec ==
    /\ Init /\ [][Next]_vars
    /\ \A r \in Runs : WF_vars(RunGoesOn(r))
    /\ \A s \in Sockets : WF_vars(should_exit /\ Disconnects(s)) /\ WF_vars(HandlerEnds(s))
    /\ WF_vars(JobsHalt)
    /\ WF_vars(Starts \/ Drained \/ ModulesStop \/ StoreCloses)

----------------------------------------------------------------------------
(* Properties *)

\* "A tool the principal can never call is not shown" (registry.py:46), and a
\* tool it can call is: the catalogue has exactly the tools a call of which is
\* neither rejected nor denied for some arguments.  (Except a tool whose rule
\* has no body, under default deny: visible_to() looks for the key,
\* evaluate() for the body, and the tool is shown and never allowed.)
CatalogAgrees ==
    \A who \in DOMAIN policy.principals \cup {"stranger"}, tool \in Advertised :
        \/ DefaultDeny(policy) /\ tool \in DOMAIN policy.rules /\ ~HasRule(policy, tool)
        \/ (tool \in AgentCatalog(policy, who, state, Advertised)) =
              (~Rejected(tool) /\ Evaluate(policy, who, tool, <<>>) # "deny")

\* Shutdown is the reverse of startup (runtime.py:3): modules and the store
\* outlive every routine and every request that may still use them.
ShutdownOrder ==
    at \in {"closing", "stopped"} =>
        /\ jobs = "off"
        /\ \A r \in Runs : pc[r] # "called"
        /\ \A s \in Sockets : socket[s] \in {"none", "closed"}

\* A hub told to stop stops, however many routines and sockets are open,
\* unless the handler of a socket that is gone waits for an event that never
\* comes: the exception is one the code has and runtime.py:3-6 ("let the web
\* server drain, ... then exit") does not name.
ShutdownEnds ==
    (at = "draining") ~> (at = "stopped" \/ [](\E s \in Sockets : socket[s] = "parked"))
=============================================================================
