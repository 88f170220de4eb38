----------------------------- MODULE Scheduler -----------------------------
(* scheduler/scheduler.py: routines, run by the cron jobs of APScheduler or *)
(* by hand (POST /api/schedules/{id}/run), each step a call of the module   *)
(* API with principal "scheduler", which the gate decides.  ModuleApi.tla   *)
(* has the call in full; here it returns, or raises, some time later.       *)
EXTENDS Gate, Sequences, FiniteSets

CONSTANTS
    Runs,       \* runs of routines that are ever begun
    Schedules,  \* the file: id -> [cron |-> "none" | "bad" | "good", steps |-> ...]
    Broken,     \* a step without module or tool
    Policies,   \* the gate has one of these
    Modules,
    Advertised, \* tools the handshakes listed
    StoreFails  \* may a store statement raise?

Crons == {"none", "bad", "good"}

ASSUME SchedulerAssumption ==
    /\ \A id \in DOMAIN Schedules :
          LET steps == Schedules[id].steps
          IN  Schedules[id].cron \in Crons /\ steps \in Seq({steps[i] : i \in DOMAIN steps})
    /\ \A tool \in Advertised : tool[1] \in Modules
    /\ StoreFails \in BOOLEAN

VARIABLES
    policy,  \* what the gate has loaded; never changes
    state,   \* Module.state, as far as READY goes; Supervisor.tla moves it
    jobs,    \* the AsyncIOScheduler: "off", "running", "stopping"
    run,     \* what each run is of: a schedule, and who asked for it
    pc,      \* a run is "idle", in a step ("called"), or how it has ended
    results, \* `results' of run_schedule
    fired,   \* schedule.fired events each run has published
    reached  \* history: steps whose request went to a module

runVars == <<run, pc, results, fired, reached>>
schedulerVars == <<policy, state, jobs, runVars>>

NoRun == [id |-> "none", by |-> "nobody"]
Steps(id) == Schedules[id].steps
Active(by) == {r \in Runs : pc[r] = "called" /\ run[r].by = by}

SchedulerInit ==
    /\ policy \in Policies
    /\ state = [m \in Modules |-> "ready"]
    /\ jobs = "off"
    /\ run = [r \in Runs |-> NoRun]
    /\ pc = [r \in Runs |-> "idle"]
    /\ results = [r \in Runs |-> <<>>]
    /\ fired = [r \in Runs |-> <<>>]
    /\ reached = [r \in Runs |-> {}]

----------------------------------------------------------------------------
(* run_schedule *)

\* Refused before the gate, without an await: unknown, reserved, not ready.
Rejected(tool) == tool \notin Advertised \/ Reserved(tool) \/ state[tool[1]] # "ready"

Decision(step) == Evaluate(policy, "scheduler", step.tool, step.args)

Failed(rs) == rs # <<>> /\ rs[Len(rs)] # "ok"

\* The routine is through, or its last step has failed: one schedule.fired.
Ends(r, rs) ==
    /\ pc' = [pc EXCEPT ![r] = "done"]
    /\ results' = [results EXCEPT ![r] = rs]
    /\ fired' = [fired EXCEPT ![r] = Append(@, [ok |-> ~Failed(rs), results |-> rs])]
    /\ UNCHANGED reached

\* An exception leaves run_schedule: the results are lost, no event.
Raised(r) ==
    /\ pc' = [pc EXCEPT ![r] = "raised"]
    /\ UNCHANGED <<results, fired, reached>>

\* The call of a step waits: for the audit or the row of a refusal, or for the
\* module, which then has the request.
Calls(r, step, rs) ==
    /\ pc' = [pc EXCEPT ![r] = "called"]
    /\ results' = [results EXCEPT ![r] = rs]
    /\ reached' = IF Decision(step) = "allow"
                  THEN [reached EXCEPT ![r] = @ \cup {Len(rs) + 1}] ELSE reached
    /\ UNCHANGED fired

\* Steps from the one after rs on, up to the next await.  A step that is
\* rejected at once aborts the routine as any other.
GoesOn(r, steps, rs) ==
    IF Failed(rs) \/ Len(rs) = Len(steps) THEN Ends(r, rs)
    ELSE LET step == steps[Len(rs) + 1]
         IN  IF step = Broken THEN Raised(r)
             ELSE IF Rejected(step.tool) THEN Ends(r, Append(rs, "rejected"))
             ELSE Calls(r, step, rs)

Begins(r, id, by) ==
    /\ pc[r] = "idle"
    /\ run' = [run EXCEPT ![r] = [id |-> id, by |-> by]]
    /\ GoesOn(r, Steps(id), <<>>)
    /\ UNCHANGED <<policy, state>>

\* start(): a job for each schedule whose cron parses.
JobIds == {id \in DOMAIN Schedules : Schedules[id].cron = "good"}

\* A job is due.  With max_instances=1 APScheduler skips it while the run
\* before it is under way; a run by hand is no instance of the job.
CronFires(r, id) ==
    /\ jobs # "off" /\ id \in JobIds
    /\ \A q \in Active("cron") : run[q].id # id
    /\ Begins(r, id, "cron")
    /\ UNCHANGED jobs

\* The endpoint of api.py.  An id that is not in the file changes nothing.
RunManually(r, id) ==
    /\ Begins(r, id, "hand")
    /\ UNCHANGED jobs

\* Seeded fault: a step that fails is logged and the next one called.
StepReturns_GoesOn(r, result) ==
    LET steps == Steps(run[r].id)
    IN  /\ pc[r] = "called"
        /\ IF Len(results[r]) + 1 = Len(steps) \/ steps[Len(results[r]) + 2] = Broken
           THEN Ends(r, Append(results[r], result))
           ELSE Calls(r, steps[Len(results[r]) + 2], Append(results[r], result))
        /\ UNCHANGED <<policy, state, jobs, run>>

\* ModuleAPI.call returns: a refusal of the gate, or what came of the request.
StepReturns(r, result) ==
    LET steps == Steps(run[r].id)
        step == steps[Len(results[r]) + 1]
    IN  /\ pc[r] = "called"
        /\ result \in IF Decision(step) = "allow" THEN {"ok", "failed"} ELSE {"refused"}
        /\ GoesOn(r, steps, Append(results[r], result))
        /\ UNCHANGED <<policy, state, jobs, run>>

\* create_pending raises out of the call (an audit that fails is swallowed).
StepRaises(r) ==
    /\ StoreFails /\ pc[r] = "called"
    /\ Decision(Steps(run[r].id)[Len(results[r]) + 1]) = "confirm"
    /\ Raised(r)
    /\ UNCHANGED <<policy, state, jobs, run>>

\* The shutdown that stop() asks for happens on a later turn of the event
\* loop: AsyncIOExecutor cancels the runs of jobs that are under way.
Halts ==
    /\ jobs = "stopping" /\ jobs' = "off"
    /\ pc' = [r \in Runs |-> IF r \in Active("cron") THEN "cancelled" ELSE pc[r]]
    /\ UNCHANGED <<policy, state, run, results, fired, reached>>

\* A module becomes ready, or is no longer.
ModuleMoves(m) ==
    /\ state' = [state EXCEPT ![m] = IF @ = "ready" THEN "degraded" ELSE "ready"]
    /\ UNCHANGED <<policy, jobs, runVars>>

----------------------------------------------------------------------------
(* Properties *)

\* A routine that came to an end published exactly one schedule.fired, which
\* tells what became of each step; a step was asked of a module only after all
\* steps before it had succeeded, and each that was is in the results or under
\* way.  A routine that raised or was cancelled published nothing (one that
\* raised against "a failing step ... lands on the bus", scheduler.py:8-9).
FiredTruthful ==
    \A r \in Runs :
        LET rs == results[r]
            under == IF pc[r] \in {"called", "cancelled", "raised"} THEN {Len(rs) + 1} ELSE {}
        IN  /\ IF pc[r] = "done"
               THEN /\ Len(fired[r]) = 1 /\ fired[r][1].results = rs
                    /\ fired[r][1].ok =
                          (reached[r] = 1 .. Len(Steps(run[r].id)) /\ \A i \in DOMAIN rs : rs[i] = "ok")
               ELSE fired[r] = <<>>
            /\ {i \in DOMAIN rs : rs[i] \in {"ok", "failed"}} \subseteq reached[r]
            /\ reached[r] \subseteq {i \in DOMAIN rs : rs[i] \in {"ok", "failed"}} \cup under
            /\ \A i \in reached[r], j \in DOMAIN rs : j < i => rs[j] = "ok"
=============================================================================
