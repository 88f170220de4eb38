CONSTANTS
    Modules = {m1}
    Tasks = {t1, t2, t3}
    agent = agent
    scheduler = scheduler
    user = user
    read = read
    unlock = unlock
    Ops <- MCOps
    Principals = {agent}
    Subject = user
    Policy <- MCPolicy
    Advertised <- MCAdvertised
    Cancellable = {t1}
    StoreFails = FALSE
    MaxCrashes = 0
    NoJob = NoJob
SPECIFICATION Spec
CHECK_DEADLOCK FALSE
INVARIANT EverySentCallAudited
