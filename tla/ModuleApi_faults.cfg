CONSTANTS
    Modules = {m1}
    Tasks = {t1, t2}
    agent = agent
    scheduler = scheduler
    user = user
    read = read
    unlock = unlock
    Ops <- MCOps
    Principals = {agent, scheduler}
    Subject = user
    Policy <- MCPolicy
    Advertised <- MCAdvertised
    Cancellable = {t1}
    StoreFails = TRUE
    MaxCrashes = 0
    NoJob = NoJob
SPECIFICATION FairSpec
CHECK_DEADLOCK FALSE
INVARIANTS TypeOK OneInFlight IInv RefusalIsTrue
PROPERTY CallReturns
