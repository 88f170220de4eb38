SPECIFICATION FairSpec
CHECK_DEADLOCK FALSE
CONSTANTS
    persister = persister
    stateFeed = stateFeed
    logFeed = logFeed
    StateSize = 1
    LogSize = 2
    MaxStates = 2
    MaxLogs = 3
    TopicPolicy <- MCTopicPolicy
    Subs = {persister, stateFeed, logFeed}
    TopicOf <- MCTopicOf
    MaxPublished <- MCMaxPublished
    StateTopic = "module.state_changed"
    LogTopic = "module.log"
    Persister = persister
    StateFeed = stateFeed
    SocketSubs = {stateFeed, logFeed}
    MergedSize = 1
    StoreFails = TRUE
INVARIANTS TypeOK NoSilentGap NewestSurvive NothingMissed LeavesNothing
PROPERTIES ConsumersEnd Delivered LeavingIsNoticed
