------------------------------ MODULE MCEvents ------------------------------
(* Events with short queues: the persister, and a socket with two feeders.  *)
EXTENDS Events, TLC

CONSTANTS
    persister, stateFeed, logFeed,
    StateSize, LogSize,    \* queue sizes
    MaxStates, MaxLogs     \* bounds: messages published

MCTopicPolicy ==
    "module.state_changed" :> [policy |-> DisconnectSlow, maxsize |-> StateSize]
 @@ "module.log"           :> [policy |-> DropOldest, maxsize |-> LogSize]
MCTopicOf ==
    persister :> "module.state_changed" @@ stateFeed :> "module.state_changed" @@ logFeed :> "module.log"
MCMaxPublished == "module.state_changed" :> MaxStates @@ "module.log" :> MaxLogs
=============================================================================
