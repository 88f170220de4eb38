------------------------------- MODULE Events -------------------------------
(* Who subscribes to the bus and what they do with their items: the event   *)
(* socket of web/api.py, whose feeders merge the queues of its topics for   *)
(* one sender, and the persister of core/runtime.py, which saves each state *)
(* of a module.  A dashboard holds one socket; the topics of confirmations  *)
(* and routines behave as that of the states.                               *)
EXTENDS EventBus, SequencesExt

CONSTANTS
    StateTopic, LogTopic,
    Persister,  \* the subscription of Runtime._persist_module_state
    StateFeed,  \* the subscription of the socket to the states
    SocketSubs, \* its subscriptions to all topics
    MergedSize, \* of the merged queue
    StoreFails  \* may a store statement raise?

ASSUME EventsAssumption ==
    /\ Topics = {StateTopic, LogTopic}
    /\ Subs = SocketSubs \cup {Persister} /\ Persister \notin SocketSubs
    /\ StateFeed \in SocketSubs /\ TopicOf[StateFeed] = StateTopic /\ TopicOf[Persister] = StateTopic
    /\ TopicPolicy[StateTopic].policy = DisconnectSlow  \* _TOPIC_POLICY
    /\ MergedSize \in Nat \ {0} /\ StoreFails \in BOOLEAN

VARIABLES
    socket,   \* "none", sending the "snapshot", on merged "get", "sending",
              \* "leaving" (its feeders cancelled), "ended"
    peer,     \* is there somebody at the other end?
    snapshot, \* states published when the snapshot was taken
    merged,   \* the merged queue: <<subscription, message>>
    fed,      \* items each feeder has put there
    sending,  \* the item being sent, as a sequence
    shown,    \* history: messages of each subscription sent to the client
    row,      \* the state that module_state holds
    raised    \* history: the last state whose save raised

socketVars == <<socket, peer, snapshot, merged, fed, sending, shown>>
saves == <<row, raised>>
vars == <<busVars, socketVars, saves>>

Init ==
    /\ BusInit
    /\ socket = "none" /\ peer = FALSE /\ snapshot = 0
    /\ merged = <<>> /\ fed = [s \in SocketSubs |-> 0] /\ sending = <<>>
    /\ shown = [s \in SocketSubs |-> <<>>]
    /\ row = 0 /\ raised = 0

\* Supervisor._set_state and Supervisor._drain_stderr.
SetState == Publish(StateTopic) /\ UNCHANGED <<socketVars, saves>>
DrainStderr == Publish(LogTopic) /\ UNCHANGED <<socketVars, saves>>

----------------------------------------------------------------------------
(* Runtime._persist_module_state *)

PersisterStarts == Subscribe({Persister}, "busy") /\ UNCHANGED <<socketVars, saves>>

\* save_module_state returns, or raises before or after it took effect.
Saves(state) ==
    \/ row' = state /\ UNCHANGED raised
    \/ StoreFails /\ row' \in {row, state} /\ raised' = state

\* Seeded fault: the try is around the loop, a save that raises ends it.
PersisterGoesOn_EndsOnError ==
    /\ UNCHANGED socketVars
    /\ \/ /\ IF got[Persister] = <<>> THEN UNCHANGED saves
             ELSE row' = Last(got[Persister]) /\ UNCHANGED raised
          /\ Asks(Persister)
       \/ /\ StoreFails /\ consumer[Persister] = "busy" /\ got[Persister] # <<>>
          /\ raised' = Last(got[Persister]) /\ UNCHANGED row
          /\ consumer' = [consumer EXCEPT ![Persister] = "done"]
          /\ Unsubscribe({Persister})

\* The item in hand, if any, is saved, and the next one asked for.
PersisterGoesOn ==
    /\ IF got[Persister] = <<>> THEN UNCHANGED saves ELSE Saves(Last(got[Persister]))
    /\ Asks(Persister)
    /\ UNCHANGED socketVars

PersisterWoken == Woken(Persister) /\ UNCHANGED <<socketVars, saves>>

\* The shutdown cancels it at its await, once the server is gone; the statement
\* under way may take effect.
PersisterCancelled ==
    /\ socket \in {"none", "ended"} /\ socket' = "ended"
    /\ consumer[Persister] \in {"busy", "get"}
    /\ consumer' = [consumer EXCEPT ![Persister] = "done"]
    /\ Unsubscribe({Persister})
    /\ row' \in (IF consumer[Persister] = "busy" /\ got[Persister] # <<>>
                  THEN {row, Last(got[Persister])} ELSE {row})
    /\ UNCHANGED <<raised, peer, snapshot, merged, fed, sending, shown>>

----------------------------------------------------------------------------
(* ws_events *)

\* The socket is accepted; no await lies between subscriptions and snapshot.
Connects ==
    /\ socket = "none" /\ socket' = "snapshot"
    /\ peer' = TRUE
    /\ Subscribe(SocketSubs, "absent")
    /\ snapshot' = published[StateTopic]
    /\ UNCHANGED <<merged, fed, sending, shown, saves>>

\* The client leaves, or the server gives it up after a ping.
PeerLeaves ==
    /\ peer /\ peer' = FALSE
    /\ UNCHANGED <<busVars, socket, snapshot, merged, fed, sending, shown, saves>>

\* A feeder for each subscription.
SnapshotSent ==
    /\ socket = "snapshot" /\ peer
    /\ socket' = "get"
    /\ consumer' = [s \in Subs |-> IF s \in SocketSubs THEN "busy" ELSE consumer[s]]
    /\ UNCHANGED <<published, subs, queue, closed, first, got>>
    /\ UNCHANGED <<peer, snapshot, merged, fed, sending, shown, saves>>

\* Seeded fault: the subscriptions were made before the try.
SnapshotFails_KeepsSubs ==
    /\ socket = "snapshot" /\ ~peer
    /\ socket' = "ended"
    /\ UNCHANGED <<busVars, peer, snapshot, merged, fed, sending, shown, saves>>

SnapshotFails ==
    /\ socket = "snapshot" /\ ~peer
    /\ socket' = "ended"
    /\ Unsubscribe(SocketSubs) /\ UNCHANGED consumer
    /\ UNCHANGED <<peer, snapshot, merged, fed, sending, shown, saves>>

\* Seeded fault: merged.put_nowait(), and QueueFull passed over.
FeederGoesOn_Drops(s) ==
    /\ socket \in {"get", "sending"}
    /\ fed' = [fed EXCEPT ![s] = Len(got[s])]
    /\ merged' = IF fed[s] < Len(got[s]) /\ Len(merged) < MergedSize
                 THEN Append(merged, <<s, Last(got[s])>>) ELSE merged
    /\ Asks(s)
    /\ UNCHANGED <<socket, peer, snapshot, sending, shown, saves>>

\* feed(): the item in hand, if any, is put into the merged queue when there is
\* room, and the next one asked for.
FeederGoesOn(s) ==
    /\ socket \in {"get", "sending"}
    /\ IF fed[s] < Len(got[s])
       THEN /\ Len(merged) < MergedSize
            /\ merged' = Append(merged, <<s, Last(got[s])>>)
            /\ fed' = [fed EXCEPT ![s] = @ + 1]
       ELSE UNCHANGED <<merged, fed>>
    /\ Asks(s)
    /\ UNCHANGED <<socket, peer, snapshot, sending, shown, saves>>

FeederWoken(s) ==
    /\ socket \in {"get", "sending"}
    /\ Woken(s)
    /\ UNCHANGED <<socketVars, saves>>

\* merged.get() returns to the sender that waited for it.
SenderWoken ==
    /\ socket = "get" /\ socket' = "sending"
    /\ merged # <<>>
    /\ merged' = Tail(merged) /\ sending' = <<Head(merged)>>
    /\ UNCHANGED <<busVars, peer, snapshot, fed, shown, saves>>

\* The item is sent, and the next one taken if there is one.
Sent ==
    /\ socket = "sending" /\ peer
    /\ shown' = [shown EXCEPT ![sending[1][1]] = Append(@, sending[1][2])]
    /\ IF merged = <<>>
       THEN socket' = "get" /\ sending' = <<>> /\ UNCHANGED merged
       ELSE sending' = <<Head(merged)>> /\ merged' = Tail(merged) /\ UNCHANGED socket
    /\ UNCHANGED <<busVars, peer, snapshot, fed, saves>>

\* Seeded fault: the exception is caught in the loop.
SendFails_Swallowed ==
    /\ socket = "sending" /\ ~peer
    /\ socket' = "get"
    /\ sending' = <<>>
    /\ UNCHANGED <<busVars, peer, snapshot, merged, fed, shown, saves>>

\* The send raises: the feeders are cancelled, and do nothing more at their
\* await; the merged queue goes with the handler.
SendFails ==
    /\ socket = "sending" /\ ~peer
    /\ socket' = "leaving"
    /\ consumer' = [s \in Subs |-> IF s \in SocketSubs THEN "done" ELSE consumer[s]]
    /\ sending' = <<>> /\ merged' = <<>> /\ fed' = [s \in SocketSubs |-> 0]
    /\ UNCHANGED <<published, subs, queue, closed, first, got, peer, snapshot, shown, saves>>

\* The feeders have been awaited.
SocketEnds ==
    /\ socket = "leaving" /\ socket' = "ended"
    /\ Unsubscribe(SocketSubs) /\ UNCHANGED consumer
    /\ UNCHANGED <<peer, snapshot, merged, fed, sending, shown, saves>>

----------------------------------------------------------------------------

Next ==
    \/ SetState \/ DrainStderr
    \/ PersisterStarts \/ PersisterGoesOn \/ PersisterWoken \/ PersisterCancelled
    \/ Connects \/ PeerLeaves \/ SnapshotSent \/ SnapshotFails
    \/ \E s \in SocketSubs : FeederGoesOn(s) \/ FeederWoken(s)
    \/ SenderWoken \/ Sent \/ SendFails \/ SocketEnds

\* The event loop resumes what can go on.  A send ends, since the server gives
\* up a client that answers no ping; a statement of the store ends.  Nothing is
\* assumed of publishers, nor of how long clients stay.
FairSpec ==
    /\ Init /\ [][Next]_vars
    /\ WF_vars(PersisterGoesOn \/ PersisterWoken)
    /\ \A s \in SocketSubs : WF_vars(FeederGoesOn(s) \/ FeederWoken(s))
    /\ WF_vars(SnapshotSent \/ SnapshotFails)
    /\ WF_vars(SenderWoken \/ Sent \/ SendFails \/ SocketEnds)

----------------------------------------------------------------------------
(* Properties *)

TypeOK ==
    /\ BusTypeOK
    /\ socket \in {"none", "snapshot", "get", "sending", "leaving", "ended"}
    /\ peer \in BOOLEAN /\ snapshot \in Nat
    /\ merged \in Seq(SocketSubs \X Nat) /\ Len(merged) <= MergedSize
    /\ fed \in [SocketSubs -> Nat]
    /\ sending \in Seq(SocketSubs \X Nat) /\ Len(sending) <= 1
    /\ shown \in [SocketSubs -> Seq(Nat)]
    /\ row \in Nat /\ raised \in Nat

\* What the feeders have put for the client: being sent, then merged.
Line == sending \o merged

\* How many of the first i items in line are of s.
Ahead(s, i) == Cardinality({j \in 1 .. i : Line[j][1] = s})

\* The console misses no state: it begins with the snapshot and is sent each
\* state published since, in order and once.  Of every subscription the client
\* is shown what was given to the feeder from the first item on; the next ones
\* are in line, and one at most is in the hand of the feeder; what is still to
\* come waits in the subscription, unless it has been disconnected.  So it is
\* however many log lines compete for the merged queue.
NothingMissed ==
    socket \in {"snapshot", "get", "sending"} =>
        /\ \A s \in SocketSubs :
              /\ \A i \in 1 .. Len(shown[s]) : i <= Len(got[s]) /\ shown[s][i] = got[s][i]
              /\ \A i \in 1 .. Len(Line) : Line[i][1] = s =>
                    LET k == Len(shown[s]) + Ahead(s, i)
                    IN  k \in 1 .. Len(got[s]) /\ Line[i][2] = got[s][k]
              /\ Len(got[s]) - (Len(shown[s]) + Ahead(s, Len(Line))) \in {0, 1}
        /\ \A i \in 1 .. Len(got[StateFeed]) : got[StateFeed][i] = snapshot + i
        /\ StateFeed \in subs => snapshot + Len(Stream(StateFeed)) = published[StateTopic]

\* A handler that has ended, however it came to, leaves no subscription on the
\* bus and no feeder: nobody is subscribed whose consumer is gone for good.
LeavesNothing ==
    /\ socket = "ended" =>
          \A s \in SocketSubs : s \notin subs /\ consumer[s] \in {"none", "absent", "done"}
    /\ \A s \in subs : consumer[s] = "done" => socket = "leaving"

\* A closed subscription ends its consumer, also one whose queue had no room
\* for the sentinel.  (Of a socket whose snapshot could not be sent nobody has
\* begun to consume.)
ConsumersEnd == \A s \in Subs : s \in closed ~> consumer[s] \in {"absent", "done"}

\* The newest message has arrived: the client was shown it; the database holds
\* it, unless the save of this very state raised.
UpToDate(s) ==
    IF s = Persister THEN published[StateTopic] \in {row, raised}
    ELSE shown[s] # <<>> /\ Last(shown[s]) = published[TopicOf[s]]

\* The bus has disconnected s, whose consumer knows nothing of it yet.
Disconnected(s) == s \in closed /\ consumer[s] # "done"

\* The other end is gone: the client, or the hub that is shut down.
Left(s) == IF s = Persister THEN consumer[s] = "done" /\ socket = "ended" ELSE ~peer

\* A subscriber catches up with its topic when publishers pause, unless the bus
\* disconnects it: the console is shown, and the database holds, the newest
\* message, whatever became of the saves of older ones.  (With NothingMissed,
\* all of those of a DISCONNECT_SLOW topic.)
Delivered ==
    \A s \in Subs :
        s \in subs /\ first[s] < published[TopicOf[s]] ~> UpToDate(s) \/ Disconnected(s) \/ Left(s)

\* A client that is gone is noticed at the first event for it, and its handler
\* ends.  (Without an event it waits on; see Runtime.)
LeavingIsNoticed ==
    ~peer /\ (socket \in {"snapshot", "sending"} \/ merged # <<>>) ~> socket = "ended"
=============================================================================
