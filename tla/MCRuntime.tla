----------------------------- MODULE MCRuntime -----------------------------
(* Runtime with two runs, two modules, and a routine of each kind.          *)
EXTENDS Runtime, TLC

CONSTANTS r1, r2, light, lock, socket1

On == <<light, "on">>
Color == <<light, "color">>
Unlock == <<lock, "unlock">>
Health == <<lock, "__health">>
Tools == {On, Color, Unlock, Health}

Level(n) == [number |-> TRUE, n |-> n, len |-> 2]
Step(tool, args) == [tool |-> tool, args |-> args]

MCSchedules ==
    "morning" :> [cron |-> "good", steps |-> <<Step(On, [level |-> Level(40)]), Step(Color, <<>>)>>]
 @@ "leave"   :> [cron |-> "none", steps |-> <<Step(Unlock, <<>>), Broken>>]
 @@ "typo"    :> [cron |-> "bad",  steps |-> <<Step(On, [level |-> Level(40), tone |-> Level(1)])>>]

\* A rule with constraints, one without, one without a body.
Rules ==
    On     :> [class |-> "write", constraints |-> [level |-> [range |-> <<1, 100>>, max_len |-> 3]]]
 @@ Unlock :> [class |-> "destructive", constraints |-> <<>>]

Named(confirm, deny) == [confirm |-> confirm, deny |-> deny]

MCPolicies ==
    {[default |-> d, rules |-> Rules, principals |-> "agent" :> Named({"destructive"}, {}) @@ "scheduler" :> p] :
        d \in {"deny", "allow"}, p \in {Named({}, {Unlock}), Named({"destructive"}, {})}}
    \cup {[default |-> "deny", rules |-> Rules @@ (Color :> NoRule), principals |-> <<>>]}
=============================================================================
