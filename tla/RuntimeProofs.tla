--------------------------- MODULE RuntimeProofs ---------------------------
(* Proofs about Runtime.tla: the order of the shutdown, what routines       *)
(* report, and the agreement of catalogue and gate.                         *)
EXTENDS Runtime, TLAPS

----------------------------------------------------------------------------
(* The catalogue *)

\* A call without arguments is denied only by the rule or the principal.
LEMMA NoArguments ==
    ASSUME NEW p, NEW who, NEW tool
    PROVE  (Evaluate(p, who, tool, <<>>) = "deny") =
              ((~HasRule(p, tool) /\ DefaultDeny(p)) \/ tool \in Principal(p, who).deny)
<1>1. DOMAIN <<>> = {}
  OBVIOUS
<1>2. Describes(Rule(p, tool).constraints, <<>>)
  BY <1>1 DEF Describes
<1> QED BY <1>2 DEF Evaluate

\* Catalogue and gate agree whatever the policy, the principals, the tools of
\* the modules and their states are; no invariant is needed.
LEMMA Agreement == CatalogAgrees
<1> SUFFICES ASSUME NEW who \in DOMAIN policy.principals \cup {"stranger"}, NEW tool \in Advertised,
                    ~(DefaultDeny(policy) /\ tool \in DOMAIN policy.rules /\ ~HasRule(policy, tool))
             PROVE  (tool \in AgentCatalog(policy, who, state, Advertised)) =
                       (~Rejected(tool) /\ Evaluate(policy, who, tool, <<>>) # "deny")
  BY DEF CatalogAgrees
<1>1. VisibleTo(policy, who, tool) <=> Evaluate(policy, who, tool, <<>>) # "deny"
  BY NoArguments DEF VisibleTo, HasRule
<1>2. tool \in AgentCatalog(policy, who, state, Advertised) <=>
        state[tool[1]] = "ready" /\ ~Reserved(tool) /\ VisibleTo(policy, who, tool)
  BY DEF AgentCatalog, ListTools
<1>3. ~Rejected(tool) <=> state[tool[1]] = "ready" /\ ~Reserved(tool)
  BY DEF Rejected
<1> QED BY <1>1, <1>2, <1>3

\* What the agent is shown is what it may call: registry.py and policy.py
\* decide alike, for every policy.
THEOREM CatalogMatchesGate == FairSpec => []CatalogAgrees
BY Agreement, PTL

----------------------------------------------------------------------------
(* What a routine reports *)

Ran == {"ok", "failed"}
Outcomes == Ran \cup {"refused", "rejected"}

\* The steps among the results rs whose request went to a module.
Executed(rs) == {i \in DOMAIN rs : rs[i] \in Ran}

AllOk(rs) == \A i \in DOMAIN rs : rs[i] = "ok"
OkButLast(rs) == \A i \in DOMAIN rs : i # Len(rs) => rs[i] = "ok"

\* The next step of a run after the results rs.
Next1(rs) == Len(rs) + 1

RunTypeOK ==
    /\ run \in [Runs -> [id : DOMAIN Schedules \cup {"none"}, by : {"cron", "hand", "nobody"}]]
    /\ pc \in [Runs -> {"idle", "called", "done", "raised", "cancelled"}]
    /\ results \in [Runs -> Seq(Outcomes)]
    /\ fired \in [Runs -> Seq([ok : BOOLEAN, results : Seq(Outcomes)])]
    /\ reached \in [Runs -> SUBSET Nat]

\* A run that is under way has had success so far, has a step to come, and
\* that step is with a module if the gate allows it.
UnderWay(r) ==
    LET rs == results[r]
    IN  /\ run[r].id \in DOMAIN Schedules /\ run[r].by \in {"cron", "hand"}
        /\ Len(rs) < Len(Steps(run[r].id))
        /\ reached[r] = Executed(rs) \cup
              (IF Decision(Steps(run[r].id)[Next1(rs)]) = "allow" THEN {Next1(rs)} ELSE {})

\* A run that is through has told of all its steps, or of all up to one that
\* was not carried out.
Through(r) ==
    LET rs == results[r]
    IN  /\ AllOk(rs) => Len(rs) = Len(Steps(run[r].id))
        /\ Len(rs) <= Len(Steps(run[r].id))
        /\ reached[r] = Executed(rs)
        /\ fired[r] = <<[ok |-> ~Failed(rs), results |-> rs]>>

Told(r) ==
    LET rs == results[r]
    IN  /\ OkButLast(rs)
        /\ pc[r] = "idle" => rs = <<>> /\ reached[r] = {}
        /\ pc[r] # "done" => AllOk(rs) /\ fired[r] = <<>>
        /\ pc[r] = "called" => UnderWay(r)
        /\ pc[r] = "done" => Through(r)
        /\ reached[r] \in {Executed(rs), Executed(rs) \cup {Next1(rs)}}

RunInv == RunTypeOK /\ \A r \in Runs : Told(r)

\* RunInv implies what the runs check.
LEMMA ToldIsTruthful == RunInv => FiredTruthful
<1> SUFFICES ASSUME RunTypeOK, NEW r \in Runs, Told(r)
             PROVE  LET rs == results[r]
                        under == IF pc[r] \in {"called", "cancelled", "raised"} THEN {Len(rs) + 1} ELSE {}
                    IN  /\ IF pc[r] = "done"
                           THEN /\ Len(fired[r]) = 1 /\ fired[r][1].results = rs
                                /\ fired[r][1].ok =
                                      (reached[r] = 1 .. Len(Steps(run[r].id))
                                          /\ \A i \in DOMAIN rs : rs[i] = "ok")
                           ELSE fired[r] = <<>>
                        /\ {i \in DOMAIN rs : rs[i] \in {"ok", "failed"}} \subseteq reached[r]
                        /\ reached[r] \subseteq {i \in DOMAIN rs : rs[i] \in {"ok", "failed"}} \cup under
                        /\ \A i \in reached[r], j \in DOMAIN rs : j < i => rs[j] = "ok"
  BY DEF RunInv, FiredTruthful
<1> DEFINE rs == results[r]
<1>1. rs \in Seq(Outcomes) /\ DOMAIN rs = 1 .. Len(rs) /\ Len(rs) \in Nat
  BY DEF RunTypeOK
<1>2. ASSUME pc[r] = "done"
      PROVE  /\ Len(fired[r]) = 1 /\ fired[r][1].results = rs
             /\ fired[r][1].ok = (reached[r] = 1 .. Len(Steps(run[r].id)) /\ AllOk(rs))
  <2>1. Through(r) /\ OkButLast(rs)
    BY <1>2 DEF Told
  <2>2. Len(fired[r]) = 1 /\ fired[r][1] = [ok |-> ~Failed(rs), results |-> rs]
    BY <2>1 DEF Through
  <2>3. ~Failed(rs) <=> AllOk(rs)
    BY <1>1, <2>1 DEF Failed, AllOk, OkButLast
  <2>4. AllOk(rs) => reached[r] = 1 .. Len(Steps(run[r].id))
    BY <1>1, <2>1 DEF Through, AllOk, Executed, Ran
  <2> QED BY <2>2, <2>3, <2>4
<1>3. pc[r] # "done" => fired[r] = <<>>
  BY DEF Told
<1>4. Executed(rs) \subseteq reached[r]
  BY DEF Told
<1>5. reached[r] \subseteq
         Executed(rs) \cup (IF pc[r] \in {"called", "cancelled", "raised"} THEN {Len(rs) + 1} ELSE {})
  <2>1. CASE pc[r] \in {"called", "cancelled", "raised"}
    BY <2>1 DEF Told, Next1
  <2>2. CASE pc[r] = "done"
    BY <2>2 DEF Told, Through
  <2>3. CASE pc[r] = "idle"
    BY <2>3 DEF Told
  <2> QED BY <2>1, <2>2, <2>3 DEF RunTypeOK
<1>6. ASSUME NEW i \in reached[r], NEW j \in DOMAIN rs, j < i
      PROVE  rs[j] = "ok"
  <2>1. CASE i \in DOMAIN rs
    BY <1>1, <1>6, <2>1 DEF Told, OkButLast
  <2>2. CASE i \notin DOMAIN rs
    <3>1. pc[r] # "done"
      BY <2>2 DEF Told, Through, Executed
    <3> QED BY <3>1 DEF Told, AllOk
  <2> QED BY <2>1, <2>2
<1> QED BY <1>2, <1>3, <1>4, <1>5, <1>6 DEF AllOk, Executed, Ran

\* The steps of a routine are a sequence.
LEMMA StepsAreSeq ==
    ASSUME NEW id \in DOMAIN Schedules
    PROVE  Len(Steps(id)) \in Nat /\ DOMAIN Steps(id) = 1 .. Len(Steps(id))
BY SchedulerAssumption DEF Steps

\* Nothing of the runs other than r changes.
OnlyRun(r) ==
    /\ policy' = policy
    /\ \A q \in Runs \ {r} :
          /\ run'[q] = run[q] /\ pc'[q] = pc[q] /\ results'[q] = results[q]
          /\ fired'[q] = fired[q] /\ reached'[q] = reached[q]

LEMMA OthersTold ==
    ASSUME NEW r \in Runs, OnlyRun(r), NEW q \in Runs \ {r}, Told(q)
    PROVE  Told(q)'
BY DEF OnlyRun, Told, UnderWay, Through, Decision, OkButLast, AllOk, Executed, Next1, Failed

\* A run that goes on after the results rs of a routine has told the truth if
\* rs are what became of the steps so far.
LEMMA GoesOnTold ==
    ASSUME RunTypeOK, run' \in [Runs -> [id : DOMAIN Schedules \cup {"none"}, by : {"cron", "hand", "nobody"}]],
           NEW r \in Runs, NEW id \in DOMAIN Schedules, NEW rs \in Seq(Outcomes), policy' = policy,
           run'[r].id = id, run'[r].by \in {"cron", "hand"},
           AllOk(results[r]), fired[r] = <<>>,
           reached[r] \in {Executed(results[r]), Executed(results[r]) \cup {Next1(results[r])}},
           OkButLast(rs), Len(rs) <= Len(Steps(id)), reached[r] = Executed(rs),
           GoesOn(r, Steps(id), rs)
    PROVE  RunTypeOK' /\ Told(r)'
<1> USE DEF RunTypeOK
<1>0. Len(rs) \in Nat /\ DOMAIN rs = 1 .. Len(rs) /\ Len(Steps(id)) \in Nat
  BY StepsAreSeq
<1>1. ASSUME NEW ts \in Seq(Outcomes), Ends(r, ts), OkButLast(ts), Len(ts) <= Len(Steps(id)),
             reached[r] = Executed(ts), AllOk(ts) => Len(ts) = Len(Steps(id))
      PROVE  RunTypeOK' /\ Told(r)'
  <2>1. RunTypeOK'
    <3>1. [ok |-> ~Failed(ts), results |-> ts] \in [ok : BOOLEAN, results : Seq(Outcomes)]
      BY DEF Failed
    <3>2. fired' = [fired EXCEPT ![r] = <<[ok |-> ~Failed(ts), results |-> ts]>>]
      BY <1>1 DEF Ends
    <3>3. fired' \in [Runs -> Seq([ok : BOOLEAN, results : Seq(Outcomes)])]
      <4> DEFINE event == [ok |-> ~Failed(ts), results |-> ts]
                 Events == [ok : BOOLEAN, results : Seq(Outcomes)]
      <4>1. event \in Events
        BY <3>1
      <4> HIDE DEF event, Events
      <4>2. <<event>> \in Seq(Events)
        BY <4>1
      <4> QED BY <3>2, <4>2 DEF event, Events
    <3>4. /\ pc' \in [Runs -> {"idle", "called", "done", "raised", "cancelled"}]
          /\ results' \in [Runs -> Seq(Outcomes)] /\ reached' = reached
      BY <1>1 DEF Ends
    <3> QED BY <3>3, <3>4
  <2>2. /\ pc'[r] = "done" /\ results'[r] = ts /\ reached'[r] = Executed(ts)
        /\ fired'[r] = <<[ok |-> ~Failed(ts), results |-> ts]>>
    BY <1>1 DEF Ends
  <2> QED BY <1>1, <2>1, <2>2 DEF Told, Through, Executed, OkButLast, AllOk, Failed, Next1
<1>2. ASSUME Raised(r)
      PROVE  RunTypeOK' /\ Told(r)'
  <2>1. /\ pc'[r] = "raised" /\ results'[r] = results[r] /\ reached'[r] = reached[r]
        /\ fired'[r] = fired[r] /\ RunTypeOK'
    BY <1>2 DEF Raised
  <2> QED BY <2>1 DEF Told, OkButLast, AllOk, Executed, Next1
<1>3. CASE Failed(rs) \/ Len(rs) = Len(Steps(id))
  <2>1. Failed(rs) => ~AllOk(rs)
    <3>1. rs # <<>> => Len(rs) \in DOMAIN rs
      BY <1>0
    <3> QED BY <3>1 DEF Failed, AllOk
  <2> QED BY <1>1, <1>3, <2>1 DEF GoesOn
<1>4. CASE ~Failed(rs) /\ Len(rs) # Len(Steps(id))
  <2> DEFINE step == Steps(id)[Len(rs) + 1]
  <2>1. AllOk(rs) /\ Len(rs) + 1 <= Len(Steps(id))
    BY <1>0, <1>4 DEF Failed, AllOk, OkButLast
  <2>2. CASE step = Broken
    BY <1>2, <1>4, <2>2 DEF GoesOn
  <2>3. CASE step # Broken /\ Rejected(step.tool)
    <3> DEFINE ts == Append(rs, "rejected")
    <3>1. ts \in Seq(Outcomes) /\ Len(ts) = Len(rs) + 1 /\ ts[Len(ts)] = "rejected"
          /\ \A i \in 1 .. Len(rs) : ts[i] = rs[i]
      BY <1>0 DEF Outcomes
    <3>2. OkButLast(ts) /\ ~AllOk(ts) /\ Executed(ts) = Executed(rs)
      <4> HIDE DEF ts
      <4>1. DOMAIN ts = 1 .. Len(rs) + 1
        BY <3>1
      <4>2. \A i \in 1 .. Len(rs) : ts[i] = "ok" /\ rs[i] = "ok"
        BY <1>0, <2>1, <3>1 DEF AllOk
      <4>3. OkButLast(ts)
        BY <1>0, <3>1, <4>1, <4>2 DEF OkButLast
      <4>5. ~AllOk(ts)
        <5>1. Len(rs) + 1 \in DOMAIN ts /\ ts[Len(rs) + 1] # "ok"
          BY <1>0, <3>1, <4>1
        <5> QED BY <5>1 DEF AllOk
      <4>4. Executed(ts) = 1 .. Len(rs) /\ Executed(rs) = 1 .. Len(rs)
        BY <1>0, <3>1, <4>1, <4>2 DEF Executed, Ran
      <4> QED BY <4>3, <4>4, <4>5
    <3>3. Ends(r, ts)
      BY <1>4, <2>3 DEF GoesOn
    <3> QED BY <1>1, <2>1, <3>1, <3>2, <3>3
  <2>4. CASE step # Broken /\ ~Rejected(step.tool)
    <3>1. Calls(r, step, rs)
      BY <1>4, <2>4 DEF GoesOn
    <3>2. /\ pc'[r] = "called" /\ results'[r] = rs /\ fired'[r] = fired[r]
          /\ reached'[r] = IF Decision(step) = "allow" THEN reached[r] \cup {Len(rs) + 1} ELSE reached[r]
      BY <3>1 DEF Calls
    <3>3. RunTypeOK'
      <4>1. pc' \in [Runs -> {"idle", "called", "done", "raised", "cancelled"}]
        BY <3>1 DEF Calls
      <4>2. results' \in [Runs -> Seq(Outcomes)] /\ fired' = fired
        BY <3>1 DEF Calls
      <4>3. reached' \in [Runs -> SUBSET Nat]
        BY <1>0, <3>1 DEF Calls
      <4> QED BY <4>1, <4>2, <4>3
    <3>4. UnderWay(r)'
      BY <1>0, <2>1, <3>2 DEF UnderWay, Executed, Next1, Decision
    <3> QED BY <2>1, <3>2, <3>3, <3>4 DEF Told, OkButLast, AllOk, Executed, Next1
  <2> QED BY <2>2, <2>3, <2>4
<1> QED BY <1>3, <1>4

\* GoesOn, whatever comes of it, changes one run.
LEMMA GoesOnOnly ==
    ASSUME RunTypeOK, NEW r \in Runs, NEW steps, NEW rs, GoesOn(r, steps, rs), policy' = policy,
           \A q \in Runs \ {r} : run'[q] = run[q]
    PROVE  OnlyRun(r)
<1>1. Ends(r, rs) \/ Ends(r, Append(rs, "rejected")) \/ Raised(r) \/ Calls(r, steps[Len(rs) + 1], rs)
  BY DEF GoesOn
<1>2. ASSUME NEW ts, Ends(r, ts)
      PROVE  OnlyRun(r)
  BY <1>2 DEF Ends, OnlyRun, RunTypeOK
<1>3. ASSUME Raised(r)
      PROVE  OnlyRun(r)
  BY <1>3 DEF Raised, OnlyRun, RunTypeOK
<1>4. ASSUME Calls(r, steps[Len(rs) + 1], rs)
      PROVE  OnlyRun(r)
  BY <1>4 DEF Calls, OnlyRun, RunTypeOK
<1> QED BY <1>1, <1>2, <1>3, <1>4

LEMMA BeginsTold ==
    ASSUME RunInv, NEW r \in Runs, NEW id \in DOMAIN Schedules, NEW by \in {"cron", "hand"}, Begins(r, id, by)
    PROVE  RunInv'
<1>1. /\ Told(r) /\ pc[r] = "idle" /\ policy' = policy /\ GoesOn(r, Steps(id), <<>>)
      /\ run' = [run EXCEPT ![r] = [id |-> id, by |-> by]]
  BY DEF RunInv, Begins
<1>2. run' \in [Runs -> [id : DOMAIN Schedules \cup {"none"}, by : {"cron", "hand", "nobody"}]]
  BY <1>1 DEF RunInv, RunTypeOK
<1>3. run'[r].id = id /\ run'[r].by \in {"cron", "hand"} /\ \A q \in Runs \ {r} : run'[q] = run[q]
  BY <1>1 DEF RunInv, RunTypeOK
<1>4. /\ results[r] = <<>> /\ reached[r] = {} /\ fired[r] = <<>>
      /\ AllOk(<<>>) /\ OkButLast(<<>>) /\ Executed(<<>>) = {} /\ Len(<<>>) = 0 /\ <<>> \in Seq(Outcomes)
  BY <1>1 DEF Told, AllOk, OkButLast, Executed
<1>5. Len(<<>>) <= Len(Steps(id))
  BY <1>4, StepsAreSeq
<1>6. RunTypeOK' /\ Told(r)'
  BY <1>1, <1>2, <1>3, <1>4, <1>5, GoesOnTold DEF RunInv
<1>7. OnlyRun(r)
  BY <1>1, <1>3, GoesOnOnly DEF RunInv
<1> QED BY <1>6, <1>7, OthersTold DEF RunInv

LEMMA StepReturnsTold ==
    ASSUME RunInv, NEW r \in Runs, NEW result, StepReturns(r, result)
    PROVE  RunInv'
<1> DEFINE rs == results[r]
           id == run[r].id
           ts == Append(rs, result)
           step == Steps(id)[Len(rs) + 1]
<1>1. /\ Told(r) /\ pc[r] = "called" /\ policy' = policy /\ run' = run /\ GoesOn(r, Steps(id), ts)
      /\ result \in IF Decision(step) = "allow" THEN {"ok", "failed"} ELSE {"refused"}
  BY DEF RunInv, StepReturns
<1>2. /\ UnderWay(r) /\ AllOk(rs) /\ fired[r] = <<>>
      /\ reached[r] \in {Executed(rs), Executed(rs) \cup {Next1(rs)}}
  BY <1>1 DEF Told
<1>3. id \in DOMAIN Schedules /\ run[r].by \in {"cron", "hand"} /\ Len(rs) < Len(Steps(id))
  BY <1>2 DEF UnderWay
<1>4. rs \in Seq(Outcomes) /\ Len(rs) \in Nat /\ DOMAIN rs = 1 .. Len(rs) /\ result \in Outcomes
  BY <1>1 DEF RunInv, RunTypeOK, Outcomes, Ran
<1>5. /\ ts \in Seq(Outcomes) /\ Len(ts) = Len(rs) + 1 /\ DOMAIN ts = 1 .. Len(rs) + 1
      /\ ts[Len(rs) + 1] = result /\ \A i \in 1 .. Len(rs) : ts[i] = rs[i]
  BY <1>4
<1> HIDE DEF ts
<1>6. OkButLast(ts)
  BY <1>2, <1>4, <1>5 DEF OkButLast, AllOk
<1>7. Len(ts) <= Len(Steps(id))
  BY <1>3, <1>4, <1>5, StepsAreSeq
<1>8. reached[r] = Executed(ts)
  <2>1. Executed(ts) = Executed(rs) \cup (IF result \in Ran THEN {Len(rs) + 1} ELSE {})
    BY <1>4, <1>5 DEF Executed
  <2>2. result \in Ran <=> Decision(step) = "allow"
    BY <1>1 DEF Ran
  <2> QED BY <1>2, <2>1, <2>2 DEF UnderWay, Next1
<1>9. RunTypeOK' /\ Told(r)'
  BY <1>1, <1>2, <1>3, <1>5, <1>6, <1>7, <1>8, GoesOnTold DEF RunInv, RunTypeOK
<1>10. OnlyRun(r)
  BY <1>1, GoesOnOnly DEF RunInv
<1> QED BY <1>9, <1>10, OthersTold DEF RunInv

LEMMA StepRaisesTold ==
    ASSUME RunInv, NEW r \in Runs, StepRaises(r)
    PROVE  RunInv'
<1>1. Told(r) /\ pc[r] = "called" /\ policy' = policy /\ run' = run /\ Raised(r)
  BY DEF RunInv, StepRaises
<1>2. RunTypeOK' /\ OnlyRun(r) /\ pc'[r] = "raised"
  BY <1>1 DEF RunInv, RunTypeOK, Raised, OnlyRun
<1>3. Told(r)'
  BY <1>1, <1>2 DEF Told, Raised, OkButLast, AllOk, Executed, Next1
<1> QED BY <1>2, <1>3, OthersTold DEF RunInv

LEMMA HaltsTold ==
    ASSUME RunInv, Halts
    PROVE  RunInv'
<1>1. /\ policy' = policy /\ run' = run /\ results' = results /\ fired' = fired /\ reached' = reached
      /\ pc' = [r \in Runs |-> IF r \in Active("cron") THEN "cancelled" ELSE pc[r]]
  BY DEF Halts
<1>2. RunTypeOK'
  BY <1>1 DEF RunInv, RunTypeOK
<1>3. ASSUME NEW r \in Runs
      PROVE  Told(r)'
  <2>1. Told(r)
    BY DEF RunInv
  <2>2. CASE r \in Active("cron")
    BY <1>1, <2>1, <2>2 DEF Active, Told, OkButLast, AllOk, Executed, Next1
  <2>3. CASE r \notin Active("cron")
    BY <1>1, <2>1, <2>3 DEF Told, UnderWay, Through, Decision, OkButLast, AllOk, Executed, Next1, Failed
  <2> QED BY <2>2, <2>3
<1> QED BY <1>2, <1>3 DEF RunInv

LEMMA UntouchedTold ==
    ASSUME RunInv, UNCHANGED <<policy, runVars>>
    PROVE  RunInv'
<1>1. RunTypeOK'
  BY DEF RunInv, RunTypeOK, runVars
<1>2. ASSUME NEW r \in Runs
      PROVE  Told(r)'
  <2>1. Told(r)
    BY DEF RunInv
  <2> QED BY <2>1 DEF runVars, Told, UnderWay, Through, Decision, OkButLast, AllOk, Executed, Next1, Failed
<1> QED BY <1>1, <1>2 DEF RunInv

LEMMA RunInvInit == Init => RunInv
<1> SUFFICES ASSUME Init PROVE RunInv
  OBVIOUS
<1>1. RunTypeOK
  BY DEF Init, SchedulerInit, RunTypeOK, NoRun
<1>2. ASSUME NEW r \in Runs
      PROVE  Told(r)
  BY DEF Init, SchedulerInit, Told, OkButLast, AllOk, Executed
<1> QED BY <1>1, <1>2 DEF RunInv

LEMMA RunInvStep == RunInv /\ [Next]_vars => RunInv'
<1> SUFFICES ASSUME RunInv, [Next]_vars PROVE RunInv'
  OBVIOUS
<1>1. ASSUME NEW r \in Runs, RunGoesOn(r)
      PROVE  RunInv'
  BY <1>1, StepReturnsTold, StepRaisesTold DEF RunGoesOn
<1>2. ASSUME NEW r \in Runs, NEW id \in DOMAIN Schedules, ByCron(r, id) \/ ByHand(r, id)
      PROVE  RunInv'
  BY <1>2, BeginsTold DEF ByCron, CronFires, ByHand, RunManually
<1>3. ASSUME NEW m \in Modules, ModuleChanges(m)
      PROVE  RunInv'
  BY <1>3, UntouchedTold DEF ModuleChanges, ModuleMoves
<1>4. ASSUME NEW s \in Sockets, Connects(s) \/ Disconnects(s) \/ HandlerEnds(s)
      PROVE  RunInv'
  BY <1>4, UntouchedTold DEF Connects, Disconnects, HandlerEnds, schedulerVars
<1>5. CASE LogLine
  BY <1>5, UntouchedTold DEF LogLine, schedulerVars
<1>6. CASE JobsHalt
  BY <1>6, HaltsTold DEF JobsHalt
<1>7. CASE Starts \/ RequestStop \/ Drained \/ ModulesStop \/ StoreCloses \/ Done
  BY <1>7, UntouchedTold
     DEF Starts, RequestStop, Drained, ModulesStop, StoreCloses, Done, vars, schedulerVars
<1>8. CASE UNCHANGED vars
  BY <1>8, UntouchedTold DEF vars, schedulerVars
<1> QED BY <1>1, <1>2, <1>3, <1>4, <1>5, <1>6, <1>7, <1>8 DEF Next

\* A routine that came to an end has published one event, and it is true: it
\* was a success exactly if every step was asked of its module and succeeded.
THEOREM RoutinesReport == FairSpec => []FiredTruthful
BY RunInvInit, RunInvStep, ToldIsTruthful, PTL DEF FairSpec

----------------------------------------------------------------------------
(* The shutdown *)

Gone == {"none", "closed"}

\* What each stage of Runtime.run has behind it.
StageInv ==
    /\ at \in {"starting", "serving", "draining", "stopping", "closing", "stopped"}
    /\ should_exit = (at \notin {"starting", "serving"})
    /\ jobs \in CASE at = "starting" -> {"off"}
                  [] at \in {"serving", "draining"} -> {"running"}
                  [] at = "stopping" -> {"stopping", "off"}
                  [] OTHER -> {"off"}

\* Once the server is gone, no routine by hand and no socket is left; once the
\* scheduler is, no run of a job.
NothingLeft ==
    /\ at \in {"stopping", "closing", "stopped"} =>
          Active("hand") = {} /\ \A s \in Sockets : socket[s] \in Gone
    /\ jobs = "off" => Active("cron") = {}

SocketTypeOK == socket \in [Sockets -> {"none", "live", "parked", "woken", "closed"}]

ShutdownInv == RunInv /\ SocketTypeOK /\ StageInv /\ NothingLeft

LEMMA StagesAreOrdered == ShutdownInv => ShutdownOrder
<1> SUFFICES ASSUME ShutdownInv, at \in {"closing", "stopped"}
             PROVE  jobs = "off" /\ (\A r \in Runs : pc[r] # "called") /\ \A s \in Sockets : socket[s] \in Gone
  BY DEF ShutdownOrder, Gone
<1>1. jobs = "off" /\ Active("cron") = {} /\ Active("hand") = {} /\ \A s \in Sockets : socket[s] \in Gone
  BY DEF ShutdownInv, StageInv, NothingLeft
<1>2. ASSUME NEW r \in Runs, pc[r] = "called"
      PROVE  FALSE
  BY <1>1, <1>2 DEF ShutdownInv, RunInv, Told, UnderWay, Active
<1> QED BY <1>1, <1>2

\* Events end handlers, and begin none.
LEMMA PublishedEnds ==
    ASSUME SocketTypeOK, Published
    PROVE  SocketTypeOK' /\ \A s \in Sockets : socket[s] \in Gone => socket'[s] \in Gone
BY DEF SocketTypeOK, Published, Wake, Gone

\* A run that begins or goes on is active, if at all, for whom it was begun.
LEMMA BeginsActive ==
    ASSUME RunTypeOK, NEW r \in Runs, NEW id, NEW by, Begins(r, id, by), NEW who, who # by
    PROVE  Active(who)' \subseteq Active(who)
<1>1. OnlyRun(r) /\ run'[r].by = by
  BY GoesOnOnly DEF Begins, RunTypeOK
<1> QED BY <1>1 DEF OnlyRun, Active

LEMMA GoesOnActive ==
    ASSUME RunTypeOK, NEW r \in Runs, RunGoesOn(r), NEW who
    PROVE  Active(who)' \subseteq Active(who)
<1>1. OnlyRun(r) /\ run' = run /\ pc[r] = "called"
  BY GoesOnOnly DEF RunGoesOn, StepReturns, StepRaises, Raised, OnlyRun, RunTypeOK
<1> QED BY <1>1 DEF OnlyRun, Active

LEMMA ShutdownInvInit == Init => ShutdownInv
<1> SUFFICES ASSUME Init PROVE ShutdownInv
  OBVIOUS
<1>1. RunInv
  BY RunInvInit
<1>2. SocketTypeOK /\ StageInv
  BY DEF Init, SchedulerInit, SocketTypeOK, StageInv
<1>3. NothingLeft
  BY DEF Init, SchedulerInit, NothingLeft, Active
<1> QED BY <1>1, <1>2, <1>3 DEF ShutdownInv

LEMMA ShutdownInvStep == ShutdownInv /\ [Next]_vars => ShutdownInv'
<1> SUFFICES ASSUME ShutdownInv, [Next]_vars PROVE ShutdownInv'
  OBVIOUS
<1> USE DEF ShutdownInv, SocketTypeOK
<1>0. RunInv'
  BY RunInvStep
<1>1. ASSUME NEW r \in Runs, RunGoesOn(r)
      PROVE  ShutdownInv'
  <2>1. UNCHANGED <<at, should_exit, jobs>> /\ Published
    BY <1>1 DEF RunGoesOn, StepReturns, StepRaises
  <2>2. Active("hand")' \subseteq Active("hand") /\ Active("cron")' \subseteq Active("cron")
    BY <1>1, GoesOnActive DEF RunInv
  <2> QED BY <1>0, <2>1, <2>2, PublishedEnds DEF StageInv, NothingLeft
<1>2. ASSUME NEW r \in Runs, NEW id \in DOMAIN Schedules, ByCron(r, id)
      PROVE  ShutdownInv'
  <2>1. UNCHANGED <<at, should_exit, jobs>> /\ Published /\ jobs # "off" /\ Begins(r, id, "cron")
    BY <1>2 DEF ByCron, CronFires
  <2>2. Active("hand")' \subseteq Active("hand")
    BY <2>1, BeginsActive DEF RunInv
  <2> QED BY <1>0, <2>1, <2>2, PublishedEnds DEF StageInv, NothingLeft
<1>3. ASSUME NEW r \in Runs, NEW id \in DOMAIN Schedules, ByHand(r, id)
      PROVE  ShutdownInv'
  <2>1. UNCHANGED <<at, should_exit, jobs>> /\ Published /\ Begins(r, id, "hand") /\ at = "serving"
    BY <1>3 DEF ByHand, Serving, RunManually, StageInv
  <2>2. Active("cron")' \subseteq Active("cron")
    BY <2>1, BeginsActive DEF RunInv
  <2> QED BY <1>0, <2>1, <2>2, PublishedEnds DEF StageInv, NothingLeft
<1>4. ASSUME NEW m \in Modules, ModuleChanges(m)
      PROVE  ShutdownInv'
  <2>1. UNCHANGED <<at, should_exit, jobs, runVars>> /\ Published
    BY <1>4 DEF ModuleChanges, ModuleMoves
  <2> QED BY <1>0, <2>1, PublishedEnds DEF StageInv, NothingLeft, Active, runVars
<1>5. CASE LogLine
  <2>1. UNCHANGED <<at, should_exit, jobs, runVars>>
    BY <1>5 DEF LogLine, schedulerVars
  <2>2. SocketTypeOK' /\ \A s \in Sockets : socket[s] \in Gone => socket'[s] \in Gone
    BY <1>5 DEF LogLine, Wake, Gone
  <2> QED BY <1>0, <2>1, <2>2 DEF StageInv, NothingLeft, Active, runVars
<1>6. ASSUME NEW s \in Sockets, Connects(s)
      PROVE  ShutdownInv'
  BY <1>0, <1>6 DEF Connects, Serving, StageInv, NothingLeft, Active, schedulerVars, runVars
<1>7. ASSUME NEW s \in Sockets, Disconnects(s)
      PROVE  ShutdownInv'
  BY <1>0, <1>7 DEF Disconnects, StageInv, NothingLeft, Active, schedulerVars, runVars, Gone
<1>8. ASSUME NEW s \in Sockets, HandlerEnds(s)
      PROVE  ShutdownInv'
  BY <1>0, <1>8 DEF HandlerEnds, StageInv, NothingLeft, Active, schedulerVars, runVars, Gone
<1>9. CASE JobsHalt
  <2>1. UNCHANGED <<at, should_exit, run>> /\ Published /\ at = "stopping" /\ jobs' = "off"
    BY <1>9 DEF JobsHalt, Halts, StageInv
  <2>2. Active("hand")' \subseteq Active("hand") /\ Active("cron")' = {}
    BY <1>9 DEF JobsHalt, Halts, Active
  <2> QED BY <1>0, <2>1, <2>2, PublishedEnds DEF StageInv, NothingLeft
<1>10. CASE Starts \/ RequestStop \/ StoreCloses \/ Done \/ UNCHANGED vars
  BY <1>0, <1>10
     DEF Starts, RequestStop, StoreCloses, Done, StageInv, NothingLeft, Active, vars, schedulerVars, runVars
<1>11. CASE Drained
  BY <1>0, <1>11 DEF Drained, Idle, Gone, StageInv, NothingLeft, Active, runVars
<1>12. CASE ModulesStop
  BY <1>0, <1>12 DEF ModulesStop, StageInv, NothingLeft, Active, runVars
<1> QED BY <1>1, <1>2, <1>3, <1>4, <1>5, <1>6, <1>7, <1>8, <1>9, <1>10, <1>11, <1>12 DEF Next

\* Modules and the store outlive every routine and every handler of a socket,
\* for any number of them and any moment of the signal.
THEOREM ModulesOutliveRoutines == FairSpec => []ShutdownOrder
BY ShutdownInvInit, ShutdownInvStep, StagesAreOrdered, PTL DEF FairSpec
=============================================================================
