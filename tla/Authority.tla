----------------------------- MODULE Authority -----------------------------
(* What the gated call path promises, without locks, queues, awaits or the  *)
(* order of database statements: a task performs a call at most once, and   *)
(* only on a right that the policy gave it outright, or that it got by      *)
(* answering a question, for the call the question froze.  Only an open     *)
(* question is taken up.  Several tasks may have it in hand when one of     *)
(* them answers it: each of the others still may (ModuleApi.tla).           *)
CONSTANTS Tasks, Modules, Ops, Principals, Subject, Policy, NoJob

VARIABLES
    standing, \* of each task: none, granted, spent or void
    grant,    \* the call a granted or spent right is for
    holding,  \* the question a task has in hand, if any
    question  \* what each asking task asked, and how it was answered last

vars == <<standing, grant, holding, question>>

\* What the policy says of the call j.
Verdict(j) == Policy[j.principal, j.module, j.op]

Wish == [principal : Principals, module : Modules, op : Ops]

Init ==
    /\ standing = [t \in Tasks |-> "none"]
    /\ grant = [t \in Tasks |-> NoJob]
    /\ holding = [t \in Tasks |-> {}]
    /\ question = [t \in Tasks |-> [status |-> "none", job |-> NoJob]]

\* The standing of t becomes s, its right is for j, and its hand is empty.
Becomes(t, s, j) ==
    /\ standing' = [standing EXCEPT ![t] = s]
    /\ grant' = [grant EXCEPT ![t] = j]
    /\ holding' = [holding EXCEPT ![t] = {}]

\* The right is given, and perhaps used at once.
Permit(t, j) ==
    /\ Verdict(j) = "allow"
    /\ standing[t] = "none" /\ holding[t] = {}
    /\ \E s \in {"granted", "spent"} : Becomes(t, s, j)
    /\ UNCHANGED question

Ask(t, j) ==
    /\ Verdict(j) = "confirm"
    /\ standing[t] = "none" /\ holding[t] = {} /\ question[t].status = "none"
    /\ Becomes(t, "void", NoJob)
    /\ question' = [question EXCEPT ![t] = [status |-> "pending", job |-> j]]

TakeUp(t, q) ==
    /\ standing[t] = "none" /\ holding[t] = {}
    /\ question[q].status = "pending"
    /\ holding' = [holding EXCEPT ![t] = {q}]
    /\ UNCHANGED <<standing, grant, question>>

\* The question in hand is answered; the right may be lost on the way.
Approve(t, q) ==
    /\ standing[t] = "none" /\ q \in holding[t]
    /\ question' = [question EXCEPT ![q].status = "confirmed"]
    /\ \/ Becomes(t, "granted", [question[q].job EXCEPT !.principal = Subject])
       \/ Becomes(t, "void", NoJob)

Lapse(t, q) ==
    /\ standing[t] = "none" /\ q \in holding[t]
    /\ question' = [question EXCEPT ![q].status = "expired"]
    /\ Becomes(t, "void", NoJob)

Perform(t) ==
    /\ standing[t] = "granted"
    /\ standing' = [standing EXCEPT ![t] = "spent"]
    /\ UNCHANGED <<grant, holding, question>>

\* A refusal, a cancellation, or a crash of everything under way.
Abandon(S) ==
    /\ \A t \in S : standing[t] \in {"none", "granted"}
    /\ standing' = [t \in Tasks |-> IF t \in S THEN "void" ELSE standing[t]]
    /\ grant' = [t \in Tasks |-> IF t \in S THEN NoJob ELSE grant[t]]
    /\ holding' = [t \in Tasks |-> IF t \in S THEN {} ELSE holding[t]]
    /\ UNCHANGED question

Next ==
    \/ \E t \in Tasks :
          \/ \E j \in Wish : Permit(t, j) \/ Ask(t, j)
          \/ \E q \in Tasks : TakeUp(t, q) \/ Approve(t, q) \/ Lapse(t, q)
          \/ Perform(t)
    \/ \E S \in SUBSET Tasks : Abandon(S)

Spec == Init /\ [][Next]_vars
=============================================================================
