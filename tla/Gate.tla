-------------------------------- MODULE Gate --------------------------------
(* agent/policy.py: the policy gate, and core/registry.py: the catalogue it *)
(* filters.  A policy is what Gate.__init__ makes of policy.yaml; a tool is *)
(* a pair of a module and a name.  The value of an argument is known by     *)
(* what a constraint can ask of it.                                         *)
EXTENDS Naturals

CONSTANT NoRule  \* the rule of a tool that is named in `rules' without a body

\* A tool whose name begins with "__".
Reserved(tool) == tool[2] = "__health"

----------------------------------------------------------------------------
(* Gate.__init__: the defaults of what a policy leaves out *)

DefaultDeny(policy) == policy.default # "allow"

\* Principal: the classes it has to have confirmed and the tools it is denied
\* (those one of its patterns matches).  Nobody is restricted by default.
Unrestricted == [confirm |-> {}, deny |-> {}]

Principal(policy, who) ==
    IF who \in DOMAIN policy.principals THEN policy.principals[who] ELSE Unrestricted

\* self._rules.get(key) is not None
HasRule(policy, tool) == tool \in DOMAIN policy.rules /\ policy.rules[tool] # NoRule

Rule(policy, tool) ==
    IF HasRule(policy, tool) THEN policy.rules[tool] ELSE [class |-> "read", constraints |-> <<>>]

----------------------------------------------------------------------------
(* evaluate() and visible_to() *)

\* _check: every constraint that is there holds.  A regular expression is the
\* set of strings it finds; only a number can be compared with a range.
Check(constraint, value) ==
    /\ "in" \in DOMAIN constraint => value \in constraint.in
    /\ "matches" \in DOMAIN constraint => value \in constraint.matches
    /\ "range" \in DOMAIN constraint =>
          value.number /\ constraint.range[1] <= value.n /\ value.n <= constraint.range[2]
    /\ "max_len" \in DOMAIN constraint => value.len <= constraint.max_len

\* The rule describes every argument of the call.  An argument that is left
\* out is not asked for.
Describes(constraints, args) ==
    \A a \in DOMAIN args : a \in DOMAIN constraints /\ Check(constraints[a], args[a])

Evaluate(policy, who, tool, args) ==
    LET rule == Rule(policy, tool)
    IN  IF \/ ~HasRule(policy, tool) /\ DefaultDeny(policy)
           \/ tool \in Principal(policy, who).deny
           \/ ~Describes(rule.constraints, args)
        THEN "deny"
        ELSE IF rule.class \in Principal(policy, who).confirm THEN "confirm" ELSE "allow"

\* Seeded fault: the catalogue does not look at the principal.
VisibleTo_Anyone(policy, who, tool) == tool \in DOMAIN policy.rules \/ ~DefaultDeny(policy)

VisibleTo(policy, who, tool) ==
    /\ tool \in DOMAIN policy.rules \/ ~DefaultDeny(policy)
    /\ tool \notin Principal(policy, who).deny

----------------------------------------------------------------------------
(* Registry: `state' is Module.state, `tools' are those of the handshakes *)

ListTools(state, tools) == {t \in tools : state[t[1]] = "ready" /\ ~Reserved(t)}

AgentCatalog(policy, who, state, tools) == {t \in ListTools(state, tools) : VisibleTo(policy, who, t)}
=============================================================================
