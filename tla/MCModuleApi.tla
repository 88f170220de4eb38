---------------------------- MODULE MCModuleApi ----------------------------
(* ModuleApi on a small instance: an agent that needs a confirmation to     *)
(* unlock, a scheduler that may not unlock at all (config/policy.yaml).     *)
EXTENDS ModuleApi, TLC

CONSTANTS agent, scheduler, user, read, unlock


MCOps == {read, unlock}
MCPolicy ==
    [x \in Principals \X Modules \X MCOps |->
        IF x[3] = read THEN "allow" ELSE IF x[1] = agent THEN "confirm" ELSE "deny"]
MCAdvertised == Modules \X MCOps
MCSymmetry == Permutations(Tasks \ Cancellable)
=============================================================================
