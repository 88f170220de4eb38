---------------------------- MODULE MCSupervisor ----------------------------
(* Supervisor on one or two modules.                                        *)
EXTENDS Supervisor, TLC

MCSymmetry == Permutations(Modules)
=============================================================================
