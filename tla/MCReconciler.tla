----------------------------- MODULE MCReconciler -----------------------------
(* Instances of Reconciler for TLC. *)
EXTENDS Reconciler, TLC

Everything == [granted |-> {"scheduler", "memory"}, kinds |-> Kinds]
SchedulerOnly == [granted |-> {"scheduler"}, kinds |-> Kinds]
NothingGranted == [granted |-> {}, kinds |-> Kinds]
\* A build older than memory.remember.
OlderBuild == [granted |-> {"scheduler", "memory"}, kinds |-> Kinds \ {"memory.remember"}]

OnlyEverything == {Everything}
MixedGrants == {Everything, SchedulerOnly, NothingGranted, OlderBuild}
\* Specs and ids are only compared.
Alike == Permutations(Specs) \cup Permutations(RoutineIds)
===============================================================================
