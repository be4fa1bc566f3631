--------------------------- MODULE MCTurnLifecycle ---------------------------
(* TurnLifecycle on small instances. *)
EXTENDS TurnLifecycle, TLC

\* The lock pair's jobs: the turns and one upkeep job per client.
MCJobs == (1..MaxTurns) \cup {Upkeep}

Symmetry == Permutations(Clients)
==============================================================================
