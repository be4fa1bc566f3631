---------------------------- MODULE MCApprovalGate ----------------------------
(* ApprovalGate on small instances. *)
EXTENDS ApprovalGate, TLC

\* Processes and turns are interchangeable.
Symmetry == Permutations(Gates) \cup Permutations(Turns)
==============================================================================
