-------------------------- MODULE MCDrivenSession --------------------------
(* DrivenSession with two loopback requests at a time beside the worker. *)
EXTENDS DrivenSession, TLC

Symmetry == Permutations(Handler) \cup Permutations(Claim) \cup Permutations(Ask)
============================================================================
