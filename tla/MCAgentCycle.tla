---------------------------- MODULE MCAgentCycle ----------------------------
(* Instances of AgentCycle for TLC; the policies are interchangeable. *)
EXTENDS AgentCycle, TLC

PolicySymmetry == Permutations(Policies)
=============================================================================
