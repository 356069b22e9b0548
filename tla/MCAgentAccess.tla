----------------------------- MODULE MCAgentAccess -----------------------------
(* Instances of AgentAccess for TLC. *)
EXTENDS AgentAccess, TLC

\* Identifiers are drawn by chance: none is special.
Symmetry ==
  Permutations(Agents) \cup Permutations(Clients) \cup Permutations(Keys)
    \cup Permutations(Requests)
=============================================================================
