-------------------------------- MODULE Site --------------------------------
(***************************************************************************)
(* The doors with the two lists that say who comes to them: the cascade of *)
(* the dispatcher and what other sites' programs may ask (index.ts,        *)
(* cors.ts).  A scene may ask every path by one method and nothing else.   *)
(***************************************************************************)
EXTENDS AgentTools, Routes

ASSUME SiteAssumption ==
  /\ Paths \subseteq Seq(STRING)
  /\ \A s \in Scenes : s.trial.kind = "method" => s.trial.of \in Methods

\* The two lists agree on every path and method: what an allowed origin's
\* program may call are the doors that ask for a header, all of them, and never
\* a page or form of the operator's browser, the console or the consent screen
\* (isCorsEligible against the dispatcher); an origin that is not configured, or
\* is badly written on either side, is granted nothing.
CorsOpensOnlyTokenDoors == scene.trial.kind = "method" => Agree(scene.trial.of)
=============================================================================
