------------------------------ MODULE Sessions ------------------------------
(***************************************************************************)
(* Who a request speaks for (auth.ts, session.ts, access.ts).  A session   *)
(* is a signed, expiring value the server keeps no record of: it carries   *)
(* the instants it was minted at and lapses at and the nonce that unsafe   *)
(* calls must repeat, under a key derived from the operator's token and    *)
(* the epoch the deployment is configured with.                            *)
(*                                                                         *)
(* env is what the worker's bindings hold: the operator's token, the       *)
(* epoch, the clock and the agent keys that authenticate (AgentAccess      *)
(* models how those come and go).  Tokens, epochs and nonces are numbers,  *)
(* 0 where the request carries none; a signature is the key it was made    *)
(* with.                                                                   *)
(***************************************************************************)
EXTENDS Integers

CONSTANTS
  TTL,     \* SESSION_TTL_SECONDS, in ticks of the clock
  None

\* What a session's cookie says.
Session == [iat : Nat, exp : Nat, csrf : Int, sig : Nat \X Nat]

ASSUME SessionsAssumption == TTL \in Nat \ {0} /\ None \notin Session

\* A caller's credentials: the Authorization header, the session cookie, the
\* nonce in the x-csrf-token header or the form, and the form's token field.
Anonymous == [bearer |-> None, cookie |-> None, csrf |-> 0, operator_token |-> 0]
Bearer(token) == [Anonymous EXCEPT !.bearer = token]
OperatorToken(n) == <<"operator", n>>
AgentKey(k) == <<"agent", k>>

AuthenticateOperator(env, bearer) == bearer = OperatorToken(env.token)
AuthenticateAgent(env, bearer) == \E k \in env.keys : bearer = AgentKey(k)

DeriveSigningKey(env) == <<env.token, env.epoch>>

MintSessionCookieValue(env, nonce) ==
  [iat |-> env.now, exp |-> env.now + TTL, csrf |-> nonce, sig |-> DeriveSigningKey(env)]

IsValidPayload(session, now) == session.exp > session.iat /\ now < session.exp

VerifySessionCookieValue(env, session) ==
  /\ session # None
  /\ session.sig = DeriveSigningKey(env)
  /\ IsValidPayload(session, env.now)

\* By header first, by cookie otherwise, or not at all.
AuthenticateOperatorRequest(env, c) ==
  CASE AuthenticateOperator(env, c.bearer) -> "bearer"
    [] ~AuthenticateOperator(env, c.bearer) /\ VerifySessionCookieValue(env, c.cookie) -> "cookie"
    [] OTHER -> "none"

\* Fault: any nonce will do.
AnyNonce(submitted, nonce) == submitted # 0
CsrfMatches(submitted, nonce) == submitted # 0 /\ nonce # 0 /\ submitted = nonce

\* The JSON doors of the operator: a cookie on an unsafe method needs its nonce.
RequireOperator(env, c, unsafe) ==
  \/ AuthenticateOperatorRequest(env, c) = "bearer"
  \/ /\ AuthenticateOperatorRequest(env, c) = "cookie"
     /\ unsafe => CsrfMatches(c.csrf, c.cookie.csrf)

\* The manage page's forms: a pasted token decides alone, right or wrong.
AuthorizeOperatorForm(env, c) ==
  IF c.operator_token # 0
    THEN AuthenticateOperator(env, OperatorToken(c.operator_token))
    ELSE RequireOperator(env, c, TRUE)

\* The revoke form takes a pasted token or a session, and no header.
AuthorizeRevokeForm(env, c) ==
  IF c.operator_token # 0
    THEN AuthenticateOperator(env, OperatorToken(c.operator_token))
    ELSE /\ AuthenticateOperatorRequest(env, c) = "cookie"
         /\ CsrfMatches(c.csrf, c.cookie.csrf)

\* operator, then agent, then anonymous.
ResolvePrincipal(env, c) ==
  CASE AuthenticateOperatorRequest(env, c) # "none" -> "operator"
    [] AuthenticateOperatorRequest(env, c) = "none" /\ AuthenticateAgent(env, c.bearer) -> "agent"
    [] OTHER -> "anonymous"

\* The doors a fleet member reads by, and the two he classifies by.
RequireReader(env, c) == ResolvePrincipal(env, c) # "anonymous"

\* Fault: whoever knows the address reads.
ReadsAll(principal, visibility) == TRUE
CanRead(principal, visibility) == principal # "anonymous" \/ visibility = "public"
=============================================================================
