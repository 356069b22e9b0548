------------------------------ MODULE AgentAccess ------------------------------
(***************************************************************************)
(* The two doors of an agent.  Door B is a row of agent_keys (D1), for ever *)
(* or for a short while; door A is a grant of an OAuth client (KV) that the *)
(* table oauth_clients (D1) binds to the agent.  The operator mints, binds, *)
(* deletes, prunes and kills; an agent that is in may mint itself a short   *)
(* lived key.  D1 and KV share no transaction, so each of these is a        *)
(* sequence of calls, and a request may end between any two of them.        *)
(***************************************************************************)
EXTENDS Naturals

CONSTANTS
  Agents, Clients, Keys,  \* identifiers the generators may draw, each once
  Requests,               \* requests in flight at a time
  None,
  MinTtl, MaxTtl,         \* the clamp of a publish credential's lifetime
  Ttls,                   \* lifetimes agents ask for
  MaxNow                  \* bound on time

ASSUME AccessAssumption ==
  /\ MinTtl \in Nat /\ MaxTtl \in Nat /\ MinTtl <= MaxTtl
  /\ Ttls \subseteq Nat
  /\ MaxNow \in Nat
  /\ None \notin Nat \cup Agents \cup Clients \cup Keys

VARIABLES
  agents,         \* rows of agents
  agent_keys,     \* rows of agent_keys, by id
  oauth_clients,  \* oauth_clients: client_id -> agent_id
  kv,             \* client records in OAUTH_KV
  grants,         \* <<client, agent>>: grants with live tokens in OAUTH_KV
  drawn,          \* identifiers drawn so far
  now,
  req,            \* requests in flight
  killing,        \* agents whose kill was asked for and not yet answered ok
  shut            \* agents killed, with no door opened by the operator since

d1 == <<agents, agent_keys, oauth_clients>>
oauth == <<kv, grants>>
intent == <<killing, shut>>
vars == <<d1, oauth, drawn, now, req, intent>>

Idle == [at |-> "idle", agent |-> None, client |-> None, key |-> None,
         expires |-> None, todo |-> {}]

Start(r, label, a, c) ==
  req' = [req EXCEPT ![r] = [Idle EXCEPT !.at = label, !.agent = a, !.client = c]]
Goto(r, label) == req' = [req EXCEPT ![r].at = label]
End(r) == req' = [req EXCEPT ![r] = Idle]
At(r, label) == req[r].at = label

Put(f, x, y) == [z \in DOMAIN f \cup {x} |-> IF z = x THEN y ELSE f[z]]
Without(f, S) == [z \in DOMAIN f \ S |-> f[z]]

IsKeyExpired(expires_at) == expires_at # None /\ expires_at <= now

\* authenticateAgent: door B.
Authenticates(k) ==
  /\ k \in DOMAIN agent_keys
  /\ agent_keys[k].revoked_at = None
  /\ ~IsKeyExpired(agent_keys[k].expires_at)

KeysOf(a) == {k \in DOMAIN agent_keys : agent_keys[k].agent = a}
ClientsOf(a) == {c \in DOMAIN oauth_clients : oauth_clients[c] = a}
GrantsOf(a) == {g \in grants : g[2] = a}

\* The agent gets in through one door or the other.
HasDoor(a) == GrantsOf(a) # {} \/ \E k \in KeysOf(a) : Authenticates(k)

-----------------------------------------------------------------------------
(* Minting agents and keys.                                                *)

\* mintAgentCore: one batch.
MintAgent ==
  \E a \in Agents \ drawn, k \in Keys \ drawn :
    /\ agents' = agents \cup {a}
    /\ agent_keys' = Put(agent_keys, k, [agent |-> a, expires_at |-> None, revoked_at |-> None])
    /\ drawn' = drawn \cup {a, k}
    /\ UNCHANGED <<oauth_clients, oauth, now, req, intent>>

\* mintAgentKeyCore looks the agent up.
BeginMintKey(r, a) ==
  /\ At(r, "idle") /\ a \in agents
  /\ Start(r, "mint", a, None)
  /\ shut' = shut \ {a}
  /\ UNCHANGED <<d1, oauth, drawn, now, killing>>

\* An agent that is in calls create_publish_credential ...
BeginCredential(r, a) ==
  /\ At(r, "idle") /\ HasDoor(a)
  /\ Start(r, "stamp", a, None)
  /\ UNCHANGED <<d1, oauth, drawn, now, intent>>

Clamped(ttl) == CASE ttl < MinTtl -> MinTtl
                  [] ttl > MaxTtl -> MaxTtl
                  [] OTHER -> ttl

\* ... whose expiry is computed before its row is inserted.
StampCredential(r) ==
  /\ At(r, "stamp")
  /\ \E ttl \in Ttls :
       req' = [req EXCEPT ![r].at = "mint", ![r].expires = now + Clamped(ttl)]
  /\ UNCHANGED <<d1, oauth, drawn, now, intent>>

InsertKey(r) ==
  /\ At(r, "mint")
  /\ \E k \in Keys \ drawn :
       /\ agent_keys' = Put(agent_keys, k,
            [agent |-> req[r].agent, expires_at |-> req[r].expires, revoked_at |-> None])
       /\ drawn' = drawn \cup {k}
  /\ End(r)
  /\ UNCHANGED <<agents, oauth_clients, oauth, now, intent>>

-----------------------------------------------------------------------------
(* Revoking and pruning keys.                                              *)

BeginRevokeKey(r, k) ==
  /\ At(r, "idle")
  /\ k \in DOMAIN agent_keys /\ agent_keys[k].revoked_at = None
  /\ req' = [req EXCEPT ![r] = [Idle EXCEPT !.at = "revoke", !.key = k]]
  /\ UNCHANGED <<d1, oauth, drawn, now, intent>>

\* The UPDATE names the row by id only; a row pruned since is no row.
RevokeKey(r) ==
  /\ At(r, "revoke")
  /\ agent_keys' = [k \in DOMAIN agent_keys |->
       IF k = req[r].key THEN [agent_keys[k] EXCEPT !.revoked_at = now] ELSE agent_keys[k]]
  /\ End(r)
  /\ UNCHANGED <<agents, oauth_clients, oauth, drawn, now, intent>>

\* Fault: every key that has an expiry goes.
PrunesEphemeral(key, cutoff) == key.expires_at # None
PrunesExpired(key, cutoff) == key.expires_at # None /\ key.expires_at < cutoff
PrunesRevoked(key, cutoff) == key.revoked_at # None /\ key.revoked_at < cutoff

\* pruneAgentKeysCore: one DELETE, with a cutoff computed before it; for
\* revoked keys the cutoff lies at least a day back.
Prune ==
  /\ \E cutoff \in 0..now :
       \/ agent_keys' = Without(agent_keys,
            {k \in DOMAIN agent_keys : PrunesExpired(agent_keys[k], cutoff)})
       \/ agent_keys' = Without(agent_keys,
            {k \in DOMAIN agent_keys : PrunesRevoked(agent_keys[k], cutoff)})
  /\ UNCHANGED <<agents, oauth_clients, oauth, drawn, now, req, intent>>

-----------------------------------------------------------------------------
(* OAuth clients.                                                          *)

\* createUnboundOAuthClientCore, and a client that registers itself.
RegisterClient ==
  \E c \in Clients \ drawn :
    /\ kv' = kv \cup {c}
    /\ drawn' = drawn \cup {c}
    /\ UNCHANGED <<d1, grants, now, req, intent>>

\* createOAuthClientCore: the agent exists and has no client yet.
BeginCreateClient(r, a) ==
  /\ At(r, "idle") /\ a \in agents /\ ClientsOf(a) = {}
  /\ Start(r, "provision", a, None)
  /\ shut' = shut \ {a}
  /\ UNCHANGED <<d1, oauth, drawn, now, killing>>

ProvisionClient(r) ==
  /\ At(r, "provision")
  /\ \E c \in Clients \ drawn :
       /\ kv' = kv \cup {c}
       /\ drawn' = drawn \cup {c}
       /\ req' = [req EXCEPT ![r].at = "pin", ![r].client = c]
  /\ UNCHANGED <<d1, grants, now, intent>>

\* Fault: one row per client, any number per agent.
UniqueClient(c, a) == c \notin DOMAIN oauth_clients
\* The primary key and the unique index of oauth_clients.
UniqueRow(c, a) == c \notin DOMAIN oauth_clients /\ ClientsOf(a) = {}

PinClient(r) ==
  /\ At(r, "pin")
  /\ IF UniqueRow(req[r].client, req[r].agent)
       THEN oauth_clients' = Put(oauth_clients, req[r].client, req[r].agent)
       ELSE UNCHANGED oauth_clients
  /\ End(r)
  /\ UNCHANGED <<agents, agent_keys, oauth, drawn, now, intent>>

\* A client that registered itself lapses at its absolute age; any client of
\* the model may be one.
ExpireClient(c) ==
  /\ c \in kv
  /\ kv' = kv \ {c}
  /\ UNCHANGED <<d1, grants, drawn, now, req, intent>>

\* deleteOAuthClientCore: a bound client, or else one that KV still knows.
BeginDeleteClient(r, c) ==
  /\ At(r, "idle")
  /\ IF c \in DOMAIN oauth_clients
       THEN Start(r, "delete_bound", None, c)
       ELSE Start(r, "lookup", None, c)
  /\ UNCHANGED <<d1, oauth, drawn, now, intent>>

LookupUnbound(r) ==
  /\ At(r, "lookup")
  /\ IF req[r].client \in kv THEN Goto(r, "delete_unbound") ELSE End(r)
  /\ UNCHANGED <<d1, oauth, drawn, now, intent>>

\* OAUTH_PROVIDER.deleteClient: the record, its grants and their tokens.
ProviderDeletes(c) ==
  /\ kv' = kv \ {c}
  /\ grants' = {g \in grants : g[1] # c}

DeleteAtProvider(r) ==
  /\ req[r].at \in {"delete_bound", "delete_unbound"}
  /\ ProviderDeletes(req[r].client)
  /\ IF At(r, "delete_bound") THEN Goto(r, "drop") ELSE End(r)
  /\ UNCHANGED <<d1, drawn, now, intent>>

DropRow(r) ==
  /\ At(r, "drop")
  /\ oauth_clients' = Without(oauth_clients, {req[r].client})
  /\ End(r)
  /\ UNCHANGED <<agents, agent_keys, oauth, drawn, now, intent>>

-----------------------------------------------------------------------------
(* Consent.                                                                *)

\* postAuthorize, action allow: the provider parses the request of a client it
\* knows; a bound client's agent is the binding's, an unbound one's is the
\* operator's choice, an existing agent or a new one.
BeginConsent(r, c, a) ==
  /\ At(r, "idle") /\ c \in kv
  /\ \/ /\ ClientsOf(a) = {c}
        /\ Start(r, "complete", a, c)
     \/ /\ c \notin DOMAIN oauth_clients /\ a \in agents
        /\ Start(r, "bind", a, c)
     \/ /\ c \notin DOMAIN oauth_clients /\ a = None
        /\ Start(r, "bind_new", None, c)
  /\ shut' = shut \ {a}
  /\ UNCHANGED <<d1, oauth, drawn, now, killing>>

BindExisting(r) ==
  /\ At(r, "bind")
  /\ IF UniqueRow(req[r].client, req[r].agent)
       THEN /\ oauth_clients' = Put(oauth_clients, req[r].client, req[r].agent)
            /\ Goto(r, "verify")
       ELSE End(r) /\ UNCHANGED oauth_clients
  /\ UNCHANGED <<agents, agent_keys, oauth, drawn, now, intent>>

\* Fault: the agent's row is not in the binding's batch.
BornAnyway(c, a) == {a}
\* Fault: the binding goes in without its agent.
BornLater(c, a) == {}
\* The batch is all or nothing.
BornWithBinding(c, a) == IF UniqueRow(c, a) THEN {a} ELSE {}

BindNew(r) ==
  /\ At(r, "bind_new")
  /\ \E a \in Agents \ drawn :
       /\ drawn' = drawn \cup {a}
       /\ agents' = agents \cup BornWithBinding(req[r].client, a)
       /\ IF UniqueRow(req[r].client, a)
            THEN /\ oauth_clients' = Put(oauth_clients, req[r].client, a)
                 /\ req' = [req EXCEPT ![r].at = "verify", ![r].agent = a]
            ELSE End(r) /\ UNCHANGED oauth_clients
  /\ UNCHANGED <<agent_keys, oauth, now, intent>>

\* The binding is read back.
VerifyBinding(r) ==
  /\ At(r, "verify")
  /\ IF req[r].client \in ClientsOf(req[r].agent) THEN Goto(r, "complete") ELSE End(r)
  /\ UNCHANGED <<d1, oauth, drawn, now, intent>>

\* completeAuthorization refuses a client KV no longer knows.
CompleteAuthorization(r) ==
  /\ At(r, "complete")
  /\ grants' = IF req[r].client \in kv
                 THEN grants \cup {<<req[r].client, req[r].agent>>} ELSE grants
  /\ End(r)
  /\ UNCHANGED <<d1, kv, drawn, now, intent>>

-----------------------------------------------------------------------------
(* revokeAgentCore, the kill switch of an agent.                           *)

\* Fault: an agent without a live key is taken for killed.
KillableWhileKeyed(a) == \E k \in KeysOf(a) : agent_keys[k].revoked_at = None
Killable(a) == a \in agents

BeginKill(r, a) ==
  /\ At(r, "idle") /\ Killable(a)
  /\ Start(r, "kill_keys", a, None)
  /\ killing' = killing \cup {a}
  /\ UNCHANGED <<d1, oauth, drawn, now, shut>>

\* Fault: a key with an expiry is left to expire.
KillsPermanent(key, a) == key.agent = a /\ key.revoked_at = None /\ key.expires_at = None
KillsKey(key, a) == key.agent = a /\ key.revoked_at = None

KillKeys(r) ==
  /\ At(r, "kill_keys")
  /\ agent_keys' = [k \in DOMAIN agent_keys |->
       IF KillsKey(agent_keys[k], req[r].agent)
         THEN [agent_keys[k] EXCEPT !.revoked_at = now] ELSE agent_keys[k]]
  /\ Goto(r, "kill_list")
  /\ UNCHANGED <<agents, oauth_clients, oauth, drawn, now, intent>>

Answer(r) ==
  /\ End(r)
  /\ killing' = killing \ {req[r].agent}
  /\ shut' = shut \cup {req[r].agent}

ListClients(r) ==
  /\ At(r, "kill_list")
  /\ IF ClientsOf(req[r].agent) = {}
       THEN Answer(r)
       ELSE /\ req' = [req EXCEPT ![r].at = "kill_clients", ![r].todo = ClientsOf(req[r].agent)]
            /\ UNCHANGED intent
  /\ UNCHANGED <<d1, oauth, drawn, now>>

KillClient(r) ==
  /\ At(r, "kill_clients")
  /\ \E c \in req[r].todo :
       /\ ProviderDeletes(c)
       /\ req' = [req EXCEPT ![r].todo = @ \ {c},
                             ![r].at = IF req[r].todo = {c} THEN "kill_rows" ELSE @]
  /\ UNCHANGED <<d1, drawn, now, intent>>

\* Fault: the loop swallows the error and goes on to the rows.
CarryOn(r) == Goto(r, "kill_rows")
\* The answer is partial; the operator retries.
Partial(r) == End(r)

KillClientFails(r) ==
  /\ At(r, "kill_clients")
  /\ Partial(r)
  /\ UNCHANGED <<d1, oauth, drawn, now, intent>>

KillRows(r) ==
  /\ At(r, "kill_rows")
  /\ oauth_clients' = Without(oauth_clients, ClientsOf(req[r].agent))
  /\ Answer(r)
  /\ UNCHANGED <<agents, agent_keys, oauth, drawn, now>>

-----------------------------------------------------------------------------
\* A throw, or an isolate that dies, between any two calls.
Abandon(r) ==
  /\ ~At(r, "idle")
  /\ End(r)
  /\ UNCHANGED <<d1, oauth, drawn, now, intent>>

Tick ==
  /\ now < MaxNow
  /\ now' = now + 1
  /\ UNCHANGED <<d1, oauth, drawn, req, intent>>

Init ==
  /\ agents = {}
  /\ agent_keys = [k \in {} |-> None]
  /\ oauth_clients = [c \in {} |-> None]
  /\ kv = {} /\ grants = {} /\ drawn = {}
  /\ now = 0
  /\ req = [r \in Requests |-> Idle]
  /\ killing = {} /\ shut = {}

Begin(r) ==
  \/ \E a \in Agents :
       BeginMintKey(r, a) \/ BeginCredential(r, a) \/ BeginCreateClient(r, a) \/ BeginKill(r, a)
  \/ \E k \in Keys : BeginRevokeKey(r, k)
  \/ \E c \in Clients : BeginDeleteClient(r, c) \/ \E a \in Agents \cup {None} : BeginConsent(r, c, a)

Continue(r) ==
  \/ StampCredential(r) \/ InsertKey(r) \/ RevokeKey(r)
  \/ ProvisionClient(r) \/ PinClient(r)
  \/ LookupUnbound(r) \/ DeleteAtProvider(r) \/ DropRow(r)
  \/ BindExisting(r) \/ BindNew(r) \/ VerifyBinding(r) \/ CompleteAuthorization(r)
  \/ KillKeys(r) \/ ListClients(r) \/ KillClient(r) \/ KillClientFails(r) \/ KillRows(r)

Next ==
  \/ \E r \in Requests : Begin(r) \/ Continue(r) \/ Abandon(r)
  \/ MintAgent \/ Prune \/ RegisterClient \/ Tick
  \/ \E c \in Clients : ExpireClient(c)

Spec == Init /\ [][Next]_vars

\* Every request is resumed or killed; the operator re-issues a kill that was
\* not answered ok; no call, attempted again and again, fails for ever.
Fairness ==
  \A r \in Requests :
    /\ WF_vars(Continue(r) \/ Abandon(r))
    /\ \A a \in Agents :
         /\ SF_vars(a \in killing /\ BeginKill(r, a))
         /\ SF_vars(req[r].agent = a /\ KillKeys(r))
         /\ SF_vars(req[r].agent = a /\ ListClients(r))
         /\ SF_vars(req[r].agent = a /\ KillClient(r))
         /\ SF_vars(req[r].agent = a /\ KillRows(r))

FairSpec == Spec /\ Fairness

-----------------------------------------------------------------------------
(* Properties.                                                             *)

Labels == {"idle", "mint", "stamp", "revoke", "provision", "pin", "delete_bound",
           "lookup", "delete_unbound", "drop", "bind", "bind_new", "verify", "complete",
           "kill_keys", "kill_list", "kill_clients", "kill_rows"}
KeyRow == [agent : Agents, expires_at : Nat \cup {None}, revoked_at : Nat \cup {None}]
Request == [at : Labels, agent : Agents \cup {None}, client : Clients \cup {None},
            key : Keys \cup {None}, expires : Nat \cup {None}, todo : SUBSET Clients]

\* Every table holds rows of its type, and every row's agent exists.
TypeOK ==
  /\ agents \subseteq Agents
  /\ DOMAIN agent_keys \subseteq Keys
  /\ \A k \in DOMAIN agent_keys : agent_keys[k] \in KeyRow /\ agent_keys[k].agent \in agents
  /\ DOMAIN oauth_clients \subseteq Clients
  /\ \A c \in DOMAIN oauth_clients : oauth_clients[c] \in agents
  /\ kv \subseteq Clients
  /\ grants \subseteq Clients \X agents
  /\ drawn \subseteq Agents \cup Clients \cup Keys
  /\ now \in Nat
  /\ req \in [Requests -> Request]
  /\ killing \subseteq agents /\ shut \subseteq agents

\* However consents and mints race, an agent is bound to one client at most
\* (the constraint is the authority, never the look before it).
OneClientPerAgent ==
  \A c, d \in DOMAIN oauth_clients : oauth_clients[c] = oauth_clients[d] => c = d

\* A consent that loses the race for its client leaves no agent behind: an
\* agent comes into being with a key or with a binding.
NoOrphanAgents ==
  [][\A a \in agents' \ agents :
       \/ \E k \in DOMAIN agent_keys' : agent_keys'[k].agent = a
       \/ \E c \in DOMAIN oauth_clients' : oauth_clients'[c] = a]_vars

\* Pruning is housekeeping: no key that a row was deleted of could still
\* authenticate, whatever the clock said when the cutoff was computed.
PruneIsInert ==
  [][\A k \in DOMAIN agent_keys \ DOMAIN agent_keys' : ~Authenticates(k)]_vars

\* A killed agent is out by both doors, until the operator opens one.
KilledStaysOut == \A a \in shut : ~HasDoor(a)

\* Every grant is of a client bound to the grant's agent, so what a version
\* records of its author and his client agrees with the binding.
GrantsFollowBinding ==
  \A g \in grants : g[1] \in DOMAIN oauth_clients /\ oauth_clients[g[1]] = g[2]

\* A kill that failed half-way, or died, completes when it is repeated.
KillCompletes == \A a \in Agents : a \in killing ~> a \notin killing
=============================================================================
