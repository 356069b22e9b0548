--------------------------- MODULE AgentAccessProofs ---------------------------
(***************************************************************************)
(* The doors of an agent, for any number of requests in flight: a binding  *)
(* is one to one, no agent is an orphan, pruning takes no key that opens   *)
(* anything.  And, as long as no request opens a door while another closes *)
(* one, a killed agent stays out and every grant follows its binding.      *)
(***************************************************************************)
EXTENDS AgentAccess, TLAPS

\* A row the constraints admit leaves every agent with one client.
LEMMA AdmittedRow ==
  ASSUME OneClientPerAgent, NEW c, NEW a, UniqueRow(c, a),
         oauth_clients' = Put(oauth_clients, c, a)
  PROVE  OneClientPerAgent'
<1>1. DOMAIN oauth_clients' = DOMAIN oauth_clients \cup {c}
  BY DEF Put
<1>2. oauth_clients'[c] = a
  BY DEF Put
<1>3. \A d \in DOMAIN oauth_clients : d # c /\ oauth_clients'[d] = oauth_clients[d] /\ oauth_clients[d] # a
  BY DEF Put, UniqueRow, ClientsOf
<1> QED BY <1>1, <1>2, <1>3 DEF OneClientPerAgent

\* Rows that leave take nothing with them.
LEMMA FewerRows ==
  ASSUME OneClientPerAgent, NEW S, oauth_clients' = Without(oauth_clients, S)
  PROVE  OneClientPerAgent'
<1>1. DOMAIN oauth_clients' = DOMAIN oauth_clients \ S
  BY DEF Without
<1>2. \A d \in DOMAIN oauth_clients' : oauth_clients'[d] = oauth_clients[d]
  BY DEF Without
<1> QED BY <1>1, <1>2 DEF OneClientPerAgent

\* Rows nobody touches stay as they are.
LEMMA SameRows == OneClientPerAgent /\ UNCHANGED oauth_clients => OneClientPerAgent'
BY DEF OneClientPerAgent

\* What opens a request writes no row.
LEMMA BeginKeeps ==
  ASSUME NEW r \in Requests, Begin(r)
  PROVE  UNCHANGED oauth_clients
BY DEF Begin, BeginMintKey, BeginCredential, BeginCreateClient, BeginKill, BeginRevokeKey,
   BeginDeleteClient, BeginConsent, d1

\* Each later step of a request admits a row, drops some, or leaves them alone.
LEMMA ContinueKeeps ==
  ASSUME OneClientPerAgent, NEW r \in Requests, Continue(r)
  PROVE  OneClientPerAgent'
<1>1. CASE PinClient(r)
  BY <1>1, AdmittedRow, SameRows DEF PinClient
<1>2. CASE BindExisting(r)
  BY <1>2, AdmittedRow, SameRows DEF BindExisting
<1>3. CASE BindNew(r)
  <2>1. PICK a : IF UniqueRow(req[r].client, a)
                   THEN oauth_clients' = Put(oauth_clients, req[r].client, a)
                   ELSE UNCHANGED oauth_clients
    BY <1>3 DEF BindNew
  <2> QED BY <2>1, AdmittedRow, SameRows
<1>4. CASE DropRow(r)
  BY <1>4, FewerRows DEF DropRow
<1>5. CASE KillRows(r)
  BY <1>5, FewerRows DEF KillRows
<1>6. CASE StampCredential(r) \/ InsertKey(r) \/ RevokeKey(r) \/ ProvisionClient(r)
           \/ LookupUnbound(r) \/ DeleteAtProvider(r) \/ VerifyBinding(r)
           \/ CompleteAuthorization(r) \/ KillKeys(r) \/ ListClients(r)
           \/ KillClient(r) \/ KillClientFails(r)
  <2>1. UNCHANGED oauth_clients
    BY <1>6 DEF StampCredential, InsertKey, RevokeKey, ProvisionClient, LookupUnbound,
       DeleteAtProvider, VerifyBinding, CompleteAuthorization, KillKeys, ListClients,
       KillClient, KillClientFails, d1
  <2> QED BY <2>1, SameRows
<1> QED BY <1>1, <1>2, <1>3, <1>4, <1>5, <1>6 DEF Continue

\* However many requests race to bind clients and agents, a binding is one to
\* one: the constraints of oauth_clients are enough, whatever was looked up.
THEOREM AtMostOneClient == Spec => []OneClientPerAgent
<1>1. Init => OneClientPerAgent
  BY DEF Init, OneClientPerAgent
<1>2. OneClientPerAgent /\ [Next]_vars => OneClientPerAgent'
  <2> SUFFICES ASSUME OneClientPerAgent, [Next]_vars PROVE OneClientPerAgent'
    OBVIOUS
  <2>1. ASSUME NEW r \in Requests, Begin(r) \/ Continue(r) \/ Abandon(r)
        PROVE  OneClientPerAgent'
    BY <2>1, BeginKeeps, ContinueKeeps, SameRows DEF Abandon, d1
  <2>2. CASE MintAgent \/ Prune \/ RegisterClient \/ Tick \/ \E c \in Clients : ExpireClient(c)
    BY <2>2, SameRows DEF MintAgent, Prune, RegisterClient, Tick, ExpireClient, d1
  <2>3. CASE UNCHANGED vars
    BY <2>3, SameRows DEF vars, d1
  <2> QED BY <2>1, <2>2, <2>3 DEF Next
<1> QED BY <1>1, <1>2, PTL DEF Spec

-----------------------------------------------------------------------------
(* Types, and what a request at a label has filled in.                     *)

Labelled(q) ==
  /\ q.at \in {"mint", "stamp", "provision", "pin", "bind", "verify", "complete",
               "kill_keys", "kill_list", "kill_clients", "kill_rows"} => q.agent \in agents
  /\ q.at \in {"pin", "delete_bound", "lookup", "delete_unbound", "drop", "bind",
               "bind_new", "verify", "complete"} => q.client \in Clients

\* Agents are never deleted, so what a request knows of one stays true.
AccessInv ==
  /\ TypeOK
  /\ agents \subseteq drawn
  /\ \A r \in Requests : Labelled(req[r])

LEMMA IdleIsRequest == Idle \in Request /\ Labelled(Idle)
BY DEF Idle, Request, Labels, Labelled

\* A request moves to a state of its type; agents only come.
LEMMA RequestsMove ==
  ASSUME AccessInv, NEW r \in Requests, NEW x \in Request, Labelled(x)',
         req' = [req EXCEPT ![r] = x], agents \subseteq agents'
  PROVE  req' \in [Requests -> Request] /\ \A s \in Requests : Labelled(req[s])'
<1>1. \A s \in Requests : req'[s] = IF s = r THEN x ELSE req[s]
  BY DEF AccessInv, TypeOK
<1>2. \A s \in Requests : Labelled(req[s])'
  BY <1>1 DEF AccessInv, Labelled
<1> QED BY <1>2 DEF AccessInv, TypeOK

\* Requests that do not move: agents only come.
LEMMA RequestsStay ==
  ASSUME AccessInv, UNCHANGED req, agents \subseteq agents'
  PROVE  req' \in [Requests -> Request] /\ \A s \in Requests : Labelled(req[s])'
BY DEF AccessInv, TypeOK, Labelled

\* A request that ends, or opens, and no table changes.
LEMMA LocalAccess ==
  ASSUME AccessInv, NEW r \in Requests, NEW x \in Request, Labelled(x),
         req' = [req EXCEPT ![r] = x], UNCHANGED <<d1, oauth, drawn, now>>,
         killing' \subseteq agents, shut' \subseteq agents
  PROVE  AccessInv'
<1> UNCHANGED <<agents, agent_keys, oauth_clients, kv, grants>>
  BY DEF d1, oauth
<1>1. Labelled(x)'
  BY DEF Labelled
<1>2. req' \in [Requests -> Request] /\ \A s \in Requests : Labelled(req[s])'
  BY <1>1, RequestsMove
<1> QED BY <1>2 DEF AccessInv, TypeOK

LEMMA DoorHasAgent ==
  ASSUME AccessInv, NEW a, HasDoor(a)
  PROVE  a \in agents
BY DEF AccessInv, TypeOK, HasDoor, GrantsOf, KeysOf

LEMMA BeginAccess ==
  ASSUME AccessInv, NEW r \in Requests, Begin(r)
  PROVE  AccessInv'
<1> TypeOK
  BY DEF AccessInv
<1> USE IdleIsRequest
<1>1. ASSUME NEW a \in Agents,
             BeginMintKey(r, a) \/ BeginCredential(r, a) \/ BeginCreateClient(r, a) \/ BeginKill(r, a)
      PROVE  AccessInv'
  <2>1. a \in agents
    BY <1>1, DoorHasAgent DEF BeginMintKey, BeginCredential, BeginCreateClient, BeginKill, Killable
  <2>2. PICK label \in {"mint", "stamp", "provision", "kill_keys"} : Start(r, label, a, None)
    BY <1>1 DEF BeginMintKey, BeginCredential, BeginCreateClient, BeginKill
  <2> DEFINE x == [Idle EXCEPT !.at = label, !.agent = a, !.client = None]
  <2>3. x \in Request /\ Labelled(x)
    BY <2>1 DEF Idle, Request, Labels, Labelled
  <2>4. killing' \subseteq agents /\ shut' \subseteq agents
    BY <1>1, <2>1 DEF BeginMintKey, BeginCredential, BeginCreateClient, BeginKill, intent, TypeOK
  <2> QED BY <1>1, <2>2, <2>3, <2>4, LocalAccess
          DEF BeginMintKey, BeginCredential, BeginCreateClient, BeginKill, Start
<1>2. ASSUME NEW k \in Keys, BeginRevokeKey(r, k) PROVE AccessInv'
  <2> DEFINE x == [Idle EXCEPT !.at = "revoke", !.key = k]
  <2>1. x \in Request /\ Labelled(x)
    BY DEF Idle, Request, Labels, Labelled
  <2> QED BY <1>2, <2>1, LocalAccess DEF BeginRevokeKey, intent, TypeOK
<1>3. ASSUME NEW c \in Clients, BeginDeleteClient(r, c) PROVE AccessInv'
  <2>1. PICK label \in {"delete_bound", "lookup"} : Start(r, label, None, c)
    BY <1>3 DEF BeginDeleteClient
  <2> DEFINE x == [Idle EXCEPT !.at = label, !.agent = None, !.client = c]
  <2>2. x \in Request /\ Labelled(x)
    BY DEF Idle, Request, Labels, Labelled
  <2> QED BY <1>3, <2>1, <2>2, LocalAccess DEF BeginDeleteClient, Start, intent, TypeOK
<1>4. ASSUME NEW c \in Clients, NEW a \in Agents \cup {None}, BeginConsent(r, c, a)
      PROVE  AccessInv'
  <2>1. PICK label \in {"complete", "bind", "bind_new"}, b \in {a, None} :
          /\ Start(r, label, b, c)
          /\ label # "bind_new" => b \in agents
    BY <1>4 DEF BeginConsent, ClientsOf, TypeOK
  <2> DEFINE x == [Idle EXCEPT !.at = label, !.agent = b, !.client = c]
  <2>2. x \in Request /\ Labelled(x)
    BY <2>1 DEF Idle, Request, Labels, Labelled
  <2> QED BY <1>4, <2>1, <2>2, LocalAccess DEF BeginConsent, Start, TypeOK
<1> QED BY <1>1, <1>2, <1>3, <1>4 DEF Begin

\* A row of keys that enters or changes keeps the table's type.
LEMMA KeyRowStep ==
  ASSUME AccessInv, NEW k \in Keys, NEW row \in KeyRow, row.agent \in agents',
         agent_keys' = Put(agent_keys, k, row), agents \subseteq agents'
  PROVE  /\ DOMAIN agent_keys' \subseteq Keys
         /\ \A z \in DOMAIN agent_keys' : agent_keys'[z] \in KeyRow /\ agent_keys'[z].agent \in agents'
<1>1. /\ DOMAIN agent_keys' = DOMAIN agent_keys \cup {k}
      /\ agent_keys'[k] = row
      /\ \A z \in DOMAIN agent_keys \ {k} : agent_keys'[z] = agent_keys[z]
  BY DEF Put
<1>2. /\ DOMAIN agent_keys \subseteq Keys
      /\ \A z \in DOMAIN agent_keys : agent_keys[z] \in KeyRow /\ agent_keys[z].agent \in agents
  BY DEF AccessInv, TypeOK
<1> QED BY <1>1, <1>2

\* Stamping revoked_at leaves a row's key and agent.
LEMMA StampRows ==
  ASSUME AccessInv, NEW S,
         agent_keys' = [k \in DOMAIN agent_keys |->
           IF k \in S THEN [agent_keys[k] EXCEPT !.revoked_at = now] ELSE agent_keys[k]],
         UNCHANGED agents
  PROVE  /\ DOMAIN agent_keys' \subseteq Keys
         /\ \A z \in DOMAIN agent_keys' : agent_keys'[z] \in KeyRow /\ agent_keys'[z].agent \in agents'
BY DEF AccessInv, TypeOK, KeyRow

\* A binding that enters names a client and an agent that exist.
LEMMA BindingStep ==
  ASSUME AccessInv, NEW c \in Clients, NEW a \in agents',
         oauth_clients' = Put(oauth_clients, c, a), agents \subseteq agents'
  PROVE  /\ DOMAIN oauth_clients' \subseteq Clients
         /\ \A z \in DOMAIN oauth_clients' : oauth_clients'[z] \in agents'
<1>1. /\ DOMAIN oauth_clients' = DOMAIN oauth_clients \cup {c}
      /\ oauth_clients'[c] = a
      /\ \A z \in DOMAIN oauth_clients \ {c} : oauth_clients'[z] = oauth_clients[z]
  BY DEF Put
<1>2. /\ DOMAIN oauth_clients \subseteq Clients
      /\ \A z \in DOMAIN oauth_clients : oauth_clients[z] \in agents
  BY DEF AccessInv, TypeOK
<1> QED BY <1>1, <1>2

\* A request that goes on to another label keeps what it knows.
LEMMA AtLabel ==
  ASSUME NEW q \in Request, NEW label \in Labels
  PROVE  \E x \in Request :
           /\ x = [q EXCEPT !.at = label]
           /\ x.at = label /\ x.agent = q.agent /\ x.client = q.client
<1> DEFINE x == [q EXCEPT !.at = label]
<1>1. x \in Request /\ x.at = label /\ x.agent = q.agent /\ x.client = q.client
  BY DEF Request
<1> QED BY <1>1

LEMMA ContinueAccess ==
  ASSUME AccessInv, NEW r \in Requests, Continue(r)
  PROVE  AccessInv'
<1> TypeOK /\ agents \subseteq drawn /\ Labelled(req[r]) /\ req[r] \in Request
  BY DEF AccessInv, TypeOK
<1> PICK q \in Request : q = req[r]
  OBVIOUS
<1> USE IdleIsRequest
<1>0. Labelled(Idle)'
  BY DEF Labelled, Idle
<1>1. CASE StampCredential(r)
  <2>1. PICK ttl \in Ttls :
          req' = [req EXCEPT ![r].at = "mint", ![r].expires = now + Clamped(ttl)]
    BY <1>1 DEF StampCredential
  <2> DEFINE x == [q EXCEPT !.at = "mint", !.expires = now + Clamped(ttl)]
  <2>2. now + Clamped(ttl) \in Nat
    BY AccessAssumption DEF AccessAssumption, Clamped, TypeOK
  <2>3. x \in Request /\ Labelled(x) /\ req' = [req EXCEPT ![r] = x]
    BY <1>1, <2>1, <2>2 DEF StampCredential, At, Request, Labels, Labelled
  <2> HIDE DEF x
  <2> QED BY <1>1, <2>3, LocalAccess DEF StampCredential, intent, TypeOK
<1>2. CASE InsertKey(r)
  <2>1. PICK k \in Keys \ drawn :
          /\ agent_keys' = Put(agent_keys, k,
               [agent |-> q.agent, expires_at |-> q.expires, revoked_at |-> None])
          /\ drawn' = drawn \cup {k}
    BY <1>2 DEF InsertKey
  <2> DEFINE row == [agent |-> q.agent, expires_at |-> q.expires, revoked_at |-> None]
  <2>2. q.agent \in agents /\ row \in KeyRow /\ row.agent \in agents
    BY <1>2 DEF InsertKey, At, Labelled, Request, KeyRow, TypeOK
  <2>3. UNCHANGED <<agents, oauth_clients, kv, grants, now, killing, shut>>
    BY <1>2 DEF InsertKey, oauth, intent
  <2>4. /\ DOMAIN agent_keys' \subseteq Keys
        /\ \A z \in DOMAIN agent_keys' : agent_keys'[z] \in KeyRow /\ agent_keys'[z].agent \in agents'
    BY <2>1, <2>2, <2>3, KeyRowStep
  <2>5. req' \in [Requests -> Request] /\ \A s \in Requests : Labelled(req[s])'
    BY <1>0, <1>2, <2>3, RequestsMove DEF InsertKey, End
  <2> QED BY <2>1, <2>3, <2>4, <2>5 DEF AccessInv, TypeOK
<1>3. CASE RevokeKey(r) \/ KillKeys(r)
  <2>1. UNCHANGED <<agents, oauth_clients, kv, grants, drawn, now, killing, shut>>
    BY <1>3 DEF RevokeKey, KillKeys, oauth, intent
  <2>2. PICK S :
          agent_keys' = [k \in DOMAIN agent_keys |->
            IF k \in S THEN [agent_keys[k] EXCEPT !.revoked_at = now] ELSE agent_keys[k]]
    <3>1. CASE RevokeKey(r)
      <4>1. agent_keys' = [k \in DOMAIN agent_keys |->
              IF k \in {q.key} THEN [agent_keys[k] EXCEPT !.revoked_at = now] ELSE agent_keys[k]]
        BY <3>1 DEF RevokeKey
      <4> QED BY <4>1
    <3>2. CASE KillKeys(r)
      <4> DEFINE S == {k \in DOMAIN agent_keys : KillsKey(agent_keys[k], q.agent)}
      <4>1. agent_keys' = [k \in DOMAIN agent_keys |->
              IF k \in S THEN [agent_keys[k] EXCEPT !.revoked_at = now] ELSE agent_keys[k]]
        BY <3>2 DEF KillKeys
      <4> HIDE DEF S
      <4> QED BY <4>1
    <3> QED BY <1>3, <3>1, <3>2
  <2>3. /\ DOMAIN agent_keys' \subseteq Keys
        /\ \A z \in DOMAIN agent_keys' : agent_keys'[z] \in KeyRow /\ agent_keys'[z].agent \in agents'
    BY <2>1, <2>2, StampRows
  <2>4. PICK x \in Request : req' = [req EXCEPT ![r] = x] /\ Labelled(x)'
    <3>1. CASE End(r)
      BY <1>0, <3>1 DEF End
    <3>2. CASE KillKeys(r)
      <4>1. PICK x \in Request :
              /\ x = [q EXCEPT !.at = "kill_list"]
              /\ x.at = "kill_list" /\ x.agent = q.agent /\ x.client = q.client
        <5> PICK label \in Labels : label = "kill_list"
          BY DEF Labels
        <5> QED BY AtLabel
      <4>2. Labelled(x)'
        BY <4>1, <2>1, <3>2 DEF Labelled, KillKeys, At
      <4> QED BY <3>2, <4>1, <4>2 DEF KillKeys, Goto
    <3> QED BY <1>3, <3>1, <3>2 DEF RevokeKey
  <2>5. req' \in [Requests -> Request] /\ \A s \in Requests : Labelled(req[s])'
    BY <2>1, <2>4, RequestsMove
  <2> QED BY <2>1, <2>3, <2>5 DEF AccessInv, TypeOK
<1>4. CASE ProvisionClient(r)
  <2>1. PICK c \in Clients \ drawn :
          /\ kv' = kv \cup {c}
          /\ drawn' = drawn \cup {c}
          /\ req' = [req EXCEPT ![r].at = "pin", ![r].client = c]
    BY <1>4 DEF ProvisionClient
  <2>2. UNCHANGED <<agents, agent_keys, oauth_clients, grants, now, killing, shut>>
    BY <1>4 DEF ProvisionClient, d1, intent
  <2> DEFINE x == [q EXCEPT !.at = "pin", !.client = c]
  <2>3. /\ x \in Request /\ req' = [req EXCEPT ![r] = x]
        /\ x.at = "pin" /\ x.agent = q.agent /\ x.client = c
    BY <2>1 DEF Request, Labels
  <2>31. Labelled(x)'
    BY <1>4, <2>2, <2>3 DEF ProvisionClient, At, Labelled
  <2> HIDE DEF x
  <2>4. req' \in [Requests -> Request] /\ \A s \in Requests : Labelled(req[s])'
    BY <2>2, <2>3, <2>31, RequestsMove
  <2> QED BY <2>1, <2>2, <2>4 DEF AccessInv, TypeOK
<1>5. CASE PinClient(r) \/ BindExisting(r)
  <2>1. UNCHANGED <<agents, agent_keys, kv, grants, drawn, now, killing, shut>>
    BY <1>5 DEF PinClient, BindExisting, oauth, intent
  <2>2. q.client \in Clients /\ q.agent \in agents
    BY <1>5 DEF PinClient, BindExisting, At, Labelled
  <2>3. /\ DOMAIN oauth_clients' \subseteq Clients
        /\ \A z \in DOMAIN oauth_clients' : oauth_clients'[z] \in agents'
    <3>1. UNCHANGED oauth_clients \/ oauth_clients' = Put(oauth_clients, q.client, q.agent)
      BY <1>5 DEF PinClient, BindExisting
    <3> QED BY <2>1, <2>2, <3>1, BindingStep DEF TypeOK
  <2>4. PICK x \in Request : req' = [req EXCEPT ![r] = x] /\ Labelled(x)'
    <3>1. CASE End(r)
      BY <1>0, <3>1 DEF End
    <3>2. CASE Goto(r, "verify")
      <4>1. PICK x \in Request :
              /\ x = [q EXCEPT !.at = "verify"]
              /\ x.at = "verify" /\ x.agent = q.agent /\ x.client = q.client
        <5> PICK label \in Labels : label = "verify"
          BY DEF Labels
        <5> QED BY AtLabel
      <4>2. Labelled(x)'
        BY <4>1, <2>1, <2>2 DEF Labelled
      <4> QED BY <3>2, <4>1, <4>2 DEF Goto
    <3> QED BY <1>5, <3>1, <3>2 DEF PinClient, BindExisting
  <2>5. req' \in [Requests -> Request] /\ \A s \in Requests : Labelled(req[s])'
    BY <2>1, <2>4, RequestsMove
  <2> QED BY <2>1, <2>3, <2>5 DEF AccessInv, TypeOK
<1>6. CASE BindNew(r)
  <2>1. PICK a \in Agents \ drawn :
          /\ drawn' = drawn \cup {a}
          /\ agents' = agents \cup BornWithBinding(q.client, a)
          /\ IF UniqueRow(q.client, a)
               THEN /\ oauth_clients' = Put(oauth_clients, q.client, a)
                    /\ req' = [req EXCEPT ![r].at = "verify", ![r].agent = a]
               ELSE End(r) /\ UNCHANGED oauth_clients
    BY <1>6 DEF BindNew
  <2>2. UNCHANGED <<agent_keys, kv, grants, now, killing, shut>> /\ q.client \in Clients
    BY <1>6 DEF BindNew, oauth, intent, At, Labelled
  <2>3. agents \subseteq agents' /\ agents' \subseteq agents \cup {a}
    BY <2>1 DEF BornWithBinding
  <2>4. /\ DOMAIN oauth_clients' \subseteq Clients
        /\ \A z \in DOMAIN oauth_clients' : oauth_clients'[z] \in agents'
    <3>1. CASE UniqueRow(q.client, a)
      <4>1. a \in agents'
        BY <2>1, <3>1 DEF BornWithBinding
      <4> QED BY <2>1, <2>2, <2>3, <3>1, <4>1, BindingStep
    <3>2. CASE ~UniqueRow(q.client, a)
      BY <2>1, <2>3, <3>2 DEF TypeOK
    <3> QED BY <3>1, <3>2
  <2>5. PICK x \in Request : req' = [req EXCEPT ![r] = x] /\ Labelled(x)'
    <3>1. CASE End(r)
      BY <1>0, <3>1 DEF End
    <3>2. CASE UniqueRow(q.client, a)
      <4> DEFINE x == [q EXCEPT !.at = "verify", !.agent = a]
      <4>1. a \in agents'
        BY <2>1, <3>2 DEF BornWithBinding
      <4>2. x \in Request /\ Labelled(x)' /\ req' = [req EXCEPT ![r] = x]
        BY <2>1, <2>2, <3>2, <4>1 DEF Request, Labels, Labelled
      <4> HIDE DEF x
      <4> QED BY <4>2
    <3> QED BY <2>1, <3>1, <3>2
  <2>6. req' \in [Requests -> Request] /\ \A s \in Requests : Labelled(req[s])'
    BY <2>3, <2>5, RequestsMove
  <2> QED BY <2>1, <2>2, <2>3, <2>4, <2>6 DEF AccessInv, TypeOK
<1>7. CASE LookupUnbound(r) \/ VerifyBinding(r) \/ ListClients(r) \/ KillClientFails(r)
  <2>1. UNCHANGED <<d1, oauth, drawn, now>>
    BY <1>7 DEF LookupUnbound, VerifyBinding, ListClients, KillClientFails
  <2>2. killing' \subseteq agents /\ shut' \subseteq agents
    BY <1>7 DEF LookupUnbound, VerifyBinding, ListClients, KillClientFails, Answer, intent,
       Labelled, At, TypeOK
  <2>3. PICK x \in Request : req' = [req EXCEPT ![r] = x] /\ Labelled(x)
    <3>1. CASE End(r)
      BY <3>1 DEF End
    <3>2. CASE LookupUnbound(r) /\ Goto(r, "delete_unbound")
      <4>1. PICK x \in Request :
              /\ x = [q EXCEPT !.at = "delete_unbound"]
              /\ x.at = "delete_unbound" /\ x.agent = q.agent /\ x.client = q.client
        <5> PICK label \in Labels : label = "delete_unbound"
          BY DEF Labels
        <5> QED BY AtLabel
      <4>2. Labelled(x)
        BY <4>1, <3>2 DEF Labelled, LookupUnbound, At
      <4> QED BY <3>2, <4>1, <4>2 DEF Goto
    <3>3. CASE VerifyBinding(r) /\ Goto(r, "complete")
      <4>1. PICK x \in Request :
              /\ x = [q EXCEPT !.at = "complete"]
              /\ x.at = "complete" /\ x.agent = q.agent /\ x.client = q.client
        <5> PICK label \in Labels : label = "complete"
          BY DEF Labels
        <5> QED BY AtLabel
      <4>2. Labelled(x)
        BY <4>1, <3>3 DEF Labelled, VerifyBinding, At
      <4> QED BY <3>3, <4>1, <4>2 DEF Goto
    <3>4. CASE /\ At(r, "kill_list")
               /\ req' = [req EXCEPT ![r].at = "kill_clients", ![r].todo = ClientsOf(q.agent)]
      <4> DEFINE x == [q EXCEPT !.at = "kill_clients", !.todo = ClientsOf(q.agent)]
      <4>1. x \in Request /\ Labelled(x) /\ req' = [req EXCEPT ![r] = x]
        BY <3>4 DEF At, Request, Labels, Labelled, ClientsOf, TypeOK
      <4> HIDE DEF x
      <4> QED BY <4>1
    <3> QED BY <1>7, <3>1, <3>2, <3>3, <3>4
            DEF LookupUnbound, VerifyBinding, ListClients, KillClientFails, Answer, Partial
  <2> QED BY <2>1, <2>2, <2>3, LocalAccess
<1>8. CASE DeleteAtProvider(r) \/ CompleteAuthorization(r) \/ KillClient(r)
  <2>1. UNCHANGED <<agents, agent_keys, oauth_clients, drawn, now, killing, shut>>
    BY <1>8 DEF DeleteAtProvider, CompleteAuthorization, KillClient, d1, intent
  <2>2. kv' \subseteq Clients /\ grants' \subseteq Clients \X agents
    <3>1. CASE \E c : ProviderDeletes(c)
      BY <3>1 DEF ProviderDeletes, TypeOK
    <3>2. CASE CompleteAuthorization(r)
      <4>1. q.client \in Clients /\ q.agent \in agents
        BY <3>2 DEF CompleteAuthorization, At, Labelled
      <4>2. kv' = kv /\ (grants' = grants \cup {<<q.client, q.agent>>} \/ grants' = grants)
        BY <3>2 DEF CompleteAuthorization
      <4> QED BY <4>1, <4>2 DEF TypeOK
    <3> QED BY <1>8, <3>1, <3>2 DEF DeleteAtProvider, KillClient
  <2>3. PICK x \in Request : req' = [req EXCEPT ![r] = x] /\ Labelled(x)
    <3>1. CASE End(r)
      BY <3>1 DEF End
    <3>2. CASE At(r, "delete_bound") /\ Goto(r, "drop")
      <4>1. PICK x \in Request :
              /\ x = [q EXCEPT !.at = "drop"]
              /\ x.at = "drop" /\ x.agent = q.agent /\ x.client = q.client
        <5> PICK label \in Labels : label = "drop"
          BY DEF Labels
        <5> QED BY AtLabel
      <4>2. Labelled(x)
        BY <4>1, <3>2 DEF Labelled, At
      <4> QED BY <3>2, <4>1, <4>2 DEF Goto
    <3>3. CASE KillClient(r)
      <4>1. PICK c \in q.todo :
              req' = [req EXCEPT ![r].todo = @ \ {c},
                                 ![r].at = IF q.todo = {c} THEN "kill_rows" ELSE @]
        BY <3>3 DEF KillClient
      <4> DEFINE x == [q EXCEPT !.todo = @ \ {c}, !.at = IF q.todo = {c} THEN "kill_rows" ELSE @]
      <4>2. /\ x \in Request /\ req' = [req EXCEPT ![r] = x]
            /\ x.at \in {"kill_clients", "kill_rows"} /\ x.agent = q.agent
        <5>1. q.at = "kill_clients"
          BY <3>3 DEF KillClient, At
        <5> QED BY <4>1, <5>1 DEF Request, Labels
      <4> HIDE DEF x
      <4>3. Labelled(x)
        BY <3>3, <4>2 DEF KillClient, At, Labelled
      <4> QED BY <4>2, <4>3
    <3> QED BY <1>8, <3>1, <3>2, <3>3 DEF DeleteAtProvider, CompleteAuthorization
  <2>4. req' \in [Requests -> Request] /\ \A s \in Requests : Labelled(req[s])'
    BY <2>1, <2>3, RequestsMove DEF Labelled
  <2> QED BY <2>1, <2>2, <2>4 DEF AccessInv, TypeOK
<1>9. CASE DropRow(r) \/ KillRows(r)
  <2>1. UNCHANGED <<agents, agent_keys, kv, grants, drawn, now>>
    BY <1>9 DEF DropRow, KillRows, oauth
  <2>2. PICK S : oauth_clients' = Without(oauth_clients, S)
    BY <1>9 DEF DropRow, KillRows
  <2>3. /\ DOMAIN oauth_clients' \subseteq Clients
        /\ \A z \in DOMAIN oauth_clients' : oauth_clients'[z] \in agents
    <3>1. /\ DOMAIN oauth_clients' = DOMAIN oauth_clients \ S
          /\ \A z \in DOMAIN oauth_clients' : oauth_clients'[z] = oauth_clients[z]
      BY <2>2 DEF Without
    <3> QED BY <3>1 DEF TypeOK
  <2>4. killing' \subseteq agents /\ shut' \subseteq agents /\ End(r)
    BY <1>9 DEF DropRow, KillRows, Answer, intent, Labelled, At, TypeOK
  <2>5. req' \in [Requests -> Request] /\ \A s \in Requests : Labelled(req[s])'
    BY <1>0, <2>1, <2>4, RequestsMove DEF End
  <2> QED BY <2>1, <2>3, <2>4, <2>5 DEF AccessInv, TypeOK
<1> QED BY <1>1, <1>2, <1>3, <1>4, <1>5, <1>6, <1>7, <1>8, <1>9 DEF Continue

\* What happens beside the requests.
LEMMA BesideAccess ==
  ASSUME AccessInv, MintAgent \/ Prune \/ RegisterClient \/ Tick \/ \E c \in Clients : ExpireClient(c)
  PROVE  AccessInv'
<1> TypeOK /\ agents \subseteq drawn
  BY DEF AccessInv
<1>1. CASE MintAgent
  <2>1. PICK a \in Agents \ drawn, k \in Keys \ drawn :
          /\ agents' = agents \cup {a}
          /\ agent_keys' = Put(agent_keys, k, [agent |-> a, expires_at |-> None, revoked_at |-> None])
          /\ drawn' = drawn \cup {a, k}
          /\ UNCHANGED <<oauth_clients, oauth, now, req, intent>>
    BY <1>1 DEF MintAgent
  <2>2. [agent |-> a, expires_at |-> None, revoked_at |-> None] \in KeyRow
    BY DEF KeyRow
  <2>3. /\ DOMAIN agent_keys' \subseteq Keys
        /\ \A z \in DOMAIN agent_keys' : agent_keys'[z] \in KeyRow /\ agent_keys'[z].agent \in agents'
    BY <2>1, <2>2, KeyRowStep
  <2>4. req' \in [Requests -> Request] /\ \A s \in Requests : Labelled(req[s])'
    BY <2>1, RequestsStay
  <2> QED BY <2>1, <2>3, <2>4 DEF AccessInv, TypeOK, oauth, intent
<1>2. CASE Prune
  <2>1. PICK S : agent_keys' = Without(agent_keys, S)
    BY <1>2 DEF Prune
  <2>2. /\ DOMAIN agent_keys' = DOMAIN agent_keys \ S
        /\ \A z \in DOMAIN agent_keys' : agent_keys'[z] = agent_keys[z]
    BY <2>1 DEF Without
  <2>3. UNCHANGED <<agents, oauth_clients, oauth, drawn, now, req, intent>>
    BY <1>2 DEF Prune
  <2>4. req' \in [Requests -> Request] /\ \A s \in Requests : Labelled(req[s])'
    BY <2>3, RequestsStay
  <2> QED BY <2>2, <2>3, <2>4 DEF AccessInv, TypeOK, oauth, intent
<1>3. CASE RegisterClient \/ Tick \/ \E c \in Clients : ExpireClient(c)
  <2>1. UNCHANGED <<agents, agent_keys, oauth_clients, grants, req, killing, shut>>
    BY <1>3 DEF RegisterClient, Tick, ExpireClient, d1, oauth, intent
  <2>2. req' \in [Requests -> Request] /\ \A s \in Requests : Labelled(req[s])'
    BY <2>1, RequestsStay
  <2>3. /\ kv' \subseteq Clients /\ now' \in Nat /\ drawn \subseteq drawn'
        /\ drawn' \subseteq Agents \cup Clients \cup Keys
    BY <1>3 DEF RegisterClient, Tick, ExpireClient, oauth, TypeOK
  <2> QED BY <2>1, <2>2, <2>3 DEF AccessInv, TypeOK
<1> QED BY <1>1, <1>2, <1>3

LEMMA AccessInvariance == Spec => []AccessInv
<1>1. Init => AccessInv
  BY IdleIsRequest DEF Init, AccessInv, TypeOK, Labelled, Idle
<1>2. AccessInv /\ [Next]_vars => AccessInv'
  <2> SUFFICES ASSUME AccessInv, [Next]_vars PROVE AccessInv'
    OBVIOUS
  <2>1. ASSUME NEW r \in Requests, Abandon(r) PROVE AccessInv'
    BY <2>1, IdleIsRequest, LocalAccess DEF Abandon, End, intent, AccessInv, TypeOK
  <2>2. CASE UNCHANGED vars
    BY <2>2 DEF vars, d1, oauth, intent, AccessInv, TypeOK, Labelled
  <2> QED BY <2>1, <2>2, BeginAccess, ContinueAccess, BesideAccess DEF Next
<1> QED BY <1>1, <1>2, PTL DEF Spec

\* Every table holds rows of its type and every row's agent exists, for any
\* number of requests in flight.
THEOREM AccessIsTyped == Spec => []TypeOK
<1>1. AccessInv => TypeOK
  BY DEF AccessInv
<1> QED BY <1>1, AccessInvariance, PTL

\* An agent comes into being with a key or with a binding.
THEOREM NoAgentIsOrphan == Spec => NoOrphanAgents
<1>1. ASSUME [Next]_vars, NEW a \in agents' \ agents
      PROVE  \/ \E k \in DOMAIN agent_keys' : agent_keys'[k].agent = a
             \/ \E c \in DOMAIN oauth_clients' : oauth_clients'[c] = a
  <2>1. ASSUME NEW r \in Requests, Begin(r) \/ Continue(r) \/ Abandon(r)
        PROVE  BindNew(r)
    BY <1>1, <2>1 DEF Begin, BeginMintKey, BeginCredential, BeginCreateClient, BeginKill,
       BeginRevokeKey, BeginDeleteClient, BeginConsent, Continue, StampCredential, InsertKey,
       RevokeKey, ProvisionClient, PinClient, LookupUnbound, DeleteAtProvider, DropRow,
       BindExisting, VerifyBinding, CompleteAuthorization, KillKeys, ListClients, KillClient,
       KillClientFails, KillRows, Abandon, d1
  <2>2. CASE \E r \in Requests : BindNew(r)
    <3>1. PICK r \in Requests : BindNew(r)
      BY <2>2
    <3>2. /\ UniqueRow(req[r].client, a)
          /\ oauth_clients' = Put(oauth_clients, req[r].client, a)
      BY <1>1, <3>1 DEF BindNew, BornWithBinding
    <3> QED BY <3>2 DEF Put
  <2>3. CASE MintAgent
    <3>1. PICK k : agent_keys' = Put(agent_keys, k,
                     [agent |-> a, expires_at |-> None, revoked_at |-> None])
      BY <1>1, <2>3 DEF MintAgent
    <3> QED BY <3>1 DEF Put
  <2>4. ~Prune /\ ~RegisterClient /\ ~Tick /\ ~(\E c \in Clients : ExpireClient(c)) /\ ~UNCHANGED vars
    BY <1>1 DEF Prune, RegisterClient, Tick, ExpireClient, vars, d1
  <2> QED BY <1>1, <2>1, <2>2, <2>3, <2>4 DEF Next
<1>2. [Next]_vars =>
        [\A a \in agents' \ agents :
           \/ \E k \in DOMAIN agent_keys' : agent_keys'[k].agent = a
           \/ \E c \in DOMAIN oauth_clients' : oauth_clients'[c] = a]_vars
  BY <1>1
<1> QED BY <1>2, PTL DEF Spec, NoOrphanAgents

\* Only the prune deletes keys, and none that could still authenticate.
THEOREM PruningIsInert == Spec => PruneIsInert
<1>1. ASSUME AccessInv, [Next]_vars, NEW k \in DOMAIN agent_keys \ DOMAIN agent_keys'
      PROVE  ~Authenticates(k)
  <2> TypeOK
    BY <1>1 DEF AccessInv
  <2>1. ASSUME NEW r \in Requests, Begin(r) \/ Continue(r) \/ Abandon(r)
        PROVE  FALSE
    BY <1>1, <2>1 DEF Begin, BeginMintKey, BeginCredential, BeginCreateClient, BeginKill,
       BeginRevokeKey, BeginDeleteClient, BeginConsent, Continue, StampCredential, InsertKey,
       RevokeKey, ProvisionClient, PinClient, LookupUnbound, DeleteAtProvider, DropRow,
       BindExisting, BindNew, VerifyBinding, CompleteAuthorization, KillKeys, ListClients,
       KillClient, KillClientFails, KillRows, Abandon, d1, Put
  <2>2. CASE Prune
    <3>1. PICK cutoff \in 0..now :
            \/ agent_keys' = Without(agent_keys,
                 {z \in DOMAIN agent_keys : PrunesExpired(agent_keys[z], cutoff)})
            \/ agent_keys' = Without(agent_keys,
                 {z \in DOMAIN agent_keys : PrunesRevoked(agent_keys[z], cutoff)})
      BY <2>2 DEF Prune
    <3>2. PrunesExpired(agent_keys[k], cutoff) \/ PrunesRevoked(agent_keys[k], cutoff)
      BY <1>1, <3>1 DEF Without
    <3>3. now \in Nat /\ agent_keys[k].expires_at \in Nat \cup {None}
      BY DEF TypeOK, KeyRow
    <3> QED BY <3>2, <3>3 DEF PrunesExpired, PrunesRevoked, Authenticates, IsKeyExpired
  <2>3. ~MintAgent /\ ~RegisterClient /\ ~Tick /\ ~(\E c \in Clients : ExpireClient(c)) /\ ~UNCHANGED vars
    BY <1>1 DEF MintAgent, RegisterClient, Tick, ExpireClient, vars, d1, Put
  <2> QED BY <1>1, <2>1, <2>2, <2>3 DEF Next
<1>2. AccessInv /\ [Next]_vars =>
        [\A k \in DOMAIN agent_keys \ DOMAIN agent_keys' : ~Authenticates(k)]_vars
  BY <1>1
<1> QED BY <1>2, AccessInvariance, PTL DEF Spec, PruneIsInert

-----------------------------------------------------------------------------
(* The kill switch, when it takes turns.  D1 and KV share no transaction,  *)
(* so a door opened while a kill or a deletion is under way can outlive it; *)
(* as long as none is, the following holds between their calls.            *)

\* A request that gives an agent a door, and one that takes doors away.
Opens(q) ==
  q.at \in {"mint", "stamp", "provision", "pin", "bind", "bind_new", "verify", "complete"}
Closes(q) ==
  q.at \in {"delete_bound", "drop", "kill_keys", "kill_list", "kill_clients", "kill_rows"}

\* Requests that open may overlap with each other, and so may those that close.
TakeTurns == \A r, s \in Requests : ~(Opens(req[r]) /\ Closes(req[s]))

KeysAreDead(a) == \A k \in KeysOf(a) : agent_keys[k].revoked_at # None

\* What a request half-way relies on: an opening one works for an agent that
\* is not shut out, a kill that is past the keys has left none alive, and its
\* list of clients to delete names every client that still has a grant.
Halfway(q) ==
  /\ Opens(q) => q.agent \notin shut
  /\ q.at = "complete" => q.client \in DOMAIN oauth_clients /\ oauth_clients[q.client] = q.agent
  /\ q.at \in {"kill_list", "kill_clients", "kill_rows"} => KeysAreDead(q.agent)
  /\ q.at = "kill_clients" => \A g \in GrantsOf(q.agent) : g[1] \in q.todo
  /\ q.at = "kill_rows" => GrantsOf(q.agent) = {}
  /\ q.at = "drop" => \A g \in grants : g[1] # q.client

DoorsHold ==
  /\ KilledStaysOut
  /\ GrantsFollowBinding
  /\ \A r \in Requests : Halfway(req[r])

DoorsInv == AccessInv /\ DoorsHold

LEMMA IdleIsHalfway == Halfway(Idle)
BY DEF Halfway, Idle, Opens

LEMMA NoneIsNoAgent == AccessInv => None \notin agents /\ None \notin shut /\ now # None
BY AccessAssumption DEF AccessAssumption, AccessInv, TypeOK

\* A request that moves while no table changes.
LEMMA LocalDoors ==
  ASSUME DoorsInv, NEW r \in Requests, NEW x, Halfway(x), req' = [req EXCEPT ![r] = x],
         UNCHANGED <<agents, agent_keys, oauth_clients, grants, now>>,
         shut' \subseteq shut
  PROVE  DoorsHold'
<1>1. \A s \in Requests : req'[s] = IF s = r THEN x ELSE req[s]
  BY DEF DoorsInv, DoorsHold, AccessInv, TypeOK
<1>2. \A s \in Requests : Halfway(req[s])'
  BY <1>1 DEF DoorsInv, DoorsHold, Halfway, Opens, KeysAreDead, KeysOf, GrantsOf
<1> QED BY <1>2 DEF DoorsInv, DoorsHold, KilledStaysOut, HasDoor, GrantsOf, KeysOf, Authenticates,
          IsKeyExpired, GrantsFollowBinding

LEMMA BeginDoors ==
  ASSUME DoorsInv, NEW r \in Requests, Begin(r)
  PROVE  DoorsHold'
<1>1. ASSUME NEW a \in Agents,
             BeginMintKey(r, a) \/ BeginCredential(r, a) \/ BeginCreateClient(r, a)
      PROVE  DoorsHold'
  <2>1. PICK label \in {"mint", "stamp", "provision"} : Start(r, label, a, None)
    BY <1>1 DEF BeginMintKey, BeginCredential, BeginCreateClient
  <2> DEFINE x == [Idle EXCEPT !.at = label, !.agent = a, !.client = None]
  <2>2. shut' \subseteq shut /\ a \notin shut'
    BY <1>1 DEF BeginMintKey, BeginCredential, BeginCreateClient, intent, DoorsInv, DoorsHold, KilledStaysOut
  <2>3. x.at = label /\ x.agent = a
    BY DEF Idle
  <2>4. \A s \in Requests : req'[s] = IF s = r THEN x ELSE req[s]
    BY <2>1 DEF Start, DoorsInv, DoorsHold, AccessInv, TypeOK
  <2> HIDE DEF x
  <2>5. UNCHANGED <<agents, agent_keys, oauth_clients, grants, now>>
    BY <1>1 DEF BeginMintKey, BeginCredential, BeginCreateClient, d1, oauth
  <2>6. \A s \in Requests : Halfway(req[s])'
    BY <2>2, <2>3, <2>4, <2>5 DEF DoorsInv, DoorsHold, Halfway, Opens, KeysAreDead, KeysOf, GrantsOf
  <2> QED BY <2>2, <2>5, <2>6 DEF DoorsInv, DoorsHold, KilledStaysOut, HasDoor, GrantsOf, KeysOf,
             Authenticates, IsKeyExpired, GrantsFollowBinding
<1>2. ASSUME NEW c \in Clients, NEW a \in Agents \cup {None}, BeginConsent(r, c, a)
      PROVE  DoorsHold'
  <2>1. PICK label \in {"complete", "bind", "bind_new"}, b \in {a, None} :
          /\ Start(r, label, b, c)
          /\ label = "complete" => ClientsOf(b) = {c}
    BY <1>2 DEF BeginConsent
  <2> DEFINE x == [Idle EXCEPT !.at = label, !.agent = b, !.client = c]
  <2>2. shut' \subseteq shut /\ b \notin shut'
    BY <1>2, NoneIsNoAgent DEF BeginConsent, DoorsInv
  <2>3. x.at = label /\ x.agent = b /\ x.client = c
    BY DEF Idle
  <2>4. \A s \in Requests : req'[s] = IF s = r THEN x ELSE req[s]
    BY <2>1 DEF Start, DoorsInv, DoorsHold, AccessInv, TypeOK
  <2> HIDE DEF x
  <2>5. UNCHANGED <<agents, agent_keys, oauth_clients, grants, now>>
    BY <1>2 DEF BeginConsent, d1, oauth
  <2>6. label = "complete" => c \in DOMAIN oauth_clients /\ oauth_clients[c] = b
    BY <2>1 DEF ClientsOf
  <2>7. \A s \in Requests : Halfway(req[s])'
    BY <2>2, <2>3, <2>4, <2>5, <2>6 DEF DoorsInv, DoorsHold, Halfway, Opens, KeysAreDead, KeysOf, GrantsOf
  <2> QED BY <2>2, <2>5, <2>7 DEF DoorsInv, DoorsHold, KilledStaysOut, HasDoor, GrantsOf, KeysOf,
             Authenticates, IsKeyExpired, GrantsFollowBinding
<1>3. ASSUME NEW a \in Agents, BeginKill(r, a)
      PROVE  DoorsHold'
  <2>1. Halfway([Idle EXCEPT !.at = "kill_keys", !.agent = a, !.client = None])
    BY DEF Halfway, Idle, Opens
  <2> QED BY <1>3, <2>1, LocalDoors DEF BeginKill, Start, d1, oauth
<1>4. ASSUME NEW k \in Keys, BeginRevokeKey(r, k)
      PROVE  DoorsHold'
  <2>1. Halfway([Idle EXCEPT !.at = "revoke", !.key = k])
    BY DEF Halfway, Idle, Opens
  <2> QED BY <1>4, <2>1, LocalDoors DEF BeginRevokeKey, d1, oauth, intent
<1>5. ASSUME NEW c \in Clients, BeginDeleteClient(r, c)
      PROVE  DoorsHold'
  <2>1. PICK label \in {"delete_bound", "lookup"} : Start(r, label, None, c)
    BY <1>5 DEF BeginDeleteClient
  <2>2. Halfway([Idle EXCEPT !.at = label, !.agent = None, !.client = c])
    BY DEF Halfway, Idle, Opens
  <2> QED BY <1>5, <2>1, <2>2, LocalDoors DEF BeginDeleteClient, Start, d1, oauth, intent
<1> QED BY <1>1, <1>2, <1>3, <1>4, <1>5 DEF Begin

\* Requests that bring in a key, a binding or a grant have no kill beside them.
LEMMA OpensAlone ==
  ASSUME TakeTurns, NEW r \in Requests, Opens(req[r]), NEW s \in Requests
  PROVE  req[s].at \notin {"drop", "kill_keys", "kill_list", "kill_clients", "kill_rows"}
BY DEF TakeTurns, Closes

LEMMA ClosesAlone ==
  ASSUME TakeTurns, NEW r \in Requests, Closes(req[r]), NEW s \in Requests
  PROVE  ~Opens(req[s]) /\ req[s].at # "complete"
BY DEF TakeTurns, Opens

LEMMA InsertKeyDoors ==
  ASSUME DoorsInv, TakeTurns, NEW r \in Requests, InsertKey(r)
  PROVE  DoorsHold'
<1> PICK q : q = req[r]
  OBVIOUS
<1>1. Opens(q) /\ q.agent \notin shut
  BY DEF InsertKey, At, Opens, DoorsInv, DoorsHold, Halfway
<1>2. PICK k : agent_keys' = Put(agent_keys, k,
                 [agent |-> q.agent, expires_at |-> q.expires, revoked_at |-> None])
  BY DEF InsertKey
<1>3. /\ DOMAIN agent_keys' = DOMAIN agent_keys \cup {k}
      /\ agent_keys'[k].agent = q.agent
      /\ \A z \in DOMAIN agent_keys \ {k} : agent_keys'[z] = agent_keys[z]
  BY <1>2 DEF Put
<1>4. UNCHANGED <<oauth_clients, grants, now, shut>> /\ req' = [req EXCEPT ![r] = Idle]
  BY DEF InsertKey, oauth, intent, End
<1>5. \A s \in Requests : req'[s] = IF s = r THEN Idle ELSE req[s]
  BY <1>4 DEF DoorsInv, AccessInv, TypeOK
<1>6. KilledStaysOut'
  <2> SUFFICES ASSUME NEW a \in shut PROVE ~HasDoor(a)'
    BY <1>4 DEF KilledStaysOut
  <2>1. GrantsOf(a)' = {}
    BY <1>4 DEF DoorsInv, DoorsHold, KilledStaysOut, HasDoor, GrantsOf
  <2>2. ASSUME NEW z \in DOMAIN agent_keys', agent_keys'[z].agent = a, Authenticates(z)'
        PROVE  FALSE
    <3>1. z \in DOMAIN agent_keys /\ agent_keys'[z] = agent_keys[z]
      BY <1>1, <1>3, <2>2
    <3> QED BY <1>4, <2>2, <3>1 DEF DoorsInv, DoorsHold, KilledStaysOut, HasDoor, KeysOf,
               Authenticates, IsKeyExpired
  <2> QED BY <2>1, <2>2 DEF HasDoor, KeysOf
<1>7. \A s \in Requests : Halfway(req[s])'
  <2> SUFFICES ASSUME NEW s \in Requests PROVE Halfway(req[s])'
    OBVIOUS
  <2>1. CASE s = r
    BY <1>5, <2>1 DEF Halfway, Idle, Opens
  <2>2. CASE s # r
    BY <1>1, <1>4, <1>5, <2>2, OpensAlone DEF DoorsInv, DoorsHold, Halfway, Opens
  <2> QED BY <2>1, <2>2
<1> QED BY <1>4, <1>6, <1>7 DEF DoorsInv, DoorsHold, GrantsFollowBinding

\* Revoking keys, one or all of an agent's, opens nothing.
LEMMA StampDoors ==
  ASSUME DoorsInv, NEW r \in Requests, RevokeKey(r) \/ KillKeys(r)
  PROVE  DoorsHold'
<1> PICK q \in Request : q = req[r]
  BY DEF DoorsInv, AccessInv, TypeOK
<1> TypeOK /\ now # None
  BY NoneIsNoAgent DEF DoorsInv, AccessInv
<1>1. UNCHANGED <<oauth_clients, grants, now, shut>>
  BY DEF RevokeKey, KillKeys, oauth, intent
<1>2. /\ DOMAIN agent_keys' = DOMAIN agent_keys
      /\ \A k \in DOMAIN agent_keys :
           /\ agent_keys'[k].agent = agent_keys[k].agent
           /\ agent_keys'[k].expires_at = agent_keys[k].expires_at
           /\ agent_keys[k].revoked_at # None => agent_keys'[k].revoked_at # None
  BY DEF RevokeKey, KillKeys, TypeOK, KeyRow
<1>3. KilledStaysOut'
  BY <1>1, <1>2 DEF DoorsInv, DoorsHold, KilledStaysOut, HasDoor, GrantsOf, KeysOf,
     Authenticates, IsKeyExpired
<1>4. \A a : KeysAreDead(a) => KeysAreDead(a)'
  BY <1>2 DEF KeysAreDead, KeysOf
<1>5. \A s \in Requests \ {r} : req'[s] = req[s]
  BY DEF RevokeKey, KillKeys, End, Goto, TypeOK
<1>6. Halfway(req[r])'
  <2>1. CASE RevokeKey(r)
    <3>1. req'[r] = Idle
      BY <2>1 DEF RevokeKey, End, TypeOK
    <3> QED BY <3>1 DEF Halfway, Idle, Opens
  <2>2. CASE KillKeys(r)
    <3>1. req'[r].at = "kill_list" /\ req'[r].agent = q.agent
      BY <2>2 DEF KillKeys, Goto, TypeOK, Request
    <3>2. \A k \in DOMAIN agent_keys :
            agent_keys[k].agent = q.agent => agent_keys'[k].revoked_at # None
      BY <2>2 DEF KillKeys, KillsKey, TypeOK, KeyRow
    <3>3. KeysAreDead(q.agent)'
      BY <1>2, <3>2 DEF KeysAreDead, KeysOf
    <3> QED BY <3>1, <3>3 DEF Halfway, Opens
  <2> QED BY <2>1, <2>2
<1>7. \A s \in Requests : Halfway(req[s])'
  <2>1. ASSUME NEW s \in Requests \ {r} PROVE Halfway(req[s])'
    BY <1>1, <1>4, <1>5 DEF DoorsInv, DoorsHold, Halfway, Opens, GrantsOf
  <2> QED BY <1>6, <2>1
<1> QED BY <1>1, <1>3, <1>7 DEF DoorsInv, DoorsHold, GrantsFollowBinding

\* A binding that enters takes a client that had none, so every grant keeps the
\* binding it follows.
LEMMA BindDoors ==
  ASSUME DoorsInv, TakeTurns, NEW r \in Requests, NEW a, a \notin shut, NEW x,
         PinClient(r) \/ BindExisting(r) \/ BindNew(r), req' = [req EXCEPT ![r] = x],
         x = Idle \/ (x.at = "verify" /\ x.agent = a),
         \/ UniqueRow(req[r].client, a) /\ oauth_clients' = Put(oauth_clients, req[r].client, a)
         \/ UNCHANGED oauth_clients
  PROVE  DoorsHold'
<1>1. Opens(req[r])
  BY DEF PinClient, BindExisting, BindNew, At, Opens
<1>2. UNCHANGED <<agent_keys, grants, now, shut>>
  BY DEF PinClient, BindExisting, BindNew, oauth, intent
<1>3. \A c \in DOMAIN oauth_clients :
        c \in DOMAIN oauth_clients' /\ oauth_clients'[c] = oauth_clients[c]
  BY DEF Put, UniqueRow
<1>4. \A s \in Requests : req'[s] = IF s = r THEN x ELSE req[s]
  BY DEF DoorsInv, AccessInv, TypeOK
<1>5. \A s \in Requests : Halfway(req[s])'
  <2> SUFFICES ASSUME NEW s \in Requests PROVE Halfway(req[s])'
    OBVIOUS
  <2>1. CASE s = r
    BY <1>2, <1>4, <2>1 DEF Halfway, Idle, Opens
  <2>2. CASE s # r
    BY <1>1, <1>2, <1>3, <1>4, <2>2, OpensAlone DEF DoorsInv, DoorsHold, Halfway, Opens
  <2> QED BY <2>1, <2>2
<1>6. KilledStaysOut'
  BY <1>2 DEF DoorsInv, DoorsHold, KilledStaysOut, HasDoor, GrantsOf, KeysOf, Authenticates,
     IsKeyExpired
<1>7. GrantsFollowBinding'
  BY <1>2, <1>3 DEF DoorsInv, DoorsHold, GrantsFollowBinding
<1> QED BY <1>5, <1>6, <1>7 DEF DoorsHold

\* Consent grants what the binding says, to an agent that is not shut out.
LEMMA CompleteDoors ==
  ASSUME DoorsInv, TakeTurns, NEW r \in Requests, CompleteAuthorization(r)
  PROVE  DoorsHold'
<1> PICK q : q = req[r]
  OBVIOUS
<1>1. /\ Opens(q) /\ q.agent \notin shut
      /\ q.client \in DOMAIN oauth_clients /\ oauth_clients[q.client] = q.agent
  BY DEF CompleteAuthorization, At, Opens, DoorsInv, DoorsHold, Halfway
<1>2. /\ UNCHANGED <<agent_keys, oauth_clients, now, shut>>
      /\ grants' \subseteq grants \cup {<<q.client, q.agent>>}
      /\ req' = [req EXCEPT ![r] = Idle]
  BY DEF CompleteAuthorization, d1, intent, End
<1>3. \A s \in Requests : req'[s] = IF s = r THEN Idle ELSE req[s]
  BY <1>2 DEF DoorsInv, AccessInv, TypeOK
<1>4. GrantsFollowBinding'
  BY <1>1, <1>2 DEF DoorsInv, DoorsHold, GrantsFollowBinding
<1>5. KilledStaysOut'
  BY <1>1, <1>2 DEF DoorsInv, DoorsHold, KilledStaysOut, HasDoor, GrantsOf, KeysOf,
     Authenticates, IsKeyExpired
<1>6. \A s \in Requests : Halfway(req[s])'
  <2> SUFFICES ASSUME NEW s \in Requests PROVE Halfway(req[s])'
    OBVIOUS
  <2>1. CASE s = r
    BY <1>3, <2>1 DEF Halfway, Idle, Opens
  <2>2. CASE s # r
    BY <1>1, <1>2, <1>3, <2>2, OpensAlone DEF DoorsInv, DoorsHold, Halfway, Opens
  <2> QED BY <2>1, <2>2
<1> QED BY <1>4, <1>5, <1>6 DEF DoorsHold

\* The provider deletes a client with its grants: doors only close.
LEMMA ProviderDoors ==
  ASSUME DoorsInv, NEW r \in Requests, NEW c, ProviderDeletes(c),
         NEW x, req' = [req EXCEPT ![r] = x],
         UNCHANGED <<agent_keys, oauth_clients, now, shut>>,
         \/ x = Idle
         \/ x.at = "drop" /\ x.client = c
         \/ /\ req[r].at = "kill_clients" /\ x.agent = req[r].agent
            /\ x.todo = req[r].todo \ {c}
            /\ x.at = IF req[r].todo = {c} THEN "kill_rows" ELSE "kill_clients"
  PROVE  DoorsHold'
<1>1. grants' = {g \in grants : g[1] # c}
  BY DEF ProviderDeletes
<1>2. \A s \in Requests : req'[s] = IF s = r THEN x ELSE req[s]
  BY DEF DoorsInv, AccessInv, TypeOK
<1>3. GrantsFollowBinding' /\ KilledStaysOut'
  BY <1>1 DEF DoorsInv, DoorsHold, GrantsFollowBinding, KilledStaysOut, HasDoor, GrantsOf,
     KeysOf, Authenticates, IsKeyExpired
<1>4. Halfway(req[r])'
  <2>1. CASE x = Idle
    BY <1>2, <2>1 DEF Halfway, Idle, Opens
  <2>2. CASE x.at = "drop" /\ x.client = c
    BY <1>1, <1>2, <2>2 DEF Halfway, Opens
  <2>3. CASE /\ req[r].at = "kill_clients" /\ x.agent = req[r].agent
             /\ x.todo = req[r].todo \ {c}
             /\ x.at = IF req[r].todo = {c} THEN "kill_rows" ELSE "kill_clients"
    <3>1. /\ KeysAreDead(x.agent)
          /\ \A g \in grants : g[2] = x.agent => g[1] \in req[r].todo
      BY <2>3 DEF DoorsInv, DoorsHold, Halfway, GrantsOf
    <3>2. KeysAreDead(x.agent)'
      BY <3>1 DEF KeysAreDead, KeysOf
    <3>3. \A g \in grants' : g[2] = x.agent => g[1] \in x.todo
      BY <1>1, <2>3, <3>1
    <3>4. x.at = "kill_rows" => GrantsOf(x.agent)' = {}
      BY <1>1, <2>3, <3>1 DEF GrantsOf
    <3> QED BY <1>2, <2>3, <3>2, <3>3, <3>4 DEF Halfway, Opens, GrantsOf
  <2> QED BY <2>1, <2>2, <2>3
<1>5. ASSUME NEW s \in Requests \ {r} PROVE Halfway(req[s])'
  BY <1>1, <1>2 DEF DoorsInv, DoorsHold, Halfway, Opens, KeysAreDead, KeysOf, GrantsOf
<1> QED BY <1>3, <1>4, <1>5 DEF DoorsHold

\* Rows that leave are of clients without grants.
LEMMA DropDoors ==
  ASSUME DoorsInv, TakeTurns, NEW r \in Requests, Closes(req[r]), NEW S,
         oauth_clients' = Without(oauth_clients, S),
         \A g \in grants : g[1] \notin S,
         req' = [req EXCEPT ![r] = Idle], UNCHANGED <<agent_keys, grants, now>>,
         \A a \in shut' : a \in shut \/ ~HasDoor(a)
  PROVE  DoorsHold'
<1>1. /\ DOMAIN oauth_clients' = DOMAIN oauth_clients \ S
      /\ \A c \in DOMAIN oauth_clients' : oauth_clients'[c] = oauth_clients[c]
  BY DEF Without
<1>2. \A s \in Requests : req'[s] = IF s = r THEN Idle ELSE req[s]
  BY DEF DoorsInv, AccessInv, TypeOK
<1>3. GrantsFollowBinding'
  BY <1>1 DEF DoorsInv, DoorsHold, GrantsFollowBinding
<1>4. KilledStaysOut'
  BY DEF DoorsInv, DoorsHold, KilledStaysOut, HasDoor, GrantsOf, KeysOf, Authenticates, IsKeyExpired
<1>5. \A s \in Requests : Halfway(req[s])'
  <2> SUFFICES ASSUME NEW s \in Requests PROVE Halfway(req[s])'
    OBVIOUS
  <2>1. CASE s = r
    BY <1>2, <2>1 DEF Halfway, Idle, Opens
  <2>2. CASE s # r
    <3>1. ~Opens(req[s]) /\ req[s].at # "complete"
      BY ClosesAlone
    <3> QED BY <1>2, <2>2, <3>1 DEF DoorsInv, DoorsHold, Halfway, Opens, KeysAreDead, KeysOf, GrantsOf
  <2> QED BY <2>1, <2>2
<1> QED BY <1>3, <1>4, <1>5 DEF DoorsHold

\* A kill whose agent has neither a live key nor a grant closed every door.
LEMMA NoDoorLeft ==
  ASSUME NEW a, KeysAreDead(a), GrantsOf(a) = {}
  PROVE  ~HasDoor(a)
BY DEF HasDoor, KeysAreDead, Authenticates, KeysOf

LEMMA ListDoors ==
  ASSUME DoorsInv, TakeTurns, NEW r \in Requests, ListClients(r)
  PROVE  DoorsHold'
<1> PICK q \in Request : q = req[r]
  BY DEF DoorsInv, AccessInv, TypeOK
<1>1. KeysAreDead(q.agent) /\ Closes(q) /\ UNCHANGED <<agents, agent_keys, oauth_clients, grants, now>>
  BY DEF ListClients, At, DoorsInv, DoorsHold, Halfway, Closes, d1, oauth
<1>2. \A g \in GrantsOf(q.agent) : g[1] \in ClientsOf(q.agent)
  BY DEF DoorsInv, DoorsHold, GrantsFollowBinding, GrantsOf, ClientsOf
<1>3. CASE ClientsOf(q.agent) = {}
  <2>1. ~HasDoor(q.agent)
    <3>1. GrantsOf(q.agent) = {}
      BY <1>2, <1>3
    <3> QED BY <1>1, <3>1, NoDoorLeft
  <2>2. req' = [req EXCEPT ![r] = Idle] /\ shut' = shut \cup {q.agent}
    BY <1>3 DEF ListClients, Answer, End
  <2>3. \A s \in Requests : req'[s] = IF s = r THEN Idle ELSE req[s]
    BY <2>2 DEF DoorsInv, AccessInv, TypeOK
  <2>4. KilledStaysOut'
    BY <1>1, <2>1, <2>2 DEF DoorsInv, DoorsHold, KilledStaysOut, HasDoor, GrantsOf, KeysOf,
       Authenticates, IsKeyExpired
  <2>5. \A s \in Requests : Halfway(req[s])'
    <3> SUFFICES ASSUME NEW s \in Requests PROVE Halfway(req[s])'
      OBVIOUS
    <3>1. CASE s = r
      BY <2>3, <3>1 DEF Halfway, Idle, Opens
    <3>2. CASE s # r
      <4>1. ~Opens(req[s])
        BY <1>1, ClosesAlone
      <4> QED BY <1>1, <2>3, <3>2, <4>1 DEF DoorsInv, DoorsHold, Halfway, Opens, KeysAreDead,
                 KeysOf, GrantsOf
    <3> QED BY <3>1, <3>2
  <2> QED BY <1>1, <2>4, <2>5 DEF DoorsInv, DoorsHold, GrantsFollowBinding
<1>4. CASE ClientsOf(q.agent) # {}
  <2> DEFINE x == [q EXCEPT !.at = "kill_clients", !.todo = ClientsOf(q.agent)]
  <2>1. /\ req' = [req EXCEPT ![r] = x] /\ UNCHANGED intent
        /\ x.at = "kill_clients" /\ x.agent = q.agent /\ x.todo = ClientsOf(q.agent)
    BY <1>4 DEF ListClients, Request
  <2> HIDE DEF x
  <2>2. Halfway(x)
    BY <1>1, <1>2, <2>1 DEF Halfway, Opens
  <2> QED BY <1>1, <2>1, <2>2, LocalDoors DEF intent
<1> QED BY <1>3, <1>4

LEMMA ContinueDoors ==
  ASSUME DoorsInv, TakeTurns, NEW r \in Requests, Continue(r)
  PROVE  DoorsHold'
<1> PICK q \in Request : q = req[r]
  BY DEF DoorsInv, AccessInv, TypeOK
<1> Halfway(q) /\ Labelled(q) /\ TypeOK /\ None \notin shut
  BY NoneIsNoAgent DEF DoorsInv, DoorsHold, AccessInv
<1>1. CASE InsertKey(r)
  BY <1>1, InsertKeyDoors
<1>2. CASE RevokeKey(r) \/ KillKeys(r)
  BY <1>2, StampDoors
<1>3. CASE PinClient(r) \/ BindExisting(r)
  <2>1. q.agent \notin shut
    BY <1>3 DEF PinClient, BindExisting, At, Halfway, Opens
  <2>2. PICK x : req' = [req EXCEPT ![r] = x] /\ (x = Idle \/ (x.at = "verify" /\ x.agent = q.agent))
    <3>1. CASE End(r)
      BY <3>1 DEF End
    <3>2. CASE Goto(r, "verify")
      <4> DEFINE x == [q EXCEPT !.at = "verify"]
      <4>1. req' = [req EXCEPT ![r] = x] /\ x.at = "verify" /\ x.agent = q.agent
        BY <3>2 DEF Goto, Request
      <4> HIDE DEF x
      <4> QED BY <4>1
    <3> QED BY <1>3, <3>1, <3>2 DEF PinClient, BindExisting
  <2>3. \/ UniqueRow(q.client, q.agent) /\ oauth_clients' = Put(oauth_clients, q.client, q.agent)
        \/ UNCHANGED oauth_clients
    BY <1>3 DEF PinClient, BindExisting
  <2> QED BY <1>3, <2>1, <2>2, <2>3, BindDoors
<1>4. CASE BindNew(r)
  <2>1. PICK a \in Agents \ drawn :
          IF UniqueRow(q.client, a)
            THEN /\ oauth_clients' = Put(oauth_clients, q.client, a)
                 /\ req' = [req EXCEPT ![r].at = "verify", ![r].agent = a]
            ELSE End(r) /\ UNCHANGED oauth_clients
    BY <1>4 DEF BindNew
  <2>2. a \notin shut
    BY <2>1 DEF DoorsInv, AccessInv, TypeOK
  <2>3. PICK x : req' = [req EXCEPT ![r] = x] /\ (x = Idle \/ (x.at = "verify" /\ x.agent = a))
    <3>1. CASE End(r)
      BY <3>1 DEF End
    <3>2. CASE UniqueRow(q.client, a)
      <4> DEFINE x == [q EXCEPT !.at = "verify", !.agent = a]
      <4>1. req' = [req EXCEPT ![r] = x] /\ x.at = "verify" /\ x.agent = a
        BY <2>1, <3>2 DEF Request
      <4> HIDE DEF x
      <4> QED BY <4>1
    <3> QED BY <2>1, <3>1, <3>2
  <2> QED BY <1>4, <2>1, <2>2, <2>3, BindDoors
<1>5. CASE CompleteAuthorization(r)
  BY <1>5, CompleteDoors
<1>6. CASE ListClients(r)
  BY <1>6, ListDoors
<1>7. CASE DeleteAtProvider(r)
  <2>1. PICK x : req' = [req EXCEPT ![r] = x] /\ (x = Idle \/ (x.at = "drop" /\ x.client = q.client))
    <3>1. CASE End(r)
      BY <3>1 DEF End
    <3>2. CASE Goto(r, "drop")
      <4> DEFINE x == [q EXCEPT !.at = "drop"]
      <4>1. req' = [req EXCEPT ![r] = x] /\ x.at = "drop" /\ x.client = q.client
        BY <3>2 DEF Goto, Request
      <4> HIDE DEF x
      <4> QED BY <4>1
    <3> QED BY <1>7, <3>1, <3>2 DEF DeleteAtProvider
  <2> QED BY <1>7, <2>1, ProviderDoors DEF DeleteAtProvider, d1, intent
<1>8. CASE KillClient(r)
  <2>1. PICK c \in q.todo :
          /\ ProviderDeletes(c)
          /\ req' = [req EXCEPT ![r].todo = @ \ {c},
                                ![r].at = IF q.todo = {c} THEN "kill_rows" ELSE @]
    BY <1>8 DEF KillClient
  <2>2. q.at = "kill_clients" /\ UNCHANGED <<d1, now, intent>>
    BY <1>8 DEF KillClient, At
  <2> DEFINE x == [q EXCEPT !.todo = @ \ {c}, !.at = IF q.todo = {c} THEN "kill_rows" ELSE @]
  <2>3. /\ req' = [req EXCEPT ![r] = x]
        /\ x.agent = q.agent /\ x.todo = q.todo \ {c}
        /\ x.at = IF q.todo = {c} THEN "kill_rows" ELSE "kill_clients"
    BY <2>1, <2>2 DEF Request
  <2> HIDE DEF x
  <2>4. /\ req[r].at = "kill_clients" /\ x.agent = req[r].agent
        /\ x.todo = req[r].todo \ {c}
        /\ x.at = IF req[r].todo = {c} THEN "kill_rows" ELSE "kill_clients"
    BY <2>2, <2>3
  <2>5. UNCHANGED <<agent_keys, oauth_clients, now, shut>>
    BY <2>2 DEF d1, intent
  <2> QED BY <2>1, <2>3, <2>4, <2>5, ProviderDoors
<1>9. CASE DropRow(r)
  <2>1. Closes(q) /\ \A g \in grants : g[1] \notin {q.client}
    BY <1>9 DEF DropRow, At, Closes, Halfway
  <2> QED BY <1>9, <2>1, DropDoors DEF DropRow, End, oauth, intent
<1>10. CASE KillRows(r)
  <2>1. Closes(q) /\ GrantsOf(q.agent) = {} /\ ~HasDoor(q.agent)
    BY <1>10, NoDoorLeft DEF KillRows, At, Closes, Halfway
  <2>2. \A g \in grants : g[1] \notin ClientsOf(q.agent)
    BY <2>1 DEF GrantsOf, ClientsOf, DoorsInv, DoorsHold, GrantsFollowBinding
  <2>3. \A a \in shut' : a \in shut \/ ~HasDoor(a)
    BY <1>10, <2>1 DEF KillRows, Answer
  <2> QED BY <1>10, <2>1, <2>2, <2>3, DropDoors DEF KillRows, Answer, End, oauth
<1>11. CASE StampCredential(r) \/ ProvisionClient(r) \/ VerifyBinding(r) \/ LookupUnbound(r)
            \/ KillClientFails(r)
  <2>1. UNCHANGED <<agents, agent_keys, oauth_clients, grants, now, shut>>
    BY <1>11 DEF StampCredential, ProvisionClient, VerifyBinding, LookupUnbound,
       KillClientFails, d1, oauth, intent
  <2>2. CASE End(r)
    BY <2>1, <2>2, IdleIsHalfway, LocalDoors DEF End
  <2>3. CASE StampCredential(r)
    <3>1. PICK ttl : req' = [req EXCEPT ![r].at = "mint", ![r].expires = now + Clamped(ttl)]
      BY <2>3 DEF StampCredential
    <3> DEFINE x == [q EXCEPT !.at = "mint", !.expires = now + Clamped(ttl)]
    <3>2. req' = [req EXCEPT ![r] = x] /\ x.at = "mint" /\ x.agent = q.agent
      BY <3>1 DEF Request
    <3> HIDE DEF x
    <3>3. Halfway(x)
      BY <2>3, <3>2 DEF StampCredential, At, Halfway, Opens
    <3> QED BY <2>1, <3>2, <3>3, LocalDoors
  <2>4. CASE ProvisionClient(r)
    <3>1. PICK c : req' = [req EXCEPT ![r].at = "pin", ![r].client = c]
      BY <2>4 DEF ProvisionClient
    <3> DEFINE x == [q EXCEPT !.at = "pin", !.client = c]
    <3>2. req' = [req EXCEPT ![r] = x] /\ x.at = "pin" /\ x.agent = q.agent
      BY <3>1 DEF Request
    <3> HIDE DEF x
    <3>3. Halfway(x)
      BY <2>4, <3>2 DEF ProvisionClient, At, Halfway, Opens
    <3> QED BY <2>1, <3>2, <3>3, LocalDoors
  <2>5. CASE VerifyBinding(r) /\ q.client \in ClientsOf(q.agent) /\ Goto(r, "complete")
    <3> DEFINE x == [q EXCEPT !.at = "complete"]
    <3>1. /\ req' = [req EXCEPT ![r] = x]
          /\ x.at = "complete" /\ x.agent = q.agent /\ x.client = q.client
      BY <2>5 DEF Goto, Request
    <3> HIDE DEF x
    <3>2. Halfway(x)
      BY <2>5, <3>1 DEF VerifyBinding, At, Halfway, Opens, ClientsOf
    <3> QED BY <2>1, <3>1, <3>2, LocalDoors
  <2>6. CASE LookupUnbound(r) /\ Goto(r, "delete_unbound")
    <3> DEFINE x == [q EXCEPT !.at = "delete_unbound"]
    <3>1. req' = [req EXCEPT ![r] = x] /\ x.at = "delete_unbound"
      BY <2>6 DEF Goto, Request
    <3> HIDE DEF x
    <3>2. Halfway(x)
      BY <3>1 DEF Halfway, Opens
    <3> QED BY <2>1, <3>1, <3>2, LocalDoors
  <2> QED BY <1>11, <2>2, <2>3, <2>4, <2>5, <2>6
          DEF VerifyBinding, LookupUnbound, KillClientFails, Partial
<1> QED BY <1>1, <1>2, <1>3, <1>4, <1>5, <1>6, <1>7, <1>8, <1>9, <1>10, <1>11 DEF Continue

LEMMA BesideDoors ==
  ASSUME DoorsInv, MintAgent \/ Prune \/ RegisterClient \/ Tick \/ \E c \in Clients : ExpireClient(c)
  PROVE  DoorsHold'
<1> TypeOK /\ shut \subseteq agents /\ agents \subseteq drawn
  BY DEF DoorsInv, AccessInv, TypeOK
<1>1. UNCHANGED <<oauth_clients, grants, req, shut>>
  BY DEF MintAgent, Prune, RegisterClient, Tick, ExpireClient, d1, oauth, intent
<1>2. CASE MintAgent
  <2>1. PICK a \in Agents \ drawn, k \in Keys \ drawn :
          /\ agents' = agents \cup {a}
          /\ agent_keys' = Put(agent_keys, k, [agent |-> a, expires_at |-> None, revoked_at |-> None])
          /\ drawn' = drawn \cup {a, k}
          /\ UNCHANGED <<oauth_clients, oauth, now, req, intent>>
    BY <1>2 DEF MintAgent
  <2>2. /\ DOMAIN agent_keys' = DOMAIN agent_keys \cup {k}
        /\ agent_keys'[k].agent = a
        /\ \A z \in DOMAIN agent_keys \ {k} : agent_keys'[z] = agent_keys[z]
    BY <2>1 DEF Put
  <2>3. \A b \in agents, z \in DOMAIN agent_keys' :
          agent_keys'[z].agent = b => z \in DOMAIN agent_keys /\ agent_keys'[z] = agent_keys[z]
    BY <2>1, <2>2
  <2>4. KilledStaysOut'
    BY <1>1, <2>1, <2>3 DEF DoorsInv, DoorsHold, KilledStaysOut, HasDoor, GrantsOf, KeysOf,
       Authenticates, IsKeyExpired
  <2>5. ASSUME NEW s \in Requests PROVE Halfway(req[s])'
    <3>1. Halfway(req[s]) /\ Labelled(req[s])
      BY DEF DoorsInv, DoorsHold, AccessInv
    <3>2. req[s].agent \in agents /\ KeysAreDead(req[s].agent) => KeysAreDead(req[s].agent)'
      BY <1>1, <2>3 DEF KeysAreDead, KeysOf
    <3> QED BY <1>1, <3>1, <3>2 DEF Halfway, Opens, GrantsOf, Labelled
  <2> QED BY <1>1, <2>4, <2>5 DEF DoorsInv, DoorsHold, GrantsFollowBinding
<1>3. CASE Prune
  <2>1. PICK S : agent_keys' = Without(agent_keys, S)
    BY <1>3 DEF Prune
  <2>2. /\ DOMAIN agent_keys' \subseteq DOMAIN agent_keys /\ now' = now
        /\ \A z \in DOMAIN agent_keys' : agent_keys'[z] = agent_keys[z]
    BY <1>3, <2>1 DEF Without, Prune
  <2>3. KilledStaysOut'
    BY <1>1, <2>2 DEF DoorsInv, DoorsHold, KilledStaysOut, HasDoor, GrantsOf, KeysOf,
       Authenticates, IsKeyExpired
  <2>4. \A a : KeysAreDead(a) => KeysAreDead(a)'
    BY <2>2 DEF KeysAreDead, KeysOf
  <2>5. \A s \in Requests : Halfway(req[s])'
    BY <1>1, <2>4 DEF DoorsInv, DoorsHold, Halfway, Opens, GrantsOf
  <2> QED BY <1>1, <2>3, <2>5 DEF DoorsInv, DoorsHold, GrantsFollowBinding
<1>4. CASE RegisterClient \/ Tick \/ \E c \in Clients : ExpireClient(c)
  <2>1. agent_keys' = agent_keys /\ now \in Nat /\ now' \in {now, now + 1}
    BY <1>4 DEF RegisterClient, Tick, ExpireClient, d1, TypeOK
  <2>2. \A k \in DOMAIN agent_keys : Authenticates(k)' => Authenticates(k)
    BY <2>1 DEF Authenticates, IsKeyExpired, TypeOK, KeyRow
  <2>3. KilledStaysOut'
    BY <1>1, <2>1, <2>2 DEF DoorsInv, DoorsHold, KilledStaysOut, HasDoor, GrantsOf, KeysOf
  <2>4. \A s \in Requests : Halfway(req[s])'
    BY <1>1, <2>1 DEF DoorsInv, DoorsHold, Halfway, Opens, KeysAreDead, KeysOf, GrantsOf
  <2> QED BY <1>1, <2>3, <2>4 DEF DoorsInv, DoorsHold, GrantsFollowBinding
<1> QED BY <1>2, <1>3, <1>4

LEMMA DoorsInvariance == Spec /\ []TakeTurns => []DoorsInv
<1>1. Init => DoorsHold
  BY IdleIsHalfway DEF Init, DoorsHold, KilledStaysOut, GrantsFollowBinding
<1>2. AccessInv /\ DoorsHold /\ TakeTurns /\ [Next]_vars => DoorsHold'
  <2> SUFFICES ASSUME DoorsInv, TakeTurns, [Next]_vars PROVE DoorsHold'
    BY DEF DoorsInv
  <2>1. ASSUME NEW r \in Requests, Abandon(r) PROVE DoorsHold'
    BY <2>1, IdleIsHalfway, LocalDoors DEF Abandon, End, d1, oauth, intent
  <2>2. CASE UNCHANGED vars
    BY <2>2 DEF vars, d1, oauth, intent, DoorsInv, DoorsHold, KilledStaysOut, HasDoor, GrantsOf,
       KeysOf, Authenticates, IsKeyExpired, GrantsFollowBinding, Halfway, Opens, KeysAreDead
  <2> QED BY <2>1, <2>2, BeginDoors, ContinueDoors, BesideDoors DEF Next
<1> QED BY <1>1, <1>2, AccessInvariance, PTL DEF Spec, DoorsInv

\* As long as no request opens a door while a kill or a deletion is under way,
\* an agent whose kill was answered ok is out by both doors until the operator
\* opens one, however many kills failed half-way, were abandoned or overlapped.
THEOREM KilledAgentsStayOut == Spec /\ []TakeTurns => []KilledStaysOut
<1>1. DoorsInv => KilledStaysOut
  BY DEF DoorsInv, DoorsHold
<1> QED BY <1>1, DoorsInvariance, PTL

\* ... and every grant is of a client that is bound to the grant's agent.
THEOREM GrantsAreBound == Spec /\ []TakeTurns => []GrantsFollowBinding
<1>1. DoorsInv => GrantsFollowBinding
  BY DEF DoorsInv, DoorsHold
<1> QED BY <1>1, DoorsInvariance, PTL
=============================================================================
