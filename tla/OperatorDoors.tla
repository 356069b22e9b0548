--------------------------- MODULE OperatorDoors ---------------------------
(***************************************************************************)
(* The doors a document is changed by, and the operator's sessions         *)
(* (admin-documents.ts, admin-slugs.ts, manage.ts, console.ts, index.ts,   *)
(* login.ts), composed with the reads of Doors.                            *)
(*                                                                         *)
(* A handler is its gate and the core it calls.  A core is what it answers *)
(* and what it leaves in the store, committed by one batch; how two writes *)
(* interleave inside a core is DocumentStore's matter, and only the cores  *)
(* that resolve a document before they write its name keep that order here.*)
(* A call that is refused changes nothing and may be made again.           *)
(***************************************************************************)
EXTENDS Doors

----------------------------------------------------------------------------
\* The cores.

Store(status, docs, tombs, bytes) ==
  [status |-> status, documents |-> docs, slug_tombstones |-> tombs, blobs |-> bytes,
   job |-> job, keys |-> env.keys, issued |-> env.issued]
Fails(status) == Store(status, documents, slug_tombstones, blobs)
Writes(docs) == Store(200, docs, slug_tombstones, blobs)

\* insert or ignore: the first retirement of a name stands.
TombstoneSlug(slug, target) ==
  [s \in DOMAIN slug_tombstones \union ({slug} \ {None}) |->
     IF s \in DOMAIN slug_tombstones THEN slug_tombstones[s] ELSE target]

SetDocumentVisibilityCore(d, visibility) ==
  LET row == documents[d]
      published == IF visibility = "public" /\ row.published_ver = 0
                     THEN row.current_ver ELSE row.published_ver
  IN IF ~Live(row) THEN Fails(404)
     ELSE Writes([documents EXCEPT ![d].visibility = visibility, ![d].published_ver = published])

PromoteVersionCore(d, n) ==
  IF Live(documents[d]) /\ n \in 1..documents[d].current_ver
    THEN Writes([documents EXCEPT ![d].published_ver = n]) ELSE Fails(404)

\* A name some row holds, or that was retired.
SlugRefused(slug, d) ==
  /\ slug # None /\ slug # documents[d].slug
  /\ \/ \E e \in Docs \ {d} : documents[e].slug = slug
     \/ slug \in DOMAIN slug_tombstones

\* The old name forwards here when it is replaced, and is gone when cleared.
SetDocumentSlugCore(d, slug) ==
  LET prior == documents[d].slug IN
  CASE ~Live(documents[d]) -> Fails(404)
    [] Live(documents[d]) /\ SlugRefused(slug, d) -> Fails(409)
    [] OTHER -> Store(200, [documents EXCEPT ![d].slug = slug],
                      IF slug = prior THEN slug_tombstones
                        ELSE TombstoneSlug(prior, IF slug = None THEN None ELSE d),
                      blobs)

\* What a core leaves to do after another await, for the caller of Commit.
Pending == 0
Later(kind, slug, d, status, target) ==
  [kind |-> kind, slug |-> slug, doc |-> d, status |-> status, target |-> target, by |-> None]

\* The successor is looked up before the row is written.
SetDocumentStatusCore(d, status, superseded_by) ==
  CASE /\ status = "deprecated" /\ superseded_by # None
       /\ superseded_by = d \/ ~Live(documents[superseded_by]) -> Fails(422)
    [] OTHER -> [Fails(Pending) EXCEPT !.job = Later("status", None, d, status,
                       IF status = "deprecated" THEN superseded_by ELSE None)]

SetSlugRedirectCore(slug, d) ==
  CASE slug \notin DOMAIN slug_tombstones -> Fails(404)
    [] slug \in DOMAIN slug_tombstones /\ ~Live(documents[d]) -> Fails(422)
    [] OTHER -> [Fails(Pending) EXCEPT !.job = Later("redirect", slug, d, None, None)]

ClearSlugRedirectCore(slug) ==
  IF slug \notin DOMAIN slug_tombstones THEN Fails(404)
  ELSE Store(200, documents, [slug_tombstones EXCEPT ![slug] = None], blobs)

ReleaseSlugTombstoneCore(slug) ==
  IF slug \notin DOMAIN slug_tombstones THEN Fails(404)
  ELSE Store(200, documents, [s \in DOMAIN slug_tombstones \ {slug} |-> slug_tombstones[s]], blobs)

PublishDocumentCore(d, visibility, slug) ==
  IF SlugRefused(slug, d) THEN Fails(409)
  ELSE Store(201,
         [documents EXCEPT ![d] = [Vacant EXCEPT !.life = "live", !.visibility = visibility,
            !.current_ver = 1, !.slug = slug,
            !.published_ver = IF visibility = "public" THEN 1 ELSE 0]],
         slug_tombstones, blobs \union {<<d, 1>>})

\* A new version, under the expected one (0: whatever it is).  An agent's may
\* not carry a public document's new name.
Keep == "keep"
UpdateDocumentCore(d, expected, slug, by) ==
  LET row == documents[d]
      n == row.current_ver + 1
      target == IF slug = Keep THEN row.slug ELSE slug
  IN CASE ~Live(row) -> Fails(404)
       [] Live(row) /\ expected \notin {0, row.current_ver} -> Fails(412)
       [] Live(row) /\ expected \in {0, row.current_ver} ->
            CASE by = "agent" /\ row.visibility = "public" /\ target # row.slug -> Fails(403)
              [] (by = "operator" \/ row.visibility = "private" \/ target = row.slug)
                   /\ SlugRefused(target, d) -> Fails(409)
              [] OTHER -> Store(200,
                   [documents EXCEPT ![d].current_ver = n, ![d].slug = target],
                   IF target = row.slug THEN slug_tombstones
                     ELSE TombstoneSlug(row.slug, IF target = None THEN None ELSE d),
                   blobs \union {<<d, n>>})

\* The version's source again, as the next version.
RestoreVersionCore(d, n) ==
  CASE ~(Live(documents[d]) /\ n \in 1..documents[d].current_ver) -> Fails(404)
    [] Live(documents[d]) /\ n \in 1..documents[d].current_ver /\ <<d, n>> \notin blobs -> Fails(409)
    [] OTHER -> UpdateDocumentCore(d, documents[d].current_ver, Keep, "operator")

Emptied(row) ==
  [row EXCEPT !.life = "revoked", !.current_ver = 0, !.published_ver = 0, !.slug = None]

\* The batch; the bytes go after it.  Of a document that is revoked already,
\* the bytes go again and no more.
RevokeDocumentCore(d) ==
  CASE documents[d].life = "none" -> Fails(404)
    [] documents[d].life = "revoked" -> [Fails(200) EXCEPT !.job = Later("purge", None, d, None, None)]
    [] Live(documents[d]) ->
         [Store(200, [documents EXCEPT ![d] = Emptied(@)], TombstoneSlug(documents[d].slug, None), blobs)
            EXCEPT !.job = Later("purge", None, d, None, None)]

MintAgentKeyCore(k) == [Fails(201) EXCEPT !.keys = @ \union {k}, !.issued = @ \union {k}]
RevokeKeyCore(k) == IF k \notin env.keys THEN Fails(404) ELSE [Fails(200) EXCEPT !.keys = @ \ {k}]
\* The kill switch of the one agent there is.
RevokeAgentCore == [Fails(200) EXCEPT !.keys = {}]

----------------------------------------------------------------------------
\* The gates.  Who was let in is kept with what the bindings held then.

Browser   == [Anonymous EXCEPT !.cookie = jar, !.csrf = page]
Elsewhere == [Anonymous EXCEPT !.cookie = jar]    \* a page of another site, in the same browser
Callers ==
  {Anonymous, Browser, Elsewhere}
    \union {Bearer(OperatorToken(n)) : n \in 1..env.token}
    \union {[Anonymous EXCEPT !.operator_token = n] : n \in 1..env.token}
    \union {Bearer(AgentKey(k)) : k \in env.issued}
    \union {[Anonymous EXCEPT !.cookie = l.session, !.csrf = l.session.csrf] : l \in logins}

\* Who calls, in an instance that is about the calls themselves or about the
\* changes: there, the operator.
Writers == IF scene.anyone THEN Callers ELSE {Bearer(OperatorToken(env.token))}

\* What the caller of a change is answered follows from its status: a refusal
\* leaves no trace.
\* Only a core that changed something counts towards the bound.
Commit(c, core) ==
  LET by == [c |-> c, env |-> env] IN
  /\ core.job = job \/ job = None
  /\ documents' = core.documents /\ slug_tombstones' = core.slug_tombstones
  /\ blobs' = core.blobs
  /\ job' = IF core.job = job THEN job ELSE [core.job EXCEPT !.by = by]
  /\ env' = [env EXCEPT !.keys = core.keys, !.issued = core.issued]
  /\ answer' = None
  /\ IF core.status < 300
       THEN left' = [left EXCEPT !.writes = @ - 1] /\ acted' = by
       ELSE left' = left /\ acted' = None
  /\ UNCHANGED <<browser, req, scene>>

Deny ==
  /\ answer' = None /\ acted' = None
  /\ UNCHANGED <<documents, slug_tombstones, blobs, env, job, browser, req, scene, left>>

Offered(call) == call \in scene.calls /\ left.writes > 0

\* The JSON doors of the operator.
JsonDoor(c, core) ==
  IF RequireOperator(env, c, TRUE)
    THEN Commit(c, core)
    ELSE Deny

\* The forms.  A session is answered with the page again, and its same nonce.
FormDoor(c, core) ==
  IF AuthorizeOperatorForm(env, c) THEN Commit(c, core) ELSE Deny

\* The doors an agent or a session classifies by, with no nonce asked.
CurateDoor(c, core) ==
  IF RequireReader(env, c) THEN Commit(c, core) ELSE Deny

\* The doors an agent writes by.
AgentDoor(c, core) ==
  IF AuthenticateAgent(env, c.bearer) THEN Commit(c, core) ELSE Deny

----------------------------------------------------------------------------
\* The handlers: which gate, which core.

SetDocumentVisibility(c, d, v) == Offered("visibility") /\ JsonDoor(c, SetDocumentVisibilityCore(d, v))
HandleVisibilityForm(c, d, v) == Offered("visibility form") /\ FormDoor(c, SetDocumentVisibilityCore(d, v))

PromoteDocumentVersion(c, d, n) == Offered("promote") /\ JsonDoor(c, PromoteVersionCore(d, n))
HandlePromoteForm(c, d, n) == Offered("promote form") /\ FormDoor(c, PromoteVersionCore(d, n))

SetDocumentSlug(c, d, s) == Offered("slug") /\ JsonDoor(c, SetDocumentSlugCore(d, s))
HandleSlugForm(c, d, s) == Offered("slug form") /\ FormDoor(c, SetDocumentSlugCore(d, s))

SetDocumentStatus(c, d, status, by) == Offered("status") /\ JsonDoor(c, SetDocumentStatusCore(d, status, by))
CurateDocumentStatus(c, d, status, by) == Offered("curate") /\ CurateDoor(c, SetDocumentStatusCore(d, status, by))
HandleStatusForm(c, d, status, by) == Offered("status form") /\ FormDoor(c, SetDocumentStatusCore(d, status, by))

RestoreDocumentVersion(c, d, n) == Offered("restore") /\ JsonDoor(c, RestoreVersionCore(d, n))
HandleRestoreForm(c, d, n) == Offered("restore form") /\ FormDoor(c, RestoreVersionCore(d, n))

CreateDocumentAsOperator(c, d, v, s) ==
  /\ Offered("create") /\ documents[d].life = "none"
  /\ JsonDoor(c, PublishDocumentCore(d, v, s))
\* An agent's document is born as the deployment says.
CreateDocument(c, d, s) ==
  /\ Offered("publish") /\ documents[d].life = "none"
  /\ AgentDoor(c, PublishDocumentCore(d, scene.default_visibility, s))

UpdateDocumentAsOperator(c, d, expected, s) ==
  Offered("replace") /\ JsonDoor(c, UpdateDocumentCore(d, expected, s, "operator"))
UpdateDocument(c, d, expected, s) ==
  Offered("update") /\ AgentDoor(c, UpdateDocumentCore(d, expected, s, "agent"))

RevokeDocument(c, d) == Offered("revoke") /\ JsonDoor(c, RevokeDocumentCore(d))
HandleRevokeForm(c, d) ==
  /\ Offered("revoke form")
  /\ IF AuthorizeRevokeForm(env, c)
       THEN Commit(c, RevokeDocumentCore(d))
       ELSE Deny

SetSlugRedirect(c, s, d) == Offered("redirect") /\ JsonDoor(c, SetSlugRedirectCore(s, d))
ClearSlugRedirect(c, s) == Offered("unredirect") /\ JsonDoor(c, ClearSlugRedirectCore(s))
ReleaseSlugTombstone(c, s) == Offered("release") /\ JsonDoor(c, ReleaseSlugTombstoneCore(s))

MintAgentKey(c, k) == Offered("mint key") /\ k \notin env.issued /\ JsonDoor(c, MintAgentKeyCore(k))
HandleConsoleMintKey(c, k) ==
  Offered("mint key form") /\ k \notin env.issued /\ FormDoor(c, MintAgentKeyCore(k))
RevokeKey(c, k) == Offered("revoke key") /\ JsonDoor(c, RevokeKeyCore(k))
HandleConsoleRevokeKey(c, k) == Offered("revoke key form") /\ FormDoor(c, RevokeKeyCore(k))
RevokeAgent(c) == Offered("revoke agent") /\ JsonDoor(c, RevokeAgentCore)
HandleConsoleRevokeAgent(c) == Offered("revoke agent form") /\ FormDoor(c, RevokeAgentCore)

\* The statement a core still had to run.  It looks at its own row only.
FinishJob ==
  /\ job # None
  /\ job' = None /\ answer' = None
  /\ CASE job.kind = "status" ->
            /\ IF Live(documents[job.doc])
                 THEN /\ documents' = [documents EXCEPT ![job.doc].status = job.status,
                                                        ![job.doc].superseded_by = job.target]
                      /\ acted' = job.by
                 ELSE documents' = documents /\ acted' = None
            /\ UNCHANGED <<slug_tombstones, blobs>>
       [] job.kind = "redirect" ->
            /\ slug_tombstones' = [s \in DOMAIN slug_tombstones |->
                                     IF s = job.slug THEN job.doc ELSE slug_tombstones[s]]
            /\ acted' = job.by
            /\ UNCHANGED <<documents, blobs>>
       [] job.kind = "purge" ->
            /\ blobs' = {b \in blobs : b[1] # job.doc}
            /\ acted' = job.by
            /\ UNCHANGED <<documents, slug_tombstones>>
  /\ UNCHANGED <<env, browser, req, scene, left>>

----------------------------------------------------------------------------
\* Sessions.

\* POST /login with the operator's token, or with one that is not his.
PostLogin(token) ==
  /\ left.logins > 0
  /\ left' = [left EXCEPT !.logins = @ - 1]
  /\ IF AuthenticateOperator(env, OperatorToken(token))
       THEN LET nonce == 1 + scene.left.logins - left.logins
                session == MintSessionCookieValue(env, nonce)
            IN /\ logins' = logins \union
                    {[session |-> session, token |-> env.token, epoch |-> env.epoch, at |-> env.now]}
               /\ jar' = session
       ELSE UNCHANGED <<logins, jar>>
  /\ answer' = None /\ acted' = None
  /\ UNCHANGED <<documents, slug_tombstones, blobs, env, job, page, req, scene>>

\* POST /logout only empties the browser; a session that still holds is kept
\* unless its page asks.
PostLogout(c) ==
  /\ jar # None
  /\ IF AuthenticateOperatorRequest(env, c) = "cookie" /\ ~CsrfMatches(c.csrf, c.cookie.csrf)
       THEN jar' = jar /\ acted' = None
       ELSE jar' = None /\ acted' = [c |-> c, env |-> env]
  /\ answer' = None
  /\ UNCHANGED <<documents, slug_tombstones, blobs, env, job, logins, page, req, scene, left>>

\* GET of a manage, revoke, logout or console page: it holds the nonce of the
\* session that asks, and no other caller's page does.
ServePage ==
  /\ page' = IF AuthenticateOperatorRequest(env, [Anonymous EXCEPT !.cookie = jar]) = "cookie"
               THEN jar.csrf ELSE 0
  /\ page' # page
  /\ answer' = None /\ acted' = None
  /\ UNCHANGED <<documents, slug_tombstones, blobs, env, job, logins, jar, req, scene, left>>

\* The operator deploys another token or another epoch; the clock goes on.
Rotate(token, epoch) ==
  /\ left.deploys > 0
  /\ left' = [left EXCEPT !.deploys = @ - 1]
  /\ env' = [env EXCEPT !.token = token, !.epoch = epoch]
  /\ answer' = None /\ acted' = None
  /\ UNCHANGED <<documents, slug_tombstones, blobs, job, browser, req, scene>>
Tick ==
  /\ left.ticks > 0
  /\ left' = [left EXCEPT !.ticks = @ - 1]
  /\ env' = [env EXCEPT !.now = @ + 1]
  /\ answer' = None /\ acted' = None
  /\ UNCHANGED <<documents, slug_tombstones, blobs, job, browser, req, scene>>

----------------------------------------------------------------------------
Init ==
  \E s \in Scenes :
    /\ scene = s /\ left = s.left
    /\ documents = s.documents /\ slug_tombstones = s.slug_tombstones
    /\ blobs = UNION {{d} \X (1..s.documents[d].current_ver) : d \in Docs}
    /\ env = [token |-> 1, epoch |-> 1, now |-> 0, keys |-> s.keys, issued |-> s.keys]
    /\ logins = {} /\ jar = None /\ page = 0
    /\ req = None /\ job = None /\ seen = {} /\ answer = None /\ acted = None

\* The moments a request lives through are kept until it is answered.
Watch ==
  LET now == [documents |-> documents', slug_tombstones |-> slug_tombstones', env |-> env'] IN
  seen' = CASE req # None -> seen \union {now}
            [] req = None /\ req' # None -> {now}
            [] OTHER -> {}

Names == Slugs \union {None}
Numbers == 1..2

Serve ==
  \/ \E door \in scene.doors, c \in Callers :
       \E target \in IF door \in SlugDoors THEN Slugs ELSE scene.asked,
          inm \in IF door \in {"raw", "version"} THEN scene.tags ELSE {{}},
          follow \in IF door \in SlugDoors THEN scene.follow ELSE {FALSE} :
         /\ c.operator_token = 0
         /\ Arrive(door, target, c, inm, follow)
  \/ ReadStep

Change(c) ==
  \/ \E d \in Docs, v \in {"public", "private"} :
       SetDocumentVisibility(c, d, v) \/ HandleVisibilityForm(c, d, v)
  \/ \E d \in Docs, n \in Numbers :
       \/ PromoteDocumentVersion(c, d, n) \/ HandlePromoteForm(c, d, n)
       \/ RestoreDocumentVersion(c, d, n) \/ HandleRestoreForm(c, d, n)
  \/ \E d \in Docs, s \in Names : SetDocumentSlug(c, d, s) \/ HandleSlugForm(c, d, s) \/ CreateDocument(c, d, s)
  \/ \E d \in Docs, status \in {"active", "deprecated"}, by \in Docs \union {None} :
       \/ SetDocumentStatus(c, d, status, by) \/ HandleStatusForm(c, d, status, by)
       \/ CurateDocumentStatus(c, d, status, by)
  \/ \E d \in Docs, v \in {"public", "private"}, s \in Names : CreateDocumentAsOperator(c, d, v, s)
  \/ \E d \in Docs, n \in Numbers \union {0}, s \in Names \union {Keep} :
       UpdateDocument(c, d, n, s) \/ UpdateDocumentAsOperator(c, d, n, s)
  \/ \E d \in Docs : RevokeDocument(c, d) \/ HandleRevokeForm(c, d)
  \/ \E s \in Slugs : \/ \E d \in Docs : SetSlugRedirect(c, s, d)
                      \/ ClearSlugRedirect(c, s) \/ ReleaseSlugTombstone(c, s)
  \/ \E k \in Keys : \/ MintAgentKey(c, k) \/ HandleConsoleMintKey(c, k)
                     \/ RevokeKey(c, k) \/ HandleConsoleRevokeKey(c, k)
  \/ RevokeAgent(c) \/ HandleConsoleRevokeAgent(c)

Act ==
  \/ Serve
  \/ \E c \in Writers : Change(c)
  \/ FinishJob
  \/ \E token \in 1..2 : PostLogin(token)
  \/ PostLogout(Browser) \/ PostLogout(Elsewhere)
  \/ ServePage
  \/ Rotate(env.token + 1, env.epoch) \/ Rotate(env.token, env.epoch + 1)
  \/ Tick

vars == <<store, browser, req, seen, answer, acted, scene, left>>

----------------------------------------------------------------------------
\* What was true of the caller whose change was made.  A session is the
\* operator's if it was minted under the token and the epoch the worker had,
\* less than its time to live before.
HoldsSession(a) ==
  \E l \in logins : /\ a.c.cookie = l.session
                    /\ <<l.token, l.epoch>> = <<a.env.token, a.env.epoch>>
                    /\ a.env.now < l.at + TTL
IsOperator(a) ==
  \/ a.c.bearer = <<"operator", a.env.token>>
  \/ a.c.operator_token = a.env.token
  \/ HoldsSession(a) /\ a.c.csrf = a.c.cookie.csrf
IsReader(a) == HoldsSession(a) \/ \E k \in a.env.keys : a.c.bearer = <<"agent", k>>

\* What a reader's change leaves alone: who may read a document, what the
\* public reads of it, its address once it is public, and every retired name.
LeavesDoorsAlone ==
  /\ \A d \in Docs :
       LET old == documents[d] new == documents'[d] IN
       IF old.life = "none"
         THEN new.life = "none" \/ new.visibility = scene.default_visibility
         ELSE /\ new.life = old.life /\ new.visibility = old.visibility
              /\ new.published_ver = old.published_ver
              /\ old.visibility = "public" => new.slug = old.slug
  /\ \A s \in DOMAIN slug_tombstones :
       s \in DOMAIN slug_tombstones' /\ slug_tombstones'[s] = slug_tombstones[s]
  /\ env'.keys = env.keys

\* Whatever changes, the operator's call changed it: his token in the header
\* or the form, or a session of this token and epoch, not lapsed, with its
\* nonce (a request another site makes the browser send has none).  An agent,
\* or a session without the nonce, moves none of what is his; nobody else
\* changes anything, and nobody else ends a session that still holds.
OnlyTheOperatorActs ==
  [][/\ <<documents, slug_tombstones, env.keys>>' # <<documents, slug_tombstones, env.keys>> =>
          acted' # None /\ (IsOperator(acted') \/ (IsReader(acted') /\ LeavesDoorsAlone))
     /\ jar # None /\ jar' = None /\ HoldsSession([c |-> [Anonymous EXCEPT !.cookie = jar], env |-> env]) =>
          IsOperator(acted')]_vars
=============================================================================
