------------------------------- MODULE Doors -------------------------------
(***************************************************************************)
(* The doors a document is read by (serve.ts, serve-shell.ts,              *)
(* serve-retired-slug.ts, document-read.ts).  One request is followed      *)
(* through its awaits: every SELECT, every check of the caller and every   *)
(* fetch from the bucket is an action, and OperatorDoors changes the       *)
(* documents, the names and the credentials between any two of them.       *)
(*                                                                         *)
(* A page or a body is the version it shows, <<document, number>>: titles, *)
(* headers, renderings and representations follow from it.  A version is   *)
(* one blob.  A ghost, seen, keeps what the store and the bindings held at *)
(* each moment since the request arrived: an answer is judged by it.       *)
(***************************************************************************)
EXTENDS Sessions

CONSTANTS
  Docs, Slugs, Keys,
  Scenes     \* The instances: what is there at first, and what may happen

VARIABLES
  documents,        \* documents[d]: its row
  slug_tombstones,  \* retired slug |-> the document it redirects to, or None
  blobs,            \* the versions whose bytes are in the bucket
  env,              \* what the worker's bindings hold (Sessions)
  logins,           \* ghost: the sessions minted so far
  jar,              \* the session in the operator's browser
  page,             \* the nonce in the page it has open, 0 for none
  req,              \* the request being read for, or None
  job,              \* the write that still has a statement to run, or None
  seen,             \* ghost: the moments since the request arrived
  answer,           \* the last step's answer, or None
  acted,            \* ghost: who the last step's change was made for
  scene, left       \* which instance this is, and what it has left to do

store == <<documents, slug_tombstones, blobs, env, job>>
browser == <<logins, jar, page>>

Vacant ==
  [life |-> "none", visibility |-> "private", current_ver |-> 0, published_ver |-> 0,
   slug |-> None, status |-> "active", superseded_by |-> None]

Moment == [documents |-> documents, slug_tombstones |-> slug_tombstones, env |-> env]

Live(row) == row.life = "live"

ServedVersion(row) ==
  IF row.visibility = "public" /\ row.published_ver # 0 THEN row.published_ver ELSE row.current_ver

\* An operator's page is for a session or a header; an agent reads by the API.
PagePrincipal(c) == IF AuthenticateOperatorRequest(env, c) # "none" THEN "operator" ELSE "anonymous"

Star == 0
IfNoneMatchSatisfied(inm, n) == Star \in inm \/ n \in inm

HasAuthorization(c) == c.bearer # None

\* How each door begins.  Which door a request comes to is Routes' matter.
PublicDoors == {"raw", "doc", "slug", "home"}
SlugDoors == {"slug", "text_slug"}
OperatorPages == {"version", "version_shell"}
RecordDoors == {"record", "versions"}
HttpDoors == PublicDoors \union SlugDoors \union OperatorPages \union RecordDoors
               \union {"text", "source", "links"}

\* An instance begins with a store the program can be in: a live document has
\* a version, a public one a published version, and a name is held by one
\* document at most, or retired.
DocumentRow ==
  [life : {"none", "live", "revoked"}, visibility : {"public", "private"},
   current_ver : Nat, published_ver : Nat, slug : Slugs \union {None},
   status : {"active", "deprecated"}, superseded_by : Docs \union {None}]
SoundRow(row) ==
  /\ row \in DocumentRow
  /\ Live(row) => /\ row.current_ver > 0 /\ row.published_ver <= row.current_ver
                  /\ row.visibility = "public" => row.published_ver > 0
  /\ ~Live(row) => row.current_ver = 0 /\ row.published_ver = 0 /\ row.slug = None
SoundNames(rows, tombs) ==
  /\ DOMAIN tombs \subseteq Slugs /\ tombs \in [DOMAIN tombs -> Docs \union {None}]
  /\ \A d \in Docs : rows[d].slug \notin DOMAIN tombs
  /\ \A d, e \in Docs : rows[d].slug = rows[e].slug => d = e \/ rows[d].slug = None
SoundScene(s) ==
  /\ s.documents \in [Docs -> DocumentRow] /\ \A d \in Docs : SoundRow(s.documents[d])
  /\ SoundNames(s.documents, s.slug_tombstones)
  /\ s.keys \subseteq Keys /\ s.asked \subseteq Docs /\ s.doors \subseteq HttpDoors
  /\ s.homepage \in Docs \union {None} /\ s.default_visibility \in {"public", "private"}
  /\ s.tags \subseteq SUBSET Nat /\ s.follow \subseteq BOOLEAN
  /\ s.left \in [reads : Nat, writes : Nat, logins : Nat, deploys : Nat, ticks : Nat]

ASSUME DoorsAssumption ==
  /\ None \notin Docs \union Slugs \union Keys
  /\ None \notin {"operator", "agent"} \X (Nat \union Keys)
  /\ \A s \in Scenes : SoundScene(s)

FirstStep(door, c) ==
  CASE door \in {"raw", "slug", "home"} -> door
    [] door = "doc" -> IF HasAuthorization(c) THEN "reader" ELSE "shell"
    [] door \in OperatorPages -> "page_operator"
    [] door \in RecordDoors -> "operator"
    [] OTHER -> "reader"
AfterReader(door) ==
  CASE door = "doc" -> "raw" [] door = "text_slug" -> "name" [] OTHER -> "current"

Arrive(door, target, c, inm, follow) ==
  /\ req = None /\ left.reads > 0
  /\ left' = [left EXCEPT !.reads = @ - 1]
  /\ req' = [door |-> door, target |-> target, c |-> c, inm |-> inm, follow |-> follow,
             step |-> FirstStep(door, c), next |-> AfterReader(door),
             doc |-> IF door \in SlugDoors THEN None ELSE target, row |-> Vacant, who |-> "anonymous"]
  /\ answer' = None /\ acted' = None
  /\ UNCHANGED <<store, browser, scene>>

\* The response, and what it tells: versions, the newest version's number, and
\* how: by their bytes or page, as unchanged, or as where a name redirects.
Deliver(status, told, current, how) ==
  /\ answer' = [door |-> req.door, target |-> req.target, c |-> req.c, inm |-> req.inm,
                status |-> status, told |-> told, current |-> current, how |-> how]
  /\ req' = None
Refuse(status) == Deliver(status, {}, None, "refused")
Shows(d, n) == Deliver(200, {<<d, n>>}, None, "shown")

At(step) == req # None /\ req.step = step /\ acted' = None /\ UNCHANGED <<store, browser, scene, left>>
Continue(r) == req' = r /\ answer' = None
Go(step) == Continue([req EXCEPT !.step = step])

\* One SELECT of the document's row.
FetchRow(step, missing) ==
  LET row == documents[req.doc] IN
  IF Live(row) THEN Continue([req EXCEPT !.row = row, !.step = step]) ELSE Refuse(missing)

ReaderGate ==
  /\ At("reader")
  /\ IF RequireReader(env, req.c) THEN Go(req.next) ELSE Refuse(401)

----------------------------------------------------------------------------
\* GET /d/:id/raw, and a reader's GET /d/:id and /s/:slug.
RawRow == At("raw") /\ FetchRow("raw_principal", 404)

RawPrincipal ==
  /\ At("raw_principal")
  /\ LET principal == ResolvePrincipal(env, req.c)
         n == ServedVersion(req.row)
         current == IF principal = "anonymous" THEN None ELSE req.row.current_ver
     IN CASE ~CanRead(principal, req.row.visibility) -> Refuse(404)
          [] CanRead(principal, req.row.visibility) /\ IfNoneMatchSatisfied(req.inm, n) ->
               Deliver(304, {<<req.doc, n>>}, current, "unchanged")
          [] OTHER -> Continue([req EXCEPT !.who = principal, !.step = "raw_bytes"])

RawBytes ==
  /\ At("raw_bytes")
  /\ LET n == ServedVersion(req.row) IN
     IF <<req.doc, n>> \in blobs
       THEN Deliver(200, {<<req.doc, n>>},
                    IF req.who = "anonymous" THEN None ELSE req.row.current_ver, "shown")
       ELSE Refuse(404)

\* A browser's GET /d/:id.
ShellRow == At("shell") /\ FetchRow("shell_principal", 404)

ShellPrincipal ==
  /\ At("shell_principal")
  /\ IF CanRead(PagePrincipal(req.c), req.row.visibility)
       THEN Shows(req.doc, ServedVersion(req.row))
       ELSE Refuse(404)

\* GET /.  The operator has no better view of it than anyone.
ServeHomepage ==
  /\ At("home")
  /\ LET d == scene.homepage IN
     IF /\ d # None
        /\ Live(documents[d])
        /\ CanRead("anonymous", documents[d].visibility)
       THEN Shows(d, ServedVersion(documents[d]))
       ELSE Deliver(200, {}, None, "placeholder")

\* GET /d/:id/v/:n and /d/:id/v/:n/raw: whoever is not the operator learns nothing.
AskedVersion == 1
VersionGate ==
  /\ At("page_operator")
  /\ IF AuthenticateOperatorRequest(env, req.c) # "none" THEN Go("version_row") ELSE Refuse(404)

VersionRow ==
  /\ At("version_row")
  /\ LET row == documents[req.doc] IN
     CASE ~Live(row) \/ AskedVersion > row.current_ver -> Refuse(404)
       [] Live(row) /\ AskedVersion <= row.current_ver ->
            CASE req.door = "version_shell" -> Shows(req.doc, AskedVersion)
              [] req.door = "version" /\ IfNoneMatchSatisfied(req.inm, AskedVersion) ->
                   Deliver(304, {<<req.doc, AskedVersion>>}, None, "unchanged")
              [] OTHER -> Go("version_bytes")

VersionBytes ==
  /\ At("version_bytes")
  /\ IF <<req.doc, AskedVersion>> \in blobs THEN Shows(req.doc, AskedVersion) ELSE Refuse(404)

\* GET /admin/documents/:id and its /versions: one gate, then the row.  A
\* record is shown of a revoked document too, without a version; a history is not.
OperatorGate ==
  /\ At("operator")
  /\ IF RequireOperator(env, req.c, FALSE)
       THEN Go(IF req.door = "record" THEN "record_row" ELSE "versions_row")
       ELSE Refuse(401)
RecordRow ==
  /\ At("record_row")
  /\ LET row == documents[req.doc] IN
     IF row.life # "none" THEN Shows(req.doc, row.current_ver) ELSE Refuse(404)
VersionsRow ==
  /\ At("versions_row")
  /\ LET row == documents[req.doc] IN
     IF Live(row) THEN Shows(req.doc, row.current_ver) ELSE Refuse(404)

----------------------------------------------------------------------------
\* GET /d/:id/text, /source and /links: the newest version, for who is known.
CurrentRow ==
  /\ At("current")
  /\ LET row == documents[req.doc] IN
     IF Live(row) /\ req.door = "links" THEN Shows(req.doc, row.current_ver)
     ELSE FetchRow("current_bytes", 404)

CurrentBytes ==
  /\ At("current_bytes")
  /\ LET n == req.row.current_ver IN
     IF <<req.doc, n>> \in blobs THEN Shows(req.doc, n)
     ELSE Refuse(IF req.door = "source" THEN 409 ELSE 404)

----------------------------------------------------------------------------
\* GET /s/:slug and /s/:slug/text.
Named(slug) == {d \in Docs : Live(documents[d]) /\ documents[d].slug = slug}

ServeBySlug ==
  /\ At("slug")
  /\ \/ Named(req.target) = {} /\ Go("tomb")
     \/ \E d \in Named(req.target) :
          Continue([req EXCEPT !.doc = d, !.row = documents[d], !.next = "raw",
                               !.step = IF HasAuthorization(req.c) THEN "reader" ELSE "shell_principal"])

TextBySlug ==
  /\ At("name")
  /\ \/ Named(req.target) = {} /\ Go("tomb")
     \/ \E d \in Named(req.target) : Continue([req EXCEPT !.doc = d, !.step = "current"])

\* A retired slug is gone, or redirects; a reader is checked before he is told.
FindTombstone ==
  /\ At("tomb")
  /\ IF req.target \notin DOMAIN slug_tombstones
       THEN Refuse(404)
       ELSE LET target == slug_tombstones[req.target] IN
            IF target = None THEN Refuse(410)
            ELSE Continue([req EXCEPT !.doc = target, !.next = "target",
                    !.step = IF req.door = "slug" /\ HasAuthorization(req.c) THEN "reader" ELSE "target"])

\* Fault: a revoked target is still told.
AnyTarget(row) == row.life # "none"
IsTarget(row) == Live(row)

ResolveRedirectTarget ==
  /\ At("target")
  /\ LET row == documents[req.doc] IN
     IF IsTarget(row) THEN Continue([req EXCEPT !.row = row, !.step = "target_principal"]) ELSE Refuse(410)

\* The page a browser gets, the 409 a program gets, or the target itself.
Redirected ==
  IF req.follow /\ (req.door = "text_slug" \/ HasAuthorization(req.c))
    THEN Go(IF req.door = "text_slug" THEN "current" ELSE "raw")
    ELSE Deliver(IF req.door = "text_slug" \/ HasAuthorization(req.c) THEN 409 ELSE 200,
                 {<<req.doc, ServedVersion(req.row)>>}, None, "redirected")

TargetPrincipal ==
  /\ At("target_principal")
  /\ IF ResolvePrincipal(env, req.c) # "anonymous" THEN Redirected ELSE Go("target_row")

TargetRow ==
  /\ At("target_row")
  /\ LET row == documents[req.doc] IN
     IF Live(row) /\ CanRead("anonymous", row.visibility) THEN Redirected ELSE Refuse(410)

ReadStep ==
  \/ ReaderGate \/ RawRow \/ RawPrincipal \/ RawBytes \/ ShellRow \/ ShellPrincipal
  \/ ServeHomepage \/ VersionGate \/ VersionRow \/ VersionBytes \/ OperatorGate \/ RecordRow
  \/ VersionsRow \/ CurrentRow \/ CurrentBytes \/ ServeBySlug \/ TextBySlug \/ FindTombstone
  \/ ResolveRedirectTarget \/ TargetPrincipal \/ TargetRow

----------------------------------------------------------------------------
\* What an answer says, and the moments it may be true of.

Known(m, c) == ResolvePrincipal(m.env, c) # "anonymous"
Reads(m, c, d) ==
  /\ Live(m.documents[d])
  /\ Known(m, c) \/ m.documents[d].visibility = "public"
\* The newest version, until the document is public: the published one then.
Shown(row) == IF row.visibility = "public" THEN row.published_ver ELSE row.current_ver
Retired(m, slug) == slug \in DOMAIN m.slug_tombstones
Forwards(m, slug, d) == Retired(m, slug) /\ m.slug_tombstones[slug] = d

NamedAs(m, slug, d) == m.documents[d].slug = slug \/ Forwards(m, slug, d)

TellsTrue(a, d, n, moments) ==
  LET Once(P(_)) == \E m \in moments : P(m)
      Says(m) == Live(m.documents[d]) /\ n = Shown(m.documents[d])
      May(m) == Reads(m, IF a.door = "home" THEN Anonymous ELSE a.c, d)
      Told(m) == Says(m) /\ May(m)
      Newest(m) == Live(m.documents[d]) /\ n = m.documents[d].current_ver
      Exists(m) == Live(m.documents[d]) /\ n \in 1..m.documents[d].current_ver
      Listed(m) == m.documents[d].life # "none" /\ n = m.documents[d].current_ver
      Asks(m) == Known(m, a.c)
      Operates(m) == ResolvePrincipal(m.env, a.c) = "operator"
      Addressed(m) == NamedAs(m, a.target, d)
      Current(m) == Asks(m) /\ a.current = m.documents[d].current_ver
  IN /\ CASE a.how = "redirected" -> Once(Says) /\ Once(May)
          [] a.how # "redirected" /\ a.door \in PublicDoors -> Once(Told)
          [] a.door \in OperatorPages -> Once(Operates) /\ Once(Exists)
          [] a.door = "record" -> Once(Operates) /\ Once(Listed)
          [] a.door = "versions" -> Once(Operates) /\ Once(Newest)
          [] OTHER -> Once(Asks) /\ Once(Newest)
     /\ a.door \in SlugDoors => Once(Addressed)
     /\ a.door \notin SlugDoors \union {"home"} => d = a.target
     /\ a.how = "unchanged" => n \in a.inm \/ Star \in a.inm
     /\ a.current # None => Once(Current)

\* A document is not read: it was not there, or it was not public at a moment
\* and he who asks was nobody at one.
Withheld(c, d, moments) ==
  LET Once(P(_)) == \E m \in moments : P(m)
      Gone(m) == ~Live(m.documents[d])
      Closed(m) == m.documents[d].visibility # "public"
      Unknown(m) == ~Known(m, c)
  IN Once(Gone) \/ (Once(Closed) /\ Once(Unknown))

RefusesTrue(a, homepage, moments) ==
  LET Once(P(_)) == \E m \in moments : P(m)
      Foreign(m) == ResolvePrincipal(m.env, a.c) # "operator"
      Unknown(m) == ~Known(m, a.c)
      Gone(m) == ~Live(m.documents[a.target])
      Unborn(m) == m.documents[a.target].life = "none"
      Unlisted(m) == Gone(m) \/ AskedVersion > m.documents[a.target].current_ver
      Nobodys(m) == ~Retired(m, a.target) /\ \A d \in Docs : m.documents[d].slug # a.target
      Spent(m) == Forwards(m, a.target, None)
      Homeless(m) == homepage = None \/ ~Reads(m, Anonymous, homepage)
      Stood(m) == Live(m.documents[a.target])
  IN CASE a.how = "placeholder" -> Once(Homeless)
       [] a.status = 401 -> IF a.door \in RecordDoors THEN Once(Foreign) ELSE Once(Unknown)
       [] a.status = 409 -> Once(Stood) /\ Once(Gone)
       [] a.status = 410 ->
            \/ Once(Spent)
            \/ \E d \in Docs : (\E m \in moments : Forwards(m, a.target, d)) /\ Withheld(a.c, d, moments)
       [] a.status = 404 ->
            CASE a.door \in {"raw", "doc"} -> Withheld(a.c, a.target, moments)
              [] a.door \in OperatorPages -> Once(Foreign) \/ Once(Unlisted)
              [] a.door \in SlugDoors ->
                   \/ Once(Nobodys)
                   \/ \E d \in Docs : (\E m \in moments : NamedAs(m, a.target, d)) /\ Withheld(a.c, d, moments)
              [] a.door = "record" -> Once(Unborn)
              [] OTHER -> Once(Gone)

IsTrueOf(a, moments) ==
  /\ \A v \in a.told : TellsTrue(a, v[1], v[2], moments)
  /\ a.told = {} => RefusesTrue(a, scene.homepage, moments)

\* However the documents, the names and the credentials change between two
\* awaits of a request, what it is answered was so at a moment since it came:
\* the version it shows was the one to show to him who asked, the document had
\* that name, and a 304, 401, 404 or 410 was the right refusal.  (A redirect's
\* title and the leave to see it may be of two moments, and so may the row a
\* caller is refused and his being refused it.)
AnswersAreTrue == answer # None /\ answer.door \in HttpDoors => IsTrueOf(answer, seen)

\* A store that has no private document.
Blind(m) ==
  [m EXCEPT !.documents = [d \in Docs |->
     IF m.documents[d].visibility = "public" THEN m.documents[d] ELSE Vacant]]

\* Whoever is not known is answered as by a store without its private
\* documents: no header, no 304, no name and no redirect says that one exists.
RefusalsAreOpaque ==
  answer # None /\ answer.door \in HttpDoors /\ answer.how # "redirected"
    /\ (\A m \in seen : ~Known(m, answer.c)) =>
      IsTrueOf(answer, {Blind(m) : m \in seen})
=============================================================================
