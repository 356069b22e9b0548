---------------------------- MODULE DocumentStore ----------------------------
(***************************************************************************)
(* The document write path of the Worker: publish, update, edit, restore,  *)
(* revoke, slug changes, visibility and promotion, over a relational store *)
(* (D1) and a blob store (R2).                                             *)
(*                                                                         *)
(* A request runs alone between two awaits, so each action is the code     *)
(* between one storage call and the next.  A D1 statement or batch is one  *)
(* atomic step; what a request read before an await it still believes      *)
(* after it, in the fields of req[r].  A request may also stop anywhere:   *)
(* it is refused, a call throws, or its isolate dies (Abandon).            *)
(*                                                                         *)
(* One variable per column or table.  Titles, descriptions and the source  *)
(* format travel with the source text, so a member of Sources stands for   *)
(* the whole content of a version; tags, status and redirects are other    *)
(* columns and are not here.  The storage cap's SUM reads nothing this     *)
(* module changes and its refusal is an Abandon (see StorageCap).          *)
(***************************************************************************)
EXTENDS Naturals, Sequences

CONSTANTS
  Docs,          \* document ids, born or not (newUuid draws an unborn one)
  Slugs,         \* public names
  Sources,       \* contents a caller can send
  Requests,      \* requests in flight at a time
  None,          \* SQL NULL
  Keep,          \* an omitted slug field: leave the name alone
  Doors,         \* which entry points the instance opens
  Authors,       \* which principals write: "agent", "operator"
  Births,        \* visibilities a document may be born with
  MaxVersion,    \* bound on version numbers
  MaxAttempts    \* bound on blob-writing attempts

ASSUME ConstantsAssumption ==
  /\ {None, Keep} \cap (Docs \cup Slugs \cup Sources) = {}
  /\ None # Keep
  /\ Authors \subseteq {"agent", "operator"}
  /\ Births \subseteq {"public", "private"}
  /\ MaxVersion \in Nat \ {0}
  /\ MaxAttempts \in Nat

VARIABLES
  life,             \* documents.revoked_at, and whether the row exists
  visibility,       \* documents.visibility
  current_ver,      \* documents.current_ver, 0 for NULL
  published_ver,    \* documents.published_ver, 0 for NULL
  slug,             \* documents.slug
  versions,         \* the versions table
  documents_fts,    \* the version whose text is indexed, 0 for no row
  slug_tombstones,  \* the retired names
  bucket,           \* R2: the blobs that exist
  attempts,         \* how many attempt nonces were drawn
  req,              \* what each request in flight knows
  acked             \* documents whose revoke was answered ok (history)

docVars  == <<life, visibility, current_ver, published_ver>>
nameVars == <<slug, slug_tombstones>>
textVars == <<versions, documents_fts>>
blobVars == <<bucket, attempts>>
vars == <<docVars, nameVars, textVars, blobVars, req, acked>>

-----------------------------------------------------------------------------
(* Blobs: every write attempt owns a private address, drawn with a nonce,  *)
(* for the rendered text "H" and the retained source "S".                  *)

\* Fault: the address a version number alone would give.
BlobKeyNoNonce(d, n, nonce) == <<d, n, 0>>
BlobKey(d, n, nonce) == <<d, n, nonce>>

Blobs(key) == {<<key, "H">>, <<key, "S">>}

\* Fault: the row is appended before its content is known.
EmptyRow(d, n, key, src, base) ==
  [doc |-> d, no |-> n, key |-> key, src |-> None, base |-> base]
\* A row of versions: base is the version its writer worked from (history,
\* 0 when the writer named none).
VersionRow(d, n, key, src, base) ==
  [doc |-> d, no |-> n, key |-> key, src |-> src, base |-> base]

VersionsOf(d) == {v \in versions : v.doc = d}
Holds(d, n, src) == \E v \in versions : v.doc = d /\ v.no = n /\ v.src = src
HasVersion(d, n) == \E v \in versions : v.doc = d /\ v.no = n

-----------------------------------------------------------------------------
(* Requests.                                                               *)

Idle ==
  [pc |-> "idle", op |-> "none", who |-> "operator", doc |-> None,
   src |-> None, expected |-> 0, base |-> 0, slug |-> Keep, retire |-> None, next |-> 0,
   nonce |-> 0, keys |-> {}, vis |-> "private"]

Goto(r, label) == req' = [req EXCEPT ![r].pc = label]
Finish(r) == req' = [req EXCEPT ![r] = Idle]
KeyOf(q) == BlobKey(q.doc, q.next, q.nonce)
Key(r) == KeyOf(req[r])

\* resolveSlug before it reads anything: an omitted field, or the name the
\* document already has, leaves the name alone; None releases it.
ResolveSlug(input, prior) == IF input = prior THEN Keep ELSE input

\* resolveSlug reads the store only for a claim.
AfterResolve(target, label) == IF target \in Slugs THEN "conflict" ELSE label

\* The slug lock: what an agent may not do to a public document's name.
SlugLocked(who, d, target) ==
  /\ who = "agent"
  /\ visibility[d] = "public"
  /\ target # Keep

-----------------------------------------------------------------------------
(* publish and update, up to the blob writes.                              *)

PublishRequest(who, d, src, target, vis) ==
  [Idle EXCEPT !.pc = AfterResolve(target, "putRender"), !.op = "publish",
               !.who = who, !.doc = d, !.src = src, !.slug = target,
               !.next = 1, !.vis = vis]

BeginPublish(r) ==
  /\ "publish" \in Doors
  /\ req[r].pc = "idle"
  /\ \E d \in Docs, src \in Sources, input \in Slugs \cup {None},
        who \in Authors, vis \in Births :
       /\ life[d] = "unborn"
       /\ \A q \in Requests : req[q].doc # d
       /\ req' = [req EXCEPT ![r] =
                    PublishRequest(who, d, src, ResolveSlug(input, None), vis)]
  /\ UNCHANGED <<docVars, nameVars, textVars, blobVars, acked>>

\* not_found, then version_conflict.
RowAccepts(d, expected) ==
  /\ life[d] = "live"
  /\ current_ver[d] # 0
  /\ expected \in {0, current_ver[d]}

UpdateRequest(who, d, src, expected, base, target) ==
  [Idle EXCEPT !.pc = AfterResolve(target, "putRender"), !.op = "update",
               !.who = who, !.doc = d, !.src = src, !.expected = expected,
               !.base = base, !.slug = target, !.retire = slug[d],
               !.next = current_ver[d] + 1]

\* The opening SELECT of updateDocumentCore and all it decides without another
\* read: refusals, the slug lock, and the no-op gate, which answers a write of
\* what the document already holds without writing.
OpenUpdate(r, who, d, src, expected, base, input) ==
  LET target == ResolveSlug(input, slug[d]) IN
  /\ RowAccepts(d, expected)
  /\ ~SlugLocked(who, d, target)
  /\ ~(target = Keep /\ Holds(d, current_ver[d], src))
  /\ current_ver[d] < MaxVersion
  /\ req' = [req EXCEPT ![r] = UpdateRequest(who, d, src, expected, base, target)]
  /\ UNCHANGED <<docVars, nameVars, textVars, blobVars, acked>>

BeginUpdate(r) ==
  /\ "update" \in Doors
  /\ req[r].pc = "idle"
  /\ \E d \in Docs, src \in Sources, who \in Authors,
        input \in Slugs \cup {None, Keep} :
       \E expected \in {0, current_ver[d]} :
         OpenUpdate(r, who, d, src, expected, expected, input)

\* edit and restore first read a retained source: the row, then the blob.
SourceRequest(op, who, v, input) ==
  [Idle EXCEPT !.pc = "source", !.op = op, !.who = who, !.doc = v.doc,
               !.slug = input, !.next = v.no, !.keys = {v.key}]

BeginSourceRead(r) ==
  /\ req[r].pc = "idle"
  /\ \E op \in {"edit", "restore"} \cap Doors, who \in Authors,
        input \in Slugs \cup {None, Keep} :
       \E v \in versions :
         /\ life[v.doc] = "live"
         /\ op = "edit" => v.no = current_ver[v.doc]
         /\ op = "restore" => who = "operator" /\ input = Keep
         /\ req' = [req EXCEPT ![r] = SourceRequest(op, who, v, input)]
  /\ UNCHANGED <<docVars, nameVars, textVars, blobVars, acked>>

\* Fault: an edit that names no version clobbers, as an update would.
EditExpectsNothing(op, n) == 0
\* The revision the delegated update is held to.
ExpectedOf(op, n) == IF op = "edit" THEN n ELSE 0

DelegatedRequest(q, src) ==
  [q EXCEPT !.pc = "row", !.src = src, !.next = 0, !.keys = {},
            !.expected = ExpectedOf(q.op, q.next),
            !.base = IF q.op = "edit" THEN q.next ELSE 0]

\* The blob may be gone by now (a purge): source_unavailable.  An edit sends
\* any text on, a restore the text of the version it read.
GetSource(r) ==
  LET q == req[r] IN
  /\ q.pc = "source"
  /\ \/ /\ \A key \in q.keys : <<key, "S">> \in bucket
        /\ \E src \in Sources :
             /\ q.op = "restore" => Holds(q.doc, q.next, src)
             /\ req' = [req EXCEPT ![r] = DelegatedRequest(q, src)]
     \/ /\ \E key \in q.keys : <<key, "S">> \notin bucket
        /\ Finish(r)
  /\ UNCHANGED <<docVars, nameVars, textVars, blobVars, acked>>

\* ... and hand over to updateDocumentCore, which reads the row again.
DelegateUpdate(r) ==
  /\ req[r].pc = "row"
  /\ LET q == req[r] IN
       OpenUpdate(r, q.who, q.doc, q.src, q.expected, q.base, q.slug)

-----------------------------------------------------------------------------
(* resolveSlug's two reads, shared by publish, update and setDocumentSlug. *)

CheckConflict(r) ==
  /\ req[r].pc = "conflict"
  /\ IF \E e \in Docs \ {req[r].doc} : slug[e] = req[r].slug
       THEN Finish(r)                                    \* slug_taken
       ELSE Goto(r, "retired")
  /\ UNCHANGED <<docVars, nameVars, textVars, blobVars, acked>>

\* Fault: the retired names are not consulted.
NeverRetired(s) == FALSE
IsRetired(s) == s \in slug_tombstones

CheckRetired(r) ==
  /\ req[r].pc = "retired"
  /\ IF IsRetired(req[r].slug)
       THEN Finish(r)                                    \* slug_retired
       ELSE Goto(r, IF req[r].op = "slug" THEN "slugBatch" ELSE "putRender")
  /\ UNCHANGED <<docVars, nameVars, textVars, blobVars, acked>>

\* Fault: no unique index, only the pre-check above.
NoIndex(d, s) == TRUE
\* The partial UNIQUE index on documents.slug.
IndexAdmits(d, s) == s \in Slugs => \A e \in Docs \ {d} : slug[e] # s

\* Fault: a rename forgets the name it leaves.
RetireOnlyReleased(target, prior) == IF target = None THEN {prior} \ {None} ELSE {}
\* The names a slug action retires: the one the request read, if it had one.
Retired(target, prior) == IF target = Keep THEN {} ELSE {prior} \ {None}

\* The slug statements of a batch for the request's document.
ApplySlug(r) ==
  LET q == req[r] IN
  /\ slug' = IF q.slug = Keep THEN slug ELSE [slug EXCEPT ![q.doc] = q.slug]
  /\ slug_tombstones' = slug_tombstones \cup Retired(q.slug, q.retire)

-----------------------------------------------------------------------------
(* Blobs first, then the D1 batch.                                         *)

PutRender(r) ==
  LET nonce == attempts + 1 IN
  /\ req[r].pc = "putRender"
  /\ attempts < MaxAttempts
  /\ attempts' = nonce
  /\ bucket' = bucket \cup {<<BlobKey(req[r].doc, req[r].next, nonce), "H">>}
  /\ req' = [req EXCEPT ![r].pc = "putSource", ![r].nonce = nonce]
  /\ UNCHANGED <<docVars, nameVars, textVars, acked>>

PutSource(r) ==
  /\ req[r].pc = "putSource"
  /\ bucket' = bucket \cup {<<Key(r), "S">>}
  /\ Goto(r, "batch")
  /\ UNCHANGED <<docVars, nameVars, textVars, attempts, acked>>

\* Fault: the pointer is left NULL until the first visibility flip.
UnpublishedAtBirth(vis) == 0
PublishedAtBirth(vis) == IF vis = "public" THEN 1 ELSE 0

CommitPublish(r) ==
  LET q == req[r] IN
  /\ q.pc = "batch" /\ q.op = "publish"
  /\ IndexAdmits(q.doc, q.slug)
  /\ life' = [life EXCEPT ![q.doc] = "live"]
  /\ visibility' = [visibility EXCEPT ![q.doc] = q.vis]
  /\ current_ver' = [current_ver EXCEPT ![q.doc] = 1]
  /\ published_ver' = [published_ver EXCEPT ![q.doc] = PublishedAtBirth(q.vis)]
  /\ versions' = versions \cup {VersionRow(q.doc, 1, Key(r), q.src, 0)}
  /\ documents_fts' = [documents_fts EXCEPT ![q.doc] = 1]
  /\ ApplySlug(r)
  /\ Finish(r)
  /\ UNCHANGED <<blobVars, acked>>

\* Fault: an upsert where the primary key should refuse the second writer.
NoPrimaryKey(d, n) == TRUE
\* versions has PRIMARY KEY (document_id, version_no).
PrimaryKeyAdmits(d, n) == ~HasVersion(d, n)

\* The batch appends the version, moves current_ver, replaces the search row
\* and applies the slug action; it names the document by id only, so a revoke
\* that came between the opening SELECT and here is not noticed.
CommitUpdate(r) ==
  LET q == req[r] IN
  /\ q.pc = "batch" /\ q.op = "update"
  /\ PrimaryKeyAdmits(q.doc, q.next)
  /\ IndexAdmits(q.doc, q.slug)
  /\ versions' = versions \cup {VersionRow(q.doc, q.next, Key(r), q.src, q.base)}
  /\ current_ver' = [current_ver EXCEPT ![q.doc] = q.next]
  /\ documents_fts' = [documents_fts EXCEPT ![q.doc] = q.next]
  /\ ApplySlug(r)
  /\ Finish(r)
  /\ UNCHANGED <<life, visibility, published_ver, blobVars, acked>>

\* A constraint, or D1 itself, throws: the catch block takes over ...
FailBatch(r) ==
  /\ req[r].pc = "batch"
  /\ Goto(r, "rollback")
  /\ UNCHANGED <<docVars, nameVars, textVars, blobVars, acked>>

\* ... and deletes both blobs of this attempt.
Rollback(r) ==
  /\ req[r].pc = "rollback"
  /\ bucket' = bucket \ Blobs(Key(r))
  /\ Finish(r)
  /\ UNCHANGED <<docVars, nameVars, textVars, attempts, acked>>

-----------------------------------------------------------------------------
(* revoke: the kill in one batch, then the purge of every blob.            *)

\* Fault: a document already revoked is answered not_found.
RevokesOnlyLive(d) == life[d] = "live"
\* A document already revoked is accepted: the purge is retried.
Revocable(d) == life[d] # "unborn"

RevokeRequest(d) ==
  [Idle EXCEPT !.pc = IF life[d] = "live" THEN "keys" ELSE "purgeKeys",
               !.op = "revoke", !.doc = d, !.retire = slug[d]]

BeginRevoke(r, d) ==
  /\ "revoke" \in Doors
  /\ req[r].pc = "idle"
  /\ Revocable(d)
  /\ req' = [req EXCEPT ![r] = RevokeRequest(d)]
  /\ UNCHANGED <<docVars, nameVars, textVars, blobVars, acked>>

\* The keys to purge, as the versions table lists them now.
KeysToPurge(d) == {v.key : v \in VersionsOf(d)}

ReadKeys(r) ==
  /\ req[r].pc \in {"keys", "purgeKeys"}
  /\ req' = [req EXCEPT
       ![r].pc = IF req[r].pc = "keys" THEN "kill" ELSE "purge",
       ![r].keys = KeysToPurge(req[r].doc)]
  /\ UNCHANGED <<docVars, nameVars, textVars, blobVars, acked>>

ClearColumn(column, d, null) == [column EXCEPT ![d] = null]

\* The kill, one batch: revoked_at is stamped, the columns a reader could
\* resolve are cleared, and the name the request read is retired.
Kill(r) ==
  LET d == req[r].doc IN
  /\ req[r].pc = "kill"
  /\ life' = [life EXCEPT ![d] = "revoked"]
  /\ current_ver' = ClearColumn(current_ver, d, 0)
  /\ published_ver' = ClearColumn(published_ver, d, 0)
  /\ slug' = ClearColumn(slug, d, None)
  /\ documents_fts' = ClearColumn(documents_fts, d, 0)
  /\ slug_tombstones' = slug_tombstones \cup Retired(None, req[r].retire)
  /\ Goto(r, "purge")
  /\ UNCHANGED <<visibility, versions, blobVars, acked>>

\* The bucket deletes in chunks and may fail between any two keys.
Purge(r, n) ==
  /\ req[r].pc = "purge"
  /\ \E key \in req[r].keys :
       /\ key[2] = n
       /\ bucket' = bucket \ Blobs(key)
       /\ req' = [req EXCEPT ![r].keys = @ \ {key}]
  /\ UNCHANGED <<docVars, nameVars, textVars, attempts, acked>>

AnswerRevoke(r) ==
  /\ req[r].pc = "purge"
  /\ req[r].keys = {}
  /\ acked' = acked \cup {req[r].doc}
  /\ Finish(r)
  /\ UNCHANGED <<docVars, nameVars, textVars, blobVars>>

-----------------------------------------------------------------------------
(* The operator's mutators that bump no version.                           *)

SlugRequest(d, target) ==
  [Idle EXCEPT !.pc = AfterResolve(target, "slugBatch"), !.op = "slug",
               !.doc = d, !.slug = target, !.retire = slug[d]]

BeginSetSlug(r) ==
  /\ "slug" \in Doors
  /\ req[r].pc = "idle"
  /\ \E d \in Docs, input \in Slugs \cup {None} :
       LET target == ResolveSlug(input, slug[d]) IN
       /\ life[d] = "live"
       /\ target # Keep
       /\ req' = [req EXCEPT ![r] = SlugRequest(d, target)]
  /\ UNCHANGED <<docVars, nameVars, textVars, blobVars, acked>>

CommitSlug(r) ==
  /\ req[r].pc = "slugBatch"
  /\ IndexAdmits(req[r].doc, req[r].slug)
  /\ ApplySlug(r)
  /\ Finish(r)
  /\ UNCHANGED <<docVars, textVars, blobVars, acked>>

PromoteRequest(v) ==
  [Idle EXCEPT !.pc = "promote", !.op = "promote", !.doc = v.doc, !.next = v.no]

BeginPromote(r) ==
  /\ "promote" \in Doors
  /\ req[r].pc = "idle"
  /\ \E v \in versions :
       /\ life[v.doc] = "live"
       /\ req' = [req EXCEPT ![r] = PromoteRequest(v)]
  /\ UNCHANGED <<docVars, nameVars, textVars, blobVars, acked>>

\* Fault: the write trusts the lookup and names the row by id only.
PromotesAnyRow(d) == TRUE
\* The UPDATE asserts revoked_at is null again.
PromotesRow(d) == life[d] = "live"

Promote(r) ==
  /\ req[r].pc = "promote"
  /\ published_ver' =
       IF PromotesRow(req[r].doc)
         THEN [published_ver EXCEPT ![req[r].doc] = req[r].next]
         ELSE published_ver                              \* not_found
  /\ Finish(r)
  /\ UNCHANGED <<life, visibility, current_ver, nameVars, textVars, blobVars, acked>>

\* coalesce(published_ver, current_ver) on the way public.
PublishedOnFlip(d, vis) ==
  IF vis = "public" /\ published_ver[d] = 0 THEN current_ver[d] ELSE published_ver[d]

SetVisibility(d) ==
  /\ "visibility" \in Doors
  /\ life[d] = "live"
  /\ \E vis \in {"public", "private"} :
       /\ visibility' = [visibility EXCEPT ![d] = vis]
       /\ published_ver' = [published_ver EXCEPT ![d] = PublishedOnFlip(d, vis)]
  /\ UNCHANGED <<life, current_ver, nameVars, textVars, blobVars, req, acked>>

\* The operator's escape hatch: the only way a name comes back.
ReleaseSlugTombstone(s) ==
  /\ "release" \in Doors
  /\ s \in slug_tombstones
  /\ slug_tombstones' = slug_tombstones \ {s}
  /\ UNCHANGED <<docVars, slug, textVars, blobVars, req, acked>>

\* The request is refused, throws outside a catch, or dies with its isolate.
Abandon(r) ==
  /\ req[r].pc # "idle"
  /\ Finish(r)
  /\ UNCHANGED <<docVars, nameVars, textVars, blobVars, acked>>

-----------------------------------------------------------------------------
Init ==
  /\ life = [d \in Docs |-> "unborn"]
  /\ visibility = [d \in Docs |-> "private"]
  /\ current_ver = [d \in Docs |-> 0]
  /\ published_ver = [d \in Docs |-> 0]
  /\ slug = [d \in Docs |-> None]
  /\ versions = {}
  /\ documents_fts = [d \in Docs |-> 0]
  /\ slug_tombstones = {}
  /\ bucket = {}
  /\ attempts = 0
  /\ req = [r \in Requests |-> Idle]
  /\ acked = {}

Step(r) ==
  \/ BeginPublish(r) \/ BeginUpdate(r) \/ BeginSourceRead(r)
  \/ GetSource(r) \/ DelegateUpdate(r)
  \/ CheckConflict(r) \/ CheckRetired(r)
  \/ PutRender(r) \/ PutSource(r)
  \/ CommitPublish(r) \/ CommitUpdate(r) \/ FailBatch(r) \/ Rollback(r)
  \/ \E d \in Docs : BeginRevoke(r, d)
  \/ ReadKeys(r) \/ Kill(r) \/ AnswerRevoke(r)
  \/ \E n \in 1..MaxVersion : Purge(r, n)
  \/ BeginSetSlug(r) \/ CommitSlug(r)
  \/ BeginPromote(r) \/ Promote(r)
  \/ Abandon(r)

Next ==
  \/ \E r \in Requests : Step(r)
  \/ \E d \in Docs : SetVisibility(d)
  \/ \E s \in Slugs : ReleaseSlugTombstone(s)

Spec == Init /\ [][Next]_vars

\* The operator re-issues a revoke that was not answered ok, and the platform
\* does not fail the same storage call for ever; it also ends every request.
\* Nothing else is promised.
Fairness ==
  \A r \in Requests :
    /\ WF_vars(req[r].pc # "idle" /\ Step(r))
    /\ \A d \in Docs : SF_vars(d \notin acked /\ life[d] = "revoked" /\ BeginRevoke(r, d))
    /\ SF_vars(ReadKeys(r))
    /\ \A n \in 1..MaxVersion : SF_vars(Purge(r, n))
    /\ SF_vars(AnswerRevoke(r))

FairSpec == Spec /\ Fairness

-----------------------------------------------------------------------------
(* What the world sees.                                                    *)

\* Fault: the render path follows the newest version.
ServesNewest(d) == current_ver[d]
\* served-version.ts.
ServedVersion(d) ==
  IF visibility[d] = "public" /\ published_ver[d] # 0
    THEN published_ver[d]
    ELSE current_ver[d]

\* canRead for the anonymous principal, then the render: 0 is the opaque 404.
AnonymousSees(d) ==
  IF life[d] = "live" /\ visibility[d] = "public" THEN ServedVersion(d) ELSE 0

-----------------------------------------------------------------------------
(* Properties.                                                             *)

Labels == {"idle", "source", "row", "conflict", "retired", "putRender",
           "putSource", "batch", "rollback", "keys", "purgeKeys", "kill",
           "purge", "slugBatch", "promote"}
Operations == {"publish", "update", "edit", "restore", "revoke", "slug", "promote"}
Visibilities == {"public", "private"}
Keys == Docs \X (Nat \ {0}) \X Nat
VersionRows == [doc : Docs, no : Nat \ {0}, key : Keys, src : Sources, base : Nat]
RequestStates ==
  [pc : Labels, op : Operations \cup {"none"}, who : {"agent", "operator"},
   doc : Docs \cup {None}, src : Sources \cup {None}, expected : Nat, base : Nat,
   slug : Slugs \cup {None, Keep}, retire : Slugs \cup {None}, next : Nat,
   nonce : Nat, keys : SUBSET Keys, vis : Visibilities]

\* Every column and every field of a request holds a value of its type.
TypeOK ==
  /\ life \in [Docs -> {"unborn", "live", "revoked"}]
  /\ visibility \in [Docs -> Visibilities]
  /\ current_ver \in [Docs -> Nat]
  /\ published_ver \in [Docs -> Nat]
  /\ slug \in [Docs -> Slugs \cup {None}]
  /\ versions \subseteq VersionRows
  /\ documents_fts \in [Docs -> Nat]
  /\ slug_tombstones \subseteq Slugs
  /\ bucket \subseteq Keys \X {"H", "S"}
  /\ attempts \in Nat
  /\ acked \subseteq Docs
  /\ req \in [Requests -> RequestStates]

Live(d) == life[d] = "live"

\* Whatever concurrent writers, failed batches, rollbacks and purges do, every
\* version of a live document has its rendered text and its source in R2: a
\* loser's rollback or another document's purge never takes a winner's bytes.
LiveVersionsAreStored ==
  \A v \in versions : Live(v.doc) => Blobs(v.key) \subseteq bucket

\* The versions of a live document are 1 .. current_ver, each written once:
\* two writers that read the same current_ver never both append.
HistoryIsDense ==
  /\ \A d \in Docs : Live(d) =>
       /\ current_ver[d] > 0
       /\ {v.no : v \in VersionsOf(d)} = 1..current_ver[d]
  /\ \A v, w \in versions : v.doc = w.doc /\ v.no = w.no => v = w

\* A writer that worked from a version extends exactly that version: an edit
\* re-renders the whole body of the version it read, so one committed in
\* between would be silently reverted.
EditsExtendTheirBase ==
  \A v \in versions : v.base # 0 => v.base + 1 = v.no

\* A public document always has a published version, and it exists; without
\* one the render rule falls back to whatever was written last.
PublicIsPublished ==
  \A d \in Docs : Live(d) /\ visibility[d] = "public" => HasVersion(d, published_ver[d])

\* No two documents hold the same name, whatever raced past the pre-check.
SlugIsUnique ==
  \A d, e \in Docs : slug[d] \in Slugs /\ slug[d] = slug[e] => d = e

\* A promotion looked up before a revoke never lands after it.
RevokedIsUnpublished == \A d \in Docs : life[d] = "revoked" => published_ver[d] = 0

\* A request of this principal takes a step.
StepOf(who) == \E r \in Requests : req[r].who = who /\ req'[r] # req[r]

\* No agent step changes which version of a live document the anonymous
\* internet is served: staged is not published.
AgentsNeverMoveThePublicBytes ==
  [][StepOf("agent") => \A d \in Docs : Live(d) => AnonymousSees(d)' = AnonymousSees(d)]_vars

\* A name that stops resolving is retired in the same step.
Named(s) == \E d \in Docs : slug[d] = s
ShedNamesAreRetired ==
  [][\A s \in Slugs : Named(s) /\ ~Named(s)' => s \in slug_tombstones']_vars

\* A name is live on a document or retired, never both.
LiveAndRetiredAreDisjoint == \A d \in Docs : slug[d] \notin slug_tombstones

\* Once a revoke was answered ok, no stored text of the document survives.
AckedIsPurged ==
  \A v \in versions : v.doc \in acked => Blobs(v.key) \cap bucket = {}

\* A revoked document's texts are eventually all purged, however often the
\* bucket fails, because the revoke can be re-issued.
Purged(d) == \A v \in VersionsOf(d) : Blobs(v.key) \cap bucket = {}
RevokeEventuallyPurges == \A d \in Docs : life[d] = "revoked" ~> Purged(d)

-----------------------------------------------------------------------------
(* The inductive invariant behind the properties above: what a request in  *)
(* flight (a record q) relies on, and what tables and bucket hold.         *)

InFlight(q) == q.pc \in {"putSource", "batch", "rollback"}

\* Which operation runs at which label, and the fields it has filled in.
Labelled(q) ==
  /\ q.pc = "idle" => q = Idle
  /\ q.pc # "idle" => q.doc \in Docs
  /\ q.pc \in {"source", "row"} => q.op \in {"edit", "restore"}
  /\ q.pc \in {"conflict", "retired"} =>
       q.op \in {"publish", "update", "slug"} /\ q.slug \in Slugs
  /\ q.pc \in {"putRender", "putSource", "batch", "rollback"} =>
       q.op \in {"publish", "update"}
  /\ q.pc \in {"keys", "purgeKeys", "kill", "purge"} => q.op = "revoke"
  /\ q.pc = "slugBatch" => q.op = "slug" /\ q.slug # Keep
  /\ q.pc = "promote" => q.op = "promote"
  /\ q.pc = "row" => q.src \in Sources /\ q.base \in {0, q.expected}
  /\ q.op \in {"publish", "update"} => q.src \in Sources /\ q.next > 0
  /\ q.op = "publish" => q.next = 1
  /\ q.op = "update" => q.base \in {0, q.next - 1}

\* What it knows of its document is still so: only a publish runs on an unborn
\* one, an update is at most one version ahead of a live one, a purge runs on
\* a revoked one and holds only its keys, and a promotion names a version.
Grounded(q) ==
  /\ q.op = "publish" => life[q.doc] = "unborn"
  /\ q.op \notin {"none", "publish"} => life[q.doc] # "unborn"
  /\ q.op = "update" /\ Live(q.doc) => q.next <= current_ver[q.doc] + 1
  /\ q.pc \in {"purgeKeys", "purge"} => life[q.doc] = "revoked"
  /\ q.op = "revoke" => \A key \in q.keys : \E v \in VersionsOf(q.doc) : v.key = key
  /\ q.op = "promote" => HasVersion(q.doc, q.next)

\* What it put is still there, under a nonce no row carries.
Stored(q) ==
  /\ q.nonce <= attempts
  /\ InFlight(q) => \A v \in versions : v.key[3] # q.nonce
  /\ q.pc \in {"putSource", "batch"} => <<KeyOf(q), "H">> \in bucket
  /\ q.pc = "batch" => <<KeyOf(q), "S">> \in bucket

\* Two requests in flight share neither an unborn document nor a nonce.
Apart(p, q) ==
  /\ p.op = "publish" => q.doc # p.doc
  /\ InFlight(p) /\ InFlight(q) => p.nonce # q.nonce

RequestsInv ==
  /\ \A r \in Requests : Labelled(req[r]) /\ Grounded(req[r]) /\ Stored(req[r])
  /\ \A r, s \in Requests : r # s => Apart(req[r], req[s])

\* Only documents that were born have rows; a row's key carries its document
\* and a nonce already drawn; a live history has no gap and no double.
RowsInv ==
  /\ \A v \in versions :
       /\ life[v.doc] # "unborn"
       /\ v.key[1] = v.doc
       /\ v.key[3] <= attempts
  /\ \A v, w \in versions : v.doc = w.doc /\ v.no = w.no => v = w
  /\ \A d \in Docs : Live(d) =>
       /\ current_ver[d] > 0
       /\ \A v \in versions : v.doc = d => v.no <= current_ver[d]
       /\ \A n \in 1..current_ver[d] : HasVersion(d, n)

\* The published pointer of a live document never dangles, staged or served.
PointerInv ==
  \A d \in Docs :
    /\ Live(d) /\ published_ver[d] # 0 => HasVersion(d, published_ver[d])
    /\ Live(d) /\ visibility[d] = "public" => published_ver[d] # 0
    /\ ~Live(d) => published_ver[d] = 0

IInv ==
  /\ TypeOK
  /\ RequestsInv
  /\ RowsInv
  /\ PointerInv
  /\ LiveVersionsAreStored
  /\ EditsExtendTheirBase
  /\ SlugIsUnique

-----------------------------------------------------------------------------
\* With every request atomic this is a set of growing histories: the texts of
\* a live document and the version the world is shown.
TextOf(d, n) == CHOOSE s \in Sources : Holds(d, n, s)
History == INSTANCE DocumentHistory WITH
  text  <- [d \in Docs |-> IF Live(d) THEN [n \in 1..current_ver[d] |-> TextOf(d, n)]
                                      ELSE <<>>],
  shown <- [d \in Docs |-> AnonymousSees(d)]
ImplementsHistory == History!Spec
=============================================================================
