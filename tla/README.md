# Slopcafe in TLA+

Slopcafe is a document host for agents: a Cloudflare Worker (TypeScript, `src/src/`) in front of
D1 (SQLite), R2 (blobs), Vectorize and KV. Agents publish and revise HTML or markdown documents;
one operator decides what is public, names things, and holds the kill switches. This directory
models the parts of the Worker where the order of storage calls, of requests and of failures decides
whether its promises hold.

## The system and its hard parts

A Worker request is single-threaded between two `await`s and shares nothing with other requests
except the stores. D1 runs one statement, or one `batch`, atomically; R2, Vectorize and KV join no
transaction. So every hazard is of one kind: *what a request read before an await is stale after it,
and the request may end at any await* (a refusal, a throw, an isolate that dies).

| Component | State | Operations | What is hard | Correct when |
|---|---|---|---|---|
| Writes (`document-write.ts`, `document-storage.ts`) | `documents`, `versions`, `documents_fts`, R2 blobs | publish, update, edit, restore | version race, rollback of blobs, stale base, orphans | history dense, bytes of live versions kept, no lost update |
| Names (`document-slug.ts`) | `documents.slug`, `slug_tombstones` | claim, rename, release, redirect, un-retire | pre-check then write; the name to retire is read early | one document per name; a shed name is retired |
| Lifecycle (`document-lifecycle.ts`, `served-version.ts`, `access.ts`) | `visibility`, `published_ver`, `status`, `tags` | flip, promote, deprecate | pointer against history and revoke | agents never move public bytes; public implies published |
| Kill switch (`document-revoke.ts`) | `revoked_at`, R2 | revoke, purge, re-issue | in-flight writers, partial deletes | nothing resolvable, nothing stored, eventually |
| Agent credentials (`auth.ts`, `publish-credential.ts`, `admin-agents.ts`) | `agents`, `agent_keys` | mint, authenticate, expire, revoke, prune | kill against in-flight mint | a killed agent opens no door |
| OAuth (`oauth.ts`, `authorize.ts`, `admin-oauth.ts`) | `oauth_clients`, KV clients and grants | register, consent (bind or mint), delete | D1 and KV not atomic | one agent per client; binding fixed |
| Sessions (`session.ts`, `login.ts`, `auth.ts`, `access.ts`) | the browser's cookie; token, epoch and clock of the deployment | login, logout, verify, the gates of a change | nothing is stored: a session must lapse by time, token and epoch | only the operator changes what is his |
| Pages and reads (`serve*.ts`, `document-read.ts`) | none | raw, shell, name, redirect, history, text, source | one answer is made of reads of several moments | what is told was so; a refusal tells nothing |
| Tools (`mcp*.ts`, `mcp-tools/`) | none | read, view, publish, update, edit, status | the same, and a write at the end | the agent is told what it did, to the document it named |
| Routes (`index.ts`, `cors.ts`) | none | dispatch, CORS eligibility | two lists kept by hand | another site may call token doors only |
| Search (`search-core.ts`, `search-ranking.ts`, `vector*.ts`) | Vectorize chunks | sync, delete, query, backfill | unordered best-effort mutations | no revoked document surfaces; a backfill heals |
| Links (`document-link-sync.ts`, `links-core.ts`) | `document_links` | replaced with each version, backfill | backfill overtaken by an update | links describe the current version |
| Lists (`pagination.ts`) | none | pages, cursors, the change feed | rows move and tie between pages | a walk skips nothing, a poll loses nothing |
| Platform docs (`seed-docs.ts`) | reserved-name documents | seed, promote, retire | several isolates, death between update and promote | the corpus shows the deployed build |
| Backup (`backup.ts`) | an export stream | export pages, restore pages | resumable over a live store, failures between batches | a file is complete, a clean restore is exact |
| Packs (`pack.ts`, `pack-core.ts`) | none | manifest, links, budget | rows read before bodies, one document named twice | every member is packed once or accounted for |
| Edit application, metadata, sanitizer, contracts, audit, CLI | none of their own | | | not modelled: see the end |

`PROJECT.json` lists every component with its status and every hazard with its line.

## Modules

* `DocumentHistory` - the abstract promise: a document is born with one text, its history grows while
  it lives, what the anonymous internet is shown moves only by a step of its own, the kill switch ends it.
* `DocumentStore` - writes, names, lifecycle and kill switch over D1 and R2. One action per stretch of
  code between two storage calls; what a request still believes is in `req[r]`.
* `MCDocumentStore` - symmetry for TLC.
* `DocumentStoreProofs` - the TLAPS proofs about it: its invariant, what holds of names while no two requests that change them
  overlap, and the refinement of `DocumentHistory`.
* `Seeder` - the passes that isolates of several builds make over one reserved name, against agents, the operator,
  rollouts and deaths. It takes the store's cores by what their batches do to the document that holds the name.
* `MCSeeder`, `SeederProofs` - its instances and its proofs.

* `AgentAccess` - agents' keys, OAuth clients, bindings and grants over D1 and KV: minting, consent, deletion, expiry,
  pruning and the agent kill switch. `MCAgentAccess`, `AgentAccessProofs` - its instances and its proofs.

* `Pagination`, `RankFusion`, `Chunks` - the pure parts of reading: lists and cursors, the fusion of the two legs of a
  search, the cutting of a text into the chunks that are embedded. `Ordering` - what a sort and a filter answer;
  `OrderingProofs` - that it is the one list there is.
* `SearchIndex` - what is derived from the documents and who reads it: syncs that run after the response, an index that
  applies what it accepted later, the two sweeps that heal it, lists, the change feed and the search. It extends
  `Pagination`, `RankFusion` and `Chunks`. `MCSearchIndex` - its instances. `SearchIndexProofs` - its proofs.
* `Backup` - the export walk over five tables and the restore that plans and applies a submitted body, await by await.
  `MCBackup` - its instances. `BackupProofs` - the proofs about its tables and bytes, `WalkProofs` - about its files.
* `Sessions` - who a request speaks for: keys, the operator's token, signed sessions, the gates.
* `Doors` (extends `Sessions`) - the reads of a document over HTTP, one action per await, and what an answer may say.
* `OperatorDoors` (extends `Doors`) - every door of a change with its gate and its core, login, logout, rotation, time.
* `AgentTools` (extends `OperatorDoors`) - the tools agents call over MCP, one action per await, between those changes.
* `Routes` - the dispatcher's cascade and the CORS list, over paths as sequences of segments.
* `Packs` - context packs as operators over a library of documents at two moments.
* `Site` (extends `AgentTools` and `Routes`) - the doors with the two lists of who may come to them.
* `MCDoors` - the instances of `Site` and `Packs`. `DoorsProofs` - the proofs about `Site` and what it extends.

`DocumentStore`, `Seeder`, `AgentAccess`, `SearchIndex`, `Backup` and the doors are separate state machines. Each takes the others at the
grain it needs: the store's cores take an authenticated author as given; the seeder sees the store through the document
that holds its name; a writer is one batch in `SearchIndex`, `Backup` and `OperatorDoors`, because `DocumentStore` has
its insides; `AgentAccess` decides which keys authenticate and the doors only use them.

### How DocumentStore corresponds to the code

| Model | Code |
|---|---|
| `life`, `visibility`, `current_ver`, `published_ver`, `slug` | the columns of `documents` (0 and `None` stand for NULL) |
| `versions` | the `versions` table; `key` is `r2_key`; `base` is history: the version the writer worked from |
| `documents_fts`, `slug_tombstones` | those tables; the search row is the version it was derived from |
| `bucket` | R2: `<<key, "H">>` the render, `<<key, "S">>` the retained source |
| `BeginPublish`/`BeginUpdate` ... `CheckConflict`, `CheckRetired`, `PutRender`, `PutSource`, `CommitPublish`/`CommitUpdate` or `FailBatch`, `Rollback` | `publishDocumentCore`, `updateDocumentCore`, `resolveSlug`, `putVersionBlobs` |
| `BeginSourceRead`, `GetSource`, `DelegateUpdate` | `readDocumentSourceCore` as `editDocumentCore` and `restoreVersionCore` use it |
| `BeginRevoke`, `ReadKeys`, `Kill`, `Purge`, `AnswerRevoke` | `revokeDocumentCore`, `deleteR2Keys` |
| `BeginSetSlug`, `CommitSlug`; `BeginPromote`, `Promote`; `SetVisibility`; `ReleaseSlugTombstone` | the operator's mutators |
| `Abandon` | any refusal, uncaught throw or isolate death |

A content (source, title, description, format) is one model value; the render is a function of it. The
operators marked *Fault* are the same operators with one plausible bug; no specification uses them, they
are there so that each property can be seen to fail.

### How Seeder corresponds to the code

| Model | Code |
|---|---|
| `doc`, `history`, `published`, `status`, `retired` | the live row of the name, its versions' bytes, `published_ver`, `status`, the name in `slug_tombstones`; a revoked document is forgotten, and `births` tells two documents of one name apart |
| `pass[i]` | the isolate's one pass (`maybeSeedPlatformDocs`, its latch): the await it is at, the bundle of its build, the row its first SELECT returned, the version it stored |
| `Errand` | the branches of `seedOne`, and of `retireUnseededDocs` for a document the build does not seed |
| `CheckTombstone`, `Claim`, `Insert` | the birth: `findSlugTombstoneCore`, `resolveSlug`, `publishDocumentCore` with `visibility` public |
| `OpenUpdate`, `CommitUpdate`, `Promote` | `updateDocumentCore`, then `promoteVersionCore` of the version it returned |
| `SetStatus` | the repair and the deprecation, both `setDocumentStatusCore` |
| `Die` | a throw or a lost isolate at any await |
| `AgentWrite`, `AgentDeprecate`, `Revoke`, `Release` | what others may do to the document through the same cores |

The operator's own promotions, visibility flips and renames of a seeded document are left out, so that every move of
`published` is the seeder's; titles and tags are not modelled.

### How AgentAccess corresponds to the code

| Model | Code |
|---|---|
| `agents`, `agent_keys`, `oauth_clients` | the tables; a key's hash and prefix are its identity |
| `kv`, `grants` | `OAUTH_KV` as the code uses it: client records, and grants whose tokens carry `props.agentId` |
| `drawn` | `newUuid`, `newApiKey` and the provider never repeat themselves |
| `MintAgent`; `BeginMintKey`, `InsertKey`; `BeginCredential`, `StampCredential`, `InsertKey` | `mintAgentCore`; `mintAgentKeyCore`; `create_publish_credential` and `mintPublishCredential` |
| `BeginRevokeKey`, `RevokeKey`; `Prune` | `revokeKeyCore`; `pruneAgentKeysCore`, with any cutoff up to now |
| `RegisterClient`; `BeginCreateClient`, `ProvisionClient`, `PinClient`; `ExpireClient` | unbound and self-registered clients; `createOAuthClientCore`; the client TTL |
| `BeginDeleteClient`, `LookupUnbound`, `DeleteAtProvider`, `DropRow` | `deleteOAuthClientCore` |
| `BeginConsent`, `BindExisting`, `BindNew`, `VerifyBinding`, `CompleteAuthorization` | `postAuthorize`, action allow |
| `BeginKill`, `KillKeys`, `ListClients`, `KillClient`, `KillClientFails`, `KillRows` | `revokeAgentCore` |
| `killing`, `shut` | history: kills asked for and not answered ok; agents killed since the operator last opened them a door |

The OAuth library is external: `deleteClient` removes a client's record with its grants, `completeAuthorization` refuses
a client it does not know (`oauth.ts:18-24` says so of the first). Redirect URIs and token refresh are left out.

### How SearchIndex corresponds to the code

| Model | Code |
|---|---|
| `rows`, `links` | a `documents` row with what a listing joins to it; the version its `document_links` were extracted from |
| `vectors`, `pending`, `Apply` | Vectorize: a mutation is accepted, and shows later, in the order accepted |
| `jobs`, `SyncStep`, `JobFails` | `waitUntil(syncDocumentVector(...))` and the revoke's deletion: embed, delete, upsert, each may fail |
| `StartWalk`, `ReadPage`, `Probe`, `SyncRow`, `GetRender`, `WriteLinks`, `EndPage` | the lists, the feed, `POST /admin/vectors/backfill` (which can also reconcile), `POST /admin/links/backfill` |
| `StartSearch`, `EmbedQuery`, `SearchText`, `QueryVectors`, `Rejoin` | `searchDocumentsCore`: keyword, semantic and hybrid, and its fallbacks |

A text is its version and how many chunks it has; a timestamp is a tick of a clock several statements may share; scores are
ranks. In `RankFusion` the floating-point scores are exact fractions over `Denominator`, any common multiple of what ranks are divided
by; in `Chunks` a character is its place in the text.

### How Backup corresponds to the code

| Model | Code |
|---|---|
| `store`, `bucket` | the tables as functions from ids to rows, in insertion order of their timestamps; R2 |
| `RequestPage`, `FetchPhase`, `SelectVersions`, `ReadBlob`, `EmitDocument`, `CutPage` | `exportBackupPage`, its phases, a stream that breaks |
| `Submit` | parse and plan of `restoreBackupCore`: one step, as no write happens before the plan is done |
| `ApplyRow`, `PutBlobs`, `CommitUnit`, `PurgeOld`, `DeriveRead`, `DeriveWrite`, `Report`, `Crash` | its apply: rows, units, loose versions, tombstones, rollback, a lost isolate |
| `Enrol`, `Rebind`, `Publish`, `Update`, `Promote`, `Rename`, `Revoke`, `Release` | the requests of others, one batch each |

A version's two blobs share a key; links are only counted and the header and footer lines left out. `fate.blamed` remembers
documents whose loose versions were reported failed after they had committed, `fate.contested` names
that a request retired or took while a restore was under way.

### How the doors correspond to the code

| Model | Code |
|---|---|
| `env` | the Worker's bindings: operator token, epoch, time, active keys |
| `jar`, `page`, `logins` | the session cookie in the operator's browser, the nonce of the page it has open; history: every session minted |
| `req`, `req.step` | the request under way and the await it is at; at most one reader, while any change goes on around it |
| `seen` | history: what held at each moment since the request arrived; an answer is judged by it |
| `job`, `FinishJob` | the second statement of a core that looks a document up before it writes |
| `acted` | history: for whom, and under which bindings, the last change was made |
| `JsonDoor`, `FormDoor`, `CurateDoor`, `AgentDoor` | `requireOperator`; `authorizeOperatorForm`; `requireReader`; `authenticateAgent` |
| `Arrive`, `ReadStep` | the GET handlers of `serve.ts`, `serve-shell.ts`, `serve-retired-slug.ts`, `admin-documents.ts`, with `findDocumentByPublicIdCore` (`RecordRow`) and `listVersionsCore` (`VersionsRow`) |
| `CallTool`, `CheckToken`, `ResolveTarget`, `FindRetired`, `ForwardedTo`, `ListHistory`, `CurrentEcho`, `BodyRow`, `BodyBytes`, `EditBase`, `EditBytes`, `StatusSuccessor`, `Publish`, `Update`, `Mark` | a tool call, its reads in the code's order, its write, its echo |
| `Rules`, `IsCorsEligible` | the `if` cascade of `fetch` in its order; `isCorsEligible` in its order |

The operator's two JSON reads of a document differ on a revoked one: its record is shown for audit, with no current
version (`RecordRow`), its list of versions is a 404 (`VersionsRow`). To revoke a document that is revoked already
skips the batch, answers 200 and purges its blobs again (`RevokeDocumentCore`).

The page or body an answer carries is `<<document, version>>`; its title, headers and markup follow from that. Path segments are never
empty, a cookie's own expiry in the browser is left out, and one agent owns all keys. `PUT /d/:id/status` and `/tags` ask a
session for no nonce (they rely on browsers not sending such requests across sites), so a session without its nonce
counts as a reader there. `/d/search` and `/d/pack` under PUT or DELETE come to the document handlers with an id that
no document has (`Misnamed`). For the tools, a key also stands for a grant; a call is let in once and goes on if its key is
revoked meanwhile; the tags tool, link neighbourhoods and text matching inside an edit are left out.

## Runs

| Run | Question | Bounds |
|---|---|---|
| `content` | two overlapping requests on one document: bytes, history, pointer, what is served; refinement of `DocumentHistory` | 1 document, 2 texts, 2 requests, versions and attempts <= 3 |
| `names` | two overlapping requests on two documents and one name | versions <= 2, attempts <= 3 |
| `serial` | one request at a time, any of them dying half-way, over two documents and two names | versions <= 2, attempts <= 3 |
| `purge` | a failing bucket, a re-issued revoke | 1 request, fair |
| `bytes_after_revoke` | does a revoke that answered ok leave no text? (no) | 1 document, 2 requests |
| `seeder` | two isolates, a build that changes the document and one that drops it, agents and operator meddling: only builds' bytes are public, and the corpus copy ends up current | 2 isolates, 3 builds, births <= 2, trouble <= 2 |
| `seeder_stuck` | does the public copy heal too? (no) | 1 isolate, 2 builds, one death |
| `access` | one request at a time that may die between D1 and KV: the kill switch, the bindings, expiry and pruning | 1 agent, 2 clients, 1 key, time <= 2 |
| `access_overlap` | two requests race to bind | 2 agents, 2 clients, 1 key, time <= 1 |
| `search` | walks, the feed, the sweeps, queries, under writers and a late index; every fusion of two short legs, every cut of a short text | up to 3 documents, 2 writes, 2 chunks, 2 pending mutations; legs of 3, texts of 3 blocks |
| `backup` | an export under writers and broken pages; restores into empty, older and newer stores with failures, deaths, repeats and requests that race them | 2 documents of up to 3 versions, up to 2 writes, 2 failures, 12 submissions |
| `doors` | one request or tool call under changes; every door of a change under every caller; dispatcher against CORS list; packs | 3 documents, 2 names, 2 keys, 1 read beside 1 or 2 changes; paths of up to 4 segments over the dispatcher's whole vocabulary; manifests of up to 4 lines |

Why the bounds suffice: every hazard in the store is a pair of requests on one document (a third
adds no new kind of staleness because D1 steps are atomic and a request's fields are never read by another);
three versions let an edit be overtaken twice and a promotion name an old, a served and a new version; three attempts let
a loser roll back and retry. In `AgentAccess` a grant can only come to disagree with the binding after its row is gone, so
one agent shows every such step, and two clients a rotation; three instants put a key before, at and after its expiry. In
`Seeder` two passes and three builds give an old pass racing a new one, a birth raced by a birth, and a retirement raced by
an update; two troubles are a death and a meddler together. A walk can go wrong only at the boundary of two
pages, so three documents, two of one millisecond, and pages of one and two put a tie and a move there. Two
chunks let a text shrink. A read of the doors has at most five awaits over one document, one name and one
redirect, and two changes put any pair of them on either side of an await. The theorems about `DocumentStore`, `Seeder`,
`AgentAccess`, `SearchIndex` and the doors drop the bounds altogether, and so do
those about `Backup`.

The runs `search`, `backup` and `doors` start from one of several records of bounds (`Behaviours`, `Instances`), each about one
subject: their union is checked, not their product. Pure algorithms are instances too: the
initial state holds the input, and an invariant compares the result with its reference.

`CHECK_DEADLOCK FALSE`: with the bounds spent nothing is left to do.

### What the properties of the last three runs mean

* `WalksAreExact`, `FeedMissesNothing`: a finished walk has every document that stayed listed in its place, once; a consumer
  that polls with the newest stamp it saw loses no write even within one millisecond.
* `RevokedNeverSurface`, `IndexHeals`: the index may be stale, D1 is the gate; run again and again the sweeps make it exact.
* `FusionIsFair`, `NoTextIsLost`: what the ranking and the chunking promise, over every small input. That a deprecated document
  both legs found stays ahead of an active one that one leg found is promised only where no leg puts it behind: far down two
  long lists (60 is `RRF_K`, a leg may have over a hundred) it does fall behind a first place, which lists of three do not show.
* `WalkIsComplete`: a finished file has, once each, every row that was there from the walk's first step to its last.
  `file.owed` is that history: all rows at the start, less those a request takes away since. A row that is away for a moment
  (a client bound anew and back) is not owed: the walk may pass its place meanwhile.
* `RoundTrip`: a drill, that is the loss of both stores and then a clean restore of the newest file's pages in order while nothing
  else happens, gives back the store it was taken from. Three things the code does not promise are said by `SameAs`: a name that
  the file has both live and retired (see Known races) comes back as one of the two, search rows are derived anew
  from the text they stand for, and a document that `fate.blamed` names may lack bytes.
* `ServedIsStored`, `NamesStayRetired`: live documents keep their bytes; a name is live or retired, not both, unless somebody
  claimed it under a restore (`fate.contested`).
* `AnswersAreTrue`, `ToolsTellTheTruth` (of a tool's echo: one row's, or none if the row was not there yet, as when a document is
  born between the echo and the body of one `read_document`): every part of an answer held at some moment of the request. Parts may be of different
  moments: a page's title and the permission to see a redirect, a tool's history, echo and body, and, of a refusal, the row
  that was not public and the caller who was nobody: a document opened, after its row was read, to a caller whose key was
  revoked meanwhile is refused to him though at no single moment he could not have read it.
* `RefusalsAreOpaque`: an unknown caller's answers are those of a store without private documents.
* `OnlyTheOperatorActs`: stated over the sessions that were minted, not over the checks of the code.
* `CorsOpensOnlyTokenDoors`, `PacksAccountForEveryMember`: the two lists agree; a pack is the budget's best honest reading.

### Fairness

In `DocumentStore`, `FairSpec` is used by `purge` only. Weak fairness on the step of a request in flight: the platform
resumes or kills every request. Strong fairness on re-issuing an unanswered revoke: it is the operator's
documented remedy (`document-revoke.ts:46-74`). Strong fairness on the key SELECT, the delete of each key and the
answer: a storage call attempted for ever does not fail for ever. Nothing is assumed of agents. `AgentAccess`'s `FairSpec` says
the same of a kill: it is re-issued until it answers ok ("retry to finish", `admin-agents.ts:508`), and each of its calls
for the agent, attempted again and again, succeeds once.

`Seeder`'s `FairSpec` has weak fairness only: on the steps of a pass in flight, on the end of a rollout, and on a fresh
isolate of the newest build starting a pass (the check runs on `/mcp` requests, `seed-docs.ts:317-342`). Deploys, agents,
the operator and deaths are not fair, and deaths are bounded: the property is about what follows the last of them.

`SearchIndex`'s `FairSpec`: an accepted mutation is applied, a sync and a reader that are not abandoned go on (weak
fairness), and the operator starts each sweep again and again (strong, because another reader may be under way). `IndexHeals`
speaks of the instances whose operator runs both sweeps, and says nothing of a deployment that never does.

### Findings

* `bytes_after_revoke`: an update that opened before a revoke commits after it, so its text and source stay
  in R2 though the revoke answered ok.
* `seeder_stuck`: a pass that dies between its update and its promotion is not healed by the next: the hash of the
  newest version matches, so `published_ver` stays on the old build's bytes. `CorpusConverges` holds in `seeder`
  because it speaks of the current version only.

### Known races and limits, no run of their own

* Two overlapping renames of one document retire the name each read at its start, so the name in between is shed and not
  retired (`document-slug.ts:13` says every shed name is). `ShedNamesAreRetired` holds in `serial`.
* An agent's rename that opened while its document was private commits after the flip to public (`document-write.ts:718`
  calls its check the one place the lock "can be enforced unbypassably"). In the doors a write is one batch, so
  `LeavesDoorsAlone` holds there of writes that do not overlap.
* Restore plans its tombstones against the names live at its start and then upserts them whatever has happened since
  (`backup.ts:1150`): a name that is free at the plan and that a rename takes before the upsert ends both live and retired.
  The reads of that name go on answering with the document; the name shows as retired too. `NamesStayRetired` therefore excepts the
  names claimed while a restore was under way, and no others; instance `Races` of the run reaches the case.
* Restore: when a loose version's batch commits and the derivation after it throws, the catch block deletes the committed
  version's blobs (`backup.ts:1140`) and a repeat with `skip` answers `exists`. `RoundTrip` and `ServedIsStored` except
  exactly the documents this happened to (`fate.blamed`).
* Restore may leave `current_ver` behind versions that exist; later updates of that document then collide with their
  primary key. Replacing a live document by a revoked record leaves its old blobs; `replace` sheds a document's name
  without a tombstone; a put that throws half-way leaves orphans.
* A version planned as `create` overwrites one that a concurrent update committed meanwhile (`backup.ts:987`, an upsert).
* An ETag `v<n>` is not unique across a restore to an older timeline.
* A revoked document answers a source read with 409 when the kill came between its row and its blob.
* A pack's root content and manifest are two reads; `used_bytes` counts the listed size when a newer body is read; references
  past the first 200 are dropped in silence; a deprecated member followed to its successor and also named itself may be in
  `omitted` twice.

## Proofs

`DocumentStoreProofs` proves `Spec => []IInv` for any constants satisfying `ConstantsAssumption`, and from it
`TypeOK`, `LiveVersionsAreStored`, `HistoryIsDense`, `EditsExtendTheirBase`, `PublicIsPublished`,
`RevokedIsUnpublished` and `SlugIsUnique`.

None of these is inductive alone. That no live version loses its bytes needs to know what a request in flight holds: its
nonce is drawn and on no row (`Stored`), no other request has it (`Apart`), a purge runs only on a revoked document
and holds only that document's keys (`Grounded`), and a row's key names its document (`RowsInv`). Density needs that an
update is at most one ahead of a live document, so that the primary key decides every race. The published pointer needs
that a promotion names an existing version (`Grounded`) and that live histories have no gap. `IInv` is the conjunction;
`NextIInv` proves it step by step, one lemma per action. A request that only changes its own
record, and one that ends, are `LocalStep` and `FinishStep`.

`SeederProofs` proves `Spec => []IInv` under `SeederAssumption`, and from it `TypeOK` and `OnlyBuildsArePublished`.
The published bytes alone are not inductive: a promotion is harmless because the pass knows that its build's bytes sit
under the version it will name (`PassInv`), which survives every other writer because a history only grows (`Appended`,
`OthersKeep`) and a later document of the name is another birth.

Its next section takes `IInv` and shows that a step that moves what the world is served is the operator's or a
birth (`AgentsNeverMoveThePublicBytes`), and that under the mapping of `DocumentStore` every step is one of `DocumentHistory`
or leaves it unchanged. `IInv` is what makes the mapping work: the history as a sequence exists because a live history is
dense, and a committed update appends to it because the primary key admits one version of a number.

Another section of `DocumentStoreProofs` proves `LiveAndRetiredAreDisjoint` and `ShedNamesAreRetired` under `[]NamesAlone`: at no moment are
two requests under way that may claim, shed or release a name. Without it both fail (Known races). Updates that keep the
name, edits, restores, promotions and purges overlap such a request and one another freely, so this says more than the run
`serial`, where nothing overlaps. `NamesInv` says what the one request that changes names still knows: the name it read at
its start is still the name of its document, and the name it found not retired is still not retired.

`AgentAccessProofs`: `OneClientPerAgent` is inductive as it stands, since rows enter `oauth_clients` through `UniqueRow` alone.
`AccessInv` adds the types, and what a request has looked up; `NoOrphanAgents` and `PruneIsInert` follow for any number of
overlapping requests. `KilledStaysOut` and `GrantsFollowBinding` are proved under `[]TakeTurns`: no request that opens a door
to an agent (a mint, a credential, a client created for it, a consent) is under way together with one that closes one (a deletion, a kill).
Openers overlap openers and closers overlap closers; what a kill promises of an opener in flight the code does not say.
`DoorsHold` is what a kill that is half done has already shut, and what it still has listed.

`SearchIndexProofs` proves, for any documents, limits, writes, failures and readers:

* `TypeOK`, from `Typed`: also what ties the state together: no stamp is ahead of the clock, a row is listed under its own id,
  a reader holds what its kind and its await allow (`TasksOf`).
* `RevokedNeverSurface`, from `Screened`: a query's dead stay dead, and a leg names none of them once D1 has gated it. The index may
  hold anything. That the fusion invents no document (`FusedWereRanked`) is part of it.
* `WalksAreExact`, from `Walking`: at every moment of a walk, what it returned is not beyond its cursor, once each, and what
  kept its place is returned or beyond it. A page keeps that because the order of the lists is total (two rows differ in their id), so
  there is one list of a set (`PlacedInOrder`, `ListedInOrder`), the page is its head and the cursor cuts the rest off
  (`PageOfList`). A write moves a row only up to the present, so nothing returned comes to be beyond the cursor again. That a page asked for
  in another order is refused is needed: a cursor of the other axis would cut elsewhere.
* `FeedMissesNothing`, from `Polled`: a document that the consumer does not know was written at or after its window, and in the
  middle of a poll it is beyond the cursor or at least as new as all the poll has given.
* `FusionIsFair`, for legs of any length: a credit is a whole number of twentieths (`ShareIs`), falls with the rank, and no
  credit is more than nineteen of another (`SharesFall`, from `MaxRank <= 18 * RRF_K`; the code has 60 and at most 210), so what the penalty
  takes from two credits leaves more than one of them. The fused order is that of the weights (`FusedByWeight`).
* `NoTextIsLost`, for texts of any length, block by block (`IsPacked`, `PackKeeps`): while there is room the windows and the one
  under way hold all so far; once there is none, what they lack is behind what they hold. A block cut in strides loses nothing because
  a stride is no longer than a window (`HardSplitIs`).

`DoorsProofs` is about `SpecWithTools`: every read, every change and every tool call, for any instance that begins with sound
tables. `DoorsInv` has four parts.

* `World`: the tables are sound; every session is one that was minted; what a core left for later is the operator's
  or marks a status. A core is proved once (`CoreOK`: what it leaves is sound; `Gentle`: an agent's leaves alone what is the
  operator's), a gate once (`OperatorGated`, `ReaderGated`), and every handler is a gate before a core.
  `NobodyElseActs` follows, and `DoorsAreTyped`.
* `SeenInv`: each moment a request has seen is followed by the present (`Precedes`, `Fades`). No revoked row comes back,
  versions only grow, and credentials fade: a token, a session or a key that does not authenticate its bearer now will not
  later, because a later one is another. So who is known at his last check was known at every moment before.
* `RequestInv`: where a request may be, by its door (`Placed`), and what it has `Learned` by then: that its document once had the
  name it came by, or was once forwarded to; the moment its row was read; that its caller was known once.
  `Untaken` keeps, between the look for a live name and the look for a retired one, that a name found retired by
  neither was nobody's at some moment: a release does not touch the rows.
* The answer is right, of the moments seen and, for who is never known, of the same moments without their private documents
  (`Blinds`). Each step of a read that answers has its moments from what was learned.

`DoorsProofs` proves `ToolsTellTheTruth` from `DoorsInv` with `ToolKnows`: by the await it is at, what a call has learned and at
which moment of `seen`. It was let in once (`AskedOnce`), the document it is about had the name it was called by or, for a read that
asked for it, was forwarded to (`AddressedOnce`), the version it holds was the newest or a reached one (`ReadOnce`), a write
made the version after the newest and under the expected one in one step (`WrittenOnce`). Later moments are added and
never taken away, so what was learned stays learned; each answering step hands these moments to the answer.

It proves `CorsOpensOnlyTokenDoors` of every path, not only of the paths the run asks: `SiteAssumption` says no more than that a path
is a sequence of segments and that the method is one a browser sends. Each rule of the cascade is of one of seven kinds
(`IsAdminRule`, `IsConsoleRule`, `IsNameRule`, `IsDocumentRule`, `IsManageRule`, `IsWordRule`, `IsHomeRule`, with the two of the
documentation), and a request that passes a rule of a kind is where `isCorsEligible` says (`IsFair`; what that predicate comes to is
`EligibleIs`). The gate is that of a rule the request passes (`GateIs`), and
every such rule is fair, not only the first: no request that passes a page's rule is eligible, so
no reordering of the cascade opens a page to another site.

`BackupProofs` is about `Backup`'s `Spec` for any budgets and any tables to start from that D1's constraints and the rest of the
Worker allow (`IsBudget`: sound tables, served versions with their bytes, no name both held and retired). That is its only assumption.

* `World` says that the tables are sound and that there is an `own` which gives each key minted so far the one place, a document and a
  number, whose bytes it can be the key of: in the tables, in a page being read, in a file on the shelf, in a plan. A step extends
  `own` by the key it mints and nothing else, so what was read long ago stays true of it. `TypeOK` follows.
* `NamesStayRetired`, from `Names`: of what is left to apply, no document takes a retired name and no tombstone retires a live one,
  but for the names claimed since the plan. The plan establishes it (`SlugIfUnheld`, `planTombstone`); each item applied keeps it for the rest.
* `ServedIsStored`, from `Serving`: what a unit has put is nobody's before its batch commits, and what it replaces is nobody's
  after. So neither the catch nor the purge takes bytes a document serves. `fate.blamed` is the one exception (Known races).

`WalkProofs` proves `WalkIsComplete` from `World` and `Walk`. The pages of a file are one walk through the phases, each in the order of
its keys, and `Walked` says where it is: the units emitted are in that order, none of them is `Ahead` of the cursor, and
everything owed is emitted or ahead. A page under way goes on from the file's cursor with units of its own (`PageWalked`), and in between
`EmitDocument` holds rows that were fetched and are not yet emitted: they come before the page's cursor. A fetch keeps this because
`fetchPhase` answers the head of the one ordered list (`FetchInOrder`, from `OrderingProofs`), one row more than the page wants, so
whatever is left out comes after the new cursor (`InTurn`). A request adds rows and removes rows but moves none that is owed
(`WriteIsWalked`), and a broken page leaves the file where it was. At the end of the last phase nothing is ahead, so
everything owed is emitted, and in order means once (`HeldOnce`).

`WalkProofs` proves `RoundTrip` too, from `World`, `Serving`, `Walk`, `Quiet` and `Drill`. Each part is needed:

* `Quiet`: a file during whose walk nobody wrote owes all of its image, and what it and the page under way hold is from it: rows as
  they were, of a document all its versions, and bytes that were read under the right key. Where the walk could not read
  them it holds none. Together with `Walk` this says that the file is the image, a document at one place of one page,
  and no retired name before the document it was of (`QuietPages`): the restore depends on that order.
* `Drill`: whatever is in the tables is from the image (`Part`), also half-way through an item, after a broken page
  and after a failed attempt. So a page that is asked for again finds what it would have written, and `skip` is right to
  call that clean. Pages answered clean are back (`Back`). Of the page under way, each unit is back or among the items
  left to apply (`Replayed`), unless its report already cannot be clean.
* The plan establishes the last of these (`PageIsPlanned`): every unit is planned (`PlansInTurn`), planned as it was (`ItemFrom`),
  or was found there, and nothing is replaced or purged. What `plan` reads of earlier items of the page makes the order of
  the lists matter: a tombstone is planned after the documents, a version after its document.
* At the end (`DrillEnds`) every page is back, every row of the image is in some page, and nothing else is in the tables: `SameAs`.

Only model-checked: `Packs`; `SeederProofs` leaves its convergence. Beyond the prover: everything liveness (`RevokeEventuallyPurges`, `KillCompletes`, `CorpusConverges`,
`IndexHeals`), `ENABLED`, and induction over data through the folds of the community modules (`PacksAccountForEveryMember`). Where a
recursion is a function on numbers instead (`Score`, `PackWindows`), `Inductive` of `OrderingProofs` does it. There is no `RECURSIVE` operator.

## Assumptions and what is not modelled

* A D1 batch that throws has not committed. A lost answer would make the catch block delete committed bytes.
* `newUuid`/`newPublicId` never repeat. Scheduling inside one D1 statement is SQLite's. Signatures and hashes are taken
  as unforgeable and without collisions.
* What the agent kill switch promises of a mint or a consent already in flight when it is used is not stated: `KilledStaysOut`
  and `GrantsFollowBinding` are checked with one request at a time, and proved when no such request overlaps a kill or a deletion.
* The storage cap: its overrun is bounded by the writes in flight, and no other decision reads it.
* Tags: classification, read by filters only. Redirect URIs of OAuth clients: two approvals at once lose one
  (`authorize.ts:281`); the remedy is to approve again.
* `edit.ts`, `metadata.ts`, `depth.ts`, the sanitizer: functions from text to text or a verdict, over characters; their results are
  part of a content value, their verdicts refusals.
* `contract.ts`, `openapi.ts`, `wire.ts`: types and descriptions. `audit.ts`, `advisories.ts`: written by everybody, read by no
  decision. The console's and manage page's markup. The CLI: a caller of the API like any other.

## Plan

1. `StorageCap`, redirect URIs, and the kill switch against requests in flight.
