------------------------------ MODULE SearchIndex ------------------------------
(***************************************************************************)
(* What is derived from the documents, and who reads it: the vector index   *)
(* (eventually consistent, written after the response), the link rows, the  *)
(* operator's resumable sweeps that heal both, the cursor lists, the change *)
(* feed of a consumer that polls, and the hybrid search.                    *)
(*                                                                         *)
(* A document is its row here; writers are one batch each (DocumentStore    *)
(* has their insides).  A text is its version number and how many chunks it *)
(* has.  One reader - a walk over a list, a sweep or a query - is under way *)
(* at a time, with a step for each await; writers and syncs run between.    *)
(***************************************************************************)
EXTENDS Pagination, RankFusion, Chunks

CONSTANTS
  MAX_CHUNKS,    \* vectors a document may have; 24 in the code
  PageLimits,    \* limits that readers ask for, 0 for none
  MaxPending,    \* bound on index mutations accepted and not yet applied
  Budgets        \* the bounds of a behaviour, one of these records:
                 \*   born    documents there at the start, with their stamps
                 \*   docs    documents it may have
                 \*   writes, ticks, trouble    how many of each
                 \*   reads   kinds of readers
                 \*   chunks  how many chunks a text may have
                 \*   syncs   whether writers have a waitUntil
                 \*   trial   a leg to fuse or a text to cut, in place of a behaviour

Lists == {"created", "updated", "feed"}
Sweeps == {"missing", "rebuild", "links"}
Modes == {"keyword", "semantic", "hybrid"}

IsBudget(b) ==
  /\ b \in [born : [DOMAIN b.born -> Nat \ {0}], docs : SUBSET (Nat \ {0}),
            writes : Nat, ticks : Nat, trouble : Nat, reads : SUBSET (Lists \union Sweeps \union Modes),
            chunks : SUBSET (0..MAX_CHUNKS), syncs : BOOLEAN, trial : {b.trial}]
  /\ IsFiniteSet(b.docs) /\ DOMAIN b.born \subseteq b.docs
  /\ b.trial.kind = "fusion" => b.trial.of \in Legs
  /\ b.trial.kind = "windows" => b.trial.of \in Seq(Nat)

ASSUME SearchIndexAssumption ==
  /\ MAX_CHUNKS \in Nat \ {0}
  /\ PageLimits \subseteq 0..MAX_LIMIT
  /\ MaxPending \in Nat
  /\ \A b \in Budgets : IsBudget(b)

VARIABLES
  rows,      \* the documents rows, with what a join brings
  links,     \* version a document's document_links rows were extracted from
  vectors,   \* the index: version of the text behind each chunk vector, 0 none
  pending,   \* index mutations accepted, oldest first
  jobs,      \* syncs of the index under way
  task,      \* the reader under way
  feed,      \* what the polling consumer knows, and the window it resumes at
  clock,     \* the database's clock, in ticks that several statements may share
  budget     \* what is left of the behaviour's bounds

vars == <<rows, links, vectors, pending, jobs, task, feed, clock, budget>>
corpus == <<rows, links, clock>>
index == <<vectors, pending>>

Unborn(d) == [id |-> d, life |-> "unborn", created |-> 0, updated |-> 0, ver |-> 0,
              published |-> 0, status |-> "active", chunks |-> 0]
Born(d) == rows[d].life # "unborn"
Live(d) == rows[d].life = "live"
Slots == 0..(MAX_CHUNKS - 1)
Table == {r \in {rows[d] : d \in budget.docs} : r.life # "unborn"}

AnyRow == [since |-> 0, status |-> "", publication |-> ""]
NoTask == [kind |-> "none", at |-> "", cursor |-> NoCursor, todo |-> <<>>,
           seen |-> <<>>, steady |-> {}, filter |-> AnyRow, dead |-> {},
           tokens |-> TRUE, embedded |-> FALSE, fts |-> <<>>, vec |-> <<>>,
           deprecated |-> {}]

Spend(field) == budget[field] > 0 /\ budget' = [budget EXCEPT ![field] = @ - 1]

-----------------------------------------------------------------------------
(* Writers.                                                                *)

\* The axis a reader walks.
WalkOrder(kind) == IF kind \in {"updated", "feed"} THEN "updated" ELSE "created"

\* What a reader may read of a row.
Shown(row, kind, filter) ==
  IF kind \in Sweeps THEN row.life = "live" ELSE Matches(row, filter)

\* Documents whose place in the walk under way has not moved since it began.
StillSteady(d, row) ==
  task.steady \ IF /\ Shown(row, task.kind, task.filter)
                   /\ Key(row, WalkOrder(task.kind)) = Key(rows[d], WalkOrder(task.kind))
                THEN {} ELSE {d}

Job(d, ver, n, at, by) == [doc |-> d, ver |-> ver, chunks |-> n, at |-> at, by |-> by]

\* A batch that writes the row, and the sync it leaves to waitUntil.
Write(d, row, sync) ==
  /\ Spend("writes")
  /\ rows' = [rows EXCEPT ![d] = row]
  /\ task' = [task EXCEPT !.steady = StillSteady(d, row)]
  /\ jobs' = jobs \union IF budget.syncs THEN sync ELSE {}
  /\ UNCHANGED <<index, feed, clock>>

Publish(d, n) ==
  /\ d \in budget.docs /\ ~Born(d)
  /\ links' = [links EXCEPT ![d] = 1]
  /\ Write(d, [rows[d] EXCEPT !.life = "live", !.created = clock, !.updated = clock,
                             !.ver = 1, !.chunks = n],
           {Job(d, 1, n, "embed", "write")})

Update(d, n) ==
  /\ Live(d)
  /\ links' = [links EXCEPT ![d] = rows[d].ver + 1]
  /\ Write(d, [rows[d] EXCEPT !.updated = clock, !.ver = @ + 1, !.chunks = n],
           {Job(d, rows[d].ver + 1, n, "embed", "write")})

\* Fault: the isolate's own clock, which runs ahead of the database's.
TouchedByIsolate(d) == clock + 1
\* TOUCH_UPDATED_AT, spliced into every mutator.
Touched(d) == clock

SetStatus(d, status) ==
  /\ Live(d)
  /\ Write(d, [rows[d] EXCEPT !.status = status, !.updated = Touched(d)], {})
  /\ UNCHANGED links

Promote(d) ==
  /\ Live(d)
  /\ Write(d, [rows[d] EXCEPT !.published = rows[d].ver, !.updated = Touched(d)], {})
  /\ UNCHANGED links

Revoke(d) ==
  /\ Live(d)
  /\ links' = [links EXCEPT ![d] = 0]
  /\ Write(d, [rows[d] EXCEPT !.life = "revoked", !.ver = 0, !.published = 0,
                              !.chunks = 0, !.updated = Touched(d)],
           {Job(d, 0, 0, "delete", "write")})

Tick ==
  /\ Spend("ticks")
  /\ clock' = clock + 1
  /\ UNCHANGED <<rows, links, index, jobs, task, feed>>

-----------------------------------------------------------------------------
(* syncDocumentVector: embed, delete the whole range, upsert.  A revoke     *)
(* starts at the delete (deleteDocumentVector) and has nothing to upsert.   *)

Accept(mutation) ==
  /\ Len(pending) < MaxPending
  /\ pending' = Append(pending, mutation)
  /\ UNCHANGED vectors

Advance(j, at) == jobs' = (jobs \ {j}) \union {[j EXCEPT !.at = at]}

\* Zero chunks have nothing to embed; their stale vectors are still cleared.
Embed(j) ==
  /\ j.at = "embed"
  /\ Advance(j, "delete")
  /\ UNCHANGED <<corpus, index, task, feed, budget>>

\* Fault: the tail of a longer text stays.
DeleteUpserted(j) == [op |-> "delete", doc |-> j.doc, ver |-> 0, chunks |-> j.chunks]
\* chunkVectorIdRange: every chunk id the document may have.
DeleteRange(j) == [op |-> "delete", doc |-> j.doc, ver |-> 0, chunks |-> MAX_CHUNKS]

DeleteOld(j) ==
  /\ j.at = "delete"
  /\ Accept(DeleteRange(j))
  /\ IF j.chunks = 0 THEN jobs' = jobs \ {j} ELSE Advance(j, "upsert")
  /\ UNCHANGED <<corpus, task, feed, budget>>

Upsert(j) ==
  /\ j.at = "upsert"
  /\ Accept([op |-> "upsert", doc |-> j.doc, ver |-> j.ver, chunks |-> j.chunks])
  /\ jobs' = jobs \ {j}
  /\ UNCHANGED <<corpus, task, feed, budget>>

\* A call that throws, or answers with no embeddings: swallowed, nothing undone.
JobFails(j) ==
  /\ Spend("trouble")
  /\ jobs' = jobs \ {j}
  /\ UNCHANGED <<corpus, index, task, feed>>

\* The index applies what it accepted, in order and later.
Apply ==
  /\ pending # <<>>
  /\ LET m == Head(pending)
     IN  vectors' = [v \in DOMAIN vectors |->
           IF v[1] = m.doc /\ v[2] < m.chunks THEN m.ver ELSE vectors[v]]
  /\ pending' = Tail(pending)
  /\ UNCHANGED <<corpus, jobs, task, feed, budget>>

SyncStep == \E j \in jobs : Embed(j) \/ DeleteOld(j) \/ Upsert(j)

-----------------------------------------------------------------------------
(* Walks: the lists, the change feed and the sweeps.                        *)

StartWalk(kind, filter) ==
  /\ task.kind = "none"
  /\ kind \in budget.reads
  /\ task' = [NoTask EXCEPT !.kind = kind, !.at = "page", !.filter = filter,
       !.steady = {d \in budget.docs : Born(d) /\ Shown(rows[d], kind, filter)}]
  /\ UNCHANGED <<corpus, index, jobs, feed, budget>>

\* One page.  A client may send a cursor back with another order: refused,
\* unless the request is well formed.  A sweep has one order, whatever is asked.
ReadPage(order, limit, door) ==
  LET q == [limit |-> limit, order |-> order, cursor |-> task.cursor, since |-> task.filter.since,
            status |-> task.filter.status, publication |-> task.filter.publication]
      axis == IF task.kind \in Sweeps THEN DEFAULT_ORDER ELSE OrderOf(q)
  IN  /\ task.at = "page"
      /\ Refusal(q) = ""
      /\ task.cursor = NoCursor => OrderOf(q) = WalkOrder(task.kind)
      /\ \E page \in {Paginate({r \in Table : Shown(r, task.kind, task.filter)}, task.cursor, axis,
                               LimitOf(q, door), IF task.kind \in Sweeps THEN "" ELSE axis)} :
           LET ids == [i \in DOMAIN page.items |-> page.items[i].id] IN
           /\ task' = [task EXCEPT
                !.seen = @ \o ids, !.cursor = page.next,
                !.todo = IF task.kind \in Sweeps THEN page.items ELSE <<>>,
                !.at = CASE task.kind = "missing" -> "probe"
                         [] task.kind \in {"rebuild", "links"} -> "row"
                         [] task.kind \in Lists /\ page.next # NoCursor -> "page"
                         [] OTHER -> "done"]
           /\ IF task.kind = "feed"
                THEN feed' = [feed EXCEPT
                       !.known = [d \in DOMAIN feed.known |->
                          IF d \in ToSet(ids) THEN rows[d] ELSE feed.known[d]],
                       !.top = Max({@} \union {page.items[i].updated : i \in DOMAIN page.items})]
                ELSE UNCHANGED feed
      /\ UNCHANGED <<corpus, index, jobs, budget>>

\* mode "missing": no chunk of it in the index, and something to embed.
IsMissing(row) == row.chunks > 0 /\ vectors[<<row.id, 0>>] = 0

\* presentDocIds: one getByIds for the page, of committed vectors.
Probe ==
  /\ task.at = "probe"
  /\ task' = [task EXCEPT !.at = "row", !.todo = Kept(@, {r \in ToSet(@) : IsMissing(r)})]
  /\ UNCHANGED <<corpus, index, jobs, feed, budget>>

\* The vector sweeps sync one document at a time, by the text the page read.
SyncRow ==
  /\ task.kind \in {"missing", "rebuild"} /\ task.at = "row" /\ task.todo # <<>>
  /\ LET row == Head(task.todo)
     IN  jobs' = jobs \union {Job(row.id, row.ver, row.chunks, "embed", "sweep")}
  /\ task' = [task EXCEPT !.at = "sync", !.todo = Tail(@)]
  /\ UNCHANGED <<corpus, index, feed, budget>>

RowSynced ==
  /\ task.at = "sync"
  /\ \A j \in jobs : j.by = "write"
  /\ task' = [task EXCEPT !.at = "row"]
  /\ UNCHANGED <<corpus, index, jobs, feed, budget>>

\* The links sweep fetches the render the page named; one purged by then is
\* skipped, and a revoked document's may not be purged yet.
GetRender ==
  /\ task.kind = "links" /\ task.at = "row" /\ task.todo # <<>>
  /\ \/ task' = [task EXCEPT !.at = "write"]
     \/ ~Live(Head(task.todo).id) /\ task' = [task EXCEPT !.todo = Tail(@)]
  /\ UNCHANGED <<corpus, index, jobs, feed, budget>>

\* linkSyncStatements: delete and insert, whatever the row has become since.
WriteLinks ==
  /\ task.at = "write"
  /\ LET row == Head(task.todo) IN links' = [links EXCEPT ![row.id] = row.ver]
  /\ task' = [task EXCEPT !.at = "row", !.todo = Tail(@)]
  /\ UNCHANGED <<rows, clock, index, jobs, feed, budget>>

\* The page is answered; the operator comes back with the cursor, if any.
EndPage ==
  /\ task.kind \in Sweeps /\ task.at = "row" /\ task.todo = <<>>
  /\ task' = [task EXCEPT !.at = IF task.cursor = NoCursor THEN "done" ELSE "page"]
  /\ UNCHANGED <<corpus, index, jobs, feed, budget>>

\* It resumes at the newest updated_at it saw.
ResumeAt == feed.top

EndWalk ==
  /\ task.at = "done"
  /\ task' = NoTask
  /\ feed' = IF task.kind = "feed" THEN [feed EXCEPT !.since = ResumeAt] ELSE feed
  /\ UNCHANGED <<corpus, index, jobs, budget>>

\* An isolate dies, or a client gives up.  What was written stays.
Abandon ==
  /\ task.kind # "none"
  /\ Spend("trouble")
  /\ task' = NoTask
  /\ jobs' = {j \in jobs : j.by = "write"}
  /\ UNCHANGED <<corpus, index, feed>>
-----------------------------------------------------------------------------
(* searchDocumentsCore.                                                     *)

\* tokens: the query has words the keyword leg can use.
StartSearch(mode, tokens, status) ==
  /\ task.kind = "none"
  /\ mode \in budget.reads
  /\ mode = "keyword" => tokens                                  \* bad_query
  /\ task' = [NoTask EXCEPT !.kind = mode, !.tokens = tokens,
       !.filter = [AnyRow EXCEPT !.status = status],
       !.at = IF mode = "keyword" THEN "fts" ELSE "embedQuery",
       !.dead = {d \in DOMAIN rows : rows[d].life = "revoked"}]
  /\ UNCHANGED <<corpus, index, jobs, feed, budget>>

\* A failed embed falls back to the keyword leg; with no words, bad_query.
EmbedQuery(ok) ==
  /\ task.at = "embedQuery"
  /\ task' = IF ~ok /\ ~task.tokens THEN NoTask
             ELSE [task EXCEPT !.embedded = ok,
               !.at = IF task.tokens /\ (task.kind = "hybrid" \/ ~ok) THEN "fts" ELSE "query"]
  /\ IF ok THEN UNCHANGED budget ELSE Spend("trouble")
  /\ UNCHANGED <<corpus, index, jobs, feed>>

\* Fault: a row is taken as it is.
AnyCandidate(d) == Born(d)
\* The D1 clause of both legs: D1 decides who is live, never the index.
Eligible(d) == Live(d) /\ Matches(rows[d], task.filter)

\* The status a hit carries is the one its leg read.
Deprecated(hits) == {d \in hits : rows[d].status = "deprecated"}

Rankings(docs) == UNION {SetToSeqs(S) : S \in SUBSET docs}

\* The keyword leg: some ranking of some of the eligible documents.
SearchText ==
  /\ task.at = "fts"
  /\ \E ranking \in Rankings({d \in budget.docs : Eligible(d)}) :
       task' = [task EXCEPT !.fts = ranking, !.deprecated = Deprecated(ToSet(ranking)),
         !.at = IF task.embedded THEN "query" ELSE "answer"]
  /\ UNCHANGED <<corpus, index, jobs, feed, budget>>

\* The index ranks documents by committed vectors, stale ones included.
QueryVectors ==
  /\ task.at = "query"
  /\ \E ranking \in Rankings({d \in budget.docs : \E i \in Slots : vectors[<<d, i>>] # 0}) :
       task' = [task EXCEPT !.vec = ranking, !.at = "rejoin"]
  /\ UNCHANGED <<corpus, index, jobs, feed, budget>>

\* ... or throws: no semantic hits.
QueryFails ==
  /\ task.at = "query"
  /\ Spend("trouble")
  /\ task' = [task EXCEPT !.at = "answer"]
  /\ UNCHANGED <<corpus, index, jobs, feed>>

Rejoin ==
  /\ task.at = "rejoin"
  /\ task' = [task EXCEPT !.vec = Kept(@, {d \in ToSet(@) : Eligible(d)}), !.at = "answer",
       !.deprecated = @ \union Deprecated(ToSet(task.vec) \ ToSet(task.fts))]
  /\ UNCHANGED <<corpus, index, jobs, feed, budget>>

\* What the query answers.  A hybrid query whose embedding failed penalises the
\* keyword leg's own scores, of which the ranks stand for here.
Answer(limit) ==
  CASE task.kind = "keyword" \/ (task.kind = "semantic" /\ ~task.embedded) -> task.fts
    [] task.kind = "semantic" /\ task.embedded -> task.vec
    [] OTHER -> Fuse(<<task.fts, task.vec>>,
                     IF task.filter.status = "" THEN task.deprecated ELSE {}, limit)

EndSearch ==
  /\ task.at = "answer"
  /\ task' = NoTask
  /\ UNCHANGED <<corpus, index, jobs, feed, budget>>

-----------------------------------------------------------------------------
Init ==
  /\ \E b \in Budgets :
       /\ budget = b
       /\ rows = [d \in b.docs |-> IF d \notin DOMAIN b.born THEN Unborn(d) ELSE
            [Unborn(d) EXCEPT !.life = "live", !.created = b.born[d],
                           !.updated = b.born[d], !.ver = 1, !.chunks = 1]]
       /\ links = [d \in b.docs |-> rows[d].ver]
       /\ vectors = [v \in b.docs \X Slots |-> 0]
       /\ feed = [since |-> 0, top |-> 0, known |-> [d \in b.docs |-> Unborn(d)]]
       /\ clock = Max({1} \union {b.born[d] : d \in DOMAIN b.born})
  /\ pending = <<>>
  /\ jobs = {}
  /\ task = NoTask

Writers ==
  \/ \E d \in budget.docs, n \in budget.chunks : Publish(d, n) \/ Update(d, n)
  \/ \E d \in budget.docs, status \in {"active", "deprecated"} : SetStatus(d, status)
  \/ \E d \in budget.docs : Promote(d) \/ Revoke(d)
  \/ Tick

Walks ==
  \/ \E kind \in Sweeps : StartWalk(kind, AnyRow)
  \/ \E pub \in {"", "pending"} : StartWalk("created", [AnyRow EXCEPT !.publication = pub])
  \/ StartWalk("updated", AnyRow)
  \/ StartWalk("feed", [AnyRow EXCEPT !.since = feed.since])
  \/ \E order \in {"", "created", "updated"}, limit \in PageLimits, door \in {"http", "mcp"} :
       ReadPage(order, limit, door)
  \/ Probe \/ SyncRow \/ RowSynced \/ GetRender \/ WriteLinks \/ EndPage \/ EndWalk

Searches ==
  \/ \E mode \in Modes, tokens \in BOOLEAN, status \in {"", "active"} :
       StartSearch(mode, tokens, status)
  \/ \E ok \in BOOLEAN : EmbedQuery(ok)
  \/ SearchText \/ QueryVectors \/ QueryFails \/ Rejoin \/ EndSearch

Next ==
  \/ Writers \/ SyncStep \/ (\E j \in jobs : JobFails(j)) \/ Apply
  \/ Walks \/ Abandon \/ Searches

Spec == Init /\ [][Next]_vars

\* The operator runs the sweeps again and again; what was accepted is applied;
\* a reader that is not abandoned goes on.
Progress ==
  \/ \E order \in {"", "created", "updated"}, limit \in PageLimits, door \in {"http", "mcp"} :
       ReadPage(order, limit, door)
  \/ Probe \/ SyncRow \/ RowSynced \/ GetRender \/ WriteLinks \/ EndPage \/ EndWalk
  \/ \E ok \in BOOLEAN : EmbedQuery(ok)
  \/ SearchText \/ QueryVectors \/ Rejoin \/ EndSearch

FairSpec ==
  /\ Spec
  /\ WF_vars(Apply) /\ WF_vars(SyncStep) /\ WF_vars(Progress)
  /\ SF_vars(StartWalk("rebuild", AnyRow)) /\ SF_vars(StartWalk("links", AnyRow))

-----------------------------------------------------------------------------
(* Properties.                                                             *)

TypeOK ==
  /\ \A field \in {"writes", "ticks", "trouble"} : budget[field] \in Nat
  /\ rows \in [budget.docs ->
       [id : budget.docs, life : {"unborn", "live", "revoked"}, created : 0..clock, updated : 0..clock,
        ver : Nat, published : Nat, status : {"active", "deprecated"}, chunks : 0..MAX_CHUNKS]]
  /\ links \in [budget.docs -> Nat]
  /\ vectors \in [budget.docs \X Slots -> Nat]
  /\ Len(pending) <= MaxPending
  /\ \A j \in jobs : j.doc \in budget.docs /\ j.at \in {"embed", "delete", "upsert"}
  /\ clock \in Nat \ {0}

\* A walk that reaches its end returned no document twice, and every document
\* that was listed at its start and kept its place, whatever was published,
\* touched, revoked or filtered out between its pages, and whatever order a
\* page was asked for (paginate, the cursor predicates, cursorOrderMismatch).
WalksAreExact ==
  task.at = "done" =>
    /\ \A i, k \in DOMAIN task.seen : task.seen[i] = task.seen[k] => i = k
    /\ task.steady \subseteq ToSet(task.seen)

\* A consumer of the change feed that resumes at the newest updated_at it saw
\* has every document as it is, or will be given it by its next poll: no write
\* between or during its polls is lost, even within one millisecond.
FeedMissesNothing ==
  task.kind # "feed" =>
    \A d \in budget.docs : Born(d) =>
      feed.known[d] = rows[d] \/ ChangedSince(rows[d], feed.since)

\* A document revoked before a query began is not among its answers, whatever
\* vectors of it the index still has (search-core.ts: a stale vector never
\* surfaces; Vectorize is a ranker, D1 the gate).
RevokedNeverSurface ==
  task.at = "answer" =>
    \A limit \in 1..MAX_LIMIT : ToSet(Answer(limit)) \cap task.dead = {}

\* Fusion by rank is fair to both legs: a document that one leg prefers and the
\* other prefers or knows neither of is never ranked below another for it, unless
\* it alone is deprecated; and the penalty is a hint, not a partition: a deprecated
\* document that both legs found is ahead of an active one that one leg alone
\* found, behind it (search-ranking.ts: it "can therefore still beat a weaker
\* active hit").
FusionIsFair == budget.trial.kind = "fusion" => FusesFairly(budget.trial.of)

\* Whatever the blocks of a text, its windows keep every character in place:
\* they are no more than the index has room for, none outgrows the target by
\* more than the overlap and a break, and what no window holds is the end of a
\* text that filled them all (packWindows).
NoTextIsLost == budget.trial.kind = "windows" => KeepsText(budget.trial.of)

\* However syncs, revokes, failures and both sweeps interleave, and in whatever
\* order they reach the index: when an operator keeps running the sweeps, the
\* index comes to hold exactly the chunks of every live document's current text,
\* and the link rows come from its current version.
IndexHeals ==
  {"rebuild", "links"} \subseteq budget.reads =>
    []<>(\A d \in budget.docs : Live(d) =>
           /\ links[d] = rows[d].ver
           /\ \A i \in Slots :
                vectors[<<d, i>>] = IF i < rows[d].chunks THEN rows[d].ver ELSE 0)
=============================================================================
