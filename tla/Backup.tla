------------------------------- MODULE Backup -------------------------------
(***************************************************************************)
(* Backup and restore: an export that walks five tables by keyset, page by  *)
(* page, while requests write; and a restore that plans a submitted body    *)
(* against the database and then applies it unit by unit, with a step for   *)
(* each await, any of which may throw or be the isolate's last.             *)
(*                                                                         *)
(* A writer is one step here (DocumentStore has their insides), and so are  *)
(* the reads a plan is made from.  A version's two blobs share one key and  *)
(* stand or fall together; a text is a number, 0 where no source was kept.  *)
(* Names, keys' hashes and timestamps other than created_at ride along.     *)
(***************************************************************************)
EXTENDS Ordering, FiniteSetsExt, SequencesExt

CONSTANTS
  BACKUP_DEFAULT_LIMIT,
  BACKUP_MAX_LIMIT,
  Budgets        \* the bounds of a behaviour, one of these records:
                 \*   start     the database at the start
                 \*   limits    page limits asked for, 0 for none
                 \*   writers   kinds of writers
                 \*   writes, ticks, trouble, walks, losses, restores
                 \*             how many of each
                 \*   racing    whether writers run while a restore does
                 \*   drill     whether the operator follows the restore drill
                 \*             of docs/operating.md

BACKUP_PHASES == <<"agents", "agent_keys", "oauth_clients", "documents", "slug_tombstones">>
Phases == ToSet(BACKUP_PHASES)
Tables == Phases \union {"versions", "documents_fts"}

\* The columns of a table; a document's id and its versions' keys are numbers.
Columns(phase) ==
  CASE phase = "agents" -> [at : Nat]
    [] phase \in {"agent_keys", "oauth_clients"} -> [at : Nat, agent : Nat]
    [] phase = "documents" -> [at : Nat, pid : Nat, by : Nat, cur : Nat, pub : Nat,
                               live : BOOLEAN, slug : Nat]
    [] phase = "slug_tombstones" -> [at : Nat, doc : Nat]
Versions == [by : Nat, key : Nat, src : BOOLEAN]

VersionsOf(st, d) == {x \in DOMAIN st.versions : x[1] = d}
Holders(st, slug) == {d \in DOMAIN st.documents : st.documents[d].slug = slug}

\* The tables' shapes, and what D1's own constraints keep in them: foreign keys,
\* and columns that are unique.
Shaped(st, p) ==
  /\ IsFiniteSet(DOMAIN st[p]) /\ DOMAIN st[p] \subseteq Nat \ {0}
  /\ st[p] \in [DOMAIN st[p] -> Columns(p)]
WholeRow(r) == IF r.live THEN r.cur # 0 ELSE r.cur = 0 /\ r.pub = 0 /\ r.slug = 0
DocumentFits(st, d) == LET r == st.documents[d] IN
  /\ WholeRow(r)
  /\ r.by \in DOMAIN st.agents
  /\ r.live => <<d, r.cur>> \in DOMAIN st.versions
  /\ r.slug # 0 => Holders(st, r.slug) = {d}
VersionsFit(st) ==
  /\ DOMAIN st.versions \subseteq (DOMAIN st.documents) \X (Nat \ {0})
  /\ st.versions \in [DOMAIN st.versions -> Versions]
ClientFits(st, c) ==
  /\ st.oauth_clients[c].agent \in DOMAIN st.agents
  /\ \A e \in DOMAIN st.oauth_clients :
       st.oauth_clients[c].agent = st.oauth_clients[e].agent => c = e
Sound(st) ==
  /\ DOMAIN st = Tables
  /\ \A p \in Phases : Shaped(st, p)
  /\ \A d \in DOMAIN st.documents : DocumentFits(st, d)
  /\ VersionsFit(st)
  /\ \A c \in DOMAIN st.oauth_clients : ClientFits(st, c)
  /\ DOMAIN st.documents_fts \subseteq DOMAIN st.documents

\* A behaviour starts with sound tables: published versions are there, no name is
\* both held and retired, and each version has its own key.
IsBudget(b) ==
  /\ b \in [start : {b.start}, limits : SUBSET Nat, writers : {b.writers}, writes : Nat, ticks : Nat,
            trouble : Nat, walks : Nat, losses : Nat, restores : Nat, racing : BOOLEAN, drill : BOOLEAN]
  /\ Sound(b.start)
  /\ \A d \in DOMAIN b.start.documents :
       b.start.documents[d].pub # 0 => <<d, b.start.documents[d].pub>> \in DOMAIN b.start.versions
  /\ \A slug \in DOMAIN b.start.slug_tombstones :
       /\ Holders(b.start, slug) = {}
       /\ b.start.slug_tombstones[slug].doc \in DOMAIN b.start.documents \union {0}
  /\ IsFiniteSet(DOMAIN b.start.versions)
  /\ \A x, y \in DOMAIN b.start.versions :
       /\ b.start.versions[x].key \in 1..Cardinality(DOMAIN b.start.versions)
       /\ b.start.versions[x].key = b.start.versions[y].key => x = y

ASSUME BackupAssumption ==
  /\ BACKUP_DEFAULT_LIMIT \in 1..BACKUP_MAX_LIMIT
  /\ \A b \in Budgets : IsBudget(b)

VARIABLES
  store,     \* D1: a function from ids to rows for each table
  bucket,    \* R2: text behind each key
  nonce,     \* keys minted so far
  clock,     \* the database's clock, in ticks that several rows may share
  export,    \* the page being exported
  file,      \* the pages the operator's loop has so far, and its cursor
  shelf,     \* finished files
  restore,   \* the restore under way
  fate,      \* what the properties remember of the past
  budget     \* what is left of the behaviour's bounds

vars == <<store, bucket, nonce, clock, export, file, shelf, restore, fate, budget>>
world == <<store, bucket, nonce, clock>>

nextBackupPhase == [i \in 1..4 |-> BACKUP_PHASES[i + 1]]
PhaseAt(phase) == CHOOSE i \in 1..5 : BACKUP_PHASES[i] = phase

Empty == <<>>
EmptyStore == [t \in Tables |-> Empty]
Start == [ts |-> 0, id |-> 0]
Done == [phase |-> "", after |-> Start]
FirstPage == [phase |-> "agents", after |-> Start]

Without(f, S) == [x \in DOMAIN f \ S |-> f[x]]
Upsert(f, rows) == [x \in DOMAIN f \union DOMAIN rows |-> IF x \in DOMAIN rows THEN rows[x] ELSE f[x]]
Put(f, x, y) == Upsert(f, [z \in {x} |-> y])
NoFile == [pages |-> <<>>, cursor |-> Done, image |-> Empty, quiet |-> FALSE, owed |-> {}]
Exporting == export.at # "idle"
Restoring == restore.at # "idle"
Spend(field) == budget[field] > 0 /\ budget' = [budget EXCEPT ![field] = @ - 1]

Docs == DOMAIN store.documents
Live(d) == d \in Docs /\ store.documents[d].live

-----------------------------------------------------------------------------
(* Writers.  Each is one batch.                                            *)

\* The names a request retires, and those it takes.
Claimed(st) ==
  (DOMAIN st.slug_tombstones \ DOMAIN store.slug_tombstones)
    \union {st.documents[d].slug : d \in {e \in Docs : st.documents[e].slug # store.documents[e].slug}}

Key(t, id) == [ts |-> t[id].at, id |-> id]

\* What a file still owes once the tables are `st`: the rows that have been there
\* since its walk began, each at one key.
StillThere(st) ==
  {o \in file.owed : o[2] \in DOMAIN st[o[1]] /\ Key(st[o[1]], o[2]) = Key(store[o[1]], o[2])}

Write(kind, st, lost, minted) ==
  /\ kind \in budget.writers
  /\ Restoring => budget.racing
  /\ Spend("writes")
  /\ store' = st
  /\ bucket' = Upsert(Without(bucket, lost), [k \in minted |-> k])
  /\ nonce' = nonce + Cardinality(minted)
  /\ file' = [file EXCEPT !.quiet = FALSE, !.owed = StillThere(st)]
  /\ fate' = [fate EXCEPT !.restored = -1,
                !.contested = @ \union IF Restoring THEN Claimed(st) ELSE {}]
  /\ UNCHANGED <<clock, export, shelf, restore>>

\* An agent arrives with its first key and its client's binding.
Enrol(a) ==
  /\ a \notin DOMAIN store.agents
  /\ Write("enrol",
       [store EXCEPT !.agents = Put(@, a, [at |-> clock]),
                     !.agent_keys = Put(@, a, [at |-> clock, agent |-> a]),
                     !.oauth_clients = Put(@, a, [at |-> clock, agent |-> a])], {}, {})

\* The agent's client is deleted and it consents through a new one.
Rebind(c, new) ==
  /\ c \in DOMAIN store.oauth_clients /\ new \notin DOMAIN store.oauth_clients
  /\ Write("rebind",
       [store EXCEPT !.oauth_clients =
          Put(Without(@, {c}), new, [at |-> clock, agent |-> @[c].agent])], {}, {})

Publish(d, a) ==
  /\ d \notin Docs /\ a \in DOMAIN store.agents
  /\ Write("publish",
       [store EXCEPT !.documents = Put(@, d, [at |-> clock, pid |-> d, by |-> a, cur |-> 1,
                                             pub |-> 0, live |-> TRUE, slug |-> 0]),
                     !.versions = Put(@, <<d, 1>>, [by |-> a, key |-> nonce + 1, src |-> TRUE]),
                     !.documents_fts = Put(@, d, nonce + 1)],
       {}, {nonce + 1})

\* The versions' primary key refuses a number that is taken.
Update(d) ==
  /\ Live(d)
  /\ LET next == <<d, store.documents[d].cur + 1>> IN
     /\ next \notin DOMAIN store.versions
     /\ Write("update",
          [store EXCEPT !.documents[d].cur = @ + 1,
                        !.versions = Put(@, next, [by |-> store.documents[d].by,
                                                   key |-> nonce + 1, src |-> TRUE]),
                        !.documents_fts = Put(@, d, nonce + 1)],
          {}, {nonce + 1})

Promote(d) ==
  /\ Live(d)
  /\ Write("promote", [store EXCEPT !.documents[d].pub = store.documents[d].cur], {}, {})

Retired(slug, d) ==
  IF slug = 0 THEN store.slug_tombstones
  ELSE Put(store.slug_tombstones, slug, [at |-> clock, doc |-> d])

Rename(d, slug) ==
  /\ Live(d)
  /\ Holders(store, slug) = {} /\ slug \notin DOMAIN store.slug_tombstones
  /\ Write("rename", [store EXCEPT !.documents[d].slug = slug,
                                   !.slug_tombstones = Retired(store.documents[d].slug, d)],
           {}, {})

Revoke(d) ==
  /\ Live(d)
  /\ Write("revoke",
       [store EXCEPT !.documents[d] = [@ EXCEPT !.live = FALSE, !.cur = 0, !.pub = 0, !.slug = 0],
                     !.slug_tombstones = Retired(store.documents[d].slug, d),
                     !.documents_fts = Without(@, {d})],
       {store.versions[x].key : x \in VersionsOf(store, d)}, {})

Release(slug) ==
  /\ slug \in DOMAIN store.slug_tombstones
  /\ Write("release", [store EXCEPT !.slug_tombstones = Without(@, {slug})], {}, {})

Tick ==
  /\ Spend("ticks")
  /\ clock' = clock + 1
  /\ UNCHANGED <<store, bucket, nonce, export, file, shelf, restore, fate>>

\* The account loses both stores.
Lose ==
  /\ Spend("losses")
  /\ file.cursor = Done /\ ~Restoring /\ shelf # <<>>
  /\ store' = EmptyStore
  /\ bucket' = Empty
  /\ fate' = [fate EXCEPT !.restored = 0]
  /\ UNCHANGED <<nonce, clock, export, file, shelf, restore>>

-----------------------------------------------------------------------------
(* GET /admin/backup: one page of the walk.                                *)

Earlier(k, l) == k.ts < l.ts \/ (k.ts = l.ts /\ k.id < l.id)   \* order by ts, id

\* Fault: the walk resumes after the last timestamp and forgets the id.
AfterByTime(k, after) == k.ts > after.ts
After(k, after) == Earlier(after, k)

\* The first rows after a key: ids, in the order of the walk.
fetchPhase(phase, after, take) ==
  LET t == store[phase]
      ids == {i \in DOMAIN t : After(Key(t, i), after)}
  IN  SubSeq(InOrder(ids, LAMBDA i, j : Earlier(Key(t, i), Key(t, j))), 1,
             IF Cardinality(ids) < take THEN Cardinality(ids) ELSE take)

parseBackupLimit(raw) == IF raw = 0 THEN BACKUP_DEFAULT_LIMIT ELSE raw

Unit(phase, id, versions) ==
  [phase |-> phase, id |-> id, row |-> store[phase][id], versions |-> versions]

\* The operator's loop begins a new file; a drill is over.
StartWalk ==
  /\ ~Exporting /\ ~Restoring /\ file.cursor = Done
  /\ Spend("walks")
  /\ file' = [pages |-> <<>>, cursor |-> FirstPage, quiet |-> TRUE,
              image |-> [store |-> store, bucket |-> bucket],
              owed |-> UNION {{<<p, i>> : i \in DOMAIN store[p]} : p \in Phases}]
  /\ fate' = [fate EXCEPT !.restored = -1]
  /\ UNCHANGED <<world, export, shelf, restore>>

RequestPage(raw) ==
  /\ ~Exporting /\ file.cursor # Done
  /\ parseBackupLimit(raw) <= BACKUP_MAX_LIMIT
  /\ export' = [at |-> "fetch", cursor |-> file.cursor, remaining |-> parseBackupLimit(raw),
                rows |-> <<>>, last |-> FALSE, unread |-> {}, read |-> Empty, units |-> <<>>]
  /\ UNCHANGED <<world, file, shelf, restore, fate, budget>>

Idle == [at |-> "idle"]

\* The trailer: the page joins the file, and the file the shelf if it was the last.
FinishPage(units, cursor) ==
  LET f == [file EXCEPT !.pages = Append(@, units), !.cursor = cursor]
  IN /\ export' = Idle
     /\ IF cursor = Done
        THEN file' = NoFile /\ shelf' = Append(shelf, f)
        ELSE file' = f /\ UNCHANGED shelf

\* Once `units` end with the `taken` rows: the page is full, or the phase exhausted.
EndOfRows(units, taken, last) ==
  LET phase == export.cursor.phase
      left == export.remaining - taken
      next == [phase |-> nextBackupPhase[PhaseAt(phase)], after |-> Start]
  IN CASE ~last -> FinishPage(units, [phase |-> phase,
                     after |-> [ts |-> Last(units).row.at, id |-> Last(units).id]])
       [] last /\ PhaseAt(phase) = 5 -> FinishPage(units, Done)
       [] last /\ PhaseAt(phase) < 5 /\ left = 0 -> FinishPage(units, next)
       [] last /\ PhaseAt(phase) < 5 /\ left > 0 ->
            /\ export' = [export EXCEPT !.at = "fetch", !.cursor = next, !.remaining = left,
                                        !.units = units]
            /\ UNCHANGED <<file, shelf>>

FetchPhase ==
  /\ export.at = "fetch"
  /\ LET phase == export.cursor.phase
         peeked == fetchPhase(phase, export.cursor.after, export.remaining + 1)
         last == Len(peeked) <= export.remaining
         rows == IF last THEN peeked ELSE Front(peeked)
     IN IF phase = "documents" /\ rows # <<>>
        THEN /\ export' = [export EXCEPT !.at = "versions", !.last = last,
                                         !.rows = [n \in DOMAIN rows |-> Unit(phase, rows[n], Empty)]]
             /\ UNCHANGED <<file, shelf>>
        ELSE EndOfRows(export.units \o [n \in DOMAIN rows |-> Unit(phase, rows[n], Empty)],
                       Len(rows), last)
  /\ UNCHANGED <<world, restore, fate, budget>>

\* The document's row is as old as the fetch; its versions are read now.
SelectVersions ==
  /\ export.at = "versions"
  /\ LET d == Head(export.rows).id IN
     export' = [export EXCEPT !.at = "blobs", !.read = Empty,
                  !.unread = {<<x[2], store.versions[x]>> : x \in VersionsOf(store, d)}]
  /\ UNCHANGED <<world, file, shelf, restore, fate, budget>>

\* The text that travels: none for a dead document, a lost blob or a legacy row.
Source(row, v) == IF row.live /\ v.src /\ v.key \in DOMAIN bucket THEN bucket[v.key] ELSE 0

ReadBlob ==
  /\ export.at = "blobs" /\ export.unread # {}
  /\ LET v == CHOOSE x \in export.unread : \A y \in export.unread : x[1] <= y[1]
         row == Head(export.rows).row
     IN export' = [export EXCEPT !.unread = @ \ {v},
                     !.read = Put(@, v[1], [by |-> v[2].by, key |-> v[2].key, src |-> v[2].src,
                                            text |-> Source(row, v[2])])]
  /\ UNCHANGED <<world, file, shelf, restore, fate, budget>>

\* The links are read and the unit is whole: a page never splits a document.
EmitDocument ==
  /\ export.at = "blobs" /\ export.unread = {}
  /\ LET unit == [Head(export.rows) EXCEPT !.versions = export.read]
         units == Append(export.units, unit)
     IN IF Len(export.rows) > 1
        THEN /\ export' = [export EXCEPT !.at = "versions", !.rows = Tail(@), !.units = units,
                                         !.remaining = @ - 1]
             /\ UNCHANGED <<file, shelf>>
        ELSE EndOfRows(units, 1, export.last)
  /\ UNCHANGED <<world, restore, fate, budget>>

\* A read throws and the page has no trailer: the loop asks again from its cursor.
CutPage ==
  /\ Exporting
  /\ Spend("trouble")
  /\ export' = Idle
  /\ UNCHANGED <<world, file, shelf, restore, fate>>

-----------------------------------------------------------------------------
(* POST /admin/restore: the plan.  `q` is what it is made from: the units   *)
(* of the body, the database as read, on_conflict, and the versions whose   *)
(* re-render the sanitizer or the storage cap refuses, or whose bytes fail  *)
(* their recorded hash.                                                     *)

CLEAN == {"create", "replace", "skip"}
Writes(act) == act \in {"create", "replace"}

Of(q, phase) == Kept(q.units, {u \in ToSet(q.units) : u.phase = phase})
Ids(q, phase) == {u.id : u \in ToSet(Of(q, phase))}
agentAvailable(q, a) == a \in DOMAIN q.st.agents \union Ids(q, "agents")
Conflict(q, exists) == IF ~exists THEN "create" ELSE IF q.replace THEN "replace" ELSE "skip"

RowPlan(q, u) ==
  IF u.phase # "agents" /\ ~agentAvailable(q, u.row.agent) THEN "missing_dependency"
  ELSE IF /\ u.phase = "oauth_clients"
          /\ u.id \notin DOMAIN q.st.oauth_clients
          /\ \E c \in DOMAIN q.st.oauth_clients : q.st.oauth_clients[c].agent = u.row.agent
       THEN "skip"        \* agent_bound_elsewhere: never silently bound again
       ELSE Conflict(q, u.id \in DOMAIN q.st[u.phase])

\* A version against a document that is, or will be, live or not; `prep` says
\* that its bytes are written.
planVersion(q, d, no, v, docLive) ==
  LET exists == <<d, no>> \in DOMAIN q.st.versions
      act == Conflict(q, exists)
      Plan(a, prep) == [act |-> a, prep |-> prep, rec |-> v,
                        old |-> IF exists THEN {q.st.versions[<<d, no>>].key} ELSE {}]
  IN CASE ~agentAvailable(q, v.by) -> Plan("missing_dependency", FALSE)
       [] agentAvailable(q, v.by) /\ (~docLive \/ act = "skip") -> Plan(act, FALSE)
       [] agentAvailable(q, v.by) /\ docLive /\ act # "skip" ->
            IF v.text = 0 THEN Plan("source_unavailable", FALSE)
            ELSE IF <<d, no>> \in q.refused THEN Plan("rejected", FALSE)
            ELSE Plan(act, TRUE)

planVersions(q, d, vs, docLive) == [no \in DOMAIN vs |-> planVersion(q, d, no, vs[no], docLive)]

\* Fault: a retired name is taken back.
SlugIfUnheld(q, u, held) ==
  IF (Holders(q.st, u.row.slug) \ {u.id} # {}) \/ u.row.slug \in held THEN 0 ELSE u.row.slug
\* Never a name another document holds, nor one that is retired.
SlugFor(q, u, held) ==
  IF \/ Holders(q.st, u.row.slug) \ {u.id} # {}
     \/ u.row.slug \in DOMAIN q.st.slug_tombstones
     \/ u.row.slug \in held
  THEN 0 ELSE u.row.slug

\* Fault: only the current version is looked for.
NeedsCurrent(row) == {row.cur} \ {0}
\* Versions a live document must come back with.
Needs(row) == {row.cur, row.pub} \ {0}

\* One document, given the names that earlier ones on the page will hold.
planDocument(q, u, held) ==
  LET d == u.id
      exists == d \in DOMAIN q.st.documents
      act == Conflict(q, exists)
      versions == planVersions(q, d, u.versions, u.row.live)
      extra == {x \in VersionsOf(q.st, d) : x[2] \notin DOMAIN u.versions}
      Plan(a, slug, vs) == [act |-> a, id |-> d, row |-> [u.row EXCEPT !.slug = slug],
                            versions |-> vs, extra |-> extra,
                            extraKeys |-> {q.st.versions[x].key : x \in extra}]
  IN CASE \/ exists /\ q.st.documents[d].pid # u.row.pid
          \/ \E e \in DOMAIN q.st.documents \ {d} : q.st.documents[e].pid = u.row.pid ->
            Plan("rejected", 0, Empty)
       [] OTHER ->
            IF ~agentAvailable(q, u.row.by) THEN Plan("missing_dependency", 0, Empty)
            ELSE IF act = "skip"
            THEN Plan("skip", 0, planVersions(q, d, u.versions, q.st.documents[d].live))
            ELSE IF u.row.live /\ \E n \in Needs(u.row) :
                      n \notin DOMAIN versions \/ ~versions[n].prep
            THEN Plan("rejected", 0, Empty)
            ELSE Plan(act, SlugFor(q, u, held), versions)

HeldBy(plans) == {p.row.slug : p \in {x \in ToSet(plans) : Writes(x.act)}} \ {0}
planDocuments(q) ==
  LET docs == Of(q, "documents")
      plans[n \in 0..Len(docs)] ==
        IF n = 0 THEN <<>>
        ELSE Append(plans[n - 1], planDocument(q, docs[n], HeldBy(plans[n - 1])))
  IN  plans[Len(docs)]

planTombstone(q, u) ==
  IF Holders(q.st, u.id) # {} \/ u.id \in HeldBy(planDocuments(q)) THEN "skip"
  ELSE Conflict(q, u.id \in DOMAIN q.st.slug_tombstones)

\* Versions whose document is not on the page.
planLoose(q, u) ==
  IF u.id \notin DOMAIN q.st.documents
  THEN [no \in DOMAIN u.versions |-> [act |-> "missing_dependency"]]
  ELSE planVersions(q, u.id, u.versions, q.st.documents[u.id].live)

\* Whether every outcome of the plan is clean.
PlanIsClean(q) ==
  /\ \A u \in ToSet(q.units) : u.phase \in {"agents", "agent_keys", "oauth_clients"} =>
       RowPlan(q, u) \in CLEAN
  /\ \A p \in ToSet(planDocuments(q)) :
       p.act \in CLEAN /\ \A no \in DOMAIN p.versions : p.versions[no].act \in CLEAN
  /\ \A u \in ToSet(Of(q, "versions")) :
       \A no \in DOMAIN planLoose(q, u) : planLoose(q, u)[no].act \in CLEAN

(* What will be applied, in FK order.                                       *)

WritesOf(versions) ==
  [no \in {n \in DOMAIN versions : Writes(versions[n].act)} |-> versions[no]]
RowItem(u) == [kind |-> u.phase, id |-> u.id, row |-> u.row]
VersionsItem(q, d, versions) ==
  [kind |-> "versions", id |-> d, versions |-> WritesOf(versions), extra |-> {},
   extraKeys |-> {}, live |-> q.st.documents[d].live]
DocumentItem(p) ==
  [kind |-> "documents", id |-> p.id, row |-> p.row, versions |-> WritesOf(p.versions),
   extra |-> p.extra, extraKeys |-> p.extraKeys]

Items(q) ==
  LET Rows(phase) == LET of == Of(q, phase)
                         written == Kept(of, {u \in ToSet(of) : Writes(RowPlan(q, u))})
                     IN [i \in DOMAIN written |-> RowItem(written[i])]
      docs == planDocuments(q)
      stones == Of(q, "slug_tombstones")
      units == Kept(docs, {p \in ToSet(docs) : Writes(p.act)})
      gaining == Kept(docs, {p \in ToSet(docs) : p.act = "skip" /\ WritesOf(p.versions) # Empty})
      loose == Kept(Of(q, "versions"), {u \in ToSet(q.units) : u.id \in DOMAIN q.st.documents})
      tombs == Kept(stones, {u \in ToSet(stones) : Writes(planTombstone(q, u))})
      known == DOMAIN q.st.documents \union Ids(q, "documents")
      Tomb(u) == [RowItem(u) EXCEPT !.row.doc = IF @ \in known THEN @ ELSE 0]
  IN Rows("agents") \o Rows("agent_keys") \o Rows("oauth_clients")
     \o [i \in DOMAIN units |-> DocumentItem(units[i])]
     \o [i \in DOMAIN loose |-> VersionsItem(q, loose[i].id, planLoose(q, loose[i]))]
     \o [i \in DOMAIN gaining |-> VersionsItem(q, gaining[i].id, gaining[i].versions)]
     \o [i \in DOMAIN tombs |-> Tomb(tombs[i])]

-----------------------------------------------------------------------------
(* What the operator submits: a page, a whole file, a document's records,   *)
(* or the versions of a document alone.                                     *)

Units(f) == FlattenSeq(f.pages)
Documents(f) == {u \in ToSet(Units(f)) : u.phase = "documents"}
Foreign(u) == [u EXCEPT !.row.pid = @ + 1]   \* a record edited by hand
Pieces(f) ==
  {Units(f)} \union ToSet(f.pages) \union (UNION {{<<u>>, <<Foreign(u)>>} : u \in Documents(f)})
    \union {<<[u EXCEPT !.phase = "versions"]>> : u \in Documents(f)}

\* Every page of the newest file in order with the default skip, each once the last
\* one was clean.
Drilled(f, units) ==
  /\ f = Last(shelf)
  /\ fate.restored \in 0..(Len(f.pages) - 1)
  /\ units = f.pages[fate.restored + 1]

VersionsIn(units) ==
  UNION {{<<u.id, no>> : no \in DOMAIN u.versions} :
         u \in {x \in ToSet(units) : x.phase \in {"documents", "versions"}}}

\* mode=apply.  mode=verify stops after the plan, as does a page with an invalid
\* line (`aborted`): neither changes anything.
Submit(f, units, replace, refused) ==
  /\ ~Restoring /\ file.cursor = Done
  /\ IF budget.drill THEN Drilled(f, units) /\ ~replace ELSE units \in Pieces(f)
  /\ refused \subseteq VersionsIn(units)
  /\ budget.restores > 0 /\ budget.trouble >= Cardinality(refused)
  /\ budget' = [budget EXCEPT !.restores = @ - 1, !.trouble = @ - Cardinality(refused)]
  /\ LET q == [units |-> units, st |-> store, replace |-> replace, refused |-> refused] IN
     restore' = [at |-> "item", items |-> Items(q), clean |-> PlanIsClean(q), puts |-> Empty,
                 text |-> 0]
  /\ UNCHANGED <<world, export, file, shelf, fate>>

-----------------------------------------------------------------------------
(* The apply phase.                                                         *)

Item == Head(restore.items)
AtItem(kinds) == restore.at = "item" /\ restore.items # <<>> /\ Item.kind \in kinds

\* Fault: a failure is logged and not reported.
NextItemSilently(failed) ==
  restore' = [restore EXCEPT !.at = "item", !.items = Tail(@), !.puts = Empty, !.text = 0]
\* On to the next item; a failed one makes the report unclean.
NextItem(failed) ==
  restore' = [restore EXCEPT !.at = "item", !.items = Tail(@), !.puts = Empty, !.text = 0,
                             !.clean = @ /\ ~failed]

At(at) == restore' = [restore EXCEPT !.at = at]

\* What D1 itself holds a row to: foreign keys and unique columns.
Fits(item) ==
  CASE item.kind = "agents" -> TRUE
    [] item.kind = "agent_keys" -> item.row.agent \in DOMAIN store.agents
    [] item.kind = "oauth_clients" ->
         /\ item.row.agent \in DOMAIN store.agents
         /\ \A c \in DOMAIN store.oauth_clients \ {item.id} :
              store.oauth_clients[c].agent # item.row.agent
    [] item.kind = "slug_tombstones" -> item.row.doc \in Docs \union {0}
    [] item.kind \in {"documents", "versions"} ->
         /\ \A no \in DOMAIN item.versions : item.versions[no].rec.by \in DOMAIN store.agents
         /\ item.kind = "documents" =>
              /\ item.row.by \in DOMAIN store.agents
              /\ item.row.slug # 0 => Holders(store, item.row.slug) \subseteq {item.id}

\* One statement, its failure caught and reported.
ApplyRow ==
  /\ AtItem(Phases \ {"documents"})
  /\ \/ /\ Fits(Item)
        /\ store' = [store EXCEPT ![Item.kind] = Put(@, Item.id, Item.row)]
        /\ NextItem(FALSE)
        /\ UNCHANGED budget
     \/ /\ IF Fits(Item) THEN Spend("trouble") ELSE UNCHANGED budget
        /\ NextItem(TRUE)
        /\ UNCHANGED store
  /\ UNCHANGED <<bucket, nonce, clock, export, file, shelf, fate>>

Unput == {no \in DOMAIN Item.versions : Item.versions[no].prep /\ no \notin DOMAIN restore.puts}

\* putVersionBlobs, under a fresh key.  A throw leaves the unit's earlier blobs:
\* the catch knows the new keys only once all of them are written.
PutBlobs ==
  /\ AtItem({"documents", "versions"}) /\ Unput # {}
  /\ LET no == CHOOSE n \in Unput : \A m \in Unput : n <= m IN
     \/ /\ bucket' = Put(bucket, nonce + 1, Item.versions[no].rec.text)
        /\ nonce' = nonce + 1
        /\ restore' = [restore EXCEPT !.puts = Put(@, no, nonce + 1)]
        /\ UNCHANGED budget
     \/ /\ Spend("trouble")
        /\ NextItem(TRUE)
        /\ UNCHANGED <<bucket, nonce>>
  /\ UNCHANGED <<store, clock, export, file, shelf, fate>>

RowOf(no) ==
  LET plan == Item.versions[no] IN
  [by |-> plan.rec.by, src |-> plan.prep \/ plan.rec.src,
   key |-> IF plan.prep THEN restore.puts[no] ELSE plan.rec.key]

\* The versions table once the unit is written: extra ones dropped, then upserts.
UnitVersions ==
  Upsert(Without(store.versions, Item.extra),
         [x \in {<<Item.id, no>> : no \in DOMAIN Item.versions} |-> RowOf(x[2])])

\* Fault: the versions are left to a batch of their own.
UnitStoreRowFirst ==
  IF Item.kind = "versions" THEN [store EXCEPT !.versions = UnitVersions]
  ELSE [store EXCEPT !.documents = Put(@, Item.id, Item.row)]
\* One batch for a document: its row, its versions and what is derived from the
\* current one.  Loose versions are upserts only.
UnitStore ==
  IF Item.kind = "versions" THEN [store EXCEPT !.versions = UnitVersions]
  ELSE [store EXCEPT !.versions = UnitVersions,
          !.documents = Put(@, Item.id, Item.row),
          !.documents_fts = IF Item.row.live
            THEN Put(@, Item.id, Item.versions[Item.row.cur].rec.text)
            ELSE Without(@, {Item.id})]

Minted == {restore.puts[no] : no \in DOMAIN restore.puts}

\* The catch: delete what this unit wrote, best effort, and report it failed.
RollBack ==
  /\ bucket' \in {Without(bucket, Minted), bucket}
  /\ NextItem(TRUE)

CommitUnit ==
  /\ AtItem({"documents", "versions"}) /\ Unput = {}
  /\ \/ /\ Fits(Item)
        /\ store' = UnitStore
        /\ At("purge")
        /\ UNCHANGED <<bucket, budget>>
     \/ /\ IF Fits(Item) THEN Spend("trouble") ELSE UNCHANGED budget
        /\ RollBack
        /\ UNCHANGED store
  /\ UNCHANGED <<nonce, clock, export, file, shelf, fate>>

\* The keys this unit's plan saw and has replaced, and those of dropped versions.
OldKeys ==
  UNION {Item.versions[no].old : no \in {n \in DOMAIN Item.versions : Item.versions[n].prep}}

\* Best effort: a delete that throws is logged.
PurgeOld ==
  /\ restore.at = "purge"
  /\ \/ bucket' = Without(bucket, OldKeys \union Item.extraKeys) /\ UNCHANGED budget
     \/ Spend("trouble") /\ UNCHANGED bucket
  /\ IF Item.kind = "versions" /\ Item.live THEN At("derive") ELSE NextItem(FALSE)
  /\ UNCHANGED <<store, nonce, clock, export, file, shelf, fate>>

\* Loose versions are committed by now: a throw still deletes their bytes.
DeriveFails ==
  /\ Spend("trouble")
  /\ fate' = [fate EXCEPT !.blamed = @ \union {Item.id}]
  /\ RollBack
  /\ UNCHANGED store

\* The current version's row and render are read back.
DeriveRead ==
  /\ restore.at = "derive"
  /\ \/ /\ LET d == Item.id
               x == <<d, store.documents[d].cur>>
           IN IF Live(d) /\ x \in DOMAIN store.versions /\ store.versions[x].key \in DOMAIN bucket
              THEN restore' = [restore EXCEPT !.at = "search",
                                              !.text = bucket[store.versions[x].key]]
              ELSE NextItem(FALSE)
        /\ UNCHANGED <<store, bucket, fate, budget>>
     \/ DeriveFails
  /\ UNCHANGED <<nonce, clock, export, file, shelf>>

DeriveWrite ==
  /\ restore.at = "search"
  /\ \/ /\ store' = [store EXCEPT !.documents_fts = Put(@, Item.id, restore.text)]
        /\ NextItem(FALSE)
        /\ UNCHANGED <<bucket, fate, budget>>
     \/ DeriveFails
  /\ UNCHANGED <<nonce, clock, export, file, shelf>>

\* The report.  The drill goes on when it is clean.
Report ==
  /\ restore.at = "item" /\ restore.items = <<>>
  /\ restore' = Idle
  /\ fate' = [fate EXCEPT !.restored = IF budget.drill /\ restore.clean /\ @ >= 0 THEN @ + 1 ELSE @]
  /\ UNCHANGED <<world, export, file, shelf, budget>>

\* The isolate dies and there is no report.
Crash ==
  /\ Restoring
  /\ Spend("trouble")
  /\ restore' = Idle
  /\ UNCHANGED <<world, export, file, shelf, fate>>

-----------------------------------------------------------------------------
Writing ==
  \/ \E a \in 1..2 : Enrol(a)
  \/ \E c \in DOMAIN store.oauth_clients : Rebind(c, c + 10)
  \/ \E a \in DOMAIN store.agents : Publish(Cardinality(Docs) + 1, a)
  \/ \E d \in Docs : Update(d) \/ Promote(d) \/ Revoke(d)
  \/ \E d \in Docs, slug \in 1..3 : Rename(d, slug)
  \/ \E slug \in DOMAIN store.slug_tombstones : Release(slug)

Walking ==
  \/ StartWalk \/ FetchPhase \/ SelectVersions \/ ReadBlob \/ EmitDocument \/ CutPage
  \/ \E raw \in budget.limits : RequestPage(raw)

Submitting ==
  \E f \in ToSet(shelf), replace \in BOOLEAN :
    \E units \in IF budget.drill THEN ToSet(f.pages) ELSE Pieces(f) :
      \E refused \in {{}} \union {{x} : x \in VersionsIn(units)} :
        Submit(f, units, replace, refused)

Applying ==
  \/ ApplyRow \/ PutBlobs \/ CommitUnit \/ PurgeOld \/ DeriveRead \/ DeriveWrite
  \/ Report \/ Crash

Init ==
  \E b \in Budgets :
    /\ store = b.start
    /\ nonce = Cardinality(DOMAIN b.start.versions)
    /\ bucket = [k \in {v.key : v \in {b.start.versions[x] : x \in {y \in DOMAIN b.start.versions :
                    b.start.documents[y[1]].live}}} |-> k]
    /\ clock = 1
    /\ export = Idle
    /\ file = NoFile
    /\ shelf = <<>>
    /\ restore = Idle
    /\ fate = [restored |-> -1, blamed |-> {}, contested |-> {}]
    /\ budget = b

Next == Writing \/ Tick \/ Lose \/ Walking \/ Submitting \/ Applying
Spec == Init /\ [][Next]_vars

-----------------------------------------------------------------------------
\* The tables are sound, every blob has a key that was minted, and the walk and
\* the restore are somewhere.
TypeOK ==
  /\ Sound(store)
  /\ DOMAIN bucket \subseteq 1..nonce
  /\ export.at \in {"idle", "fetch", "versions", "blobs"}
  /\ restore.at \in {"idle", "item", "purge", "derive", "search"}

\* A finished file holds every row that was there from the walk's start to its
\* end, once, and no document twice, whatever was written in between and
\* whichever pages were cut short and asked for again (exportBackupPage:
\* "next_cursor names the last unit emitted").
WalkIsComplete ==
  \A f \in ToSet(shelf) :
    LET units == Units(f)
        Places(p, i) == {n \in DOMAIN units : units[n].phase = p /\ units[n].id = i}
    IN /\ \A o \in f.owed : Cardinality(Places(o[1], o[2])) = 1
       /\ \A u \in Documents(f) : Cardinality(Places("documents", u.id)) = 1

\* The database and the texts of its live documents, as they were; the search rows
\* are derived anew.  A name that was both live and retired may come back as
\* either (NamesStayRetired says when there is one).  A document is blamed once its
\* loose versions were reported failed after they had committed: their rows stay
\* and their bytes are gone, and the next attempt skips the rows.
Disputed(st) == {slug \in DOMAIN st.slug_tombstones : Holders(st, slug) # {}}
TextIn(image, d, no) == image.bucket[image.store.versions[<<d, no>>].key]
SameDocuments(image) ==
  /\ Docs = DOMAIN image.store.documents
  /\ \A d \in Docs : LET was == image.store.documents[d] IN
       \/ store.documents[d] = was
       \/ was.slug \in Disputed(image.store) /\ store.documents[d] = [was EXCEPT !.slug = 0]
SameVersions(image) ==
  /\ DOMAIN store.versions = DOMAIN image.store.versions
  /\ \A x \in DOMAIN store.versions :
       /\ store.versions[x].by = image.store.versions[x].by
       /\ Live(x[1]) /\ x[1] \notin fate.blamed =>
            bucket[store.versions[x].key] = TextIn(image, x[1], x[2])
SameAs(image) ==
  /\ \A p \in {"agents", "agent_keys", "oauth_clients"} : store[p] = image.store[p]
  /\ SameDocuments(image) /\ SameVersions(image)
  /\ Without(store.slug_tombstones, Disputed(image.store))
       = Without(image.store.slug_tombstones, Disputed(image.store))
  /\ DOMAIN store.documents_fts = {d \in Docs : Live(d)}
  /\ \A d \in Docs : Live(d) =>
       store.documents_fts[d] = TextIn(image, d, store.documents[d].cur)

\* After both stores are lost, the drill brings back what a quiet walk saw: once
\* every page in order has been answered with a clean report, every row, name,
\* tombstone, text and search row is there, however many attempts failed or died
\* half-way (docs/operating.md, "Full disaster recovery").
RoundTrip ==
  fate.restored # -1 /\ shelf # <<>> /\ Last(shelf).quiet
    /\ fate.restored = Len(Last(shelf).pages)
  => SameAs(Last(shelf).image)

\* "A live document must come back renderable": the current and the published
\* version of a live document have their bytes, whatever a restore wrote or
\* rolled back and whoever wrote meanwhile, unless the document is blamed.
ServedIsStored ==
  \A d \in Docs \ fate.blamed :
    Live(d) => \A n \in {store.documents[d].cur, store.documents[d].pub} \ {0} :
      <<d, n>> \in DOMAIN store.versions /\ store.versions[<<d, n>>].key \in DOMAIN bucket

\* A restore never brings a retired name back to life nor retires a live one: only
\* a name that some request retires or takes while a restore is under way can be
\* both, because the plan is made from what was read before (planTombstone, SlugFor).
NamesStayRetired ==
  \A slug \in DOMAIN store.slug_tombstones \ fate.contested : Holders(store, slug) = {}
=============================================================================
