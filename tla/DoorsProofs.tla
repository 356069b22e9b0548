---------------------------- MODULE DoorsProofs ----------------------------
(***************************************************************************)
(* Proofs about the doors, for any documents, names, keys and instances.   *)
(*                                                                         *)
(* The invariant, DoorsInv, has four parts.  World: the tables are sound,  *)
(* every session and every statement left for later is somebody's.         *)
(* SeenInv: the store now came from every moment the request has seen, by  *)
(* Evolves: no row comes back, no credential that failed works again.      *)
(* RequestInv: where the request is, its door allows, and what it knows by *)
(* then it learned at a moment seen.  And the answer is right: the step    *)
(* that gives it has its moments from what the request had learned.        *)
(*                                                                         *)
(* A tool's call goes the same way.  ToolKnows says at each of its steps   *)
(* what it has learned, each at a moment it has seen, and every read adds  *)
(* to it the moment that is now.                                           *)
(*                                                                         *)
(* The two lists of paths agree on any path: each rule of the cascade is   *)
(* of a kind, and a request that passes a rule of that kind is on the side *)
(* that the other list says.                                               *)
(***************************************************************************)
EXTENDS Site, OrderingProofs

LEMMA NoneApart == None \notin Docs \union Slugs \union Keys
BY DoorsAssumption DEF DoorsAssumption

\* What is there besides the variables' types: the instance is one of the
\* constant's, every session minted says when and under which key, and the
\* browser holds one of them.
Left == [reads : Int, writes : Int, logins : Int, deploys : Int, ticks : Int]
Minted(l) ==
  /\ l.token \in Nat /\ l.epoch \in Nat /\ l.at \in Nat /\ l.session \in Session
  /\ l.session.iat = l.at /\ l.session.exp = l.at + TTL /\ l.session.sig = <<l.token, l.epoch>>
Held(c) == c.cookie = None \/ \E l \in logins : c.cookie = l.session
SessionsInv ==
  /\ scene \in Scenes /\ SoundScene(scene) /\ left \in Left
  /\ \A l \in logins : Minted(l) /\ l.token <= env.token /\ l.epoch <= env.epoch
  /\ jar = None \/ \E l \in logins : jar = l.session

\* A statement left for later was the operator's, or a reader's that marks a
\* status.
JobInv ==
  job # None =>
    /\ IsOperator(job.by) \/ (IsReader(job.by) /\ job.kind = "status")
    /\ job.kind = "purge" => documents[job.doc].life = "revoked"
    /\ job.kind = "status" => job.status \in {"active", "deprecated"}

LEMMA CallersTyped ==
  ASSUME SoundStore, SessionsInv, NEW c \in Callers
  PROVE  c \in Credentials /\ Held(c)
<1>1. jar \in Session \union {None} /\ page \in Int /\ env \in Env
  BY DEF SoundStore
<1>2. Anonymous \in Credentials /\ Anonymous.cookie = None
  BY DEF Anonymous, Credentials
<1>3. CASE c \in {Anonymous, Browser, Elsewhere}
  BY <1>1, <1>2, <1>3 DEF Anonymous, Browser, Elsewhere, Credentials, Held, SessionsInv
<1>4. ASSUME NEW n \in 1..env.token, c = Bearer(OperatorToken(n)) \/ c = [Anonymous EXCEPT !.operator_token = n]
      PROVE  c \in Credentials /\ Held(c)
  BY <1>1, <1>2, <1>4 DEF Bearer, OperatorToken, Anonymous, Credentials, Held, Env
<1>5. ASSUME NEW k \in env.issued, c = Bearer(AgentKey(k))
      PROVE  c \in Credentials /\ Held(c)
  BY <1>1, <1>2, <1>5 DEF Bearer, AgentKey, Anonymous, Credentials, Held, Env
<1>6. ASSUME NEW l \in logins, c = [Anonymous EXCEPT !.cookie = l.session, !.csrf = l.session.csrf]
      PROVE  c \in Credentials /\ Held(c)
  <2>1. l.session \in Session
    BY <1>6 DEF SessionsInv, Minted
  <2> QED
    BY <2>1, <1>6 DEF Anonymous, Credentials, Held, Session
<1> QED
  BY <1>3, <1>4, <1>5, <1>6 DEF Callers

LEMMA WritersTyped ==
  ASSUME SoundStore, SessionsInv, NEW c \in Writers
  PROVE  c \in Credentials /\ Held(c)
<1>1. CASE c \in Callers
  BY <1>1, CallersTyped
<1>2. CASE c = Bearer(OperatorToken(env.token))
  BY <1>2 DEF SoundStore, Env, Bearer, OperatorToken, Anonymous, Credentials, Held
<1> QED
  BY <1>1, <1>2 DEF Writers

\* A store one row of which was written: the tables stay sound if the row is,
\* and no one else holds, or has retired, its name.
LEMMA PutRow ==
  ASSUME SoundStore, NEW d \in Docs, NEW docs, NEW tombs,
         docs \in [Docs -> DocumentRow], SoundRow(docs[d]),
         \A e \in Docs : e # d => docs[e] = documents[e],
         DOMAIN tombs \subseteq Slugs, tombs \in [DOMAIN tombs -> Docs \union {None}],
         docs[d].slug \notin DOMAIN tombs,
         \A e \in Docs : e # d => /\ documents[e].slug \notin DOMAIN tombs
                                  /\ documents[e].slug = docs[d].slug => docs[d].slug = None
  PROVE  (\A e \in Docs : SoundRow(docs[e])) /\ SoundNames(docs, tombs)
BY DEF SoundStore, SoundNames

\* What a core may leave: sound tables, and these moved on as they do: a live
\* document has no fewer versions than before, a revoked one stays revoked, no
\* retired name is released by a write to a document, and no key that was ever
\* issued is given again.
Unsigned == [kind : {"status", "redirect", "purge"}, slug : Slugs \union {None}, doc : Docs,
             status : {"active", "deprecated", None}, target : Docs \union {None}, by : {None}]
RowOn(old, new) ==
  /\ Live(new) => old.current_ver <= new.current_ver
  /\ old.life = "revoked" => new.life = "revoked"
  /\ old.life # "none" => new.life # "none"
Stored(d, row, bytes) == Live(row) => \A n \in 1..row.current_ver : <<d, n>> \in bytes
CoreOK(core) ==
  /\ core.documents \in [Docs -> DocumentRow] /\ \A d \in Docs : SoundRow(core.documents[d])
  /\ SoundNames(core.documents, core.slug_tombstones)
  /\ core.blobs \subseteq Docs \X Nat
  /\ core.keys \subseteq Keys /\ core.issued \subseteq Keys /\ core.status \in Nat
  /\ \A d \in Docs : RowOn(documents[d], core.documents[d]) /\ Stored(d, core.documents[d], core.blobs)
  /\ core.documents = documents \/ DOMAIN slug_tombstones \subseteq DOMAIN core.slug_tombstones
  /\ core.keys \intersect env.issued \subseteq env.keys /\ env.issued \subseteq core.issued
  /\ \/ core.job = job
     \/ /\ core.job \in Unsigned
        /\ core.job.kind = "purge" => core.documents[core.job.doc].life = "revoked"
        /\ core.job.kind = "status" => core.job.status \in {"active", "deprecated"}
  /\ \/ core.status < 300
     \/ /\ core.documents = documents /\ core.slug_tombstones = slug_tombstones
        /\ core.keys = env.keys /\ core.job = job

LEMMA FailsOK == ASSUME SoundStore, NEW n \in Nat PROVE CoreOK(Fails(n))
BY DEF SoundStore, CoreOK, Fails, Store, Env, RowOn, Stored, DocumentRow

\* A core that writes one row and retires names, and nothing else.
LEMMA StoreOK ==
  ASSUME SoundStore, NEW n \in Nat, n < 300, NEW d \in Docs, NEW docs, NEW tombs, NEW bytes,
         docs \in [Docs -> DocumentRow], SoundRow(docs[d]),
         \A e \in Docs : e # d => docs[e] = documents[e],
         RowOn(documents[d], docs[d]), Stored(d, docs[d], bytes),
         DOMAIN slug_tombstones \subseteq DOMAIN tombs,
         DOMAIN tombs \subseteq Slugs, tombs \in [DOMAIN tombs -> Docs \union {None}],
         docs[d].slug \notin DOMAIN tombs,
         \A e \in Docs : e # d => /\ documents[e].slug \notin DOMAIN tombs
                                  /\ documents[e].slug = docs[d].slug => docs[d].slug = None,
         blobs \subseteq bytes, bytes \subseteq Docs \X Nat
  PROVE  CoreOK(Store(n, docs, tombs, bytes))
<1>1. (\A e \in Docs : SoundRow(docs[e])) /\ SoundNames(docs, tombs)
  BY PutRow
<1>2. \A e \in Docs : RowOn(documents[e], docs[e]) /\ Stored(e, docs[e], bytes)
  BY DEF SoundStore, RowOn, Stored, DocumentRow
<1> QED
  BY <1>1, <1>2 DEF SoundStore, CoreOK, Store, Env

LEMMA NamesHold ==
  ASSUME SoundStore, NEW d \in Docs
  PROVE  /\ documents[d] \in DocumentRow /\ SoundRow(documents[d])
         /\ DOMAIN slug_tombstones \subseteq Slugs
         /\ slug_tombstones \in [DOMAIN slug_tombstones -> Docs \union {None}]
         /\ documents[d].slug \in Slugs \union {None}
         /\ documents[d].slug \notin DOMAIN slug_tombstones
         /\ \A e \in Docs : e # d => documents[e].slug \notin DOMAIN slug_tombstones
              /\ (documents[e].slug = documents[d].slug => documents[d].slug = None)
         /\ Stored(d, documents[d], blobs)
BY DEF SoundStore, SoundNames, DocumentRow, Stored

\* A row written in place, its name and its versions kept.
LEMMA WritesOK ==
  ASSUME SoundStore, NEW d \in Docs, NEW row, SoundRow(row), row.slug = documents[d].slug,
         row.life = documents[d].life, row.current_ver = documents[d].current_ver
  PROVE  CoreOK(Writes([documents EXCEPT ![d] = row]))
<1> DEFINE docs == [documents EXCEPT ![d] = row]
<1>1. docs \in [Docs -> DocumentRow] /\ docs[d] = row /\ \A e \in Docs : e # d => docs[e] = documents[e]
  BY DEF SoundStore, SoundRow
<1>2. blobs \subseteq Docs \X Nat /\ 200 \in Nat
  BY DEF SoundStore
<1> HIDE DEF docs
<1>4. RowOn(documents[d], row) /\ Stored(d, row, blobs)
  BY NamesHold DEF RowOn, Stored, Live, DocumentRow
<1>3. CoreOK(Store(200, docs, slug_tombstones, blobs))
  BY <1>1, <1>2, <1>4, NamesHold, StoreOK
<1> QED
  BY <1>3 DEF Writes, docs

LEMMA VisibilityOK ==
  ASSUME SoundStore, NEW d \in Docs, NEW v \in {"public", "private"}
  PROVE  CoreOK(SetDocumentVisibilityCore(d, v))
<1> DEFINE row == documents[d]
           published == IF v = "public" /\ row.published_ver = 0 THEN row.current_ver ELSE row.published_ver
           new == [row EXCEPT !.visibility = v, !.published_ver = published]
<1>1. row \in DocumentRow /\ SoundRow(row)
  BY NamesHold
<1>2. CASE Live(row)
  <2>0. published \in Nat /\ published <= row.current_ver /\ (v = "public" => published > 0)
    BY <1>1, <1>2 DEF SoundRow, DocumentRow
  <2> HIDE DEF published
  <2>1. SoundRow(new) /\ new.slug = row.slug /\ new.life = row.life /\ new.current_ver = row.current_ver
    BY <1>1, <1>2, <2>0 DEF SoundRow, DocumentRow, Live
  <2>2. [documents EXCEPT ![d].visibility = v, ![d].published_ver = published] = [documents EXCEPT ![d] = new]
    BY DEF SoundStore
  <2>3. CoreOK(Writes([documents EXCEPT ![d] = new]))
    BY <2>1, WritesOK
  <2> QED
    BY <1>2, <2>2, <2>3 DEF SetDocumentVisibilityCore, published
<1>3. CASE ~Live(row)
  BY <1>3, FailsOK, 404 \in Nat DEF SetDocumentVisibilityCore
<1> QED
  BY <1>2, <1>3

LEMMA PromoteOK ==
  ASSUME SoundStore, NEW d \in Docs, NEW n \in Nat
  PROVE  CoreOK(PromoteVersionCore(d, n))
<1> DEFINE row == documents[d]
           new == [row EXCEPT !.published_ver = n]
<1>1. row \in DocumentRow /\ SoundRow(row)
  BY NamesHold
<1>2. CASE Live(row) /\ n \in 1..row.current_ver
  <2>1. SoundRow(new) /\ new.slug = row.slug /\ new.life = row.life /\ new.current_ver = row.current_ver
    BY <1>1, <1>2 DEF SoundRow, DocumentRow, Live
  <2>2. [documents EXCEPT ![d].published_ver = n] = [documents EXCEPT ![d] = new]
    BY DEF SoundStore
  <2>3. CoreOK(Writes([documents EXCEPT ![d] = new]))
    BY <2>1, WritesOK
  <2> QED
    BY <1>2, <2>2, <2>3 DEF PromoteVersionCore
<1>3. CASE ~(Live(row) /\ n \in 1..row.current_ver)
  BY <1>3, FailsOK, 404 \in Nat DEF PromoteVersionCore
<1> QED
  BY <1>2, <1>3

\* Retiring the name a row gives up.
LEMMA TombstoneOK ==
  ASSUME SoundStore, NEW d \in Docs, NEW to \in Docs \union {None}
  PROVE  LET tombs == TombstoneSlug(documents[d].slug, to) IN
         /\ DOMAIN tombs = DOMAIN slug_tombstones \union ({documents[d].slug} \ {None})
         /\ DOMAIN slug_tombstones \subseteq DOMAIN tombs
         /\ DOMAIN tombs \subseteq Slugs /\ tombs \in [DOMAIN tombs -> Docs \union {None}]
         /\ \A e \in Docs : e # d => documents[e].slug \notin DOMAIN tombs
<1>1. \A e \in Docs : documents[e].slug \in Slugs \union {None}
  BY DEF SoundStore, DocumentRow
<1> QED
  BY <1>1, NamesHold DEF TombstoneSlug

\* A row that takes another name and retires its own.
LEMMA RenameOK ==
  ASSUME SoundStore, NEW d \in Docs, NEW docs, NEW bytes, NEW to \in Docs \union {None},
         docs \in [Docs -> DocumentRow], SoundRow(docs[d]),
         \A e \in Docs : e # d => docs[e] = documents[e],
         RowOn(documents[d], docs[d]), Stored(d, docs[d], bytes),
         docs[d].slug # documents[d].slug, ~SlugRefused(docs[d].slug, d),
         blobs \subseteq bytes, bytes \subseteq Docs \X Nat
  PROVE  CoreOK(Store(200, docs, TombstoneSlug(documents[d].slug, to), bytes))
<1> DEFINE tombs == TombstoneSlug(documents[d].slug, to)
<1>1. /\ DOMAIN tombs = DOMAIN slug_tombstones \union ({documents[d].slug} \ {None})
      /\ DOMAIN slug_tombstones \subseteq DOMAIN tombs
      /\ DOMAIN tombs \subseteq Slugs /\ tombs \in [DOMAIN tombs -> Docs \union {None}]
      /\ \A e \in Docs : e # d => documents[e].slug \notin DOMAIN tombs
  BY TombstoneOK
<1> HIDE DEF tombs
<1>2. docs[d].slug \notin DOMAIN tombs
  BY <1>1, NamesHold, NoneApart DEF SlugRefused
<1>3. \A e \in Docs : e # d => (documents[e].slug = docs[d].slug => docs[d].slug = None)
  BY DEF SlugRefused
<1>4. CoreOK(Store(200, docs, tombs, bytes))
  BY <1>1, <1>2, <1>3, StoreOK, 200 \in Nat
<1> QED
  BY <1>4 DEF tombs

\* A row whose name is kept, or was nobody's, and no name retired.
LEMMA KeepOK ==
  ASSUME SoundStore, NEW n \in Nat, n < 300, NEW d \in Docs, NEW docs, NEW bytes,
         docs \in [Docs -> DocumentRow], SoundRow(docs[d]),
         \A e \in Docs : e # d => docs[e] = documents[e],
         RowOn(documents[d], docs[d]), Stored(d, docs[d], bytes),
         ~SlugRefused(docs[d].slug, d), blobs \subseteq bytes, bytes \subseteq Docs \X Nat
  PROVE  CoreOK(Store(n, docs, slug_tombstones, bytes))
<1>1. docs[d].slug \notin DOMAIN slug_tombstones
  BY NamesHold, NoneApart DEF SlugRefused
<1>2. \A e \in Docs : e # d => (documents[e].slug = docs[d].slug => docs[d].slug = None)
  BY NamesHold DEF SlugRefused
<1> QED
  BY <1>1, <1>2, NamesHold, StoreOK

LEMMA SlugOK ==
  ASSUME SoundStore, NEW d \in Docs, NEW s \in Slugs \union {None}
  PROVE  CoreOK(SetDocumentSlugCore(d, s))
<1> DEFINE row == documents[d]
           docs == [documents EXCEPT ![d].slug = s]
<1>1. row \in DocumentRow /\ SoundRow(row)
  BY NamesHold
<1>2. CASE ~Live(row)
  BY <1>2, FailsOK, 404 \in Nat DEF SetDocumentSlugCore
<1>3. CASE Live(row) /\ SlugRefused(s, d)
  BY <1>3, FailsOK, 409 \in Nat DEF SetDocumentSlugCore
<1>4. CASE Live(row) /\ ~SlugRefused(s, d)
  <2>0. docs[d] = [row EXCEPT !.slug = s]
    BY DEF SoundStore
  <2>1. docs \in [Docs -> DocumentRow] /\ \A e \in Docs : e # d => docs[e] = documents[e]
    BY <1>1 DEF SoundStore, DocumentRow
  <2>2. /\ SoundRow(docs[d]) /\ docs[d].slug = s
        /\ docs[d].life = row.life /\ docs[d].current_ver = row.current_ver
    BY <1>1, <1>4, <2>0 DEF SoundRow, DocumentRow, Live
  <2>3. blobs \subseteq Docs \X Nat
    BY DEF SoundStore
  <2> HIDE DEF docs
  <2>6. RowOn(row, docs[d]) /\ Stored(d, docs[d], blobs)
    BY <1>1, <2>2, NamesHold DEF RowOn, Stored, Live, DocumentRow
  <2> HIDE DEF docs
  <2>4. CASE s = row.slug
    <3>0. ~SlugRefused(docs[d].slug, d)
      BY <1>4, <2>2
    <3>1. CoreOK(Store(200, docs, slug_tombstones, blobs))
      BY <3>0, <2>1, <2>2, <2>3, <2>6, KeepOK, 200 \in Nat
    <3> QED
      BY <1>4, <2>4, <3>1 DEF SetDocumentSlugCore, docs
  <2>5. CASE s # row.slug
    <3> DEFINE to == IF s = None THEN None ELSE d
    <3>1. to \in Docs \union {None}
      OBVIOUS
    <3> HIDE DEF to
    <3>2. CoreOK(Store(200, docs, TombstoneSlug(row.slug, to), blobs))
      BY <1>4, <2>1, <2>2, <2>3, <2>5, <2>6, <3>1, RenameOK
    <3> QED
      BY <1>4, <2>5, <3>2 DEF SetDocumentSlugCore, docs, to
  <2> QED
    BY <2>4, <2>5
<1> QED
  BY <1>2, <1>3, <1>4

\* A core that leaves a statement for later.
LEMMA PendingOK ==
  ASSUME SoundStore, NEW n \in Nat, n < 300, NEW todo \in Unsigned, todo.kind # "purge",
         todo.kind = "status" => todo.status \in {"active", "deprecated"}
  PROVE  CoreOK([Fails(n) EXCEPT !.job = todo])
<1> DEFINE core == [Fails(n) EXCEPT !.job = todo]
<1>1. CoreOK(Fails(n))
  BY FailsOK
<1>2. /\ core.documents = Fails(n).documents /\ core.slug_tombstones = Fails(n).slug_tombstones
      /\ core.blobs = Fails(n).blobs /\ core.keys = Fails(n).keys /\ core.issued = Fails(n).issued
      /\ core.status = n /\ Fails(n).status = n /\ core.job = todo
  BY DEF Fails, Store
<1> HIDE DEF core
<1>3. CoreOK(core)
  BY <1>1, <1>2 DEF CoreOK
<1> QED
  BY <1>3 DEF core

LEMMA StatusOK ==
  ASSUME SoundStore, NEW d \in Docs, NEW status \in {"active", "deprecated"}, NEW by \in Docs \union {None}
  PROVE  CoreOK(SetDocumentStatusCore(d, status, by))
<1> DEFINE core == SetDocumentStatusCore(d, status, by)
           to == IF status = "deprecated" THEN by ELSE None
<1>1. CoreOK(Fails(422)) /\ CoreOK(Fails(Pending))
  BY FailsOK, 422 \in Nat, 0 \in Nat DEF Pending
<1>2. Later("status", None, d, status, to) \in Unsigned /\ Later("status", None, d, status, to).kind # "purge"
      /\ Later("status", None, d, status, to).status = status
  BY DEF Later, Unsigned
<1>3. core = Fails(422) \/ core = [Fails(Pending) EXCEPT !.job = Later("status", None, d, status, to)]
  BY DEF SetDocumentStatusCore
<1> HIDE DEF core, to
<1>4. CASE core = [Fails(Pending) EXCEPT !.job = Later("status", None, d, status, to)]
  <2>1. CoreOK([Fails(Pending) EXCEPT !.job = Later("status", None, d, status, to)])
    BY <1>2, PendingOK, 0 \in Nat DEF Pending
  <2> QED
    BY <1>4, <2>1 DEF core, to
<1> QED
  BY <1>1, <1>3, <1>4 DEF core

LEMMA RedirectOK ==
  ASSUME SoundStore, NEW d \in Docs, NEW s \in Slugs
  PROVE  CoreOK(SetSlugRedirectCore(s, d))
<1> DEFINE core == SetSlugRedirectCore(s, d)
<1>1. CoreOK(Fails(422)) /\ CoreOK(Fails(Pending)) /\ CoreOK(Fails(404))
  BY FailsOK, 422 \in Nat, 0 \in Nat, 404 \in Nat DEF Pending
<1>2. Later("redirect", s, d, None, None) \in Unsigned /\ Later("redirect", s, d, None, None).kind = "redirect"
  BY DEF Later, Unsigned
<1>3. core \in {Fails(422), Fails(404), [Fails(Pending) EXCEPT !.job = Later("redirect", s, d, None, None)]}
  BY DEF SetSlugRedirectCore
<1> HIDE DEF core
<1>4. CASE core = [Fails(Pending) EXCEPT !.job = Later("redirect", s, d, None, None)]
  <2>1. CoreOK([Fails(Pending) EXCEPT !.job = Later("redirect", s, d, None, None)])
    BY <1>2, PendingOK, 0 \in Nat DEF Pending
  <2> QED
    BY <1>4, <2>1 DEF core
<1> QED
  BY <1>1, <1>3, <1>4 DEF core

LEMMA ClearOK ==
  ASSUME SoundStore, NEW s \in Slugs
  PROVE  CoreOK(ClearSlugRedirectCore(s)) /\ CoreOK(ReleaseSlugTombstoneCore(s))
<1>1. CoreOK(Fails(404))
  BY FailsOK, 404 \in Nat
<1>2. ASSUME NEW tombs, tombs \in [DOMAIN tombs -> Docs \union {None}], DOMAIN tombs \subseteq DOMAIN slug_tombstones
      PROVE  CoreOK(Store(200, documents, tombs, blobs))
  BY <1>2 DEF CoreOK, Store, SoundStore, Env, SoundNames, RowOn, Stored, DocumentRow
<1>3. CASE s \in DOMAIN slug_tombstones
  <2>0. slug_tombstones \in [DOMAIN slug_tombstones -> Docs \union {None}]
    BY DEF SoundStore, SoundNames
  <2>1. CoreOK(Store(200, documents, [slug_tombstones EXCEPT ![s] = None], blobs))
    BY <1>2, <1>3, <2>0
  <2>2. CoreOK(Store(200, documents, [x \in DOMAIN slug_tombstones \ {s} |-> slug_tombstones[x]], blobs))
    BY <1>2, <1>3, <2>0
  <2> QED
    BY <1>3, <2>1, <2>2 DEF ClearSlugRedirectCore, ReleaseSlugTombstoneCore
<1> QED
  BY <1>1, <1>3 DEF ClearSlugRedirectCore, ReleaseSlugTombstoneCore

LEMMA RowTyped ==
  ASSUME NEW row \in DocumentRow, NEW n \in Nat, NEW s \in Slugs \union {None}
  PROVE  /\ [row EXCEPT !.current_ver = n, !.slug = s] \in DocumentRow
         /\ [row EXCEPT !.published_ver = n] \in DocumentRow
BY DEF DocumentRow

LEMMA NewRow ==
  ASSUME NEW v \in {"public", "private"}, NEW s \in Slugs \union {None}, NEW n \in {0, 1}, v = "public" => n = 1
  PROVE  LET row == [Vacant EXCEPT !.life = "live", !.visibility = v, !.current_ver = 1, !.slug = s,
                                   !.published_ver = n]
         IN SoundRow(row) /\ row.slug = s
<1> DEFINE row == [Vacant EXCEPT !.life = "live", !.visibility = v, !.current_ver = 1, !.slug = s,
                                 !.published_ver = n]
<1>1. /\ row.life = "live" /\ row.visibility = v /\ row.current_ver = 1 /\ row.slug = s
      /\ row.published_ver = n
  BY DEF Vacant
<1>2. row \in DocumentRow
  <2> DEFINE base == [Vacant EXCEPT !.life = "live", !.visibility = v]
             named == [base EXCEPT !.current_ver = 1, !.slug = s]
  <2>1. Vacant \in DocumentRow
    BY DEF Vacant, DocumentRow
  <2>2. base \in DocumentRow
    BY <2>1 DEF DocumentRow
  <2>4. row = [named EXCEPT !.published_ver = n]
    BY DEF Vacant
  <2>3. named \in DocumentRow
    <3> HIDE DEF base
    <3> QED
      BY <2>2, RowTyped, 1 \in Nat
  <2>5. n \in Nat
    OBVIOUS
  <2> HIDE DEF named, row
  <2> QED
    BY <2>3, <2>4, <2>5, RowTyped
<1> HIDE DEF row
<1>3. SoundRow(row)
  BY <1>1, <1>2 DEF SoundRow, Live
<1> QED
  BY <1>1, <1>3 DEF row

LEMMA PublishOK ==
  ASSUME SoundStore, NEW d \in Docs, NEW v \in {"public", "private"}, NEW s \in Slugs \union {None},
         documents[d].life = "none"
  PROVE  CoreOK(PublishDocumentCore(d, v, s))
<1> DEFINE n == IF v = "public" THEN 1 ELSE 0
           new == [Vacant EXCEPT !.life = "live", !.visibility = v, !.current_ver = 1, !.slug = s,
                                 !.published_ver = n]
           docs == [documents EXCEPT ![d] = new]
           bytes == blobs \union {<<d, 1>>}
<1>1. CASE SlugRefused(s, d)
  BY <1>1, FailsOK, 409 \in Nat DEF PublishDocumentCore
<1>2. CASE ~SlugRefused(s, d)
  <2>0. n \in {0, 1} /\ (v = "public" => n = 1)
    OBVIOUS
  <2> HIDE DEF n
  <2>9. new.slug = s /\ SoundRow(new)
    BY <2>0, NewRow
  <2>1. new.slug = s /\ SoundRow(new) /\ new.current_ver = 1 /\ new.life = "live"
    BY <2>9 DEF Vacant
  <2> HIDE DEF new
  <2>2. docs \in [Docs -> DocumentRow] /\ docs[d] = new /\ \A e \in Docs : e # d => docs[e] = documents[e]
    BY <2>1 DEF SoundStore, SoundRow
  <2>3. blobs \subseteq bytes /\ bytes \subseteq Docs \X Nat
    BY DEF SoundStore
  <2>5. RowOn(documents[d], new) /\ Stored(d, new, bytes)
    BY <2>1, NamesHold DEF RowOn, Stored, SoundRow, Live
  <2> HIDE DEF docs, bytes
  <2>4. CoreOK(Store(201, docs, slug_tombstones, bytes))
    BY <1>2, <2>1, <2>2, <2>3, <2>5, KeepOK, 201 \in Nat
  <2> QED
    BY <1>2, <2>4 DEF PublishDocumentCore, docs, bytes, new, n
<1> QED
  BY <1>1, <1>2

LEMMA UpdateOK ==
  ASSUME SoundStore, NEW d \in Docs, NEW n \in Nat, NEW s \in Slugs \union {None, Keep}, NEW by \in {"agent", "operator"}
  PROVE  CoreOK(UpdateDocumentCore(d, n, s, by))
<1> DEFINE row == documents[d]
           target == IF s = Keep THEN row.slug ELSE s
           docs == [documents EXCEPT ![d].current_ver = row.current_ver + 1, ![d].slug = target]
           bytes == blobs \union {<<d, row.current_ver + 1>>}
           to == IF target = None THEN None ELSE d
           core == UpdateDocumentCore(d, n, s, by)
<1>1. row \in DocumentRow /\ SoundRow(row) /\ target \in Slugs \union {None}
  BY NamesHold
<1>2. \/ core \in {Fails(404), Fails(412), Fails(403), Fails(409)}
      \/ Live(row) /\ ~SlugRefused(target, d)
         /\ core = Store(200, docs, IF target = row.slug THEN slug_tombstones ELSE TombstoneSlug(row.slug, to), bytes)
  <2>1. CASE ~Live(row)
    BY <2>1 DEF UpdateDocumentCore
  <2>2. CASE Live(row) /\ n \notin {0, row.current_ver}
    BY <2>2 DEF UpdateDocumentCore
  <2>3. CASE Live(row) /\ n \in {0, row.current_ver}
    <3>1. CASE by = "agent" /\ row.visibility = "public" /\ target # row.slug
      BY <2>3, <3>1 DEF UpdateDocumentCore
    <3>2. CASE (by = "operator" \/ row.visibility = "private" \/ target = row.slug) /\ SlugRefused(target, d)
      BY <2>3, <3>2 DEF UpdateDocumentCore
    <3>3. CASE /\ ~(by = "agent" /\ row.visibility = "public" /\ target # row.slug)
               /\ ~((by = "operator" \/ row.visibility = "private" \/ target = row.slug) /\ SlugRefused(target, d))
      <4>1. ~SlugRefused(target, d)
        BY <1>1, <3>3 DEF DocumentRow
      <4>2. core = Store(200, docs, IF target = row.slug THEN slug_tombstones ELSE TombstoneSlug(row.slug, to), bytes)
        BY <2>3, <3>3 DEF UpdateDocumentCore
      <4> QED
        BY <2>3, <4>1, <4>2
    <3> QED
      BY <3>1, <3>2, <3>3
  <2> QED
    BY <2>1, <2>2, <2>3
<1> HIDE DEF core
<1>3. CASE core \in {Fails(404), Fails(412), Fails(403), Fails(409)}
  BY <1>3, FailsOK, 404 \in Nat, 412 \in Nat, 403 \in Nat, 409 \in Nat DEF core
<1>4. CASE /\ Live(row) /\ ~SlugRefused(target, d)
           /\ core = Store(200, docs, IF target = row.slug THEN slug_tombstones ELSE TombstoneSlug(row.slug, to), bytes)
  <2> HIDE DEF target
  <2>1. /\ docs \in [Docs -> DocumentRow] /\ docs[d].slug = target /\ SoundRow(docs[d])
        /\ docs[d].current_ver = row.current_ver + 1 /\ docs[d].life = row.life
        /\ \A e \in Docs : e # d => docs[e] = documents[e]
    <3>1. docs[d] = [row EXCEPT !.current_ver = row.current_ver + 1, !.slug = target]
      BY DEF SoundStore
    <3> HIDE DEF docs
    <3> DEFINE new == [row EXCEPT !.current_ver = row.current_ver + 1, !.slug = target]
    <3>6. new \in DocumentRow
      <4>1. row.current_ver + 1 \in Nat
        BY <1>1 DEF DocumentRow
      <4> QED
        BY <1>1, <4>1, RowTyped
    <3>7. new.slug = target /\ new.current_ver = row.current_ver + 1
      BY <1>1 DEF DocumentRow
    <3>8. new.life = row.life /\ new.visibility = row.visibility /\ new.published_ver = row.published_ver
      BY <1>1 DEF DocumentRow
    <3>2. new \in DocumentRow /\ new.slug = target /\ new.current_ver = row.current_ver + 1
          /\ new.life = row.life /\ new.visibility = row.visibility
          /\ new.published_ver = row.published_ver
      BY <3>6, <3>7, <3>8
    <3>5. docs[d] = new
      BY <3>1
    <3> HIDE DEF new
    <3>3. docs \in [Docs -> DocumentRow] /\ \A e \in Docs : e # d => docs[e] = documents[e]
      BY <3>5, <3>2 DEF SoundStore, docs
    <3>4. SoundRow(new)
      BY <1>1, <1>4, <3>2 DEF SoundRow, DocumentRow, Live
    <3> QED
      BY <3>2, <3>3, <3>4, <3>5
  <2>2. blobs \subseteq bytes /\ bytes \subseteq Docs \X Nat /\ to \in Docs \union {None}
    BY <1>1 DEF SoundStore, DocumentRow
  <2>5. RowOn(row, docs[d]) /\ Stored(d, docs[d], bytes)
    <3>1. Live(row) /\ row.life = "live" /\ row.current_ver \in Nat
      BY <1>1, <1>4 DEF Live, DocumentRow
    <3>2. \A m \in 1..row.current_ver : <<d, m>> \in bytes
      BY <3>1, NamesHold DEF Stored
    <3> HIDE DEF docs
    <3>3. \A m \in 1..(row.current_ver + 1) : m \in 1..row.current_ver \/ m = row.current_ver + 1
      BY <3>1
    <3>4. <<d, row.current_ver + 1>> \in bytes
      OBVIOUS
    <3> HIDE DEF bytes
    <3> QED
      BY <2>1, <3>1, <3>2, <3>3, <3>4 DEF RowOn, Stored
  <2> HIDE DEF docs, bytes, to
  <2>3. CASE target = row.slug
    <3>1. CoreOK(Store(200, docs, slug_tombstones, bytes))
      BY <1>4, <2>1, <2>2, <2>3, <2>5, KeepOK, 200 \in Nat
    <3> QED
      BY <1>4, <2>3, <3>1 DEF core
  <2>4. CASE target # row.slug
    <3>1. CoreOK(Store(200, docs, TombstoneSlug(row.slug, to), bytes))
      BY <1>4, <2>1, <2>2, <2>4, <2>5, RenameOK
    <3> QED
      BY <1>4, <2>4, <3>1 DEF core
  <2> QED
    BY <2>3, <2>4
<1> QED
  BY <1>2, <1>3, <1>4

LEMMA RestoreOK ==
  ASSUME SoundStore, NEW d \in Docs, NEW n \in Nat
  PROVE  CoreOK(RestoreVersionCore(d, n))
<1>1. CoreOK(Fails(404)) /\ CoreOK(Fails(409))
  BY FailsOK, 404 \in Nat, 409 \in Nat
<1>2. CoreOK(UpdateDocumentCore(d, documents[d].current_ver, Keep, "operator"))
  BY UpdateOK, NamesHold DEF DocumentRow
<1> QED
  BY <1>1, <1>2 DEF RestoreVersionCore

LEMMA RevokeOK ==
  ASSUME SoundStore, NEW d \in Docs
  PROVE  CoreOK(RevokeDocumentCore(d))
<1> DEFINE docs == [documents EXCEPT ![d] = Emptied(@)]
           tombs == TombstoneSlug(documents[d].slug, None)
<1>1. documents[d] \in DocumentRow /\ SoundRow(documents[d])
  BY NamesHold
<1> DEFINE purge == Later("purge", None, d, None, None)
<1>0. purge \in Unsigned /\ purge.doc = d /\ purge.kind = "purge"
  BY DEF Later, Unsigned
<1>2. CASE documents[d].life = "none"
  BY <1>2, FailsOK, 404 \in Nat DEF RevokeDocumentCore, Live
<1>4. CASE documents[d].life = "revoked"
  <2> DEFINE core == [Fails(200) EXCEPT !.job = purge]
  <2>1. CoreOK(Fails(200))
    BY FailsOK, 200 \in Nat
  <2>2. /\ Fails(200).documents = documents /\ Fails(200).slug_tombstones = slug_tombstones
        /\ Fails(200).blobs = blobs /\ Fails(200).keys = env.keys /\ Fails(200).issued = env.issued
        /\ Fails(200).status = 200
    BY DEF Fails, Store
  <2>3. /\ core.documents = documents /\ core.slug_tombstones = slug_tombstones
        /\ core.blobs = blobs /\ core.keys = env.keys /\ core.issued = env.issued
        /\ core.status = 200 /\ core.job = purge
    BY DEF Fails, Store
  <2>4. RevokeDocumentCore(d) = core
    BY <1>4 DEF RevokeDocumentCore, Live
  <2> HIDE DEF core, purge
  <2>5. CoreOK(core)
    BY <1>0, <1>4, <2>1, <2>2, <2>3 DEF CoreOK
  <2> QED
    BY <2>4, <2>5
<1>3. CASE Live(documents[d])
  <2>1. /\ Emptied(documents[d]).slug = None /\ SoundRow(Emptied(documents[d]))
        /\ Emptied(documents[d]).life = "revoked"
    BY <1>1 DEF Emptied, SoundRow, DocumentRow, Live
  <2>2. docs \in [Docs -> DocumentRow] /\ docs[d] = Emptied(documents[d])
        /\ \A e \in Docs : e # d => docs[e] = documents[e]
    BY <2>1 DEF SoundStore, SoundRow
  <2>3. /\ DOMAIN slug_tombstones \subseteq DOMAIN tombs
        /\ DOMAIN tombs \subseteq Slugs /\ tombs \in [DOMAIN tombs -> Docs \union {None}]
        /\ \A e \in Docs : e # d => documents[e].slug \notin DOMAIN tombs
    BY TombstoneOK
  <2>4. blobs \subseteq Docs \X Nat
    BY DEF SoundStore
  <2> HIDE DEF docs, tombs
  <2>8. RowOn(documents[d], docs[d]) /\ Stored(d, docs[d], blobs)
    BY <2>1, <2>2 DEF RowOn, Stored, Live
  <2>5. CoreOK(Store(200, docs, tombs, blobs))
    BY <2>1, <2>2, <2>3, <2>4, <2>8, StoreOK, NoneApart, 200 \in Nat
  <2>6. Later("purge", None, d, None, None) \in Unsigned /\ Later("purge", None, d, None, None).doc = d
        /\ Later("purge", None, d, None, None).kind = "purge"
    BY DEF Later, Unsigned
  <2>7. CoreOK([Store(200, docs, tombs, blobs) EXCEPT !.job = Later("purge", None, d, None, None)])
    <3> DEFINE core == [Store(200, docs, tombs, blobs) EXCEPT !.job = Later("purge", None, d, None, None)]
    <3>1. /\ core.documents = docs /\ core.slug_tombstones = tombs /\ core.blobs = blobs
          /\ core.keys = env.keys /\ core.issued = env.issued /\ core.status = 200
          /\ core.job = Later("purge", None, d, None, None)
      BY DEF Store
    <3>2. /\ Store(200, docs, tombs, blobs).documents = docs /\ Store(200, docs, tombs, blobs).slug_tombstones = tombs
          /\ Store(200, docs, tombs, blobs).blobs = blobs /\ Store(200, docs, tombs, blobs).keys = env.keys
          /\ Store(200, docs, tombs, blobs).issued = env.issued /\ Store(200, docs, tombs, blobs).status = 200
      BY DEF Store
    <3> HIDE DEF core
    <3>3. CoreOK(core)
      BY <2>1, <2>2, <2>5, <2>6, <3>1, <3>2 DEF CoreOK
    <3> QED
      BY <3>3 DEF core
  <2> QED
    BY <1>3, <2>7 DEF RevokeDocumentCore, Live, docs, tombs
<1> QED
  BY <1>1, <1>2, <1>3, <1>4 DEF DocumentRow, Live

LEMMA KeysOK ==
  ASSUME SoundStore, NEW k \in Keys
  PROVE  /\ k \notin env.issued => CoreOK(MintAgentKeyCore(k))
         /\ CoreOK(RevokeKeyCore(k)) /\ CoreOK(RevokeAgentCore)
<1>1. CoreOK(Fails(200)) /\ CoreOK(Fails(201)) /\ CoreOK(Fails(404))
  BY FailsOK, 200 \in Nat, 201 \in Nat, 404 \in Nat
<1> QED
  BY <1>1 DEF CoreOK, Fails, Store, MintAgentKeyCore, RevokeKeyCore, RevokeAgentCore

----------------------------------------------------------------------------
\* The gates: who is let in speaks for the operator, or for a reader.

By(c) == [c |-> c, env |-> env]

LEMMA CookieIsHeld ==
  ASSUME SoundStore, SessionsInv, NEW c \in Credentials, Held(c), AuthenticateOperatorRequest(env, c) = "cookie"
  PROVE  HoldsSession(By(c))
<1>1. VerifySessionCookieValue(env, c.cookie)
  BY DEF AuthenticateOperatorRequest
<1>2. c.cookie # None /\ c.cookie.sig = <<env.token, env.epoch>> /\ env.now < c.cookie.exp
  BY <1>1 DEF VerifySessionCookieValue, DeriveSigningKey, IsValidPayload
<1>3. PICK l \in logins : c.cookie = l.session
  BY <1>2 DEF Held
<1>4. Minted(l)
  BY <1>3 DEF SessionsInv
<1> QED
  BY <1>2, <1>3, <1>4 DEF Minted, HoldsSession, By

LEMMA RequestKinds ==
  ASSUME NEW e, NEW c
  PROVE  /\ AuthenticateOperatorRequest(e, c) \in {"bearer", "cookie", "none"}
         /\ AuthenticateOperatorRequest(e, c) = "bearer" <=> AuthenticateOperator(e, c.bearer)
         /\ AuthenticateOperatorRequest(e, c) = "cookie" <=>
              ~AuthenticateOperator(e, c.bearer) /\ VerifySessionCookieValue(e, c.cookie)
BY DEF AuthenticateOperatorRequest

LEMMA OperatorGated ==
  ASSUME SoundStore, SessionsInv, NEW c \in Credentials, Held(c),
         RequireOperator(env, c, TRUE) \/ AuthorizeOperatorForm(env, c) \/ AuthorizeRevokeForm(env, c)
  PROVE  IsOperator(By(c))
<1>1. CASE AuthenticateOperatorRequest(env, c) = "bearer"
  BY <1>1, RequestKinds DEF AuthenticateOperator, OperatorToken, IsOperator, By
<1>2. CASE AuthenticateOperatorRequest(env, c) = "cookie" /\ CsrfMatches(c.csrf, c.cookie.csrf)
  BY <1>2, CookieIsHeld DEF CsrfMatches, IsOperator, By
<1>3. CASE AuthenticateOperator(env, OperatorToken(c.operator_token))
  BY <1>3 DEF AuthenticateOperator, OperatorToken, IsOperator, By
<1> QED
  BY <1>1, <1>2, <1>3 DEF RequireOperator, AuthorizeOperatorForm, AuthorizeRevokeForm

LEMMA ReaderGated ==
  ASSUME SoundStore, SessionsInv, NEW c \in Credentials, Held(c),
         RequireReader(env, c) \/ AuthenticateAgent(env, c.bearer)
  PROVE  IsOperator(By(c)) \/ IsReader(By(c))
<1>1. CASE AuthenticateOperatorRequest(env, c) = "bearer"
  BY <1>1, RequestKinds DEF AuthenticateOperator, OperatorToken, IsOperator, By
<1>2. CASE AuthenticateOperatorRequest(env, c) = "cookie"
  BY <1>2, CookieIsHeld DEF IsReader
<1>3. CASE AuthenticateAgent(env, c.bearer)
  BY <1>3 DEF AuthenticateAgent, AgentKey, IsReader, By
<1> QED
  BY <1>1, <1>2, <1>3, RequestKinds DEF RequireReader, ResolvePrincipal

----------------------------------------------------------------------------
\* What a reader's core leaves.

\* LeavesDoorsAlone, of what a core leaves instead of the next state.
RowAlone(old, new) ==
  IF old.life = "none"
    THEN new.life = "none" \/ new.visibility = scene.default_visibility
    ELSE /\ new.life = old.life /\ new.visibility = old.visibility
         /\ new.published_ver = old.published_ver
         /\ old.visibility = "public" => new.slug = old.slug
Gentle(core) ==
  /\ \A d \in Docs : RowAlone(documents[d], core.documents[d])
  /\ \A s \in DOMAIN slug_tombstones :
       s \in DOMAIN core.slug_tombstones /\ core.slug_tombstones[s] = slug_tombstones[s]
  /\ core.keys = env.keys
  /\ core.job = job \/ core.job.kind = "status"

LEMMA StillIsGentle ==
  ASSUME SoundStore, NEW core, core.documents = documents, core.slug_tombstones = slug_tombstones,
         core.keys = env.keys, core.job = job \/ core.job.kind = "status"
  PROVE  Gentle(core)
BY DEF Gentle, RowAlone

LEMMA GentleStatus ==
  ASSUME SoundStore, NEW d, NEW status, NEW by
  PROVE  Gentle(SetDocumentStatusCore(d, status, by))
<1> DEFINE core == SetDocumentStatusCore(d, status, by)
           to == IF status = "deprecated" THEN by ELSE None
<1>1. core = Fails(422) \/ core = [Fails(Pending) EXCEPT !.job = Later("status", None, d, status, to)]
  BY DEF SetDocumentStatusCore
<1>2. /\ core.documents = documents /\ core.slug_tombstones = slug_tombstones /\ core.keys = env.keys
      /\ core.job = job \/ core.job.kind = "status"
  BY <1>1 DEF Fails, Store, Later
<1> HIDE DEF core
<1>3. Gentle(core)
  BY <1>2, StillIsGentle
<1> QED
  BY <1>3 DEF core

LEMMA GentleFails == ASSUME SoundStore, NEW n PROVE Gentle(Fails(n))
BY StillIsGentle DEF Fails, Store

LEMMA TombsGrow ==
  ASSUME NEW slug, NEW to, NEW s \in DOMAIN slug_tombstones
  PROVE  s \in DOMAIN TombstoneSlug(slug, to) /\ TombstoneSlug(slug, to)[s] = slug_tombstones[s]
BY DEF TombstoneSlug

LEMMA GentlePublish ==
  ASSUME SoundStore, NEW d \in Docs, NEW s \in Slugs \union {None}, documents[d].life = "none"
  PROVE  Gentle(PublishDocumentCore(d, scene.default_visibility, s))
<1> DEFINE v == scene.default_visibility
           new == [Vacant EXCEPT !.life = "live", !.visibility = v, !.current_ver = 1, !.slug = s,
                                 !.published_ver = IF v = "public" THEN 1 ELSE 0]
           docs == [documents EXCEPT ![d] = new]
           bytes == blobs \union {<<d, 1>>}
<1>1. CASE SlugRefused(s, d)
  BY <1>1, GentleFails DEF PublishDocumentCore
<1>2. CASE ~SlugRefused(s, d)
  <2>1. new.visibility = v
    BY DEF Vacant
  <2> HIDE DEF new
  <2>2. docs[d] = new /\ \A e \in Docs : e # d => docs[e] = documents[e]
    BY DEF SoundStore
  <2> HIDE DEF docs, bytes
  <2>3. Gentle(Store(201, docs, slug_tombstones, bytes))
    BY <2>1, <2>2 DEF Gentle, RowAlone, Store
  <2> QED
    BY <1>2, <2>3 DEF PublishDocumentCore, docs, bytes, new
<1> QED
  BY <1>1, <1>2

LEMMA GentleUpdate ==
  ASSUME SoundStore, NEW d \in Docs, NEW n, NEW s
  PROVE  Gentle(UpdateDocumentCore(d, n, s, "agent"))
<1> DEFINE row == documents[d]
           target == IF s = Keep THEN row.slug ELSE s
           docs == [documents EXCEPT ![d].current_ver = row.current_ver + 1, ![d].slug = target]
           bytes == blobs \union {<<d, row.current_ver + 1>>}
           to == IF target = None THEN None ELSE d
           tombs == IF target = row.slug THEN slug_tombstones ELSE TombstoneSlug(row.slug, to)
           core == UpdateDocumentCore(d, n, s, "agent")
<1>1. \/ core \in {Fails(404), Fails(412), Fails(403), Fails(409)}
      \/ Live(row) /\ ~(row.visibility = "public" /\ target # row.slug) /\ core = Store(200, docs, tombs, bytes)
  <2>1. CASE ~Live(row)
    BY <2>1 DEF UpdateDocumentCore
  <2>2. CASE Live(row) /\ n \notin {0, row.current_ver}
    BY <2>2 DEF UpdateDocumentCore
  <2>3. CASE Live(row) /\ n \in {0, row.current_ver}
    <3>1. CASE row.visibility = "public" /\ target # row.slug
      BY <2>3, <3>1, NamesHold DEF UpdateDocumentCore, DocumentRow
    <3>2. CASE ~(row.visibility = "public" /\ target # row.slug)
      BY <2>3, <3>2 DEF UpdateDocumentCore
    <3> QED
      BY <3>1, <3>2
  <2> QED
    BY <2>1, <2>2, <2>3
<1> HIDE DEF core
<1>2. CASE core \in {Fails(404), Fails(412), Fails(403), Fails(409)}
  BY <1>2, GentleFails DEF core
<1>3. CASE /\ Live(row) /\ ~(row.visibility = "public" /\ target # row.slug)
           /\ core = Store(200, docs, tombs, bytes)
  <2> HIDE DEF target, to
  <2>1. docs[d] = [row EXCEPT !.current_ver = row.current_ver + 1, !.slug = target]
        /\ \A e \in Docs : e # d => docs[e] = documents[e]
    BY DEF SoundStore
  <2>6. row \in DocumentRow
    BY NamesHold
  <2>7. /\ docs[d].life = row.life /\ docs[d].visibility = row.visibility
        /\ docs[d].published_ver = row.published_ver /\ docs[d].slug = target
    <3> HIDE DEF docs, row
    <3> QED
      BY <2>1, <2>6 DEF DocumentRow
  <2>2. RowAlone(row, docs[d])
    <3> HIDE DEF docs, row
    <3> QED
      BY <1>3, <2>7 DEF RowAlone, Live
  <2>3. \A s_1 \in DOMAIN slug_tombstones : s_1 \in DOMAIN tombs /\ tombs[s_1] = slug_tombstones[s_1]
    BY TombsGrow
  <2>4. \A e \in Docs : RowAlone(documents[e], docs[e])
    BY <2>1, <2>2 DEF RowAlone
  <2> HIDE DEF docs, tombs, bytes
  <2>5. Gentle(Store(200, docs, tombs, bytes))
    BY <2>3, <2>4 DEF Gentle, Store
  <2> QED
    BY <1>3, <2>5 DEF core
<1> QED
  BY <1>1, <1>2, <1>3 DEF core

----------------------------------------------------------------------------
\* Every handler commits one sound core for the operator, or one that leaves
\* the doors alone for a reader; or it changes nothing.

Allowed(c, core) == IsOperator(By(c)) \/ (IsReader(By(c)) /\ Gentle(core))
Handled(c) == Deny \/ \E core : CoreOK(core) /\ Commit(c, core) /\ Allowed(c, core)

LEMMA JsonHandled ==
  ASSUME SoundStore, SessionsInv, NEW c \in Credentials, Held(c), NEW core, CoreOK(core), JsonDoor(c, core)
  PROVE  Handled(c)
BY OperatorGated DEF JsonDoor, Handled, Allowed

LEMMA FormHandled ==
  ASSUME SoundStore, SessionsInv, NEW c \in Credentials, Held(c), NEW core, CoreOK(core), FormDoor(c, core)
  PROVE  Handled(c)
BY OperatorGated DEF FormDoor, Handled, Allowed

LEMMA ReaderHandled ==
  ASSUME SoundStore, SessionsInv, NEW c \in Credentials, Held(c), NEW core, CoreOK(core), Gentle(core),
         CurateDoor(c, core) \/ AgentDoor(c, core)
  PROVE  Handled(c)
BY ReaderGated DEF CurateDoor, AgentDoor, Handled, Allowed

LEMMA ChangeHandled ==
  ASSUME SoundStore, SessionsInv, NEW c \in Credentials, Held(c), Change(c)
  PROVE  Handled(c)
<1>1. ASSUME NEW d \in Docs, NEW v \in {"public", "private"},
             SetDocumentVisibility(c, d, v) \/ HandleVisibilityForm(c, d, v)
      PROVE  Handled(c)
  BY <1>1, VisibilityOK, JsonHandled, FormHandled DEF SetDocumentVisibility, HandleVisibilityForm
<1>2. ASSUME NEW d \in Docs, NEW n \in Numbers,
             PromoteDocumentVersion(c, d, n) \/ HandlePromoteForm(c, d, n)
      PROVE  Handled(c)
  <2>1. n \in Nat
    BY DEF Numbers
  <2> QED
    BY <1>2, <2>1, PromoteOK, JsonHandled, FormHandled DEF PromoteDocumentVersion, HandlePromoteForm
<1>3. ASSUME NEW d \in Docs, NEW n \in Numbers,
             RestoreDocumentVersion(c, d, n) \/ HandleRestoreForm(c, d, n)
      PROVE  Handled(c)
  <2>1. n \in Nat
    BY DEF Numbers
  <2> QED
    BY <1>3, <2>1, RestoreOK, JsonHandled, FormHandled DEF RestoreDocumentVersion, HandleRestoreForm
<1>4. ASSUME NEW d \in Docs, NEW s \in Names, SetDocumentSlug(c, d, s) \/ HandleSlugForm(c, d, s)
      PROVE  Handled(c)
  BY <1>4, SlugOK, JsonHandled, FormHandled DEF SetDocumentSlug, HandleSlugForm, Names
<1>5. ASSUME NEW d \in Docs, NEW s \in Names, CreateDocument(c, d, s)
      PROVE  Handled(c)
  <2>1. documents[d].life = "none" /\ AgentDoor(c, PublishDocumentCore(d, scene.default_visibility, s))
    BY <1>5 DEF CreateDocument
  <2>2. CoreOK(PublishDocumentCore(d, scene.default_visibility, s))
    BY <2>1, PublishOK DEF Names, SessionsInv, SoundScene
  <2>3. Gentle(PublishDocumentCore(d, scene.default_visibility, s))
    BY <2>1, GentlePublish DEF Names
  <2> QED
    BY <2>1, <2>2, <2>3, ReaderHandled
<1>6. ASSUME NEW d \in Docs, NEW status \in {"active", "deprecated"}, NEW by \in Docs \union {None},
             SetDocumentStatus(c, d, status, by) \/ HandleStatusForm(c, d, status, by)
               \/ CurateDocumentStatus(c, d, status, by)
      PROVE  Handled(c)
  BY <1>6, StatusOK, GentleStatus, JsonHandled, FormHandled, ReaderHandled
     DEF SetDocumentStatus, HandleStatusForm, CurateDocumentStatus
<1>7. ASSUME NEW d \in Docs, NEW v \in {"public", "private"}, NEW s \in Names,
             CreateDocumentAsOperator(c, d, v, s)
      PROVE  Handled(c)
  BY <1>7, PublishOK, JsonHandled DEF CreateDocumentAsOperator, Names
<1>8. ASSUME NEW d \in Docs, NEW n \in Numbers \union {0}, NEW s \in Names \union {Keep}, UpdateDocument(c, d, n, s)
      PROVE  Handled(c)
  <2>1. n \in Nat /\ s \in Slugs \union {None, Keep}
    BY DEF Numbers, Names
  <2>2. CoreOK(UpdateDocumentCore(d, n, s, "agent"))
    BY <2>1, UpdateOK
  <2>3. Gentle(UpdateDocumentCore(d, n, s, "agent"))
    BY GentleUpdate
  <2> QED
    BY <1>8, <2>2, <2>3, ReaderHandled DEF UpdateDocument
<1>9. ASSUME NEW d \in Docs, NEW n \in Numbers \union {0}, NEW s \in Names \union {Keep},
             UpdateDocumentAsOperator(c, d, n, s)
      PROVE  Handled(c)
  <2>1. n \in Nat /\ s \in Slugs \union {None, Keep}
    BY DEF Numbers, Names
  <2>2. CoreOK(UpdateDocumentCore(d, n, s, "operator"))
    BY <2>1, UpdateOK
  <2> QED
    BY <1>9, <2>2, JsonHandled DEF UpdateDocumentAsOperator
<1>10. ASSUME NEW d \in Docs, RevokeDocument(c, d) \/ HandleRevokeForm(c, d)
       PROVE  Handled(c)
  <2>1. CoreOK(RevokeDocumentCore(d))
    BY RevokeOK
  <2>2. CASE RevokeDocument(c, d)
    BY <2>1, <2>2, JsonHandled DEF RevokeDocument
  <2>3. CASE HandleRevokeForm(c, d)
    BY <2>1, <2>3, OperatorGated DEF HandleRevokeForm, Handled, Allowed
  <2> QED
    BY <1>10, <2>2, <2>3
<1>11. ASSUME NEW s \in Slugs, NEW d \in Docs, SetSlugRedirect(c, s, d)
       PROVE  Handled(c)
  BY <1>11, RedirectOK, JsonHandled DEF SetSlugRedirect
<1>12. ASSUME NEW s \in Slugs, ClearSlugRedirect(c, s) \/ ReleaseSlugTombstone(c, s)
       PROVE  Handled(c)
  BY <1>12, ClearOK, JsonHandled DEF ClearSlugRedirect, ReleaseSlugTombstone
<1>13. ASSUME NEW k \in Keys, \/ MintAgentKey(c, k) \/ HandleConsoleMintKey(c, k)
                              \/ RevokeKey(c, k) \/ HandleConsoleRevokeKey(c, k)
       PROVE  Handled(c)
  BY <1>13, KeysOK, JsonHandled, FormHandled
     DEF MintAgentKey, HandleConsoleMintKey, RevokeKey, HandleConsoleRevokeKey
<1>14. CASE RevokeAgent(c) \/ HandleConsoleRevokeAgent(c)
  <2>1. CoreOK(RevokeAgentCore)
    <3>1. CoreOK(Fails(200))
      BY FailsOK, 200 \in Nat
    <3> QED
      BY <3>1 DEF CoreOK, Fails, Store, RevokeAgentCore
  <2> QED
    BY <1>14, <2>1, JsonHandled, FormHandled DEF RevokeAgent, HandleConsoleRevokeAgent
<1> QED
  BY <1>1, <1>2, <1>3, <1>4, <1>5, <1>6, <1>7, <1>8, <1>9, <1>10, <1>11, <1>12, <1>13, <1>14 DEF Change

----------------------------------------------------------------------------
\* The store, the bindings and the sessions, as every step moves them.

World == SoundStore /\ SessionsInv /\ JobInv
Evolves ==
  /\ \A d \in Docs : RowOn(documents[d], documents'[d])
  /\ documents' = documents \/ DOMAIN slug_tombstones \subseteq DOMAIN slug_tombstones'
  /\ env.token <= env'.token /\ env.epoch <= env'.epoch /\ env.now <= env'.now
  /\ env'.keys \intersect env.issued \subseteq env.keys /\ env.issued \subseteq env'.issued
  /\ logins \subseteq logins'

\* The two halves of OnlyTheOperatorActs.
ChangesAreAllowed ==
  <<documents, slug_tombstones, env.keys>>' # <<documents, slug_tombstones, env.keys>> =>
    acted' # None /\ (IsOperator(acted') \/ (IsReader(acted') /\ LeavesDoorsAlone))
LogoutsAreAllowed ==
  jar # None /\ jar' = None /\ HoldsSession([c |-> [Anonymous EXCEPT !.cookie = jar], env |-> env]) =>
    IsOperator(acted')
OnlyTheOperator == ChangesAreAllowed /\ LogoutsAreAllowed

LEMMA ByIsAuthority ==
  ASSUME SoundStore, NEW c \in Credentials
  PROVE  By(c) \in Authority /\ By(c) # None
BY ToolsAssumption DEF ToolsAssumption, By, Authority, SoundStore

LEMMA CommitWorld ==
  ASSUME World, NEW c \in Credentials, NEW core, CoreOK(core), Commit(c, core), Allowed(c, core)
  PROVE  World' /\ Evolves /\ OnlyTheOperator
<1> USE DEF World
<1>1. /\ documents' = core.documents /\ slug_tombstones' = core.slug_tombstones /\ blobs' = core.blobs
      /\ env' = [env EXCEPT !.keys = core.keys, !.issued = core.issued]
      /\ logins' = logins /\ jar' = jar /\ page' = page /\ scene' = scene
      /\ left' = left \/ (left' = [left EXCEPT !.writes = @ - 1])
      /\ core.status < 300 => acted' = By(c)
      /\ core.job = job \/ job = None
      /\ job' = IF core.job = job THEN job ELSE [core.job EXCEPT !.by = By(c)]
  BY DEF Commit, browser, By
<1>2. env' \in Env /\ env'.token = env.token /\ env'.epoch = env.epoch /\ env'.now = env.now
      /\ env'.keys = core.keys /\ env'.issued = core.issued
  BY <1>1 DEF SoundStore, Env, CoreOK
<1>3. job' \in Job \union {None}
  <2>1. CASE core.job = job
    BY <1>1, <2>1 DEF SoundStore
  <2>2. CASE core.job # job
    <3>1. core.job \in Unsigned
      BY <2>2 DEF CoreOK
    <3> QED
      BY <1>1, <2>2, <3>1, ByIsAuthority DEF Unsigned, Job
  <2> QED
    BY <2>1, <2>2
<1>4. SoundStore'
  BY <1>1, <1>2, <1>3 DEF SoundStore, CoreOK, Stored
<1>5. SessionsInv'
  <2>1. left' \in Left
    BY <1>1 DEF SessionsInv, Left
  <2> QED
    BY <1>1, <1>2, <2>1 DEF SessionsInv, SoundScene, Minted
<1>6. JobInv'
  <2>1. CASE core.job = job
    <3>1. job' = job
      BY <1>1, <2>1
    <3>2. job # None => job.doc \in Docs
      BY DEF SoundStore, Job
    <3> QED
      BY <1>1, <3>1, <3>2 DEF JobInv, IsOperator, IsReader, HoldsSession, CoreOK, RowOn
  <2>2. CASE core.job # job
    <3>1. /\ core.job \in Unsigned /\ core.status < 300
          /\ core.job.kind = "purge" => core.documents[core.job.doc].life = "revoked"
          /\ core.job.kind = "status" => core.job.status \in {"active", "deprecated"}
      BY <2>2 DEF CoreOK
    <3>2. /\ job'.by = By(c) /\ job'.kind = core.job.kind /\ job'.doc = core.job.doc
          /\ job'.status = core.job.status
      BY <1>1, <2>2, <3>1 DEF Unsigned
    <3>3. IsOperator(By(c)) \/ (IsReader(By(c)) /\ core.job.kind = "status")
      BY <2>2 DEF Allowed, Gentle
    <3>4. IsOperator(By(c)) => IsOperator(job.by)'
      BY <1>1, <3>2 DEF IsOperator, HoldsSession
    <3>5. IsReader(By(c)) => IsReader(job.by)'
      BY <1>1, <3>2 DEF IsReader, HoldsSession
    <3> QED
      BY <1>1, <3>1, <3>2, <3>3, <3>4, <3>5 DEF JobInv
  <2> QED
    BY <2>1, <2>2
<1>7. Evolves
  BY <1>1, <1>2 DEF Evolves, CoreOK, SoundStore, Env
<1>8. OnlyTheOperator
  <2>1. core.status < 300 => By(c) # None /\ acted' = By(c)
    BY <1>1, ByIsAuthority
  <2>2. ChangesAreAllowed
    <3>1. CASE core.status < 300
      <4>1. Gentle(core) => LeavesDoorsAlone
        BY <1>1, <1>2 DEF Gentle, RowAlone, LeavesDoorsAlone
      <4> QED
        BY <2>1, <3>1, <4>1 DEF ChangesAreAllowed, Allowed
    <3>2. CASE ~(core.status < 300)
      BY <1>1, <1>2, <3>2 DEF CoreOK, ChangesAreAllowed
    <3> QED
      BY <3>1, <3>2
  <2>3. LogoutsAreAllowed
    BY <1>1 DEF LogoutsAreAllowed
  <2> QED
    BY <2>2, <2>3 DEF OnlyTheOperator
<1> QED
  BY <1>4, <1>5, <1>6, <1>7, <1>8

\* A step that leaves the tables, the bindings and the sessions as they are.
LEMMA StillWorld ==
  ASSUME World, UNCHANGED <<documents, slug_tombstones, blobs, env, job, logins, jar, scene>>,
         page' \in Int, left' \in Left
  PROVE  World' /\ Evolves /\ OnlyTheOperator
<1>1. World'
  BY DEF World, SoundStore, SessionsInv, JobInv, IsOperator, IsReader, HoldsSession, Stored, Minted
<1>2. Evolves
  BY DEF World, SoundStore, Evolves, RowOn, Env, DocumentRow
<1>3. OnlyTheOperator
  BY DEF OnlyTheOperator, ChangesAreAllowed, LogoutsAreAllowed
<1> QED
  BY <1>1, <1>2, <1>3

LEMMA LeftMoves ==
  ASSUME SessionsInv
  PROVE  /\ [left EXCEPT !.reads = @ - 1] \in Left /\ [left EXCEPT !.logins = @ - 1] \in Left
         /\ [left EXCEPT !.deploys = @ - 1] \in Left /\ [left EXCEPT !.ticks = @ - 1] \in Left
         /\ left \in Left
BY DEF SessionsInv, Left

LEMMA ChangeWorld ==
  ASSUME World, NEW c \in Writers, Change(c)
  PROVE  World' /\ Evolves /\ OnlyTheOperator
<1>1. c \in Credentials /\ Held(c)
  BY WritersTyped DEF World
<1>2. Handled(c)
  BY <1>1, ChangeHandled DEF World
<1>3. CASE Deny
  BY <1>3, StillWorld, LeftMoves DEF Deny, browser, World, SoundStore
<1> QED
  BY <1>1, <1>2, <1>3, CommitWorld DEF Handled

LEMMA FinishWorld ==
  ASSUME World, FinishJob
  PROVE  World' /\ Evolves /\ OnlyTheOperator
<1>0. job # None /\ job \in Job /\ job.doc \in Docs /\ job.by \in Authority /\ job.by # None
  BY ToolsAssumption DEF ToolsAssumption, FinishJob, World, SoundStore, Job
<1>1. /\ job' = None /\ env' = env /\ logins' = logins /\ jar' = jar /\ page' = page
      /\ scene' = scene /\ left' = left
  BY DEF FinishJob, browser
<1>2. JobInv'
  BY <1>1 DEF JobInv
<1>3. SessionsInv'
  BY <1>1 DEF World, SessionsInv, Minted
<1>4. LogoutsAreAllowed
  BY <1>1 DEF LogoutsAreAllowed
<1>5. /\ env \in Env /\ jar \in Session \union {None} /\ page \in Int /\ blobs \subseteq Docs \X Nat
      /\ documents \in [Docs -> DocumentRow]
  BY DEF World, SoundStore
<1>6. CASE job.kind = "status"
  <2> DEFINE d == job.doc
             new == [documents[d] EXCEPT !.status = job.status, !.superseded_by = job.target]
  <2>0. slug_tombstones' = slug_tombstones /\ blobs' = blobs
    BY <1>6 DEF FinishJob
  <2>1. documents[d] \in DocumentRow /\ SoundRow(documents[d]) /\ job.target \in Docs \union {None}
        /\ job.status \in {"active", "deprecated"}
    BY <1>0, <1>6, NamesHold DEF World, JobInv, Job
  <2>2. /\ new \in DocumentRow /\ new.life = documents[d].life /\ new.visibility = documents[d].visibility
        /\ new.published_ver = documents[d].published_ver /\ new.slug = documents[d].slug
        /\ new.current_ver = documents[d].current_ver
    BY <2>1 DEF DocumentRow
  <2>3. SoundRow(new)
    BY <2>1, <2>2 DEF SoundRow, Live
  <2>4. \/ documents' = documents
        \/ documents' = [documents EXCEPT ![d] = new] /\ acted' = job.by
    BY <1>0, <1>5, <1>6 DEF FinishJob
  <2> HIDE DEF new, d
  <2>5. CASE documents' = documents
    <3>1. SoundStore'
      BY <1>1, <2>0, <2>5 DEF World, SoundStore
    <3>2. Evolves
      BY <1>1, <1>5, <2>5 DEF Evolves, RowOn, Env, DocumentRow
    <3>3. ChangesAreAllowed
      BY <1>1, <2>0, <2>5 DEF ChangesAreAllowed
    <3> QED
      BY <1>2, <1>3, <1>4, <3>1, <3>2, <3>3 DEF World, OnlyTheOperator
  <2>6. CASE documents' = [documents EXCEPT ![d] = new] /\ acted' = job.by
    <3>1. /\ documents' \in [Docs -> DocumentRow] /\ documents'[d] = new
          /\ \A e \in Docs : e # d => documents'[e] = documents[e]
      BY <1>0, <1>5, <2>2, <2>6 DEF d
    <3>2. \A e \in Docs : SoundRow(documents'[e]) /\ documents'[e].slug = documents[e].slug
                          /\ documents'[e].life = documents[e].life
                          /\ documents'[e].current_ver = documents[e].current_ver
      BY <2>2, <2>3, <3>1 DEF World, SoundStore
    <3>3. SoundNames(documents, slug_tombstones)'
      BY <2>0, <3>2 DEF World, SoundStore, SoundNames
    <3>4. \A e \in Docs : Live(documents'[e]) => \A n \in 1..documents'[e].current_ver : <<e, n>> \in blobs
      BY <3>2 DEF World, SoundStore, Live
    <3>5. SoundStore'
      BY <1>1, <1>5, <2>0, <3>1, <3>2, <3>3, <3>4 DEF SoundStore
    <3>6. Evolves
      BY <1>1, <1>5, <2>0, <3>2 DEF Evolves, RowOn, Env, Live, DocumentRow
    <3>7. LeavesDoorsAlone
      BY <1>1, <2>0, <2>2, <3>1 DEF LeavesDoorsAlone
    <3>8. IsOperator(acted') \/ IsReader(acted')
      BY <1>0, <2>6 DEF World, JobInv
    <3>9. ChangesAreAllowed
      BY <1>0, <2>6, <3>7, <3>8 DEF ChangesAreAllowed
    <3> QED
      BY <1>2, <1>3, <1>4, <3>5, <3>6, <3>9 DEF World, OnlyTheOperator
  <2> QED
    BY <2>4, <2>5, <2>6
<1>7. ASSUME job.kind # "status", documents' = documents, acted' = job.by,
             DOMAIN slug_tombstones' = DOMAIN slug_tombstones,
             slug_tombstones' \in [DOMAIN slug_tombstones -> Docs \union {None}],
             blobs' \subseteq blobs,
             \A d \in Docs : Live(documents[d]) => \A n \in Nat : <<d, n>> \in blobs => <<d, n>> \in blobs'
      PROVE  World' /\ Evolves /\ OnlyTheOperator
  <2>1. SoundNames(documents, slug_tombstones)'
    BY <1>7 DEF World, SoundStore, SoundNames
  <2>2. \A d \in Docs : Live(documents[d]) => \A n \in 1..documents[d].current_ver : <<d, n>> \in blobs'
    BY <1>5, <1>7 DEF World, SoundStore, DocumentRow
  <2>3. SoundStore'
    BY <1>1, <1>5, <1>7, <2>1, <2>2 DEF World, SoundStore
  <2>4. Evolves
    BY <1>1, <1>5, <1>7 DEF Evolves, RowOn, Env, DocumentRow
  <2>5. IsOperator(acted')
    BY <1>0, <1>7 DEF World, JobInv
  <2>6. ChangesAreAllowed
    BY <1>0, <1>7, <2>5 DEF ChangesAreAllowed
  <2> QED
    BY <1>2, <1>3, <1>4, <2>3, <2>4, <2>6 DEF World, OnlyTheOperator
<1>8. CASE job.kind = "redirect"
  <2>1. /\ documents' = documents /\ acted' = job.by /\ blobs' = blobs
        /\ slug_tombstones' = [s \in DOMAIN slug_tombstones |->
                                 IF s = job.slug THEN job.doc ELSE slug_tombstones[s]]
    BY <1>8 DEF FinishJob
  <2>2. slug_tombstones \in [DOMAIN slug_tombstones -> Docs \union {None}]
    BY DEF World, SoundStore, SoundNames
  <2> QED
    BY <1>0, <1>7, <1>8, <2>1, <2>2
<1>9. CASE job.kind = "purge"
  <2>1. /\ documents' = documents /\ acted' = job.by /\ blobs' = {b \in blobs : b[1] # job.doc}
        /\ slug_tombstones' = slug_tombstones
    BY <1>9 DEF FinishJob
  <2>2. slug_tombstones \in [DOMAIN slug_tombstones -> Docs \union {None}]
    BY DEF World, SoundStore, SoundNames
  <2>3. ~Live(documents[job.doc])
    BY <1>0, <1>9 DEF World, JobInv, Live
  <2>4. blobs' \subseteq blobs
    BY <2>1
  <2>5. \A d \in Docs : Live(documents[d]) => \A n \in Nat : <<d, n>> \in blobs => <<d, n>> \in blobs'
    BY <2>1, <2>3
  <2> QED
    BY <1>7, <1>9, <2>1, <2>2, <2>4, <2>5
<1> QED
  BY <1>0, <1>6, <1>8, <1>9 DEF Job

LEMMA LoginWorld ==
  ASSUME World, NEW token \in Nat, PostLogin(token)
  PROVE  World' /\ Evolves /\ OnlyTheOperator
<1>1. /\ UNCHANGED <<documents, slug_tombstones, blobs, env, job, page, scene>>
      /\ left' = [left EXCEPT !.logins = @ - 1]
  BY DEF PostLogin
<1>2. left' \in Left
  BY <1>1, LeftMoves DEF World
<1>3. env \in Env /\ page \in Int
  BY DEF World, SoundStore
<1>4. CASE UNCHANGED <<logins, jar>>
  BY <1>1, <1>2, <1>3, <1>4, StillWorld
<1>5. ASSUME NEW nonce \in Int,
             logins' = logins \union {[session |-> MintSessionCookieValue(env, nonce), token |-> env.token,
                                       epoch |-> env.epoch, at |-> env.now]},
             jar' = MintSessionCookieValue(env, nonce)
      PROVE  World' /\ Evolves /\ OnlyTheOperator
  <2> DEFINE session == MintSessionCookieValue(env, nonce)
             l == [session |-> session, token |-> env.token, epoch |-> env.epoch, at |-> env.now]
  <2>1. session \in Session /\ session # None
    BY <1>3, SessionsAssumption DEF SessionsAssumption, MintSessionCookieValue, Session, DeriveSigningKey, Env
  <2>2. Minted(l) /\ l.token = env.token /\ l.epoch = env.epoch /\ l.session = session
    BY <1>3, <2>1 DEF Minted, MintSessionCookieValue, DeriveSigningKey, Env
  <2> HIDE DEF session, l
  <2>3. logins' = logins \union {l} /\ jar' = session
    BY <1>5 DEF l, session
  <2>4. SessionsInv'
    BY <1>1, <1>2, <1>3, <2>2, <2>3 DEF World, SessionsInv, Minted, Env
  <2>5. SoundStore'
    BY <1>1, <2>1, <2>3 DEF World, SoundStore
  <2>6. JobInv'
    BY <1>1, <2>3 DEF World, JobInv, IsOperator, IsReader, HoldsSession
  <2>7. Evolves
    BY <1>1, <1>3, <2>3 DEF World, SoundStore, Evolves, RowOn, Env, DocumentRow
  <2>8. OnlyTheOperator
    BY <1>1, <2>1, <2>3 DEF OnlyTheOperator, ChangesAreAllowed, LogoutsAreAllowed
  <2> QED
    BY <2>4, <2>5, <2>6, <2>7, <2>8 DEF World
<1>6. 1 + scene.left.logins - left.logins \in Int
  BY DEF World, SessionsInv, SoundScene, Left
<1> QED
  BY <1>4, <1>5, <1>6 DEF PostLogin

LEMMA LogoutWorld ==
  ASSUME World, NEW c \in {Browser, Elsewhere}, PostLogout(c)
  PROVE  World' /\ Evolves /\ OnlyTheOperator
<1>1. /\ UNCHANGED <<documents, slug_tombstones, blobs, env, job, logins, page, scene, left>>
      /\ jar' = jar \/ (jar' = None /\ acted' = By(c))
      /\ AuthenticateOperatorRequest(env, c) = "cookie" /\ ~CsrfMatches(c.csrf, c.cookie.csrf) => jar' = jar
  BY DEF PostLogout, By
<1>2. World'
  BY <1>1 DEF World, SoundStore, SessionsInv, JobInv, IsOperator, IsReader, HoldsSession, Stored, Minted
<1>3. Evolves
  BY <1>1 DEF World, SoundStore, Evolves, RowOn, Env, DocumentRow
<1>4. ChangesAreAllowed
  BY <1>1 DEF ChangesAreAllowed
<1>5. LogoutsAreAllowed
  <2> SUFFICES ASSUME jar # None, jar' = None, HoldsSession([c |-> [Anonymous EXCEPT !.cookie = jar], env |-> env])
               PROVE  IsOperator(acted')
    BY DEF LogoutsAreAllowed
  <2>1. c.cookie = jar /\ acted' = By(c)
    BY <1>1 DEF Browser, Elsewhere, Anonymous
  <2>2. PICK l \in logins : /\ jar = l.session /\ <<l.token, l.epoch>> = <<env.token, env.epoch>>
                            /\ env.now < l.at + TTL
    BY DEF HoldsSession, Anonymous
  <2>3. Minted(l)
    BY <2>2 DEF World, SessionsInv
  <2>4. VerifySessionCookieValue(env, c.cookie)
    BY <2>1, <2>2, <2>3, SessionsAssumption
       DEF Minted, VerifySessionCookieValue, DeriveSigningKey, IsValidPayload, SessionsAssumption
  <2>5. CASE AuthenticateOperatorRequest(env, c) = "bearer"
    BY <2>1, <2>5, RequestKinds DEF AuthenticateOperator, OperatorToken, IsOperator, By
  <2>6. CASE AuthenticateOperatorRequest(env, c) = "cookie"
    <3>1. CsrfMatches(c.csrf, c.cookie.csrf)
      BY <1>1, <2>6
    <3>2. HoldsSession(By(c))
      BY <2>1, <2>2 DEF HoldsSession, By
    <3> QED
      BY <2>1, <3>1, <3>2 DEF CsrfMatches, IsOperator, By
  <2> QED
    BY <2>4, <2>5, <2>6, RequestKinds
<1> QED
  BY <1>2, <1>3, <1>4, <1>5 DEF OnlyTheOperator

LEMMA PageWorld ==
  ASSUME World, ServePage
  PROVE  World' /\ Evolves /\ OnlyTheOperator
<1>1. page' \in Int
  BY RequestKinds DEF ServePage, World, SoundStore, Session, Anonymous, VerifySessionCookieValue
<1> QED
  BY <1>1, StillWorld, LeftMoves DEF ServePage, World

LEMMA DeployWorld ==
  ASSUME World, Rotate(env.token + 1, env.epoch) \/ Rotate(env.token, env.epoch + 1) \/ Tick
  PROVE  World' /\ Evolves /\ OnlyTheOperator
<1>1. /\ UNCHANGED <<documents, slug_tombstones, blobs, job, logins, jar, page, scene>>
      /\ \/ left' = [left EXCEPT !.deploys = @ - 1]
         \/ left' = [left EXCEPT !.ticks = @ - 1]
      /\ \/ env' = [env EXCEPT !.token = env.token + 1, !.epoch = env.epoch]
         \/ env' = [env EXCEPT !.token = env.token, !.epoch = env.epoch + 1]
         \/ env' = [env EXCEPT !.now = env.now + 1]
  BY DEF Rotate, Tick, browser
<1>2. left' \in Left
  BY <1>1, LeftMoves DEF World
<1>3. /\ env' \in Env /\ env'.keys = env.keys /\ env'.issued = env.issued
      /\ env.token <= env'.token /\ env.epoch <= env'.epoch /\ env.now <= env'.now
  <2>0. env \in Env
    BY DEF World, SoundStore
  <2>4. env.token \in Nat /\ env.epoch \in Nat
    BY <2>0 DEF Env
  <2>5. ASSUME NEW t \in Nat, NEW e \in Nat, env' = [env EXCEPT !.token = t, !.epoch = e]
        PROVE  /\ env' \in Env /\ env'.keys = env.keys /\ env'.issued = env.issued
               /\ env'.token = t /\ env'.epoch = e /\ env'.now = env.now
    BY <2>0, <2>5 DEF Env
  <2>6. env.now \in Nat /\ env.token + 1 \in Nat /\ env.epoch + 1 \in Nat
    BY <2>0, <2>4 DEF Env
  <2>1. CASE env' = [env EXCEPT !.token = env.token + 1, !.epoch = env.epoch]
    <3> DEFINE t == env.token + 1
    <3>1. t \in Nat /\ env' = [env EXCEPT !.token = t, !.epoch = env.epoch]
      BY <2>1, <2>6
    <3>2. t > env.token
      BY <2>4
    <3> HIDE DEF t
    <3>3. /\ env' \in Env /\ env'.keys = env.keys /\ env'.issued = env.issued
          /\ env'.token = t /\ env'.epoch = env.epoch /\ env'.now = env.now
      BY <2>4, <2>5, <3>1
    <3> QED
      BY <2>4, <2>6, <3>1, <3>2, <3>3
  <2>2. CASE env' = [env EXCEPT !.token = env.token, !.epoch = env.epoch + 1]
    <3> DEFINE e == env.epoch + 1
    <3>1. e \in Nat /\ env' = [env EXCEPT !.token = env.token, !.epoch = e]
      BY <2>2, <2>6
    <3>2. e > env.epoch
      BY <2>4
    <3> HIDE DEF e
    <3>3. /\ env' \in Env /\ env'.keys = env.keys /\ env'.issued = env.issued
          /\ env'.token = env.token /\ env'.epoch = e /\ env'.now = env.now
      BY <2>4, <2>5, <3>1
    <3> QED
      BY <2>4, <2>6, <3>1, <3>2, <3>3
  <2>3. CASE env' = [env EXCEPT !.now = env.now + 1]
    BY <2>0, <2>3 DEF Env
  <2> QED
    BY <1>1, <2>1, <2>2, <2>3
<1>4. SoundStore'
  BY <1>1, <1>3 DEF World, SoundStore
<1>5. SessionsInv'
  BY <1>1, <1>2, <1>3 DEF World, SoundStore, SessionsInv, Minted, Env
<1>6. JobInv'
  BY <1>1 DEF World, JobInv, IsOperator, IsReader, HoldsSession
<1>7. Evolves
  BY <1>1, <1>3 DEF World, SoundStore, Evolves, RowOn, DocumentRow
<1>8. OnlyTheOperator
  BY <1>1, <1>3 DEF OnlyTheOperator, ChangesAreAllowed, LogoutsAreAllowed
<1> QED
  BY <1>4, <1>5, <1>6, <1>7, <1>8 DEF World

LEMMA WriteWorld ==
  ASSUME World, NEW c \in Credentials, NEW let_in \in Env, NEW core, CoreOK(core), Gentle(core),
         core.keys = env.keys, core.issued = env.issued, core.job = job,
         AuthenticateAgent(let_in, c.bearer),
         documents' = core.documents, slug_tombstones' = core.slug_tombstones, blobs' = core.blobs,
         core.status < 300 => acted' = [c |-> c, env |-> let_in],
         UNCHANGED <<env, job, browser, scene, left>>
  PROVE  World' /\ Evolves /\ OnlyTheOperator
<1>1. UNCHANGED <<env, job, logins, jar, page, scene, left>>
  BY DEF browser
<1>2. SoundStore'
  BY <1>1 DEF World, SoundStore, CoreOK, Stored
<1>3. SessionsInv'
  BY <1>1 DEF World, SessionsInv, Minted
<1>4. JobInv'
  <2>1. job # None => job.doc \in Docs
    BY DEF World, SoundStore, Job
  <2> QED
    BY <1>1, <2>1 DEF World, JobInv, IsOperator, IsReader, HoldsSession, CoreOK, RowOn
<1>5. Evolves
  BY <1>1 DEF World, SoundStore, Evolves, CoreOK, Env
<1>6. ChangesAreAllowed
  <2>1. CASE core.status < 300
    <3>1. LeavesDoorsAlone
      BY <1>1 DEF Gentle, RowAlone, LeavesDoorsAlone
    <3>2. [c |-> c, env |-> let_in] # None
      BY ToolsAssumption DEF ToolsAssumption, Authority
    <3>3. IsReader([c |-> c, env |-> let_in])
      BY DEF AuthenticateAgent, AgentKey, IsReader
    <3> QED
      BY <2>1, <3>1, <3>2, <3>3 DEF ChangesAreAllowed
  <2>2. CASE ~(core.status < 300)
    BY <1>1, <2>2 DEF CoreOK, ChangesAreAllowed
  <2> QED
    BY <2>1, <2>2
<1>7. LogoutsAreAllowed
  BY <1>1 DEF LogoutsAreAllowed
<1> QED
  BY <1>2, <1>3, <1>4, <1>5, <1>6, <1>7 DEF World, OnlyTheOperator

----------------------------------------------------------------------------
\* What each change of a request leaves of it.

Same(r, q) ==
  r.door = q.door /\ r.target = q.target /\ r.c = q.c /\ r.inm = q.inm /\ r.follow = q.follow

LEMMA Steps == HttpSteps \intersect ToolSteps = {} /\ HttpDoors \intersect DocumentTools = {}
BY DEF HttpSteps, ToolSteps, HttpDoors, RecordDoors, PublicDoors, SlugDoors, OperatorPages, DocumentTools, ReadTools, WriteTools

LEMMA PutStep ==
  ASSUME NEW q \in HttpRequest, NEW s \in HttpSteps
  PROVE  LET r == [q EXCEPT !.step = s] IN
         /\ r \in HttpRequest /\ Same(r, q) /\ r.step = s /\ r.next = q.next /\ r.doc = q.doc
         /\ r.row = q.row /\ r.who = q.who
<1> HIDE DEF HttpSteps
<1> QED
  BY DEF HttpRequest, Same

----------------------------------------------------------------------------
\* The moments a request has lived through: tables as sound as now, which what
\* is there now came from, and at which its caller was known if he is now.

Past(c) ==
  /\ \A n \in Nat : c.bearer = <<"operator", n>> => n <= env.token
  /\ \A k \in Keys : c.bearer = <<"agent", k>> => k \in env.issued
  /\ c.cookie # None => c.cookie.sig[1] <= env.token /\ c.cookie.sig[2] <= env.epoch
Operates(m, c) == ResolvePrincipal(m.env, c) = "operator"
Fades(m, n, c) ==
  /\ Known(n, c) => Known(m, c)
  /\ Operates(n, c) => Operates(m, c)
  /\ AuthenticateAgent(n.env, c.bearer) => AuthenticateAgent(m.env, c.bearer)
Precedes(m, n) == \A d \in Docs : RowOn(m.documents[d], n.documents[d])
SoundMoment(m) ==
  /\ m = [documents |-> m.documents, slug_tombstones |-> m.slug_tombstones, env |-> m.env]
  /\ m.documents \in [Docs -> DocumentRow] /\ \A d \in Docs : SoundRow(m.documents[d])
  /\ SoundNames(m.documents, m.slug_tombstones)
SeenInv ==
  req # None =>
    /\ req.c \in Credentials /\ Past(req.c)
    /\ Moment \in seen
    /\ \A m \in seen : SoundMoment(m) /\ Precedes(m, Moment) /\ Fades(m, Moment, req.c)

LEMMA Principals ==
  ASSUME NEW e, NEW c
  PROVE  /\ ResolvePrincipal(e, c) \in {"operator", "agent", "anonymous"}
         /\ ResolvePrincipal(e, c) = "operator" <=>
              AuthenticateOperator(e, c.bearer) \/ VerifySessionCookieValue(e, c.cookie)
         /\ ResolvePrincipal(e, c) # "anonymous" <=>
              \/ AuthenticateOperator(e, c.bearer) \/ VerifySessionCookieValue(e, c.cookie)
              \/ AuthenticateAgent(e, c.bearer)
BY RequestKinds DEF ResolvePrincipal

LEMMA RowOnAgain ==
  ASSUME NEW a, NEW b, NEW c, SoundRow(a), SoundRow(b), SoundRow(c), RowOn(a, b), RowOn(b, c)
  PROVE  RowOn(a, c)
BY DEF RowOn, SoundRow, Live, DocumentRow

\* Nobody is known later by credentials that did not do before: a token, a key
\* or a session made since is not the one he came with.
LEMMA CredentialsFade ==
  ASSUME World, World', Evolves, NEW c \in Credentials, Past(c)
  PROVE  Past(c)' /\ Fades(Moment, Moment', c)
<1>1. env \in Env /\ env' \in Env
  BY DEF World, SoundStore
<1>2. /\ env.token <= env'.token /\ env.epoch <= env'.epoch /\ env.now <= env'.now
      /\ env'.keys \intersect env.issued \subseteq env.keys /\ env.issued \subseteq env'.issued
  BY DEF Evolves
<1>3. env'.keys \subseteq Keys /\ env'.token \in Nat /\ env.token \in Nat /\ env.epoch \in Nat
      /\ env'.epoch \in Nat /\ env.now \in Nat /\ env'.now \in Nat
  BY <1>1 DEF Env
<1>4. c.cookie \in {None} \union Session
  BY DEF Credentials
<1>5. c.cookie # None => c.cookie.sig = <<c.cookie.sig[1], c.cookie.sig[2]>>
        /\ c.cookie.sig[1] \in Nat /\ c.cookie.sig[2] \in Nat /\ c.cookie.exp \in Nat
  BY <1>4 DEF Session
<1>6. Past(c)'
  BY <1>2, <1>3, <1>5 DEF Past
<1>7. AuthenticateOperator(env', c.bearer) => AuthenticateOperator(env, c.bearer)
  BY <1>2, <1>3 DEF Past, AuthenticateOperator, OperatorToken
<1>8. VerifySessionCookieValue(env', c.cookie) => VerifySessionCookieValue(env, c.cookie)
  BY <1>2, <1>3, <1>5 DEF Past, VerifySessionCookieValue, DeriveSigningKey, IsValidPayload
<1>9. AuthenticateAgent(env', c.bearer) => AuthenticateAgent(env, c.bearer)
  BY <1>2, <1>3 DEF Past, AuthenticateAgent, AgentKey
<1>10. Moment.env = env /\ Moment'.env = env'
  BY DEF Moment
<1>11. Fades(Moment, Moment', c)
  BY <1>7, <1>8, <1>9, <1>10, Principals DEF Fades, Known, Operates
<1> QED
  BY <1>6, <1>11

LEMMA NowIsSound == ASSUME World PROVE SoundMoment(Moment)
BY DEF World, SoundStore, SoundMoment, Moment

LEMMA SeenGrows ==
  ASSUME World, World', Evolves, SeenInv, req # None, seen' = seen \union {Moment'},
         req' # None => req'.c = req.c
  PROVE  SeenInv'
<1>1. Moment \in seen /\ req.c \in Credentials
  BY DEF SeenInv
<1>2. SoundMoment(Moment) /\ SoundMoment(Moment')
  BY NowIsSound DEF World, SoundStore, SoundMoment, Moment
<1>3. Precedes(Moment, Moment') /\ Precedes(Moment', Moment')
  BY <1>2 DEF Precedes, Evolves, Moment, RowOn, SoundMoment, DocumentRow
<1>4. ASSUME NEW c \in Credentials, c = req.c
      PROVE  Past(c)' /\ \A m \in seen' : SoundMoment(m) /\ Precedes(m, Moment') /\ Fades(m, Moment', c)
  <2>1. Past(c)' /\ Fades(Moment, Moment', c)
    BY <1>4, CredentialsFade DEF SeenInv
  <2>2. ASSUME NEW m \in seen
        PROVE  SoundMoment(m) /\ Precedes(m, Moment') /\ Fades(m, Moment', c)
    <3>1. SoundMoment(m) /\ Precedes(m, Moment) /\ Fades(m, Moment, c)
      BY <1>4, <2>2 DEF SeenInv
    <3>2. Fades(m, Moment', c)
      BY <2>1, <3>1 DEF Fades
    <3>3. Precedes(m, Moment')
      BY <1>2, <1>3, <3>1, RowOnAgain DEF Precedes, SoundMoment
    <3> QED
      BY <3>1, <3>2, <3>3
  <2>3. Fades(Moment', Moment', c)
    BY DEF Fades
  <2> QED
    BY <1>2, <1>3, <2>1, <2>2, <2>3
<1>5. Moment' \in seen'
  OBVIOUS
<1> QED
  BY <1>1, <1>4, <1>5 DEF SeenInv

LEMMA SeenBegins ==
  ASSUME World', req' # None, req'.c \in Credentials, Past(req.c)', seen' = {Moment'}
  PROVE  SeenInv'
<1>1. SoundMoment(Moment')
  BY NowIsSound DEF World, SoundStore, SoundMoment, Moment
<1>2. Precedes(Moment', Moment')
  BY <1>1 DEF Precedes, RowOn, SoundMoment, DocumentRow
<1> QED
  BY <1>1, <1>2 DEF SeenInv, Fades

LEMMA CallersPast ==
  ASSUME World, NEW c \in Callers
  PROVE  c \in Credentials /\ Past(c)
<1>1. c \in Credentials /\ Held(c) /\ env \in Env
  BY CallersTyped DEF World, SoundStore
<1>2. c.cookie # None => c.cookie.sig[1] <= env.token /\ c.cookie.sig[2] <= env.epoch
  <2> SUFFICES ASSUME c.cookie # None PROVE c.cookie.sig[1] <= env.token /\ c.cookie.sig[2] <= env.epoch
    OBVIOUS
  <2>1. PICK l \in logins : c.cookie = l.session
    BY <1>1 DEF Held
  <2>2. Minted(l) /\ l.token <= env.token /\ l.epoch <= env.epoch
    BY DEF World, SessionsInv
  <2> QED
    BY <2>1, <2>2 DEF Minted
<1>3. \/ c.bearer = None
      \/ \E n \in 1..env.token : c.bearer = <<"operator", n>>
      \/ \E k \in env.issued : c.bearer = <<"agent", k>>
  <2>1. CASE c \in {Anonymous, Browser, Elsewhere}
    <3>1. Anonymous.bearer = None /\ Browser.bearer = None
      BY DEF Browser, Anonymous
    <3>2. Elsewhere.bearer = None
      BY DEF Elsewhere, Anonymous
    <3> QED
      BY <2>1, <3>1, <3>2
  <2>2. ASSUME NEW n \in 1..env.token, c = Bearer(OperatorToken(n)) \/ c = [Anonymous EXCEPT !.operator_token = n]
        PROVE  c.bearer = None \/ c.bearer = <<"operator", n>>
    BY <2>2 DEF Bearer, OperatorToken, Anonymous
  <2>3. ASSUME NEW k \in env.issued, c = Bearer(AgentKey(k))
        PROVE  c.bearer = <<"agent", k>>
    BY <2>3 DEF Bearer, AgentKey, Anonymous
  <2>4. ASSUME NEW l \in logins, c = [Anonymous EXCEPT !.cookie = l.session, !.csrf = l.session.csrf]
        PROVE  c.bearer = None
    BY <2>4 DEF Anonymous
  <2> QED
    BY <2>1, <2>2, <2>3, <2>4 DEF Callers
<1>4. \A n \in Nat : c.bearer = <<"operator", n>> => n <= env.token
  <2> SUFFICES ASSUME NEW n \in Nat, c.bearer = <<"operator", n>> PROVE n <= env.token
    OBVIOUS
  <2>1. c.bearer # None
    BY DoorsAssumption DEF DoorsAssumption
  <2>2. ASSUME NEW k, c.bearer = <<"agent", k>> PROVE FALSE
    BY <2>2
  <2> QED
    BY <1>1, <1>3, <2>1, <2>2 DEF Env
<1>5. \A k \in Keys : c.bearer = <<"agent", k>> => k \in env.issued
  <2> SUFFICES ASSUME NEW k \in Keys, c.bearer = <<"agent", k>> PROVE k \in env.issued
    OBVIOUS
  <2>1. c.bearer # None
    BY DoorsAssumption DEF DoorsAssumption
  <2>2. ASSUME NEW n, c.bearer = <<"operator", n>> PROVE FALSE
    BY <2>2
  <2> QED
    BY <1>1, <1>3, <2>1, <2>2
<1> QED
  BY <1>1, <1>2, <1>4, <1>5 DEF Past

----------------------------------------------------------------------------
\* Where a request can be, by its door, and what it has learned by then: that
\* its document had the name it came by, that it was forwarded, what row it
\* read, and that its caller was known.

RawSteps == {"raw", "raw_principal", "raw_bytes"}
TargetSteps == {"target", "target_principal", "target_row"}
RowSteps == {"raw_principal", "raw_bytes", "shell_principal", "current_bytes", "target_principal", "target_row"}
StepsOf(door) ==
  CASE door = "raw" -> RawSteps
    [] door = "doc" -> RawSteps \union {"reader", "shell", "shell_principal"}
    [] door = "home" -> {"home"}
    [] door = "version" -> {"page_operator", "version_row", "version_bytes"}
    [] door = "version_shell" -> {"page_operator", "version_row"}
    [] door = "record" -> {"operator", "record_row"}
    [] door = "versions" -> {"operator", "versions_row"}
    [] door \in {"text", "source", "links"} -> {"reader", "current", "current_bytes"}
    [] door = "slug" -> RawSteps \union TargetSteps \union {"slug", "tomb", "reader", "shell_principal"}
    [] door = "text_slug" -> TargetSteps \union {"reader", "name", "tomb", "current", "current_bytes"}
NextsOf(door) ==
  CASE door = "doc" -> {"raw"}
    [] door = "slug" -> {"raw", "target"}
    [] door = "text_slug" -> {"name"}
    [] door \notin {"doc", "slug", "text_slug"} -> {"current"}
Found(r) == r.step \notin {"slug", "name", "tomb"} /\ ~(r.step = "reader" /\ r.next = "name")
Placed(r) ==
  /\ r.step \in StepsOf(r.door)
  /\ r.step = "reader" => r.next \in NextsOf(r.door)
  /\ r.door \notin SlugDoors => r.doc = r.target /\ r.doc \in Docs
  /\ r.door \in SlugDoors => r.target \in Slugs /\ (Found(r) => r.doc \in Docs)
  /\ r.step \in {"shell", "shell_principal"} => ~HasAuthorization(r.c)

Nobodys(m, slug) == ~Retired(m, slug) /\ \A d \in Docs : m.documents[d].slug # slug
NamedOnce(r) == \E m \in seen : NamedAs(m, r.target, r.doc)
ForwardedOnce(r) == \E m \in seen : Forwards(m, r.target, r.doc)
RowRead(r) ==
  \E m \in seen :
    /\ Live(m.documents[r.doc]) /\ r.row = m.documents[r.doc]
    /\ r.step = "raw_bytes" => Reads(m, r.c, r.doc) /\ (r.who # "anonymous" => Known(m, r.c))
    /\ r.door = "slug" /\ r.step = "shell_principal" => r.row.slug = r.target
KnownOnce(r) == \E m \in seen : Known(m, r.c)
OperatedOnce(r) == \E m \in seen : Operates(m, r.c)
Learned(r) ==
  /\ r.door \in SlugDoors /\ Found(r) => NamedOnce(r)
  /\ r.door \in SlugDoors /\ (r.step \in TargetSteps \/ (r.step = "reader" /\ r.next = "target")) =>
       ForwardedOnce(r)
  /\ r.step \in RowSteps => RowRead(r)
  /\ r.door \in {"text", "source", "links", "text_slug"} /\ r.step # "reader" => KnownOnce(r)
  /\ r.door = "slug" /\ (r.step \in RawSteps \/ (r.step \in TargetSteps /\ HasAuthorization(r.c))) => KnownOnce(r)
  /\ r.step = "target_row" => \E m \in seen : ~Known(m, r.c)
  /\ r.step \in {"version_row", "version_bytes", "record_row", "versions_row"} => OperatedOnce(r)
  /\ r.step = "version_bytes" =>
       \E m \in seen : Live(m.documents[r.doc]) /\ AskedVersion <= m.documents[r.doc].current_ver
Untaken(r) ==
  r.step = "tomb" => Retired(Moment, r.target) \/ \E m \in seen : Nobodys(m, r.target)

Reading == World /\ SeenInv /\ req # None /\ req \in HttpRequest /\ Placed(req) /\ Learned(req) /\ Untaken(req)

\* An answer is right if it is true of the moments seen, and, to who was never
\* known, of the same moments without the private documents.
Blinds == {Blind(m) : m \in seen}
Right(a) ==
  /\ IsTrueOf(a, seen)
  /\ a.how # "redirected" /\ (\A m \in seen : ~Known(m, a.c)) => IsTrueOf(a, Blinds)
Answered == req' = None /\ answer'.door = req.door /\ \E a : answer' = a /\ Right(a)
Proceeds ==
  /\ answer' = None /\ req' \in HttpRequest /\ Same(req', req)
  /\ \E r : req' = r /\ Placed(r) /\ Learned(r) /\ Untaken(r)

LEMMA SeenSound ==
  ASSUME Reading, NEW m \in seen
  PROVE  /\ SoundMoment(m) /\ Precedes(m, Moment) /\ Fades(m, Moment, req.c)
         /\ Blind(m).slug_tombstones = m.slug_tombstones /\ Blind(m).env = m.env
         /\ \A d \in Docs : Blind(m).documents[d] =
              IF m.documents[d].visibility = "public" THEN m.documents[d] ELSE Vacant
<1>0. req # None
  BY DEF Reading
<1>1. SoundMoment(m) /\ Precedes(m, Moment) /\ Fades(m, Moment, req.c)
  BY <1>0 DEF Reading, SeenInv
<1> QED
  BY <1>1 DEF SoundMoment, Blind

LEMMA NowSeen == ASSUME Reading PROVE Moment \in seen /\ Moment.documents = documents
                                     /\ Moment.slug_tombstones = slug_tombstones /\ Moment.env = env
BY DEF Reading, SeenInv, Moment

\* He who is known now was at every moment.
LEMMA KnownBefore ==
  ASSUME Reading, NEW m \in seen
  PROVE  /\ ResolvePrincipal(env, req.c) # "anonymous" => Known(m, req.c)
         /\ AuthenticateOperatorRequest(env, req.c) # "none" => Operates(m, req.c) /\ Known(m, req.c)
<1>1. Fades(m, Moment, req.c) /\ Moment.env = env
  BY SeenSound, NowSeen
<1>2. AuthenticateOperatorRequest(env, req.c) # "none" => ResolvePrincipal(env, req.c) = "operator"
  BY DEF ResolvePrincipal
<1> QED
  BY <1>1, <1>2 DEF Fades, Known, Operates

\* A version that existed and has no bytes is of a document that is gone.
LEMMA BytesGone ==
  ASSUME Reading, NEW m \in seen, NEW d \in Docs, Live(m.documents[d]), NEW n \in Nat, n > 0,
         n <= m.documents[d].current_ver, <<d, n>> \notin blobs
  PROVE  ~Live(documents[d])
<1>1. RowOn(m.documents[d], documents[d]) /\ SoundRow(m.documents[d]) /\ SoundRow(documents[d])
  BY SeenSound, NowSeen DEF Precedes, SoundMoment, Reading, World, SoundStore
<1>2. Live(documents[d]) => n \in 1..documents[d].current_ver
  BY <1>1 DEF RowOn, SoundRow, DocumentRow
<1> QED
  BY <1>2 DEF Reading, World, SoundStore

LEMMA ServedIs ==
  ASSUME NEW row, SoundRow(row), Live(row)
  PROVE  /\ ServedVersion(row) = Shown(row) /\ ServedVersion(row) \in Nat
         /\ ServedVersion(row) > 0 /\ ServedVersion(row) <= row.current_ver
BY DEF SoundRow, DocumentRow, ServedVersion, Shown, Live

Gone(c, d) == Withheld(c, d, seen) /\ Withheld(c, d, Blinds)

LEMMA GoneIs ==
  ASSUME Reading, NEW d \in Docs, NEW m \in seen, NEW k \in seen, NEW c,
         ~Live(m.documents[d]) \/ (m.documents[d].visibility # "public" /\ ~Known(k, c))
  PROVE  Gone(c, d)
<1>1. Withheld(c, d, seen)
  BY DEF Withheld
<1>2. ~Live(Blind(m).documents[d])
  <2>1. ~Live(Vacant)
    BY DEF Vacant, Live
  <2> QED
    BY <2>1, SeenSound
<1>3. Blind(m) \in Blinds
  BY DEF Blinds
<1>4. Withheld(c, d, Blinds)
  BY <1>2, <1>3 DEF Withheld
<1> QED
  BY <1>1, <1>4 DEF Gone

LEMMA ToldRight ==
  ASSUME NEW a, NEW d, NEW n, a.told = {<<d, n>>}, TellsTrue(a, d, n, seen),
         a.how # "redirected" /\ (\A m \in seen : ~Known(m, a.c)) => TellsTrue(a, d, n, Blinds)
  PROVE  Right(a)
<1>1. \A M : TellsTrue(a, d, n, M) => IsTrueOf(a, M)
  <2> SUFFICES ASSUME NEW M, TellsTrue(a, d, n, M) PROVE IsTrueOf(a, M)
    OBVIOUS
  <2>1. \A v \in a.told : v[1] = d /\ v[2] = n
    OBVIOUS
  <2>2. \A v \in a.told : TellsTrue(a, v[1], v[2], M)
    BY <2>1, Zenon
  <2> QED
    BY <2>2 DEF IsTrueOf
<1> QED
  BY <1>1 DEF Right

\* A page or a body, of a row that he who asks could read.
LEMMA ShownRight ==
  ASSUME Reading, NEW d \in Docs, NEW m \in seen, Live(m.documents[d]), NEW a,
         a.told = {<<d, ServedVersion(m.documents[d])>>}, a.how \in {"shown", "unchanged"},
         a.door \in {"raw", "doc", "slug"}, Reads(m, a.c, d),
         a.door # "slug" => d = a.target,
         a.door = "slug" => \E k \in seen : NamedAs(k, a.target, d),
         a.door = "slug" => m.documents[d].slug = a.target \/ \E k \in seen : Known(k, a.c),
         a.how = "unchanged" => ServedVersion(m.documents[d]) \in a.inm \/ Star \in a.inm,
         a.current # None => Known(m, a.c) /\ a.current = m.documents[d].current_ver
  PROVE  Right(a)
<1> DEFINE n == ServedVersion(m.documents[d])
<1>1. SoundRow(m.documents[d]) /\ n = Shown(m.documents[d])
  BY SeenSound, ServedIs DEF SoundMoment
<1>2. /\ a.door \in PublicDoors \ OperatorPages /\ a.door \notin {"home"} \union RecordDoors
      /\ a.door = "slug" <=> a.door \in SlugDoors
  BY DEF PublicDoors, SlugDoors, OperatorPages, RecordDoors
<1> HIDE DEF n
<1>3. ASSUME NEW M, NEW k \in M, Live(k.documents[d]), n = Shown(k.documents[d]), Reads(k, a.c, d),
             a.door = "slug" => \E j \in M : NamedAs(j, a.target, d),
             a.current # None => Known(k, a.c) /\ a.current = k.documents[d].current_ver
      PROVE  TellsTrue(a, d, n, M)
  <2>1. a.how # "redirected" /\ (a.door # "slug" => d = a.target)
    OBVIOUS
  <2>2. a.how = "unchanged" => n \in a.inm \/ Star \in a.inm
    BY DEF n
  <2> QED
    BY <1>2, <1>3, <2>1, <2>2, SMT DEF TellsTrue, RecordDoors
<1>4. TellsTrue(a, d, n, seen)
  BY <1>1, <1>3
<1>5. ASSUME \A k \in seen : ~Known(k, a.c)
      PROVE  TellsTrue(a, d, n, Blinds)
  <2>1. m.documents[d].visibility = "public" /\ a.current = None
    BY <1>5 DEF Reads
  <2>2. Blind(m).documents[d] = m.documents[d] /\ Blind(m) \in Blinds
    BY <2>1, SeenSound DEF Blinds
  <2>3. Reads(Blind(m), a.c, d)
    BY <2>1, <2>2 DEF Reads
  <2>4. a.door = "slug" => NamedAs(Blind(m), a.target, d)
    BY <1>5, <2>2 DEF NamedAs
  <2> QED
    BY <1>1, <1>3, <2>1, <2>2, <2>3, <2>4
<1> QED
  BY <1>4, <1>5, ToldRight DEF n

\* What is told to who is known needs no second look without the private
\* documents.
LEMMA KnownRight ==
  ASSUME NEW a, NEW d, NEW n, a.told = {<<d, n>>}, TellsTrue(a, d, n, seen), \E m \in seen : Known(m, a.c)
  PROVE  Right(a)
BY ToldRight

LEMMA RefusedRight ==
  ASSUME NEW a, a.told = {}, RefusesTrue(a, scene.homepage, seen),
         (\A m \in seen : ~Known(m, a.c)) => RefusesTrue(a, scene.homepage, Blinds)
  PROVE  Right(a)
BY DEF Right, IsTrueOf

LEMMA OperatorIsKnown == ASSUME NEW m, NEW c, Operates(m, c) PROVE Known(m, c)
BY DEF Operates, Known

----------------------------------------------------------------------------
\* The answers there are, and where they may come from.

AnswerOf(q, status, told, current, how) ==
  [door |-> q.door, target |-> q.target, c |-> q.c, inm |-> q.inm,
   status |-> status, told |-> told, current |-> current, how |-> how]

LEMMA Delivered ==
  ASSUME NEW status, NEW told, NEW current, NEW how, Deliver(status, told, current, how),
         Right(AnswerOf(req, status, told, current, how))
  PROVE  Answered
BY DEF Deliver, Answered, AnswerOf

LEMMA AnswerIs ==
  ASSUME NEW q, NEW status, NEW told, NEW current, NEW how
  PROVE  LET a == AnswerOf(q, status, told, current, how) IN
         /\ a.door = q.door /\ a.target = q.target /\ a.c = q.c /\ a.inm = q.inm
         /\ a.status = status /\ a.told = told /\ a.current = current /\ a.how = how
BY DEF AnswerOf

\* 404, of a document that was not live when it was looked up.
LEMMA MissingTrue ==
  ASSUME Reading, NEW a, NEW m \in seen, a.target \in Docs, ~Live(m.documents[a.target]),
         a.door \notin SlugDoors, a.door \notin {"home", "record"}, a.status = 404, a.told = {}
  PROVE  RefusesTrue(a, scene.homepage, seen) /\ RefusesTrue(a, scene.homepage, Blinds)
<1>1. Gone(a.c, a.target)
  BY GoneIs
<1>2. ~Live(Blind(m).documents[a.target]) /\ Blind(m) \in Blinds
  BY SeenSound DEF Blinds, Vacant, Live
<1> QED
  BY <1>1, <1>2 DEF RefusesTrue, Gone

\* 404, of a document asked for by its address.
LEMMA MissingRight ==
  ASSUME Reading, req.door \notin SlugDoors \union {"home", "record"}, NEW m \in seen, ~Live(m.documents[req.doc]),
         NEW a, a = AnswerOf(req, 404, {}, None, "refused")
  PROVE  Right(a)
<1>1. /\ a.door = req.door /\ a.target = req.doc /\ a.c = req.c
      /\ a.status = 404 /\ a.told = {} /\ a.how = "refused" /\ req.doc \in Docs
  BY AnswerIs DEF Reading, Placed
<1>2. RefusesTrue(a, scene.homepage, seen) /\ RefusesTrue(a, scene.homepage, Blinds)
  BY <1>1, MissingTrue
<1> QED
  BY <1>1, <1>2, RefusedRight

LEMMA Going ==
  ASSUME NEW r, r \in HttpRequest, Same(r, req), Placed(r), Learned(r), Untaken(r), Continue(r)
  PROVE  Proceeds
BY DEF Continue, Proceeds

\* 404, of a document asked for by its address or by a name it had.
LEMMA WithheldRight ==
  ASSUME Reading, req.door \in {"raw", "doc"}, Gone(req.c, req.doc)
  PROVE  Right(AnswerOf(req, 404, {}, None, "refused"))
<1> DEFINE a == AnswerOf(req, 404, {}, None, "refused")
<1>1. /\ a.door = req.door /\ a.target = req.doc /\ a.c = req.c
      /\ a.status = 404 /\ a.told = {} /\ a.how = "refused"
      /\ a.door \in {"raw", "doc"} /\ a.door \notin SlugDoors \union OperatorPages
  BY AnswerIs DEF Reading, Placed, SlugDoors, OperatorPages
<1> HIDE DEF a
<1>2. RefusesTrue(a, scene.homepage, seen) /\ RefusesTrue(a, scene.homepage, Blinds)
  BY <1>1 DEF RefusesTrue, Gone
<1> QED
  BY <1>1, <1>2, RefusedRight DEF a

LEMMA NameWithheldRight ==
  ASSUME Reading, req.door \in SlugDoors, req.doc \in Docs, NamedOnce(req), Gone(req.c, req.doc)
  PROVE  Right(AnswerOf(req, 404, {}, None, "refused"))
<1> DEFINE a == AnswerOf(req, 404, {}, None, "refused")
<1>1. /\ a.door = req.door /\ a.target = req.target /\ a.c = req.c /\ a.target \in Slugs
      /\ a.status = 404 /\ a.told = {} /\ a.how = "refused"
      /\ a.door \notin {"raw", "doc", "record"} \union OperatorPages /\ a.door \in SlugDoors
  BY AnswerIs DEF Reading, Placed, SlugDoors, OperatorPages
<1>2. PICK m \in seen : NamedAs(m, req.target, req.doc)
  BY DEF NamedOnce
<1> HIDE DEF a
<1>3. RefusesTrue(a, scene.homepage, seen)
  BY <1>1, <1>2 DEF RefusesTrue, Gone
<1>4. Blind(m) \in Blinds
  BY DEF Blinds
<1>5. CASE NamedAs(Blind(m), req.target, req.doc)
  <2>1. RefusesTrue(a, scene.homepage, Blinds)
    BY <1>1, <1>4, <1>5 DEF RefusesTrue, Gone
  <2> QED
    BY <1>1, <1>3, <2>1, RefusedRight DEF a
<1>6. CASE ~NamedAs(Blind(m), req.target, req.doc)
  <2>1. m.documents[req.doc].slug = req.target /\ ~Retired(m, req.target)
    BY <1>1, <1>2, <1>6, SeenSound DEF NamedAs, Forwards, Retired, SoundMoment, SoundNames
  <2>2. \A d \in Docs : Blind(m).documents[d].slug # a.target
    <3>1. Blind(m).documents[req.doc].slug # a.target
      BY <1>1, <1>6 DEF NamedAs
    <3>2. \A d \in Docs \ {req.doc} : m.documents[d].slug # req.target
      BY <1>1, <2>1, SeenSound, NoneApart DEF SoundMoment, SoundNames
    <3>3. Vacant.slug # a.target
      BY <1>1, NoneApart DEF Vacant
    <3> QED
      BY <1>1, <3>1, <3>2, <3>3, SeenSound
  <2>3. ~Retired(Blind(m), a.target)
    BY <1>1, <2>1, SeenSound DEF Retired
  <2>4. RefusesTrue(a, scene.homepage, Blinds)
    BY <1>1, <1>4, <2>2, <2>3 DEF RefusesTrue, Retired
  <2> QED
    BY <1>1, <1>3, <2>4, RefusedRight DEF a
<1> QED
  BY <1>5, <1>6

LEMMA UnknownRight ==
  ASSUME Reading, req.door \notin RecordDoors, NEW m \in seen, ~Known(m, req.c)
  PROVE  Right(AnswerOf(req, 401, {}, None, "refused"))
<1> DEFINE a == AnswerOf(req, 401, {}, None, "refused")
<1>1. /\ a.door = req.door /\ a.c = req.c /\ a.status = 401 /\ a.told = {} /\ a.how = "refused"
  BY AnswerIs
<1> HIDE DEF a
<1>2. Blind(m) \in Blinds /\ ~Known(Blind(m), req.c)
  BY SeenSound DEF Blinds, Known
<1>3. RefusesTrue(a, scene.homepage, seen) /\ RefusesTrue(a, scene.homepage, Blinds)
  BY <1>1, <1>2 DEF RefusesTrue
<1> QED
  BY <1>1, <1>3, RefusedRight DEF a

LEMMA RefuseIs ==
  ASSUME NEW status, Refuse(status), Right(AnswerOf(req, status, {}, None, "refused"))
  PROVE  Answered
BY Delivered DEF Refuse

LEMMA ReaderGateOK ==
  ASSUME Reading, ReaderGate
  PROVE  Answered \/ Proceeds
<1>1. req.step = "reader" /\ req \in HttpRequest /\ req.door \in HttpDoors /\ req.next \in NextsOf(req.door)
  BY DEF Reading, ReaderGate, At, Placed, HttpRequest
<1>2. req.door \in {"doc", "text", "source", "links", "slug", "text_slug"}
  BY <1>1 DEF Reading, Placed, StepsOf, HttpDoors, RecordDoors, PublicDoors, SlugDoors, OperatorPages, RawSteps, TargetSteps
<1>3. CASE RequireReader(env, req.c)
  <2> DEFINE r == [req EXCEPT !.step = req.next]
  <2>1. req.next \in HttpSteps
    BY <1>1, <1>2 DEF NextsOf, HttpSteps
  <2>2. r \in HttpRequest /\ Same(r, req) /\ r.step = req.next /\ r.doc = req.doc
    BY <1>1, <2>1, PutStep
  <2>3. KnownOnce(req)
    BY <1>3, NowSeen, KnownBefore DEF KnownOnce, RequireReader
  <2> HIDE DEF r
  <2>4. Placed(r)
    BY <1>1, <1>2, <2>2 DEF Reading, Placed, Same, StepsOf, NextsOf, SlugDoors, Found, RawSteps, TargetSteps
  <2>5. KnownOnce(r) /\ (Found(req) => (NamedOnce(r) <=> NamedOnce(req)) /\ (ForwardedOnce(r) <=> ForwardedOnce(req)))
    BY <2>2, <2>3 DEF KnownOnce, Same, NamedOnce, ForwardedOnce
  <2>6. Learned(r) /\ Untaken(r)
    BY <1>1, <1>2, <2>2, <2>5
       DEF Reading, Learned, Untaken, Same, NextsOf, SlugDoors, Found, RawSteps, TargetSteps, RowSteps
  <2> QED
    BY <1>3, <2>2, <2>4, <2>6, Going DEF ReaderGate, Go, r
<1>4. CASE ~RequireReader(env, req.c)
  <2>1. ~Known(Moment, req.c)
    BY <1>4, NowSeen DEF Known, RequireReader
  <2> QED
    BY <1>2, <1>4, <2>1, NowSeen, UnknownRight, RefuseIs DEF ReaderGate, RecordDoors
<1> QED
  BY <1>3, <1>4

----------------------------------------------------------------------------
\* Each step of a read.

LEMMA AtReading ==
  ASSUME Reading, NEW step, At(step)
  PROVE  req.step = step /\ req \in HttpRequest /\ req.door \in HttpDoors /\ step \in StepsOf(req.door)
BY DEF Reading, At, Placed, HttpRequest

\* A row read now.
LEMMA FetchOK ==
  ASSUME Reading, NEW step \in {"raw_principal", "shell_principal", "current_bytes"}, Found(req),
         step \in StepsOf(req.door), FetchRow(step, 404),
         req.door \in {"text", "source", "links", "text_slug"} \/ (req.door = "slug" /\ step \in RawSteps) => KnownOnce(req),
         step = "shell_principal" => req.door # "slug" /\ ~HasAuthorization(req.c)
  PROVE  Answered \/ Proceeds
<1>1. req \in HttpRequest /\ req.doc \in Docs
  BY DEF Reading, Placed, HttpRequest
<1>2. CASE Live(documents[req.doc])
  <2> DEFINE row == documents[req.doc]
             r == [req EXCEPT !.row = row, !.step = step]
  <2>0. row \in DocumentRow /\ step \in HttpSteps
    BY <1>1 DEF Reading, World, SoundStore, HttpSteps
  <2>2. Continue(r)
    BY <1>2 DEF FetchRow
  <2> HIDE DEF row
  <2>1. r \in HttpRequest /\ Same(r, req) /\ r.step = step /\ r.doc = req.doc /\ r.row = row
    BY <1>1, <2>0 DEF HttpRequest, Same
  <2>3. Placed(r)
    BY <1>1, <2>1 DEF Reading, Placed, Same, Found
  <2>4. RowRead(r)
    BY <1>1, <1>2, <2>1, NowSeen DEF RowRead, Same, row
  <2>5. KnownOnce(r) <=> KnownOnce(req)
    BY <2>1 DEF KnownOnce, Same
  <2>6. NamedOnce(r) <=> NamedOnce(req)
    BY <2>1 DEF NamedOnce, Same
  <2>7. Learned(r) /\ Untaken(r)
    BY <1>1, <2>1, <2>4, <2>5, <2>6 DEF Reading, Learned, Untaken, Same, Found, TargetSteps, RawSteps
  <2> QED
    BY <2>1, <2>2, <2>3, <2>7, Going
<1>3. CASE ~Live(documents[req.doc])
  <2>1. Refuse(404)
    BY <1>3 DEF FetchRow
  <2>2. Gone(req.c, req.doc)
    BY <1>1, <1>3, NowSeen, GoneIs
  <2>3. CASE req.door \in SlugDoors
    <3>1. NamedOnce(req)
      BY <2>3 DEF Reading, Learned
    <3> QED
      BY <1>1, <2>1, <2>2, <2>3, <3>1, NameWithheldRight, RefuseIs
  <2>4. CASE req.door \notin SlugDoors
    <3>1. req.door \notin {"home", "record"}
      BY DEF StepsOf
    <3> QED
      BY <1>3, <2>1, <2>4, <3>1, NowSeen, MissingRight, RefuseIs
  <2> QED
    BY <2>3, <2>4
<1> QED
  BY <1>2, <1>3

LEMMA RawRowOK ==
  ASSUME Reading, RawRow
  PROVE  Answered \/ Proceeds
<1>1. req.step = "raw" /\ "raw" \in StepsOf(req.door) /\ req.door \in HttpDoors
  BY AtReading DEF RawRow
<1>2. req.door \in {"raw", "doc", "slug"}
  BY <1>1 DEF StepsOf, HttpDoors, RecordDoors, PublicDoors, SlugDoors, OperatorPages, RawSteps, TargetSteps
<1>3. req.door = "slug" => KnownOnce(req)
  BY <1>1 DEF Reading, Learned, RawSteps
<1>4. Found(req) /\ "raw_principal" \in StepsOf(req.door)
  BY <1>1, <1>2 DEF Found, StepsOf, RawSteps
<1> QED
  BY <1>2, <1>3, <1>4, FetchOK DEF RawRow

LEMMA ShellRowOK ==
  ASSUME Reading, ShellRow
  PROVE  Answered \/ Proceeds
<1>1. req.step = "shell" /\ "shell" \in StepsOf(req.door) /\ req.door \in HttpDoors
  BY AtReading DEF ShellRow
<1>2. req.door = "doc"
  BY <1>1 DEF StepsOf, HttpDoors, RecordDoors, PublicDoors, SlugDoors, OperatorPages, RawSteps, TargetSteps
<1>3. Found(req) /\ "shell_principal" \in StepsOf(req.door) /\ ~HasAuthorization(req.c)
  BY <1>1, <1>2 DEF Found, StepsOf, Reading, Placed
<1> QED
  BY <1>2, <1>3, FetchOK DEF ShellRow

\* 404, from a door the public reads by.
LEMMA PublicMissOK ==
  ASSUME Reading, req.door \in {"raw", "doc", "slug"}, Found(req), Refuse(404), Gone(req.c, req.doc)
  PROVE  Answered
<1>1. CASE req.door = "slug"
  <2>1. NamedOnce(req) /\ req.door \in SlugDoors /\ req.doc \in Docs
    BY <1>1 DEF Reading, Learned, Placed, SlugDoors
  <2> QED
    BY <2>1, NameWithheldRight, RefuseIs
<1>2. CASE req.door # "slug"
  BY <1>2, WithheldRight, RefuseIs
<1> QED
  BY <1>1, <1>2

\* A page or a body, from a door the public reads by.
LEMMA PublicShowOK ==
  ASSUME Reading, req.door \in {"raw", "doc", "slug"}, Found(req), NEW m \in seen,
         Live(m.documents[req.doc]), Reads(m, req.c, req.doc), NEW status, NEW current, NEW how \in {"shown", "unchanged"},
         req.door = "slug" => KnownOnce(req) \/ m.documents[req.doc].slug = req.target,
         how = "unchanged" => IfNoneMatchSatisfied(req.inm, ServedVersion(m.documents[req.doc])),
         current # None => Known(m, req.c) /\ current = m.documents[req.doc].current_ver,
         Deliver(status, {<<req.doc, ServedVersion(m.documents[req.doc])>>}, current, how)
  PROVE  Answered
<1> DEFINE n == ServedVersion(m.documents[req.doc])
           a == AnswerOf(req, status, {<<req.doc, n>>}, current, how)
<1>1. /\ a.door = req.door /\ a.target = req.target /\ a.c = req.c /\ a.inm = req.inm
      /\ a.told = {<<req.doc, n>>} /\ a.current = current /\ a.how = how
  BY AnswerIs
<1>2. req.doc \in Docs /\ (req.door # "slug" => req.doc = req.target)
      /\ (req.door = "slug" => NamedOnce(req))
  BY DEF Reading, Placed, Learned, SlugDoors
<1> HIDE DEF a
<1>3. Right(a)
  BY <1>1, <1>2, ShownRight DEF NamedOnce, KnownOnce, IfNoneMatchSatisfied
<1> QED
  BY <1>3, Delivered DEF a

LEMMA RawPrincipalOK ==
  ASSUME Reading, RawPrincipal
  PROVE  Answered \/ Proceeds
<1> DEFINE principal == ResolvePrincipal(env, req.c)
           n == ServedVersion(req.row)
           current == IF principal = "anonymous" THEN None ELSE req.row.current_ver
<1>1. req.step = "raw_principal" /\ "raw_principal" \in StepsOf(req.door) /\ req.door \in HttpDoors
      /\ req \in HttpRequest
  BY AtReading DEF RawPrincipal
<1>2. req.door \in {"raw", "doc", "slug"}
  BY <1>1 DEF StepsOf, HttpDoors, RecordDoors, PublicDoors, SlugDoors, OperatorPages, RawSteps, TargetSteps
<1>3. Found(req) /\ req.doc \in Docs
  BY <1>1, <1>2 DEF Reading, Placed, Found, SlugDoors
<1>4. req.door = "slug" => KnownOnce(req)
  BY <1>1 DEF Reading, Learned, RawSteps
<1>5. PICK m \in seen : Live(m.documents[req.doc]) /\ req.row = m.documents[req.doc]
  BY <1>1 DEF Reading, Learned, RowSteps, RowRead
<1>6. principal # "anonymous" => Known(m, req.c)
  BY KnownBefore
<1>7. CASE ~CanRead(principal, req.row.visibility)
  <2>1. ~Known(Moment, req.c) /\ req.row.visibility # "public"
    BY <1>7, NowSeen DEF CanRead, Known
  <2>2. Gone(req.c, req.doc)
    BY <1>3, <1>5, <2>1, NowSeen, GoneIs
  <2> QED
    BY <1>2, <1>3, <1>7, <2>2, PublicMissOK DEF RawPrincipal
<1>8. CASE CanRead(principal, req.row.visibility)
  <2>1. Reads(m, req.c, req.doc)
    BY <1>5, <1>6, <1>8 DEF CanRead, Reads
  <2>2. CASE IfNoneMatchSatisfied(req.inm, n)
    <3>1. Deliver(304, {<<req.doc, n>>}, current, "unchanged")
      BY <1>8, <2>2 DEF RawPrincipal
    <3>2. current # None => Known(m, req.c) /\ current = m.documents[req.doc].current_ver
      BY <1>5, <1>6
    <3> HIDE DEF current
    <3> QED
      BY <1>2, <1>3, <1>4, <1>5, <2>1, <2>2, <3>1, <3>2, PublicShowOK
  <2>3. CASE ~IfNoneMatchSatisfied(req.inm, n)
    <3> DEFINE r == [req EXCEPT !.who = principal, !.step = "raw_bytes"]
    <3>1. Continue(r)
      BY <1>8, <2>3 DEF RawPrincipal
    <3>2. principal \in {"anonymous", "agent", "operator"}
      BY Principals
    <3>3. principal # "anonymous" => Known(m, req.c)
      BY <1>6
    <3> HIDE DEF principal
    <3>4. r \in HttpRequest /\ Same(r, req) /\ r.step = "raw_bytes" /\ r.doc = req.doc /\ r.row = req.row
          /\ r.who = principal
      BY <1>1, <3>2 DEF HttpRequest, Same, HttpSteps
    <3> HIDE DEF r
    <3>5. RowRead(r)
      BY <1>5, <2>1, <3>3, <3>4 DEF RowRead, Same
    <3>6. Placed(r)
      BY <1>1, <1>2, <1>3, <3>4 DEF Reading, Placed, Same, Found, SlugDoors, StepsOf, RawSteps
    <3>7. (NamedOnce(r) <=> NamedOnce(req)) /\ (KnownOnce(r) <=> KnownOnce(req))
      BY <3>4 DEF NamedOnce, KnownOnce, Same
    <3>8. Learned(r) /\ Untaken(r)
      BY <1>2, <1>3, <1>4, <3>4, <3>5, <3>7
         DEF Reading, Learned, Untaken, Same, Found, TargetSteps, RawSteps, SlugDoors
    <3> QED
      BY <3>1, <3>4, <3>6, <3>8, Going
  <2> QED
    BY <2>2, <2>3
<1> QED
  BY <1>7, <1>8

LEMMA RawBytesOK ==
  ASSUME Reading, RawBytes
  PROVE  Answered \/ Proceeds
<1> DEFINE n == ServedVersion(req.row)
           current == IF req.who = "anonymous" THEN None ELSE req.row.current_ver
<1>1. req.step = "raw_bytes" /\ "raw_bytes" \in StepsOf(req.door) /\ req.door \in HttpDoors
      /\ req \in HttpRequest
  BY AtReading DEF RawBytes
<1>2. req.door \in {"raw", "doc", "slug"}
  BY <1>1 DEF StepsOf, HttpDoors, RecordDoors, PublicDoors, SlugDoors, OperatorPages, RawSteps, TargetSteps
<1>3. Found(req) /\ req.doc \in Docs
  BY <1>1, <1>2 DEF Reading, Placed, Found, SlugDoors
<1>4. req.door = "slug" => KnownOnce(req)
  BY <1>1 DEF Reading, Learned, RawSteps
<1>5. PICK m \in seen : /\ Live(m.documents[req.doc]) /\ req.row = m.documents[req.doc]
                        /\ Reads(m, req.c, req.doc) /\ (req.who # "anonymous" => Known(m, req.c))
  BY <1>1 DEF Reading, Learned, RowSteps, RowRead
<1>6. CASE <<req.doc, n>> \in blobs
  <2>1. Deliver(200, {<<req.doc, n>>}, current, "shown")
    BY <1>6 DEF RawBytes
  <2>2. current # None => Known(m, req.c) /\ current = m.documents[req.doc].current_ver
    BY <1>5
  <2> HIDE DEF current
  <2> QED
    BY <1>2, <1>3, <1>4, <1>5, <2>1, <2>2, PublicShowOK
<1>7. CASE <<req.doc, n>> \notin blobs
  <2>1. n \in Nat /\ n > 0 /\ n <= m.documents[req.doc].current_ver
    BY <1>3, <1>5, SeenSound, ServedIs DEF SoundMoment
  <2>2. ~Live(Moment.documents[req.doc])
    BY <1>3, <1>5, <1>7, <2>1, NowSeen, BytesGone
  <2>3. Gone(req.c, req.doc)
    BY <1>3, <2>2, NowSeen, GoneIs
  <2> QED
    BY <1>2, <1>3, <1>7, <2>3, PublicMissOK DEF RawBytes
<1> QED
  BY <1>6, <1>7

LEMMA ShellPrincipalOK ==
  ASSUME Reading, ShellPrincipal
  PROVE  Answered \/ Proceeds
<1> DEFINE principal == PagePrincipal(req.c)
<1>1. req.step = "shell_principal" /\ "shell_principal" \in StepsOf(req.door) /\ req.door \in HttpDoors
      /\ req \in HttpRequest
  BY AtReading DEF ShellPrincipal
<1>2. req.door \in {"doc", "slug"}
  BY <1>1 DEF StepsOf, HttpDoors, RecordDoors, PublicDoors, SlugDoors, OperatorPages, RawSteps, TargetSteps
<1>3. Found(req) /\ req.doc \in Docs
  BY <1>1, <1>2 DEF Reading, Placed, Found, SlugDoors
<1>4. PICK m \in seen : /\ Live(m.documents[req.doc]) /\ req.row = m.documents[req.doc]
                        /\ req.door = "slug" => req.row.slug = req.target
  BY <1>1 DEF Reading, Learned, RowSteps, RowRead
<1>5. principal # "anonymous" => Known(m, req.c)
  BY KnownBefore DEF PagePrincipal
<1>6. CASE CanRead(principal, req.row.visibility)
  <2>1. Reads(m, req.c, req.doc)
    BY <1>4, <1>5, <1>6 DEF CanRead, Reads
  <2>2. Deliver(200, {<<req.doc, ServedVersion(m.documents[req.doc])>>}, None, "shown")
    BY <1>4, <1>6 DEF ShellPrincipal, Shows
  <2> QED
    BY <1>2, <1>3, <1>4, <2>1, <2>2, PublicShowOK
<1>7. CASE ~CanRead(principal, req.row.visibility)
  <2>1. req.c.bearer = None /\ env.keys \subseteq Keys
    BY <1>1 DEF Reading, Placed, HasAuthorization, World, SoundStore, Env
  <2>2. ~AuthenticateAgent(env, req.c.bearer)
    BY <2>1, DoorsAssumption DEF DoorsAssumption, AuthenticateAgent, AgentKey
  <2>3. req.row.visibility # "public" /\ AuthenticateOperatorRequest(env, req.c) = "none"
    BY <1>7 DEF CanRead, PagePrincipal
  <2>4. ~Known(Moment, req.c)
    BY <2>2, <2>3, NowSeen DEF Known, ResolvePrincipal
  <2>5. Gone(req.c, req.doc)
    BY <1>3, <1>4, <2>3, <2>4, NowSeen, GoneIs
  <2> QED
    BY <1>2, <1>3, <1>7, <2>5, PublicMissOK DEF ShellPrincipal
<1> QED
  BY <1>6, <1>7

LEMMA HomeOK ==
  ASSUME Reading, ServeHomepage
  PROVE  Answered \/ Proceeds
<1> DEFINE d == scene.homepage
<1>1. req.step = "home" /\ "home" \in StepsOf(req.door) /\ req.door \in HttpDoors
  BY AtReading DEF ServeHomepage
<1>2. req.door = "home" /\ d \in Docs \union {None}
  BY <1>1 DEF StepsOf, HttpDoors, RecordDoors, PublicDoors, SlugDoors, OperatorPages, RawSteps, TargetSteps,
              Reading, World, SessionsInv, SoundScene
<1>3. Blind(Moment) \in Blinds /\ Moment \in seen
  BY NowSeen DEF Blinds
<1>4. ~Known(Moment, Anonymous)
  <2>1. ~AuthenticateOperator(env, Anonymous.bearer) /\ ~AuthenticateAgent(env, Anonymous.bearer)
    BY DoorsAssumption DEF DoorsAssumption, AuthenticateOperator, AuthenticateAgent, OperatorToken, AgentKey,
          Anonymous, Reading, World, SoundStore, Env
  <2>2. ~VerifySessionCookieValue(env, Anonymous.cookie)
    BY DEF VerifySessionCookieValue, Anonymous
  <2> QED
    BY <2>1, <2>2, NowSeen, Principals DEF Known
<1>5. CASE d # None /\ Live(documents[d]) /\ CanRead("anonymous", documents[d].visibility)
  <2> DEFINE n == ServedVersion(documents[d])
             a == AnswerOf(req, 200, {<<d, n>>}, None, "shown")
  <2>1. Deliver(200, {<<d, n>>}, None, "shown")
    BY <1>5 DEF ServeHomepage, Shows
  <2>2. a.door = "home" /\ a.told = {<<d, n>>} /\ a.current = None /\ a.how = "shown"
    BY <1>2, AnswerIs
  <2>3. d \in Docs /\ documents[d].visibility = "public" /\ SoundRow(documents[d])
    BY <1>2, <1>5 DEF CanRead, Reading, World, SoundStore
  <2>4. Live(documents[d]) /\ n = Shown(documents[d])
    BY <1>5, <2>3, ServedIs
  <2> HIDE DEF n, a
  <2>5. a.door \in PublicDoors \ (OperatorPages \union SlugDoors)
    BY <2>2 DEF PublicDoors, OperatorPages, SlugDoors
  <2>6. ASSUME NEW M, NEW m \in M, m.documents[d] = documents[d]
        PROVE  TellsTrue(a, d, n, M)
    BY <2>2, <2>3, <2>4, <2>5, <2>6, SMT DEF TellsTrue, Reads
  <2>7. Moment.documents[d] = documents[d] /\ Blind(Moment).documents[d] = documents[d]
    BY <1>3, <2>3, NowSeen, SeenSound
  <2>8. Right(a)
    BY <1>3, <2>2, <2>6, <2>7, ToldRight
  <2> QED
    BY <2>1, <2>8, Delivered DEF a
<1>6. CASE ~(d # None /\ Live(documents[d]) /\ CanRead("anonymous", documents[d].visibility))
  <2> DEFINE a == AnswerOf(req, 200, {}, None, "placeholder")
  <2>1. Deliver(200, {}, None, "placeholder")
    BY <1>6 DEF ServeHomepage
  <2>2. a.told = {} /\ a.how = "placeholder" /\ a.status = 200
    BY AnswerIs
  <2> HIDE DEF a
  <2>3. d = None \/ ~Reads(Moment, Anonymous, d)
    BY <1>4, <1>6, NowSeen DEF Reads, CanRead
  <2>4. d = None \/ ~Reads(Blind(Moment), Anonymous, d)
    BY <1>2, <1>3, <1>4, <2>3, SeenSound DEF Reads, Known, Vacant, Live
  <2>5. RefusesTrue(a, scene.homepage, seen) /\ RefusesTrue(a, scene.homepage, Blinds)
    BY <1>3, <2>2, <2>3, <2>4 DEF RefusesTrue
  <2>6. Right(a)
    BY <2>2, <2>5, RefusedRight
  <2> QED
    BY <2>1, <2>6, Delivered DEF a
<1> QED
  BY <1>5, <1>6

\* The operator's pages and records: whoever is let in was known.
LEMMA OperatedIsKnown ==
  ASSUME Reading, OperatedOnce(req)
  PROVE  KnownOnce(req)
BY OperatorIsKnown DEF OperatedOnce, KnownOnce

LEMMA OperatorPageShow ==
  ASSUME Reading, req.door \in OperatorPages, OperatedOnce(req), NEW m \in seen, Live(m.documents[req.doc]),
         NEW n \in Nat, n > 0, n <= m.documents[req.doc].current_ver,
         NEW status, NEW how \in {"shown", "unchanged"}, how = "unchanged" => IfNoneMatchSatisfied(req.inm, n),
         Deliver(status, {<<req.doc, n>>}, None, how)
  PROVE  Answered
<1> DEFINE d == req.doc
           a == AnswerOf(req, status, {<<d, n>>}, None, how)
<1>1. /\ a.door = req.door /\ a.target = req.target /\ a.c = req.c /\ a.inm = req.inm
      /\ a.told = {<<d, n>>} /\ a.current = None /\ a.how = how
  BY AnswerIs
<1>2. d \in Docs /\ d = req.target /\ req.door \notin SlugDoors \union PublicDoors \union RecordDoors
  BY DEF Reading, Placed, SlugDoors, OperatorPages, PublicDoors, RecordDoors
<1>3. m.documents[d].current_ver \in Nat
  BY <1>2, SeenSound DEF SoundMoment, DocumentRow
<1> HIDE DEF a, d
<1>4. n \in 1..m.documents[d].current_ver
  BY <1>3 DEF d
<1>5. PICK k \in seen : Operates(k, req.c)
  BY DEF OperatedOnce
<1>6. a.how = "unchanged" => n \in a.inm \/ Star \in a.inm
  BY <1>1 DEF IfNoneMatchSatisfied
<1>7. Live(m.documents[d])
  BY DEF d
<1>8. ResolvePrincipal(k.env, a.c) = "operator"
  BY <1>1, <1>5 DEF Operates
<1>9. TellsTrue(a, d, n, seen)
  BY <1>1, <1>2, <1>4, <1>6, <1>7, <1>8, SMT DEF TellsTrue, RecordDoors
<1>10. Right(a)
  BY <1>1, <1>9, OperatedIsKnown, KnownRight DEF KnownOnce
<1> QED
  BY <1>10, Delivered DEF a, d

LEMMA VersionGateOK ==
  ASSUME Reading, VersionGate
  PROVE  Answered \/ Proceeds
<1>1. req.step = "page_operator" /\ "page_operator" \in StepsOf(req.door) /\ req.door \in HttpDoors
      /\ req \in HttpRequest
  BY AtReading DEF VersionGate
<1>2. req.door \in OperatorPages
  BY <1>1 DEF StepsOf, HttpDoors, RecordDoors, PublicDoors, SlugDoors, OperatorPages, RawSteps, TargetSteps
<1>3. CASE AuthenticateOperatorRequest(env, req.c) # "none"
  <2> DEFINE r == [req EXCEPT !.step = "version_row"]
  <2>1. r \in HttpRequest /\ Same(r, req) /\ r.step = "version_row" /\ r.doc = req.doc
    <3>1. "version_row" \in HttpSteps
      BY DEF HttpSteps
    <3> QED
      BY <3>1, <1>1, PutStep
  <2>2. Continue(r)
    BY <1>3 DEF VersionGate, Go
  <2> HIDE DEF r
  <2>3. Placed(r)
    BY <1>2, <2>1 DEF Reading, Placed, Same, OperatorPages, SlugDoors, StepsOf
  <2>4. OperatedOnce(r)
    BY <1>3, <2>1, NowSeen, KnownBefore DEF OperatedOnce, Same
  <2>5. Learned(r) /\ Untaken(r)
    BY <1>2, <2>1, <2>4 DEF Learned, Untaken, Same, OperatorPages, SlugDoors, RowSteps, TargetSteps, RawSteps
  <2> QED
    BY <2>1, <2>2, <2>3, <2>5, Going
<1>4. CASE AuthenticateOperatorRequest(env, req.c) = "none"
  <2> DEFINE a == AnswerOf(req, 404, {}, None, "refused")
  <2>1. /\ a.door = req.door /\ a.c = req.c /\ a.status = 404 /\ a.told = {} /\ a.how = "refused"
    BY AnswerIs
  <2> HIDE DEF a
  <2>2. ResolvePrincipal(Moment.env, req.c) # "operator" /\ Moment \in seen
    BY <1>4, NowSeen DEF ResolvePrincipal
  <2>3. Blind(Moment) \in Blinds /\ Blind(Moment).env = Moment.env
    BY <2>2, SeenSound DEF Blinds
  <2>4. a.door \in OperatorPages /\ a.door \notin SlugDoors \union {"raw", "doc", "record"}
    BY <1>2, <2>1 DEF OperatorPages, SlugDoors
  <2>5. RefusesTrue(a, scene.homepage, seen) /\ RefusesTrue(a, scene.homepage, Blinds)
    BY <2>1, <2>2, <2>3, <2>4 DEF RefusesTrue
  <2>6. Right(a)
    BY <2>1, <2>5, RefusedRight
  <2> QED
    BY <1>4, <2>6, RefuseIs DEF VersionGate, a
<1> QED
  BY <1>3, <1>4

LEMMA UnlistedOK ==
  ASSUME Reading, req.door \in OperatorPages, OperatedOnce(req), NEW m \in seen,
         ~Live(m.documents[req.doc]) \/ AskedVersion > m.documents[req.doc].current_ver, Refuse(404)
  PROVE  Answered
<1> DEFINE a == AnswerOf(req, 404, {}, None, "refused")
<1>1. /\ a.door = req.door /\ a.c = req.c /\ a.target = req.doc
      /\ a.status = 404 /\ a.told = {} /\ a.how = "refused"
      /\ a.door \in OperatorPages /\ a.door \notin SlugDoors \union {"raw", "doc", "record"}
  BY AnswerIs DEF Reading, Placed, OperatorPages, SlugDoors
<1> HIDE DEF a
<1>2. RefusesTrue(a, scene.homepage, seen)
  BY <1>1 DEF RefusesTrue
<1>3. Right(a)
  BY <1>1, <1>2, OperatedIsKnown, RefusedRight DEF KnownOnce
<1> QED
  BY <1>3, RefuseIs DEF a

LEMMA VersionRowOK ==
  ASSUME Reading, VersionRow
  PROVE  Answered \/ Proceeds
<1>1. req.step = "version_row" /\ "version_row" \in StepsOf(req.door) /\ req.door \in HttpDoors
      /\ req \in HttpRequest
  BY AtReading DEF VersionRow
<1>2. req.door \in OperatorPages
  BY <1>1 DEF StepsOf, HttpDoors, RecordDoors, PublicDoors, SlugDoors, OperatorPages, RawSteps, TargetSteps
<1>3. OperatedOnce(req) /\ req.doc \in Docs
  BY <1>1, <1>2 DEF Reading, Learned, Placed, OperatorPages, SlugDoors
<1>4. (AskedVersion > documents[req.doc].current_ver) <=> ~(AskedVersion <= documents[req.doc].current_ver)
  BY <1>3 DEF Reading, World, SoundStore, DocumentRow, AskedVersion
<1>5. CASE ~Live(documents[req.doc]) \/ AskedVersion > documents[req.doc].current_ver
  <2>1. Refuse(404)
    BY <1>4, <1>5 DEF VersionRow
  <2> QED
    BY <1>2, <1>3, <1>5, <2>1, NowSeen, UnlistedOK
<1>6. CASE Live(documents[req.doc]) /\ AskedVersion <= documents[req.doc].current_ver
  <2>1. CASE req.door = "version_shell"
    <3>1. Deliver(200, {<<req.doc, AskedVersion>>}, None, "shown")
      BY <1>4, <1>6, <2>1 DEF VersionRow, Shows
    <3> QED
      BY <1>2, <1>3, <1>6, <3>1, NowSeen, OperatorPageShow DEF AskedVersion
  <2>2. CASE req.door = "version" /\ IfNoneMatchSatisfied(req.inm, AskedVersion)
    <3>1. Deliver(304, {<<req.doc, AskedVersion>>}, None, "unchanged")
      BY <1>4, <1>6, <2>2 DEF VersionRow
    <3> QED
      BY <1>2, <1>3, <1>6, <2>2, <3>1, NowSeen, OperatorPageShow DEF AskedVersion
  <2>3. CASE req.door = "version" /\ ~IfNoneMatchSatisfied(req.inm, AskedVersion)
    <3> DEFINE r == [req EXCEPT !.step = "version_bytes"]
    <3>1. r \in HttpRequest /\ Same(r, req) /\ r.step = "version_bytes" /\ r.doc = req.doc
      <4>1. "version_bytes" \in HttpSteps
        BY DEF HttpSteps
      <4> QED
        BY <4>1, <1>1, PutStep
    <3>2. Continue(r)
      BY <1>4, <1>6, <2>3 DEF VersionRow, Go
    <3> HIDE DEF r
    <3>3. Placed(r)
      BY <1>2, <2>3, <3>1 DEF Reading, Placed, Same, SlugDoors, StepsOf
    <3>4. OperatedOnce(r)
      BY <1>3, <3>1 DEF OperatedOnce, Same
    <3>5. \E m \in seen : Live(m.documents[r.doc]) /\ AskedVersion <= m.documents[r.doc].current_ver
      BY <1>6, <3>1, NowSeen
    <3>6. Learned(r) /\ Untaken(r)
      BY <2>3, <3>1, <3>4, <3>5 DEF Learned, Untaken, Same, SlugDoors, RowSteps, TargetSteps, RawSteps
    <3> QED
      BY <3>1, <3>2, <3>3, <3>6, Going
  <2> QED
    BY <1>2, <2>1, <2>2, <2>3 DEF OperatorPages
<1> QED
  BY <1>4, <1>5, <1>6

LEMMA VersionBytesOK ==
  ASSUME Reading, VersionBytes
  PROVE  Answered \/ Proceeds
<1>1. req.step = "version_bytes" /\ "version_bytes" \in StepsOf(req.door) /\ req.door \in HttpDoors
  BY AtReading DEF VersionBytes
<1>2. req.door \in OperatorPages
  BY <1>1 DEF StepsOf, HttpDoors, RecordDoors, PublicDoors, SlugDoors, OperatorPages, RawSteps, TargetSteps
<1>3. OperatedOnce(req) /\ req.doc \in Docs
  BY <1>1, <1>2 DEF Reading, Learned, Placed, OperatorPages, SlugDoors
<1>4. PICK m \in seen : Live(m.documents[req.doc]) /\ AskedVersion <= m.documents[req.doc].current_ver
  BY <1>1 DEF Reading, Learned
<1>5. CASE <<req.doc, AskedVersion>> \in blobs
  <2>1. Deliver(200, {<<req.doc, AskedVersion>>}, None, "shown")
    BY <1>5 DEF VersionBytes, Shows
  <2> QED
    BY <1>2, <1>3, <1>4, <2>1, OperatorPageShow DEF AskedVersion
<1>6. CASE <<req.doc, AskedVersion>> \notin blobs
  <2>1. ~Live(documents[req.doc])
    BY <1>3, <1>4, <1>6, BytesGone DEF AskedVersion
  <2>2. Refuse(404)
    BY <1>6 DEF VersionBytes
  <2> QED
    BY <1>2, <1>3, <2>1, <2>2, NowSeen, UnlistedOK
<1> QED
  BY <1>5, <1>6

LEMMA OperatorGateOK ==
  ASSUME Reading, OperatorGate
  PROVE  Answered \/ Proceeds
<1>1. req.step = "operator" /\ "operator" \in StepsOf(req.door) /\ req.door \in HttpDoors
      /\ req \in HttpRequest
  BY AtReading DEF OperatorGate
<1>2. req.door \in RecordDoors /\ req.door \notin SlugDoors
  BY <1>1 DEF StepsOf, HttpDoors, RecordDoors, PublicDoors, SlugDoors, OperatorPages, RawSteps, TargetSteps
<1>3. RequireOperator(env, req.c, FALSE) <=> AuthenticateOperatorRequest(env, req.c) # "none"
  BY RequestKinds DEF RequireOperator
<1>4. CASE AuthenticateOperatorRequest(env, req.c) # "none"
  <2> DEFINE s == IF req.door = "record" THEN "record_row" ELSE "versions_row"
             r == [req EXCEPT !.step = s]
  <2>0. s \in {"record_row", "versions_row"} /\ s \in StepsOf(req.door)
    BY <1>2 DEF StepsOf, RecordDoors
  <2>1. r \in HttpRequest /\ Same(r, req) /\ r.step = s /\ r.doc = req.doc
    <3>1. s \in HttpSteps
      BY <2>0 DEF HttpSteps
    <3> HIDE DEF s
    <3> QED
      BY <3>1, <1>1, PutStep
  <2>2. Continue(r)
    BY <1>3, <1>4 DEF OperatorGate, Go
  <2> HIDE DEF r, s
  <2>3. Placed(r)
    BY <1>2, <2>0, <2>1 DEF Reading, Placed, Same
  <2>4. OperatedOnce(r)
    BY <1>4, <2>1, NowSeen, KnownBefore DEF OperatedOnce, Same
  <2>5. Learned(r) /\ Untaken(r)
    BY <1>2, <2>0, <2>1, <2>4 DEF Learned, Untaken, Same, RecordDoors, RowSteps, TargetSteps, RawSteps
  <2> QED
    BY <2>1, <2>2, <2>3, <2>5, Going
<1>5. CASE AuthenticateOperatorRequest(env, req.c) = "none"
  <2> DEFINE a == AnswerOf(req, 401, {}, None, "refused")
  <2>1. a.door \in RecordDoors /\ a.c = req.c /\ a.status = 401 /\ a.told = {} /\ a.how = "refused"
    BY <1>2, AnswerIs
  <2> HIDE DEF a
  <2>2. ResolvePrincipal(Moment.env, req.c) # "operator" /\ Moment \in seen
    BY <1>5, NowSeen DEF ResolvePrincipal
  <2>3. Blind(Moment) \in Blinds /\ Blind(Moment).env = Moment.env
    BY <2>2, SeenSound DEF Blinds
  <2>4. RefusesTrue(a, scene.homepage, seen) /\ RefusesTrue(a, scene.homepage, Blinds)
    BY <2>1, <2>2, <2>3 DEF RefusesTrue
  <2>5. Right(a)
    BY <2>1, <2>4, RefusedRight
  <2> QED
    BY <1>3, <1>5, <2>5, RefuseIs DEF OperatorGate, a
<1> QED
  BY <1>4, <1>5

\* The newest version, for who is known.
LEMMA NewestShow ==
  ASSUME Reading, req.door \in {"versions", "text", "source", "links", "text_slug"}, Found(req),
         KnownOnce(req), req.door = "versions" => OperatedOnce(req), NEW m \in seen, Live(m.documents[req.doc]),
         Shows(req.doc, m.documents[req.doc].current_ver)
  PROVE  Answered
<1> DEFINE d == req.doc
           n == m.documents[d].current_ver
           a == AnswerOf(req, 200, {<<d, n>>}, None, "shown")
<1>1. /\ a.door = req.door /\ a.target = req.target /\ a.c = req.c
      /\ a.told = {<<d, n>>} /\ a.current = None /\ a.how = "shown"
  BY AnswerIs
<1>2. /\ req.door \in SlugDoors <=> req.door = "text_slug"
      /\ req.door \notin SlugDoors => d = req.target
      /\ req.door \in SlugDoors => NamedOnce(req)
      /\ req.door \notin PublicDoors \union OperatorPages
  BY DEF Reading, Placed, Learned, SlugDoors, OperatorPages, PublicDoors
<1> HIDE DEF a
<1>3. req.door = "versions" => \E k \in seen : ResolvePrincipal(k.env, a.c) = "operator"
  BY <1>1 DEF OperatedOnce, Operates
<1>4. \E k \in seen : Known(k, a.c)
  BY <1>1 DEF KnownOnce
<1>5. req.door \in SlugDoors => \E k \in seen : NamedAs(k, a.target, d)
  BY <1>1, <1>2 DEF NamedOnce
<1>6. TellsTrue(a, d, n, seen)
  BY <1>1, <1>2, <1>3, <1>4, <1>5, SMT DEF TellsTrue
<1>7. Right(a)
  BY <1>1, <1>4, <1>6, KnownRight
<1> QED
  BY <1>7, Delivered DEF a, Shows

\* 404 to the operator, of a document there never was.
LEMMA UnbornOK ==
  ASSUME Reading, req.door = "record", OperatedOnce(req), NEW m \in seen,
         m.documents[req.doc].life = "none", Refuse(404)
  PROVE  Answered
<1> DEFINE a == AnswerOf(req, 404, {}, None, "refused")
<1>1. /\ a.door = "record" /\ a.c = req.c /\ a.target = req.doc
      /\ a.status = 404 /\ a.told = {} /\ a.how = "refused"
  BY AnswerIs DEF Reading, Placed, SlugDoors
<1>2. a.door \notin SlugDoors \union OperatorPages \union {"raw", "doc"}
  BY <1>1 DEF SlugDoors, OperatorPages
<1> HIDE DEF a
<1>3. RefusesTrue(a, scene.homepage, seen)
  BY <1>1, <1>2 DEF RefusesTrue
<1>4. Right(a)
  BY <1>1, <1>3, OperatedIsKnown, RefusedRight DEF KnownOnce, OperatedOnce
<1> QED
  BY <1>4, RefuseIs DEF a

\* A record is that of a document there is or was.
LEMMA RecordRowOK ==
  ASSUME Reading, RecordRow
  PROVE  Answered \/ Proceeds
<1>1. req.step = "record_row" /\ "record_row" \in StepsOf(req.door) /\ req.door \in HttpDoors
      /\ req \in HttpRequest
  BY AtReading DEF RecordRow
<1>2. req.door = "record"
  BY <1>1 DEF StepsOf, HttpDoors, RecordDoors, PublicDoors, SlugDoors, OperatorPages, RawSteps, TargetSteps
<1>3. OperatedOnce(req) /\ KnownOnce(req)
  BY <1>1, OperatedIsKnown DEF Reading, Learned, OperatedOnce, KnownOnce
<1>4. CASE documents[req.doc].life = "none"
  <2>1. Refuse(404)
    BY <1>4 DEF RecordRow
  <2> QED
    BY <1>2, <1>3, <1>4, <2>1, NowSeen, UnbornOK
<1>5. CASE documents[req.doc].life # "none"
  <2> DEFINE d == req.doc
             n == documents[d].current_ver
             a == AnswerOf(req, 200, {<<d, n>>}, None, "shown")
  <2>1. Deliver(200, {<<d, n>>}, None, "shown")
    BY <1>5 DEF RecordRow, Shows
  <2>2. /\ a.door = "record" /\ a.target = d /\ a.c = req.c
        /\ a.told = {<<d, n>>} /\ a.current = None /\ a.how = "shown"
    BY <1>2, AnswerIs DEF Reading, Placed, SlugDoors
  <2>3. Moment \in seen /\ Moment.documents[d].life # "none" /\ n = Moment.documents[d].current_ver
    BY <1>5, NowSeen DEF Moment
  <2>4. a.door \notin PublicDoors \union OperatorPages \union SlugDoors
    BY <2>2 DEF PublicDoors, OperatorPages, SlugDoors
  <2> HIDE DEF a, n, d
  <2>5. TellsTrue(a, d, n, seen)
    BY <1>3, <2>2, <2>3, <2>4, SMT DEF TellsTrue, OperatedOnce, Operates
  <2>6. Right(a)
    BY <1>3, <2>2, <2>5, KnownRight DEF KnownOnce
  <2> QED
    BY <2>1, <2>6, Delivered DEF a
<1> QED
  BY <1>4, <1>5

LEMMA VersionsRowOK ==
  ASSUME Reading, VersionsRow
  PROVE  Answered \/ Proceeds
<1>1. req.step = "versions_row" /\ "versions_row" \in StepsOf(req.door) /\ req.door \in HttpDoors
      /\ req \in HttpRequest
  BY AtReading DEF VersionsRow
<1>2. req.door = "versions" /\ Found(req)
  BY <1>1 DEF StepsOf, HttpDoors, RecordDoors, PublicDoors, SlugDoors, OperatorPages, RawSteps, TargetSteps, Found
<1>3. OperatedOnce(req) /\ KnownOnce(req)
  BY <1>1, OperatedIsKnown DEF Reading, Learned
<1>4. CASE Live(documents[req.doc])
  <2>1. Shows(req.doc, documents[req.doc].current_ver)
    BY <1>4 DEF VersionsRow
  <2> QED
    BY <1>2, <1>3, <1>4, <2>1, NowSeen, NewestShow
<1>5. CASE ~Live(documents[req.doc])
  <2>1. Refuse(404)
    BY <1>5 DEF VersionsRow
  <2> QED
    BY <1>2, <1>5, <2>1, NowSeen, MissingRight, RefuseIs DEF SlugDoors
<1> QED
  BY <1>4, <1>5

LEMMA CurrentRowOK ==
  ASSUME Reading, CurrentRow
  PROVE  Answered \/ Proceeds
<1>1. req.step = "current" /\ "current" \in StepsOf(req.door) /\ req.door \in HttpDoors
      /\ req \in HttpRequest
  BY AtReading DEF CurrentRow
<1>2. req.door \in {"text", "source", "links", "text_slug"} /\ Found(req)
  BY <1>1 DEF StepsOf, HttpDoors, RecordDoors, PublicDoors, SlugDoors, OperatorPages, RawSteps, TargetSteps, Found
<1>3. KnownOnce(req)
  BY <1>1, <1>2 DEF Reading, Learned
<1>4. CASE Live(documents[req.doc]) /\ req.door = "links"
  <2>1. Shows(req.doc, documents[req.doc].current_ver)
    BY <1>4 DEF CurrentRow
  <2> QED
    BY <1>2, <1>3, <1>4, <2>1, NowSeen, NewestShow
<1>5. CASE ~(Live(documents[req.doc]) /\ req.door = "links")
  <2>1. FetchRow("current_bytes", 404)
    BY <1>5 DEF CurrentRow
  <2>2. "current_bytes" \in StepsOf(req.door)
    BY <1>2 DEF StepsOf
  <2> QED
    BY <1>2, <1>3, <2>1, <2>2, FetchOK
<1> QED
  BY <1>4, <1>5

LEMMA CurrentBytesOK ==
  ASSUME Reading, CurrentBytes
  PROVE  Answered \/ Proceeds
<1> DEFINE n == req.row.current_ver
<1>1. req.step = "current_bytes" /\ "current_bytes" \in StepsOf(req.door) /\ req.door \in HttpDoors
      /\ req \in HttpRequest
  BY AtReading DEF CurrentBytes
<1>2. req.door \in {"text", "source", "links", "text_slug"} /\ Found(req)
  BY <1>1 DEF StepsOf, HttpDoors, RecordDoors, PublicDoors, SlugDoors, OperatorPages, RawSteps, TargetSteps, Found
<1>3. KnownOnce(req) /\ req.doc \in Docs
  BY <1>1, <1>2 DEF Reading, Learned, Placed, SlugDoors
<1>4. PICK m \in seen : Live(m.documents[req.doc]) /\ req.row = m.documents[req.doc]
  BY <1>1 DEF Reading, Learned, RowSteps, RowRead
<1>5. CASE <<req.doc, n>> \in blobs
  <2>1. Shows(req.doc, m.documents[req.doc].current_ver)
    BY <1>4, <1>5 DEF CurrentBytes
  <2> QED
    BY <1>2, <1>3, <1>4, <2>1, NewestShow
<1>6. CASE <<req.doc, n>> \notin blobs
  <2>0. SoundRow(m.documents[req.doc])
    BY <1>3, SeenSound DEF SoundMoment
  <2>1. n \in Nat /\ n > 0 /\ n <= m.documents[req.doc].current_ver
    BY <1>4, <2>0 DEF SoundRow, DocumentRow
  <2>2. ~Live(documents[req.doc])
    BY <1>3, <1>4, <1>6, <2>1, BytesGone
  <2>3. Refuse(IF req.door = "source" THEN 409 ELSE 404)
    BY <1>6 DEF CurrentBytes
  <2>4. CASE req.door \in {"text", "links"}
    <3>1. Refuse(404)
      BY <2>3, <2>4
    <3> QED
      BY <2>2, <2>4, <3>1, NowSeen, MissingRight, RefuseIs DEF SlugDoors
  <2>5. CASE req.door = "text_slug"
    <3>1. Refuse(404)
      BY <2>3, <2>5
    <3>2. Gone(req.c, req.doc) /\ NamedOnce(req) /\ req.door \in SlugDoors
      BY <1>2, <1>3, <2>2, <2>5, NowSeen, GoneIs DEF Reading, Learned, SlugDoors
    <3> QED
      BY <1>3, <3>1, <3>2, NameWithheldRight, RefuseIs
  <2>6. CASE req.door = "source"
    <3> DEFINE a == AnswerOf(req, 409, {}, None, "refused")
    <3>1. /\ a.target = req.doc /\ a.c = req.c /\ a.status = 409 /\ a.told = {} /\ a.how = "refused"
      BY <2>6, AnswerIs DEF Reading, Placed, SlugDoors
    <3> HIDE DEF a
    <3>2. ~Live(Moment.documents[a.target]) /\ Live(m.documents[a.target]) /\ Moment \in seen
      BY <1>4, <2>2, <3>1, NowSeen
    <3>3. RefusesTrue(a, scene.homepage, seen)
      BY <3>1, <3>2 DEF RefusesTrue
    <3>4. Right(a)
      BY <1>3, <3>1, <3>3, RefusedRight DEF KnownOnce
    <3> QED
      BY <2>3, <2>6, <3>4, RefuseIs DEF a
  <2> QED
    BY <1>2, <2>4, <2>5, <2>6
<1> QED
  BY <1>5, <1>6

\* The name is no live document's: it is retired, or it is nobody's.
LEMMA NamelessOK ==
  ASSUME Reading, req.step \in {"slug", "name"}, req.door \in SlugDoors, Named(req.target) = {}, Go("tomb"),
         req.door = "text_slug" => KnownOnce(req)
  PROVE  Proceeds
<1> DEFINE r == [req EXCEPT !.step = "tomb"]
<1>1. r \in HttpRequest /\ Same(r, req) /\ r.step = "tomb" /\ r.doc = req.doc
  <2>1. "tomb" \in HttpSteps
    BY DEF HttpSteps
  <2> QED
    BY <2>1, PutStep DEF Reading
<1>2. Continue(r)
  BY DEF Go
<1> HIDE DEF r
<1>3. Placed(r)
  BY <1>1 DEF Reading, Placed, Same, SlugDoors, StepsOf, Found
<1>4. req.target \in Slugs
  BY DEF Reading, Placed
<1>5. \A d \in Docs : documents[d].slug # req.target
  BY <1>4, NoneApart DEF Named, Reading, World, SoundStore, SoundRow
<1>6. Untaken(r)
  BY <1>1, <1>5, NowSeen DEF Untaken, Same, Nobodys
<1>7. KnownOnce(r) <=> KnownOnce(req)
  BY <1>1 DEF KnownOnce, Same
<1>8. Learned(r)
  BY <1>1, <1>7 DEF Learned, Same, SlugDoors, RowSteps, TargetSteps, RawSteps, Found
<1> QED
  BY <1>1, <1>2, <1>3, <1>6, <1>8, Going

LEMMA ServeBySlugOK ==
  ASSUME Reading, ServeBySlug
  PROVE  Answered \/ Proceeds
<1>1. req.step = "slug" /\ "slug" \in StepsOf(req.door) /\ req.door \in HttpDoors
      /\ req \in HttpRequest
  BY AtReading DEF ServeBySlug
<1>2. req.door = "slug" /\ req.target \in Slugs
  BY <1>1 DEF StepsOf, HttpDoors, RecordDoors, PublicDoors, SlugDoors, OperatorPages, RawSteps, TargetSteps, Reading, Placed
<1>3. CASE Named(req.target) = {} /\ Go("tomb")
  BY <1>1, <1>2, <1>3, NamelessOK DEF SlugDoors
<1>4. ASSUME NEW d \in Named(req.target),
             Continue([req EXCEPT !.doc = d, !.row = documents[d], !.next = "raw",
                         !.step = IF HasAuthorization(req.c) THEN "reader" ELSE "shell_principal"])
      PROVE  Proceeds
  <2> DEFINE row == documents[d]
             step == IF HasAuthorization(req.c) THEN "reader" ELSE "shell_principal"
             r == [req EXCEPT !.doc = d, !.row = row, !.next = "raw", !.step = step]
  <2>1. d \in Docs /\ Live(row) /\ row.slug = req.target
    BY DEF Named
  <2>2. row \in DocumentRow /\ step \in {"reader", "shell_principal"}
        /\ (step = "shell_principal" => ~HasAuthorization(req.c))
    BY <2>1 DEF Reading, World, SoundStore
  <2>3. Continue(r)
    BY <1>4
  <2>4. \E m \in seen : Live(m.documents[d]) /\ row = m.documents[d]
    BY <2>1, NowSeen
  <2>5. \E m \in seen : NamedAs(m, req.target, d)
    BY <2>1, NowSeen DEF NamedAs
  <2> HIDE DEF row, step
  <2>6. /\ r \in HttpRequest /\ Same(r, req) /\ r.step = step /\ r.doc = d /\ r.row = row /\ r.next = "raw"
    BY <1>1, <2>1, <2>2 DEF HttpRequest, Same, HttpSteps
  <2> HIDE DEF r
  <2>7. Placed(r)
    BY <1>2, <2>1, <2>2, <2>6 DEF Placed, Same, SlugDoors, StepsOf, NextsOf
  <2>8. NamedOnce(r)
    BY <2>5, <2>6 DEF NamedOnce, Same
  <2>9. r.step \in RowSteps => RowRead(r)
    BY <2>1, <2>2, <2>4, <2>6 DEF RowRead, Same, RowSteps
  <2>10. Learned(r) /\ Untaken(r)
    BY <1>2, <2>2, <2>6, <2>8, <2>9 DEF Learned, Untaken, Same, TargetSteps, RawSteps
  <2> QED
    BY <2>3, <2>6, <2>7, <2>10, Going
<1> QED
  BY <1>3, <1>4 DEF ServeBySlug

LEMMA TextBySlugOK ==
  ASSUME Reading, TextBySlug
  PROVE  Answered \/ Proceeds
<1>1. req.step = "name" /\ "name" \in StepsOf(req.door) /\ req.door \in HttpDoors
      /\ req \in HttpRequest
  BY AtReading DEF TextBySlug
<1>2. req.door = "text_slug" /\ req.target \in Slugs
  BY <1>1 DEF StepsOf, HttpDoors, RecordDoors, PublicDoors, SlugDoors, OperatorPages, RawSteps, TargetSteps, Reading, Placed
<1>3. KnownOnce(req)
  BY <1>1, <1>2 DEF Reading, Learned
<1>4. CASE Named(req.target) = {} /\ Go("tomb")
  BY <1>1, <1>2, <1>3, <1>4, NamelessOK DEF SlugDoors
<1>5. ASSUME NEW d \in Named(req.target), Continue([req EXCEPT !.doc = d, !.step = "current"])
      PROVE  Proceeds
  <2> DEFINE r == [req EXCEPT !.doc = d, !.step = "current"]
  <2>1. d \in Docs /\ documents[d].slug = req.target
    BY DEF Named
  <2>2. \E m \in seen : NamedAs(m, req.target, d)
    BY <2>1, NowSeen DEF NamedAs
  <2>3. r \in HttpRequest /\ Same(r, req) /\ r.step = "current" /\ r.doc = d
    BY <1>1, <2>1 DEF HttpRequest, Same, HttpSteps
  <2>4. Continue(r)
    BY <1>5
  <2> HIDE DEF r
  <2>5. Placed(r)
    BY <1>2, <2>1, <2>3 DEF Placed, Same, SlugDoors, StepsOf
  <2>6. NamedOnce(r) /\ KnownOnce(r)
    BY <1>3, <2>2, <2>3 DEF NamedOnce, KnownOnce, Same
  <2>7. Learned(r) /\ Untaken(r)
    BY <1>2, <2>3, <2>6 DEF Learned, Untaken, Same, TargetSteps, RawSteps, RowSteps
  <2> QED
    BY <2>3, <2>4, <2>5, <2>7, Going
<1> QED
  BY <1>4, <1>5 DEF TextBySlug

LEMMA SlugDoorSteps ==
  ASSUME Reading, req.step \in TargetSteps \union {"tomb"}
  PROVE  /\ req.door \in SlugDoors /\ req.target \in Slugs
         /\ req.door = "text_slug" => KnownOnce(req)
         /\ HasAuthorization(req.c) /\ req.step # "tomb" => KnownOnce(req)
         /\ req.step \in TargetSteps => req.doc \in Docs /\ NamedOnce(req) /\ ForwardedOnce(req)
<1>1. req.door \in HttpDoors /\ req.step \in StepsOf(req.door)
  BY DEF Reading, Placed, HttpRequest
<1>2. req.door \in {"slug", "text_slug"}
  BY <1>1 DEF StepsOf, HttpDoors, RecordDoors, PublicDoors, SlugDoors, OperatorPages, RawSteps, TargetSteps
<1> QED
  BY <1>2 DEF Reading, Placed, Learned, SlugDoors, Found, TargetSteps, RawSteps

LEMMA FindTombstoneOK ==
  ASSUME Reading, FindTombstone
  PROVE  Answered \/ Proceeds
<1> DEFINE to == slug_tombstones[req.target]
<1>1. req.step = "tomb" /\ req \in HttpRequest
  BY AtReading DEF FindTombstone
<1>2. /\ req.door \in SlugDoors /\ req.target \in Slugs
      /\ req.door = "text_slug" => KnownOnce(req)
  BY <1>1, SlugDoorSteps
<1>3. CASE req.target \notin DOMAIN slug_tombstones
  <2> DEFINE a == AnswerOf(req, 404, {}, None, "refused")
  <2>1. PICK m \in seen : Nobodys(m, req.target)
    BY <1>1, <1>3, NowSeen DEF Reading, Untaken, Retired
  <2>2. /\ a.door = req.door /\ a.target = req.target /\ a.c = req.c
        /\ a.status = 404 /\ a.told = {} /\ a.how = "refused"
        /\ a.door \in SlugDoors /\ a.door \notin {"raw", "doc", "record"} \union OperatorPages
    BY <1>2, AnswerIs DEF SlugDoors, OperatorPages
  <2> HIDE DEF a
  <2>3. Nobodys(Blind(m), req.target) /\ Blind(m) \in Blinds
    BY <1>2, <2>1, SeenSound, NoneApart DEF Nobodys, Retired, Vacant, Blinds
  <2>4. RefusesTrue(a, scene.homepage, seen) /\ RefusesTrue(a, scene.homepage, Blinds)
    BY <2>1, <2>2, <2>3 DEF RefusesTrue, Nobodys
  <2>5. Right(a)
    BY <2>2, <2>4, RefusedRight
  <2> QED
    BY <1>3, <2>5, RefuseIs DEF FindTombstone, a
<1>4. CASE req.target \in DOMAIN slug_tombstones /\ to = None
  <2> DEFINE a == AnswerOf(req, 410, {}, None, "refused")
  <2>1. /\ a.target = req.target /\ a.c = req.c /\ a.status = 410 /\ a.told = {} /\ a.how = "refused"
    BY AnswerIs
  <2> HIDE DEF a
  <2>2. Forwards(Moment, a.target, None) /\ Moment \in seen
    BY <1>4, <2>1, NowSeen DEF Forwards, Retired
  <2>3. Forwards(Blind(Moment), a.target, None) /\ Blind(Moment) \in Blinds
    BY <2>2, SeenSound DEF Forwards, Retired, Blinds
  <2>4. RefusesTrue(a, scene.homepage, seen) /\ RefusesTrue(a, scene.homepage, Blinds)
    BY <2>1, <2>2, <2>3 DEF RefusesTrue
  <2>5. Right(a)
    BY <2>1, <2>4, RefusedRight
  <2> QED
    BY <1>4, <2>5, RefuseIs DEF FindTombstone, a
<1>5. CASE req.target \in DOMAIN slug_tombstones /\ to # None
  <2> DEFINE step == IF req.door = "slug" /\ HasAuthorization(req.c) THEN "reader" ELSE "target"
             r == [req EXCEPT !.doc = to, !.next = "target", !.step = step]
  <2>1. to \in Docs
    BY <1>5 DEF Reading, World, SoundStore, SoundNames
  <2>2. Continue(r)
    BY <1>5 DEF FindTombstone
  <2>3. \E m \in seen : Forwards(m, req.target, to)
    BY <1>5, NowSeen DEF Forwards, Retired
  <2>4. \E m \in seen : NamedAs(m, req.target, to)
    BY <2>3 DEF NamedAs
  <2>5. step \in {"reader", "target"} /\ (step = "reader" <=> req.door = "slug" /\ HasAuthorization(req.c))
    OBVIOUS
  <2> HIDE DEF to, step
  <2>6. r \in HttpRequest /\ Same(r, req) /\ r.step = step /\ r.doc = to /\ r.next = "target"
    BY <1>1, <2>1, <2>5 DEF HttpRequest, Same, HttpSteps
  <2> HIDE DEF r
  <2>7. Placed(r)
    BY <1>2, <2>1, <2>5, <2>6 DEF Placed, Same, SlugDoors, StepsOf, NextsOf, TargetSteps
  <2>8. NamedOnce(r) /\ ForwardedOnce(r) /\ (KnownOnce(r) <=> KnownOnce(req))
    BY <2>3, <2>4, <2>6 DEF NamedOnce, ForwardedOnce, KnownOnce, Same
  <2>9. Learned(r) /\ Untaken(r)
    BY <1>2, <2>5, <2>6, <2>8 DEF Learned, Untaken, Same, TargetSteps, RawSteps, RowSteps, SlugDoors
  <2> QED
    BY <2>2, <2>6, <2>7, <2>9, Going
<1> QED
  BY <1>3, <1>4, <1>5

\* 410: the retired name redirects to what he who asks may not know of.
LEMMA RedirectGone ==
  ASSUME Reading, req.step \in TargetSteps, Gone(req.c, req.doc), Refuse(410)
  PROVE  Answered
<1> DEFINE a == AnswerOf(req, 410, {}, None, "refused")
<1>1. /\ a.target = req.target /\ a.c = req.c /\ a.status = 410 /\ a.told = {} /\ a.how = "refused"
  BY AnswerIs
<1> HIDE DEF a
<1>2. req.doc \in Docs /\ ForwardedOnce(req)
  BY SlugDoorSteps
<1>3. PICK m \in seen : Forwards(m, req.target, req.doc)
  BY <1>2 DEF ForwardedOnce
<1>4. Forwards(Blind(m), req.target, req.doc) /\ Blind(m) \in Blinds
  BY <1>3, SeenSound DEF Forwards, Retired, Blinds
<1>5. RefusesTrue(a, scene.homepage, seen) /\ RefusesTrue(a, scene.homepage, Blinds)
  BY <1>1, <1>2, <1>3, <1>4 DEF RefusesTrue, Gone
<1>6. Right(a)
  BY <1>1, <1>5, RefusedRight
<1> QED
  BY <1>6, RefuseIs DEF a

\* The redirect is told, or followed by who was checked.
LEMMA RedirectedOK ==
  ASSUME Reading, req.step \in {"target_principal", "target_row"}, NEW m \in seen, Reads(m, req.c, req.doc),
         Redirected
  PROVE  Answered \/ Proceeds
<1>1. /\ req.door \in {"slug", "text_slug"} /\ req.door \in SlugDoors /\ req.target \in Slugs
      /\ req.doc \in Docs /\ NamedOnce(req)
      /\ req.door = "text_slug" \/ HasAuthorization(req.c) => KnownOnce(req)
  BY SlugDoorSteps DEF TargetSteps, SlugDoors
<1>2. CASE req.follow /\ (req.door = "text_slug" \/ HasAuthorization(req.c))
  <2> DEFINE step == IF req.door = "text_slug" THEN "current" ELSE "raw"
             r == [req EXCEPT !.step = step]
  <2>1. step \in HttpSteps
    BY DEF HttpSteps
  <2>2. r \in HttpRequest /\ Same(r, req) /\ r.step = step /\ r.doc = req.doc
    BY <2>1, PutStep DEF Reading
  <2>3. Continue(r)
    BY <1>2 DEF Redirected, Go
  <2> HIDE DEF r
  <2>4. Placed(r)
    BY <1>1, <2>2 DEF Placed, Same, SlugDoors, StepsOf, RawSteps
  <2>5. NamedOnce(r) /\ KnownOnce(r)
    BY <1>1, <1>2, <2>2 DEF NamedOnce, KnownOnce, Same
  <2>6. Learned(r) /\ Untaken(r)
    BY <1>1, <2>2, <2>5 DEF Learned, Untaken, Same, TargetSteps, RawSteps, RowSteps
  <2> QED
    BY <2>2, <2>3, <2>4, <2>6, Going
<1>3. CASE ~(req.follow /\ (req.door = "text_slug" \/ HasAuthorization(req.c)))
  <2> DEFINE status == IF req.door = "text_slug" \/ HasAuthorization(req.c) THEN 409 ELSE 200
             n == ServedVersion(req.row)
             d == req.doc
             a == AnswerOf(req, status, {<<d, n>>}, None, "redirected")
  <2>1. Deliver(status, {<<d, n>>}, None, "redirected")
    BY <1>3 DEF Redirected
  <2>2. /\ a.door = req.door /\ a.target = req.target /\ a.c = req.c
        /\ a.told = {<<d, n>>} /\ a.current = None /\ a.how = "redirected"
    BY AnswerIs
  <2>3. PICK k \in seen : Live(k.documents[d]) /\ req.row = k.documents[d]
    BY DEF Reading, Learned, RowSteps, RowRead
  <2>4. n = Shown(k.documents[d])
    BY <1>1, <2>3, SeenSound, ServedIs DEF SoundMoment
  <2>5. req.door # "home" /\ Reads(m, req.c, d)
    BY <1>1
  <2> HIDE DEF status, a, n, d
  <2>6. \E j \in seen : NamedAs(j, a.target, d)
    BY <1>1, <2>2 DEF NamedOnce, d
  <2>7. TellsTrue(a, d, n, seen)
    BY <1>1, <2>2, <2>3, <2>4, <2>5, <2>6, SMT DEF TellsTrue, SlugDoors, PublicDoors, OperatorPages
  <2>8. Right(a)
    BY <2>2, <2>7, ToldRight
  <2> QED
    BY <2>1, <2>8, Delivered DEF a
<1> QED
  BY <1>2, <1>3

LEMMA ResolveRedirectTargetOK ==
  ASSUME Reading, ResolveRedirectTarget
  PROVE  Answered \/ Proceeds
<1>1. req.step = "target" /\ req \in HttpRequest
  BY AtReading DEF ResolveRedirectTarget
<1>2. /\ req.door \in SlugDoors /\ req.target \in Slugs /\ req.doc \in Docs
      /\ NamedOnce(req) /\ ForwardedOnce(req)
      /\ req.door = "text_slug" => KnownOnce(req)
      /\ HasAuthorization(req.c) => KnownOnce(req)
  BY <1>1, SlugDoorSteps DEF TargetSteps
<1>3. CASE Live(documents[req.doc])
  <2> DEFINE row == documents[req.doc]
             r == [req EXCEPT !.row = row, !.step = "target_principal"]
  <2>1. row \in DocumentRow
    BY <1>2 DEF Reading, World, SoundStore
  <2>2. Continue(r)
    BY <1>3 DEF ResolveRedirectTarget, IsTarget
  <2>3. \E m \in seen : Live(m.documents[req.doc]) /\ row = m.documents[req.doc]
    BY <1>3, NowSeen
  <2> HIDE DEF row
  <2>4. /\ r \in HttpRequest /\ Same(r, req) /\ r.step = "target_principal" /\ r.doc = req.doc
        /\ r.row = row
    BY <1>1, <2>1 DEF HttpRequest, Same, HttpSteps
  <2> HIDE DEF r
  <2>5. Placed(r)
    BY <1>2, <2>4 DEF Placed, Same, SlugDoors, StepsOf, TargetSteps
  <2>6. /\ NamedOnce(r) /\ ForwardedOnce(r) /\ RowRead(r) /\ (KnownOnce(r) <=> KnownOnce(req))
    BY <1>2, <2>3, <2>4 DEF NamedOnce, ForwardedOnce, KnownOnce, RowRead, Same
  <2>7. Learned(r) /\ Untaken(r)
    BY <1>2, <2>4, <2>6 DEF Learned, Untaken, Same, RawSteps, SlugDoors
  <2> QED
    BY <2>2, <2>4, <2>5, <2>7, Going
<1>4. CASE ~Live(documents[req.doc])
  <2>1. Refuse(410)
    BY <1>4 DEF ResolveRedirectTarget, IsTarget
  <2>2. Gone(req.c, req.doc)
    BY <1>2, <1>4, NowSeen, GoneIs
  <2> QED
    BY <1>1, <2>1, <2>2, RedirectGone DEF TargetSteps
<1> QED
  BY <1>3, <1>4

LEMMA TargetPrincipalOK ==
  ASSUME Reading, TargetPrincipal
  PROVE  Answered \/ Proceeds
<1>1. req.step = "target_principal" /\ req \in HttpRequest
  BY AtReading DEF TargetPrincipal
<1>2. /\ req.door \in SlugDoors /\ req.target \in Slugs /\ req.doc \in Docs
      /\ NamedOnce(req) /\ ForwardedOnce(req)
      /\ req.door = "text_slug" => KnownOnce(req)
      /\ HasAuthorization(req.c) => KnownOnce(req)
  BY <1>1, SlugDoorSteps DEF TargetSteps
<1>3. PICK m \in seen : Live(m.documents[req.doc]) /\ req.row = m.documents[req.doc]
  BY <1>1 DEF Reading, Learned, RowSteps, RowRead
<1>4. CASE ResolvePrincipal(env, req.c) # "anonymous"
  <2>1. Reads(m, req.c, req.doc)
    BY <1>3, <1>4, KnownBefore DEF Reads
  <2> QED
    BY <1>1, <1>4, <2>1, RedirectedOK DEF TargetPrincipal
<1>5. CASE ResolvePrincipal(env, req.c) = "anonymous"
  <2> DEFINE r == [req EXCEPT !.step = "target_row"]
  <2>1. r \in HttpRequest /\ Same(r, req) /\ r.step = "target_row" /\ r.doc = req.doc /\ r.row = req.row
    <3>1. "target_row" \in HttpSteps
      BY DEF HttpSteps
    <3> QED
      BY <3>1, <1>1, PutStep
  <2>2. Continue(r)
    BY <1>5 DEF TargetPrincipal, Go
  <2> HIDE DEF r
  <2>3. Placed(r)
    BY <1>2, <2>1 DEF Placed, Same, SlugDoors, StepsOf, TargetSteps
  <2>4. /\ NamedOnce(r) /\ ForwardedOnce(r) /\ RowRead(r) /\ (KnownOnce(r) <=> KnownOnce(req))
    BY <1>2, <1>3, <2>1 DEF NamedOnce, ForwardedOnce, KnownOnce, RowRead, Same
  <2>5. \E k \in seen : ~Known(k, r.c)
    BY <1>5, <2>1, NowSeen DEF Known, Same
  <2>6. Learned(r) /\ Untaken(r)
    BY <1>2, <2>1, <2>4, <2>5 DEF Learned, Untaken, Same, RawSteps, SlugDoors
  <2> QED
    BY <2>1, <2>2, <2>3, <2>6, Going
<1> QED
  BY <1>4, <1>5

LEMMA TargetRowOK ==
  ASSUME Reading, TargetRow
  PROVE  Answered \/ Proceeds
<1>1. req.step = "target_row" /\ req \in HttpRequest
  BY AtReading DEF TargetRow
<1>2. req.doc \in Docs
  BY <1>1, SlugDoorSteps DEF TargetSteps
<1>3. CASE Live(documents[req.doc]) /\ CanRead("anonymous", documents[req.doc].visibility)
  <2>1. Reads(Moment, req.c, req.doc)
    BY <1>3, NowSeen DEF Reads, CanRead
  <2> QED
    BY <1>1, <1>3, <2>1, NowSeen, RedirectedOK DEF TargetRow
<1>4. CASE ~(Live(documents[req.doc]) /\ CanRead("anonymous", documents[req.doc].visibility))
  <2>1. PICK k \in seen : ~Known(k, req.c)
    BY <1>1 DEF Reading, Learned
  <2>2. ~Live(documents[req.doc]) \/ documents[req.doc].visibility # "public"
    BY <1>4 DEF CanRead
  <2>3. Gone(req.c, req.doc)
    BY <1>2, <2>1, <2>2, NowSeen, GoneIs
  <2>4. Refuse(410)
    BY <1>4 DEF TargetRow
  <2> QED
    BY <1>1, <2>3, <2>4, RedirectGone DEF TargetSteps
<1> QED
  BY <1>3, <1>4

LEMMA ReadStepOK ==
  ASSUME Reading, ReadStep
  PROVE  /\ Answered \/ Proceeds
         /\ UNCHANGED <<store, browser, scene, left>>
<1>1. UNCHANGED <<store, browser, scene, left>>
  BY DEF ReadStep, At, ReaderGate, RawRow, RawPrincipal, RawBytes, ShellRow, ShellPrincipal,
         ServeHomepage, VersionGate, VersionRow, VersionBytes, OperatorGate, RecordRow, VersionsRow,
         CurrentRow, CurrentBytes, ServeBySlug, TextBySlug, FindTombstone,
         ResolveRedirectTarget, TargetPrincipal, TargetRow
<1> QED
  BY <1>1, ReaderGateOK, RawRowOK, RawPrincipalOK, RawBytesOK, ShellRowOK, ShellPrincipalOK, HomeOK,
     VersionGateOK, VersionRowOK, VersionBytesOK, OperatorGateOK, RecordRowOK, VersionsRowOK, CurrentRowOK,
     CurrentBytesOK, ServeBySlugOK, TextBySlugOK, FindTombstoneOK, ResolveRedirectTargetOK,
     TargetPrincipalOK, TargetRowOK DEF ReadStep

----------------------------------------------------------------------------
\* The tools' requests: a step that reads a document's row knows which, and
\* past its token a call was let in by an agent's key.

ToolPlaced(r) ==
  \/ r.step = "token" /\ (r.target \in Slugs \/ r.doc \in Docs \/ r.door = "publish_document")
  \/ r.step \in {"resolve", "retired"} /\ r.target \in Slugs
  \/ r.step = "write" /\ r.door = "publish_document"
  \/ /\ r.doc \in Docs /\ r.step \notin {"resolve", "retired"}
     /\ r.door = "publish_document" => r.step = "echo"
LetIn(r) ==
  /\ r.step # "token" => AuthenticateAgent(r.let_in, r.c.bearer)
  /\ r.door = "publish_document" => r.args.slug \in Slugs \union {None} /\ r.target \notin Slugs
ToolInv(r) == r \in ToolRequest /\ ToolPlaced(r) /\ LetIn(r)
Calling == World /\ req # None /\ ToolInv(req)
ToolMoves ==
  \/ req' = None /\ answer'.door = req.door
  \/ answer' = None /\ \E r : req' = r /\ ToolInv(r) /\ r.c = req.c

LEMMA Calls ==
  ASSUME NEW r, ToolInv(r), r.c = req.c, Continue(r)
  PROVE  ToolMoves
BY DEF Continue, ToolMoves

LEMMA Tells ==
  ASSUME NEW status, NEW r, Tell(status, r), r.door = req.door
  PROVE  ToolMoves
BY DEF Tell, ToolMoves

LEMMA TellsError ==
  ASSUME Calling, NEW status, TellError(status)
  PROVE  ToolMoves
<1>1. [req EXCEPT !.how = "refused"].door = req.door
  BY DEF Calling, ToolInv, ToolRequest
<1> QED
  BY <1>1, Tells DEF TellError

LEMMA ToolStepped ==
  ASSUME Calling, NEW s \in ToolSteps
  PROVE  LET r == [req EXCEPT !.step = s] IN
         /\ r \in ToolRequest /\ r.door = req.door /\ r.target = req.target /\ r.c = req.c
         /\ r.args = req.args /\ r.let_in = req.let_in /\ r.doc = req.doc /\ r.step = s
BY DEF Calling, ToolInv, ToolRequest

LEMMA IdentifiedIs ==
  ASSUME NEW r
  PROVE  /\ Identified(r) \in ToolSteps \ {"token", "resolve", "retired"}
         /\ r.door = "publish_document" => Identified(r) = "write"
BY DEF Identified, ToolSteps

LEMMA CallingIs ==
  ASSUME Calling
  PROVE  /\ req \in ToolRequest /\ req.door \in DocumentTools /\ req.step \in ToolSteps /\ req.args \in ToolArgs
         /\ ToolPlaced(req) /\ LetIn(req) /\ req.c \in Credentials /\ req.let_in \in Env
         /\ req.doc \in Docs \union {None}
         /\ env \in Env /\ \A d \in Docs : documents[d] \in DocumentRow /\ SoundRow(documents[d])
BY DEF Calling, ToolInv, ToolRequest, World, SoundStore

LEMMA CheckTokenOK ==
  ASSUME Calling, CheckToken
  PROVE  ToolMoves
<1>1. req.step = "token"
  BY DEF CheckToken, At
<1>2. CASE AuthenticateAgent(env, req.c.bearer)
  <2> DEFINE s == IF req.target \in Slugs THEN "resolve" ELSE Identified(req)
             r == [req EXCEPT !.let_in = env, !.step = s]
  <2>1. Continue(r)
    BY <1>2 DEF CheckToken
  <2>2. s \in ToolSteps \ {"token"} /\ (req.target \in Slugs => s = "resolve")
        /\ (req.target \notin Slugs => s \notin {"resolve", "retired"})
        /\ (req.target \notin Slugs /\ req.door = "publish_document" => s = "write")
    BY IdentifiedIs DEF ToolSteps
  <2> HIDE DEF s
  <2>3. /\ r \in ToolRequest /\ r.door = req.door /\ r.target = req.target /\ r.c = req.c
        /\ r.args = req.args /\ r.let_in = env /\ r.doc = req.doc /\ r.step = s
    BY <2>2, CallingIs DEF ToolRequest
  <2> HIDE DEF r
  <2>4. ToolInv(r)
    BY <1>1, <1>2, <2>2, <2>3, CallingIs DEF ToolInv, ToolPlaced, LetIn
  <2> QED
    BY <2>1, <2>3, <2>4, Calls
<1>3. CASE ~AuthenticateAgent(env, req.c.bearer)
  BY <1>3, TellsError DEF CheckToken
<1> QED
  BY <1>2, <1>3

LEMMA ResolveTargetOK ==
  ASSUME Calling, ResolveTarget
  PROVE  ToolMoves
<1>1. req.step = "resolve"
  BY DEF ResolveTarget, At
<1>2. CASE Named(req.target) = {} /\ Go("retired")
  <2> DEFINE r == [req EXCEPT !.step = "retired"]
  <2>1. /\ r \in ToolRequest /\ r.door = req.door /\ r.target = req.target /\ r.c = req.c
        /\ r.args = req.args /\ r.let_in = req.let_in /\ r.doc = req.doc /\ r.step = "retired"
    BY ToolStepped DEF ToolSteps
  <2> HIDE DEF r
  <2>2. ToolInv(r)
    BY <1>1, <2>1, CallingIs DEF ToolInv, ToolPlaced, LetIn
  <2> QED
    BY <1>2, <2>1, <2>2, Calls DEF Go, r
<1>3. ASSUME NEW d \in Named(req.target), Continue([req EXCEPT !.doc = d, !.step = Identified(req)])
      PROVE  ToolMoves
  <2> DEFINE s == Identified(req)
             r == [req EXCEPT !.doc = d, !.step = s]
  <2>1. s \in ToolSteps \ {"token", "resolve", "retired"} /\ d \in Docs
        /\ (req.door = "publish_document" => s = "write")
    BY IdentifiedIs DEF Named
  <2>2. Continue(r)
    BY <1>3
  <2> HIDE DEF s
  <2>3. /\ r \in ToolRequest /\ r.door = req.door /\ r.target = req.target /\ r.c = req.c
        /\ r.args = req.args /\ r.let_in = req.let_in /\ r.doc = d /\ r.step = s
    BY <2>1, CallingIs DEF ToolRequest
  <2> HIDE DEF r
  <2>4. ToolInv(r)
    BY <1>1, <2>1, <2>3, CallingIs DEF ToolInv, ToolPlaced, LetIn
  <2> QED
    BY <2>2, <2>3, <2>4, Calls
<1> QED
  BY <1>2, <1>3 DEF ResolveTarget

LEMMA FindRetiredOK ==
  ASSUME Calling, FindRetired
  PROVE  ToolMoves
<1> DEFINE to == slug_tombstones[req.target]
<1>1. req.step = "retired"
  BY DEF FindRetired, At
<1>2. req.target \in Slugs /\ req.door # "publish_document"
  BY <1>1, CallingIs DEF ToolPlaced, LetIn
<1>3. CASE req.target \notin DOMAIN slug_tombstones
  BY <1>3, TellsError DEF FindRetired
<1>4. CASE req.target \in DOMAIN slug_tombstones /\ (to = None \/ (req.door \in WriteTools /\ ~IsForwarded(req)))
  BY <1>4, TellsError DEF FindRetired
<1>5. CASE req.target \in DOMAIN slug_tombstones /\ ~(to = None \/ (req.door \in WriteTools /\ ~IsForwarded(req)))
  <2> DEFINE r == [req EXCEPT !.doc = to, !.step = "forwarded"]
  <2>1. to \in Docs
    BY <1>5 DEF Calling, World, SoundStore, SoundNames
  <2>2. Continue(r)
    BY <1>5 DEF FindRetired
  <2> HIDE DEF to
  <2>3. /\ r \in ToolRequest /\ r.door = req.door /\ r.target = req.target /\ r.c = req.c
        /\ r.args = req.args /\ r.let_in = req.let_in /\ r.doc = to /\ r.step = "forwarded"
    <3>1. "forwarded" \in ToolSteps
      BY DEF ToolSteps
    <3> QED
      BY <3>1, <2>1, CallingIs DEF ToolRequest
  <2> HIDE DEF r
  <2>4. ToolInv(r)
    BY <1>1, <1>2, <2>1, <2>3, CallingIs DEF ToolInv, ToolPlaced, LetIn
  <2> QED
    BY <2>2, <2>3, <2>4, Calls
<1> QED
  BY <1>3, <1>4, <1>5

LEMMA ForwardedToOK ==
  ASSUME Calling, ForwardedTo
  PROVE  ToolMoves
<1> DEFINE row == documents[req.doc]
<1>1. req.step = "forwarded"
  BY DEF ForwardedTo, At
<1>2. req.doc \in Docs /\ req.door # "publish_document"
  BY <1>1, CallingIs DEF ToolPlaced
<1>3. CASE ~Live(row)
  <2>1. [req EXCEPT !.doc = None, !.how = "refused"].door = req.door
    BY CallingIs DEF ToolRequest
  <2>2. Tell(410, [req EXCEPT !.doc = None, !.how = "refused"])
    BY <1>3 DEF ForwardedTo
  <2> QED
    BY <2>1, <2>2, Tells
<1>4. CASE Live(row) /\ IsForwarded(req)
  <2> DEFINE s == Identified(req)
             r == [req EXCEPT !.step = s]
  <2>1. s \in ToolSteps \ {"token", "resolve", "retired"}
    BY IdentifiedIs
  <2>2. Continue(r)
    BY <1>4 DEF ForwardedTo, Go
  <2> HIDE DEF s
  <2>3. /\ r \in ToolRequest /\ r.door = req.door /\ r.target = req.target /\ r.c = req.c
        /\ r.args = req.args /\ r.let_in = req.let_in /\ r.doc = req.doc /\ r.step = s
    BY <2>1, ToolStepped
  <2> HIDE DEF r
  <2>4. ToolInv(r)
    BY <1>1, <1>2, <2>1, <2>3, CallingIs DEF ToolInv, ToolPlaced, LetIn
  <2> QED
    BY <2>2, <2>3, <2>4, Calls
<1>5. CASE Live(row) /\ ~IsForwarded(req)
  <2> DEFINE v == IF req.door = "read_document" THEN ServedVersion(row) ELSE None
             r == [req EXCEPT !.how = "redirected", !.version = v]
  <2>1. Tell(IF req.door = "read_document" THEN 200 ELSE 410, r)
    BY <1>5 DEF ForwardedTo
  <2>2. r.door = req.door
    BY CallingIs DEF ToolRequest
  <2> HIDE DEF r
  <2> QED
    BY <2>1, <2>2, Tells
<1> QED
  BY <1>3, <1>4, <1>5

\* A step that goes on with its document, whatever else it notes.
LEMMA ToolNotes ==
  ASSUME Calling, req.doc \in Docs, req.door # "publish_document" \/ req.step = "echo", req.step # "token",
         NEW r, r \in ToolRequest, r.door = req.door, r.target = req.target, r.c = req.c,
         r.args.slug = req.args.slug, r.let_in = req.let_in, r.doc = req.doc,
         r.step \notin {"token", "resolve", "retired"}, r.door = "publish_document" => r.step = "echo",
         Continue(r)
  PROVE  ToolMoves
<1>1. ToolInv(r)
  BY CallingIs DEF ToolInv, ToolPlaced, LetIn
<1> QED
  BY <1>1, Calls

LEMMA ListHistoryOK ==
  ASSUME Calling, ListHistory
  PROVE  ToolMoves
<1>1. req.step = "history"
  BY DEF ListHistory, At
<1>2. req.doc \in Docs /\ req.door # "publish_document"
  BY <1>1, CallingIs DEF ToolPlaced
<1> DEFINE v == IF Live(documents[req.doc]) THEN documents[req.doc].current_ver ELSE None
           r == [req EXCEPT !.step = "echo", !.current = v]
<1>3. v \in Nat \union {None}
  BY <1>2, CallingIs DEF DocumentRow
<1>4. Continue(r)
  BY DEF ListHistory
<1> HIDE DEF v
<1>5. /\ r \in ToolRequest /\ r.door = req.door /\ r.target = req.target /\ r.c = req.c
      /\ r.args = req.args /\ r.let_in = req.let_in /\ r.doc = req.doc /\ r.step = "echo"
  <2>1. "echo" \in ToolSteps
    BY DEF ToolSteps
  <2> QED
    BY <2>1, <1>3, CallingIs DEF ToolRequest
<1> HIDE DEF r
<1> QED
  BY <1>1, <1>2, <1>4, <1>5, ToolNotes

LEMMA CurrentEchoOK ==
  ASSUME Calling, CurrentEcho
  PROVE  ToolMoves
<1>1. req.step = "echo"
  BY DEF CurrentEcho, At
<1>2. req.doc \in Docs
  BY <1>1, CallingIs DEF ToolPlaced
<1> DEFINE e == IF documents[req.doc].life = "none" THEN None ELSE EchoOf(documents[req.doc])
           r == [req EXCEPT !.step = "body", !.echo = e]
<1>3. e \in Echoes \union {None}
  BY <1>2, CallingIs DEF EchoOf, DocumentRow, Echoes
<1>4. IF req.door = "read_document" THEN Continue(r) ELSE Tell(200, r)
  BY DEF CurrentEcho
<1> HIDE DEF e
<1>5. /\ r \in ToolRequest /\ r.door = req.door /\ r.target = req.target /\ r.c = req.c
      /\ r.args = req.args /\ r.let_in = req.let_in /\ r.doc = req.doc /\ r.step = "body"
  <2>1. "body" \in ToolSteps
    BY DEF ToolSteps
  <2> QED
    BY <2>1, <1>3, CallingIs DEF ToolRequest
<1> HIDE DEF r
<1>6. CASE req.door = "read_document"
  BY <1>1, <1>2, <1>4, <1>5, <1>6, ToolNotes
<1>7. CASE req.door # "read_document"
  BY <1>4, <1>5, <1>7, Tells
<1> QED
  BY <1>6, <1>7

LEMMA BodyRowOK ==
  ASSUME Calling, BodyRow
  PROVE  ToolMoves
<1>1. req.step = "body"
  BY DEF BodyRow, At
<1>2. req.doc \in Docs /\ req.door # "publish_document"
  BY <1>1, CallingIs DEF ToolPlaced
<1> DEFINE row == documents[req.doc]
           n == IF req.args.pinned = 0 THEN row.current_ver ELSE req.args.pinned
           r == [req EXCEPT !.version = n, !.step = "body_bytes"]
<1>3. n \in Nat
  BY <1>2, CallingIs DEF DocumentRow, ToolArgs
<1>4. Continue(r) \/ TellError(404)
  BY DEF BodyRow
<1> HIDE DEF n
<1>5. /\ r \in ToolRequest /\ r.door = req.door /\ r.target = req.target /\ r.c = req.c
      /\ r.args = req.args /\ r.let_in = req.let_in /\ r.doc = req.doc /\ r.step = "body_bytes"
  <2>1. "body_bytes" \in ToolSteps
    BY DEF ToolSteps
  <2> QED
    BY <2>1, <1>3, CallingIs DEF ToolRequest
<1> HIDE DEF r
<1>6. CASE Continue(r)
  BY <1>1, <1>2, <1>5, <1>6, ToolNotes
<1> QED
  BY <1>4, <1>6, TellsError

LEMMA BodyBytesOK ==
  ASSUME Calling, BodyBytes
  PROVE  ToolMoves
<1>1. req.step = "body_bytes"
  BY DEF BodyBytes, At
<1>2. req.doc \in Docs /\ req.door # "publish_document"
  BY <1>1, CallingIs DEF ToolPlaced
<1> DEFINE r == [req EXCEPT !.how = "shown", !.step = "echo"]
<1>3. \/ TellError(IF req.args.source THEN 409 ELSE 404)
      \/ IF req.door = "view_document" THEN Continue(r) ELSE Tell(200, r)
  BY DEF BodyBytes
<1>4. /\ r \in ToolRequest /\ r.door = req.door /\ r.target = req.target /\ r.c = req.c
      /\ r.args = req.args /\ r.let_in = req.let_in /\ r.doc = req.doc /\ r.step = "echo"
  <2>1. "echo" \in ToolSteps
    BY DEF ToolSteps
  <2> QED
    BY <2>1, CallingIs DEF ToolRequest
<1> HIDE DEF r
<1>5. CASE Continue(r)
  BY <1>1, <1>2, <1>4, <1>5, ToolNotes
<1>6. CASE Tell(200, r)
  BY <1>4, <1>6, Tells
<1> QED
  BY <1>3, <1>5, <1>6, TellsError

LEMMA EditBaseOK ==
  ASSUME Calling, EditBase
  PROVE  ToolMoves
<1>1. req.step = "base"
  BY DEF EditBase, At
<1>2. req.doc \in Docs /\ req.door # "publish_document"
  BY <1>1, CallingIs DEF ToolPlaced
<1> DEFINE n == documents[req.doc].current_ver
           r == [req EXCEPT !.version = n, !.step = "base_bytes"]
<1>3. n \in Nat
  BY <1>2, CallingIs DEF DocumentRow
<1>4. Continue(r) \/ TellError(404)
  BY DEF EditBase
<1> HIDE DEF n
<1>5. /\ r \in ToolRequest /\ r.door = req.door /\ r.target = req.target /\ r.c = req.c
      /\ r.args = req.args /\ r.let_in = req.let_in /\ r.doc = req.doc /\ r.step = "base_bytes"
  <2>1. "base_bytes" \in ToolSteps
    BY DEF ToolSteps
  <2> QED
    BY <2>1, <1>3, CallingIs DEF ToolRequest
<1> HIDE DEF r
<1>6. CASE Continue(r)
  BY <1>1, <1>2, <1>5, <1>6, ToolNotes
<1> QED
  BY <1>4, <1>6, TellsError

LEMMA EditBytesOK ==
  ASSUME Calling, EditBytes
  PROVE  ToolMoves
<1>1. req.step = "base_bytes"
  BY DEF EditBytes, At
<1>2. req.doc \in Docs /\ req.door # "publish_document"
  BY <1>1, CallingIs DEF ToolPlaced
<1> DEFINE r == [req EXCEPT !.args.expected = req.version, !.step = "write"]
<1>3. CASE <<req.doc, req.version>> \notin blobs
  BY <1>3, TellsError DEF EditBytes
<1>4. CASE <<req.doc, req.version>> \in blobs /\ req.args.expected \notin {0, req.version}
  BY <1>4, TellsError DEF EditBytes
<1>5. CASE <<req.doc, req.version>> \in blobs /\ ~(req.args.expected \notin {0, req.version})
  <2>1. Continue(r)
    BY <1>5 DEF EditBytes
  <2>2. req.version \in Nat
    BY <1>5 DEF Calling, World, SoundStore
  <2> DEFINE args == [req.args EXCEPT !.expected = req.version]
  <2>3. args \in ToolArgs /\ args.slug = req.args.slug
    BY <2>2, CallingIs DEF ToolArgs
  <2>4. r = [req EXCEPT !.args = args, !.step = "write"]
    BY CallingIs DEF ToolRequest
  <2> HIDE DEF args, r
  <2>5. /\ r \in ToolRequest /\ r.door = req.door /\ r.target = req.target /\ r.c = req.c
        /\ r.args = args /\ r.let_in = req.let_in /\ r.doc = req.doc /\ r.step = "write"
    <3>1. "write" \in ToolSteps
      BY DEF ToolSteps
    <3> QED
      BY <3>1, <2>3, <2>4, CallingIs DEF ToolRequest
  <2> QED
    BY <1>1, <1>2, <2>1, <2>3, <2>5, ToolNotes
<1> QED
  BY <1>3, <1>4, <1>5

LEMMA StatusSuccessorOK ==
  ASSUME Calling, StatusSuccessor
  PROVE  ToolMoves
<1>1. req.step = "successor"
  BY DEF StatusSuccessor, At
<1>2. req.doc \in Docs /\ req.door # "publish_document"
  BY <1>1, CallingIs DEF ToolPlaced
<1> DEFINE r == [req EXCEPT !.step = "mark"]
<1>3. Continue(r) \/ TellError(422)
  BY DEF StatusSuccessor, Go
<1>4. /\ r \in ToolRequest /\ r.door = req.door /\ r.target = req.target /\ r.c = req.c
      /\ r.args = req.args /\ r.let_in = req.let_in /\ r.doc = req.doc /\ r.step = "mark"
  BY ToolStepped DEF ToolSteps
<1> HIDE DEF r
<1>5. CASE Continue(r)
  BY <1>1, <1>2, <1>4, <1>5, ToolNotes
<1> QED
  BY <1>3, <1>5, TellsError

LEMMA ReadingStepOK ==
  ASSUME Calling, ReadingStep
  PROVE  ToolMoves /\ UNCHANGED <<store, browser, scene, left>>
<1>1. UNCHANGED <<store, browser, scene, left>>
  BY DEF ReadingStep, At, CheckToken, ResolveTarget, FindRetired, ForwardedTo, ListHistory, CurrentEcho,
         BodyRow, BodyBytes, EditBase, EditBytes, StatusSuccessor
<1> QED
  BY <1>1, CheckTokenOK, ResolveTargetOK, FindRetiredOK, ForwardedToOK, ListHistoryOK, CurrentEchoOK,
     BodyRowOK, BodyBytesOK, EditBaseOK, EditBytesOK, StatusSuccessorOK DEF ReadingStep

LEMMA PerformOK ==
  ASSUME Calling, NEW step \in {"write", "mark"}, NEW d \in Docs, NEW core, Perform(step, d, core),
         CoreOK(core), Gentle(core), core.keys = env.keys, core.issued = env.issued, core.job = job
  PROVE  World' /\ Evolves /\ OnlyTheOperator /\ ToolMoves /\ env' = env
<1>1. /\ documents' = core.documents /\ slug_tombstones' = core.slug_tombstones /\ blobs' = core.blobs
      /\ UNCHANGED <<env, job, browser, scene, left>>
      /\ core.status < 300 => acted' = [c |-> req.c, env |-> req.let_in]
      /\ req.step = step
  BY DEF Perform
<1>2. AuthenticateAgent(req.let_in, req.c.bearer)
  BY <1>1, CallingIs DEF LetIn
<1>3. World' /\ Evolves /\ OnlyTheOperator
  BY <1>1, <1>2, CallingIs, WriteWorld DEF Calling
<1>4. ToolMoves
  <2>1. CASE core.status < 300
    <3> DEFINE how == IF step = "mark" THEN "marked" ELSE "written"
               n == IF step = "mark" THEN None ELSE core.documents[d].current_ver
               r == [req EXCEPT !.doc = d, !.step = "echo", !.how = how, !.version = n]
    <3>1. how \in {"marked", "written"} /\ n \in Nat \union {None}
      BY DEF CoreOK, DocumentRow
    <3>2. req' = r /\ answer' = None
      BY <2>1 DEF Perform
    <3> HIDE DEF how, n
    <3>3. /\ r \in ToolRequest /\ r.door = req.door /\ r.target = req.target /\ r.c = req.c
          /\ r.args = req.args /\ r.let_in = req.let_in /\ r.doc = d /\ r.step = "echo"
      <4>1. "echo" \in ToolSteps
        BY DEF ToolSteps
      <4> QED
        BY <4>1, <3>1, CallingIs DEF ToolRequest
    <3> HIDE DEF r
    <3>4. ToolInv(r)
      BY <1>1, <1>2, <3>3, CallingIs DEF ToolInv, ToolPlaced, LetIn
    <3> QED
      BY <3>2, <3>3, <3>4 DEF ToolMoves
  <2>2. CASE ~(core.status < 300)
    BY <2>2, TellsError DEF Perform
  <2> QED
    BY <2>1, <2>2
<1> QED
  BY <1>1, <1>3, <1>4

LEMMA PublishStep ==
  ASSUME Calling, NEW d \in Docs, Publish(d)
  PROVE  World' /\ Evolves /\ OnlyTheOperator /\ ToolMoves /\ env' = env
<1> DEFINE core == PublishDocumentCore(d, scene.default_visibility, req.args.slug)
<1>1. /\ req.door = "publish_document" /\ documents[d].life = "none" /\ Perform("write", d, core)
  BY DEF Publish
<1>2. req.args.slug \in Slugs \union {None} /\ scene.default_visibility \in {"public", "private"}
  BY <1>1, CallingIs DEF LetIn, Calling, World, SessionsInv, SoundScene
<1>3. CoreOK(core)
  BY <1>1, <1>2, PublishOK DEF Calling, World
<1>4. Gentle(core)
  BY <1>1, <1>2, GentlePublish DEF Calling, World
<1>5. core.keys = env.keys /\ core.issued = env.issued /\ core.job = job
  BY DEF PublishDocumentCore, Fails, Store
<1> HIDE DEF core
<1> QED
  BY <1>1, <1>3, <1>4, <1>5, PerformOK

LEMMA UpdateStep ==
  ASSUME Calling, Update
  PROVE  World' /\ Evolves /\ OnlyTheOperator /\ ToolMoves /\ env' = env
<1> DEFINE core == UpdateDocumentCore(req.doc, req.args.expected, req.args.slug, "agent")
<1>1. req.door \in {"update_document", "edit_document"} /\ Perform("write", req.doc, core)
  BY DEF Update
<1>2. req.step = "write"
  BY <1>1 DEF Perform
<1>3. req.doc \in Docs /\ req.args.expected \in Nat /\ req.args.slug \in Slugs \union {None, Keep}
  BY <1>1, <1>2, CallingIs DEF ToolPlaced, ToolArgs
<1>4. CoreOK(core)
  BY <1>3, UpdateOK DEF Calling, World
<1>5. Gentle(core)
  BY <1>3, GentleUpdate DEF Calling, World
<1>6. core.keys = env.keys /\ core.issued = env.issued /\ core.job = job
  BY <1>3, NamesHold DEF UpdateDocumentCore, Fails, Store, Calling, World, DocumentRow
<1> HIDE DEF core
<1> QED
  BY <1>1, <1>3, <1>4, <1>5, <1>6, PerformOK

LEMMA MarkStep ==
  ASSUME Calling, Mark
  PROVE  World' /\ Evolves /\ OnlyTheOperator /\ ToolMoves /\ env' = env
<1> DEFINE d == req.doc
           row == documents[d]
           by == IF req.args.status = "deprecated" THEN req.args.superseded_by ELSE None
           docs == [documents EXCEPT ![d].status = req.args.status, ![d].superseded_by = by]
           core == IF ~Live(row) THEN Fails(404) ELSE Writes(docs)
<1>1. req.door = "set_document_status" /\ Perform("mark", d, core)
  BY DEF Mark
<1>2. req.step = "mark"
  BY <1>1 DEF Perform
<1>3. d \in Docs /\ req.args.status \in {"active", "deprecated"} /\ by \in Docs \union {None}
  BY <1>1, <1>2, CallingIs DEF ToolPlaced, ToolArgs
<1> DEFINE new == [row EXCEPT !.status = req.args.status, !.superseded_by = by]
<1>4. row \in DocumentRow /\ SoundRow(row)
  BY <1>3, CallingIs
<1>5. docs = [documents EXCEPT ![d] = new]
  BY <1>3 DEF Calling, World, SoundStore
<1> HIDE DEF by
<1>6. /\ new \in DocumentRow /\ new.life = row.life /\ new.visibility = row.visibility
      /\ new.current_ver = row.current_ver /\ new.published_ver = row.published_ver /\ new.slug = row.slug
  BY <1>3, <1>4 DEF DocumentRow
<1> HIDE DEF new
<1>7. docs \in [Docs -> DocumentRow] /\ docs[d] = new /\ \A e \in Docs : e # d => docs[e] = documents[e]
  BY <1>3, <1>5, <1>6 DEF Calling, World, SoundStore
<1> HIDE DEF docs
<1>8. SoundRow(new) /\ RowOn(row, new)
  BY <1>4, <1>6 DEF SoundRow, RowOn, Live, DocumentRow
<1>9. CoreOK(core) /\ Gentle(core) /\ core.keys = env.keys /\ core.issued = env.issued /\ core.job = job
  <2>1. CASE ~Live(row)
    <3>1. CoreOK(Fails(404)) /\ Gentle(Fails(404))
      BY FailsOK, GentleFails, 404 \in Nat DEF Calling, World
    <3> QED
      BY <2>1, <3>1 DEF Fails, Store
  <2>2. CASE Live(row)
    <3>1. Gentle(Writes(docs))
      BY <1>6, <1>7 DEF Gentle, RowAlone, Writes, Store
    <3>2. CoreOK(Writes(docs))
      <4> HIDE DEF core, row
      <4> QED
        BY <1>3, <1>5, <1>6, <1>8, WritesOK DEF row, Calling, World
    <3> QED
      BY <2>2, <3>1, <3>2 DEF Writes, Store
  <2> QED
    BY <2>1, <2>2
<1> HIDE DEF core
<1> QED
  BY <1>1, <1>3, <1>9, PerformOK

HttpInv(r) == r \in HttpRequest /\ Placed(r) /\ Learned(r) /\ Untaken(r)

LEMMA ArriveOK ==
  ASSUME World, NEW door \in scene.doors, NEW c \in Callers,
         NEW target \in IF door \in SlugDoors THEN Slugs ELSE scene.asked,
         NEW inm \in IF door \in {"raw", "version"} THEN scene.tags ELSE {{}},
         NEW follow \in IF door \in SlugDoors THEN scene.follow ELSE {FALSE},
         Arrive(door, target, c, inm, follow)
  PROVE  \E r : req' = r /\ r.c = c /\ HttpInv(r)'
<1> DEFINE s == FirstStep(door, c)
           next == AfterReader(door)
           doc == IF door \in SlugDoors THEN None ELSE target
           r == [door |-> door, target |-> target, c |-> c, inm |-> inm, follow |-> follow,
                 step |-> s, next |-> next, doc |-> doc, row |-> Vacant, who |-> "anonymous"]
<1>1. /\ door \in HttpDoors /\ target \in Docs \union Slugs /\ inm \subseteq Nat /\ follow \in BOOLEAN
      /\ doc \in Docs \union {None} /\ c \in Credentials
      /\ (door \in SlugDoors => target \in Slugs) /\ (door \notin SlugDoors => doc = target /\ target \in Docs)
  BY CallersPast DEF World, SessionsInv, SoundScene
<1>2. next \in {"raw", "name", "current"} /\ (door = "doc" => next = "raw")
      /\ (door = "text_slug" => next = "name") /\ (door \notin {"doc", "text_slug"} => next = "current")
  BY DEF AfterReader
<1>3. /\ door \in {"raw", "slug", "home"} => s = door
      /\ door = "doc" => s \in {"reader", "shell"} /\ (s = "shell" => ~HasAuthorization(c))
      /\ door \in OperatorPages => s = "page_operator"
      /\ door \in RecordDoors => s = "operator"
      /\ door \in {"text_slug", "text", "source", "links"} => s = "reader"
  BY DEF FirstStep, OperatorPages, RecordDoors
<1>4. door \in {"raw", "doc", "home", "slug", "text_slug", "version", "version_shell", "record", "versions",
                "text", "source", "links"}
  BY <1>1 DEF HttpDoors, RecordDoors, PublicDoors, SlugDoors, OperatorPages
<1>5. s \in {"raw", "slug", "home", "reader", "shell", "page_operator", "operator"}
  BY <1>3, <1>4 DEF OperatorPages, RecordDoors
<1>6. Vacant \in DocumentRow
  BY DEF Vacant, DocumentRow
<1> HIDE DEF s, next, doc
<1>7. r \in HttpRequest
  BY <1>1, <1>2, <1>5, <1>6 DEF HttpRequest, HttpSteps
<1>8. /\ r.door = door /\ r.target = target /\ r.c = c /\ r.step = s /\ r.next = next /\ r.doc = doc
      /\ req' = r
  BY DEF Arrive, s, next, doc
<1> HIDE DEF r
<1>9. s \in StepsOf(door)
  BY <1>3, <1>4 DEF StepsOf, RawSteps, TargetSteps, OperatorPages, RecordDoors
<1>10. Placed(r)
  BY <1>1, <1>2, <1>3, <1>4, <1>5, <1>8, <1>9 DEF Placed, Found, NextsOf, SlugDoors, OperatorPages, RecordDoors
<1>11. Learned(r)'
  BY <1>2, <1>3, <1>4, <1>5, <1>8 DEF Learned, Found, TargetSteps, RowSteps, RawSteps, SlugDoors, OperatorPages
<1>12. Untaken(r)'
  BY <1>5, <1>8 DEF Untaken
<1> QED
  BY <1>7, <1>8, <1>10, <1>11, <1>12 DEF HttpInv

LEMMA ArgsAreTyped ==
  ASSUME NEW tool \in DocumentTools, NEW args \in ArgsOf(tool)
  PROVE  args \in ToolArgs /\ (tool = "publish_document" => args.slug \in Slugs \union {None})
<1> DEFINE Flag == IF tool = "read_document" THEN BOOLEAN ELSE {FALSE}
           Replaces == tool \in {"update_document", "edit_document"}
           Marks == tool = "set_document_status"
           pinned == IF tool \in ReadTools THEN {0, AskedVersion} ELSE {0}
           expected == IF Replaces THEN {0, AskedVersion} ELSE {0}
           slug == (IF tool = "publish_document" \/ Replaces THEN Slugs \union {None} ELSE {})
                     \union (IF tool = "publish_document" THEN {} ELSE {Keep})
           status == IF Marks THEN {"active", "deprecated"} ELSE {"active"}
           superseded_by == IF Marks THEN Docs \union {None} ELSE {None}
<1>1. args \in [follow : Flag, history : Flag, source : Flag, pinned : pinned, expected : expected,
                slug : slug, status : status, superseded_by : superseded_by]
  BY DEF ArgsOf
<1>2. Flag \subseteq BOOLEAN
  OBVIOUS
<1>3. pinned \subseteq Nat /\ expected \subseteq Nat
  BY DEF AskedVersion
<1>4. slug \subseteq Slugs \union {None, Keep} /\ (tool = "publish_document" => slug \subseteq Slugs \union {None})
  OBVIOUS
<1>5. status \subseteq {"active", "deprecated"} /\ superseded_by \subseteq Docs \union {None}
  OBVIOUS
<1> HIDE DEF Flag, pinned, expected, slug, status, superseded_by
<1> QED
  BY <1>1, <1>2, <1>3, <1>4, <1>5 DEF ToolArgs

LEMMA CallToolOK ==
  ASSUME World, NEW tool \in DocumentTools, NEW target \in Identities(tool), NEW c \in Callers,
         NEW args \in ArgsOf(tool), CallTool(tool, target, c, args)
  PROVE  \E r : req' = r /\ r.c = c /\ ToolInv(r)
<1> DEFINE doc == IF target \in Docs THEN target ELSE None
           r == [door |-> tool, target |-> target, c |-> c, args |-> args, step |-> "token",
                 let_in |-> env, doc |-> doc, version |-> None, current |-> None, echo |-> None, how |-> None]
<1>1. /\ target \in Docs \union Slugs \union {None} /\ doc \in Docs \union {None}
      /\ tool = "publish_document" => target \notin Slugs
      /\ target \in Slugs \/ doc \in Docs \/ tool = "publish_document"
  BY NoneApart DEF Identities, World, SessionsInv, SoundScene
<1>2. c \in Credentials /\ env \in Env
  BY CallersPast DEF World, SoundStore
<1>3. req' = r
  BY DEF CallTool
<1> HIDE DEF doc
<1>4. r \in ToolRequest
  BY <1>1, <1>2, ArgsAreTyped DEF ToolRequest, ToolSteps
<1>5. /\ r.door = tool /\ r.target = target /\ r.c = c /\ r.args = args /\ r.step = "token" /\ r.doc = doc
  OBVIOUS
<1> HIDE DEF r
<1>6. ToolInv(r)
  BY <1>1, <1>4, <1>5, ArgsAreTyped DEF ToolInv, ToolPlaced, LetIn
<1> QED
  BY <1>3, <1>5, <1>6

----------------------------------------------------------------------------
\* What a request has learned stays learned, whatever moves meanwhile.

LEMMA LearnedStays ==
  ASSUME NEW r, Learned(r), seen \subseteq seen'
  PROVE  Learned(r)'
<1>2. NamedOnce(r) => NamedOnce(r)'
  BY DEF NamedOnce
<1>3. ForwardedOnce(r) => ForwardedOnce(r)'
  BY DEF ForwardedOnce
<1>4. RowRead(r) => RowRead(r)'
  BY DEF RowRead
<1>5. (KnownOnce(r) => KnownOnce(r)') /\ (OperatedOnce(r) => OperatedOnce(r)')
  BY DEF KnownOnce, OperatedOnce
<1> QED
  BY <1>2, <1>3, <1>4, <1>5 DEF Learned

\* A name is released by a change that leaves the rows, and no row has it then.
LEMMA UntakenStays ==
  ASSUME World, World', Evolves, NEW r, Untaken(r), r.target \in Slugs, seen \subseteq seen', Moment' \in seen'
  PROVE  Untaken(r)'
<1> SUFFICES ASSUME r.step = "tomb", ~Retired(Moment', r.target)
             PROVE  \E m \in seen' : Nobodys(m, r.target)
  BY DEF Untaken
<1>1. CASE \E m \in seen : Nobodys(m, r.target)
  BY <1>1
<1>2. CASE Retired(Moment, r.target)
  <2>1. r.target \in DOMAIN slug_tombstones /\ r.target \notin DOMAIN slug_tombstones'
    BY <1>2 DEF Retired, Moment
  <2>2. documents' = documents
    BY <2>1 DEF Evolves
  <2>3. \A d \in Docs : documents[d].slug # r.target
    BY <2>1 DEF World, SoundStore, SoundNames
  <2>4. Nobodys(Moment', r.target)
    BY <2>1, <2>2, <2>3 DEF Nobodys, Moment
  <2> QED
    BY <2>4
<1> QED
  BY <1>1, <1>2 DEF Untaken

LEMMA RequestStays ==
  ASSUME World, World', Evolves, req # None, HttpInv(req) \/ ToolInv(req), seen' = seen \union {Moment'}, req' = req
  PROVE  (HttpInv(req) \/ ToolInv(req))'
<1>1. ASSUME NEW r, r = req, HttpInv(r)
      PROVE  HttpInv(r)'
  <2>1. r.step = "tomb" => r.target \in Slugs
    BY <1>1 DEF HttpInv, Placed, StepsOf, RawSteps, TargetSteps, SlugDoors, HttpRequest, HttpDoors, RecordDoors, PublicDoors, OperatorPages
  <2>2. r \in HttpRequest /\ Placed(r) /\ Learned(r) /\ Untaken(r)
    BY <1>1 DEF HttpInv
  <2>3. Learned(r)'
    BY <2>2, LearnedStays
  <2>4. Untaken(r)'
    <3>1. CASE r.step = "tomb"
      BY <2>1, <2>2, <3>1, UntakenStays
    <3>2. CASE r.step # "tomb"
      BY <3>2 DEF Untaken
    <3> QED
      BY <3>1, <3>2
  <2> QED
    BY <2>2, <2>3, <2>4 DEF HttpInv
<1>2. HttpInv(req) => HttpInv(req)'
  BY <1>1
<1>3. ToolInv(req) => ToolInv(req)'
  OBVIOUS
<1> QED
  BY <1>2, <1>3

----------------------------------------------------------------------------
\* The invariant, and the steps that keep it.

RequestInv == req # None => HttpInv(req) \/ ToolInv(req)
DoorsInv == World /\ SeenInv /\ RequestInv /\ AnswersAreTrue /\ RefusalsAreOpaque

LEMMA InitOK == Init => DoorsInv
<1> SUFFICES ASSUME Init PROVE DoorsInv
  OBVIOUS
<1>1. PICK s \in Scenes :
        /\ scene = s /\ left = s.left
        /\ documents = s.documents /\ slug_tombstones = s.slug_tombstones
        /\ blobs = UNION {{d} \X (1..s.documents[d].current_ver) : d \in Docs}
        /\ env = [token |-> 1, epoch |-> 1, now |-> 0, keys |-> s.keys, issued |-> s.keys]
        /\ logins = {} /\ jar = None /\ page = 0
        /\ req = None /\ job = None /\ seen = {} /\ answer = None /\ acted = None
  BY DEF Init
<1>2. SoundScene(s)
  BY DoorsAssumption DEF DoorsAssumption
<1>3. blobs \subseteq Docs \X Nat
  <2>1. ASSUME NEW d \in Docs PROVE {d} \X (1..s.documents[d].current_ver) \subseteq Docs \X Nat
    <3>1. s.documents[d].current_ver \in Nat
      BY <1>2 DEF SoundScene, DocumentRow
    <3> QED
      BY <2>1, <3>1
  <2> QED
    BY <1>1, <2>1
<1>4. \A d \in Docs : \A n \in 1..documents[d].current_ver : <<d, n>> \in blobs
  BY <1>1
<1>5. env \in Env
  BY <1>1, <1>2 DEF SoundScene, Env
<1>6. SoundStore
  BY <1>1, <1>2, <1>3, <1>4, <1>5 DEF SoundStore, SoundScene
<1>7. SessionsInv
  <2>1. left \in Left
    BY <1>1, <1>2 DEF SoundScene, Left
  <2> QED
    BY <1>1, <1>2, <2>1 DEF SessionsInv
<1> QED
  BY <1>1, <1>6, <1>7 DEF DoorsInv, World, JobInv, SeenInv, RequestInv, AnswersAreTrue, RefusalsAreOpaque

LEMMA WatchIs ==
  ASSUME Watch
  PROVE  /\ req # None => seen' = seen \union {Moment'}
         /\ req = None /\ req' # None => seen' = {Moment'}
BY DEF Watch, Moment

\* A step of anyone but the reader: it leaves the request and answers nobody.
LEMMA OthersKeep ==
  ASSUME DoorsInv, World', Evolves, Watch, req' = req, answer' = None
  PROVE  DoorsInv'
<1>1. AnswersAreTrue' /\ RefusalsAreOpaque'
  BY DEF AnswersAreTrue, RefusalsAreOpaque
<1>2. CASE req = None
  BY <1>1, <1>2 DEF DoorsInv, SeenInv, RequestInv
<1>3. CASE req # None
  <2>1. seen' = seen \union {Moment'}
    BY <1>3, WatchIs
  <2>2. SeenInv'
    BY <1>3, <2>1, SeenGrows DEF DoorsInv
  <2>3. (HttpInv(req) \/ ToolInv(req))'
    BY <1>3, <2>1, RequestStays DEF DoorsInv, RequestInv
  <2> QED
    BY <1>1, <2>2, <2>3 DEF DoorsInv, RequestInv
<1> QED
  BY <1>2, <1>3

LEMMA BeginsKeep ==
  ASSUME DoorsInv, World', Watch, req = None, answer' = None, env' = env,
         NEW c \in Callers, NEW r, req' = r, r.c = c, HttpInv(r)' \/ ToolInv(r)
  PROVE  DoorsInv'
<1>1. AnswersAreTrue' /\ RefusalsAreOpaque'
  BY DEF AnswersAreTrue, RefusalsAreOpaque
<1>2. c \in Credentials /\ Past(c)
  BY CallersPast DEF DoorsInv
<1>3. Past(c)'
  BY <1>2 DEF Past
<1>4. SeenInv'
  <2>1. CASE req' = None
    BY <2>1 DEF SeenInv
  <2>2. CASE req' # None
    <3>1. seen' = {Moment'} /\ req'.c = c
      BY <2>2, WatchIs
    <3>2. Past(req.c)'
      BY <1>3, <3>1 DEF Past
    <3> QED
      BY <1>2, <2>2, <3>1, <3>2, SeenBegins
  <2> QED
    BY <2>1, <2>2
<1>5. RequestInv'
  <2>1. HttpInv(r)' => HttpInv(req)'
    BY DEF HttpInv, Placed, Learned, Untaken, Found, NamedOnce, ForwardedOnce, RowRead, KnownOnce, OperatedOnce
  <2>2. ToolInv(r) => ToolInv(req)'
    OBVIOUS
  <2> QED
    BY <2>1, <2>2 DEF RequestInv
<1> QED
  BY <1>1, <1>4, <1>5 DEF DoorsInv

LEMMA ToolsKeep ==
  ASSUME DoorsInv, Calling, World', Evolves, Watch, ToolMoves
  PROVE  DoorsInv'
<1>1. seen' = seen \union {Moment'}
  BY WatchIs DEF Calling
<1>2. CASE req' = None /\ answer'.door = req.door
  <2>1. answer'.door \notin HttpDoors
    BY <1>2, CallingIs, Steps
  <2> QED
    BY <1>2, <2>1 DEF DoorsInv, SeenInv, RequestInv, AnswersAreTrue, RefusalsAreOpaque
<1>3. CASE answer' = None /\ \E r : req' = r /\ ToolInv(r) /\ r.c = req.c
  <2>1. SeenInv'
    BY <1>1, <1>3, SeenGrows DEF DoorsInv, Calling
  <2>2. RequestInv'
    BY <1>3 DEF RequestInv
  <2> QED
    BY <1>3, <2>1, <2>2 DEF DoorsInv, AnswersAreTrue, RefusalsAreOpaque
<1> QED
  BY <1>2, <1>3 DEF ToolMoves

LEMMA ReadsKeep ==
  ASSUME DoorsInv, Reading, World', Evolves, Watch, Answered \/ Proceeds, UNCHANGED <<store, browser, scene, left>>
  PROVE  DoorsInv'
<1>1. seen' = seen \union {Moment'} /\ Moment' = Moment /\ scene' = scene
  BY WatchIs DEF Reading, store, Moment
<1>2. seen' = seen
  BY <1>1, NowSeen
<1>3. CASE Answered
  <2>1. PICK a : req' = None /\ answer' = a /\ Right(a)
    BY <1>3 DEF Answered
  <2>2. IsTrueOf(a, seen) /\ IsTrueOf(a, seen)'
    BY <1>1, <1>2, <2>1 DEF Right, IsTrueOf
  <2>3. a.how # "redirected" /\ (\A m \in seen' : ~Known(m, a.c)) => IsTrueOf(a, {Blind(m) : m \in seen})'
    BY <1>1, <1>2, <2>1 DEF Right, IsTrueOf, Blinds
  <2>4. AnswersAreTrue'
    BY <2>1, <2>2 DEF AnswersAreTrue, IsTrueOf
  <2>5. RefusalsAreOpaque'
    BY <2>1, <2>3 DEF RefusalsAreOpaque, IsTrueOf
  <2> QED
    BY <2>1, <2>4, <2>5 DEF DoorsInv, SeenInv, RequestInv
<1>4. CASE Proceeds
  <2>1. PICK r : answer' = None /\ req' = r /\ r \in HttpRequest /\ Same(r, req) /\ Placed(r) /\ Learned(r) /\ Untaken(r)
    BY <1>4 DEF Proceeds
  <2>2. SeenInv'
    BY <1>1, <2>1, SeenGrows DEF DoorsInv, Reading, Same
  <2>3. Learned(r)' /\ Untaken(r)'
    BY <1>1, <1>2, <2>1, LearnedStays DEF Untaken
  <2>4. RequestInv'
    <3>1. HttpInv(req)'
      BY <2>1, <2>3 DEF HttpInv, Placed, Learned, Untaken, Found, NamedOnce, ForwardedOnce, RowRead, KnownOnce, OperatedOnce
    <3> QED
      BY <3>1 DEF RequestInv
  <2> QED
    BY <2>1, <2>2, <2>4 DEF DoorsInv, AnswersAreTrue, RefusalsAreOpaque
<1> QED
  BY <1>3, <1>4

LEMMA WhoSteps ==
  ASSUME DoorsInv
  PROVE  /\ ReadStep => Reading
         /\ ReadingStep \/ (\E d \in Docs : Publish(d)) \/ Update \/ Mark => Calling
<1>1. /\ req # None /\ req.step \in HttpSteps => HttpInv(req)
      /\ req # None /\ req.step \in ToolSteps => ToolInv(req)
  <2>1. HttpInv(req) => req.step \in HttpSteps
    BY DEF HttpInv, HttpRequest
  <2>2. ToolInv(req) => req.step \in ToolSteps
    BY DEF ToolInv, ToolRequest
  <2> QED
    BY <2>1, <2>2, Steps DEF DoorsInv, RequestInv
<1>2. ReadStep => req # None /\ req.step \in HttpSteps
  BY DEF ReadStep, At, ReaderGate, RawRow, RawPrincipal, RawBytes, ShellRow, ShellPrincipal,
         ServeHomepage, VersionGate, VersionRow, VersionBytes, OperatorGate, RecordRow, VersionsRow,
         CurrentRow, CurrentBytes, ServeBySlug, TextBySlug, FindTombstone,
         ResolveRedirectTarget, TargetPrincipal, TargetRow, HttpSteps
<1>3. ReadingStep => req # None /\ req.step \in ToolSteps
  BY DEF ReadingStep, At, CheckToken, ResolveTarget, FindRetired, ForwardedTo, ListHistory, CurrentEcho,
         BodyRow, BodyBytes, EditBase, EditBytes, StatusSuccessor, ToolSteps
<1>4. (\E d \in Docs : Publish(d)) \/ Update \/ Mark => req # None /\ req.step \in ToolSteps
  BY DEF Publish, Update, Mark, Perform, ToolSteps
<1> QED
  BY <1>1, <1>2, <1>3, <1>4 DEF DoorsInv, HttpInv, Reading, Calling

LEMMA ChangesLeaveRequests ==
  ASSUME World, NEW c \in Writers, Change(c)
  PROVE  req' = req /\ answer' = None
<1>1. c \in Credentials /\ Held(c)
  BY WritersTyped DEF World
<1>2. Handled(c)
  BY <1>1, ChangeHandled DEF World
<1> QED
  BY <1>2 DEF Handled, Deny, Commit

LEMMA ServeKeeps ==
  ASSUME DoorsInv, Serve, Watch
  PROVE  DoorsInv' /\ OnlyTheOperator
<1>1. CASE ReadStep
  <2>1. Reading /\ UNCHANGED <<store, browser, scene, left>>
    BY <1>1, WhoSteps, ReadStepOK
  <2>2. World' /\ Evolves /\ OnlyTheOperator
    BY <2>1, StillWorld, LeftMoves DEF DoorsInv, store, browser, World, SoundStore
  <2> QED
    BY <1>1, <2>1, <2>2, ReadStepOK, ReadsKeep
<1>2. ASSUME NEW door \in scene.doors, NEW c \in Callers,
             NEW target \in IF door \in SlugDoors THEN Slugs ELSE scene.asked,
             NEW inm \in IF door \in {"raw", "version"} THEN scene.tags ELSE {{}},
             NEW follow \in IF door \in SlugDoors THEN scene.follow ELSE {FALSE},
             Arrive(door, target, c, inm, follow)
      PROVE  DoorsInv' /\ OnlyTheOperator
  <2>1. /\ req = None /\ answer' = None /\ UNCHANGED <<store, browser, scene>>
        /\ left' = [left EXCEPT !.reads = @ - 1]
    BY <1>2 DEF Arrive
  <2>2. World' /\ Evolves /\ OnlyTheOperator
    BY <2>1, StillWorld, LeftMoves DEF DoorsInv, store, browser, World, SoundStore
  <2>3. PICK r : req' = r /\ r.c = c /\ HttpInv(r)'
    BY <1>2, ArriveOK DEF DoorsInv
  <2> QED
    BY <2>1, <2>2, <2>3, BeginsKeep DEF store
<1> QED
  BY <1>1, <1>2 DEF Serve

LEMMA ActKeeps ==
  ASSUME DoorsInv, Act, Watch
  PROVE  DoorsInv' /\ OnlyTheOperator
<1>0. World
  BY DEF DoorsInv
<1>1. CASE Serve
  BY <1>1, ServeKeeps
<1>2. ASSUME NEW c \in Writers, Change(c)
      PROVE  DoorsInv' /\ OnlyTheOperator
  BY <1>0, <1>2, ChangeWorld, ChangesLeaveRequests, OthersKeep
<1>3. CASE FinishJob
  <2>1. req' = req /\ answer' = None
    BY <1>3 DEF FinishJob
  <2> QED
    BY <1>0, <1>3, <2>1, FinishWorld, OthersKeep
<1>4. ASSUME NEW token \in 1..2, PostLogin(token)
      PROVE  DoorsInv' /\ OnlyTheOperator
  <2>1. req' = req /\ answer' = None /\ token \in Nat
    BY <1>4 DEF PostLogin
  <2> QED
    BY <1>0, <1>4, <2>1, LoginWorld, OthersKeep
<1>5. ASSUME NEW c \in {Browser, Elsewhere}, PostLogout(c)
      PROVE  DoorsInv' /\ OnlyTheOperator
  <2>1. req' = req /\ answer' = None
    BY <1>5 DEF PostLogout
  <2> QED
    BY <1>0, <1>5, <2>1, LogoutWorld, OthersKeep
<1>6. CASE ServePage
  <2>1. req' = req /\ answer' = None
    BY <1>6 DEF ServePage
  <2> QED
    BY <1>0, <1>6, <2>1, PageWorld, OthersKeep
<1>7. CASE Rotate(env.token + 1, env.epoch) \/ Rotate(env.token, env.epoch + 1) \/ Tick
  <2>1. req' = req /\ answer' = None
    BY <1>7 DEF Rotate, Tick
  <2> QED
    BY <1>0, <1>7, <2>1, DeployWorld, OthersKeep
<1> QED
  BY <1>1, <1>2, <1>3, <1>4, <1>5, <1>6, <1>7 DEF Act

LEMMA ToolsStep ==
  ASSUME DoorsInv, Watch, Call \/ ReadingStep \/ (\E d \in Docs : Publish(d)) \/ Update \/ Mark
  PROVE  DoorsInv' /\ OnlyTheOperator
<1>1. CASE ReadingStep
  <2>1. Calling /\ ToolMoves /\ UNCHANGED <<store, browser, scene, left>>
    BY <1>1, WhoSteps, ReadingStepOK
  <2>2. World' /\ Evolves /\ OnlyTheOperator
    BY <2>1, StillWorld, LeftMoves DEF DoorsInv, store, browser, World, SoundStore
  <2> QED
    BY <2>1, <2>2, ToolsKeep
<1>2. ASSUME NEW d \in Docs, Publish(d)
      PROVE  DoorsInv' /\ OnlyTheOperator
  BY <1>2, WhoSteps, PublishStep, ToolsKeep
<1>3. CASE Update
  BY <1>3, WhoSteps, UpdateStep, ToolsKeep
<1>4. CASE Mark
  BY <1>4, WhoSteps, MarkStep, ToolsKeep
<1>5. CASE Call
  <2>1. PICK tool \in DocumentTools : \E target \in Identities(tool), c \in Callers, args \in ArgsOf(tool) :
          CallTool(tool, target, c, args)
    BY <1>5 DEF Call
  <2>2. PICK target \in Identities(tool), c \in Callers, args \in ArgsOf(tool) : CallTool(tool, target, c, args)
    BY <2>1
  <2>3. /\ req = None /\ answer' = None /\ UNCHANGED <<store, browser, scene>>
        /\ left' = [left EXCEPT !.reads = @ - 1]
    BY <2>2 DEF CallTool
  <2>4. World' /\ Evolves /\ OnlyTheOperator
    BY <2>3, StillWorld, LeftMoves DEF DoorsInv, store, browser, World, SoundStore
  <2>5. PICK r : req' = r /\ r.c = c /\ ToolInv(r)
    BY <2>2, CallToolOK DEF DoorsInv
  <2> QED
    BY <2>3, <2>4, <2>5, BeginsKeep DEF store
<1> QED
  BY <1>1, <1>2, <1>3, <1>4, <1>5

LEMMA StuttersKeep ==
  ASSUME DoorsInv, UNCHANGED vars
  PROVE  DoorsInv'
<1>1. /\ UNCHANGED <<documents, slug_tombstones, blobs, env, job, logins, jar, page, scene, left>>
      /\ req' = req /\ seen' = seen /\ answer' = answer /\ Moment' = Moment
  BY DEF vars, store, browser, Moment
<1>2. World' /\ Evolves
  BY <1>1, StillWorld, LeftMoves DEF DoorsInv, World, SoundStore
<1>3. SeenInv'
  BY <1>1 DEF DoorsInv, SeenInv, Past
<1>4. RequestInv'
  <2>1. CASE req # None
    <3>1. seen' = seen \union {Moment'}
      BY <1>1, <2>1 DEF DoorsInv, SeenInv
    <3> QED
      BY <1>1, <1>2, <2>1, <3>1, RequestStays DEF DoorsInv, RequestInv
  <2>2. CASE req = None
    BY <1>1, <2>2 DEF RequestInv
  <2> QED
    BY <2>1, <2>2
<1>5. AnswersAreTrue' /\ RefusalsAreOpaque'
  BY <1>1 DEF DoorsInv, AnswersAreTrue, RefusalsAreOpaque, IsTrueOf
<1> QED
  BY <1>2, <1>3, <1>4, <1>5 DEF DoorsInv

LEMMA DoorsStep ==
  ASSUME DoorsInv, [NextWithTools]_vars
  PROVE  DoorsInv' /\ (OnlyTheOperator \/ UNCHANGED vars)
<1>1. CASE Act /\ Watch
  BY <1>1, ActKeeps
<1>2. CASE Watch /\ (Call \/ ReadingStep \/ (\E d \in Docs : Publish(d)) \/ Update \/ Mark)
  BY <1>2, ToolsStep
<1>3. CASE UNCHANGED vars
  BY <1>3, StuttersKeep
<1> QED
  BY <1>1, <1>2, <1>3 DEF NextWithTools

\* The invariant holds, whatever the operator, the agents, the browsers and
\* the deployments do between two awaits.
THEOREM DoorsInvariant == SpecWithTools => []DoorsInv
<1>1. DoorsInv /\ [NextWithTools]_vars => DoorsInv'
  BY DoorsStep
<1> QED
  BY InitOK, <1>1, PTL DEF SpecWithTools

\* Types, and sound tables: no public document without a published version, no
\* live version without its bytes, no name with two holders or both held and
\* retired, whichever cores commit and in whichever order.
THEOREM DoorsAreTyped == SpecWithTools => []TypeOK
<1>1. DoorsInv => TypeOK
  BY DEF DoorsInv, World, RequestInv, HttpInv, ToolInv, TypeOK
<1> QED
  BY <1>1, DoorsInvariant, PTL

\* Every page, body, 304, redirect and refusal of serve.ts and document-read.ts
\* was right at a moment since the request came, however the documents, the
\* names and the credentials changed between its awaits.
THEOREM ReadersAreToldTheTruth == SpecWithTools => []AnswersAreTrue
<1>1. DoorsInv => AnswersAreTrue
  BY DEF DoorsInv
<1> QED
  BY <1>1, DoorsInvariant, PTL

\* Who is nobody throughout his request is answered as by a store without its
\* private documents.
THEOREM StrangersLearnNothing == SpecWithTools => []RefusalsAreOpaque
<1>1. DoorsInv => RefusalsAreOpaque
  BY DEF DoorsInv
<1> QED
  BY <1>1, DoorsInvariant, PTL

\* Every change is the operator's, by his token or a session that holds with
\* its nonce, or a reader's that leaves alone what is the operator's: of every
\* form, JSON door and tool, and of the statements left for later.
THEOREM NobodyElseActs == SpecWithTools => OnlyTheOperatorActs
<1>1. DoorsInv /\ [NextWithTools]_vars => [OnlyTheOperator]_vars
  BY DoorsStep
<1>2. OnlyTheOperator =>
        /\ <<documents, slug_tombstones, env.keys>>' # <<documents, slug_tombstones, env.keys>> =>
             acted' # None /\ (IsOperator(acted') \/ (IsReader(acted') /\ LeavesDoorsAlone))
        /\ jar # None /\ jar' = None /\ HoldsSession([c |-> [Anonymous EXCEPT !.cookie = jar], env |-> env]) =>
             IsOperator(acted')
  BY DEF OnlyTheOperator, ChangesAreAllowed, LogoutsAreAllowed
<1> QED
  BY <1>1, <1>2, DoorsInvariant, PTL DEF SpecWithTools, OnlyTheOperatorActs

-----------------------------------------------------------------------------
(* The tools.                                                              *)

\* What a tool's call has learned, each at a moment since it came: it was let
\* in, its document had the name it was called by, and by every read what the
\* row was then.

ToolStepsOf(door) ==
  {"token", "resolve", "retired"} \union
  CASE door = "read_document" -> {"forwarded", "history", "echo", "body", "body_bytes"}
    [] door = "view_document" -> {"forwarded", "body", "body_bytes", "echo"}
    [] door \in {"publish_document", "update_document"} -> {"write", "echo"}
    [] door = "edit_document" -> {"base", "base_bytes", "write", "echo"}
    [] door = "set_document_status" -> {"successor", "mark", "echo"}
    [] OTHER -> {}

AskedOnce(r) == \E m \in seen : AuthenticateAgent(m.env, r.c.bearer)
UnheldOnce(r) == \E m \in seen : \A d \in Docs : m.documents[d].slug # r.target
AddressedOnce(r) ==
  \/ r.target \in {r.doc, None}
  \/ \E m \in seen : r.target = m.documents[r.doc].slug
  \/ r.door = "read_document" /\ r.args.follow /\ ForwardedOnce(r)
EchoedAt(r, m) ==
  r.echo = IF m.documents[r.doc].life = "none" THEN None ELSE EchoOf(m.documents[r.doc])
EchoedOnce(r) == \E m \in seen : EchoedAt(r, m)
NewestAt(r, m) == Live(m.documents[r.doc]) /\ r.version = m.documents[r.doc].current_ver
ReachedAt(r, m) == Live(m.documents[r.doc]) /\ r.version <= m.documents[r.doc].current_ver
CurrentOnce(r) ==
  r.current # None => \E m \in seen : Live(m.documents[r.doc]) /\ r.current = m.documents[r.doc].current_ver
ReadOnce(r) ==
  /\ r.version \in Nat /\ r.version > 0
  /\ IF r.args.pinned = 0 THEN \E m \in seen : NewestAt(r, m)
     ELSE r.version = r.args.pinned /\ \E m \in seen : ReachedAt(r, m)
BasedOnce(r) == r.version \in Nat /\ r.version > 0 /\ \E m \in seen : NewestAt(r, m)
WrittenOnce(r) ==
  /\ r.how = "written" /\ r.version \in Nat /\ r.version > 0
  /\ \E m \in seen : r.version = m.documents[r.doc].current_ver + 1
  /\ \E m \in seen : NewestAt(r, m)
  /\ r.args.expected \in {0, r.version - 1}
MarkedOnce(r) ==
  /\ r.how = "marked" /\ r.version = None
  /\ \E m \in seen : Live(m.documents[r.doc]) /\ m.documents[r.doc].status = r.args.status
ShownOnce(r) == r.how = "shown" /\ ReadOnce(r)

ToolKnows(r) ==
  /\ r.step \in ToolStepsOf(r.door)
  /\ r.door = "publish_document" => r.target = None /\ r.args.expected = 0
  /\ r.step # "token" => AskedOnce(r)
  /\ r.step \in {"resolve", "retired"} => r.doc = None
  /\ r.step = "token" => r.doc = IF r.target \in Docs THEN r.target ELSE None
  /\ r.step \notin {"token", "resolve", "retired", "forwarded"} => AddressedOnce(r)
  /\ r.step = "retired" => UnheldOnce(r)
  /\ r.step = "forwarded" => ForwardedOnce(r)
  /\ r.door = "read_document" /\ r.step \in {"body", "body_bytes"} => EchoedOnce(r)
  /\ r.step \notin {"echo", "body", "body_bytes"} => r.current = None
  /\ CurrentOnce(r)
  /\ r.step = "body_bytes" => ReadOnce(r)
  /\ r.step = "base_bytes" => BasedOnce(r)
  /\ r.step = "echo" /\ r.door = "view_document" => ShownOnce(r)
  /\ r.step = "echo" /\ r.door \in {"publish_document", "update_document", "edit_document"} => WrittenOnce(r)
  /\ r.step = "echo" /\ r.door = "set_document_status" => MarkedOnce(r)

\* What was seen once was seen, whatever moves meanwhile.
LEMMA ToolKnowsStill ==
  ASSUME NEW r, ToolKnows(r), seen \subseteq seen'
  PROVE  ToolKnows(r)'
<1>1. (AskedOnce(r) => AskedOnce(r)') /\ (UnheldOnce(r) => UnheldOnce(r)') /\ (ForwardedOnce(r) => ForwardedOnce(r)')
  BY DEF AskedOnce, UnheldOnce, ForwardedOnce
<1>2. (AddressedOnce(r) => AddressedOnce(r)') /\ (EchoedOnce(r) => EchoedOnce(r)') /\ (CurrentOnce(r) => CurrentOnce(r)')
  BY <1>1 DEF AddressedOnce, EchoedOnce, CurrentOnce
<1>3. (ReadOnce(r) => ReadOnce(r)') /\ (BasedOnce(r) => BasedOnce(r)') /\ (ShownOnce(r) => ShownOnce(r)')
  BY DEF ReadOnce, BasedOnce, ShownOnce
<1>4. (WrittenOnce(r) => WrittenOnce(r)') /\ (MarkedOnce(r) => MarkedOnce(r)')
  BY DEF WrittenOnce, MarkedOnce
<1> QED
  BY <1>1, <1>2, <1>3, <1>4 DEF ToolKnows

Knowing == Calling /\ SeenInv /\ ToolKnows(req)
ToolRight(a) == IF a.how = "refused" THEN ToolRefuses(a, seen) ELSE ToolTells(a, seen)
ToolAnswered == req' = None /\ \E a : answer' = a /\ ToolRight(a)
ToolGoesOn == answer' = None /\ \E r : req' = r /\ ToolKnows(r)
Fine == ToolAnswered \/ ToolGoesOn

LEMMA KnowingIs ==
  ASSUME Knowing
  PROVE  /\ req # None /\ req \in ToolRequest /\ req.args \in ToolArgs /\ req.door \in DocumentTools
         /\ ToolPlaced(req) /\ ToolKnows(req) /\ req.step \in ToolStepsOf(req.door)
         /\ Moment \in seen /\ Moment.documents = documents
         /\ Moment.slug_tombstones = slug_tombstones /\ Moment.env = env
         /\ \A d \in Docs : documents[d] \in DocumentRow /\ SoundRow(documents[d])
         /\ \A m \in seen : SoundMoment(m) /\ Precedes(m, Moment)
<1>1. req # None /\ ToolKnows(req) /\ SeenInv /\ Calling
  BY DEF Knowing, Calling
<1> QED
  BY <1>1, CallingIs DEF SeenInv, Moment, ToolKnows

\* A refusal's answer.
LEMMA RefusedIs ==
  ASSUME Knowing, NEW status, TellError(status)
  PROVE  \E a : /\ answer' = a /\ req' = None /\ a.door = req.door /\ a.target = req.target /\ a.c = req.c
                /\ a.args = req.args /\ a.doc = req.doc /\ a.how = "refused" /\ a.status = status
                /\ a.version = req.version
<1> DEFINE r == [req EXCEPT !.how = "refused"]
           a == [door |-> r.door, target |-> r.target, c |-> r.c, args |-> r.args, doc |-> r.doc,
                 version |-> r.version, current |-> r.current, echo |-> r.echo, how |-> r.how,
                 status |-> status]
<1>1. answer' = a /\ req' = None
  BY DEF TellError, Tell
<1>2. /\ r.door = req.door /\ r.target = req.target /\ r.c = req.c /\ r.args = req.args /\ r.doc = req.doc
      /\ r.how = "refused" /\ r.version = req.version
  BY KnowingIs DEF ToolRequest
<1> HIDE DEF r
<1>3. /\ a.door = r.door /\ a.target = r.target /\ a.c = r.c
      /\ a.args = r.args /\ a.doc = r.doc /\ a.how = r.how /\ a.status = status
      /\ a.version = r.version
  OBVIOUS
<1> HIDE DEF a
<1> QED
  BY <1>1, <1>2, <1>3

\* A missing row is a good reason for a 404 or a 409.
LEMMA MissingAnswered ==
  ASSUME Knowing, req.doc \in Docs, NEW status \in {404, 409}, TellError(status),
         ~Live(documents[req.doc]) \/ req.args.pinned > documents[req.doc].current_ver
  PROVE  ToolAnswered
<1>1. PICK a : /\ answer' = a /\ req' = None /\ a.door = req.door /\ a.target = req.target /\ a.c = req.c
               /\ a.args = req.args /\ a.doc = req.doc /\ a.how = "refused" /\ a.status = status
  BY RefusedIs
<1>2. \E m \in seen : ~Live(m.documents[a.doc]) \/ a.args.pinned > m.documents[a.doc].current_ver
  BY <1>1, KnowingIs
<1>3. a.doc # None /\ a.status \in {404, 409}
  BY <1>1, NoneApart
<1>4. ASSUME a.status = 404 PROVE ToolRefuses(a, seen)
  BY <1>2, <1>3, <1>4 DEF ToolRefuses
<1>5. ASSUME a.status = 409 PROVE ToolRefuses(a, seen)
  BY <1>2, <1>3, <1>5 DEF ToolRefuses
<1> QED
  BY <1>1, <1>3, <1>4, <1>5 DEF ToolAnswered, ToolRight

LEMMA MissingIsRight ==
  ASSUME Knowing, req.doc \in Docs, NEW status \in {404, 409}, TellError(status),
         ~Live(documents[req.doc]) \/ req.args.pinned > documents[req.doc].current_ver
  PROVE  Fine
BY MissingAnswered DEF Fine

\* A call goes on with one field more.
LEMMA GoesOn == ASSUME NEW r, Continue(r), ToolKnows(r) PROVE Fine
BY DEF Continue, Fine, ToolGoesOn

LEMMA CheckTokenTrue ==
  ASSUME Knowing, CheckToken
  PROVE  Fine
<1>1. req.step = "token"
  BY DEF CheckToken, At
<1>2. CASE AuthenticateAgent(env, req.c.bearer)
  <2> DEFINE s == IF req.target \in Slugs THEN "resolve" ELSE Identified(req)
             r == [req EXCEPT !.let_in = env, !.step = s]
  <2>1. Continue(r)
    BY <1>2 DEF CheckToken
  <2>2. /\ s \in ToolStepsOf(req.door) \ {"token", "retired", "forwarded", "body_bytes", "base_bytes"}
        /\ s = "resolve" <=> req.target \in Slugs
        /\ s = "echo" => req.door = "read_document"
        /\ s = "body" => req.door = "view_document"
    BY KnowingIs DEF Identified, ToolStepsOf, DocumentTools, ReadTools, WriteTools
  <2> HIDE DEF s
  <2>3. /\ r.door = req.door /\ r.target = req.target /\ r.c = req.c /\ r.args = req.args
        /\ r.doc = req.doc /\ r.step = s /\ r.current = req.current
    BY KnowingIs DEF ToolRequest
  <2> HIDE DEF r
  <2>4. AskedOnce(r)
    BY <1>2, <2>3, KnowingIs DEF AskedOnce
  <2>5. req.doc = IF req.target \in Docs THEN req.target ELSE None
    BY <1>1, KnowingIs DEF ToolKnows
  <2>6. req.target \in Slugs => req.doc = None
    BY <2>5, ToolsAssumption DEF ToolsAssumption
  <2>7. req.target \notin Slugs => req.target \in {req.doc, None}
    BY <2>5, KnowingIs DEF ToolRequest
  <2>8. req.current = None
    BY <1>1, KnowingIs DEF ToolKnows
  <2>9. CurrentOnce(r) /\ r.current = None
    BY <2>3, <2>8 DEF CurrentOnce
  <2>10. req.door = "publish_document" => req.target = None /\ req.args.expected = 0
    BY KnowingIs DEF ToolKnows
  <2>11. ToolKnows(r)
    BY <2>2, <2>3, <2>4, <2>6, <2>7, <2>9, <2>10 DEF ToolKnows, AddressedOnce
  <2> QED
    BY <2>1, <2>11, GoesOn
<1>3. CASE ~AuthenticateAgent(env, req.c.bearer)
  <2>1. TellError(401)
    BY <1>3 DEF CheckToken
  <2>2. PICK a : /\ answer' = a /\ req' = None /\ a.c = req.c /\ a.how = "refused" /\ a.status = 401
    BY <2>1, RefusedIs
  <2>3. \E m \in seen : ~AuthenticateAgent(m.env, a.c.bearer)
    BY <1>3, <2>2, KnowingIs
  <2>4. ToolRefuses(a, seen)
    BY <2>2, <2>3 DEF ToolRefuses
  <2> QED
    BY <2>2, <2>4 DEF Fine, ToolAnswered, ToolRight
<1> QED
  BY <1>2, <1>3

\* Where a call goes on from its name to its document.
LEMMA IdentifiedKnows ==
  ASSUME Knowing, req.step \in {"resolve", "forwarded"}, NEW d \in Docs, NEW r,
         r.door = req.door, r.target = req.target, r.c = req.c, r.args = req.args,
         r.doc = d, r.step = Identified(req), r.current = req.current, AddressedOnce(r)
  PROVE  ToolKnows(r)
<1>1. /\ r.step \in ToolStepsOf(r.door) \ {"token", "resolve", "retired", "forwarded", "body_bytes", "base_bytes"}
      /\ r.step = "echo" => r.door = "read_document"
      /\ r.step = "body" => r.door = "view_document"
  BY KnowingIs DEF Identified, ToolStepsOf, DocumentTools, ReadTools, WriteTools
<1>2. /\ r.door = "publish_document" => r.target = None /\ r.args.expected = 0
      /\ r.current = None
      /\ AskedOnce(req)
  BY KnowingIs DEF ToolKnows
<1>3. AskedOnce(r) /\ CurrentOnce(r)
  BY <1>2 DEF AskedOnce, CurrentOnce
<1> QED
  BY <1>1, <1>2, <1>3 DEF ToolKnows

LEMMA ResolveTargetTrue ==
  ASSUME Knowing, ResolveTarget
  PROVE  Fine
<1>1. req.step = "resolve"
  BY DEF ResolveTarget, At
<1>2. /\ req.doc = None /\ AskedOnce(req) /\ req.current = None /\ req.target \in Slugs
      /\ req.door = "publish_document" => req.target = None /\ req.args.expected = 0
  BY <1>1, KnowingIs DEF ToolKnows, ToolPlaced
<1>3. CASE Named(req.target) = {} /\ Go("retired")
  <2> DEFINE r == [req EXCEPT !.step = "retired"]
  <2>1. /\ r.door = req.door /\ r.target = req.target /\ r.c = req.c /\ r.args = req.args
        /\ r.doc = req.doc /\ r.step = "retired" /\ r.current = req.current
    BY KnowingIs DEF ToolRequest
  <2>2. Continue(r)
    BY <1>3 DEF Go
  <2> HIDE DEF r
  <2>3. \A d \in Docs : documents[d].slug # req.target
    BY <1>2, <1>3, KnowingIs, NoneApart DEF Named, SoundRow
  <2>4. UnheldOnce(r) /\ AskedOnce(r) /\ CurrentOnce(r) /\ r.step \in ToolStepsOf(r.door)
    BY <1>2, <2>1, <2>3, KnowingIs DEF UnheldOnce, AskedOnce, CurrentOnce, ToolStepsOf
  <2>5. ToolKnows(r)
    BY <1>2, <2>1, <2>4 DEF ToolKnows
  <2> QED
    BY <2>2, <2>5, GoesOn
<1>4. ASSUME NEW d \in Named(req.target), Continue([req EXCEPT !.doc = d, !.step = Identified(req)])
      PROVE  Fine
  <2> DEFINE r == [req EXCEPT !.doc = d, !.step = Identified(req)]
  <2>1. /\ r.door = req.door /\ r.target = req.target /\ r.c = req.c /\ r.args = req.args
        /\ r.doc = d /\ r.step = Identified(req) /\ r.current = req.current
    BY KnowingIs DEF ToolRequest
  <2>2. Continue(r)
    BY <1>4
  <2> HIDE DEF r
  <2>3. d \in Docs /\ documents[d].slug = req.target
    BY DEF Named
  <2>4. AddressedOnce(r)
    BY <2>1, <2>3, KnowingIs DEF AddressedOnce
  <2>5. ToolKnows(r)
    BY <1>1, <2>1, <2>3, <2>4, IdentifiedKnows
  <2> QED
    BY <2>2, <2>5, GoesOn
<1> QED
  BY <1>3, <1>4 DEF ResolveTarget

LEMMA FindRetiredTrue ==
  ASSUME Knowing, FindRetired
  PROVE  Fine
<1> DEFINE to == slug_tombstones[req.target]
<1>1. req.step = "retired"
  BY DEF FindRetired, At
<1>2. /\ req.doc = None /\ AskedOnce(req) /\ UnheldOnce(req) /\ req.current = None /\ req.target \in Slugs
      /\ req.door = "publish_document" => req.target = None
  BY <1>1, KnowingIs DEF ToolKnows, ToolPlaced
<1>3. CASE req.target \notin DOMAIN slug_tombstones
  <2>1. TellError(404)
    BY <1>3 DEF FindRetired
  <2>2. PICK a : /\ answer' = a /\ req' = None /\ a.target = req.target /\ a.doc = None
                 /\ a.how = "refused" /\ a.status = 404
    BY <1>2, <2>1, RefusedIs
  <2>3. /\ \E m \in seen : ~Retired(m, a.target)
        /\ \E m \in seen : \A d \in Docs : m.documents[d].slug # a.target
    BY <1>2, <1>3, <2>2, KnowingIs DEF Retired, UnheldOnce
  <2>4. ToolRefuses(a, seen)
    BY <2>2, <2>3 DEF ToolRefuses
  <2> QED
    BY <2>2, <2>4 DEF Fine, ToolAnswered, ToolRight
<1>4. CASE req.target \in DOMAIN slug_tombstones /\ (to = None \/ (req.door \in WriteTools /\ ~IsForwarded(req)))
  <2>1. TellError(410)
    BY <1>4 DEF FindRetired
  <2>2. PICK a : /\ answer' = a /\ req' = None /\ a.target = req.target /\ a.door = req.door
                 /\ a.how = "refused" /\ a.status = 410
    BY <2>1, RefusedIs
  <2>3. /\ Retired(Moment, a.target)
        /\ a.door \in WriteTools \/ Moment.slug_tombstones[a.target] = None
    BY <1>4, <2>2, KnowingIs DEF Retired
  <2>4. ToolRefuses(a, seen)
    <3>1. \E m \in seen : /\ Retired(m, a.target)
                          /\ a.door \notin WriteTools /\ m.slug_tombstones[a.target] # None =>
                               \E later \in seen : ~Live(later.documents[m.slug_tombstones[a.target]])
      BY <2>3, KnowingIs
    <3> QED
      BY <2>2, <3>1 DEF ToolRefuses
  <2> QED
    BY <2>2, <2>4 DEF Fine, ToolAnswered, ToolRight
<1>5. CASE req.target \in DOMAIN slug_tombstones /\ ~(to = None \/ (req.door \in WriteTools /\ ~IsForwarded(req)))
  <2> DEFINE r == [req EXCEPT !.doc = to, !.step = "forwarded"]
  <2>1. /\ r.door = req.door /\ r.target = req.target /\ r.c = req.c /\ r.args = req.args
        /\ r.doc = to /\ r.step = "forwarded" /\ r.current = req.current
    BY KnowingIs DEF ToolRequest
  <2>2. Continue(r)
    BY <1>5 DEF FindRetired
  <2>3. req.door \in ReadTools
    BY <1>5, KnowingIs DEF IsForwarded, WriteTools, ReadTools, DocumentTools
  <2> HIDE DEF r
  <2>4. ForwardedOnce(r)
    BY <1>5, <2>1, KnowingIs DEF ForwardedOnce, Forwards, Retired
  <2> HIDE DEF to
  <2>5. r.step \in ToolStepsOf(r.door) /\ r.door # "publish_document"
    <3>1. CASE r.door = "read_document"
      BY <2>1, <3>1 DEF ToolStepsOf
    <3>2. CASE r.door = "view_document"
      BY <2>1, <3>2 DEF ToolStepsOf
    <3> QED
      BY <2>1, <2>3, <3>1, <3>2 DEF ReadTools
  <2>7. AskedOnce(r) /\ CurrentOnce(r)
    BY <1>2, <2>1 DEF AskedOnce, CurrentOnce
  <2>6. ToolKnows(r)
    BY <1>2, <2>1, <2>4, <2>5, <2>7 DEF ToolKnows
  <2> QED
    BY <2>2, <2>6, GoesOn
<1> QED
  BY <1>3, <1>4, <1>5

LEMMA ForwardedToTrue ==
  ASSUME Knowing, ForwardedTo
  PROVE  Fine
<1> DEFINE row == documents[req.doc]
<1>1. req.step = "forwarded"
  BY DEF ForwardedTo, At
<1>2. req.doc \in Docs /\ AskedOnce(req) /\ ForwardedOnce(req) /\ req.current = None /\ req.door \in ReadTools
  BY <1>1, KnowingIs DEF ToolPlaced, ToolKnows, ToolStepsOf, ReadTools, DocumentTools, WriteTools
<1>3. CASE ~Live(row)
  <2> DEFINE r == [req EXCEPT !.doc = None, !.how = "refused"]
             a == [door |-> r.door, target |-> r.target, c |-> r.c, args |-> r.args, doc |-> r.doc,
                   version |-> r.version, current |-> r.current, echo |-> r.echo, how |-> r.how,
                   status |-> 410]
  <2>1. answer' = a /\ req' = None
    BY <1>3 DEF ForwardedTo, Tell
  <2>2. r.target = req.target /\ r.how = "refused"
    BY KnowingIs DEF ToolRequest
  <2> HIDE DEF r
  <2>3. a.target = r.target /\ a.how = r.how /\ a.status = 410
    OBVIOUS
  <2> HIDE DEF a
  <2>4. \E m \in seen : /\ Retired(m, a.target)
                        /\ a.door \notin WriteTools /\ m.slug_tombstones[a.target] # None =>
                             \E later \in seen : ~Live(later.documents[m.slug_tombstones[a.target]])
    BY <1>2, <1>3, <2>2, <2>3, KnowingIs DEF ForwardedOnce, Forwards
  <2>5. ToolRefuses(a, seen)
    BY <2>3, <2>4 DEF ToolRefuses
  <2> QED
    BY <2>1, <2>2, <2>3, <2>5 DEF Fine, ToolAnswered, ToolRight
<1>4. CASE Live(row) /\ IsForwarded(req)
  <2> DEFINE r == [req EXCEPT !.step = Identified(req)]
  <2>1. /\ r.door = req.door /\ r.target = req.target /\ r.c = req.c /\ r.args = req.args
        /\ r.doc = req.doc /\ r.step = Identified(req) /\ r.current = req.current
    BY KnowingIs DEF ToolRequest
  <2>2. Continue(r)
    BY <1>4 DEF ForwardedTo, Go
  <2> HIDE DEF r
  <2>3. AddressedOnce(r)
    BY <1>2, <1>4, <2>1 DEF AddressedOnce, ForwardedOnce, IsForwarded
  <2>4. ToolKnows(r)
    BY <1>1, <1>2, <2>1, <2>3, IdentifiedKnows
  <2> QED
    BY <2>2, <2>4, GoesOn
<1>5. CASE Live(row) /\ ~IsForwarded(req)
  <2> DEFINE v == IF req.door = "read_document" THEN ServedVersion(row) ELSE None
             status == IF req.door = "read_document" THEN 200 ELSE 410
             r == [req EXCEPT !.how = "redirected", !.version = v]
             a == [door |-> r.door, target |-> r.target, c |-> r.c, args |-> r.args, doc |-> r.doc,
                   version |-> r.version, current |-> r.current, echo |-> r.echo, how |-> r.how,
                   status |-> status]
  <2>1. answer' = a /\ req' = None
    BY <1>5 DEF ForwardedTo, Tell
  <2>2. v \in {None, Shown(row)}
    BY <1>2, <1>5, KnowingIs DEF ServedVersion, Shown, SoundRow
  <2> HIDE DEF v, status
  <2>3. /\ r.target = req.target /\ r.how = "redirected" /\ r.c = req.c /\ r.doc = req.doc
        /\ r.version = v /\ r.current = None
    BY <1>2, KnowingIs DEF ToolRequest
  <2> HIDE DEF r
  <2>4. /\ a.target = req.target /\ a.how = "redirected" /\ a.c = req.c /\ a.doc = req.doc
        /\ a.version = v /\ a.current = None
    BY <2>3
  <2> HIDE DEF a
  <2>5. \E m \in seen : AuthenticateAgent(m.env, a.c.bearer)
    BY <1>2, <2>4 DEF AskedOnce
  <2>6. \E m \in seen : Forwards(m, a.target, a.doc)
    BY <1>2, <2>4 DEF ForwardedOnce
  <2>7. \E m \in seen : Live(m.documents[a.doc]) /\ a.version \in {None, Shown(m.documents[a.doc])}
    BY <1>5, <2>2, <2>4, KnowingIs
  <2>8. ToolTells(a, seen)
    BY <2>4, <2>5, <2>6, <2>7 DEF ToolTells
  <2> QED
    BY <2>1, <2>4, <2>8 DEF Fine, ToolAnswered, ToolRight
<1> QED
  BY <1>3, <1>4, <1>5

\* The step of each read says whose call it is.
LEMMA DoorOfStep ==
  ASSUME Knowing
  PROVE  /\ req.step = "history" => req.door = "read_document"
         /\ req.step \in {"body", "body_bytes"} => req.door \in ReadTools
         /\ req.step \in {"base", "base_bytes"} => req.door = "edit_document"
         /\ req.step \in {"successor", "mark"} => req.door = "set_document_status"
         /\ req.step = "write" => req.door \in {"publish_document", "update_document", "edit_document"}
         /\ req.step = "echo" => req.door \in DocumentTools
BY KnowingIs DEF ToolStepsOf, DocumentTools, ReadTools, WriteTools

LEMMA ListHistoryTrue ==
  ASSUME Knowing, ListHistory
  PROVE  Fine
<1> DEFINE row == documents[req.doc]
           v == IF Live(row) THEN row.current_ver ELSE None
           r == [req EXCEPT !.step = "echo", !.current = v]
<1>1. req.step = "history" /\ req.door = "read_document"
  BY DoorOfStep DEF ListHistory, At
<1>2. req.doc \in Docs /\ AskedOnce(req) /\ AddressedOnce(req)
  BY <1>1, KnowingIs DEF ToolPlaced, ToolKnows
<1>3. Continue(r)
  BY DEF ListHistory
<1>4. v # None => Live(Moment.documents[req.doc]) /\ v = Moment.documents[req.doc].current_ver
  BY KnowingIs
<1> HIDE DEF v
<1>5. /\ r.door = req.door /\ r.target = req.target /\ r.c = req.c /\ r.args = req.args
      /\ r.doc = req.doc /\ r.step = "echo" /\ r.current = v
  BY KnowingIs DEF ToolRequest
<1> HIDE DEF r
<1>6. AskedOnce(r) /\ AddressedOnce(r) /\ CurrentOnce(r)
  BY <1>2, <1>4, <1>5, KnowingIs DEF AskedOnce, AddressedOnce, ForwardedOnce, CurrentOnce
<1>7. r.step \in ToolStepsOf(r.door)
  BY <1>1, <1>5 DEF ToolStepsOf
<1>8. ToolKnows(r)
  BY <1>1, <1>5, <1>6, <1>7 DEF ToolKnows
<1> QED
  BY <1>3, <1>8, GoesOn

\* What every answer that is not a refusal rests on.
LEMMA ToldIsRight ==
  ASSUME Knowing, NEW a, a.how \in {"shown", "written", "marked"},
         \E m \in seen : AuthenticateAgent(m.env, a.c.bearer),
         AddressedOnce(a), EchoedOnce(a), CurrentOnce(a), a.doc \in Docs,
         a.how = "shown" => ReadOnce(a),
         a.how = "written" => WrittenOnce(a),
         a.how = "marked" => MarkedOnce(a)
  PROVE  ToolRight(a)
<1>1. \E m \in seen : \/ a.target \in {a.doc, None, m.documents[a.doc].slug}
                      \/ /\ a.how = "redirected" \/ (a.door = "read_document" /\ a.args.follow)
                         /\ Forwards(m, a.target, a.doc)
  BY KnowingIs DEF AddressedOnce, ForwardedOnce
<1>2. PICK m \in seen : EchoedAt(a, m)
  BY DEF EchoedOnce
<1>3. \E n \in seen : a.echo = IF n.documents[a.doc].life = "none" THEN None ELSE EchoOf(n.documents[a.doc])
  BY <1>2 DEF EchoedAt
<1>4. ASSUME a.how \in {"shown", "written"}, a.echo = [visibility |-> "public", published |-> a.version]
      PROVE  Reads(m, Anonymous, a.doc) /\ a.version = Shown(m.documents[a.doc])
  <2> DEFINE row == m.documents[a.doc]
  <2>1. a.version > 0 /\ a.version \in Nat
    BY <1>4 DEF ReadOnce, WrittenOnce
  <2>2. row.life # "none" => row.visibility = "public" /\ row.published_ver = a.version
    BY <1>2, <1>4 DEF EchoedAt, EchoOf
  <2>3. SoundRow(row)
    BY KnowingIs DEF SoundMoment
  <2>4. row.life # "none"
    <3> SUFFICES ASSUME row.life = "none" PROVE FALSE
      OBVIOUS
    <3>1. a.echo = None
      BY <1>2 DEF EchoedAt
    <3>2. [visibility |-> "public", published |-> a.version] # None
      BY <2>1, ToolsAssumption DEF ToolsAssumption, Echoes
    <3> QED
      BY <1>4, <3>1, <3>2
  <2> QED
    BY <2>1, <2>2, <2>3, <2>4 DEF SoundRow, Reads, Shown, Live
<1> QED
  BY <1>1, <1>3, <1>4 DEF ToolRight, ToolTells, ReadOnce, WrittenOnce, MarkedOnce, CurrentOnce, NewestAt, ReachedAt

\* A call that ends with what it has.
LEMMA TellIs ==
  ASSUME NEW r, NEW status, Tell(status, r)
  PROVE  \E a : /\ answer' = a /\ req' = None /\ a.door = r.door /\ a.target = r.target /\ a.c = r.c
                /\ a.args = r.args /\ a.doc = r.doc /\ a.how = r.how /\ a.version = r.version
                /\ a.current = r.current /\ a.echo = r.echo
BY DEF Tell

LEMMA ToldTrue ==
  ASSUME Knowing, NEW r, Tell(200, r), r.how \in {"shown", "written", "marked"}, r.doc \in Docs,
         AskedOnce(r), AddressedOnce(r), EchoedOnce(r), CurrentOnce(r),
         r.how = "shown" => ReadOnce(r),
         r.how = "written" => WrittenOnce(r),
         r.how = "marked" => MarkedOnce(r)
  PROVE  Fine
<1>1. PICK a : /\ answer' = a /\ req' = None /\ a.door = r.door /\ a.target = r.target /\ a.c = r.c
               /\ a.args = r.args /\ a.doc = r.doc /\ a.how = r.how /\ a.version = r.version
               /\ a.current = r.current /\ a.echo = r.echo
  BY TellIs
<1>2. AddressedOnce(a) /\ EchoedOnce(a) /\ CurrentOnce(a) /\ \E m \in seen : AuthenticateAgent(m.env, a.c.bearer)
  BY <1>1 DEF AskedOnce, AddressedOnce, ForwardedOnce, EchoedOnce, EchoedAt, CurrentOnce
<1>3. /\ a.how = "shown" => ReadOnce(a)
      /\ a.how = "written" => WrittenOnce(a)
      /\ a.how = "marked" => MarkedOnce(a)
  BY <1>1 DEF ReadOnce, WrittenOnce, MarkedOnce, NewestAt, ReachedAt
<1>4. ToolRight(a)
  BY <1>1, <1>2, <1>3, ToldIsRight
<1> QED
  BY <1>1, <1>4 DEF Fine, ToolAnswered

LEMMA CurrentEchoTrue ==
  ASSUME Knowing, CurrentEcho
  PROVE  Fine
<1> DEFINE row == documents[req.doc]
           e == IF row.life = "none" THEN None ELSE EchoOf(row)
           r == [req EXCEPT !.step = "body", !.echo = e]
<1>1. req.step = "echo" /\ req.door \in DocumentTools
  BY DoorOfStep DEF CurrentEcho, At
<1>2. req.doc \in Docs /\ AskedOnce(req) /\ AddressedOnce(req) /\ CurrentOnce(req)
  BY <1>1, KnowingIs DEF ToolPlaced, ToolKnows
<1>3. IF req.door = "read_document" THEN Continue(r) ELSE Tell(200, r)
  BY DEF CurrentEcho
<1>4. e = IF Moment.documents[req.doc].life = "none" THEN None ELSE EchoOf(Moment.documents[req.doc])
  BY KnowingIs
<1> HIDE DEF e
<1>5. /\ r.door = req.door /\ r.target = req.target /\ r.c = req.c /\ r.args = req.args /\ r.how = req.how
      /\ r.doc = req.doc /\ r.step = "body" /\ r.current = req.current /\ r.version = req.version /\ r.echo = e
  BY KnowingIs DEF ToolRequest
<1> HIDE DEF r
<1>6. AskedOnce(r) /\ AddressedOnce(r) /\ CurrentOnce(r) /\ EchoedOnce(r)
  BY <1>2, <1>4, <1>5, KnowingIs DEF AskedOnce, AddressedOnce, ForwardedOnce, CurrentOnce, EchoedOnce, EchoedAt
<1>7. CASE req.door = "read_document"
  <2>1. r.step \in ToolStepsOf(r.door)
    BY <1>5, <1>7 DEF ToolStepsOf
  <2>2. ToolKnows(r)
    BY <1>5, <1>6, <1>7, <2>1 DEF ToolKnows
  <2> QED
    BY <1>3, <1>7, <2>2, GoesOn
<1>8. CASE req.door # "read_document"
  <2>1. /\ req.door = "view_document" => ShownOnce(req)
        /\ req.door \in {"publish_document", "update_document", "edit_document"} => WrittenOnce(req)
        /\ req.door = "set_document_status" => MarkedOnce(req)
    BY <1>1, KnowingIs DEF ToolKnows
  <2>2. ShownOnce(req) \/ WrittenOnce(req) \/ MarkedOnce(req)
    BY <1>1, <1>8, <2>1 DEF DocumentTools, ReadTools, WriteTools
  <2>3. /\ ShownOnce(req) => r.how = "shown" /\ ReadOnce(r)
        /\ WrittenOnce(req) => r.how = "written" /\ WrittenOnce(r)
        /\ MarkedOnce(req) => r.how = "marked" /\ MarkedOnce(r)
    BY <1>5 DEF ShownOnce, ReadOnce, WrittenOnce, MarkedOnce, NewestAt, ReachedAt
  <2> QED
    BY <1>2, <1>3, <1>5, <1>6, <1>8, <2>2, <2>3, ToldTrue
<1> QED
  BY <1>7, <1>8

LEMMA BodyRowTrue ==
  ASSUME Knowing, BodyRow
  PROVE  Fine
<1> DEFINE row == documents[req.doc]
           n == IF req.args.pinned = 0 THEN row.current_ver ELSE req.args.pinned
           r == [req EXCEPT !.version = n, !.step = "body_bytes"]
<1>1. req.step = "body" /\ req.door \in ReadTools
  BY DoorOfStep DEF BodyRow, At
<1>2. req.doc \in Docs /\ AskedOnce(req) /\ AddressedOnce(req) /\ CurrentOnce(req)
      /\ (req.door = "read_document" => EchoedOnce(req))
  BY <1>1, KnowingIs DEF ToolPlaced, ToolKnows
<1>3. SoundRow(row) /\ row \in DocumentRow /\ req.args.pinned \in Nat
  BY <1>2, KnowingIs DEF ToolArgs
<1>4. CASE Live(row) /\ n <= row.current_ver
  <2>1. Continue(r)
    BY <1>4 DEF BodyRow
  <2>2. /\ n \in Nat /\ n > 0
        /\ req.args.pinned = 0 => n = row.current_ver
        /\ req.args.pinned # 0 => n = req.args.pinned
    BY <1>3, <1>4 DEF SoundRow, DocumentRow
  <2> HIDE DEF n
  <2>3. /\ r.door = req.door /\ r.target = req.target /\ r.c = req.c /\ r.args = req.args
        /\ r.doc = req.doc /\ r.step = "body_bytes" /\ r.current = req.current /\ r.version = n /\ r.echo = req.echo
    BY KnowingIs DEF ToolRequest
  <2> HIDE DEF r
  <2>4. AskedOnce(r) /\ AddressedOnce(r) /\ CurrentOnce(r) /\ (r.door = "read_document" => EchoedOnce(r))
    BY <1>2, <2>3 DEF AskedOnce, AddressedOnce, ForwardedOnce, CurrentOnce, EchoedOnce, EchoedAt
  <2>5. ReadOnce(r)
    BY <1>4, <2>2, <2>3, KnowingIs DEF ReadOnce, NewestAt, ReachedAt
  <2>6. r.step \in ToolStepsOf(r.door) /\ r.door # "publish_document"
    BY <1>1, <2>3 DEF ToolStepsOf, ReadTools
  <2>7. ToolKnows(r)
    BY <2>3, <2>4, <2>5, <2>6 DEF ToolKnows
  <2> QED
    BY <2>1, <2>7, GoesOn
<1>5. CASE ~(Live(row) /\ n <= row.current_ver)
  <2>1. TellError(404)
    BY <1>5 DEF BodyRow
  <2>2. ~Live(row) \/ req.args.pinned > row.current_ver
    BY <1>3, <1>5 DEF DocumentRow
  <2> QED
    BY <1>2, <2>1, <2>2, MissingIsRight
<1> QED
  BY <1>4, <1>5

\* A version that existed and has no bytes is of a document that is gone.
LEMMA BytesLost ==
  ASSUME Knowing, req.doc \in Docs, NEW m \in seen, ReachedAt(req, m),
         req.version \in Nat, req.version > 0, <<req.doc, req.version>> \notin blobs
  PROVE  ~Live(documents[req.doc])
<1> DEFINE old == m.documents[req.doc]
           row == documents[req.doc]
<1>1. RowOn(old, row) /\ SoundRow(old) /\ SoundRow(row)
  BY KnowingIs DEF Precedes, SoundMoment
<1>2. Live(row) => req.version \in 1..row.current_ver
  BY <1>1 DEF RowOn, SoundRow, DocumentRow, ReachedAt
<1> QED
  BY <1>2 DEF Knowing, Calling, World, SoundStore

LEMMA BodyBytesTrue ==
  ASSUME Knowing, BodyBytes
  PROVE  Fine
<1>1. req.step = "body_bytes" /\ req.door \in ReadTools
  BY DoorOfStep DEF BodyBytes, At
<1>2. req.doc \in Docs /\ AskedOnce(req) /\ AddressedOnce(req) /\ CurrentOnce(req) /\ ReadOnce(req)
      /\ (req.door = "read_document" => EchoedOnce(req))
  BY <1>1, KnowingIs DEF ToolPlaced, ToolKnows
<1>3. CASE <<req.doc, req.version>> \notin blobs
  <2>1. TellError(IF req.args.source THEN 409 ELSE 404)
    BY <1>3 DEF BodyBytes
  <2>2. PICK m \in seen : NewestAt(req, m) \/ ReachedAt(req, m)
    BY <1>2 DEF ReadOnce
  <2>3. ReachedAt(req, m)
    BY <1>2, <2>2, KnowingIs DEF NewestAt, ReachedAt, SoundMoment, SoundRow, DocumentRow
  <2>4. ~Live(documents[req.doc])
    BY <1>2, <1>3, <2>3, BytesLost DEF ReadOnce
  <2> QED
    BY <1>2, <2>1, <2>4, MissingIsRight
<1>4. CASE <<req.doc, req.version>> \in blobs
  <2> DEFINE r == [req EXCEPT !.how = "shown", !.step = "echo"]
  <2>1. IF req.door = "view_document" THEN Continue(r) ELSE Tell(200, r)
    BY <1>4 DEF BodyBytes
  <2>2. /\ r.door = req.door /\ r.target = req.target /\ r.c = req.c /\ r.args = req.args /\ r.how = "shown"
        /\ r.doc = req.doc /\ r.step = "echo" /\ r.current = req.current /\ r.version = req.version
        /\ r.echo = req.echo
    BY KnowingIs DEF ToolRequest
  <2> HIDE DEF r
  <2>3. AskedOnce(r) /\ AddressedOnce(r) /\ CurrentOnce(r) /\ (r.door = "read_document" => EchoedOnce(r))
    BY <1>2, <2>2 DEF AskedOnce, AddressedOnce, ForwardedOnce, CurrentOnce, EchoedOnce, EchoedAt
  <2>4. ReadOnce(r)
    BY <1>2, <2>2 DEF ReadOnce, NewestAt, ReachedAt
  <2>5. CASE req.door = "view_document"
    <3>1. r.step \in ToolStepsOf(r.door)
      BY <2>2, <2>5 DEF ToolStepsOf
    <3>2. ToolKnows(r)
      BY <2>2, <2>3, <2>4, <2>5, <3>1 DEF ToolKnows, ShownOnce
    <3> QED
      BY <2>1, <2>5, <3>2, GoesOn
  <2>6. CASE req.door # "view_document"
    BY <1>1, <1>2, <2>1, <2>2, <2>3, <2>4, <2>6, ToldTrue DEF ReadTools
  <2> QED
    BY <2>5, <2>6
<1> QED
  BY <1>3, <1>4

LEMMA EditBaseTrue ==
  ASSUME Knowing, EditBase
  PROVE  Fine
<1> DEFINE row == documents[req.doc]
           r == [req EXCEPT !.version = row.current_ver, !.step = "base_bytes"]
<1>1. req.step = "base" /\ req.door = "edit_document"
  BY DoorOfStep DEF EditBase, At
<1>2. req.doc \in Docs /\ AskedOnce(req) /\ AddressedOnce(req) /\ req.current = None
  BY <1>1, KnowingIs DEF ToolPlaced, ToolKnows
<1>3. SoundRow(row) /\ row \in DocumentRow
  BY <1>2, KnowingIs
<1>4. CASE Live(row)
  <2>1. Continue(r)
    BY <1>4 DEF EditBase
  <2>2. row.current_ver \in Nat /\ row.current_ver > 0
    BY <1>3, <1>4 DEF SoundRow, DocumentRow
  <2>3. /\ r.door = req.door /\ r.target = req.target /\ r.c = req.c /\ r.args = req.args
        /\ r.doc = req.doc /\ r.step = "base_bytes" /\ r.current = req.current /\ r.version = row.current_ver
    BY KnowingIs DEF ToolRequest
  <2> HIDE DEF r
  <2>4. AskedOnce(r) /\ AddressedOnce(r) /\ CurrentOnce(r)
    BY <1>2, <2>3 DEF AskedOnce, AddressedOnce, ForwardedOnce, CurrentOnce
  <2>5. BasedOnce(r)
    BY <1>4, <2>2, <2>3, KnowingIs DEF BasedOnce, NewestAt
  <2>6. r.step \in ToolStepsOf(r.door)
    BY <1>1, <2>3 DEF ToolStepsOf
  <2>7. ToolKnows(r)
    BY <1>1, <1>2, <2>3, <2>4, <2>5, <2>6 DEF ToolKnows
  <2> QED
    BY <2>1, <2>7, GoesOn
<1>5. CASE ~Live(row)
  <2>1. TellError(404)
    BY <1>5 DEF EditBase
  <2> QED
    BY <1>2, <1>5, <2>1, MissingIsRight
<1> QED
  BY <1>4, <1>5

LEMMA EditBytesTrue ==
  ASSUME Knowing, EditBytes
  PROVE  Fine
<1>1. req.step = "base_bytes" /\ req.door = "edit_document"
  BY DoorOfStep DEF EditBytes, At
<1>2. req.doc \in Docs /\ AskedOnce(req) /\ AddressedOnce(req) /\ req.current = None /\ BasedOnce(req)
  BY <1>1, KnowingIs DEF ToolPlaced, ToolKnows
<1>3. PICK m \in seen : NewestAt(req, m)
  BY <1>2 DEF BasedOnce
<1>4. CASE <<req.doc, req.version>> \notin blobs
  <2>1. TellError(409)
    BY <1>4 DEF EditBytes
  <2>2. ReachedAt(req, m)
    BY <1>2, <1>3, KnowingIs DEF NewestAt, ReachedAt, SoundMoment, SoundRow, DocumentRow
  <2>3. ~Live(documents[req.doc])
    BY <1>2, <1>4, <2>2, BytesLost DEF BasedOnce
  <2> QED
    BY <1>2, <2>1, <2>3, MissingIsRight
<1>5. CASE <<req.doc, req.version>> \in blobs /\ req.args.expected \notin {0, req.version}
  <2>1. TellError(412)
    BY <1>5 DEF EditBytes
  <2>2. PICK a : /\ answer' = a /\ req' = None /\ a.args = req.args /\ a.doc = req.doc
                 /\ a.how = "refused" /\ a.status = 412
    BY <2>1, RefusedIs
  <2>3. a.args.expected \notin {0, m.documents[a.doc].current_ver}
    BY <1>3, <1>5, <2>2 DEF NewestAt
  <2>4. ToolRefuses(a, seen)
    BY <2>2, <2>3 DEF ToolRefuses
  <2> QED
    BY <2>2, <2>4 DEF Fine, ToolAnswered, ToolRight
<1>6. CASE <<req.doc, req.version>> \in blobs /\ ~(req.args.expected \notin {0, req.version})
  <2> DEFINE r == [req EXCEPT !.args.expected = req.version, !.step = "write"]
  <2>1. Continue(r)
    BY <1>6 DEF EditBytes
  <2>2. /\ r.door = req.door /\ r.target = req.target /\ r.c = req.c /\ r.args.follow = req.args.follow
        /\ r.doc = req.doc /\ r.step = "write" /\ r.current = req.current
    BY KnowingIs DEF ToolRequest, ToolArgs
  <2> HIDE DEF r
  <2>3. AskedOnce(r) /\ AddressedOnce(r) /\ CurrentOnce(r)
    BY <1>2, <2>2 DEF AskedOnce, AddressedOnce, ForwardedOnce, CurrentOnce
  <2>4. r.step \in ToolStepsOf(r.door)
    BY <1>1, <2>2 DEF ToolStepsOf
  <2>5. ToolKnows(r)
    BY <1>1, <1>2, <2>2, <2>3, <2>4 DEF ToolKnows
  <2> QED
    BY <2>1, <2>5, GoesOn
<1> QED
  BY <1>4, <1>5, <1>6

LEMMA StatusSuccessorTrue ==
  ASSUME Knowing, StatusSuccessor
  PROVE  Fine
<1> DEFINE core == SetDocumentStatusCore(req.doc, req.args.status, req.args.superseded_by)
<1>1. req.step = "successor" /\ req.door = "set_document_status"
  BY DoorOfStep DEF StatusSuccessor, At
<1>2. req.doc \in Docs /\ AskedOnce(req) /\ AddressedOnce(req) /\ req.current = None
  BY <1>1, KnowingIs DEF ToolPlaced, ToolKnows
<1>3. CASE core.status = Pending
  <2> DEFINE r == [req EXCEPT !.step = "mark"]
  <2>1. Continue(r)
    BY <1>3 DEF StatusSuccessor, Go
  <2> HIDE DEF core
  <2>2. /\ r.door = req.door /\ r.target = req.target /\ r.c = req.c /\ r.args = req.args
        /\ r.doc = req.doc /\ r.step = "mark" /\ r.current = req.current
    BY KnowingIs DEF ToolRequest
  <2> HIDE DEF r
  <2>3. AskedOnce(r) /\ AddressedOnce(r) /\ CurrentOnce(r)
    BY <1>2, <2>2 DEF AskedOnce, AddressedOnce, ForwardedOnce, CurrentOnce
  <2>4. r.step \in ToolStepsOf(r.door)
    BY <1>1, <2>2 DEF ToolStepsOf
  <2>5. ToolKnows(r)
    BY <1>1, <1>2, <2>2, <2>3, <2>4 DEF ToolKnows
  <2> QED
    BY <2>1, <2>5, GoesOn
<1>4. CASE core.status # Pending
  <2>1. TellError(422)
    BY <1>4 DEF StatusSuccessor
  <2>2. req.args.superseded_by = req.doc \/ ~Live(documents[req.args.superseded_by])
    <3> SUFFICES ASSUME ~(req.args.superseded_by = req.doc \/ ~Live(documents[req.args.superseded_by])) PROVE FALSE
      OBVIOUS
    <3>1. core = [Fails(Pending) EXCEPT !.job = Later("status", None, req.doc, req.args.status,
                       IF req.args.status = "deprecated" THEN req.args.superseded_by ELSE None)]
      BY DEF SetDocumentStatusCore
    <3>2. core.status = Pending
      BY <3>1 DEF Fails, Store
    <3> QED
      BY <1>4, <3>2
  <2>3. PICK a : /\ answer' = a /\ req' = None /\ a.args = req.args /\ a.doc = req.doc
                 /\ a.how = "refused" /\ a.status = 422
    BY <2>1, RefusedIs
  <2> HIDE DEF core
  <2>4. \E m \in seen : a.args.superseded_by = a.doc \/ ~Live(m.documents[a.args.superseded_by])
    BY <2>2, <2>3, KnowingIs
  <2>5. ToolRefuses(a, seen)
    BY <2>3, <2>4 DEF ToolRefuses
  <2> QED
    BY <2>3, <2>5 DEF Fine, ToolAnswered, ToolRight
<1> QED
  BY <1>3, <1>4

LEMMA ReadingStepTrue == ASSUME Knowing, ReadingStep PROVE Fine
BY CheckTokenTrue, ResolveTargetTrue, FindRetiredTrue, ForwardedToTrue, ListHistoryTrue, CurrentEchoTrue,
   BodyRowTrue, BodyBytesTrue, EditBaseTrue, EditBytesTrue, StatusSuccessorTrue DEF ReadingStep

----------------------------------------------------------------------------
\* The writes.  What a batch leaves is a moment of the call's too.

Then == [documents |-> documents', slug_tombstones |-> slug_tombstones', env |-> env']
Does == answer' = None /\ \E r : req' = r /\ ToolKnows(r)'

Echoing(d, how, n) == [req EXCEPT !.doc = d, !.step = "echo", !.how = how, !.version = n]

LEMMA WrittenTrue ==
  ASSUME Knowing, req.step \in {"write", "mark"}, NEW d \in Docs, NEW n, NEW how,
         req' = Echoing(d, how, n),
         answer' = None, seen' = seen \union {Then},
         d = req.doc \/ req.target = None,
         \/ /\ req.step = "write" /\ how = "written" /\ n = documents[d].current_ver + 1 /\ n > 0 /\ n \in Nat
            /\ Live(documents'[d]) /\ documents'[d].current_ver = n /\ req.args.expected \in {0, n - 1}
         \/ /\ req.step = "mark" /\ how = "marked" /\ n = None
            /\ Live(documents'[d]) /\ documents'[d].status = req.args.status
  PROVE  Does
<1>1. AskedOnce(req) /\ AddressedOnce(req) /\ req.current = None
      /\ (req.door = "publish_document" => req.target = None /\ req.args.expected = 0)
  BY KnowingIs DEF ToolKnows
<1>2. PICK r : /\ req' = r
               /\ r.door = req.door /\ r.target = req.target /\ r.c = req.c /\ r.args = req.args /\ r.how = how
               /\ r.doc = d /\ r.step = "echo" /\ r.current = None /\ r.version = n
  <2> DEFINE x == [req EXCEPT !.doc = d, !.step = "echo", !.how = how, !.version = n]
  <2>1. /\ x.door = req.door /\ x.target = req.target /\ x.c = req.c /\ x.args = req.args /\ x.how = how
        /\ x.doc = d /\ x.step = "echo" /\ x.current = None /\ x.version = n
    BY <1>1, KnowingIs DEF ToolRequest
  <2>2. req' = x
    BY DEF Echoing
  <2> HIDE DEF x
  <2> QED
    BY <2>1, <2>2
<1>4. AskedOnce(r)'
  BY <1>1, <1>2 DEF AskedOnce
<1>5. AddressedOnce(r)'
  BY <1>1, <1>2 DEF AddressedOnce, ForwardedOnce
<1>6. CurrentOnce(r)'
  BY <1>2 DEF CurrentOnce
<1>7. req.step = "write" => WrittenOnce(r)'
  <2> SUFFICES ASSUME req.step = "write" PROVE WrittenOnce(r)'
    OBVIOUS
  <2>1. Then \in seen' /\ Then.documents = documents' /\ Moment \in seen' /\ Moment.documents = documents
    BY KnowingIs DEF Then
  <2>2. NewestAt(r, Then)
    BY <1>2, <2>1 DEF NewestAt
  <2>3. n = Moment.documents[d].current_ver + 1
    BY <2>1
  <2> HIDE DEF Then
  <2> QED
    BY <1>2, <2>1, <2>2, <2>3 DEF WrittenOnce, NewestAt
<1>8. req.step = "mark" => MarkedOnce(r)'
  <2> SUFFICES ASSUME req.step = "mark" PROVE MarkedOnce(r)'
    OBVIOUS
  <2>1. Then \in seen' /\ Then.documents = documents'
    BY DEF Then
  <2> HIDE DEF Then
  <2> QED
    BY <1>2, <2>1 DEF MarkedOnce
<1>9. r.step \in ToolStepsOf(r.door) /\ r.door \notin ReadTools
      /\ (r.door \in {"publish_document", "update_document", "edit_document"} => req.step = "write")
      /\ (r.door = "set_document_status" => req.step = "mark")
  BY <1>2, DoorOfStep DEF ToolStepsOf, ReadTools
<1>10. ToolKnows(r)'
  BY <1>1, <1>2, <1>4, <1>5, <1>6, <1>7, <1>8, <1>9 DEF ToolKnows, ReadTools
<1> QED
  BY <1>2, <1>10 DEF Does

Refuses == ToolAnswered /\ Then = Moment

\* A write that is refused for its name.
LEMMA TakenIsRight ==
  ASSUME Knowing, NEW d \in Docs, req.args.slug \in Slugs, SlugRefused(req.args.slug, d), TellError(409)
  PROVE  ToolAnswered
<1>1. PICK a : /\ answer' = a /\ req' = None /\ a.args = req.args /\ a.how = "refused" /\ a.status = 409
  BY RefusedIs
<1>2. \E m \in seen : /\ a.args.slug \in Slugs
                      /\ Retired(m, a.args.slug) \/ \E e \in Docs : m.documents[e].slug = a.args.slug
  BY <1>1, KnowingIs DEF SlugRefused, Retired
<1>3. ToolRefuses(a, seen)
  BY <1>1, <1>2 DEF ToolRefuses
<1> QED
  BY <1>1, <1>3 DEF ToolAnswered, ToolRight

LEMMA PerformFails ==
  ASSUME Knowing, NEW step, NEW d \in Docs, NEW core, Perform(step, d, core), NEW n \in {403, 404, 409, 412},
         core.status = n, core.documents = documents, core.slug_tombstones = slug_tombstones
  PROVE  TellError(n) /\ Then = Moment
<1>1. ~(core.status < 300)
  OBVIOUS
<1>2. env' = env /\ documents' = documents /\ slug_tombstones' = slug_tombstones
  BY DEF Perform
<1>3. TellError(core.status)
  BY <1>1 DEF Perform
<1> QED
  BY <1>2, <1>3 DEF Then, Moment

LEMMA PerformWrites ==
  ASSUME Knowing, Watch, NEW d \in Docs, NEW core, core.status = 200 \/ core.status = 201, Perform("write", d, core),
         NEW n, core.documents[d].current_ver = n
  PROVE  /\ req.step = "write" /\ seen' = seen \union {Then} /\ documents' = core.documents /\ answer' = None
         /\ req' = Echoing(d, "written", n)
<1>1. req # None
  BY KnowingIs
<1>2. seen' = seen \union {Then}
  BY <1>1 DEF Watch, Then
<1>3. core.status < 300
  OBVIOUS
<1> QED
  BY <1>2, <1>3 DEF Perform, Echoing

LEMMA PerformMarks ==
  ASSUME Knowing, Watch, NEW d \in Docs, NEW core, core.status = 200, Perform("mark", d, core)
  PROVE  /\ req.step = "mark" /\ seen' = seen \union {Then} /\ documents' = core.documents /\ answer' = None
         /\ req' = Echoing(d, "marked", None)
<1>1. req # None
  BY KnowingIs
<1>2. seen' = seen \union {Then}
  BY <1>1 DEF Watch, Then
<1>3. core.status < 300
  OBVIOUS
<1> QED
  BY <1>2, <1>3 DEF Perform, Echoing

LEMMA PublishTrue ==
  ASSUME Knowing, Watch, NEW d \in Docs, Publish(d)
  PROVE  Does \/ Refuses
<1> DEFINE core == PublishDocumentCore(d, scene.default_visibility, req.args.slug)
<1>1. req.door = "publish_document" /\ documents[d].life = "none" /\ Perform("write", d, core)
  BY DEF Publish
<1>2. req.target = None /\ req.args.expected = 0 /\ req.args.slug \in Slugs \union {None}
  BY <1>1, KnowingIs, CallingIs DEF ToolKnows, LetIn, Knowing
<1>3. CASE SlugRefused(req.args.slug, d)
  <2>1. core = Fails(409)
    BY <1>3 DEF PublishDocumentCore
  <2>2. core.status = 409 /\ core.documents = documents /\ core.slug_tombstones = slug_tombstones
    BY <2>1 DEF Fails, Store
  <2> HIDE DEF core
  <2>3. TellError(409) /\ Then = Moment
    BY <1>1, <2>2, PerformFails
  <2>4. req.args.slug \in Slugs
    BY <1>2, <1>3 DEF SlugRefused
  <2> QED
    BY <1>3, <2>3, <2>4, TakenIsRight DEF Refuses
<1>4. CASE ~SlugRefused(req.args.slug, d)
  <2> DEFINE row == [Vacant EXCEPT !.life = "live", !.visibility = scene.default_visibility,
            !.current_ver = 1, !.slug = req.args.slug,
            !.published_ver = IF scene.default_visibility = "public" THEN 1 ELSE 0]
  <2>0. row.life = "live" /\ row.current_ver = 1
    BY DEF Vacant
  <2>1. core = Store(201, [documents EXCEPT ![d] = row], slug_tombstones, blobs \union {<<d, 1>>})
    BY <1>4 DEF PublishDocumentCore
  <2> HIDE DEF row
  <2>2. core.status = 201 /\ core.documents = [documents EXCEPT ![d] = row]
    BY <2>1 DEF Store
  <2> HIDE DEF core
  <2>3. core.documents[d] = row
    BY <2>2 DEF Knowing, Calling, World, SoundStore
  <2>4. documents[d].current_ver = 0
    BY <1>1, KnowingIs DEF SoundRow, Live
  <2>5. /\ req.step = "write" /\ answer' = None /\ seen' = seen \union {Then} /\ documents' = core.documents
        /\ req' = Echoing(d, "written", 1)
    <3>1. core.documents[d].current_ver = 1
      BY <2>0, <2>3
    <3>2. Knowing /\ Watch /\ Perform("write", d, core) /\ (core.status = 200 \/ core.status = 201)
      BY <1>1, <2>2
    <3> QED
      BY <3>1, <3>2, PerformWrites
  <2> QED
    BY <1>2, <2>0, <2>3, <2>4, <2>5, WrittenTrue DEF Live
<1> QED
  BY <1>3, <1>4

LEMMA UpdateTrue ==
  ASSUME Knowing, Watch, Update
  PROVE  Does \/ Refuses
<1> DEFINE d == req.doc
           row == documents[d]
           core == UpdateDocumentCore(d, req.args.expected, req.args.slug, "agent")
           target == IF req.args.slug = Keep THEN row.slug ELSE req.args.slug
<1>1. req.door \in {"update_document", "edit_document"} /\ Perform("write", d, core)
  BY DEF Update
<1>2. req.step = "write"
  BY <1>1 DEF Perform
<1>3. d \in Docs /\ req.args.expected \in Nat /\ req.args.slug \in Slugs \union {None, Keep}
  BY <1>1, <1>2, KnowingIs DEF ToolPlaced, ToolArgs
<1>4. row \in DocumentRow /\ SoundRow(row)
  BY <1>3, KnowingIs
<1>5. ASSUME NEW n \in {403, 404, 409, 412}, core = Fails(n)
      PROVE  TellError(n) /\ Then = Moment
  <2>1. core.status = n /\ core.documents = documents /\ core.slug_tombstones = slug_tombstones
    BY <1>5 DEF Fails, Store
  <2> HIDE DEF core
  <2> QED
    BY <1>1, <1>3, <2>1, PerformFails
<1>6. CASE ~Live(row)
  <2>1. TellError(404) /\ Then = Moment
    BY <1>5, <1>6 DEF UpdateDocumentCore
  <2> QED
    BY <1>3, <1>6, <2>1, MissingAnswered DEF Refuses
<1>7. CASE Live(row) /\ req.args.expected \notin {0, row.current_ver}
  <2>1. TellError(412) /\ Then = Moment
    BY <1>5, <1>7 DEF UpdateDocumentCore
  <2>2. PICK a : /\ answer' = a /\ req' = None /\ a.args = req.args /\ a.doc = req.doc
                 /\ a.how = "refused" /\ a.status = 412
    BY <2>1, RefusedIs
  <2>3. \E m \in seen : a.args.expected \notin {0, m.documents[a.doc].current_ver}
    BY <1>7, <2>2, KnowingIs
  <2>4. ToolRefuses(a, seen)
    BY <2>2, <2>3 DEF ToolRefuses
  <2> QED
    BY <2>1, <2>2, <2>4 DEF ToolAnswered, ToolRight, Refuses
<1>8. CASE /\ Live(row) /\ req.args.expected \in {0, row.current_ver}
           /\ row.visibility = "public" /\ target # row.slug
  <2>1. TellError(403) /\ Then = Moment
    BY <1>5, <1>8 DEF UpdateDocumentCore
  <2>2. PICK a : /\ answer' = a /\ req' = None /\ a.args = req.args /\ a.doc = req.doc
                 /\ a.how = "refused" /\ a.status = 403
    BY <2>1, RefusedIs
  <2>3. \E m \in seen : /\ m.documents[a.doc].visibility = "public"
                        /\ a.args.slug \notin {Keep, m.documents[a.doc].slug}
    BY <1>8, <2>2, KnowingIs
  <2>4. ToolRefuses(a, seen)
    BY <2>2, <2>3 DEF ToolRefuses
  <2> QED
    BY <2>1, <2>2, <2>4 DEF ToolAnswered, ToolRight, Refuses
<1>9. CASE /\ Live(row) /\ req.args.expected \in {0, row.current_ver}
           /\ row.visibility # "public" \/ target = row.slug
           /\ SlugRefused(target, d)
  <2>1. TellError(409) /\ Then = Moment
    BY <1>4, <1>5, <1>9 DEF UpdateDocumentCore, DocumentRow
  <2>2. target = req.args.slug /\ req.args.slug \in Slugs
    BY <1>3, <1>9 DEF SlugRefused
  <2> QED
    BY <1>3, <1>9, <2>1, <2>2, TakenIsRight DEF Refuses
<1>10. CASE /\ Live(row) /\ req.args.expected \in {0, row.current_ver}
            /\ row.visibility # "public" \/ target = row.slug
            /\ ~SlugRefused(target, d)
  <2> DEFINE n == row.current_ver + 1
             tombs == IF target = row.slug THEN slug_tombstones
                      ELSE TombstoneSlug(row.slug, IF target = None THEN None ELSE d)
             docs == [documents EXCEPT ![d].current_ver = n, ![d].slug = target]
  <2>1. core = Store(200, docs, tombs, blobs \union {<<d, n>>})
    BY <1>4, <1>10 DEF UpdateDocumentCore, DocumentRow
  <2>2. docs[d].life = "live" /\ docs[d].current_ver = n
    BY <1>3, <1>4, <1>10 DEF Knowing, Calling, World, SoundStore, DocumentRow, Live
  <2>3. n \in Nat /\ n > 0 /\ n - 1 = row.current_ver
    BY <1>4 DEF DocumentRow
  <2> HIDE DEF docs, tombs, n
  <2>4. core.status = 200 /\ core.documents = docs
    BY <2>1 DEF Store
  <2> HIDE DEF core
  <2>5. /\ answer' = None /\ seen' = seen \union {Then} /\ documents' = docs
        /\ req' = Echoing(d, "written", n)
    BY <1>1, <1>3, <2>2, <2>4, PerformWrites
  <2>6. n = row.current_ver + 1 /\ req.args.expected \in {0, n - 1}
    BY <1>10, <2>3 DEF n
  <2> HIDE DEF row
  <2>7. /\ n = documents[d].current_ver + 1 /\ Live(documents'[d]) /\ documents'[d].current_ver = n
    BY <2>2, <2>5, <2>6 DEF row, Live
  <2>8. Does
    BY <1>2, <1>3, <2>3, <2>5, <2>6, <2>7, WrittenTrue
  <2> QED
    BY <2>8
<1> QED
  BY <1>4, <1>6, <1>7, <1>8, <1>9, <1>10

LEMMA MarkTrue ==
  ASSUME Knowing, Watch, Mark
  PROVE  Does \/ Refuses
<1> DEFINE d == req.doc
           row == documents[d]
           by == IF req.args.status = "deprecated" THEN req.args.superseded_by ELSE None
           docs == [documents EXCEPT ![d].status = req.args.status, ![d].superseded_by = by]
           core == IF ~Live(row) THEN Fails(404) ELSE Writes(docs)
<1>1. req.door = "set_document_status" /\ Perform("mark", d, core)
  BY DEF Mark
<1>2. req.step = "mark"
  BY <1>1 DEF Perform
<1>3. d \in Docs /\ row \in DocumentRow
  BY <1>1, <1>2, KnowingIs DEF ToolPlaced
<1>4. CASE ~Live(row)
  <2>1. core.status = 404 /\ core.documents = documents /\ core.slug_tombstones = slug_tombstones
    BY <1>4 DEF Fails, Store
  <2> HIDE DEF core
  <2>2. TellError(404) /\ Then = Moment
    BY <1>1, <1>3, <2>1, PerformFails
  <2> QED
    BY <1>3, <1>4, <2>2, MissingAnswered DEF Refuses
<1>5. CASE Live(row)
  <2>1. docs[d].life = "live" /\ docs[d].status = req.args.status
    BY <1>3, <1>5 DEF Knowing, Calling, World, SoundStore, DocumentRow, Live
  <2> HIDE DEF docs
  <2>2. core.status = 200 /\ core.documents = docs
    BY <1>5 DEF Writes, Store
  <2> HIDE DEF core
  <2>3. /\ answer' = None /\ seen' = seen \union {Then} /\ documents' = docs
        /\ req' = Echoing(d, "marked", None)
    BY <1>1, <1>3, <2>2, PerformMarks
  <2> QED
    BY <1>2, <1>3, <2>1, <2>3, WrittenTrue DEF Live
<1> QED
  BY <1>4, <1>5

----------------------------------------------------------------------------
\* The invariant, and the steps that keep it.

ToolsInv ==
  /\ DoorsInv
  /\ req # None /\ req.door \in DocumentTools => ToolKnows(req)
  /\ ToolsTellTheTruth

\* What is no tool's step answers no tool's call, and opens none.
Elsewise ==
  /\ answer' = None \/ answer'.door \in HttpDoors
  /\ req' = req \/ req' = None \/ req'.door \in HttpDoors

LEMMA ActElsewise ==
  ASSUME DoorsInv, Act
  PROVE  Elsewise
<1>1. CASE Serve
  <2>1. CASE ReadStep
    <3>1. Reading /\ (Answered \/ Proceeds)
      BY <2>1, WhoSteps, ReadStepOK
    <3>2. req.door \in HttpDoors
      BY <3>1 DEF Reading, HttpRequest
    <3> QED
      BY <3>1, <3>2 DEF Answered, Proceeds, Same, Elsewise
  <2>2. ASSUME NEW door \in scene.doors, NEW c, NEW target, NEW inm, NEW follow,
               Arrive(door, target, c, inm, follow)
        PROVE  Elsewise
    <3>1. door \in HttpDoors
      BY DEF DoorsInv, World, SessionsInv, SoundScene
    <3>2. answer' = None /\ req'.door = door
      BY <2>2 DEF Arrive
    <3> QED
      BY <3>1, <3>2 DEF Elsewise
  <2> QED
    BY <1>1, <2>1, <2>2 DEF Serve
<1>2. ASSUME NEW c \in Writers, Change(c)
      PROVE  Elsewise
  BY <1>2, ChangesLeaveRequests DEF DoorsInv, Elsewise
<1>3. FinishJob \/ (\E token \in 1..2 : PostLogin(token)) \/ PostLogout(Browser) \/ PostLogout(Elsewhere)
        \/ ServePage => Elsewise
  BY DEF FinishJob, PostLogin, PostLogout, ServePage, Elsewise
<1>4. Rotate(env.token + 1, env.epoch) \/ Rotate(env.token, env.epoch + 1) \/ Tick => Elsewise
  BY DEF Rotate, Tick, Elsewise
<1> QED
  BY <1>1, <1>2, <1>3, <1>4 DEF Act

LEMMA ElsewiseKeeps ==
  ASSUME ToolsInv, DoorsInv', Watch, Elsewise
  PROVE  ToolsInv'
<1>1. ToolsTellTheTruth'
  BY Steps DEF Elsewise, ToolsTellTheTruth
<1>2. ASSUME NEW r, r = req', r # None, r.door \in DocumentTools
      PROVE  ToolKnows(r)'
  <2>1. r = req /\ ToolKnows(r)
    BY <1>2, Steps DEF Elsewise, ToolsInv
  <2>2. seen \subseteq seen'
    BY <1>2, <2>1, WatchIs
  <2> QED
    BY <2>1, <2>2, ToolKnowsStill
<1>3. (req # None /\ req.door \in DocumentTools => ToolKnows(req))'
  <2>1. ASSUME NEW r, r = req', ToolKnows(r)' PROVE ToolKnows(req)'
    BY <2>1 DEF ToolKnows, AskedOnce, UnheldOnce, AddressedOnce, ForwardedOnce, EchoedOnce, EchoedAt, NewestAt,
       ReachedAt, CurrentOnce, ReadOnce, BasedOnce, WrittenOnce, MarkedOnce, ShownOnce
  <2> QED
    BY <1>2, <2>1
<1> QED
  BY <1>1, <1>3 DEF ToolsInv

LEMMA WhoKnows ==
  ASSUME ToolsInv, ReadingStep \/ (\E d \in Docs : Publish(d)) \/ Update \/ Mark
  PROVE  Knowing
<1>1. Calling
  BY WhoSteps DEF ToolsInv
<1>2. req # None /\ req.door \in DocumentTools
  BY <1>1, CallingIs DEF Calling
<1> QED
  BY <1>1, <1>2 DEF ToolsInv, DoorsInv, Knowing

\* A tool's step answers rightly, or goes on with what it has learned.
LEMMA ToolStepTrue ==
  ASSUME ToolsInv, DoorsInv', Watch, ReadingStep \/ (\E d \in Docs : Publish(d)) \/ Update \/ Mark
  PROVE  ToolsInv'
<1>1. Knowing
  BY WhoKnows
<1>2. seen' = seen \union {Then} /\ Moment \in seen
  BY <1>1, KnowingIs DEF Watch, Then
<1>3. Does \/ Refuses \/ (Fine /\ Then = Moment)
  <2>1. CASE ReadingStep
    <3>1. UNCHANGED <<store, browser, scene, left>>
      BY <1>1, <2>1, ReadingStepOK DEF Knowing
    <3> QED
      BY <1>1, <2>1, <3>1, ReadingStepTrue DEF store, Then, Moment
  <2> QED
    BY <1>1, <2>1, PublishTrue, UpdateTrue, MarkTrue
<1>4. CASE ToolAnswered /\ Then = Moment
  <2>1. seen' = seen
    BY <1>2, <1>4
  <2>2. PICK a : req' = None /\ answer' = a /\ ToolRight(a)
    BY <1>4 DEF ToolAnswered
  <2>3. ToolsTellTheTruth'
    BY <2>1, <2>2 DEF ToolsTellTheTruth, ToolRight
  <2> QED
    BY <2>2, <2>3 DEF ToolsInv
<1>5. CASE answer' = None /\ \E r : req' = r /\ ToolKnows(r)'
  <2>1. PICK r : req' = r /\ ToolKnows(r)'
    BY <1>5
  <2>2. ToolKnows(req)'
    BY <2>1 DEF ToolKnows, AskedOnce, UnheldOnce, AddressedOnce, ForwardedOnce, EchoedOnce, EchoedAt, NewestAt,
       ReachedAt, CurrentOnce, ReadOnce, BasedOnce, WrittenOnce, MarkedOnce, ShownOnce
  <2>3. ToolsTellTheTruth'
    BY <1>5 DEF ToolsTellTheTruth
  <2> QED
    BY <2>2, <2>3 DEF ToolsInv
<1>6. CASE ToolGoesOn
  <2>1. PICK r : answer' = None /\ req' = r /\ ToolKnows(r)
    BY <1>6 DEF ToolGoesOn
  <2>2. ToolKnows(r)'
    BY <1>2, <2>1, ToolKnowsStill
  <2> QED
    BY <1>5, <2>1, <2>2
<1> QED
  BY <1>3, <1>4, <1>5, <1>6 DEF Does, Refuses, Fine

LEMMA CallTrue ==
  ASSUME ToolsInv, DoorsInv', Watch, Call
  PROVE  ToolsInv'
<1>1. PICK tool \in DocumentTools : \E target \in Identities(tool), c \in Callers, args \in ArgsOf(tool) :
        CallTool(tool, target, c, args)
  BY DEF Call
<1>2. PICK target \in Identities(tool), c \in Callers, args \in ArgsOf(tool) : CallTool(tool, target, c, args)
  BY <1>1
<1>3. PICK r : /\ req' = r /\ r.door = tool /\ r.target = target /\ r.args = args /\ r.step = "token"
               /\ r.doc = (IF target \in Docs THEN target ELSE None) /\ r.current = None
  BY <1>2 DEF CallTool
<1>4. tool = "publish_document" => target = None /\ args.expected = 0
  BY <1>2 DEF Identities, ArgsOf
<1>5. r.step \in ToolStepsOf(r.door)
  BY <1>3 DEF ToolStepsOf
<1>6. ToolKnows(r)'
  BY <1>3, <1>4, <1>5 DEF ToolKnows, CurrentOnce
<1>7. ToolKnows(req)'
  BY <1>3, <1>6 DEF ToolKnows, AskedOnce, UnheldOnce, AddressedOnce, ForwardedOnce, EchoedOnce, EchoedAt, NewestAt,
       ReachedAt, CurrentOnce, ReadOnce, BasedOnce, WrittenOnce, MarkedOnce, ShownOnce
<1>8. answer' = None
  BY <1>2 DEF CallTool
<1> QED
  BY <1>7, <1>8 DEF ToolsInv, ToolsTellTheTruth

LEMMA ToolsInvStep ==
  ASSUME ToolsInv, [NextWithTools]_vars
  PROVE  ToolsInv'
<1>1. DoorsInv'
  BY DoorsStep DEF ToolsInv
<1>2. CASE UNCHANGED vars
  <2>1. req' = req /\ answer' = answer /\ seen' = seen
    BY <1>2 DEF vars
  <2>2. ToolKnows(req) => ToolKnows(req)'
    BY <2>1 DEF ToolKnows, AskedOnce, UnheldOnce, AddressedOnce, ForwardedOnce, EchoedOnce, EchoedAt, NewestAt,
       ReachedAt, CurrentOnce, ReadOnce, BasedOnce, WrittenOnce, MarkedOnce, ShownOnce
  <2> QED
    BY <1>1, <2>1, <2>2 DEF ToolsInv, ToolsTellTheTruth
<1>3. CASE Act /\ Watch
  BY <1>1, <1>3, ActElsewise, ElsewiseKeeps DEF ToolsInv
<1>4. CASE Watch /\ Call
  BY <1>1, <1>4, CallTrue
<1>5. CASE Watch /\ (ReadingStep \/ (\E d \in Docs : Publish(d)) \/ Update \/ Mark)
  BY <1>1, <1>5, ToolStepTrue
<1> QED
  BY <1>2, <1>3, <1>4, <1>5 DEF NextWithTools

\* However names, documents and keys change between the reads of one tool's
\* call (mcp-document-target.ts, mcp-tools/), what the agent is told was so at a
\* moment since it called: its document had the name, the version written is
\* the next one under the expected one, the echo is one row's, and a refusal
\* was the right one.
THEOREM AgentsAreToldTheTruth == SpecWithTools => []ToolsTellTheTruth
<1>1. Init => ToolsInv
  <2>1. Init => req = None /\ answer = None
    BY DEF Init
  <2> QED
    BY <2>1, InitOK DEF ToolsInv, ToolsTellTheTruth
<1>2. ToolsInv /\ [NextWithTools]_vars => ToolsInv'
  BY ToolsInvStep
<1>3. ToolsInv => ToolsTellTheTruth
  BY DEF ToolsInv
<1> QED
  BY <1>1, <1>2, <1>3, PTL DEF SpecWithTools

-----------------------------------------------------------------------------
(* The two lists: each rule of the cascade is of a kind, and a request     *)
(* that passes a rule of that kind is on the side the other list says.     *)

\* A short path is its segments.
LEMMA PathIsOver ==
  ASSUME NEW S, NEW path \in Seq(S), NEW a \in S, NEW b \in S
  PROVE  /\ path = <<>> <=> Len(path) = 0
         /\ path = <<a>> <=> Len(path) = 1 /\ path[1] = a
         /\ path = <<a, b>> <=> Len(path) = 2 /\ path[1] = a /\ path[2] = b
         /\ Begins(path, <<a>>) <=> Len(path) >= 1 /\ path[1] = a
         /\ Under(path, <<a>>) <=> Len(path) >= 2 /\ path[1] = a
         /\ Begins(path, <<a, b>>) <=> Len(path) >= 2 /\ path[1] = a /\ path[2] = b
<1>0. /\ <<a>> \in Seq(S) /\ Len(<<a>>) = 1 /\ <<a>>[1] = a
      /\ <<a, b>> \in Seq(S) /\ Len(<<a, b>>) = 2 /\ <<a, b>>[1] = a /\ <<a, b>>[2] = b
      /\ <<>> \in Seq(S) /\ Len(<<>>) = 0
  OBVIOUS
<1> DEFINE one == <<a>>
           two == <<a, b>>
<1>1. /\ path = <<>> <=> Len(path) = 0
      /\ path = one <=> Len(path) = 1 /\ path[1] = a
      /\ path = two <=> Len(path) = 2 /\ path[1] = a /\ path[2] = b
  <2> HIDE DEF one, two
  <2>1. ASSUME Len(path) = 1, path[1] = a PROVE path = one
    <3>1. one \in Seq(S) /\ Len(one) = 1 /\ one[1] = a
      BY <1>0 DEF one
    <3>2. \A i \in 1..Len(path) : path[i] = one[i]
      BY <2>1, <3>1
    <3> QED
      BY <2>1, <3>1, <3>2, SeqEqual
  <2>2. ASSUME Len(path) = 2, path[1] = a, path[2] = b PROVE path = two
    <3>1. two \in Seq(S) /\ Len(two) = 2 /\ two[1] = a /\ two[2] = b
      BY <1>0 DEF two
    <3>2. \A i \in 1..Len(path) : path[i] = two[i]
      BY <2>2, <3>1
    <3> QED
      BY <2>2, <3>1, <3>2, SeqEqual
  <2> QED
    BY <1>0, <2>1, <2>2 DEF one, two
<1>2. ASSUME NEW s \in Seq(S)
      PROVE  Begins(path, s) <=> Len(s) <= Len(path) /\ \A i \in 1..Len(s) : s[i] = path[i]
  <2> DEFINE n == Len(s)
             t == SubSeq(s, 1, n)
             u == SubSeq(path, 1, n)
  <2>1. Begins(path, s) <=> n <= Len(path) /\ t = u
    BY DEF Begins, IsPrefix
  <2>2. n \in Nat /\ t \in Seq(S) /\ Len(t) = n /\ \A i \in 1..n : t[i] = s[i]
    OBVIOUS
  <2>3. n <= Len(path) => u \in Seq(S) /\ Len(u) = n /\ \A i \in 1..n : u[i] = path[i]
    OBVIOUS
  <2> HIDE DEF t, u
  <2>4. ASSUME n <= Len(path), \A i \in 1..n : s[i] = path[i] PROVE t = u
    <3>1. \A i \in 1..Len(t) : t[i] = u[i]
      BY <2>2, <2>3, <2>4
    <3> QED
      BY <2>2, <2>3, <2>4, <3>1, SeqEqual
  <2> QED
    BY <2>1, <2>2, <2>3, <2>4
<1>3. Begins(path, one) <=> Len(path) >= 1 /\ path[1] = a
  <2>1. \A i \in 1..1 : i = 1
    OBVIOUS
  <2>2. one \in Seq(S) /\ Len(one) = 1 /\ one[1] = a /\ Len(path) \in Nat
    BY <1>0
  <2>3. Begins(path, one) <=> Len(one) <= Len(path) /\ \A i \in 1..Len(one) : one[i] = path[i]
    BY <1>2, <2>2
  <2> DEFINE m == Len(path)
             begins == Begins(path, one)
  <2>4. begins <=> 1 <= m /\ \A i \in 1..1 : one[i] = path[i]
    BY <2>2, <2>3
  <2>5. m \in Nat
    BY <2>2
  <2> HIDE DEF one, m, begins
  <2>6. begins <=> m >= 1 /\ \A i \in 1..1 : one[i] = path[i]
    BY <2>4, <2>5
  <2> QED
    BY <2>1, <2>2, <2>6 DEF m, begins
<1>4. Begins(path, two) <=> Len(path) >= 2 /\ path[1] = a /\ path[2] = b
  <2>1. \A i \in 1..2 : i = 1 \/ i = 2
    OBVIOUS
  <2>2. two \in Seq(S) /\ Len(two) = 2 /\ two[1] = a /\ two[2] = b /\ Len(path) \in Nat
    BY <1>0
  <2>3. Begins(path, two) <=> Len(two) <= Len(path) /\ \A i \in 1..Len(two) : two[i] = path[i]
    BY <1>2, <2>2
  <2> DEFINE m == Len(path)
             begins == Begins(path, two)
  <2>4. begins <=> 2 <= m /\ \A i \in 1..2 : two[i] = path[i]
    BY <2>2, <2>3
  <2>5. m \in Nat
    BY <2>2
  <2> HIDE DEF two, m, begins
  <2>6. begins <=> m >= 2 /\ \A i \in 1..2 : two[i] = path[i]
    BY <2>4, <2>5
  <2> QED
    BY <2>1, <2>2, <2>6 DEF m, begins
<1>5. Under(path, one) <=> Len(path) >= 2 /\ path[1] = a
  <2>1. Under(path, one) <=> Begins(path, one) /\ path # one
    BY DEF Under, Begins
  <2> DEFINE m == Len(path)
             begins == Begins(path, one)
             is == path = one
             first == path[1] = a
  <2>2. m \in Nat /\ (Under(path, one) <=> begins /\ ~is) /\ (is <=> m = 1 /\ first) /\ (begins <=> m >= 1 /\ first)
    BY <1>1, <1>3, <2>1
  <2> HIDE DEF m, begins, is, first
  <2>3. m >= 1 /\ m # 1 <=> m >= 2
    BY <2>2
  <2> QED
    BY <2>2, <2>3 DEF m, first
<1> QED
  BY <1>1, <1>3, <1>4, <1>5

\* Whatever words the others are.
LEMMA PathIs ==
  ASSUME NEW S, NEW path \in Seq(S), NEW a, NEW b
  PROVE  /\ path = <<>> <=> Len(path) = 0
         /\ path = <<a>> <=> Len(path) = 1 /\ path[1] = a
         /\ path = <<a, b>> <=> Len(path) = 2 /\ path[1] = a /\ path[2] = b
         /\ Begins(path, <<a>>) <=> Len(path) >= 1 /\ path[1] = a
         /\ Under(path, <<a>>) <=> Len(path) >= 2 /\ path[1] = a
         /\ Begins(path, <<a, b>>) <=> Len(path) >= 2 /\ path[1] = a /\ path[2] = b
<1> DEFINE T == S \union {a, b}
<1>1. path \in Seq(T) /\ a \in T /\ b \in T
  OBVIOUS
<1> HIDE DEF T
<1> QED
  BY ONLY <1>1, PathIsOver

\* A pattern that begins with words is met by paths that begin with them.
LEMMA WordsMatch ==
  ASSUME NEW P, NEW pattern \in Seq(P), NEW S, NEW path \in Seq(S), Matches(pattern, path),
         NEW k \in 1..Len(pattern), \A j \in 1..k : pattern[j] \notin {Id, Rest}
  PROVE  Len(path) >= k /\ \A j \in 1..k : path[j] = pattern[j]
<1> DEFINE n == Len(pattern)
           at == {i \in 1..n : pattern[i] = Rest}
           i == CHOOSE j \in 1..n : pattern[j] = Rest
<1>1. n \in Nat /\ Len(path) \in Nat /\ k \in Nat /\ k <= n
  OBVIOUS
<1>2. CASE \E j \in 1..n : pattern[j] = Rest
  <2>1. i \in 1..n /\ pattern[i] = Rest
    BY <1>2
  <2>2. /\ Len(path) >= n - 1
        /\ \A j \in DOMAIN SubSeq(pattern, 1, i - 1) : SubSeq(pattern, 1, i - 1)[j] \in {Id, SubSeq(path, 1, i - 1)[j]}
    BY <1>2 DEF Matches
  <2> HIDE DEF i
  <2>3. k < i
    BY <1>1, <2>1
  <2>4. ASSUME NEW j \in 1..k PROVE path[j] = pattern[j]
    <3>1. j \in 1..(i - 1) /\ i - 1 <= n /\ i - 1 <= Len(path) /\ i - 1 \in Nat
      BY <1>1, <2>1, <2>2, <2>3
    <3>2. SubSeq(pattern, 1, i - 1)[j] = pattern[j] /\ SubSeq(path, 1, i - 1)[j] = path[j] /\ j \in DOMAIN SubSeq(pattern, 1, i - 1)
      BY <3>1
    <3> QED
      BY <2>2, <3>2
  <2> QED
    BY <1>1, <2>1, <2>2, <2>3, <2>4
<1>3. CASE ~(\E j \in 1..n : pattern[j] = Rest)
  <2>1. n = Len(path) /\ \A j \in DOMAIN pattern : pattern[j] \in {Id, path[j]}
    BY <1>3 DEF Matches
  <2> QED
    BY <1>1, <2>1
<1> QED
  BY <1>2, <1>3

\* A pattern without the run of segments is met segment by segment.
LEMMA PlainMatch ==
  ASSUME NEW S, NEW pattern \in Seq(S), NEW path, Matches(pattern, path),
         \A i \in 1..Len(pattern) : pattern[i] # Rest
  PROVE  Len(path) = Len(pattern) /\ \A i \in 1..Len(pattern) : pattern[i] \in {Id, path[i]}
<1>1. ~(\E i \in 1..Len(pattern) : pattern[i] = Rest)
  OBVIOUS
<1>2. Len(pattern) = Len(path) /\ \A i \in DOMAIN pattern : pattern[i] \in {Id, path[i]}
  BY <1>1 DEF Matches
<1> QED
  BY <1>2

\* What programs of other sites may ask below a document.
BelowDocument(method, path) ==
  \/ Len(path) = 2 /\ method \in ReadMethods \union {"PUT", "DELETE"}
  \/ Len(path) > 3 /\ path[3] = "v" /\ method \in ReadMethods /\ Last(path) = "raw"
  \/ Len(path) = 3 /\ path[3] \in {"raw", "text", "source", "links"} /\ method \in ReadMethods
  \/ Len(path) = 3 /\ path[3] \in {"tags", "status"} /\ method = "PUT"

\* The predicate, by how long a path is and how it begins.
LEMMA EligibleIs ==
  ASSUME NEW S, NEW path \in Seq(S), NEW method \in Methods
  PROVE  IsCorsEligible(method, path) <=>
           \/ Len(path) = 1 /\ path[1] \in {"healthz", "openapi.json"} /\ method \in ReadMethods
           \/ Len(path) = 2 /\ path[1] = ".well-known" /\ path[2] \in {"assetlinks.json", "apple-app-site-association"}
              /\ method \in ReadMethods
           \/ Len(path) >= 1 /\ path[1] = "docs" /\ method \in ReadMethods
           \/ Len(path) = 1 /\ path[1] = "d" /\ method \in ReadMethods \union {"POST"}
           \/ Len(path) = 2 /\ path[1] = "d" /\ path[2] \in {"search", "pack"} /\ method \in ReadMethods
           \/ Len(path) >= 2 /\ path[1] = "d" /\ ~(Len(path) = 2 /\ path[2] \in {"search", "pack"})
              /\ BelowDocument(method, path)
           \/ Len(path) >= 2 /\ path[1] = "s" /\ method \in ReadMethods
              /\ (Len(path) = 2 \/ (Len(path) = 3 /\ path[3] = "text"))
           \/ Len(path) >= 2 /\ path[1] = "admin" /\ path[2] # "console"
<1> DEFINE n == Len(path)
           h == path[1]
           p2 == path[2]
           g1 == path \in {<<"healthz">>, <<"openapi.json">>}
           g2 == path \in {<<".well-known", "assetlinks.json">>, <<".well-known", "apple-app-site-association">>}
           g3 == Begins(path, <<"docs">>)
           g4 == path = <<"d">>
           g5 == path \in {<<"d", "search">>, <<"d", "pack">>}
           g6 == Under(path, <<"d">>) /\ path \notin {<<"d", "search">>, <<"d", "pack">>}
           g7 == Under(path, <<"s">>)
           g8 == IsConsole(path)
           g9 == Under(path, <<"admin">>) /\ ~IsConsole(path)
           read == method \in ReadMethods
           post == method \in ReadMethods \union {"POST"}
           below == CASE Len(path) = 2 -> method \in ReadMethods \union {"PUT", "DELETE"}
                      [] Len(path) > 3 /\ path[3] = "v" -> method \in ReadMethods /\ Last(path) = "raw"
                      [] Len(path) = 3 /\ path[3] \in {"raw", "text", "source", "links"} -> method \in ReadMethods
                      [] Len(path) = 3 /\ path[3] \in {"tags", "status"} -> method = "PUT"
                      [] OTHER -> FALSE
           named == method \in ReadMethods /\ (Len(path) = 2 \/ (Len(path) = 3 /\ path[3] = "text"))
<1>0. n \in Nat
  OBVIOUS
<1>10. \A a, b :
         /\ path = <<a>> <=> n = 1 /\ h = a
         /\ path = <<a, b>> <=> n = 2 /\ h = a /\ p2 = b
         /\ Begins(path, <<a>>) <=> n >= 1 /\ h = a
         /\ Under(path, <<a>>) <=> n >= 2 /\ h = a
         /\ Begins(path, <<a, b>>) <=> n >= 2 /\ h = a /\ p2 = b
  <2> HIDE DEF n, h, p2
  <2> SUFFICES ASSUME NEW a, NEW b
               PROVE  /\ path = <<a>> <=> n = 1 /\ h = a
                      /\ path = <<a, b>> <=> n = 2 /\ h = a /\ p2 = b
                      /\ Begins(path, <<a>>) <=> n >= 1 /\ h = a
                      /\ Under(path, <<a>>) <=> n >= 2 /\ h = a
                      /\ Begins(path, <<a, b>>) <=> n >= 2 /\ h = a /\ p2 = b
    OBVIOUS
  <2> QED
    BY PathIs DEF n, h, p2
<1>1. IsCorsEligible(method, path) =
        CASE g1 -> read [] g2 -> read [] g3 -> read [] g4 -> post [] g5 -> read [] g6 -> below
          [] g7 -> named [] g8 -> FALSE [] g9 -> method \in Methods [] OTHER -> FALSE
  BY DEF IsCorsEligible
<1>2. /\ g1 <=> n = 1 /\ h \in {"healthz", "openapi.json"}
      /\ g2 <=> n = 2 /\ h = ".well-known" /\ p2 \in {"assetlinks.json", "apple-app-site-association"}
      /\ g3 <=> n >= 1 /\ h = "docs"
      /\ g4 <=> n = 1 /\ h = "d"
      /\ g5 <=> n = 2 /\ h = "d" /\ p2 \in {"search", "pack"}
      /\ g6 <=> n >= 2 /\ h = "d" /\ ~g5
      /\ g7 <=> n >= 2 /\ h = "s"
      /\ g8 <=> (n = 1 /\ h = "admin") \/ (n >= 2 /\ h = "admin" /\ p2 = "console")
      /\ g9 <=> n >= 2 /\ h = "admin" /\ ~g8
  <2> HIDE DEF n, h, p2
  <2>1. g1 <=> n = 1 /\ h \in {"healthz", "openapi.json"}
    BY <1>0, <1>10
  <2>2. g2 <=> n = 2 /\ h = ".well-known" /\ p2 \in {"assetlinks.json", "apple-app-site-association"}
    BY <1>0, <1>10
  <2>3. g3 <=> n >= 1 /\ h = "docs"
    BY <1>0, <1>10
  <2>4. g4 <=> n = 1 /\ h = "d"
    BY <1>0, <1>10
  <2>5. g5 <=> n = 2 /\ h = "d" /\ p2 \in {"search", "pack"}
    BY <1>0, <1>10
  <2>6. g6 <=> n >= 2 /\ h = "d" /\ ~g5
    BY <1>0, <1>10
  <2>7. g7 <=> n >= 2 /\ h = "s"
    BY <1>0, <1>10
  <2>8. g8 <=> (n = 1 /\ h = "admin") \/ (n >= 2 /\ h = "admin" /\ p2 = "console")
    BY <1>0, <1>10 DEF IsConsole
  <2>9. g9 <=> n >= 2 /\ h = "admin" /\ ~g8
    BY <1>0, <1>10
  <2> QED
    BY <2>1, <2>2, <2>3, <2>4, <2>5, <2>6, <2>7, <2>8, <2>9
<1>6. below <=> BelowDocument(method, path)
  <2> DEFINE c3 == path[3]
             a1 == method \in ReadMethods \union {"PUT", "DELETE"}
             a2 == method \in ReadMethods /\ Last(path) = "raw"
             a3 == method \in ReadMethods
             a4 == method = "PUT"
  <2> HIDE DEF a1, a2, a3, a4, n, c3
  <2> QED
    BY <1>0 DEF BelowDocument, a1, a2, a3, a4, n, c3
<1> HIDE DEF g1, g2, g3, g4, g5, g6, g7, g8, g9, below, named, read, post, n, h, p2
<1>7. /\ g1 => ~g2 /\ ~g3 /\ ~g4 /\ ~g5 /\ ~g6 /\ ~g7 /\ ~g8 /\ ~g9
      /\ g2 => ~g3 /\ ~g4 /\ ~g5 /\ ~g6 /\ ~g7 /\ ~g8 /\ ~g9
      /\ g3 => ~g4 /\ ~g5 /\ ~g6 /\ ~g7 /\ ~g8 /\ ~g9
      /\ g4 => ~g5 /\ ~g6 /\ ~g7 /\ ~g8 /\ ~g9
      /\ g5 => ~g6 /\ ~g7 /\ ~g8 /\ ~g9
      /\ g6 => ~g7 /\ ~g8 /\ ~g9
      /\ g7 => ~g8 /\ ~g9
      /\ g8 => ~g9
  BY <1>0, <1>2
<1>8. IsCorsEligible(method, path) <=>
        (g1 /\ read) \/ (g2 /\ read) \/ (g3 /\ read) \/ (g4 /\ post) \/ (g5 /\ read) \/ (g6 /\ below) \/ (g7 /\ named) \/ g9
  <2> DEFINE eligible == IsCorsEligible(method, path)
  <2> HIDE DEF eligible
  <2>1. (g1 => (eligible <=> read)) /\ (g2 => (eligible <=> read)) /\ (g3 => (eligible <=> read))
    BY <1>1, <1>7 DEF eligible
  <2>2. (g4 => (eligible <=> post)) /\ (g5 => (eligible <=> read)) /\ (g6 => (eligible <=> below))
    BY <1>1, <1>7 DEF eligible
  <2>3. (g7 => (eligible <=> named)) /\ (g8 => ~eligible) /\ (g9 => eligible)
    BY <1>1, <1>7 DEF eligible
  <2>4. ~g1 /\ ~g2 /\ ~g3 /\ ~g4 /\ ~g5 /\ ~g6 /\ ~g7 /\ ~g8 /\ ~g9 => ~eligible
    BY <1>1 DEF eligible
  <2> QED
    BY <1>7, <2>1, <2>2, <2>3, <2>4 DEF eligible
<1>9. g9 <=> n >= 2 /\ h = "admin" /\ p2 # "console"
  BY <1>0, <1>2
<1> QED
  BY <1>2, <1>6, <1>8, <1>9 DEF read, post, named, n, h, p2

AdminWords == {"agents", "documents", "audit", "docs", "vectors", "links", "backup", "restore", "keys", "oauth-clients", "slugs"}
Deeper == {"search", "seed", "backfill", "orphans", "visibility", "promote", "slug", "tags", "status", "versions",
           "prune", "redirect", Id, Rest}
\* A rule for the operator's header, off the console.
IsAdminRule(r) ==
  /\ r[3] = "operator" /\ r[2] \in Seq({"admin"} \union AdminWords \union Deeper)
  /\ Len(r[2]) >= 2 /\ r[2][1] = "admin" /\ r[2][2] \in AdminWords

\* Every rule of the operator's JSON API is one.
LEMMA AdminRulesAre == \A i \in DOMAIN AdminRules : IsAdminRule(AdminRules[i])
<1>1. IsAdminRule(AdminRules[1]) /\ IsAdminRule(AdminRules[2]) /\ IsAdminRule(AdminRules[3])
  BY DEF AdminRules, IsAdminRule, AdminWords, Deeper
<1>2. IsAdminRule(AdminRules[4]) /\ IsAdminRule(AdminRules[5]) /\ IsAdminRule(AdminRules[6])
  BY DEF AdminRules, IsAdminRule, AdminWords, Deeper
<1>3. IsAdminRule(AdminRules[7]) /\ IsAdminRule(AdminRules[8]) /\ IsAdminRule(AdminRules[9])
  BY DEF AdminRules, IsAdminRule, AdminWords, Deeper
<1>4. IsAdminRule(AdminRules[10]) /\ IsAdminRule(AdminRules[11]) /\ IsAdminRule(AdminRules[12])
  BY DEF AdminRules, IsAdminRule, AdminWords, Deeper
<1>5. IsAdminRule(AdminRules[13]) /\ IsAdminRule(AdminRules[14]) /\ IsAdminRule(AdminRules[15])
  BY DEF AdminRules, IsAdminRule, AdminWords, Deeper
<1>6. IsAdminRule(AdminRules[16]) /\ IsAdminRule(AdminRules[17]) /\ IsAdminRule(AdminRules[18])
  BY DEF AdminRules, IsAdminRule, AdminWords, Deeper
<1>7. IsAdminRule(AdminRules[19]) /\ IsAdminRule(AdminRules[20]) /\ IsAdminRule(AdminRules[21])
  BY DEF AdminRules, IsAdminRule, AdminWords, Deeper
<1>8. IsAdminRule(AdminRules[22]) /\ IsAdminRule(AdminRules[23]) /\ IsAdminRule(AdminRules[24])
  BY DEF AdminRules, IsAdminRule, AdminWords, Deeper
<1>9. IsAdminRule(AdminRules[25])
  BY DEF AdminRules, IsAdminRule, AdminWords, Deeper
<1>10. DOMAIN AdminRules = 1..25
  BY DEF AdminRules
<1> QED
  BY <1>1, <1>2, <1>3, <1>4, <1>5, <1>6, <1>7, <1>8, <1>9, <1>10

\* A rule that a request passes puts it where the other list says.
IsFair(method, path, r) ==
  WithHeadSupport(method) \in r[1] /\ Matches(r[2], path) =>
    /\ r[3] \in TokenDoors \union {"page", "mcp"}
    /\ r[3] \in {"page", "mcp"} => ~IsCorsEligible(method, path)
    /\ r[3] \in TokenDoors /\ path \notin Misnamed => IsCorsEligible(method, path)

\* So are those of the names.
LEMMA SlugRulesAre == \A i \in DOMAIN SlugRules : IsAdminRule(SlugRules[i])
<1>1. IsAdminRule(SlugRules[1]) /\ IsAdminRule(SlugRules[2])
  BY DEF SlugRules, IsAdminRule, AdminWords, Deeper
<1>2. DOMAIN SlugRules = 1..2
  BY DEF SlugRules
<1> QED
  BY <1>1, <1>2

\* A request that passes one is the operator's, and may come from elsewhere.
LEMMA AdminIsFair ==
  ASSUME NEW S, NEW path \in Seq(S), NEW method \in Methods, NEW r, IsAdminRule(r)
  PROVE  IsFair(method, path, r)
<1> SUFFICES ASSUME Matches(r[2], path) PROVE IsCorsEligible(method, path)
  BY DEF IsFair, IsAdminRule, TokenDoors
<1> DEFINE P == {"admin"} \union AdminWords \union Deeper
           pattern == r[2]
<1>1. pattern \in Seq(P) /\ Len(pattern) >= 2 /\ pattern[1] = "admin" /\ pattern[2] \in AdminWords
  BY DEF IsAdminRule
<1>2. \A w \in {"admin"} \union AdminWords : w \notin {Id, Rest} /\ w # "console"
  BY DEF Id, Rest, AdminWords
<1> HIDE DEF P, pattern
<1>3. \A j \in 1..2 : pattern[j] \notin {Id, Rest}
  <2>1. pattern[1] \notin {Id, Rest} /\ pattern[2] \notin {Id, Rest}
    BY <1>1, <1>2
  <2>2. \A j \in 1..2 : j = 1 \/ j = 2
    OBVIOUS
  <2> QED
    BY <2>1, <2>2, Zenon
<1>4. 2 \in 1..Len(pattern)
  BY <1>1
<1>5. Len(path) >= 2 /\ \A j \in 1..2 : path[j] = pattern[j]
  BY <1>1, <1>3, <1>4, WordsMatch DEF pattern
<1>6. Len(path) >= 2 /\ path[1] = "admin" /\ path[2] # "console"
  BY <1>1, <1>2, <1>5
<1> QED
  BY <1>6, EligibleIs

\* A rule for the operator's browser, on the console.
ConsoleWords == {"admin", "console", "agents", "revoke", "keys", "oauth-clients", "delete", "documents", "audit",
                 "maintenance", "vectors", "backfill", "links", "prune", "restore", Id}
IsConsoleRule(r) ==
  /\ r[3] = "page" /\ r[2] \in Seq(ConsoleWords)
  /\ Len(r[2]) >= 1 /\ r[2][1] = "admin" /\ (Len(r[2]) = 1 \/ r[2][2] = "console")

\* Every rule of the console is one.
LEMMA ConsoleRulesAre == \A i \in DOMAIN ConsoleRules : IsConsoleRule(ConsoleRules[i])
<1>1. /\ IsConsoleRule(ConsoleRules[1]) /\ IsConsoleRule(ConsoleRules[2]) /\ IsConsoleRule(ConsoleRules[3])
      /\ IsConsoleRule(ConsoleRules[4]) /\ IsConsoleRule(ConsoleRules[5]) /\ IsConsoleRule(ConsoleRules[6])
      /\ IsConsoleRule(ConsoleRules[7]) /\ IsConsoleRule(ConsoleRules[8]) /\ IsConsoleRule(ConsoleRules[9])
  BY DEF ConsoleRules, IsConsoleRule, ConsoleWords
<1>2. /\ IsConsoleRule(ConsoleRules[10]) /\ IsConsoleRule(ConsoleRules[11]) /\ IsConsoleRule(ConsoleRules[12])
      /\ IsConsoleRule(ConsoleRules[13]) /\ IsConsoleRule(ConsoleRules[14]) /\ IsConsoleRule(ConsoleRules[15])
      /\ IsConsoleRule(ConsoleRules[16]) /\ IsConsoleRule(ConsoleRules[17])
  BY DEF ConsoleRules, IsConsoleRule, ConsoleWords
<1>3. DOMAIN ConsoleRules = 1..17
  BY DEF ConsoleRules
<1> QED
  BY <1>1, <1>2, <1>3

\* A request that passes one is for a page, and may not.
LEMMA ConsoleIsFair ==
  ASSUME NEW S, NEW path \in Seq(S), NEW method \in Methods, NEW r, IsConsoleRule(r)
  PROVE  IsFair(method, path, r)
<1> SUFFICES ASSUME Matches(r[2], path) PROVE ~IsCorsEligible(method, path)
  BY DEF IsFair, IsConsoleRule, TokenDoors
<1> DEFINE pattern == r[2]
<1>1. /\ pattern \in Seq(ConsoleWords) /\ Len(pattern) >= 1 /\ pattern[1] = "admin"
      /\ Len(pattern) = 1 \/ pattern[2] = "console"
  BY DEF IsConsoleRule
<1>2. \A w \in ConsoleWords : w # Rest
  BY DEF ConsoleWords, Rest, Id
<1>3. "admin" # Id /\ "console" # Id
  BY DEF Id
<1> HIDE DEF pattern
<1>4. Len(path) = Len(pattern) /\ \A i \in 1..Len(pattern) : pattern[i] \in {Id, path[i]}
  <2>1. \A i \in 1..Len(pattern) : pattern[i] # Rest
    BY <1>1, <1>2
  <2> QED
    BY <1>1, <2>1, PlainMatch DEF pattern
<1>5. Len(path) >= 1 /\ path[1] = "admin" /\ (Len(path) = 1 \/ path[2] = "console")
  BY <1>1, <1>3, <1>4
<1>6. Len(path) \in Nat /\ Len(path) # 0
  BY <1>5
<1> QED
  BY <1>5, <1>6, EligibleIs

\* A rule for a name, a document or what hangs below it.
DocumentWords == {"s", "d", "text", "raw", "v", "1", "source", "links", "tags", "status", "manage", "visibility", "slug",
                  "promote", "restore", "revoke", Id}
IsNameRule(r) ==
  /\ r[1] = {"GET"} /\ r[2][1] = "s" /\ r[3] \in {"public", "reader"}
  /\ Len(r[2]) = 2 \/ (Len(r[2]) = 3 /\ r[2][3] = "text")
IsDocumentRule(r) ==
  /\ r[2][1] = "d" /\ r[3] \in TokenDoors
  /\ \/ Len(r[2]) = 2 /\ r[1] \in {{"GET"}, {"PUT"}, {"DELETE"}}
     \/ Len(r[2]) = 3 /\ r[2][3] \in {"raw", "text", "source", "links"} /\ r[1] = {"GET"}
     \/ Len(r[2]) = 3 /\ r[2][3] \in {"tags", "status"} /\ r[1] = {"PUT"}
     \/ Len(r[2]) = 5 /\ r[2][3] = "v" /\ r[2][5] = "raw" /\ r[1] = {"GET"}
IsManageRule(r) ==
  /\ r[2][1] = "d" /\ r[3] = "page"
  /\ \/ Len(r[2]) = 4 /\ r[2][3] = "v" /\ r[2][4] = "1"
     \/ Len(r[2]) = 3 /\ r[2][3] \in {"manage", "visibility", "slug", "promote", "restore", "revoke"}
     \/ Len(r[2]) = 3 /\ r[2][3] \in {"tags", "status"} /\ r[1] = {"POST"}
IsBelowRule(r) == r[2] \in Seq(DocumentWords) /\ (IsNameRule(r) \/ IsDocumentRule(r) \/ IsManageRule(r))

\* Every rule for a document or a name is one.
LEMMA DocumentRulesAre == \A i \in DOMAIN DocumentRules : IsBelowRule(DocumentRules[i])
<1>1. IsBelowRule(DocumentRules[1]) /\ IsBelowRule(DocumentRules[2])
  BY DEF DocumentRules, IsBelowRule, IsNameRule, DocumentWords
<1>2. IsBelowRule(DocumentRules[3]) /\ IsBelowRule(DocumentRules[4])
  BY DEF DocumentRules, IsBelowRule, IsDocumentRule, DocumentWords, TokenDoors
<1>3. IsBelowRule(DocumentRules[5]) /\ IsBelowRule(DocumentRules[6])
  BY DEF DocumentRules, IsBelowRule, IsDocumentRule, DocumentWords, TokenDoors
<1>4. IsBelowRule(DocumentRules[7]) /\ IsBelowRule(DocumentRules[9])
  BY DEF DocumentRules, IsBelowRule, IsDocumentRule, DocumentWords, TokenDoors
<1>5. IsBelowRule(DocumentRules[10]) /\ IsBelowRule(DocumentRules[11])
  BY DEF DocumentRules, IsBelowRule, IsDocumentRule, DocumentWords, TokenDoors
<1>6. IsBelowRule(DocumentRules[12]) /\ IsBelowRule(DocumentRules[13])
  BY DEF DocumentRules, IsBelowRule, IsDocumentRule, DocumentWords, TokenDoors
<1>7. IsBelowRule(DocumentRules[8]) /\ IsBelowRule(DocumentRules[14])
  BY DEF DocumentRules, IsBelowRule, IsManageRule, DocumentWords
<1>8. IsBelowRule(DocumentRules[15]) /\ IsBelowRule(DocumentRules[16])
  BY DEF DocumentRules, IsBelowRule, IsManageRule, DocumentWords
<1>9. IsBelowRule(DocumentRules[17]) /\ IsBelowRule(DocumentRules[18])
  BY DEF DocumentRules, IsBelowRule, IsManageRule, DocumentWords
<1>10. IsBelowRule(DocumentRules[19]) /\ IsBelowRule(DocumentRules[20])
  BY DEF DocumentRules, IsBelowRule, IsManageRule, DocumentWords
<1>11. IsBelowRule(DocumentRules[21])
  BY DEF DocumentRules, IsBelowRule, IsManageRule, DocumentWords
<1>12. DOMAIN DocumentRules = 1..21
  BY DEF DocumentRules
<1> QED
  BY <1>1, <1>2, <1>3, <1>4, <1>5, <1>6, <1>7, <1>8, <1>9, <1>10, <1>11, <1>12

\* What a method that a rule takes is to the other list.
LEMMA MethodsAre ==
  ASSUME NEW method \in Methods
  PROVE  /\ WithHeadSupport(method) \in {"GET"} <=> method \in ReadMethods
         /\ WithHeadSupport(method) \in {"PUT"} <=> method = "PUT"
         /\ WithHeadSupport(method) \in {"POST"} <=> method = "POST"
         /\ WithHeadSupport(method) \in {"DELETE"} <=> method = "DELETE"
         /\ "PUT" \notin ReadMethods /\ "POST" \notin ReadMethods /\ "DELETE" \notin ReadMethods
  BY DEF Methods, WithHeadSupport, ReadMethods

\* A request that passes one may come from elsewhere, unless it is for a page.
LEMMA BelowIsFair ==
  ASSUME NEW S, NEW path \in Seq(S), NEW method \in Methods, NEW r, IsBelowRule(r)
  PROVE  IsFair(method, path, r)
<1> SUFFICES ASSUME WithHeadSupport(method) \in r[1], Matches(r[2], path)
             PROVE  /\ r[3] \in TokenDoors \union {"page", "mcp"}
                    /\ r[3] \in {"page", "mcp"} => ~IsCorsEligible(method, path)
                    /\ r[3] \in TokenDoors /\ path \notin Misnamed => IsCorsEligible(method, path)
  BY DEF IsFair
<1> DEFINE pattern == r[2]
           n == Len(path)
           p3 == path[3]
<1>1. pattern \in Seq(DocumentWords) /\ Len(pattern) \in Nat /\ n \in Nat
  BY DEF IsBelowRule
<1>2. Len(path) = Len(pattern) /\ \A i \in 1..Len(pattern) : pattern[i] \in {Id, path[i]}
  <2>1. \A w \in DocumentWords : w # Rest
    BY DEF DocumentWords, Rest, Id
  <2> HIDE DEF pattern
  <2>2. \A i \in 1..Len(pattern) : pattern[i] # Rest
    BY <1>1, <2>1
  <2> QED
    BY <1>1, <2>2, PlainMatch DEF pattern
<1> HIDE DEF pattern
<1>3. CASE IsNameRule(r)
  <2>1. /\ r[1] = {"GET"} /\ pattern[1] = "s" /\ r[3] \in {"public", "reader"}
        /\ Len(pattern) = 2 \/ (Len(pattern) = 3 /\ pattern[3] = "text")
    BY <1>3 DEF IsNameRule, pattern
  <2>2. path[1] = "s" /\ (n = 2 \/ (n = 3 /\ p3 = "text"))
    BY <1>1, <1>2, <2>1 DEF Id
  <2>3. method \in ReadMethods
    BY <2>1, MethodsAre
  <2>4. IsCorsEligible(method, path)
    <3>1. n >= 2 /\ method \in ReadMethods /\ path[1] = "s" /\ (n = 2 \/ (n = 3 /\ p3 = "text"))
      <4> HIDE DEF n, p3
      <4>1. n >= 2
        BY ONLY <1>1, <2>2
      <4> QED
        BY <2>2, <2>3, <4>1
    <3> QED
      BY <3>1, EligibleIs
  <2> QED
    BY <2>1, <2>4 DEF TokenDoors
<1>4. CASE IsDocumentRule(r)
  <2>1. /\ pattern[1] = "d" /\ r[3] \in TokenDoors
        /\ \/ Len(pattern) = 2 /\ r[1] \in {{"GET"}, {"PUT"}, {"DELETE"}}
           \/ Len(pattern) = 3 /\ pattern[3] \in {"raw", "text", "source", "links"} /\ r[1] = {"GET"}
           \/ Len(pattern) = 3 /\ pattern[3] \in {"tags", "status"} /\ r[1] = {"PUT"}
           \/ Len(pattern) = 5 /\ pattern[3] = "v" /\ pattern[5] = "raw" /\ r[1] = {"GET"}
    BY <1>4 DEF IsDocumentRule, pattern
  <2>2. /\ path[1] = "d"
        /\ \/ n = 2 /\ r[1] \in {{"GET"}, {"PUT"}, {"DELETE"}}
           \/ n = 3 /\ p3 \in {"raw", "text", "source", "links"} /\ r[1] = {"GET"}
           \/ n = 3 /\ p3 \in {"tags", "status"} /\ r[1] = {"PUT"}
           \/ n = 5 /\ p3 = "v" /\ path[5] = "raw" /\ r[1] = {"GET"}
    BY <1>1, <1>2, <2>1 DEF Id
  <2>3. n = 2 /\ path[2] \in {"search", "pack"} => path \in Misnamed
    BY <2>2, PathIs DEF Misnamed
  <2>4. BelowDocument(method, path)
    <3>1. CASE n = 2
      BY <2>2, <3>1, MethodsAre DEF BelowDocument
    <3>2. CASE n = 3
      BY <2>2, <3>2, MethodsAre DEF BelowDocument
    <3>3. CASE n = 5
      BY <2>2, <3>3, MethodsAre DEF BelowDocument, Last
    <3> QED
      BY <2>2, <3>1, <3>2, <3>3
  <2>5. path \notin Misnamed => IsCorsEligible(method, path)
    <3>1. n >= 2
      BY <2>2
    <3> QED
      BY <2>2, <2>3, <2>4, <3>1, EligibleIs
  <2> QED
    BY <2>1, <2>5 DEF TokenDoors
<1>5. CASE IsManageRule(r)
  <2>1. /\ pattern[1] = "d" /\ r[3] = "page"
        /\ \/ Len(pattern) = 4 /\ pattern[3] = "v" /\ pattern[4] = "1"
           \/ Len(pattern) = 3 /\ pattern[3] \in {"manage", "visibility", "slug", "promote", "restore", "revoke"}
           \/ Len(pattern) = 3 /\ pattern[3] \in {"tags", "status"} /\ r[1] = {"POST"}
    BY <1>5 DEF IsManageRule, pattern
  <2>2. /\ path[1] = "d"
        /\ \/ n = 4 /\ p3 = "v" /\ path[4] = "1"
           \/ n = 3 /\ p3 \in {"manage", "visibility", "slug", "promote", "restore", "revoke"}
           \/ n = 3 /\ p3 \in {"tags", "status"} /\ method = "POST"
    <3>1. r[1] = {"POST"} => method = "POST"
      BY MethodsAre
    <3> QED
      BY <1>1, <1>2, <2>1, <3>1 DEF Id
  <2>3. ~BelowDocument(method, path)
    BY <2>2, MethodsAre DEF BelowDocument, Last
  <2>4. ~IsCorsEligible(method, path)
    BY <2>2, <2>3, EligibleIs
  <2> QED
    BY <2>1, <2>4 DEF TokenDoors
<1> QED
  BY <1>3, <1>4, <1>5 DEF IsBelowRule

\* A pattern of one word, of two, or of none.
LEMMA ShortMatch ==
  ASSUME NEW path, NEW a, NEW b, a \notin {Id, Rest}, b \notin {Id, Rest}
  PROVE  /\ Matches(<<>>, path) => Len(path) = 0
         /\ Matches(<<a>>, path) => Len(path) = 1 /\ path[1] = a
         /\ Matches(<<a, b>>, path) => Len(path) = 2 /\ path[1] = a /\ path[2] = b
<1>1. ASSUME Matches(<<>>, path) PROVE Len(path) = 0
  <2> DEFINE p == <<>>
  <2>1. p \in Seq({a}) /\ Len(p) = 0 /\ \A i \in 1..Len(p) : p[i] # Rest
    OBVIOUS
  <2> HIDE DEF p
  <2>2. Matches(p, path)
    BY <1>1 DEF p
  <2> QED
    BY <2>1, <2>2, PlainMatch
<1>2. ASSUME Matches(<<a>>, path) PROVE Len(path) = 1 /\ path[1] = a
  <2> DEFINE p == <<a>>
  <2>1. p \in Seq({a}) /\ Len(p) = 1 /\ p[1] = a /\ \A i \in 1..Len(p) : p[i] # Rest
    OBVIOUS
  <2> HIDE DEF p
  <2>2. Matches(p, path)
    BY <1>2 DEF p
  <2>3. Len(path) = 1 /\ \A i \in 1..Len(p) : p[i] \in {Id, path[i]}
    BY <2>1, <2>2, PlainMatch
  <2> QED
    BY <2>1, <2>3
<1>3. ASSUME Matches(<<a, b>>, path) PROVE Len(path) = 2 /\ path[1] = a /\ path[2] = b
  <2> DEFINE p == <<a, b>>
  <2>1. p \in Seq({a, b}) /\ Len(p) = 2 /\ p[1] = a /\ p[2] = b /\ \A i \in 1..Len(p) : p[i] # Rest
    OBVIOUS
  <2> HIDE DEF p
  <2>2. Matches(p, path)
    BY <1>3 DEF p
  <2>3. Len(path) = 2 /\ \A i \in 1..Len(p) : p[i] \in {Id, path[i]}
    BY <2>1, <2>2, PlainMatch
  <2> QED
    BY <2>1, <2>3
<1> QED
  BY <1>1, <1>2, <1>3

\* A rule for what anyone may read, or a page of the operator's, by one word.
IsWordRule(r) ==
  \/ /\ r[1] = {"GET"} /\ r[3] = "open"
     /\ \/ r[2] \in {<<"healthz">>, <<"openapi.json">>, <<"docs">>}
        \/ r[2] \in {<<".well-known", "assetlinks.json">>, <<".well-known", "apple-app-site-association">>}
  \/ /\ r[1] = {"GET"} /\ r[3] = "reader" /\ r[2] \in {<<"d">>, <<"d", "search">>, <<"d", "pack">>}
  \/ /\ r[1] = {"POST"} /\ r[3] = "agent" /\ r[2] = <<"d">>
  \/ r[3] \in {"page", "mcp"} /\ r[2] \in {<<"shell.js">>, <<"mcp">>, <<"authorize">>, <<"login">>, <<"logout">>}
\* ... or the homepage, or the platform's documents.
IsHomeRule(r) == r[2] = <<>> /\ r[3] = "page"
IsDocsRule(r) == r[1] = {"GET"} /\ r[3] = "open" /\ r[2] \in {<<"docs", Id, Rest, "raw">>, <<"docs", Id>>}

\* The rules for what the site says of itself are some of each.
LEMMA DescriptionRulesAre ==
  \A i \in DOMAIN DescriptionRules :
    IsWordRule(DescriptionRules[i]) \/ IsHomeRule(DescriptionRules[i]) \/ IsDocsRule(DescriptionRules[i])
<1>1. IsHomeRule(DescriptionRules[1])
  BY DEF DescriptionRules, IsHomeRule
<1>2. /\ IsWordRule(DescriptionRules[2]) /\ IsWordRule(DescriptionRules[3]) /\ IsWordRule(DescriptionRules[4])
      /\ IsWordRule(DescriptionRules[5]) /\ IsWordRule(DescriptionRules[6]) /\ IsWordRule(DescriptionRules[7])
  BY DEF DescriptionRules, IsWordRule
<1>3. IsDocsRule(DescriptionRules[8]) /\ IsDocsRule(DescriptionRules[9])
  BY DEF DescriptionRules, IsDocsRule
<1>4. DOMAIN DescriptionRules = 1..9
  BY DEF DescriptionRules
<1> QED
  BY <1>1, <1>2, <1>3, <1>4

\* Every rule of the JSON API is one of words.
LEMMA ApiRulesAre == \A i \in DOMAIN ApiRules : IsWordRule(ApiRules[i])
<1>1. /\ IsWordRule(ApiRules[1]) /\ IsWordRule(ApiRules[2]) /\ IsWordRule(ApiRules[3]) /\ IsWordRule(ApiRules[4])
  BY DEF ApiRules, IsWordRule
<1>2. /\ IsWordRule(ApiRules[5]) /\ IsWordRule(ApiRules[6]) /\ IsWordRule(ApiRules[7]) /\ IsWordRule(ApiRules[8])
  BY DEF ApiRules, IsWordRule
<1>3. DOMAIN ApiRules = 1..8
  BY DEF ApiRules
<1> QED
  BY <1>1, <1>2, <1>3

\* A request that passes one is where the other list says.
LEMMA WordIsFair ==
  ASSUME NEW S, NEW path \in Seq(S), NEW method \in Methods, NEW r, IsWordRule(r)
  PROVE  IsFair(method, path, r)
<1> SUFFICES ASSUME WithHeadSupport(method) \in r[1], Matches(r[2], path)
             PROVE  /\ r[3] \in TokenDoors \union {"page", "mcp"}
                    /\ r[3] \in {"page", "mcp"} => ~IsCorsEligible(method, path)
                    /\ r[3] \in TokenDoors /\ path \notin Misnamed => IsCorsEligible(method, path)
  BY DEF IsFair
<1> DEFINE n == Len(path)
           h == path[1]
           p2 == path[2]
<1>1. \A a : a \notin {Id, Rest} /\ r[2] = <<a>> => n = 1 /\ h = a
  BY ShortMatch
<1>7. ASSUME NEW a, NEW b, a \notin {Id, Rest}, b \notin {Id, Rest}, r[2] = <<a, b>>
      PROVE  n = 2 /\ h = a /\ p2 = b
  <2>1. Matches(<<a, b>>, path)
    BY <1>7
  <2> QED
    BY <1>7, <2>1, ShortMatch
<1>8. \A w \in {"healthz", "openapi.json", "docs", ".well-known", "assetlinks.json", "apple-app-site-association", "d",
                "search", "pack", "shell.js", "mcp", "authorize", "login", "logout"} : w \notin {Id, Rest}
  BY DEF Id, Rest
<1>2. n \in Nat
  OBVIOUS
<1>3. CASE r[1] = {"GET"} /\ r[3] = "open"
  <2>1. method \in ReadMethods
    BY <1>3, MethodsAre
  <2>2. r[2] \in {<<"healthz">>, <<"openapi.json">>, <<"docs">>}
         \/ r[2] \in {<<".well-known", "assetlinks.json">>, <<".well-known", "apple-app-site-association">>}
    BY <1>3 DEF IsWordRule
  <2>3. \/ n = 1 /\ h \in {"healthz", "openapi.json", "docs"}
        \/ n = 2 /\ h = ".well-known" /\ p2 \in {"assetlinks.json", "apple-app-site-association"}
    <3> HIDE DEF n, h, p2
    <3>1. CASE r[2] \in {<<"healthz">>, <<"openapi.json">>, <<"docs">>}
      BY <1>1, <1>8, <3>1
    <3>2. CASE r[2] \in {<<".well-known", "assetlinks.json">>, <<".well-known", "apple-app-site-association">>}
      BY <1>7, <1>8, <3>2
    <3> QED
      BY <2>2, <3>1, <3>2
  <2>4. IsCorsEligible(method, path)
    BY <2>1, <2>3, EligibleIs
  <2> QED
    BY <1>3, <2>4 DEF TokenDoors
<1>4. CASE r[1] = {"GET"} /\ r[3] = "reader"
  <2>1. method \in ReadMethods
    BY <1>4, MethodsAre
  <2>2. r[2] \in {<<"d">>, <<"d", "search">>, <<"d", "pack">>}
    BY <1>4 DEF IsWordRule
  <2>3. (n = 1 /\ h = "d") \/ (n = 2 /\ h = "d" /\ p2 \in {"search", "pack"})
    <3> HIDE DEF n, h, p2
    <3>1. CASE r[2] = <<"d">>
      BY <1>1, <1>8, <3>1
    <3>2. CASE r[2] \in {<<"d", "search">>, <<"d", "pack">>}
      BY <1>7, <1>8, <3>2
    <3> QED
      BY <2>2, <3>1, <3>2
  <2>4. IsCorsEligible(method, path)
    BY <2>1, <2>3, EligibleIs
  <2> QED
    BY <1>4, <2>4 DEF TokenDoors
<1>5. CASE r[1] = {"POST"} /\ r[3] = "agent" /\ r[2] = <<"d">>
  <2>1. method = "POST"
    BY <1>5, MethodsAre
  <2>2. n = 1 /\ h = "d"
    <3> HIDE DEF n, h, p2
    <3> QED
      BY <1>1, <1>5, <1>8
  <2>3. IsCorsEligible(method, path)
    BY <2>1, <2>2, EligibleIs
  <2> QED
    BY <1>5, <2>3 DEF TokenDoors
<1>6. CASE r[3] \in {"page", "mcp"}
  <2>1. r[2] \in {<<"shell.js">>, <<"mcp">>, <<"authorize">>, <<"login">>, <<"logout">>}
    BY <1>6 DEF IsWordRule
  <2>2. n = 1 /\ h \in {"shell.js", "mcp", "authorize", "login", "logout"}
    <3> HIDE DEF n, h, p2
    <3> QED
      BY <1>1, <1>8, <2>1
  <2>3. ~IsCorsEligible(method, path)
    BY <2>2, EligibleIs
  <2> QED
    BY <1>6, <2>3 DEF TokenDoors
<1> QED
  BY <1>3, <1>4, <1>5, <1>6 DEF IsWordRule

\* So is one for the home page, or for a page of the documentation.
LEMMA HomeIsFair ==
  ASSUME NEW S, NEW path \in Seq(S), NEW method \in Methods, NEW r, IsHomeRule(r) \/ IsDocsRule(r)
  PROVE  IsFair(method, path, r)
<1> SUFFICES ASSUME WithHeadSupport(method) \in r[1], Matches(r[2], path)
             PROVE  /\ r[3] \in TokenDoors \union {"page", "mcp"}
                    /\ r[3] \in {"page", "mcp"} => ~IsCorsEligible(method, path)
                    /\ r[3] \in TokenDoors /\ path \notin Misnamed => IsCorsEligible(method, path)
  BY DEF IsFair
<1>1. CASE IsHomeRule(r)
  <2>1. Len(path) = 0
    <3>1. "page" \notin {Id, Rest}
      BY DEF Id, Rest
    <3> QED
      BY <1>1, <3>1, ShortMatch DEF IsHomeRule
  <2>2. ~IsCorsEligible(method, path)
    <3>1. Len(path) # 1 /\ Len(path) # 2 /\ ~(Len(path) >= 1) /\ ~(Len(path) >= 2)
      BY <2>1
    <3> QED
      BY ONLY <3>1, method \in Methods, path \in Seq(S), EligibleIs
  <2> QED
    BY <1>1, <2>2 DEF IsHomeRule, TokenDoors
<1>2. CASE IsDocsRule(r)
  <2> DEFINE pattern == r[2]
  <2>1. /\ pattern \in Seq({"docs", "raw", Id, Rest}) /\ pattern[1] = "docs" /\ Len(pattern) >= 1
        /\ "docs" \notin {Id, Rest}
    <3>1. CASE r[2] = <<"docs", Id, Rest, "raw">>
      BY <3>1 DEF Id, Rest
    <3>2. CASE r[2] = <<"docs", Id>>
      BY <3>2 DEF Id, Rest
    <3> QED
      BY <1>2, <3>1, <3>2 DEF IsDocsRule
  <2> HIDE DEF pattern
  <2>2. 1 \in 1..Len(pattern) /\ \A j \in 1..1 : pattern[j] \notin {Id, Rest}
    BY <2>1
  <2>3. Len(path) >= 1 /\ path[1] = "docs"
    BY <2>1, <2>2, WordsMatch DEF pattern
  <2>4. method \in ReadMethods
    BY <1>2, MethodsAre DEF IsDocsRule
  <2>5. IsCorsEligible(method, path)
    BY <2>3, <2>4, EligibleIs
  <2> QED
    BY <1>2, <2>5 DEF IsDocsRule, TokenDoors
<1> QED
  BY <1>1, <1>2

\* A list is a sequence of what its places hold.
LEMMA ListIsSeq ==
  ASSUME NEW list, NEW n \in Nat, list = [i \in 1..n |-> list[i]], NEW F, \A i \in 1..n : list[i] \in F
  PROVE  list \in Seq(F)
<1>1. list \in [1..n -> F]
  OBVIOUS
<1> QED
  BY <1>1

\* The gate is that of a rule the request passes.
LEMMA GateIs ==
  ASSUME NEW method, NEW path, NEW n \in Nat, Len(Rules) = n
  PROVE  \/ Gate(method, path) = "none"
         \/ \E i \in 1..n : /\ WithHeadSupport(method) \in Rules[i][1] /\ Matches(Rules[i][2], path)
                            /\ Gate(method, path) = Rules[i][3]
<1> DEFINE at == {i \in 1..n : WithHeadSupport(method) \in Rules[i][1] /\ Matches(Rules[i][2], path)}
           first == IF at # {} THEN Min(at) ELSE 0
<1>1. Gate(method, path) = IF first = 0 THEN "none" ELSE Rules[first][3]
  BY DEF Gate, SelectInSeq
<1>2. at # {} => Min(at) \in at
  <2>1. ASSUME at # {} PROVE \E i \in at : \A k \in at : i <= k
    <3>1. at \subseteq Nat
      OBVIOUS
    <3> HIDE DEF at
    <3> QED
      BY <2>1, <3>1, LeastOf
  <2> HIDE DEF at
  <2> QED
    BY <2>1 DEF Min
<1>3. at = {} => Gate(method, path) = "none"
  BY <1>1
<1>4. ASSUME at # {} PROVE Gate(method, path) = Rules[Min(at)][3]
  <2>1. Min(at) # 0
    BY <1>2, <1>4
  <2> QED
    BY <1>1, <1>4, <2>1
<1> QED
  BY <1>2, <1>3, <1>4

\* Every rule is fair.
LEMMA RulesAreFair ==
  ASSUME NEW S, NEW path \in Seq(S), NEW method \in Methods
  PROVE  Len(Rules) \in Nat /\ \A i \in 1..Len(Rules) : IsFair(method, path, Rules[i])
<1> DEFINE U == ToSet(DescriptionRules) \union ToSet(ApiRules) \union ToSet(AdminRules)
                  \union ToSet(ConsoleRules) \union ToSet(SlugRules) \union ToSet(DocumentRules)
           F == {r \in U : IsFair(method, path, r)}
<1>1. DescriptionRules \in Seq(F)
  <2>1. DescriptionRules = [i \in 1..9 |-> DescriptionRules[i]] /\ DOMAIN DescriptionRules = 1..9
    BY DEF DescriptionRules
  <2>2. \A i \in 1..9 : DescriptionRules[i] \in F
    BY <2>1, DescriptionRulesAre, WordIsFair, HomeIsFair DEF ToSet
  <2> HIDE DEF F
  <2> QED
    BY <2>1, <2>2, ListIsSeq
<1>2. ApiRules \in Seq(F)
  <2>1. ApiRules = [i \in 1..8 |-> ApiRules[i]] /\ DOMAIN ApiRules = 1..8
    BY DEF ApiRules
  <2>2. \A i \in 1..8 : ApiRules[i] \in F
    BY <2>1, ApiRulesAre, WordIsFair DEF ToSet
  <2> HIDE DEF F
  <2> QED
    BY <2>1, <2>2, ListIsSeq
<1>3. AdminRules \in Seq(F)
  <2>1. AdminRules = [i \in 1..25 |-> AdminRules[i]] /\ DOMAIN AdminRules = 1..25
    BY DEF AdminRules
  <2>2. \A i \in 1..25 : AdminRules[i] \in F
    BY <2>1, AdminRulesAre, AdminIsFair DEF ToSet
  <2> HIDE DEF F
  <2> QED
    BY <2>1, <2>2, ListIsSeq
<1>4. ConsoleRules \in Seq(F)
  <2>1. ConsoleRules = [i \in 1..17 |-> ConsoleRules[i]] /\ DOMAIN ConsoleRules = 1..17
    BY DEF ConsoleRules
  <2>2. \A i \in 1..17 : ConsoleRules[i] \in F
    BY <2>1, ConsoleRulesAre, ConsoleIsFair DEF ToSet
  <2> HIDE DEF F
  <2> QED
    BY <2>1, <2>2, ListIsSeq
<1>5. SlugRules \in Seq(F)
  <2>1. SlugRules = [i \in 1..2 |-> SlugRules[i]] /\ DOMAIN SlugRules = 1..2
    BY DEF SlugRules
  <2>2. \A i \in 1..2 : SlugRules[i] \in F
    BY <2>1, SlugRulesAre, AdminIsFair DEF ToSet
  <2> HIDE DEF F
  <2> QED
    BY <2>1, <2>2, ListIsSeq
<1>6. DocumentRules \in Seq(F)
  <2>1. DocumentRules = [i \in 1..21 |-> DocumentRules[i]] /\ DOMAIN DocumentRules = 1..21
    BY DEF DocumentRules
  <2>2. \A i \in 1..21 : DocumentRules[i] \in F
    BY <2>1, DocumentRulesAre, BelowIsFair DEF ToSet
  <2> HIDE DEF F
  <2> QED
    BY <2>1, <2>2, ListIsSeq
<1> HIDE DEF F
<1>7. Rules \in Seq(F)
  BY <1>1, <1>2, <1>3, <1>4, <1>5, <1>6 DEF Rules
<1>8. Len(Rules) \in Nat /\ \A i \in 1..Len(Rules) : Rules[i] \in F
  BY <1>7
<1> QED
  BY <1>8 DEF F

\* What the lists say of a path, whatever its segments.
LEMMA ListsAgree ==
  ASSUME NEW S, NEW path \in Seq(S), NEW method \in Methods
  PROVE  /\ IsCorsEligible(method, path) => Gate(method, path) \in TokenDoors \union {"none"}
         /\ Gate(method, path) \in TokenDoors /\ path \notin Misnamed => IsCorsEligible(method, path)
<1> DEFINE gate == Gate(method, path)
<1>1. CASE gate = "none"
  <2>1. gate \notin TokenDoors
    BY <1>1 DEF TokenDoors
  <2> QED
    BY <1>1, <2>1
<1>2. CASE gate # "none"
  <2>1. PICK i \in 1..Len(Rules) : /\ WithHeadSupport(method) \in Rules[i][1] /\ Matches(Rules[i][2], path)
                                   /\ gate = Rules[i][3]
    BY <1>2, RulesAreFair, GateIs
  <2>2. IsFair(method, path, Rules[i])
    BY RulesAreFair
  <2> DEFINE r == Rules[i]
  <2>3. /\ gate \in TokenDoors \union {"page", "mcp"}
        /\ gate \in {"page", "mcp"} => ~IsCorsEligible(method, path)
        /\ gate \in TokenDoors /\ path \notin Misnamed => IsCorsEligible(method, path)
    <3> HIDE DEF gate
    <3> QED
      BY <2>1, <2>2 DEF IsFair
  <2> HIDE DEF gate
  <2> QED
    BY <2>3 DEF gate
<1> QED
  BY <1>1, <1>2

\* An origin is granted something only if it is one of those configured.
LEMMA OriginsAgree ==
  ASSUME NEW origin, NEW configured, NEW path, NEW method, WithCors(origin, configured, method, path)
  PROVE  \E o \in configured : o.host = origin.host /\ {o.rest, origin.rest} \subseteq {"", "/"}
<1>1. NormalizeOrigin(origin) \in {NormalizeOrigin(o) : o \in configured} \ {"bad"}
  BY DEF WithCors, ResolveAllowedOrigin, CorsAllowedOrigins
<1>2. PICK o \in configured : NormalizeOrigin(origin) = NormalizeOrigin(o) /\ NormalizeOrigin(o) # "bad"
  BY <1>1
<1>3. /\ origin.rest \in {"", "/"} /\ NormalizeOrigin(origin) = origin.host
      /\ o.rest \in {"", "/"} /\ NormalizeOrigin(o) = o.host
  BY <1>2 DEF NormalizeOrigin
<1> QED
  BY <1>2, <1>3

\* So the lists agree, of every path, by any method.
LEMMA MethodAgrees ==
  ASSUME Paths \subseteq Seq(STRING), NEW method \in Methods
  PROVE  Agree(method)
<1>1. ASSUME NEW path \in Paths
      PROVE  /\ IsCorsEligible(method, path) => Gate(method, path) \in TokenDoors \union {"none"}
             /\ Gate(method, path) \in TokenDoors /\ path \notin Misnamed => IsCorsEligible(method, path)
  <2>1. path \in Seq(STRING)
    OBVIOUS
  <2> QED
    BY <2>1, ListsAgree
<1>2. ASSUME NEW path \in {<<"d">>, <<"admin">>}, IsCorsEligible(method, path)
      PROVE  Gate(method, path) # "page"
  <2>1. path \in Seq({"d"}) \/ path \in Seq({"admin"})
    <3>1. path = <<"d">> => path \in Seq({"d"})
      OBVIOUS
    <3>2. path = <<"admin">> => path \in Seq({"admin"})
      OBVIOUS
    <3> QED
      BY <3>1, <3>2
  <2>2. Gate(method, path) \in TokenDoors \union {"none"}
    BY <1>2, <2>1, ListsAgree
  <2> QED
    BY <2>2 DEF TokenDoors
<1>3. ASSUME NEW origin \in Origins, NEW configured \in SUBSET Origins, NEW path \in {<<"d">>, <<"admin">>},
             WithCors(origin, configured, method, path)
      PROVE  /\ Gate(method, path) # "page"
             /\ \E o \in configured : o.host = origin.host /\ {o.rest, origin.rest} \subseteq {"", "/"}
  <2>1. IsCorsEligible(method, path)
    BY <1>3 DEF WithCors
  <2> QED
    BY <1>2, <1>3, <2>1, OriginsAgree
<1> QED
  BY <1>1, <1>3 DEF Agree

\* What the programs of another site may ask are the doors that ask for a
\* header, all of them and no others, on every path and by every method; and
\* only of an origin that is configured.
THEOREM CorsIsForTokens == SpecWithTools => []CorsOpensOnlyTokenDoors
<1>1. DoorsInv => scene \in Scenes
  BY DEF DoorsInv, World, SessionsInv
<1>2. scene \in Scenes => CorsOpensOnlyTokenDoors
  BY SiteAssumption, MethodAgrees DEF CorsOpensOnlyTokenDoors
<1> QED
  BY <1>1, <1>2, DoorsInvariant, PTL

=============================================================================
