----------------------------- MODULE BackupProofs -----------------------------
(***************************************************************************)
(* Proofs about backup and restore, for any budgets of steps, writers and   *)
(* troubles, and any database to start from that its own constraints allow. *)
(*                                                                         *)
(* The argument goes by who owns a key.  World(own) says that the tables    *)
(* are sound and that `own` gives each key minted so far the one place, a   *)
(* document and a number, whose bytes it can be the key of: in the tables,  *)
(* in a page being read, in a file on the shelf, in a plan being applied.   *)
(* A step extends `own` at most by the key it mints.  On World stand two    *)
(* parts, each kept by every step.  Names: of what is left to apply, no     *)
(* document takes a retired name and no tombstone retires a live one, but   *)
(* for names that requests claimed meanwhile.  Serving: what a unit has put *)
(* is nobody's before its batch commits, and what it replaces is nobody's   *)
(* after, so that neither the catch nor the purge takes bytes a document    *)
(* serves.                                                                 *)
(***************************************************************************)
EXTENDS Backup, OrderingProofs
-----------------------------------------------------------------------------
(* Tables.                                                                 *)

\* The phases, as a set.
LEMMA PhasesAre ==
  Phases = {"agents", "agent_keys", "oauth_clients", "documents", "slug_tombstones"}
BY DEF Phases, BACKUP_PHASES, ToSet

\* The tables.
LEMMA TablesAre ==
  Tables = {"agents", "agent_keys", "oauth_clients", "documents", "slug_tombstones",
            "versions", "documents_fts"}
BY PhasesAre DEF Tables

\* Each phase has a place, and the next one is a phase.
LEMMA PhasePlaces ==
  ASSUME NEW p \in Phases
  PROVE /\ PhaseAt(p) \in 1..5 /\ (PhaseAt(p) < 5 => nextBackupPhase[PhaseAt(p)] \in Phases)
<1>1. PICK i \in 1..5 : BACKUP_PHASES[i] = p
  BY DEF Phases, BACKUP_PHASES, ToSet
<1>2. PhaseAt(p) \in 1..5
  BY <1>1 DEF PhaseAt
<1>3. ASSUME NEW k \in 1..4 PROVE nextBackupPhase[k] \in Phases
  BY PhasesAre DEF nextBackupPhase, BACKUP_PHASES
<1> QED
  BY <1>2, <1>3

\* An upsert takes the new rows and keeps the others.
LEMMA UpsertIs ==
  ASSUME NEW f, NEW rows
  PROVE  /\ DOMAIN Upsert(f, rows) = DOMAIN f \union DOMAIN rows
         /\ \A x \in DOMAIN rows : Upsert(f, rows)[x] = rows[x]
         /\ \A x \in DOMAIN f \ DOMAIN rows : Upsert(f, rows)[x] = f[x]
BY DEF Upsert

\* One row upserted.
LEMMA PutIs ==
  ASSUME NEW f, NEW x, NEW y
  PROVE  Put(f, x, y) = [z \in DOMAIN f \union {x} |-> IF z = x THEN y ELSE f[z]]
<1>1. \A z \in {x} : [w \in {x} |-> y][z] = y
  OBVIOUS
<1>2. \A z : z \in {x} <=> z = x
  OBVIOUS
<1>3. DOMAIN [z \in {x} |-> y] = {x}
  OBVIOUS
<1> QED
  BY <1>1, <1>2, <1>3 DEF Put, Upsert

\* Rows deleted.
LEMMA WithoutIs ==
  ASSUME NEW f, NEW S
  PROVE  /\ DOMAIN Without(f, S) = DOMAIN f \ S
         /\ \A z \in DOMAIN f \ S : Without(f, S)[z] = f[z]
         /\ \A T : f \in [DOMAIN f -> T] => Without(f, S) \in [DOMAIN Without(f, S) -> T]
         /\ IsFiniteSet(DOMAIN f) => IsFiniteSet(DOMAIN Without(f, S))
<1>1. IsFiniteSet(DOMAIN f) => IsFiniteSet(DOMAIN f \ S)
  BY FS_Subset
<1> QED
  BY <1>1 DEF Without

\* A row of a sound table has its columns.
LEMMA CellOf ==
  ASSUME NEW st, Sound(st)
  PROVE  /\ \A d \in DOMAIN st.documents : st.documents[d] \in Columns("documents")
         /\ \A d \in DOMAIN st.agents : st.agents[d] \in Columns("agents")
         /\ \A d \in DOMAIN st.agent_keys : st.agent_keys[d] \in Columns("agent_keys")
         /\ \A d \in DOMAIN st.oauth_clients : st.oauth_clients[d] \in Columns("oauth_clients")
         /\ \A d \in DOMAIN st.slug_tombstones : st.slug_tombstones[d] \in Columns("slug_tombstones")
         /\ \A d \in DOMAIN st.versions : st.versions[d] \in Versions
BY PhasesAre DEF Sound, Shaped, VersionsFit

\* A table whose only change is a row more.
LEMMA RowMore ==
  ASSUME NEW st, NEW p \in Phases, Shaped(st, p), NEW id \in Nat \ {0}, NEW row \in Columns(p),
         NEW new, new[p] = Put(st[p], id, row)
  PROVE  Shaped(new, p)
<1>0. DOMAIN Put(st[p], id, row) = DOMAIN st[p] \union {id}
  BY PutIs
<1>1. DOMAIN st[p] \union {id} \subseteq Nat \ {0}
  BY DEF Shaped
<1>2. new[p] \in [DOMAIN st[p] \union {id} -> Columns(p)]
  <2>1. st[p] \in [DOMAIN st[p] -> Columns(p)]
    BY DEF Shaped
  <2>2. new[p] = [z \in DOMAIN st[p] \union {id} |-> IF z = id THEN row ELSE st[p][z]]
    BY PutIs
  <2> QED
    BY <2>1, <2>2
<1>3. IsFiniteSet(DOMAIN st[p] \union {id})
  BY FS_AddElement DEF Shaped
<1> QED
  BY <1>0, <1>1, <1>2, <1>3 DEF Shaped

\* A table whose only change is rows fewer.
LEMMA RowsLess ==
  ASSUME NEW st, NEW p \in Phases, Shaped(st, p), NEW S,
         NEW new, new[p] = Without(st[p], S)
  PROVE  Shaped(new, p)
<1>0. DOMAIN new[p] = DOMAIN st[p] \ S
  BY DEF Without
<1>1. DOMAIN st[p] \ S \subseteq Nat \ {0}
  BY DEF Shaped
<1>2. new[p] \in [DOMAIN st[p] \ S -> Columns(p)]
  BY DEF Shaped, Without
<1>3. IsFiniteSet(DOMAIN st[p] \ S)
  BY FS_Subset DEF Shaped
<1> QED
  BY <1>0, <1>1, <1>2, <1>3 DEF Shaped

-----------------------------------------------------------------------------
(* Keys.                                                                   *)

Keys(own, x) == {k \in DOMAIN own : own[k] = x}
Owned(own) == nonce \in Nat /\ own \in [1..nonce -> Nat \X Nat]
Stored(st, own) == \A x \in DOMAIN st.versions : st.versions[x].key \in Keys(own, x)
Shelved == bucket \in [DOMAIN bucket -> Nat] /\ DOMAIN bucket \subseteq 1..nonce

-----------------------------------------------------------------------------
(* Requests.                                                               *)

Gained == DOMAIN store'.versions \ DOMAIN store.versions

DocumentsGoOn ==
  /\ Docs \subseteq DOMAIN store'.documents
  /\ \A d \in Docs : store'.documents[d].live => store.documents[d].live
  /\ \A d \in DOMAIN store'.documents \ Docs : store'.documents[d].slug = 0
VersionsGoOn ==
  /\ DOMAIN store.versions \subseteq DOMAIN store'.versions
  /\ \A x \in DOMAIN store.versions : store'.versions[x] = store.versions[x]
  /\ nonce' \in {nonce, nonce + 1}
  /\ \A x \in Gained : nonce' = nonce + 1 /\ store'.versions[x].key = nonce' /\ nonce' \in DOMAIN bucket'
  /\ \A x, y \in Gained : x = y
BytesGoOn ==
  /\ bucket' \in [DOMAIN bucket' -> Nat]
  /\ DOMAIN bucket' \subseteq 1..nonce'
  /\ \A k \in DOMAIN bucket \ DOMAIN bucket' :
       \E x \in DOMAIN store.versions : store.versions[x].key = k /\ ~store'.documents[x[1]].live
ReadsGoOn ==
  \A d \in DOMAIN store'.documents : store'.documents[d].live =>
    \A n \in {store'.documents[d].cur, store'.documents[d].pub} \ {0} :
      \/ <<d, n>> \in Gained
      \/ Live(d) /\ n \in {store.documents[d].cur, store.documents[d].pub}
NamesGoOn ==
  \A slug \in DOMAIN store'.slug_tombstones :
    Holders(store', slug) \subseteq
      (IF slug \in DOMAIN store.slug_tombstones THEN Holders(store, slug) ELSE {})

World0 == Sound(store) /\ Shelved /\ nonce \in Nat /\ clock \in Nat

\* What a request leaves alone of what it does not write.
Asked ==
  /\ fate'.blamed = fate.blamed
  /\ fate'.contested = fate.contested \union (IF Restoring THEN Claimed(store') ELSE {})
  /\ file'.pages = file.pages /\ file'.cursor = file.cursor /\ file'.image = file.image
  /\ DOMAIN file' = DOMAIN file
  /\ budget'.limits = budget.limits
  /\ UNCHANGED <<clock, export, shelf, restore>>

Remembered ==
  /\ DOMAIN file = {"pages", "cursor", "image", "quiet", "owed"}
  /\ DOMAIN fate = {"restored", "blamed", "contested"}
  /\ DOMAIN budget = {"start", "limits", "writers", "writes", "ticks", "trouble", "walks",
                      "losses", "restores", "racing", "drill"}

\* A request leaves the walk, the restore and the clock alone.
LEMMA WriteIs ==
  ASSUME Remembered, NEW kind, NEW st, NEW lost, NEW minted, Write(kind, st, lost, minted)
  PROVE  Asked /\ store' = st
<1>1. fate'.contested = fate.contested \union (IF Restoring THEN Claimed(store') ELSE {})
  BY DEF Write, Remembered
<1> QED
  BY <1>1 DEF Write, Asked, Remembered, Spend

\* The bytes a request deletes and puts.
LEMMA WriteBytes ==
  ASSUME World0, NEW kind, NEW st, NEW lost, NEW minted, minted \in {{}, {nonce + 1}},
         Write(kind, st, lost, minted)
  PROVE  /\ nonce' = IF minted = {} THEN nonce ELSE nonce + 1
         /\ bucket' \in [DOMAIN bucket' -> Nat]
         /\ DOMAIN bucket' = (DOMAIN bucket \ lost) \union minted
         /\ DOMAIN bucket' \subseteq 1..nonce'
<1>1. Cardinality({}) = 0 /\ Cardinality({nonce + 1}) = 1
  BY FS_EmptySet, FS_Singleton
<1>2. nonce' = IF minted = {} THEN nonce ELSE nonce + 1
  <2>1. nonce' = nonce + Cardinality(minted)
    BY DEF Write
  <2>2. CASE minted = {}
    BY <1>1, <2>1, <2>2 DEF World0
  <2>3. CASE minted = {nonce + 1}
    BY <1>1, <2>1, <2>3 DEF World0
  <2> QED
    BY <2>2, <2>3
<1>3. bucket' = [k \in (DOMAIN bucket \ lost) \union minted |->
                   IF k \in minted THEN k ELSE bucket[k]]
  <2>1. DOMAIN [k \in minted |-> k] = minted /\ \A k \in minted : [w \in minted |-> w][k] = k
    OBVIOUS
  <2>2. DOMAIN Without(bucket, lost) = DOMAIN bucket \ lost
        /\ \A k \in DOMAIN bucket \ lost : Without(bucket, lost)[k] = bucket[k]
    BY DEF Without
  <2>3. bucket' = Upsert(Without(bucket, lost), [k \in minted |-> k])
    BY DEF Write
  <2> QED
    BY <2>1, <2>2, <2>3 DEF Upsert
<1>4. minted \subseteq Nat /\ \A k \in DOMAIN bucket : bucket[k] \in Nat
  BY DEF World0, Shelved
<1>5. DOMAIN bucket' = (DOMAIN bucket \ lost) \union minted /\ bucket' \in [DOMAIN bucket' -> Nat]
  BY <1>3, <1>4
<1>6. DOMAIN bucket' \subseteq 1..nonce'
  BY <1>2, <1>5 DEF World0, Shelved
<1> QED
  BY <1>2, <1>5, <1>6

\* A request that mints no key and deletes no bytes.
LEMMA WriteNoBytes ==
  ASSUME World0, NEW kind, NEW st, Write(kind, st, {}, {})
  PROVE  /\ nonce' = nonce
         /\ bucket' \in [DOMAIN bucket' -> Nat]
         /\ DOMAIN bucket' = DOMAIN bucket
         /\ DOMAIN bucket' \subseteq 1..nonce'
<1>1. {} \in {{}, {nonce + 1}}
  OBVIOUS
<1>2. /\ nonce' = IF {} = {} THEN nonce ELSE nonce + 1
      /\ bucket' \in [DOMAIN bucket' -> Nat]
      /\ DOMAIN bucket' = (DOMAIN bucket \ {}) \union {}
      /\ DOMAIN bucket' \subseteq 1..nonce'
  BY <1>1, WriteBytes, Zenon
<1> QED
  BY <1>2

\* An enrolment touches agents, keys and clients only.
LEMMA EnrolIs ==
  ASSUME World0, Remembered, NEW a \in 1..2, Enrol(a)
  PROVE  Sound(store') /\ DocumentsGoOn /\ VersionsGoOn /\ BytesGoOn /\ ReadsGoOn /\ NamesGoOn
<1> DEFINE st == [store EXCEPT !.agents = Put(@, a, [at |-> clock]),
                     !.agent_keys = Put(@, a, [at |-> clock, agent |-> a]),
                     !.oauth_clients = Put(@, a, [at |-> clock, agent |-> a])]
<1>0. Write("enrol", st, {}, {})
  BY DEF Enrol
<1>1. /\ st.agents = Put(store.agents, a, [at |-> clock])
      /\ st.agent_keys = Put(store.agent_keys, a, [at |-> clock, agent |-> a])
      /\ st.oauth_clients = Put(store.oauth_clients, a, [at |-> clock, agent |-> a])
      /\ st.documents = store.documents /\ st.versions = store.versions
      /\ st.documents_fts = store.documents_fts /\ st.slug_tombstones = store.slug_tombstones
      /\ DOMAIN st = Tables
  BY TablesAre DEF World0, Sound
<1> HIDE DEF st
<1>2. /\ Shaped(st, "agents") /\ Shaped(st, "agent_keys") /\ Shaped(st, "oauth_clients")
  <2>1. a \in Nat \ {0} /\ [at |-> clock] \in Columns("agents")
        /\ [at |-> clock, agent |-> a] \in Columns("agent_keys")
        /\ [at |-> clock, agent |-> a] \in Columns("oauth_clients")
    BY DEF Columns, World0
  <2>2. Shaped(store, "agents") /\ Shaped(store, "agent_keys") /\ Shaped(store, "oauth_clients")
    BY PhasesAre DEF World0, Sound
  <2> QED
    BY <1>1, <2>1, <2>2, RowMore, PhasesAre
<1>3. \A p \in Phases : Shaped(st, p)
  BY <1>1, <1>2, PhasesAre DEF World0, Sound, Shaped
<1>4. DOMAIN st.agents = DOMAIN store.agents \union {a}
  BY <1>1, PutIs
<1>5. \A d \in DOMAIN st.documents : DocumentFits(st, d)
  BY <1>1, <1>4 DEF World0, Sound, DocumentFits, Holders
<1>6. \A c \in DOMAIN st.oauth_clients : ClientFits(st, c)
  <2>1. st.oauth_clients = [c \in DOMAIN store.oauth_clients \union {a} |->
                 IF c = a THEN [at |-> clock, agent |-> a] ELSE store.oauth_clients[c]]
    BY <1>1, PutIs
  <2>2. \A c \in DOMAIN store.oauth_clients : store.oauth_clients[c].agent \in DOMAIN store.agents
    BY DEF World0, Sound, ClientFits
  <2>3. a \notin DOMAIN store.agents
    BY DEF Enrol
  <2> QED
    BY <1>4, <2>1, <2>2, <2>3 DEF World0, Sound, ClientFits
<1>7. Sound(st)
  BY <1>1, <1>3, <1>5, <1>6 DEF World0, Sound, VersionsFit
<1>8. store' = st
  BY <1>0, WriteIs
<1>9. bucket' \in [DOMAIN bucket' -> Nat] /\ DOMAIN bucket' \subseteq 1..nonce'
      /\ DOMAIN bucket' = DOMAIN bucket /\ nonce' = nonce
  BY <1>0, WriteNoBytes
<1>10. DocumentsGoOn /\ VersionsGoOn
  BY <1>1, <1>8, <1>9 DEF DocumentsGoOn, VersionsGoOn, Gained, Docs
<1>11. BytesGoOn
  BY <1>9 DEF BytesGoOn
<1>12. ReadsGoOn /\ NamesGoOn
  BY <1>1, <1>8 DEF ReadsGoOn, NamesGoOn, Holders, Live, Docs
<1> QED
  BY <1>7, <1>8, <1>10, <1>11, <1>12

Request == DocumentsGoOn /\ VersionsGoOn /\ BytesGoOn /\ ReadsGoOn /\ NamesGoOn

\* A new binding keeps each agent to one client.
LEMMA RebindIs ==
  ASSUME World0, Remembered, NEW c \in DOMAIN store.oauth_clients, Rebind(c, c + 10)
  PROVE  Sound(store') /\ Request
<1> DEFINE st == [store EXCEPT !.oauth_clients =
          Put(Without(@, {c}), c + 10, [at |-> clock, agent |-> @[c].agent])]
<1>0. Write("rebind", st, {}, {})
  BY DEF Rebind
<1>1. /\ st.oauth_clients = Put(Without(store.oauth_clients, {c}), c + 10,
                                [at |-> clock, agent |-> store.oauth_clients[c].agent])
      /\ st.agents = store.agents /\ st.agent_keys = store.agent_keys
      /\ st.documents = store.documents /\ st.versions = store.versions
      /\ st.documents_fts = store.documents_fts /\ st.slug_tombstones = store.slug_tombstones
      /\ DOMAIN st = Tables
  BY TablesAre DEF World0, Sound
<1> HIDE DEF st
<1> DEFINE row == [at |-> clock, agent |-> store.oauth_clients[c].agent]
           mid == [store EXCEPT !.oauth_clients = Without(@, {c})]
<1>2. Shaped(st, "oauth_clients")
  <2>1. c \in Nat \ {0} /\ c + 10 \in Nat \ {0} /\ row \in Columns("oauth_clients")
    <3>1. Shaped(store, "oauth_clients")
      BY PhasesAre DEF World0, Sound
    <3>2. c \in Nat \ {0} /\ store.oauth_clients[c] \in Columns("oauth_clients")
      BY <3>1 DEF Shaped
    <3> QED
      BY <3>2 DEF Columns, World0
  <2>2. Shaped(mid, "oauth_clients")
    <3>1. mid.oauth_clients = Without(store.oauth_clients, {c})
      BY TablesAre DEF World0, Sound
    <3> HIDE DEF mid
    <3> QED
      BY <3>1, RowsLess, PhasesAre DEF World0, Sound
  <2>3. mid.oauth_clients = Without(store.oauth_clients, {c})
    BY TablesAre DEF World0, Sound
  <2> HIDE DEF mid
  <2> QED
    BY <1>1, <2>1, <2>2, <2>3, RowMore, PhasesAre
<1>3. \A p \in Phases : Shaped(st, p)
  BY <1>1, <1>2, PhasesAre DEF World0, Sound, Shaped
<1>5. \A d \in DOMAIN st.documents : DocumentFits(st, d)
  BY <1>1 DEF World0, Sound, DocumentFits, Holders
<1>6. \A e \in DOMAIN st.oauth_clients : ClientFits(st, e)
  <2>1. st.oauth_clients = [e \in (DOMAIN store.oauth_clients \ {c}) \union {c + 10} |->
                 IF e = c + 10 THEN row ELSE store.oauth_clients[e]]
    <3>1. DOMAIN Without(store.oauth_clients, {c}) = DOMAIN store.oauth_clients \ {c}
          /\ \A e \in DOMAIN store.oauth_clients \ {c} :
               Without(store.oauth_clients, {c})[e] = store.oauth_clients[e]
      BY DEF Without
    <3> HIDE DEF row
    <3>2. st.oauth_clients = [e \in DOMAIN Without(store.oauth_clients, {c}) \union {c + 10} |->
                 IF e = c + 10 THEN row ELSE Without(store.oauth_clients, {c})[e]]
      BY <1>1, PutIs DEF row
    <3> QED
      BY <3>1, <3>2
  <2>2. \A e \in DOMAIN store.oauth_clients : ClientFits(store, e)
    BY DEF World0, Sound
  <2> HIDE DEF st
  <2>3. st.oauth_clients[c + 10].agent = store.oauth_clients[c].agent
        /\ \A e \in DOMAIN store.oauth_clients \ {c} :
             e # c + 10 => st.oauth_clients[e] = store.oauth_clients[e]
    BY <2>1
  <2>4. DOMAIN st.oauth_clients = (DOMAIN store.oauth_clients \ {c}) \union {c + 10}
    BY <2>1
  <2> HIDE DEF row
  <2> SUFFICES ASSUME NEW e \in DOMAIN st.oauth_clients
               PROVE  /\ st.oauth_clients[e].agent \in DOMAIN store.agents
                      /\ \A f \in DOMAIN st.oauth_clients :
                           st.oauth_clients[e].agent = st.oauth_clients[f].agent => e = f
    BY <1>1 DEF ClientFits
  <2> DEFINE was(x) == IF x = c + 10 THEN c ELSE x
  <2>5. \A x \in DOMAIN st.oauth_clients :
          /\ was(x) \in DOMAIN store.oauth_clients
          /\ st.oauth_clients[x].agent = store.oauth_clients[was(x)].agent
    BY <2>3, <2>4
  <2>6. \A x, y \in DOMAIN st.oauth_clients : was(x) = was(y) => x = y
    BY <2>4
  <2> HIDE DEF was
  <2> QED
    BY <2>2, <2>5, <2>6 DEF ClientFits
<1>7. Sound(st)
  BY <1>1, <1>3, <1>5, <1>6 DEF World0, Sound, VersionsFit
<1>8. store' = st
  BY <1>0, WriteIs
<1>9. bucket' \in [DOMAIN bucket' -> Nat] /\ DOMAIN bucket' \subseteq 1..nonce'
      /\ DOMAIN bucket' = DOMAIN bucket /\ nonce' = nonce
  BY <1>0, WriteNoBytes
<1>10. DocumentsGoOn /\ VersionsGoOn
  BY <1>1, <1>8, <1>9 DEF DocumentsGoOn, VersionsGoOn, Gained, Docs
<1>11. BytesGoOn
  BY <1>9 DEF BytesGoOn
<1>12. ReadsGoOn /\ NamesGoOn
  BY <1>1, <1>8 DEF ReadsGoOn, NamesGoOn, Holders, Live, Docs
<1> QED
  BY <1>7, <1>8, <1>10, <1>11, <1>12 DEF Request

\* A publication adds a document and its first version.
LEMMA PublishIs ==
  ASSUME World0, Remembered, NEW d \in Nat \ {0}, NEW a \in DOMAIN store.agents, Publish(d, a),
         \A x \in DOMAIN store.versions : store.versions[x].key \in 1..nonce
  PROVE  Sound(store') /\ Request
<1> DEFINE row == [at |-> clock, pid |-> d, by |-> a, cur |-> 1, pub |-> 0, live |-> TRUE,
                   slug |-> 0]
           ver == [by |-> a, key |-> nonce + 1, src |-> TRUE]
           st == [store EXCEPT !.documents = Put(@, d, row), !.versions = Put(@, <<d, 1>>, ver),
                               !.documents_fts = Put(@, d, nonce + 1)]
<1>0. Write("publish", st, {}, {nonce + 1}) /\ d \notin DOMAIN store.documents
  BY DEF Publish, Docs
<1>1. /\ st.documents = Put(store.documents, d, row)
      /\ st.versions = Put(store.versions, <<d, 1>>, ver)
      /\ st.documents_fts = Put(store.documents_fts, d, nonce + 1)
      /\ st.agents = store.agents /\ st.agent_keys = store.agent_keys
      /\ st.oauth_clients = store.oauth_clients /\ st.slug_tombstones = store.slug_tombstones
      /\ DOMAIN st = Tables
  BY TablesAre DEF World0, Sound
<1> HIDE DEF st
<1>2. row \in Columns("documents") /\ ver \in Versions
  <2>1. Shaped(store, "agents")
    BY PhasesAre DEF World0, Sound
  <2>2. a \in Nat
    BY <2>1 DEF Shaped
  <2> QED
    BY <2>2 DEF Columns, Versions, World0
<1>3. Shaped(st, "documents")
  BY <1>1, <1>2, RowMore, PhasesAre DEF World0, Sound
<1>4. \A p \in Phases : Shaped(st, p)
  BY <1>1, <1>3, PhasesAre DEF World0, Sound, Shaped
<1>5. /\ st.documents = [e \in DOMAIN store.documents \union {d} |->
                           IF e = d THEN row ELSE store.documents[e]]
      /\ st.versions = [x \in DOMAIN store.versions \union {<<d, 1>>} |->
                           IF x = <<d, 1>> THEN ver ELSE store.versions[x]]
      /\ DOMAIN st.documents_fts = DOMAIN store.documents_fts \union {d}
  <2> HIDE DEF row, ver
  <2>1. st.documents = [e \in DOMAIN store.documents \union {d} |->
                           IF e = d THEN row ELSE store.documents[e]]
    BY <1>1, PutIs
  <2>2. st.versions = [x \in DOMAIN store.versions \union {<<d, 1>>} |->
                           IF x = <<d, 1>> THEN ver ELSE store.versions[x]]
    BY <1>1, PutIs
  <2>3. DOMAIN st.documents_fts = DOMAIN store.documents_fts \union {d}
    BY <1>1, PutIs
  <2> QED
    BY <2>1, <2>2, <2>3
<1>6. VersionsFit(st)
  <2>1. VersionsFit(store)
    BY DEF World0, Sound
  <2>2. DOMAIN st.versions \subseteq (DOMAIN st.documents) \X (Nat \ {0})
    BY <1>5, <2>1 DEF VersionsFit
  <2>3. st.versions \in [DOMAIN st.versions -> Versions]
    <3> HIDE DEF ver
    <3> QED
      BY <1>2, <1>5, <2>1 DEF VersionsFit
  <2> QED
    BY <2>2, <2>3 DEF VersionsFit
<1>7. <<d, 1>> \notin DOMAIN store.versions
  BY <1>0 DEF World0, Sound, VersionsFit
<1>8. \A e \in DOMAIN st.documents : DocumentFits(st, e)
  <2>1. \A slug : slug # 0 => Holders(st, slug) = Holders(store, slug)
    BY <1>0, <1>5 DEF Holders
  <2>2. ASSUME NEW e \in DOMAIN store.documents PROVE DocumentFits(st, e)
    <3>1. DocumentFits(store, e)
      BY DEF World0, Sound
    <3>2. st.documents[e] = store.documents[e]
      BY <1>0, <1>5
    <3> QED
      BY <1>1, <1>5, <2>1, <3>1, <3>2 DEF DocumentFits
  <2>3. DocumentFits(st, d)
    BY <1>1, <1>5 DEF DocumentFits, WholeRow
  <2> QED
    BY <1>5, <2>2, <2>3
<1>9. Sound(st)
  BY <1>1, <1>4, <1>5, <1>6, <1>8 DEF World0, Sound, ClientFits
<1>10. store' = st
  BY <1>0, WriteIs
<1>11. /\ bucket' \in [DOMAIN bucket' -> Nat] /\ DOMAIN bucket' \subseteq 1..nonce'
       /\ DOMAIN bucket' = (DOMAIN bucket \ {}) \union {nonce + 1} /\ nonce' = nonce + 1
  BY <1>0, WriteBytes
<1>12. DocumentsGoOn
  BY <1>0, <1>5, <1>10 DEF DocumentsGoOn, Docs
<1>13. Gained = {<<d, 1>>}
  BY <1>5, <1>7, <1>10 DEF Gained
<1>14. VersionsGoOn
  <2>1. \A x \in DOMAIN store.versions : store'.versions[x] = store.versions[x]
    BY <1>5, <1>7, <1>10
  <2>2. store'.versions[<<d, 1>>].key = nonce + 1
    BY <1>5, <1>10
  <2> QED
    BY <1>5, <1>10, <1>11, <1>13, <2>1, <2>2 DEF VersionsGoOn
<1>15. BytesGoOn
  BY <1>11 DEF BytesGoOn
<1>16. ReadsGoOn
  BY <1>0, <1>5, <1>10, <1>13 DEF ReadsGoOn, Live, Docs
<1>17. NamesGoOn
  <2>1. \A slug \in DOMAIN store.slug_tombstones : slug # 0
    BY PhasesAre DEF World0, Sound, Shaped
  <2> QED
    BY <1>1, <1>5, <1>10, <2>1 DEF NamesGoOn, Holders
<1> QED
  BY <1>9, <1>10, <1>12, <1>14, <1>15, <1>16, <1>17 DEF Request

\* A live document's row replaced by one of the same shape.
LEMMA RowChanged ==
  ASSUME World0, NEW d \in Docs, NEW row \in Columns("documents"), NEW st,
         st.documents = [store.documents EXCEPT ![d] = row]
  PROVE  /\ Shaped(st, "documents") /\ DOMAIN st.documents = Docs /\ st.documents[d] = row
         /\ \A e \in Docs \ {d} : st.documents[e] = store.documents[e]
<1>1. Shaped(store, "documents")
  BY PhasesAre DEF World0, Sound
<1> QED
  BY <1>1 DEF Shaped, Docs

\* Its columns, and its versions.
LEMMA LiveRow ==
  ASSUME World0, NEW d, Live(d)
  PROVE  /\ d \in Docs /\ d \in Nat \ {0} /\ store.documents[d] \in Columns("documents")
         /\ DocumentFits(store, d) /\ store.documents[d].live /\ store.documents[d].cur \in Nat \ {0}
         /\ <<d, store.documents[d].cur>> \in DOMAIN store.versions
<1>1. d \in Docs /\ store.documents[d].live
  BY DEF Live
<1>2. DocumentFits(store, d)
  BY <1>1 DEF World0, Sound, Docs
<1>3. store.documents[d] \in Columns("documents") /\ d \in Nat \ {0}
  <2>1. Shaped(store, "documents")
    BY PhasesAre DEF World0, Sound
  <2> QED
    BY <1>1, <2>1 DEF Shaped, Docs
<1> QED
  BY <1>1, <1>2, <1>3 DEF Columns, DocumentFits, WholeRow

\* A promotion serves a version that was served already.
LEMMA PromoteIs ==
  ASSUME World0, Remembered, NEW d \in Docs, Promote(d)
  PROVE  Sound(store') /\ Request
<1> DEFINE st == [store EXCEPT !.documents[d].pub = store.documents[d].cur]
           old == store.documents[d]
           row == [old EXCEPT !.pub = old.cur]
<1>0. Write("promote", st, {}, {}) /\ Live(d)
  BY DEF Promote
<1>1. /\ st.documents = [store.documents EXCEPT ![d] = row]
      /\ st.versions = store.versions /\ st.documents_fts = store.documents_fts
      /\ st.agents = store.agents /\ st.agent_keys = store.agent_keys
      /\ st.oauth_clients = store.oauth_clients /\ st.slug_tombstones = store.slug_tombstones
      /\ DOMAIN st = Tables
  BY TablesAre DEF World0, Sound
<1> HIDE DEF st
<1>2. row \in Columns("documents") /\ row.live = old.live /\ row.cur = old.cur
      /\ row.by = old.by /\ row.slug = old.slug /\ row.pub = old.cur /\ old.live
  <2>1. old \in Columns("documents") /\ old.live
    BY <1>0, LiveRow
  <2> HIDE DEF old
  <2> QED
    BY <2>1 DEF Columns
<1> HIDE DEF row
<1>3. /\ Shaped(st, "documents") /\ DOMAIN st.documents = Docs /\ st.documents[d] = row
      /\ \A e \in Docs \ {d} : st.documents[e] = store.documents[e]
  BY <1>1, <1>2, RowChanged
<1>4. \A p \in Phases : Shaped(st, p)
  BY <1>1, <1>3, PhasesAre DEF World0, Sound, Shaped
<1>5. \A slug : Holders(st, slug) = Holders(store, slug)
  BY <1>2, <1>3 DEF Holders, Docs
<1>6. \A e \in DOMAIN st.documents : DocumentFits(st, e)
  <2>1. \A e \in Docs : DocumentFits(store, e)
    BY DEF World0, Sound, Docs
  <2>2. DocumentFits(st, d)
    <3>1. DocumentFits(store, d)
      BY <2>1
    <3>2. WholeRow(row)
      BY <1>2, <3>1 DEF DocumentFits, WholeRow
    <3>3. row.slug # 0 => Holders(st, row.slug) = {d}
      BY <1>2, <1>5, <3>1 DEF DocumentFits
    <3> QED
      BY <1>1, <1>2, <1>3, <3>1, <3>2, <3>3 DEF DocumentFits
  <2>3. \A e \in Docs \ {d} : DocumentFits(st, e)
    BY <1>1, <1>3, <1>5, <2>1 DEF DocumentFits
  <2> QED
    BY <1>3, <2>2, <2>3
<1>7. Sound(st)
  BY <1>1, <1>3, <1>4, <1>6 DEF World0, Sound, VersionsFit, ClientFits, Docs
<1>8. store' = st
  BY <1>0, WriteIs
<1>9. bucket' \in [DOMAIN bucket' -> Nat] /\ DOMAIN bucket' \subseteq 1..nonce'
      /\ DOMAIN bucket' = DOMAIN bucket /\ nonce' = nonce
  BY <1>0, WriteNoBytes
<1>10. DocumentsGoOn
  BY <1>2, <1>3, <1>8 DEF DocumentsGoOn
<1>11. VersionsGoOn
  BY <1>1, <1>8, <1>9 DEF VersionsGoOn, Gained
<1>12. BytesGoOn
  BY <1>9 DEF BytesGoOn
<1>13. ReadsGoOn
  BY <1>0, <1>2, <1>3, <1>8 DEF ReadsGoOn, Live
<1>14. NamesGoOn
  BY <1>1, <1>5, <1>8 DEF NamesGoOn
<1> QED
  BY <1>7, <1>8, <1>10, <1>11, <1>12, <1>13, <1>14 DEF Request

\* An update adds a version and serves it.
LEMMA UpdateIs ==
  ASSUME World0, Remembered, NEW d \in Docs, Update(d)
  PROVE  Sound(store') /\ Request
<1> DEFINE old == store.documents[d]
           next == <<d, old.cur + 1>>
           ver == [by |-> old.by, key |-> nonce + 1, src |-> TRUE]
           st == [store EXCEPT !.documents[d].cur = @ + 1, !.versions = Put(@, next, ver),
                               !.documents_fts = Put(@, d, nonce + 1)]
           row == [old EXCEPT !.cur = @ + 1]
<1>0. Write("update", st, {}, {nonce + 1}) /\ Live(d) /\ next \notin DOMAIN store.versions
  BY DEF Update
<1>1. /\ st.documents = [store.documents EXCEPT ![d] = row]
      /\ st.versions = Put(store.versions, next, ver)
      /\ st.documents_fts = Put(store.documents_fts, d, nonce + 1)
      /\ st.agents = store.agents /\ st.agent_keys = store.agent_keys
      /\ st.oauth_clients = store.oauth_clients /\ st.slug_tombstones = store.slug_tombstones
      /\ DOMAIN st = Tables
  BY TablesAre DEF World0, Sound
<1> HIDE DEF st
<1>2. /\ row \in Columns("documents") /\ row.live = old.live /\ row.cur = old.cur + 1
      /\ row.by = old.by /\ row.slug = old.slug /\ row.pub = old.pub /\ old.live
      /\ ver \in Versions /\ next \in Docs \X (Nat \ {0}) /\ old.cur \in Nat
  <2>1. old \in Columns("documents") /\ old.live /\ d \in Docs
    BY <1>0, LiveRow
  <2> HIDE DEF old
  <2>2. /\ row \in Columns("documents") /\ row.live = old.live /\ row.cur = old.cur + 1
        /\ row.by = old.by /\ row.slug = old.slug /\ row.pub = old.pub
    <3>1. old = [at |-> old.at, pid |-> old.pid, by |-> old.by, cur |-> old.cur, pub |-> old.pub,
                 live |-> old.live, slug |-> old.slug]
          /\ old.at \in Nat /\ old.pid \in Nat /\ old.by \in Nat /\ old.cur \in Nat
          /\ old.pub \in Nat /\ old.live \in BOOLEAN /\ old.slug \in Nat
      BY <2>1 DEF Columns
    <3>2. row = [at |-> old.at, pid |-> old.pid, by |-> old.by, cur |-> old.cur + 1, pub |-> old.pub,
                 live |-> old.live, slug |-> old.slug]
      BY <3>1
    <3>3. old.cur + 1 \in Nat
      BY <3>1
    <3> HIDE DEF row
    <3>4. row \in Columns("documents")
      BY <3>1, <3>2, <3>3 DEF Columns
    <3> QED
      BY <3>2, <3>4
  <2>3. old.cur \in Nat /\ old.by \in Nat
    BY <2>1 DEF Columns
  <2>4. ver \in Versions
    BY <2>3 DEF Versions, World0
  <2>5. next \in Docs \X (Nat \ {0})
    BY <2>1, <2>3
  <2> HIDE DEF row, next, ver
  <2> QED
    BY <2>1, <2>2, <2>3, <2>4, <2>5
<1>3. /\ Shaped(st, "documents") /\ DOMAIN st.documents = Docs /\ st.documents[d] = row
      /\ \A e \in Docs \ {d} : st.documents[e] = store.documents[e]
  <2> HIDE DEF row
  <2> QED
    BY <1>1, <1>2, RowChanged
<1>4. \A p \in Phases : Shaped(st, p)
  BY <1>1, <1>3, PhasesAre DEF World0, Sound, Shaped
<1>5. /\ st.versions = [x \in DOMAIN store.versions \union {next} |->
                           IF x = next THEN ver ELSE store.versions[x]]
      /\ DOMAIN st.documents_fts = DOMAIN store.documents_fts \union {d}
  <2> HIDE DEF next, ver
  <2>1. st.versions = [x \in DOMAIN store.versions \union {next} |->
                           IF x = next THEN ver ELSE store.versions[x]]
    BY <1>1, PutIs
  <2>2. DOMAIN st.documents_fts = DOMAIN store.documents_fts \union {d}
    BY <1>1, PutIs
  <2> QED
    BY <2>1, <2>2
<1>6. \A slug : Holders(st, slug) = Holders(store, slug)
  <2> HIDE DEF row
  <2> QED
    BY <1>2, <1>3 DEF Holders, Docs
<1>7. VersionsFit(st)
  <2>1. VersionsFit(store)
    BY DEF World0, Sound
  <2> HIDE DEF next, ver
  <2> QED
    BY <1>2, <1>3, <1>5, <2>1 DEF VersionsFit, Docs
<1>8. \A e \in DOMAIN st.documents : DocumentFits(st, e)
  <2>1. \A e \in Docs : DocumentFits(store, e)
    BY DEF World0, Sound, Docs
  <2>2. DocumentFits(st, d)
    <3>1. <<d, row.cur>> \in DOMAIN st.versions
      BY <1>2, <1>5
    <3>2. WholeRow(row)
      BY <1>2 DEF WholeRow
    <3> HIDE DEF row
    <3>3. DocumentFits(store, d)
      BY <2>1
    <3>4. row.slug # 0 => Holders(st, row.slug) = {d}
      BY <1>2, <1>6, <3>3 DEF DocumentFits
    <3> QED
      BY <1>1, <1>2, <1>3, <3>1, <3>2, <3>3, <3>4 DEF DocumentFits
  <2>3. \A e \in Docs \ {d} : DocumentFits(st, e)
    BY <1>1, <1>3, <1>5, <1>6, <2>1 DEF DocumentFits
  <2> QED
    BY <1>3, <2>2, <2>3
<1>9. Sound(st)
  BY <1>1, <1>3, <1>4, <1>5, <1>7, <1>8 DEF World0, Sound, ClientFits, Docs
<1>10. store' = st
  BY <1>0, WriteIs
<1>11. /\ bucket' \in [DOMAIN bucket' -> Nat] /\ DOMAIN bucket' \subseteq 1..nonce'
       /\ DOMAIN bucket' = (DOMAIN bucket \ {}) \union {nonce + 1} /\ nonce' = nonce + 1
  BY <1>0, WriteBytes
<1>12. DocumentsGoOn
  BY <1>2, <1>3, <1>10 DEF DocumentsGoOn
<1>13. Gained = {next}
  BY <1>0, <1>5, <1>10 DEF Gained
<1>14. VersionsGoOn
  <2>1. \A x \in DOMAIN store.versions : store'.versions[x] = store.versions[x]
    BY <1>0, <1>5, <1>10
  <2>2. store'.versions[next].key = nonce + 1
    BY <1>5, <1>10
  <2> HIDE DEF next
  <2> QED
    BY <1>5, <1>10, <1>11, <1>13, <2>1, <2>2 DEF VersionsGoOn
<1>15. BytesGoOn
  BY <1>11 DEF BytesGoOn
<1>16. ReadsGoOn
  <2> HIDE DEF row
  <2> QED
    BY <1>0, <1>2, <1>3, <1>10, <1>13 DEF ReadsGoOn, Live
<1>17. NamesGoOn
  BY <1>1, <1>6, <1>10 DEF NamesGoOn
<1> QED
  BY <1>9, <1>10, <1>12, <1>14, <1>15, <1>16, <1>17 DEF Request

\* Retiring a name keeps the tombstones in shape.
LEMMA RetiredIs ==
  ASSUME World0, NEW slug \in Nat, NEW d \in Nat
  PROVE  /\ DOMAIN Retired(slug, d) = DOMAIN store.slug_tombstones \union ({slug} \ {0})
         /\ \A st : st.slug_tombstones = Retired(slug, d) => Shaped(st, "slug_tombstones")
<1>1. Shaped(store, "slug_tombstones")
  BY PhasesAre DEF World0, Sound
<1>2. CASE slug = 0
  BY <1>1, <1>2 DEF Retired, Shaped
<1>3. CASE slug # 0
  <2>1. Retired(slug, d) = Put(store.slug_tombstones, slug, [at |-> clock, doc |-> d])
    BY <1>3 DEF Retired
  <2>2. DOMAIN Retired(slug, d) = DOMAIN store.slug_tombstones \union ({slug} \ {0})
    BY <1>3, <2>1, PutIs
  <2>3. [at |-> clock, doc |-> d] \in Columns("slug_tombstones")
    BY DEF Columns, World0
  <2>4. \A st : st.slug_tombstones = Retired(slug, d) => Shaped(st, "slug_tombstones")
    BY <1>1, <1>3, <2>1, <2>3, RowMore, PhasesAre
  <2> QED
    BY <2>2, <2>4
<1> QED
  BY <1>2, <1>3

\* A rename takes a name nobody holds and retires the old one.
LEMMA RenameIs ==
  ASSUME World0, Remembered, NEW d \in Docs, NEW slug \in 1..3, Rename(d, slug)
  PROVE  Sound(store') /\ Request
<1> DEFINE old == store.documents[d]
           row == [old EXCEPT !.slug = slug]
           st == [store EXCEPT !.documents[d].slug = slug,
                               !.slug_tombstones = Retired(store.documents[d].slug, d)]
<1>0. /\ Write("rename", st, {}, {}) /\ Live(d)
      /\ Holders(store, slug) = {} /\ slug \notin DOMAIN store.slug_tombstones
  BY DEF Rename
<1>1. /\ st.documents = [store.documents EXCEPT ![d] = row]
      /\ st.slug_tombstones = Retired(old.slug, d)
      /\ st.versions = store.versions /\ st.documents_fts = store.documents_fts
      /\ st.agents = store.agents /\ st.agent_keys = store.agent_keys
      /\ st.oauth_clients = store.oauth_clients
      /\ DOMAIN st = Tables
  BY TablesAre DEF World0, Sound
<1> HIDE DEF st
<1>2. row \in Columns("documents") /\ row.live = old.live /\ row.cur = old.cur
      /\ row.by = old.by /\ row.slug = slug /\ row.pub = old.pub /\ old.live /\ old.slug \in Nat
  <2>1. old \in Columns("documents") /\ old.live
    BY <1>0, LiveRow
  <2>2. slug \in Nat
    OBVIOUS
  <2> HIDE DEF old
  <2>3. row \in Columns("documents")
    BY <2>1, <2>2 DEF Columns
  <2> QED
    BY <2>1, <2>3 DEF Columns
<1> HIDE DEF row
<1>3. /\ Shaped(st, "documents") /\ DOMAIN st.documents = Docs /\ st.documents[d] = row
      /\ \A e \in Docs \ {d} : st.documents[e] = store.documents[e]
  BY <1>1, <1>2, RowChanged
<1>4. /\ Shaped(st, "slug_tombstones")
      /\ DOMAIN st.slug_tombstones = DOMAIN store.slug_tombstones \union ({old.slug} \ {0})
  <2>1. d \in Nat
    BY <1>0, LiveRow
  <2> HIDE DEF old
  <2>2. /\ DOMAIN Retired(old.slug, d) = DOMAIN store.slug_tombstones \union ({old.slug} \ {0})
        /\ st.slug_tombstones = Retired(old.slug, d) => Shaped(st, "slug_tombstones")
    BY <1>2, <2>1, RetiredIs
  <2> QED
    BY <1>1, <2>2
<1>5. \A p \in Phases : Shaped(st, p)
  BY <1>1, <1>3, <1>4, PhasesAre DEF World0, Sound, Shaped
<1>6. \A s : /\ s # slug => Holders(st, s) = Holders(store, s) \ {d}
             /\ s # old.slug /\ s # slug => Holders(st, s) = Holders(store, s)
  BY <1>2, <1>3 DEF Holders, Docs
<1>7. Holders(st, slug) = {d} /\ d \notin Holders(store, slug) /\ old.slug # slug
  BY <1>0, <1>2, <1>3 DEF Holders, Docs
<1>8. \A e \in Docs : DocumentFits(store, e)
  BY DEF World0, Sound, Docs
<1>9. old.slug # 0 => Holders(store, old.slug) = {d}
  BY <1>8 DEF DocumentFits
<1>10. \A e \in DOMAIN st.documents : DocumentFits(st, e)
  <2>2. DocumentFits(st, d)
    <3>1. DocumentFits(store, d)
      BY <1>8
    <3>2. WholeRow(row)
      BY <1>2, <3>1 DEF DocumentFits, WholeRow
    <3> QED
      BY <1>1, <1>2, <1>3, <1>7, <3>1, <3>2 DEF DocumentFits
  <2>3. ASSUME NEW e \in Docs \ {d} PROVE DocumentFits(st, e)
    <3>1. DocumentFits(store, e) /\ st.documents[e] = store.documents[e]
      BY <1>3, <1>8
    <3> DEFINE s == store.documents[e].slug
    <3>2. s # 0 => Holders(store, s) = {e}
      BY <3>1 DEF DocumentFits
    <3>3. s # 0 => s # old.slug
      BY <1>9, <3>2
    <3>4. s # slug
      BY <1>0 DEF Holders, Docs
    <3>5. s # 0 => Holders(st, s) = {e}
      BY <1>6, <3>2, <3>3, <3>4
    <3> QED
      BY <1>1, <3>1, <3>5 DEF DocumentFits
  <2> QED
    BY <1>3, <2>2, <2>3
<1>11. Sound(st)
  BY <1>1, <1>3, <1>5, <1>10 DEF World0, Sound, VersionsFit, ClientFits, Docs
<1>12. store' = st
  BY <1>0, WriteIs
<1>13. bucket' \in [DOMAIN bucket' -> Nat] /\ DOMAIN bucket' \subseteq 1..nonce'
      /\ DOMAIN bucket' = DOMAIN bucket /\ nonce' = nonce
  BY <1>0, WriteNoBytes
<1>14. DocumentsGoOn
  BY <1>2, <1>3, <1>12 DEF DocumentsGoOn
<1>15. VersionsGoOn
  BY <1>1, <1>12, <1>13 DEF VersionsGoOn, Gained
<1>16. BytesGoOn
  BY <1>13 DEF BytesGoOn
<1>17. ReadsGoOn
  BY <1>0, <1>2, <1>3, <1>12 DEF ReadsGoOn, Live
<1>18. NamesGoOn
  <2> SUFFICES ASSUME NEW s \in DOMAIN st.slug_tombstones
               PROVE  Holders(st, s) \subseteq
                        (IF s \in DOMAIN store.slug_tombstones THEN Holders(store, s) ELSE {})
    BY <1>12 DEF NamesGoOn
  <2>1. CASE s \in DOMAIN store.slug_tombstones
    BY <1>0, <1>6, <2>1
  <2>2. CASE s \notin DOMAIN store.slug_tombstones
    <3>1. s = old.slug /\ s # 0
      BY <1>4, <2>2
    <3> QED
      BY <1>6, <1>7, <1>9, <2>2, <3>1
  <2> QED
    BY <2>1, <2>2
<1> QED
  BY <1>11, <1>12, <1>14, <1>15, <1>16, <1>17, <1>18 DEF Request

\* A revocation retires the name and deletes only its own bytes.
LEMMA RevokeIs ==
  ASSUME World0, Remembered, NEW d \in Docs, Revoke(d)
  PROVE  Sound(store') /\ Request
<1> DEFINE old == store.documents[d]
           row == [old EXCEPT !.live = FALSE, !.cur = 0, !.pub = 0, !.slug = 0]
           lost == {store.versions[x].key : x \in VersionsOf(store, d)}
           st == [store EXCEPT !.documents[d] = [@ EXCEPT !.live = FALSE, !.cur = 0, !.pub = 0, !.slug = 0],
                     !.slug_tombstones = Retired(store.documents[d].slug, d),
                     !.documents_fts = Without(@, {d})]
<1>0. Write("revoke", st, lost, {}) /\ Live(d)
  BY DEF Revoke
<1>1. /\ st.documents = [store.documents EXCEPT ![d] = row]
      /\ st.slug_tombstones = Retired(old.slug, d)
      /\ st.documents_fts = Without(store.documents_fts, {d})
      /\ st.versions = store.versions
      /\ st.agents = store.agents /\ st.agent_keys = store.agent_keys
      /\ st.oauth_clients = store.oauth_clients
      /\ DOMAIN st = Tables
  BY TablesAre DEF World0, Sound
<1> HIDE DEF st
<1>2. row \in Columns("documents") /\ ~row.live /\ row.cur = 0
      /\ row.by = old.by /\ row.slug = 0 /\ row.pub = 0 /\ old.live /\ old.slug \in Nat
  <2>1. old \in Columns("documents") /\ old.live
    BY <1>0, LiveRow
  <2> HIDE DEF old
  <2> QED
    BY <2>1 DEF Columns
<1> HIDE DEF row
<1>3. /\ Shaped(st, "documents") /\ DOMAIN st.documents = Docs /\ st.documents[d] = row
      /\ \A e \in Docs \ {d} : st.documents[e] = store.documents[e]
  BY <1>1, <1>2, RowChanged
<1>4. /\ Shaped(st, "slug_tombstones")
      /\ DOMAIN st.slug_tombstones = DOMAIN store.slug_tombstones \union ({old.slug} \ {0})
  <2>1. d \in Nat
    BY <1>0, LiveRow
  <2> HIDE DEF old
  <2> QED
    BY <1>1, <1>2, <2>1, RetiredIs
<1>5. \A p \in Phases : Shaped(st, p)
  BY <1>1, <1>3, <1>4, PhasesAre DEF World0, Sound, Shaped
<1>6. \A s : s # 0 => Holders(st, s) = Holders(store, s) \ {d}
  BY <1>2, <1>3 DEF Holders, Docs
<1>8. \A e \in Docs : DocumentFits(store, e)
  BY DEF World0, Sound, Docs
<1>9. old.slug # 0 => Holders(store, old.slug) = {d}
  BY <1>8 DEF DocumentFits
<1>10. \A e \in DOMAIN st.documents : DocumentFits(st, e)
  <2>2. DocumentFits(st, d)
    <3>1. DocumentFits(store, d)
      BY <1>8
    <3>2. WholeRow(row)
      BY <1>2 DEF WholeRow
    <3> QED
      BY <1>1, <1>2, <1>3, <3>1, <3>2 DEF DocumentFits
  <2>3. ASSUME NEW e \in Docs \ {d} PROVE DocumentFits(st, e)
    <3>1. DocumentFits(store, e) /\ st.documents[e] = store.documents[e]
      BY <1>3, <1>8
    <3> DEFINE s == store.documents[e].slug
    <3>2. s # 0 => Holders(store, s) = {e}
      BY <3>1 DEF DocumentFits
    <3>5. s # 0 => Holders(st, s) = {e}
      BY <1>6, <3>2
    <3> QED
      BY <1>1, <3>1, <3>5 DEF DocumentFits
  <2> QED
    BY <1>3, <2>2, <2>3
<1>11. Sound(st)
  <2>1. DOMAIN st.documents_fts \subseteq DOMAIN store.documents_fts
    BY <1>1 DEF Without
  <2> QED
    BY <1>1, <1>3, <1>5, <1>10, <2>1 DEF World0, Sound, VersionsFit, ClientFits, Docs
<1>12. store' = st
  BY <1>0, WriteIs
<1>13. bucket' \in [DOMAIN bucket' -> Nat] /\ DOMAIN bucket' \subseteq 1..nonce'
      /\ DOMAIN bucket' = DOMAIN bucket \ lost /\ nonce' = nonce
  <2> HIDE DEF lost
  <2>1. {} \in {{}, {nonce + 1}}
    OBVIOUS
  <2>2. /\ nonce' = IF {} = {} THEN nonce ELSE nonce + 1
        /\ bucket' \in [DOMAIN bucket' -> Nat]
        /\ DOMAIN bucket' = (DOMAIN bucket \ lost) \union {}
        /\ DOMAIN bucket' \subseteq 1..nonce'
    BY <1>0, <2>1, WriteBytes, Zenon
  <2> QED
    BY <2>2
<1>14. DocumentsGoOn
  BY <1>2, <1>3, <1>12 DEF DocumentsGoOn
<1>15. VersionsGoOn
  BY <1>1, <1>12, <1>13 DEF VersionsGoOn, Gained
<1>16. BytesGoOn
  <2>1. \A k \in DOMAIN bucket \ DOMAIN bucket' :
          \E x \in DOMAIN store.versions : store.versions[x].key = k /\ x[1] = d
    BY <1>13 DEF VersionsOf
  <2>2. ~store'.documents[d].live
    BY <1>2, <1>3, <1>12
  <2> QED
    BY <1>13, <2>1, <2>2 DEF BytesGoOn
<1>17. ReadsGoOn
  BY <1>2, <1>3, <1>12 DEF ReadsGoOn, Live
<1>18. NamesGoOn
  <2> SUFFICES ASSUME NEW s \in DOMAIN st.slug_tombstones
               PROVE  Holders(st, s) \subseteq
                        (IF s \in DOMAIN store.slug_tombstones THEN Holders(store, s) ELSE {})
    BY <1>12 DEF NamesGoOn
  <2>0. s # 0
    BY <1>5, PhasesAre DEF Shaped
  <2>1. CASE s \in DOMAIN store.slug_tombstones
    BY <1>6, <2>0, <2>1
  <2>2. CASE s \notin DOMAIN store.slug_tombstones
    <3>1. s = old.slug /\ s # 0
      BY <1>4, <2>2
    <3> QED
      BY <1>6, <1>9, <2>2, <3>1
  <2> QED
    BY <2>1, <2>2
<1> QED
  BY <1>11, <1>12, <1>14, <1>15, <1>16, <1>17, <1>18 DEF Request

\* A release only drops a tombstone.
LEMMA ReleaseIs ==
  ASSUME World0, Remembered, NEW slug \in DOMAIN store.slug_tombstones, Release(slug)
  PROVE  Sound(store') /\ Request
<1> DEFINE st == [store EXCEPT !.slug_tombstones = Without(@, {slug})]
<1>0. Write("release", st, {}, {})
  BY DEF Release
<1>1. /\ st.slug_tombstones = Without(store.slug_tombstones, {slug})
      /\ st.documents = store.documents /\ st.documents_fts = store.documents_fts
      /\ st.versions = store.versions
      /\ st.agents = store.agents /\ st.agent_keys = store.agent_keys
      /\ st.oauth_clients = store.oauth_clients
      /\ DOMAIN st = Tables
  BY TablesAre DEF World0, Sound
<1> HIDE DEF st
<1>2. Shaped(st, "slug_tombstones")
  BY <1>1, RowsLess, PhasesAre DEF World0, Sound
<1>3. \A p \in Phases : Shaped(st, p)
  BY <1>1, <1>2, PhasesAre DEF World0, Sound, Shaped
<1>4. Sound(st)
  BY <1>1, <1>3 DEF World0, Sound, VersionsFit, ClientFits, DocumentFits, Holders
<1>5. store' = st
  BY <1>0, WriteIs
<1>6. bucket' \in [DOMAIN bucket' -> Nat] /\ DOMAIN bucket' \subseteq 1..nonce'
      /\ DOMAIN bucket' = DOMAIN bucket /\ nonce' = nonce
  BY <1>0, WriteNoBytes
<1>7. DocumentsGoOn /\ VersionsGoOn
  BY <1>1, <1>5, <1>6 DEF DocumentsGoOn, VersionsGoOn, Gained, Docs
<1>8. BytesGoOn
  BY <1>6 DEF BytesGoOn
<1>9. ReadsGoOn
  BY <1>1, <1>5 DEF ReadsGoOn, Live, Docs
<1>10. NamesGoOn
  <2>1. DOMAIN st.slug_tombstones \subseteq DOMAIN store.slug_tombstones
    BY <1>1 DEF Without
  <2> QED
    BY <1>1, <1>5, <2>1 DEF NamesGoOn, Holders
<1> QED
  BY <1>4, <1>5, <1>7, <1>8, <1>9, <1>10 DEF Request

\* What any request does.
LEMMA WritingIs ==
  ASSUME World0, Remembered, Writing,
         \A x \in DOMAIN store.versions : store.versions[x].key \in 1..nonce
  PROVE  Sound(store') /\ Request /\ Asked
<1>1. CASE \E a \in 1..2 : Enrol(a)
  BY <1>1, EnrolIs, WriteIs DEF Request, Enrol
<1>2. CASE \E c \in DOMAIN store.oauth_clients : Rebind(c, c + 10)
  BY <1>2, RebindIs, WriteIs DEF Rebind
<1>3. CASE \E a \in DOMAIN store.agents : Publish(Cardinality(Docs) + 1, a)
  <2>1. Cardinality(Docs) + 1 \in Nat \ {0}
    <3>1. Shaped(store, "documents")
      BY PhasesAre DEF World0, Sound
    <3>2. Cardinality(Docs) \in Nat
      BY <3>1, FS_CardinalityType DEF Shaped, Docs
    <3> QED
      BY <3>2
  <2> QED
    BY <1>3, <2>1, PublishIs, WriteIs DEF Publish
<1>4. CASE \E d \in Docs : Update(d) \/ Promote(d) \/ Revoke(d)
  <2>1. CASE \E d \in Docs : Update(d)
    BY <2>1, UpdateIs, WriteIs DEF Update
  <2>2. CASE \E d \in Docs : Promote(d)
    BY <2>2, PromoteIs, WriteIs DEF Promote
  <2>3. CASE \E d \in Docs : Revoke(d)
    BY <2>3, RevokeIs, WriteIs DEF Revoke
  <2> QED
    BY <1>4, <2>1, <2>2, <2>3
<1>5. CASE \E d \in Docs, slug \in 1..3 : Rename(d, slug)
  BY <1>5, RenameIs, WriteIs DEF Rename
<1>6. CASE \E slug \in DOMAIN store.slug_tombstones : Release(slug)
  BY <1>6, ReleaseIs, WriteIs DEF Release
<1> QED
  BY <1>1, <1>2, <1>3, <1>4, <1>5, <1>6 DEF Writing

-----------------------------------------------------------------------------
(* The world.                                                              *)

Numbered == SUBSET (Nat \ {0})
Rows == UNION {Columns(p) : p \in Phases}
Recs == [by : Nat, key : Nat, src : BOOLEAN, text : Nat]
Chapters == UNION {[D -> Recs] : D \in Numbered}

\* The units of a file, and those of a body of loose versions.
FileUnits == [phase : Phases \union {"versions"}, id : Nat \ {0}, row : Rows, versions : Chapters]
IsUnit(u, own) ==
  LET table == IF u.phase = "versions" THEN "documents" ELSE u.phase IN
  /\ u.row \in Columns(table)
  /\ table = "documents" => WholeRow(u.row)
  /\ \A no \in DOMAIN u.versions : u.versions[no].key \in Keys(own, <<u.id, no>>)
UnitsOf(own) == {u \in FileUnits : u.phase \in Phases /\ IsUnit(u, own)}
LooseOf(own) == {u \in FileUnits : u.phase = "versions" /\ IsUnit(u, own)}

\* The page under way.
IsExport(e, own) ==
  \/ e = Idle
  \/ /\ e.at \in {"fetch", "versions", "blobs"} /\ e.last \in BOOLEAN
     /\ DOMAIN e = {"at", "cursor", "remaining", "rows", "last", "unread", "read", "units"}
     /\ e.cursor.phase \in Phases /\ e.remaining \in Nat
     /\ e.units \in Seq(UnitsOf(own)) /\ e.rows \in Seq(UnitsOf(own))
     /\ e.at # "fetch" =>
          /\ e.rows # <<>> /\ Len(e.rows) <= e.remaining
          /\ \A i \in DOMAIN e.rows : e.rows[i].phase = "documents"
     /\ e.at = "blobs" =>
          /\ \A v \in e.unread : /\ v \in (Nat \ {0}) \X Versions
                                 /\ v[2].key \in Keys(own, <<Head(e.rows).id, v[1]>>)
          /\ e.read \in Chapters
          /\ \A no \in DOMAIN e.read : e.read[no].key \in Keys(own, <<Head(e.rows).id, no>>)

\* A file, finished or not.
IsFile(f, own) ==
  /\ DOMAIN f = {"pages", "cursor", "image", "quiet", "owed"}
  /\ f.pages \in Seq(Seq(UnitsOf(own)))
  /\ f.cursor # Done => f.cursor.phase \in Phases
IsShelf(s, own) == \E T : s \in Seq(T) /\ \A f \in T : IsFile(f, own)

\* What is to be applied.
VersionPlans == [act : {"create", "replace"}, prep : BOOLEAN, rec : Recs, old : SUBSET Nat]
ItemVersions == UNION {[D -> VersionPlans] : D \in Numbered}
RowItems == [kind : Phases \ {"documents"}, id : Nat \ {0}, row : Rows]
DocumentItems == [kind : {"documents"}, id : Nat \ {0}, row : Columns("documents"),
                  versions : ItemVersions, extra : SUBSET (Nat \X Nat), extraKeys : SUBSET Nat]
LooseItems == [kind : {"versions"}, id : Nat \ {0}, versions : ItemVersions,
               extra : {{}}, extraKeys : {{}}, live : BOOLEAN]
ItsOwn(item, own) ==
  /\ \A no \in DOMAIN item.versions :
       /\ item.versions[no].rec.key \in Keys(own, <<item.id, no>>)
       /\ item.versions[no].old \subseteq Keys(own, <<item.id, no>>)
  /\ \A x \in item.extra : x[1] = item.id /\ x[2] \notin DOMAIN item.versions
  /\ \A k \in item.extraKeys : \E x \in item.extra : k \in Keys(own, x)
Renderable(item) ==
  /\ WholeRow(item.row)
  /\ item.row.live => \A n \in Needs(item.row) : n \in DOMAIN item.versions /\ item.versions[n].prep
ItemsOf(own) ==
  {i \in RowItems : i.row \in Columns(i.kind)}
    \union {i \in DocumentItems : ItsOwn(i, own) /\ Renderable(i)}
    \union {i \in LooseItems : /\ ItsOwn(i, own)
                               /\ i.live => \A no \in DOMAIN i.versions : i.versions[no].prep}

\* The restore under way, over a database with these documents.
AtUnit(r) == r.items # <<>> /\ Head(r.items).kind \in {"documents", "versions"}
IsRestore(r, own, docs) ==
  \/ r = Idle
  \/ /\ DOMAIN r = {"at", "items", "clean", "puts", "text"}
     /\ r.at \in {"item", "purge", "derive", "search"}
     /\ r.items \in Seq(ItemsOf(own))
     /\ \A i \in DOMAIN r.items : r.items[i].kind = "versions" => r.items[i].id \in docs
     /\ \A no \in DOMAIN r.puts :
          /\ AtUnit(r) /\ no \in DOMAIN Head(r.items).versions /\ Head(r.items).versions[no].prep
          /\ r.puts[no] \in Keys(own, <<Head(r.items).id, no>>)
     /\ r.at # "item" => AtUnit(r)
     /\ r.at \in {"derive", "search"} => Head(r.items).kind = "versions"

World(own) ==
  /\ World0 /\ Remembered /\ Owned(own) /\ Stored(store, own)
  /\ IsExport(export, own) /\ IsFile(file, own) /\ IsShelf(shelf, own)
  /\ IsRestore(restore, own, Docs)
  /\ budget.limits \subseteq Nat

-----------------------------------------------------------------------------
(* A key more.                                                             *)

Extends(new, own) == \A x : Keys(own, x) \subseteq Keys(new, x)

\* A place can be given the next key.
LEMMA ItExtends ==
  ASSUME NEW own, Owned(own), NEW x \in Nat \X Nat
  PROVE  \E new \in [1..nonce + 1 -> Nat \X Nat] : Extends(new, own) /\ nonce + 1 \in Keys(new, x)
<1> DEFINE new == [k \in 1..nonce + 1 |-> IF k = nonce + 1 THEN x ELSE own[k]]
<1>1. new \in [1..nonce + 1 -> Nat \X Nat]
  BY DEF Owned
<1>2. Extends(new, own) /\ nonce + 1 \in Keys(new, x)
  BY DEF Owned, Keys, Extends
<1> HIDE DEF new
<1> QED
  BY <1>1, <1>2

\* Units stay units as keys are minted.
LEMMA UnitsExtend ==
  ASSUME NEW own, NEW new, Extends(new, own)
  PROVE  UnitsOf(own) \subseteq UnitsOf(new)
BY DEF Extends, UnitsOf, IsUnit

\* Items stay items.
LEMMA ItemsExtend ==
  ASSUME NEW own, NEW new, Extends(new, own)
  PROVE  ItemsOf(own) \subseteq ItemsOf(new)
<1>1. \A i : ItsOwn(i, own) => ItsOwn(i, new)
  BY DEF Extends, ItsOwn
<1> QED
  BY <1>1 DEF ItemsOf

\* So does the page under way.
LEMMA ExportExtends ==
  ASSUME NEW own, NEW new, Extends(new, own), NEW e, IsExport(e, own)
  PROVE  IsExport(e, new)
<1>1. e.units \in Seq(UnitsOf(own)) => e.units \in Seq(UnitsOf(new))
  BY UnitsExtend
<1>2. e.rows \in Seq(UnitsOf(own)) => e.rows \in Seq(UnitsOf(new))
  BY UnitsExtend
<1> QED
  BY <1>1, <1>2 DEF Extends, IsExport

\* So does a file.
LEMMA FileExtends ==
  ASSUME NEW own, NEW new, Extends(new, own), NEW f, IsFile(f, own)
  PROVE  IsFile(f, new)
<1>1. Seq(UnitsOf(own)) \subseteq Seq(UnitsOf(new))
  BY UnitsExtend
<1>2. Seq(Seq(UnitsOf(own))) \subseteq Seq(Seq(UnitsOf(new)))
  BY <1>1
<1> QED
  BY <1>2 DEF IsFile

\* So does the shelf.
LEMMA ShelfExtends ==
  ASSUME NEW own, NEW new, Extends(new, own), NEW s, IsShelf(s, own)
  PROVE  IsShelf(s, new)
BY FileExtends DEF IsShelf

\* So does the restore under way.
LEMMA RestoreExtends ==
  ASSUME NEW own, NEW new, Extends(new, own), NEW docs, NEW more, docs \subseteq more,
         NEW r, IsRestore(r, own, docs)
  PROVE  IsRestore(r, new, more)
<1>1. r.items \in Seq(ItemsOf(own)) => r.items \in Seq(ItemsOf(new))
  BY ItemsExtend
<1> QED
  BY <1>1 DEF Extends, IsRestore

\* A request keeps the world, for some place of the key it minted.
LEMMA WritingWorld ==
  ASSUME NEW own, World(own), Writing
  PROVE  \E new : World(new)' /\ Extends(new, own) /\ Request /\ Asked /\ Sound(store')
<1>1. Sound(store') /\ Request /\ Asked
  <2>1. \A x \in DOMAIN store.versions : store.versions[x].key \in 1..nonce
    BY DEF World, Stored, Keys, Owned
  <2> QED
    BY <2>1, WritingIs DEF World
<1>2. PICK new : /\ Extends(new, own) /\ Owned(new)' /\ Stored(store', new)
  <2>1. CASE Gained = {}
    <3>1. CASE nonce' = nonce
      <4>1. Stored(store', own)
        BY <1>1, <2>1 DEF World, Stored, Request, VersionsGoOn, Gained
      <4> QED
        BY <3>1, <4>1 DEF World, Owned, Extends
    <3>2. CASE nonce' = nonce + 1
      <4>1. PICK new \in [1..nonce + 1 -> Nat \X Nat] : Extends(new, own)
        <5>1. <<0, 0>> \in Nat \X Nat
          OBVIOUS
        <5> QED
          BY <5>1, ItExtends DEF World
      <4>2. Stored(store', new)
        BY <1>1, <2>1, <4>1 DEF World, Stored, Request, VersionsGoOn, Gained, Extends
      <4>3. Owned(new)'
        BY <3>2, <4>1 DEF World, Owned
      <4> QED
        BY <4>1, <4>2, <4>3
    <3> QED
      BY <1>1, <3>1, <3>2 DEF Request, VersionsGoOn
  <2>2. CASE Gained # {}
    <3>0. PICK x \in Gained : TRUE
      BY <2>2
    <3>1. nonce' = nonce + 1 /\ store'.versions[x].key = nonce + 1 /\ \A y \in Gained : y = x
      BY <1>1, <3>0 DEF Request, VersionsGoOn
    <3>2. x \in Nat \X Nat
      <4>1. x \in (DOMAIN store'.documents) \X (Nat \ {0})
        BY <1>1, <3>0 DEF Sound, VersionsFit, Gained
      <4>2. DOMAIN store'.documents \subseteq Nat
        BY <1>1, PhasesAre DEF Sound, Shaped
      <4> QED
        BY <4>1, <4>2
    <3>3. PICK new \in [1..nonce + 1 -> Nat \X Nat] : Extends(new, own) /\ nonce + 1 \in Keys(new, x)
      BY <3>2, ItExtends DEF World
    <3>4. ASSUME NEW y \in DOMAIN store'.versions PROVE store'.versions[y].key \in Keys(new, y)
      <4>1. CASE y \in Gained
        BY <3>1, <3>3, <4>1
      <4>2. CASE y \in DOMAIN store.versions
        BY <1>1, <3>3, <4>2 DEF World, Stored, Request, VersionsGoOn, Extends
      <4> QED
        BY <4>1, <4>2 DEF Gained
    <3>5. Owned(new)'
      BY <3>1, <3>3 DEF World, Owned
    <3> QED
      BY <3>3, <3>4, <3>5 DEF Stored
  <2> QED
    BY <2>1, <2>2
<1>3. World0'
  BY <1>1, <1>2 DEF World, World0, Owned, Asked, Request, BytesGoOn, Shelved
<1>4. Remembered'
  BY DEF World, Remembered, Writing, Enrol, Rebind, Publish, Update, Promote, Rename, Revoke,
         Release, Write, Spend
<1>5. IsExport(export', new) /\ IsShelf(shelf', new)
  BY <1>1, <1>2, ExportExtends, ShelfExtends DEF World, Asked
<1>6. IsFile(file', new)
  <2>1. IsFile(file, new)
    BY <1>2, FileExtends DEF World
  <2> QED
    BY <1>1, <2>1 DEF IsFile, Asked
<1>7. IsRestore(restore', new, Docs')
  BY <1>1, <1>2, RestoreExtends DEF World, Asked, Request, DocumentsGoOn, Docs
<1>8. (budget.limits \subseteq Nat)'
  BY <1>1 DEF World, Asked
<1> QED
  BY <1>1, <1>2, <1>3, <1>4, <1>5, <1>6, <1>7, <1>8 DEF World

-----------------------------------------------------------------------------
(* The walk.                                                               *)

\* What a page fetches are rows of the table.
LEMMA FetchIsOfTable ==
  ASSUME Sound(store), NEW phase \in Phases, NEW after, NEW take \in Nat
  PROVE  /\ fetchPhase(phase, after, take) \in Seq(DOMAIN store[phase])
         /\ Len(fetchPhase(phase, after, take)) <= take
<1> DEFINE t == store[phase]
           ids == {i \in DOMAIN t : After(Key(t, i), after)}
           R == {p \in ids \X ids : Earlier(Key(t, p[1]), Key(t, p[2]))}
           n == Cardinality(ids)
<1>1. Shaped(store, phase)
  BY DEF Sound
<1>2. \A i \in DOMAIN t : t[i].at \in Nat /\ i \in Nat
  <2>1. \A i \in DOMAIN t : t[i] \in Columns(phase) /\ i \in Nat
    BY <1>1 DEF Shaped
  <2> HIDE DEF t
  <2> QED
    BY <2>1, PhasesAre DEF Columns
<1>3. IsFiniteSet(ids) /\ ids \subseteq DOMAIN t
  <2>1. ids \subseteq DOMAIN t /\ IsFiniteSet(DOMAIN t)
    BY <1>1 DEF Shaped
  <2> HIDE DEF ids
  <2> QED
    BY <2>1, FS_Subset
<1> HIDE DEF t, ids
<1>4. Orders(ids, R)
  BY <1>2, <1>3 DEF Orders, Earlier, Key
<1>5. n \in Nat /\ \A k \in 1..n : \E x \in ids : Place(ids, R, x) = k - 1
  <2> HIDE DEF R
  <2> QED
    BY <1>3, <1>4, PlaceTaken
<1>6. ASSUME NEW x \in ids
      PROVE  Place(ids, R, x) = Cardinality({y \in ids : Earlier(Key(t, y), Key(t, x))})
  <2>1. {y \in ids : Earlier(Key(t, y), Key(t, x))} = {y \in ids : <<y, x>> \in R}
    OBVIOUS
  <2> QED
    BY <2>1 DEF Place
<1> DEFINE all == InOrder(ids, LAMBDA i, j : Earlier(Key(t, i), Key(t, j)))
<1>7. all = [k \in 1..n |-> CHOOSE x \in ids :
                 Cardinality({y \in ids : Earlier(Key(t, y), Key(t, x))}) = k - 1]
  BY DEF InOrder
<1>8. fetchPhase(phase, after, take) = SubSeq(all, 1, IF n < take THEN n ELSE take)
  BY DEF fetchPhase, t, ids
<1> HIDE DEF all, n
<1>9. \A k \in 1..n : all[k] \in ids
  <2> SUFFICES ASSUME NEW k \in 1..n PROVE all[k] \in ids
    OBVIOUS
  <2>1. \E x \in ids : Cardinality({y \in ids : Earlier(Key(t, y), Key(t, x))}) = k - 1
    BY <1>5, <1>6
  <2> QED
    BY <1>7, <2>1
<1>10. all \in Seq(DOMAIN t) /\ Len(all) = n
  <2>1. \A k \in 1..n : all[k] \in DOMAIN t
    BY <1>3, <1>9
  <2>2. all \in [1..n -> DOMAIN t]
    BY <1>7, <2>1
  <2> QED
    BY <1>5, <2>2
<1> DEFINE m == IF n < take THEN n ELSE take
<1>11. SubSeq(all, 1, m) \in Seq(DOMAIN t) /\ Len(SubSeq(all, 1, m)) <= take
  <2>1. m \in Nat /\ m <= n /\ m <= take
    BY <1>5
  <2> HIDE DEF m
  <2>2. SubSeq(all, 1, m) = [i \in 1..m |-> all[i]]
    BY <1>5, <1>10, <2>1
  <2> QED
    BY <1>5, <1>10, <2>1, <2>2
<1> QED
  BY <1>8, <1>11 DEF t

\* A row of a phase travels as a unit.
LEMMA RowIsUnit ==
  ASSUME NEW own, Sound(store), NEW phase \in Phases, NEW id \in DOMAIN store[phase]
  PROVE  Unit(phase, id, Empty) \in UnitsOf(own)
<1>1. Shaped(store, phase)
  BY DEF Sound
<1>2. id \in Nat \ {0} /\ store[phase][id] \in Columns(phase)
  BY <1>1 DEF Shaped
<1>3. Empty \in Chapters /\ DOMAIN Empty = {}
  <2>1. {} \in Numbered /\ Empty \in [{} -> Recs] /\ DOMAIN Empty = {}
    BY DEF Numbered, Empty
  <2> QED
    BY <2>1 DEF Chapters
<1>4. phase = "documents" => WholeRow(store[phase][id])
  BY DEF Sound, DocumentFits
<1>5. phase # "versions"
  BY PhasesAre
<1> QED
  BY <1>2, <1>3, <1>4, <1>5 DEF Unit, UnitsOf, IsUnit, FileUnits, Rows

\* A page joins the file.
LEMMA FileTakesPage ==
  ASSUME NEW own, NEW f, IsFile(f, own), NEW units \in Seq(UnitsOf(own)), NEW cursor,
         cursor = Done \/ cursor.phase \in Phases
  PROVE  IsFile([f EXCEPT !.pages = Append(@, units), !.cursor = cursor], own)
<1>1. Append(f.pages, units) \in Seq(Seq(UnitsOf(own)))
  BY DEF IsFile
<1> QED
  BY <1>1 DEF IsFile

\* The trailer keeps the file and the shelf.
LEMMA PageIsFinished ==
  ASSUME NEW own, World(own), NEW units \in Seq(UnitsOf(own)), NEW cursor,
         cursor = Done \/ cursor.phase \in Phases, FinishPage(units, cursor)
  PROVE  IsExport(export', own) /\ IsFile(file', own) /\ IsShelf(shelf', own)
<1> DEFINE f == [file EXCEPT !.pages = Append(@, units), !.cursor = cursor]
<1>1. /\ export' = Idle
      /\ IF cursor = Done THEN file' = NoFile /\ shelf' = Append(shelf, f)
         ELSE file' = f /\ shelf' = shelf
  BY DEF FinishPage
<1>2. IsFile(f, own)
  BY FileTakesPage DEF World
<1> HIDE DEF f
<1>3. IsFile(NoFile, own)
  <2>1. <<>> \in Seq(Seq(UnitsOf(own)))
    OBVIOUS
  <2> QED
    BY <2>1 DEF IsFile, NoFile
<1>4. IsShelf(Append(shelf, f), own)
  <2>1. PICK T : shelf \in Seq(T) /\ \A g \in T : IsFile(g, own)
    BY DEF World, IsShelf
  <2>2. Append(shelf, f) \in Seq(T \union {f})
    BY <2>1
  <2>3. \A g \in T \union {f} : IsFile(g, own)
    BY <1>2, <2>1
  <2> QED
    BY <2>2, <2>3 DEF IsShelf
<1> QED
  BY <1>1, <1>2, <1>3, <1>4 DEF World, IsExport

\* So does the end of a phase, or the walk goes on.
LEMMA RowsEnd ==
  ASSUME NEW own, World(own), export # Idle, NEW units \in Seq(UnitsOf(own)), NEW taken \in Nat,
         NEW last \in BOOLEAN, last => taken <= export.remaining, EndOfRows(units, taken, last)
  PROVE  IsExport(export', own) /\ IsFile(file', own) /\ IsShelf(shelf', own)
<1> DEFINE phase == export.cursor.phase
           next == [phase |-> nextBackupPhase[PhaseAt(phase)], after |-> Start]
           here == [phase |-> phase, after |-> [ts |-> Last(units).row.at, id |-> Last(units).id]]
           left == export.remaining - taken
<1>1. phase \in Phases /\ export.remaining \in Nat
  BY DEF World, IsExport
<1>2. PhaseAt(phase) \in 1..5 /\ (PhaseAt(phase) < 5 => next.phase \in Phases)
  <2> HIDE DEF phase
  <2> QED
    BY <1>1, PhasePlaces
<1>3. here.phase \in Phases
  BY <1>1
<1>4. \/ FinishPage(units, here)
      \/ FinishPage(units, Done)
      \/ PhaseAt(phase) < 5 /\ FinishPage(units, next)
      \/ /\ PhaseAt(phase) < 5
         /\ left \in Nat
         /\ export' = [export EXCEPT !.at = "fetch", !.cursor = next, !.remaining = left,
                                     !.units = units]
         /\ UNCHANGED <<file, shelf>>
  <2>1. CASE ~last
    BY <2>1 DEF EndOfRows
  <2>2. CASE last /\ PhaseAt(phase) = 5
    BY <2>2 DEF EndOfRows
  <2>3. CASE last /\ PhaseAt(phase) < 5 /\ left = 0
    <3>1. PhaseAt(export.cursor.phase) # 5 /\ PhaseAt(export.cursor.phase) < 5
          /\ export.remaining - taken = 0 /\ ~(export.remaining - taken > 0) /\ last
      BY <1>2, <2>3
    <3>2. FinishPage(units, next)
      BY <3>1, Zenon DEF EndOfRows
    <3> QED
      BY <2>3, <3>2, Zenon
  <2>4. CASE last /\ PhaseAt(phase) < 5 /\ left > 0
    <3>1. PhaseAt(export.cursor.phase) # 5 /\ PhaseAt(export.cursor.phase) < 5
          /\ export.remaining - taken # 0 /\ export.remaining - taken > 0 /\ last
          /\ left \in Nat
      BY <1>1, <1>2, <2>4
    <3>2. /\ export' = [export EXCEPT !.at = "fetch", !.cursor = next, !.remaining = left,
                                     !.units = units]
          /\ UNCHANGED <<file, shelf>>
      BY <3>1, Zenon DEF EndOfRows
    <3> QED
      BY <2>4, <3>1, <3>2, Zenon
  <2> QED
    BY <1>1, <1>2, <2>1, <2>2, <2>3, <2>4
<1>5. CASE FinishPage(units, here)
  <2> HIDE DEF here
  <2> QED
    BY <1>3, <1>5, PageIsFinished
<1>6. CASE FinishPage(units, Done)
  BY <1>6, PageIsFinished
<1>7. CASE PhaseAt(phase) < 5 /\ FinishPage(units, next)
  <2> HIDE DEF next
  <2> QED
    BY <1>2, <1>7, PageIsFinished
<1>8. CASE /\ PhaseAt(phase) < 5 /\ left \in Nat
           /\ export' = [export EXCEPT !.at = "fetch", !.cursor = next, !.remaining = left,
                                       !.units = units]
           /\ UNCHANGED <<file, shelf>>
  <2> HIDE DEF next, left
  <2> QED
    BY <1>2, <1>8 DEF World, IsExport
<1> QED
  BY <1>4, <1>5, <1>6, <1>7, <1>8

\* The walk's steps leave the rest alone.
Walks(own) ==
  /\ IsExport(export', own) /\ IsFile(file', own) /\ IsShelf(shelf', own)
  /\ UNCHANGED <<world, restore>>
  /\ fate'.blamed = fate.blamed /\ fate'.contested = fate.contested /\ DOMAIN fate' = DOMAIN fate
  /\ DOMAIN budget' = DOMAIN budget /\ budget'.limits = budget.limits

\* What is left of the bounds but for the one spent.
LEMMA SpendIs ==
  ASSUME Remembered, NEW field, field # "limits", Spend(field)
  PROVE  DOMAIN budget' = DOMAIN budget /\ budget'.limits = budget.limits
BY DEF Remembered, Spend

\* Fetching rows keeps the walk.
LEMMA FetchWalks ==
  ASSUME NEW own, World(own), FetchPhase
  PROVE  Walks(own)
<1> DEFINE phase == export.cursor.phase
           peeked == fetchPhase(phase, export.cursor.after, export.remaining + 1)
           last == Len(peeked) <= export.remaining
           rows == IF last THEN peeked ELSE Front(peeked)
           us == [n \in DOMAIN rows |-> Unit(phase, rows[n], Empty)]
<1>1. export # Idle /\ phase \in Phases /\ export.remaining \in Nat /\ export.at = "fetch"
      /\ export.units \in Seq(UnitsOf(own))
  BY DEF FetchPhase, World, IsExport, Idle
<1>2. peeked \in Seq(DOMAIN store[phase]) /\ Len(peeked) <= export.remaining + 1
  <2> HIDE DEF phase
  <2> QED
    BY <1>1, FetchIsOfTable DEF World, World0
<1> HIDE DEF peeked
<1>3. rows \in Seq(DOMAIN store[phase]) /\ Len(rows) <= export.remaining
  <2>1. CASE last
    BY <1>2, <2>1
  <2>2. CASE ~last
    <3>1. peeked # <<>> /\ Len(peeked) = export.remaining + 1
      BY <1>1, <1>2, <2>2
    <3>2. Front(peeked) = [i \in 1..Len(peeked) - 1 |-> peeked[i]]
      BY <1>2, <3>1 DEF Front
    <3>3. Front(peeked) \in Seq(DOMAIN store[phase]) /\ Len(Front(peeked)) = Len(peeked) - 1
      <4> DEFINE n == Len(peeked) - 1
      <4>1. n \in Nat /\ \A i \in 1..n : peeked[i] \in DOMAIN store[phase]
        BY <1>2, <3>1
      <4>2. Front(peeked) = [i \in 1..n |-> peeked[i]]
        BY <3>2
      <4> HIDE DEF n
      <4>3. Front(peeked) \in Seq(DOMAIN store[phase]) /\ Len(Front(peeked)) = n
        BY <4>1, <4>2
      <4> QED
        BY <4>3 DEF n
    <3> QED
      BY <1>1, <2>2, <3>1, <3>3
  <2> QED
    BY <2>1, <2>2
<1>4. /\ \/ /\ phase = "documents" /\ rows # <<>>
            /\ export' = [export EXCEPT !.at = "versions", !.last = last, !.rows = us]
            /\ UNCHANGED <<file, shelf>>
         \/ EndOfRows(export.units \o us, Len(rows), last)
      /\ UNCHANGED <<world, restore, fate, budget>>
  BY DEF FetchPhase, peeked
<1>5. last \in BOOLEAN /\ (last => Len(rows) <= export.remaining)
  BY <1>3
<1> HIDE DEF rows, last
<1>6. us \in Seq(UnitsOf(own)) /\ Len(us) = Len(rows) /\ Len(rows) \in Nat
      /\ \A i \in DOMAIN us : us[i].phase = phase
  <2>1. \A n \in DOMAIN rows : Unit(phase, rows[n], Empty) \in UnitsOf(own)
                               /\ Unit(phase, rows[n], Empty).phase = phase
    <3>1. \A n \in DOMAIN rows : rows[n] \in DOMAIN store[phase]
      BY <1>3
    <3>2. \A id : Unit(phase, id, Empty).phase = phase
      BY DEF Unit
    <3> HIDE DEF phase
    <3> QED
      BY <1>1, <3>1, <3>2, RowIsUnit DEF World, World0
  <2>2. DOMAIN rows = 1..Len(rows) /\ Len(rows) \in Nat
    BY <1>3
  <2> HIDE DEF phase
  <2> QED
    BY <2>1, <2>2
<1> HIDE DEF us
<1>7. CASE /\ phase = "documents" /\ rows # <<>>
           /\ export' = [export EXCEPT !.at = "versions", !.last = last, !.rows = us]
           /\ UNCHANGED <<file, shelf>>
  <2>1. us # <<>>
    BY <1>3, <1>6, <1>7
  <2>2. IsExport(export', own)
    BY <1>1, <1>3, <1>5, <1>6, <1>7, <2>1 DEF World, IsExport
  <2> QED
    BY <1>4, <1>7, <2>2 DEF Walks, World
<1>8. CASE EndOfRows(export.units \o us, Len(rows), last)
  <2>1. export.units \o us \in Seq(UnitsOf(own))
    BY <1>1, <1>6
  <2>2. IsExport(export', own) /\ IsFile(file', own) /\ IsShelf(shelf', own)
    BY <1>1, <1>5, <1>6, <1>8, <2>1, RowsEnd
  <2> QED
    BY <1>4, <2>2 DEF Walks
<1> QED
  BY <1>4, <1>7, <1>8

\* So does reading a document's versions.
LEMMA VersionsWalk ==
  ASSUME NEW own, World(own), SelectVersions
  PROVE  Walks(own)
<1> DEFINE d == Head(export.rows).id
           unread == {<<x[2], store.versions[x]>> : x \in VersionsOf(store, d)}
<1>1. export # Idle
  BY DEF SelectVersions, Idle
<1>2. export' = [export EXCEPT !.at = "blobs", !.read = Empty, !.unread = unread]
      /\ UNCHANGED <<world, file, shelf, restore, fate, budget>> /\ export.at = "versions"
  BY DEF SelectVersions
<1>3. \A v \in unread : v \in (Nat \ {0}) \X Versions /\ v[2].key \in Keys(own, <<d, v[1]>>)
  <2> SUFFICES ASSUME NEW x \in DOMAIN store.versions, x[1] = d
               PROVE  /\ x[2] \in Nat \ {0} /\ store.versions[x] \in Versions
                      /\ store.versions[x].key \in Keys(own, <<d, x[2]>>)
    BY DEF VersionsOf
  <2>1. x \in (DOMAIN store.documents) \X (Nat \ {0}) /\ store.versions[x] \in Versions
    BY DEF World, World0, Sound, VersionsFit
  <2>2. x = <<d, x[2]>>
    BY <2>1
  <2> QED
    BY <2>1, <2>2 DEF World, Stored
<1>4. {} \in Numbered /\ Empty \in [{} -> Recs] /\ DOMAIN Empty = {}
  BY DEF Numbered, Empty
<1>5. Empty \in Chapters /\ DOMAIN Empty = {}
  BY <1>4 DEF Chapters
<1>6. IsExport(export', own)
  <2> HIDE DEF unread
  <2> QED
    BY <1>1, <1>2, <1>3, <1>5 DEF World, IsExport
<1> QED
  BY <1>2, <1>6 DEF Walks, World

\* So does reading a version's bytes.
LEMMA BlobWalks ==
  ASSUME NEW own, World(own), ReadBlob
  PROVE  Walks(own)
<1> DEFINE v == CHOOSE x \in export.unread : \A y \in export.unread : x[1] <= y[1]
           row == Head(export.rows).row
           rec == [by |-> v[2].by, key |-> v[2].key, src |-> v[2].src, text |-> Source(row, v[2])]
<1>1. export # Idle /\ export.at = "blobs" /\ export.unread # {}
      /\ export' = [export EXCEPT !.unread = @ \ {v}, !.read = Put(@, v[1], rec)]
      /\ UNCHANGED <<world, file, shelf, restore, fate, budget>>
  BY DEF ReadBlob, Idle
<1>2. /\ \A x \in export.unread : /\ x \in (Nat \ {0}) \X Versions
                                  /\ x[2].key \in Keys(own, <<Head(export.rows).id, x[1]>>)
      /\ export.read \in Chapters
      /\ \A no \in DOMAIN export.read : export.read[no].key \in Keys(own, <<Head(export.rows).id, no>>)
  BY <1>1 DEF World, IsExport
<1>3. v \in export.unread
  <2> DEFINE N == {x[1] : x \in export.unread}
  <2>1. N \subseteq Nat /\ N # {}
    BY <1>1, <1>2
  <2>2. PICK n \in N : \A m \in N : n <= m
    <3> HIDE DEF N
    <3> QED
      BY <2>1, LeastOf
  <2> QED
    BY <2>2
<1> HIDE DEF v
<1>4. rec \in Recs
  <2>1. v[2] \in Versions
    BY <1>2, <1>3
  <2>2. Source(row, v[2]) \in Nat
    <3>1. \A k \in DOMAIN bucket : bucket[k] \in Nat
      BY DEF World, World0, Shelved
    <3> QED
      BY <3>1 DEF Source
  <2> QED
    BY <2>1, <2>2 DEF Versions, Recs
<1>5. v[1] \in Nat \ {0} /\ rec.key \in Keys(own, <<Head(export.rows).id, v[1]>>)
  BY <1>2, <1>3
<1> HIDE DEF rec
<1>6. /\ Put(export.read, v[1], rec) \in Chapters
      /\ \A no \in DOMAIN Put(export.read, v[1], rec) :
           Put(export.read, v[1], rec)[no].key \in Keys(own, <<Head(export.rows).id, no>>)
  <2>1. PICK D \in Numbered : export.read \in [D -> Recs]
    BY <1>2 DEF Chapters
  <2>2. Put(export.read, v[1], rec)
          = [no \in D \union {v[1]} |-> IF no = v[1] THEN rec ELSE export.read[no]]
    BY <2>1, PutIs
  <2>3. Put(export.read, v[1], rec) \in [D \union {v[1]} -> Recs] /\ D \union {v[1]} \in Numbered
    BY <1>4, <1>5, <2>1, <2>2 DEF Numbered
  <2>4. Put(export.read, v[1], rec) \in Chapters
    BY <2>3 DEF Chapters
  <2>5. ASSUME NEW no \in D \union {v[1]}
        PROVE Put(export.read, v[1], rec)[no].key \in Keys(own, <<Head(export.rows).id, no>>)
    BY <1>2, <1>5, <2>1, <2>2
  <2> QED
    BY <2>2, <2>4, <2>5
<1>7. IsExport(export', own)
  BY <1>1, <1>2, <1>6 DEF World, IsExport
<1> QED
  BY <1>1, <1>7 DEF Walks, World

\* So does emitting a document.
LEMMA DocumentWalks ==
  ASSUME NEW own, World(own), EmitDocument
  PROVE  Walks(own)
<1> DEFINE unit == [Head(export.rows) EXCEPT !.versions = export.read]
           units == Append(export.units, unit)
<1>1. export # Idle /\ export.at = "blobs"
  BY DEF EmitDocument, Idle
<1>2. /\ export.rows \in Seq(UnitsOf(own)) /\ export.units \in Seq(UnitsOf(own))
      /\ export.rows # <<>> /\ Len(export.rows) <= export.remaining /\ export.remaining \in Nat
      /\ \A i \in DOMAIN export.rows : export.rows[i].phase = "documents"
      /\ export.read \in Chapters
      /\ \A no \in DOMAIN export.read : export.read[no].key \in Keys(own, <<Head(export.rows).id, no>>)
  BY <1>1 DEF World, IsExport
<1>3. unit \in UnitsOf(own)
  <2>1. Head(export.rows) \in UnitsOf(own)
    BY <1>2
  <2> DEFINE head == Head(export.rows)
  <2> HIDE DEF head
  <2>2. head \in UnitsOf(own) /\ unit = [head EXCEPT !.versions = export.read]
        /\ \A no \in DOMAIN export.read : export.read[no].key \in Keys(own, <<head.id, no>>)
    BY <1>2, <2>1 DEF head
  <2> HIDE DEF unit
  <2>3. unit \in FileUnits /\ unit.phase = head.phase /\ unit.row = head.row /\ unit.id = head.id
        /\ unit.versions = export.read
    BY <1>2, <2>2 DEF UnitsOf, FileUnits
  <2> QED
    BY <2>2, <2>3 DEF UnitsOf, IsUnit
<1> HIDE DEF unit
<1>4. units \in Seq(UnitsOf(own))
  BY <1>2, <1>3
<1>5. UNCHANGED <<world, restore, fate, budget>>
  BY DEF EmitDocument
<1>6. CASE Len(export.rows) > 1
  <2>1. export' = [export EXCEPT !.at = "versions", !.rows = Tail(@), !.units = units,
                                 !.remaining = @ - 1]
        /\ UNCHANGED <<file, shelf>>
    BY <1>6 DEF EmitDocument, unit
  <2>2. /\ Tail(export.rows) \in Seq(UnitsOf(own)) /\ Tail(export.rows) # <<>>
        /\ Len(Tail(export.rows)) = Len(export.rows) - 1
        /\ \A i \in DOMAIN Tail(export.rows) : Tail(export.rows)[i].phase = "documents"
    <3> DEFINE rows == export.rows
    <3>1. rows \in Seq(UnitsOf(own)) /\ Len(rows) > 1 /\ \A i \in DOMAIN rows : rows[i].phase = "documents"
      BY <1>2, <1>6
    <3> HIDE DEF rows
    <3>0. rows # <<>> /\ Len(rows) - 1 \in Nat
      BY <3>1
    <3>2. Tail(rows) \in Seq(UnitsOf(own)) /\ Len(Tail(rows)) = Len(rows) - 1 /\ Tail(rows) # <<>>
      <4>1. Tail(rows) \in Seq(UnitsOf(own)) /\ Len(Tail(rows)) = Len(rows) - 1
        BY <3>0, <3>1, HeadTailProperties
      <4>2. Len(Tail(rows)) # 0
        BY <3>1, <4>1
      <4> QED
        BY <4>1, <4>2, EmptySeq
    <3>3. \A i \in 1..Len(rows) - 1 : Tail(rows)[i] = rows[i + 1] /\ i + 1 \in DOMAIN rows
      BY <3>1
    <3>4. \A i \in DOMAIN Tail(rows) : Tail(rows)[i].phase = "documents"
      BY <3>1, <3>2, <3>3
    <3> QED
      BY <3>2, <3>4 DEF rows
  <2>3. export.remaining - 1 \in Nat /\ Len(Tail(export.rows)) <= export.remaining - 1
    BY <1>2, <1>6, <2>2
  <2> HIDE DEF units
  <2>4. IsExport(export', own)
    BY <1>1, <1>4, <2>1, <2>2, <2>3 DEF World, IsExport
  <2> QED
    BY <1>5, <2>1, <2>4 DEF Walks, World
<1>7. CASE ~(Len(export.rows) > 1)
  <2>1. EndOfRows(units, 1, export.last)
    BY <1>7 DEF EmitDocument, unit
  <2>2. 1 <= export.remaining
    BY <1>2
  <2>3. export.last \in BOOLEAN
    BY <1>1 DEF World, IsExport
  <2>4. IsExport(export', own) /\ IsFile(file', own) /\ IsShelf(shelf', own)
    BY <1>1, <1>4, <2>1, <2>2, <2>3, RowsEnd
  <2> QED
    BY <1>5, <2>4 DEF Walks
<1> QED
  BY <1>6, <1>7

\* A step of the walk keeps the world, and only reads the database.
LEMMA WalkingIs ==
  ASSUME NEW own, World(own), Walking
  PROVE  /\ World(own)' /\ UNCHANGED <<world, restore>>
         /\ fate'.blamed = fate.blamed /\ fate'.contested = fate.contested
<1>1. Walks(own)
  <2>1. CASE StartWalk
    <3>1. /\ UNCHANGED <<world, export, shelf, restore>>
          /\ fate'.blamed = fate.blamed /\ fate'.contested = fate.contested
          /\ DOMAIN fate' = DOMAIN fate
          /\ DOMAIN file' = {"pages", "cursor", "image", "quiet", "owed"}
          /\ file'.pages = <<>> /\ file'.cursor = FirstPage
      BY <2>1 DEF StartWalk, World, Remembered
    <3>2. FirstPage.phase \in Phases
      BY PhasesAre DEF FirstPage
    <3>3. <<>> \in Seq(Seq(UnitsOf(own)))
      OBVIOUS
    <3>4. IsFile(file', own)
      BY <3>1, <3>2, <3>3 DEF IsFile
    <3>5. DOMAIN budget' = DOMAIN budget /\ budget'.limits = budget.limits
      BY <2>1, SpendIs DEF StartWalk, World
    <3> QED
      BY <3>1, <3>4, <3>5 DEF Walks, World
  <2>2. CASE \E raw \in budget.limits : RequestPage(raw)
    <3>1. PICK raw \in budget.limits : RequestPage(raw)
      BY <2>2
    <3>2. parseBackupLimit(raw) \in Nat
      BY BackupAssumption DEF World, parseBackupLimit
    <3>3. file.cursor.phase \in Phases
      BY <3>1 DEF RequestPage, World, IsFile
    <3>4. <<>> \in Seq(UnitsOf(own))
      OBVIOUS
    <3>5. IsExport(export', own)
      BY <3>1, <3>2, <3>3, <3>4 DEF RequestPage, IsExport
    <3> QED
      BY <3>1, <3>5 DEF RequestPage, Walks, World
  <2>3. CASE FetchPhase
    BY <2>3, FetchWalks
  <2>4. CASE SelectVersions
    BY <2>4, VersionsWalk
  <2>5. CASE ReadBlob
    BY <2>5, BlobWalks
  <2>6. CASE EmitDocument
    BY <2>6, DocumentWalks
  <2>7. CASE CutPage
    <3>1. IsExport(export', own)
      BY <2>7 DEF CutPage, IsExport
    <3>2. DOMAIN budget' = DOMAIN budget /\ budget'.limits = budget.limits
      BY <2>7, SpendIs DEF CutPage, World
    <3> QED
      BY <2>7, <3>1, <3>2 DEF CutPage, Walks, World
  <2> QED
    BY <2>1, <2>2, <2>3, <2>4, <2>5, <2>6, <2>7 DEF Walking
<1> QED
  BY <1>1 DEF Walks, World, world, World0, Shelved, Owned, Stored, Remembered, IsFile, Docs

-----------------------------------------------------------------------------
(* The plan.                                                               *)

\* The units of a phase are units of the body.
LEMMA OfIsOfList ==
  ASSUME NEW q, NEW T, q.units \in Seq(T), NEW phase
  PROVE  Of(q, phase) \in Seq(T) /\ \A u \in ToSet(Of(q, phase)) : u \in T /\ u.phase = phase
<1> DEFINE S == {u \in ToSet(q.units) : u.phase = phase}
<1>1. Of(q, phase) = Kept(q.units, S)
  BY DEF Of
<1> HIDE DEF S
<1>2. Of(q, phase) \in Seq(T) /\ \A i \in DOMAIN Of(q, phase) : Of(q, phase)[i] \in S
  BY <1>1, KeptIsOfList
<1>3. \A u \in S : u.phase = phase
  BY DEF S
<1> QED
  BY <1>2, <1>3 DEF ToSet

\* What a version's plan is.
LEMMA PlanVersionIs ==
  ASSUME NEW own, Sound(store), Stored(store, own), NEW q, q.st = store, NEW d, NEW no, NEW v \in Recs,
         NEW docLive \in BOOLEAN
  PROVE  LET p == planVersion(q, d, no, v, docLive) IN
         /\ p = [act |-> p.act, prep |-> p.prep, rec |-> v, old |-> p.old]
         /\ p.prep \in BOOLEAN /\ p.rec = v
         /\ p.old \subseteq Keys(own, <<d, no>>) /\ p.old \subseteq Nat
         /\ p.prep => Writes(p.act)
         /\ docLive /\ Writes(p.act) => p.prep
<1> DEFINE x == <<d, no>>
           exists == x \in DOMAIN store.versions
           act == Conflict(q, exists)
           old == IF exists THEN {store.versions[x].key} ELSE {}
           Plan(a, prep) == [act |-> a, prep |-> prep, rec |-> v, old |-> old]
           p == planVersion(q, d, no, v, docLive)
<1>1. old \subseteq Keys(own, x) /\ old \subseteq Nat
  <2>1. \A y \in DOMAIN store.versions : store.versions[y] \in Versions
    BY CellOf
  <2> HIDE DEF x
  <2> QED
    BY <2>1 DEF Stored, Versions
<1>2. act \in {"create", "replace", "skip"}
  BY DEF Conflict
<1>3. \/ p = Plan("missing_dependency", FALSE)
      \/ p = Plan(act, FALSE) /\ (~docLive \/ act = "skip")
      \/ p = Plan("source_unavailable", FALSE)
      \/ p = Plan("rejected", FALSE)
      \/ p = Plan(act, TRUE) /\ act # "skip"
  <2>1. CASE ~agentAvailable(q, v.by)
    BY <2>1 DEF planVersion
  <2>2. CASE agentAvailable(q, v.by) /\ (~docLive \/ act = "skip")
    BY <2>2 DEF planVersion
  <2>3. CASE agentAvailable(q, v.by) /\ docLive /\ act # "skip"
    BY <2>3 DEF planVersion
  <2> QED
    BY <2>1, <2>2, <2>3
<1> HIDE DEF p, act, old
<1>4. Writes(act) \/ act = "skip"
  BY <1>2 DEF Writes
<1>5. ~Writes("missing_dependency") /\ ~Writes("source_unavailable") /\ ~Writes("rejected")
      /\ ~Writes("skip")
  BY DEF Writes
<1>6. \E a : \E prep \in BOOLEAN : /\ p = Plan(a, prep)
                                   /\ prep => Writes(a)
                                   /\ docLive /\ Writes(a) => prep
  BY <1>3, <1>4, <1>5
<1>7. /\ p = [act |-> p.act, prep |-> p.prep, rec |-> v, old |-> p.old]
      /\ p.prep \in BOOLEAN /\ p.rec = v
      /\ p.old = old
      /\ p.prep => Writes(p.act)
      /\ docLive /\ Writes(p.act) => p.prep
  BY <1>6
<1> QED
  BY <1>1, <1>7 DEF p

\* Those of a document's versions.
LEMMA PlanVersionsAre ==
  ASSUME NEW own, Sound(store), Stored(store, own), NEW q, q.st = store, NEW d, NEW vs \in Chapters,
         \A no \in DOMAIN vs : vs[no].key \in Keys(own, <<d, no>>),
         NEW docLive \in BOOLEAN
  PROVE  LET all == planVersions(q, d, vs, docLive)
             some == WritesOf(all)
         IN /\ some \in ItemVersions
            /\ DOMAIN some \subseteq DOMAIN vs
            /\ \A no \in DOMAIN some : /\ some[no].rec.key \in Keys(own, <<d, no>>)
                                       /\ some[no].old \subseteq Keys(own, <<d, no>>)
                                       /\ docLive => some[no].prep
            /\ DOMAIN all = DOMAIN vs
            /\ \A no \in DOMAIN all : all[no].prep => no \in DOMAIN some /\ some[no].prep
<1> DEFINE all == planVersions(q, d, vs, docLive)
           some == WritesOf(all)
<1>1. PICK D \in Numbered : vs \in [D -> Recs]
  BY DEF Chapters
<1>2. DOMAIN all = D /\ \A no \in D : all[no] = planVersion(q, d, no, vs[no], docLive)
  BY <1>1 DEF planVersions
<1>3. ASSUME NEW no \in D
      PROVE  /\ all[no] = [act |-> all[no].act, prep |-> all[no].prep, rec |-> vs[no], old |-> all[no].old]
             /\ all[no].prep \in BOOLEAN /\ all[no].rec = vs[no]
             /\ all[no].old \subseteq Keys(own, <<d, no>>) /\ all[no].old \subseteq Nat
             /\ all[no].prep => Writes(all[no].act)
             /\ docLive /\ Writes(all[no].act) => all[no].prep
  <2>1. vs[no] \in Recs /\ all[no] = planVersion(q, d, no, vs[no], docLive)
    BY <1>1, <1>2
  <2> HIDE DEF all
  <2> QED
    BY <2>1, PlanVersionIs
<1> HIDE DEF all
<1>4. some = [no \in {n \in D : Writes(all[n].act)} |-> all[no]]
  BY <1>2 DEF WritesOf
<1> HIDE DEF some
<1>5. \A no \in DOMAIN some : /\ no \in D /\ Writes(all[no].act) /\ some[no] = all[no]
                              /\ some[no] \in VersionPlans
  <2> SUFFICES ASSUME NEW no \in D, Writes(all[no].act) PROVE all[no] \in VersionPlans
    BY <1>4
  <2>1. all[no].act \in {"create", "replace"}
    BY DEF Writes
  <2>2. vs[no] \in Recs
    BY <1>1
  <2> DEFINE p == all[no]
  <2>3. /\ p = [act |-> p.act, prep |-> p.prep, rec |-> vs[no], old |-> p.old]
        /\ p.act \in {"create", "replace"} /\ p.prep \in BOOLEAN /\ p.old \in SUBSET Nat
    BY <1>3, <2>1
  <2>4. \A a \in {"create", "replace"}, b \in BOOLEAN, c \in Recs, o \in SUBSET Nat :
          [act |-> a, prep |-> b, rec |-> c, old |-> o] \in VersionPlans
    BY DEF VersionPlans
  <2> HIDE DEF p
  <2>5. p \in VersionPlans
    BY <2>2, <2>3, <2>4
  <2> QED
    BY <2>5 DEF p
<1>6. some \in ItemVersions
  <2>1. DOMAIN some \in Numbered
    BY <1>4 DEF Numbered
  <2>2. some \in [DOMAIN some -> VersionPlans]
    BY <1>4, <1>5
  <2> QED
    BY <2>1, <2>2 DEF ItemVersions
<1>7. DOMAIN some \subseteq DOMAIN vs
  BY <1>1, <1>4
<1>8. \A no \in DOMAIN some : some[no].rec = vs[no]
  BY <1>3, <1>5
<1>9. \A no \in DOMAIN some : /\ some[no].rec.key \in Keys(own, <<d, no>>)
                              /\ some[no].old \subseteq Keys(own, <<d, no>>)
                              /\ docLive => some[no].prep
  BY <1>1, <1>3, <1>5, <1>8
<1>10. \A no \in DOMAIN all : all[no].prep => no \in DOMAIN some /\ some[no].prep
  BY <1>2, <1>3, <1>4, <1>5
<1> QED
  BY <1>1, <1>2, <1>6, <1>7, <1>9, <1>10 DEF all, some

\* What a document's plan is.
LEMMA PlanDocumentIs ==
  ASSUME NEW own, Sound(store), Stored(store, own), NEW q, q.st = store,
         NEW u \in UnitsOf(own), u.phase = "documents", NEW held
  PROVE  LET p == planDocument(q, u, held) IN
         /\ p.id = u.id
         /\ Writes(p.act) =>
              /\ ~(u.id \in Docs /\ ~q.replace)
              /\ DocumentItem(p) \in ItemsOf(own)
              /\ p.row.slug \notin DOMAIN store.slug_tombstones
         /\ p.act = "skip" =>
              /\ u.id \in Docs /\ ~q.replace
              /\ VersionsItem(q, u.id, p.versions) \in ItemsOf(own)
<1> DEFINE d == u.id
           exists == d \in DOMAIN q.st.documents
           act == Conflict(q, exists)
           versions == planVersions(q, d, u.versions, u.row.live)
           later == planVersions(q, d, u.versions, q.st.documents[d].live)
           extra == {x \in VersionsOf(q.st, d) : x[2] \notin DOMAIN u.versions}
           keys == {q.st.versions[x].key : x \in extra}
           Row(slug) == [u.row EXCEPT !.slug = slug]
           Plan(a, slug, vs) == [act |-> a, id |-> d, row |-> Row(slug), versions |-> vs,
                                 extra |-> extra, extraKeys |-> keys]
           p == planDocument(q, u, held)
           whole == u.row.live => \A n \in Needs(u.row) : n \in DOMAIN versions /\ versions[n].prep
<1>1. /\ u.row \in Columns("documents") /\ WholeRow(u.row) /\ d \in Nat \ {0}
      /\ u.versions \in Chapters /\ u.row.live \in BOOLEAN
      /\ \A no \in DOMAIN u.versions : u.versions[no].key \in Keys(own, <<d, no>>)
  <2>1. u.row \in Columns("documents") /\ WholeRow(u.row) /\ d \in Nat \ {0}
        /\ u.versions \in Chapters
        /\ \A no \in DOMAIN u.versions : u.versions[no].key \in Keys(own, <<d, no>>)
    BY DEF UnitsOf, IsUnit, FileUnits
  <2> QED
    BY <2>1 DEF Columns
<1>2. \/ p = Plan("rejected", 0, Empty)
      \/ p = Plan("missing_dependency", 0, Empty)
      \/ p = Plan("skip", 0, later) /\ act = "skip"
      \/ p = Plan(act, SlugFor(q, u, held), versions) /\ act # "skip" /\ whole
  <2> DEFINE bad == \/ exists /\ q.st.documents[d].pid # u.row.pid
                    \/ \E e \in DOMAIN q.st.documents \ {d} : q.st.documents[e].pid = u.row.pid
  <2>1. CASE bad
    BY <2>1 DEF planDocument
  <2>2. CASE ~bad
    <3>1. p = IF ~agentAvailable(q, u.row.by) THEN Plan("missing_dependency", 0, Empty)
              ELSE IF act = "skip" THEN Plan("skip", 0, later)
              ELSE IF u.row.live /\ \E n \in Needs(u.row) :
                        n \notin DOMAIN versions \/ ~versions[n].prep
              THEN Plan("rejected", 0, Empty)
              ELSE Plan(act, SlugFor(q, u, held), versions)
      BY <2>2 DEF planDocument
    <3> HIDE DEF p, Plan, later, versions, act
    <3> QED
      BY <3>1
  <2> QED
    BY <2>1, <2>2
<1>3. act \in {"create", "replace", "skip"} /\ (act = "skip" <=> exists /\ ~q.replace)
  BY DEF Conflict
<1>4. ~Writes("rejected") /\ ~Writes("missing_dependency") /\ ~Writes("skip")
  BY DEF Writes
<1>5. /\ WritesOf(versions) \in ItemVersions
      /\ DOMAIN WritesOf(versions) \subseteq DOMAIN u.versions
      /\ \A no \in DOMAIN WritesOf(versions) :
           /\ WritesOf(versions)[no].rec.key \in Keys(own, <<d, no>>)
           /\ WritesOf(versions)[no].old \subseteq Keys(own, <<d, no>>)
      /\ \A no \in DOMAIN versions : versions[no].prep =>
           no \in DOMAIN WritesOf(versions) /\ WritesOf(versions)[no].prep
  <2> HIDE DEF d
  <2> QED
    BY <1>1, PlanVersionsAre
<1>6. ASSUME d \in Docs
      PROVE  /\ WritesOf(later) \in ItemVersions
             /\ \A no \in DOMAIN WritesOf(later) :
                  /\ WritesOf(later)[no].rec.key \in Keys(own, <<d, no>>)
                  /\ WritesOf(later)[no].old \subseteq Keys(own, <<d, no>>)
                  /\ store.documents[d].live => WritesOf(later)[no].prep
             /\ store.documents[d].live \in BOOLEAN
  <2>1. store.documents[d].live \in BOOLEAN
    <3>1. store.documents[d] \in Columns("documents")
      BY <1>6, CellOf DEF Docs
    <3> QED
      BY <3>1 DEF Columns
  <2> HIDE DEF d
  <2> QED
    BY <1>1, <2>1, PlanVersionsAre
<1> HIDE DEF versions, later, act
<1>7. /\ extra \subseteq Nat \X Nat /\ keys \subseteq Nat
      /\ \A x \in extra : x[1] = d /\ x[2] \notin DOMAIN u.versions
      /\ \A k \in keys : \E x \in extra : k \in Keys(own, x)
  <2>1. \A x \in DOMAIN store.versions : /\ x \in Nat \X Nat /\ store.versions[x].key \in Nat
                                         /\ store.versions[x].key \in Keys(own, x)
    <3>1. DOMAIN store.versions \subseteq (DOMAIN store.documents) \X (Nat \ {0})
      BY DEF Sound, VersionsFit
    <3>2. DOMAIN store.documents \subseteq Nat
      BY PhasesAre DEF Sound, Shaped
    <3>3. \A x \in DOMAIN store.versions : store.versions[x] \in Versions
      BY CellOf
    <3> QED
      BY <3>1, <3>2, <3>3 DEF Versions, Stored
  <2> QED
    BY <2>1 DEF VersionsOf
<1> HIDE DEF extra, keys
<1>8. CASE p = Plan("rejected", 0, Empty) \/ p = Plan("missing_dependency", 0, Empty)
  <2>1. p.id = d /\ p.act \in {"rejected", "missing_dependency"}
    BY <1>8
  <2> QED
    BY <1>4, <2>1
<1>9. CASE p = Plan("skip", 0, later) /\ act = "skip"
  <2>1. p.id = d /\ p.act = "skip" /\ p.versions = later
    BY <1>9
  <2>2. d \in Docs /\ ~q.replace
    BY <1>3, <1>9 DEF Docs
  <2> DEFINE item == VersionsItem(q, d, later)
  <2>3. item = [kind |-> "versions", id |-> d, versions |-> WritesOf(later), extra |-> {},
                extraKeys |-> {}, live |-> store.documents[d].live]
    BY DEF VersionsItem
  <2> HIDE DEF item
  <2>4. item \in LooseItems
    BY <1>1, <1>6, <2>2, <2>3 DEF LooseItems
  <2>5. ItsOwn(item, own) /\ (item.live => \A no \in DOMAIN item.versions : item.versions[no].prep)
    BY <1>6, <2>2, <2>3 DEF ItsOwn
  <2>6. item \in ItemsOf(own)
    BY <2>4, <2>5 DEF ItemsOf
  <2> QED
    BY <1>4, <2>1, <2>2, <2>6 DEF item
<1>10. CASE p = Plan(act, SlugFor(q, u, held), versions) /\ act # "skip" /\ whole
  <2> DEFINE slug == SlugFor(q, u, held)
  <2>1. slug \in {0, u.row.slug} /\ slug \notin DOMAIN store.slug_tombstones
    <3>1. 0 \notin DOMAIN store.slug_tombstones
      BY PhasesAre DEF Sound, Shaped
    <3> QED
      BY <3>1 DEF SlugFor
  <2> HIDE DEF slug
  <2> DEFINE row == Row(slug)
  <2>2. /\ p.id = d /\ p.act = act /\ p.versions = versions /\ p.row = row
        /\ p.extra = extra /\ p.extraKeys = keys
    BY <1>10 DEF slug
  <2>3. row \in Columns("documents") /\ row.slug = slug /\ row.live = u.row.live
        /\ row.cur = u.row.cur /\ row.pub = u.row.pub
    <3>1. slug \in Nat
      BY <1>1, <2>1 DEF Columns
    <3>2. row \in Columns("documents")
      BY <1>1, <3>1 DEF Columns
    <3>3. row.slug = slug /\ row.live = u.row.live /\ row.cur = u.row.cur /\ row.pub = u.row.pub
      BY <1>1 DEF Columns
    <3> HIDE DEF row
    <3> QED
      BY <3>2, <3>3
  <2> HIDE DEF row
  <2> DEFINE item == DocumentItem(p)
  <2>4. item = [kind |-> "documents", id |-> d, row |-> row, versions |-> WritesOf(versions),
                extra |-> extra, extraKeys |-> keys]
    BY <2>2 DEF DocumentItem
  <2> HIDE DEF item
  <2>5. item \in DocumentItems
    BY <1>1, <1>5, <1>7, <2>3, <2>4 DEF DocumentItems
  <2>6. ItsOwn(item, own)
    BY <1>5, <1>7, <2>4 DEF ItsOwn
  <2>7. Renderable(item)
    <3>1. WholeRow(row)
      BY <1>1, <2>1, <2>3 DEF WholeRow
    <3>2. Needs(row) = Needs(u.row)
      BY <2>3 DEF Needs
    <3> QED
      BY <1>5, <1>10, <2>3, <2>4, <3>1, <3>2 DEF Renderable
  <2>8. item \in ItemsOf(own)
    BY <2>5, <2>6, <2>7 DEF ItemsOf
  <2>9. ~(d \in Docs /\ ~q.replace)
    BY <1>3, <1>10 DEF Docs
  <2> QED
    BY <1>3, <1>10, <2>1, <2>2, <2>3, <2>8, <2>9 DEF item
<1> QED
  BY <1>2, <1>8, <1>9, <1>10

\* Every plan on a page is some document's, given the names earlier ones took.
ArePlans(list, q, U) ==
  \E T : /\ list \in Seq(T)
         /\ \A p \in T : \E u \in U : \E held : u.phase = "documents" /\ p = planDocument(q, u, held)

\* The plans of a page are plans of its documents.
LEMMA PlansAre ==
  ASSUME NEW q, NEW U, q.units \in Seq(U)
  PROVE  ArePlans(planDocuments(q), q, U)
<1> DEFINE docs == Of(q, "documents")
           N == Len(docs)
           Step(f, k) == Append(f[k - 1], planDocument(q, docs[k], HeldBy(f[k - 1])))
           Is(f, n) == f = [k \in 0..n |-> IF k = 0 THEN <<>> ELSE Step(f, k)]
           S == {n \in Nat : \E f : Is(f, n)}
<1>1. docs \in Seq(U) /\ \A u \in ToSet(docs) : u \in U /\ u.phase = "documents"
  BY OfIsOfList
<1>2. N \in Nat
  BY <1>1
<1> HIDE DEF docs, N
<1>3. 0 \in S
  <2> DEFINE f == [k \in 0..0 |-> <<>>]
  <2>1. f = [k \in 0..0 |-> IF k = 0 THEN <<>> ELSE Step(f, k)]
    OBVIOUS
  <2> QED
    BY <2>1
<1>4. ASSUME NEW n \in Nat, n \in S PROVE n + 1 \in S
  <2>1. PICK f : Is(f, n)
    BY <1>4
  <2> DEFINE g == [k \in 0..n + 1 |-> IF k = n + 1 THEN Append(f[n], planDocument(q, docs[n + 1], HeldBy(f[n])))
                                      ELSE f[k]]
  <2>2. \A k \in 0..n : g[k] = f[k]
    OBVIOUS
  <2>3. ASSUME NEW k \in 0..n + 1 PROVE g[k] = IF k = 0 THEN <<>> ELSE Step(g, k)
    <3>1. CASE k = n + 1
      <4>1. g[k] = Append(f[n], planDocument(q, docs[n + 1], HeldBy(f[n])))
        BY <3>1
      <4>2. g[k - 1] = f[n] /\ k # 0
        BY <3>1, <2>2
      <4> HIDE DEF g
      <4> QED
        BY <3>1, <4>1, <4>2
    <3>2. CASE k \in 1..n
      <4>1. g[k] = f[k] /\ g[k - 1] = f[k - 1] /\ k # 0
        BY <2>2, <3>2
      <4>2. f[k] = Step(f, k)
        <5>1. k \in 0..n /\ k # 0
          BY <3>2
        <5>2. f[k] = IF k = 0 THEN <<>> ELSE Step(f, k)
          BY <2>1, <5>1, Zenon
        <5> QED
          BY <5>1, <5>2, Zenon
      <4> HIDE DEF g
      <4> QED
        BY <4>1, <4>2
    <3>3. CASE k = 0
      <4>1. g[0] = f[0] /\ f[0] = <<>>
        BY <2>1, <2>2
      <4> QED
        BY <3>3, <4>1
    <3> QED
      BY <3>1, <3>2, <3>3
  <2>4. g = [k \in 0..n + 1 |-> g[k]]
    OBVIOUS
  <2> HIDE DEF g
  <2>5. Is(g, n + 1)
    BY <2>3, <2>4
  <2> HIDE DEF Is
  <2> QED
    BY <2>5
<1>5. N \in S
  <2> HIDE DEF S
  <2> QED
    BY <1>2, <1>3, <1>4, Inductive
<1> DEFINE plans == CHOOSE f : Is(f, N)
<1>6. Is(plans, N)
  BY <1>5
<1>7. planDocuments(q) = plans[N]
  BY DEF planDocuments, docs, N
<1> HIDE DEF plans
<1> DEFINE T == {planDocument(q, docs[k], HeldBy(plans[k - 1])) : k \in 1..N}
           R == {n \in Nat : n <= N => plans[n] \in Seq(T)}
<1>8. 0 \in R
  <2>1. plans[0] = <<>>
    <3>1. 0 \in 0..N
      BY <1>2
    <3>2. plans[0] = IF 0 = 0 THEN <<>> ELSE Step(plans, 0)
      BY <1>6, <3>1, Zenon
    <3> QED
      BY <3>2
  <2> HIDE DEF T
  <2>2. <<>> \in Seq(T)
    OBVIOUS
  <2> QED
    BY <2>1, <2>2
<1>9. ASSUME NEW n \in Nat, n \in R PROVE n + 1 \in R
  <2> SUFFICES ASSUME n + 1 <= N PROVE plans[n + 1] \in Seq(T)
    OBVIOUS
  <2>1. plans[n] \in Seq(T)
    BY <1>2, <1>9
  <2>2. plans[n + 1] = Append(plans[n], planDocument(q, docs[n + 1], HeldBy(plans[n])))
    <3>1. n + 1 \in 0..N /\ n + 1 # 0 /\ n + 1 - 1 = n
      BY <1>2
    <3>2. plans[n + 1] = IF n + 1 = 0 THEN <<>> ELSE Step(plans, n + 1)
      BY <1>6, <3>1, Zenon
    <3>3. plans[n + 1] = Step(plans, n + 1)
      BY <3>1, <3>2, Zenon
    <3> QED
      BY <3>1, <3>3
  <2>3. planDocument(q, docs[n + 1], HeldBy(plans[n])) \in T
    <3>1. n + 1 \in 1..N /\ n = (n + 1) - 1
      BY <1>2
    <3> QED
      BY <3>1
  <2> HIDE DEF T
  <2> QED
    BY <2>1, <2>2, <2>3
<1>10. plans[N] \in Seq(T)
  <2>1. N \in R
    <3> HIDE DEF R
    <3> QED
      BY <1>2, <1>8, <1>9, Inductive
  <2> HIDE DEF T
  <2> QED
    BY <1>2, <2>1
<1>11. \A p \in T : \E u \in U : \E held : u.phase = "documents" /\ p = planDocument(q, u, held)
  <2>1. \A k \in 1..N : docs[k] \in U /\ docs[k].phase = "documents"
    BY <1>1, <1>2 DEF ToSet, N
  <2> QED
    BY <2>1
<1> HIDE DEF T
<1> QED
  BY <1>7, <1>10, <1>11 DEF ArePlans

\* g joins ever more of the runs in s.
Flat(g, s) ==
  /\ DOMAIN g = 1..Len(s)
  /\ \A i \in 1..Len(s) : g[i] = IF i = 1 THEN s[i] ELSE g[i - 1] \o s[i]

\* One run after another is a run, however many there are.
LEMMA FlatOf ==
  ASSUME NEW T, NEW s \in Seq(Seq(T))
  PROVE  \E g : /\ Flat(g, s) /\ \A i \in 1..Len(s) : g[i] \in Seq(T)
                /\ FlattenSeq(s) = IF s = <<>> THEN <<>> ELSE g[Len(s)]
<1> DEFINE N == Len(s)
           Is(g, n) == g = [i \in 1..n |-> IF i = 1 THEN s[i] ELSE g[i - 1] \o s[i]]
           S == {n \in Nat : \E g : Is(g, n)}
<1>1. N \in Nat /\ \A i \in 1..N : s[i] \in Seq(T)
  OBVIOUS
<1>2. FlattenSeq(s) = IF N = 0 THEN s ELSE (CHOOSE g : Is(g, N))[N]
  BY DEF FlattenSeq
<1>0. (N = 0 <=> s = <<>>) /\ N = Len(s)
  OBVIOUS
<1> HIDE DEF N
<1>3. 0 \in S
  <2> DEFINE g == [i \in 1..0 |-> <<>>]
  <2>1. g = [i \in 1..0 |-> IF i = 1 THEN s[i] ELSE g[i - 1] \o s[i]]
    OBVIOUS
  <2> QED
    BY <2>1
<1>4. ASSUME NEW n \in Nat, n \in S PROVE n + 1 \in S
  <2>1. PICK g : Is(g, n)
    BY <1>4
  <2> DEFINE h == [i \in 1..n + 1 |-> IF i = n + 1 THEN (IF n = 0 THEN s[1] ELSE g[n] \o s[n + 1]) ELSE g[i]]
  <2>2. \A i \in 1..n : h[i] = g[i]
    OBVIOUS
  <2>3. ASSUME NEW i \in 1..n + 1 PROVE h[i] = IF i = 1 THEN s[i] ELSE h[i - 1] \o s[i]
    <3>1. CASE i = n + 1 /\ n = 0
      BY <3>1
    <3>2. CASE i = n + 1 /\ n # 0
      <4>0. i = n + 1 /\ n # 0 /\ i # 1
        BY <3>2
      <4>1. h[i] = g[n] \o s[n + 1] /\ i # 1
        BY <4>0, Zenon
      <4>2. h[i - 1] = g[n]
        BY <3>2, <2>2
      <4> HIDE DEF h
      <4> QED
        BY <3>2, <4>1, <4>2
    <3>3. CASE i \in 1..n
      <4>1. h[i] = g[i] /\ (i # 1 => h[i - 1] = g[i - 1])
        BY <2>2, <3>3
      <4>2. g[i] = IF i = 1 THEN s[i] ELSE g[i - 1] \o s[i]
        BY <2>1, <3>3
      <4> HIDE DEF h
      <4> QED
        BY <4>1, <4>2
    <3> QED
      BY <3>1, <3>2, <3>3
  <2>4. h = [i \in 1..n + 1 |-> h[i]]
    OBVIOUS
  <2> HIDE DEF h
  <2>5. Is(h, n + 1)
    BY <2>3, <2>4
  <2> HIDE DEF Is
  <2> QED
    BY <2>5
<1>5. N \in S
  <2> HIDE DEF S
  <2> QED
    BY <1>1, <1>3, <1>4, Inductive
<1> DEFINE flat == CHOOSE g : Is(g, N)
<1>6. Is(flat, N)
  <2>1. \E g : Is(g, N)
    BY <1>5
  <2> HIDE DEF Is
  <2> QED
    BY <2>1
<1>m. FlattenSeq(s) = IF s = <<>> THEN <<>> ELSE flat[N]
  BY <1>0, <1>2
<1> HIDE DEF flat
<1>f. DOMAIN flat = 1..N /\ \A i \in 1..N : flat[i] = IF i = 1 THEN s[i] ELSE flat[i - 1] \o s[i]
  <2>1. DOMAIN flat = 1..N
    BY <1>6
  <2>2. ASSUME NEW i \in 1..N PROVE flat[i] = IF i = 1 THEN s[i] ELSE flat[i - 1] \o s[i]
    BY <1>6, Zenon
  <2> QED
    BY <2>1, <2>2
<1> DEFINE R == {n \in Nat : n \in 1..N => flat[n] \in Seq(T)}
<1>7. 0 \in R
  OBVIOUS
<1>8. ASSUME NEW n \in Nat, n \in R PROVE n + 1 \in R
  <2> SUFFICES ASSUME n + 1 <= N PROVE flat[n + 1] \in Seq(T)
    OBVIOUS
  <2>1. flat[n + 1] = IF n + 1 = 1 THEN s[n + 1] ELSE flat[n + 1 - 1] \o s[n + 1]
    <3>1. n + 1 \in 1..N
      BY <1>1
    <3>2. \A i \in 1..N : flat[i] = IF i = 1 THEN s[i] ELSE flat[i - 1] \o s[i]
      BY <1>f
    <3> HIDE DEF R
    <3> QED
      BY <3>1, <3>2
  <2>2. s[n + 1] \in Seq(T)
    BY <1>1
  <2>3. CASE n = 0
    BY <2>1, <2>2, <2>3
  <2>4. CASE n # 0
    <3>1. flat[n] \in Seq(T) /\ n + 1 # 1 /\ n + 1 - 1 = n
      BY <1>1, <1>8, <2>4
    <3> QED
      BY <2>1, <2>2, <3>1
  <2> QED
    BY <2>3, <2>4
<1>9. \A n \in Nat : n \in R
  <2> HIDE DEF R
  <2> QED
    BY <1>1, <1>7, <1>8, Inductive
<1>10. \A i \in 1..N : flat[i] \in Seq(T)
  <2>1. \A i \in 1..N : i \in Nat
    BY <1>1
  <2> QED
    BY <2>1, <1>9
<1>11. Flat(flat, s)
  BY <1>f, <1>0 DEF Flat
<1> QED
  BY <1>0, <1>m, <1>10, <1>11

\* The units of a file are those of its pages.
LEMMA UnitsAre ==
  ASSUME NEW T, NEW f, f.pages \in Seq(Seq(T))
  PROVE  Units(f) \in Seq(T)
<1> DEFINE s == f.pages
<1>0. s \in Seq(Seq(T)) /\ Units(f) = FlattenSeq(s)
  BY DEF Units
<1> HIDE DEF s
<1>1. PICK g : /\ \A i \in 1..Len(s) : g[i] \in Seq(T)
               /\ FlattenSeq(s) = IF s = <<>> THEN <<>> ELSE g[Len(s)]
  BY <1>0, FlatOf
<1>2. CASE s = <<>>
  BY <1>0, <1>1, <1>2
<1>3. CASE s # <<>>
  <2>1. Len(s) \in 1..Len(s)
    BY <1>0, <1>3
  <2> QED
    BY <1>0, <1>1, <1>3, <2>1
<1> QED
  BY <1>2, <1>3

\* What a plan promises of the database it was made from.
Promised(items) ==
  \A i \in DOMAIN items : LET item == items[i] IN
    /\ item.kind = "versions" =>
         /\ item.id \in Docs /\ item.live = store.documents[item.id].live
         /\ \A k \in DOMAIN items : items[k].kind = "documents" => items[k].id # item.id
    /\ item.kind = "documents" => item.row.slug \notin DOMAIN store.slug_tombstones
    /\ item.kind = "slug_tombstones" =>
         /\ Holders(store, item.id) = {}
         /\ \A k \in DOMAIN items : items[k].kind = "documents" => items[k].row.slug # item.id

\* A row to be applied.
LEMMA RowItemIs ==
  ASSUME NEW own, NEW u \in UnitsOf(own), u.phase # "documents"
  PROVE  /\ RowItem(u) \in ItemsOf(own) /\ RowItem(u).kind = u.phase /\ RowItem(u).id = u.id
         /\ u.phase = "slug_tombstones" => \A doc \in Nat :
              /\ [RowItem(u) EXCEPT !.row.doc = doc] \in ItemsOf(own)
              /\ [RowItem(u) EXCEPT !.row.doc = doc].kind = u.phase
              /\ [RowItem(u) EXCEPT !.row.doc = doc].id = u.id
         /\ u.id \in Nat \ {0} /\ u.row \in Columns(u.phase)
<1>1. u.phase \in Phases \ {"documents"} /\ u.id \in Nat \ {0} /\ u.row \in Columns(u.phase)
      /\ u.phase # "versions"
  BY PhasesAre DEF UnitsOf, IsUnit, FileUnits
<1>2. RowItem(u) = [kind |-> u.phase, id |-> u.id, row |-> u.row]
  BY DEF RowItem
<1>3. ASSUME NEW row \in Columns(u.phase)
      PROVE  [kind |-> u.phase, id |-> u.id, row |-> row] \in ItemsOf(own)
  <2>1. [kind |-> u.phase, id |-> u.id, row |-> row] \in RowItems
    BY <1>1 DEF RowItems, Rows
  <2> QED
    BY <2>1 DEF ItemsOf
<1>4. ASSUME u.phase = "slug_tombstones", NEW doc \in Nat
      PROVE  /\ [RowItem(u) EXCEPT !.row.doc = doc]
                  = [kind |-> u.phase, id |-> u.id, row |-> [u.row EXCEPT !.doc = doc]]
             /\ [u.row EXCEPT !.doc = doc] \in Columns(u.phase)
  <2>1. [u.row EXCEPT !.doc = doc] \in Columns(u.phase)
    BY <1>1, <1>4 DEF Columns
  <2> QED
    BY <1>2, <2>1
<1> QED
  BY <1>1, <1>2, <1>3, <1>4

\* What a plan applies is well formed, and the plan keeps its promises.
LEMMA ItemsAre ==
  ASSUME NEW own, Sound(store), Stored(store, own), NEW q, q.st = store,
         NEW U \in {UnitsOf(own), LooseOf(own)}, q.units \in Seq(U)
  PROVE  Items(q) \in Seq(ItemsOf(own)) /\ Promised(Items(q))
<1>0. PICK T : /\ planDocuments(q) \in Seq(T)
               /\ \A p \in T : \E u \in U : \E h : /\ u.phase = "documents"
                                                   /\ p = planDocument(q, u, h)
  <2>1. ArePlans(planDocuments(q), q, U)
    BY PlansAre
  <2> QED
    BY <2>1 DEF ArePlans
<1> DEFINE docs == planDocuments(q)
           held == HeldBy(docs)
           loose == U = LooseOf(own) /\ U # {}
           RowsOk == {i \in ItemsOf(own) : i.kind \in {"agents", "agent_keys", "oauth_clients"}}
           DocsOk == {i \in ItemsOf(own) :
                        /\ i.kind = "documents" /\ ~loose /\ ~(i.id \in Docs /\ ~q.replace)
                        /\ i.row.slug \in held \union {0}
                        /\ i.row.slug \notin DOMAIN store.slug_tombstones}
           VersOk == {i \in ItemsOf(own) :
                        /\ i.kind = "versions" /\ i.id \in Docs
                        /\ i.live = store.documents[i.id].live /\ (loose \/ ~q.replace)}
           TombsOk == {i \in ItemsOf(own) :
                        /\ i.kind = "slug_tombstones" /\ Holders(store, i.id) = {}
                        /\ i.id \notin held \union {0}}
           P == RowsOk \union DocsOk \union VersOk \union TombsOk
           RowsOf(phase) == LET of == Of(q, phase)
                                written == Kept(of, {u \in ToSet(of) : Writes(RowPlan(q, u))})
                            IN [i \in DOMAIN written |-> RowItem(written[i])]
           stones == Of(q, "slug_tombstones")
           units == Kept(docs, {p \in ToSet(docs) : Writes(p.act)})
           gaining == Kept(docs, {p \in ToSet(docs) : p.act = "skip" /\ WritesOf(p.versions) # Empty})
           lone == Kept(Of(q, "versions"), {u \in ToSet(q.units) : u.id \in DOMAIN q.st.documents})
           tombs == Kept(stones, {u \in ToSet(stones) : Writes(planTombstone(q, u))})
           known == DOMAIN q.st.documents \union Ids(q, "documents")
           Tomb(u) == [RowItem(u) EXCEPT !.row.doc = IF @ \in known THEN @ ELSE 0]
           A == [i \in DOMAIN units |-> DocumentItem(units[i])]
           B == [i \in DOMAIN lone |-> VersionsItem(q, lone[i].id, planLoose(q, lone[i]))]
           C == [i \in DOMAIN gaining |-> VersionsItem(q, gaining[i].id, gaining[i].versions)]
           D == [i \in DOMAIN tombs |-> Tomb(tombs[i])]
<1>1. Items(q) = RowsOf("agents") \o RowsOf("agent_keys") \o RowsOf("oauth_clients") \o A \o B \o C \o D
  BY DEF Items
<1>2. ASSUME NEW u \in U
      PROVE  /\ u.phase = "versions" => loose /\ u \in LooseOf(own)
             /\ u.phase # "versions" => ~loose /\ u \in UnitsOf(own)
  <2>1. CASE U = UnitsOf(own)
    <3>1. u \in UnitsOf(own) /\ u.phase # "versions" /\ u.phase \in Phases
      BY <2>1, PhasesAre DEF UnitsOf
    <3>2. u \notin LooseOf(own)
      BY <3>1 DEF LooseOf
    <3> QED
      BY <3>1, <3>2
  <2>2. CASE U = LooseOf(own)
    <3>1. u \in LooseOf(own) /\ u.phase = "versions"
      BY <2>2 DEF LooseOf
    <3> QED
      BY <2>2, <3>1
  <2> QED
    BY <2>1, <2>2
<1> HIDE DEF loose
<1>3. ASSUME NEW phase \in {"agents", "agent_keys", "oauth_clients"}
      PROVE  RowsOf(phase) \in Seq(P)
  <2> DEFINE of == Of(q, phase)
             written == Kept(of, {u \in ToSet(of) : Writes(RowPlan(q, u))})
  <2>1. of \in Seq(U) /\ \A u \in ToSet(of) : u \in U /\ u.phase = phase
    BY OfIsOfList
  <2>2. written \in Seq(U) /\ \A i \in DOMAIN written : written[i] \in ToSet(of)
    <3> DEFINE S == {u \in ToSet(of) : Writes(RowPlan(q, u))}
    <3>1. \A u \in S : u \in ToSet(of)
      OBVIOUS
    <3> HIDE DEF S, of
    <3>2. Kept(of, S) \in Seq(U) /\ \A i \in DOMAIN Kept(of, S) : Kept(of, S)[i] \in S
      BY <2>1, KeptIsOfList
    <3> QED
      BY <3>1, <3>2 DEF S
  <2> HIDE DEF of, written
  <2>3. \A i \in DOMAIN written : RowItem(written[i]) \in RowsOk
    <3> SUFFICES ASSUME NEW i \in DOMAIN written PROVE RowItem(written[i]) \in RowsOk
      OBVIOUS
    <3> DEFINE u == written[i]
    <3>1. u \in UnitsOf(own) /\ u.phase = phase
      BY <1>2, <2>1, <2>2
    <3> HIDE DEF u
    <3>2. RowItem(u) \in ItemsOf(own) /\ RowItem(u).kind = phase
      BY <3>1, RowItemIs
    <3> QED
      BY <3>2 DEF u
  <2>4. RowsOf(phase) = [i \in DOMAIN written |-> RowItem(written[i])]
    BY DEF written, of
  <2> HIDE DEF RowsOk, DocsOk, VersOk, TombsOk
  <2>5. \A i \in DOMAIN written : RowItem(written[i]) \in P
    BY <2>3
  <2> HIDE DEF P, RowsOf
  <2> QED
    BY <2>2, <2>4, <2>5
<1>4. docs \in Seq(T)
  BY <1>0
<1> HIDE DEF docs
<1>5. A \in Seq(P)
  <2> DEFINE S == {p \in ToSet(docs) : Writes(p.act)}
  <2>1. units \in Seq(T) /\ \A i \in DOMAIN units : units[i] \in S
    <3> HIDE DEF S
    <3>1. Kept(docs, S) \in Seq(T) /\ \A i \in DOMAIN Kept(docs, S) : Kept(docs, S)[i] \in S
      BY <1>4, KeptIsOfList
    <3> QED
      BY <3>1 DEF S
  <2>2. ASSUME NEW i \in DOMAIN units PROVE DocumentItem(units[i]) \in DocsOk
    <3> DEFINE p == units[i]
    <3>1. p \in T /\ p \in ToSet(docs) /\ Writes(p.act)
      BY <2>1
    <3> HIDE DEF p, units
    <3>2. PICK u \in U : \E h : u.phase = "documents" /\ p = planDocument(q, u, h)
      BY <1>0, <3>1
    <3>3. PICK h : u.phase = "documents" /\ p = planDocument(q, u, h)
      BY <3>2
    <3>4. ~loose /\ u \in UnitsOf(own)
      BY <1>2, <3>3
    <3>5. /\ p.id = u.id /\ ~(u.id \in Docs /\ ~q.replace) /\ DocumentItem(p) \in ItemsOf(own)
          /\ p.row.slug \notin DOMAIN store.slug_tombstones
      BY <3>1, <3>3, <3>4, PlanDocumentIs
    <3>6. p.row.slug \in held \union {0}
      BY <3>1 DEF HeldBy
    <3>7. DocumentItem(p).kind = "documents" /\ DocumentItem(p).id = p.id
          /\ DocumentItem(p).row = p.row
      BY DEF DocumentItem
    <3> HIDE DEF held
    <3> QED
      BY <3>4, <3>5, <3>6, <3>7 DEF p
  <2> HIDE DEF units, DocsOk, VersOk, TombsOk, RowsOk
  <2>3. \A i \in DOMAIN units : DocumentItem(units[i]) \in P
    BY <2>2
  <2> HIDE DEF P
  <2> QED
    BY <2>1, <2>3
<1>6. C \in Seq(P)
  <2> DEFINE S == {p \in ToSet(docs) : p.act = "skip" /\ WritesOf(p.versions) # Empty}
  <2>1. gaining \in Seq(T) /\ \A i \in DOMAIN gaining : gaining[i] \in S
    <3> HIDE DEF S
    <3>1. Kept(docs, S) \in Seq(T) /\ \A i \in DOMAIN Kept(docs, S) : Kept(docs, S)[i] \in S
      BY <1>4, KeptIsOfList
    <3> QED
      BY <3>1 DEF S
  <2>2. ASSUME NEW i \in DOMAIN gaining
        PROVE  VersionsItem(q, gaining[i].id, gaining[i].versions) \in VersOk
    <3> DEFINE p == gaining[i]
    <3>1. p \in T /\ p.act = "skip"
      BY <2>1
    <3> HIDE DEF p, gaining
    <3>2. PICK u \in U : \E h : u.phase = "documents" /\ p = planDocument(q, u, h)
      BY <1>0, <3>1
    <3>3. PICK h : u.phase = "documents" /\ p = planDocument(q, u, h)
      BY <3>2
    <3>4. u \in UnitsOf(own)
      BY <1>2, <3>3
    <3>5. /\ p.id = u.id /\ u.id \in Docs /\ ~q.replace
          /\ VersionsItem(q, p.id, p.versions) \in ItemsOf(own)
      BY <3>1, <3>3, <3>4, PlanDocumentIs
    <3>6. /\ VersionsItem(q, p.id, p.versions).kind = "versions"
          /\ VersionsItem(q, p.id, p.versions).id = p.id
          /\ VersionsItem(q, p.id, p.versions).live = store.documents[p.id].live
      BY DEF VersionsItem
    <3> QED
      BY <3>5, <3>6 DEF p
  <2> HIDE DEF gaining, DocsOk, VersOk, TombsOk, RowsOk
  <2>3. \A i \in DOMAIN gaining : VersionsItem(q, gaining[i].id, gaining[i].versions) \in P
    BY <2>2
  <2> HIDE DEF P
  <2> QED
    BY <2>1, <2>3
<1>7. B \in Seq(P)
  <2> DEFINE S == {u \in ToSet(q.units) : u.id \in DOMAIN q.st.documents}
             of == Of(q, "versions")
  <2>1. of \in Seq(U) /\ \A u \in ToSet(of) : u.phase = "versions"
    BY OfIsOfList
  <2> DEFINE V == {u \in U : u.phase = "versions"}
  <2>2. of \in Seq(V)
    <3> HIDE DEF of
    <3> QED
      BY <2>1 DEF ToSet
  <2>3. lone \in Seq(V) /\ \A i \in DOMAIN lone : lone[i] \in S
    <3> HIDE DEF S, of, V
    <3>1. Kept(of, S) \in Seq(V) /\ \A i \in DOMAIN Kept(of, S) : Kept(of, S)[i] \in S
      BY <2>2, KeptIsOfList
    <3> QED
      BY <3>1 DEF S, of
  <2>4. ASSUME NEW i \in DOMAIN lone
        PROVE  VersionsItem(q, lone[i].id, planLoose(q, lone[i])) \in VersOk
    <3> DEFINE u == lone[i]
    <3>1. u \in U /\ u.phase = "versions" /\ u.id \in Docs
      BY <2>3 DEF Docs
    <3> HIDE DEF u, lone
    <3>2. loose /\ u \in LooseOf(own)
      BY <1>2, <3>1
    <3>3. /\ u.id \in Nat \ {0} /\ u.versions \in Chapters
          /\ \A no \in DOMAIN u.versions : u.versions[no].key \in Keys(own, <<u.id, no>>)
      BY <3>2 DEF LooseOf, IsUnit, FileUnits
    <3> DEFINE live == store.documents[u.id].live
               plan == planVersions(q, u.id, u.versions, live)
    <3>4. live \in BOOLEAN
      <4>1. store.documents[u.id] \in Columns("documents")
        BY <3>1, CellOf DEF Docs
      <4> QED
        BY <4>1 DEF Columns
    <3>5. planLoose(q, u) = plan
      BY <3>1 DEF planLoose, Docs
    <3> HIDE DEF live
    <3>6. /\ WritesOf(plan) \in ItemVersions
          /\ \A no \in DOMAIN WritesOf(plan) :
               /\ WritesOf(plan)[no].rec.key \in Keys(own, <<u.id, no>>)
               /\ WritesOf(plan)[no].old \subseteq Keys(own, <<u.id, no>>)
               /\ live => WritesOf(plan)[no].prep
      BY <3>3, <3>4, PlanVersionsAre
    <3> DEFINE item == VersionsItem(q, u.id, plan)
    <3> HIDE DEF plan
    <3>7. item = [kind |-> "versions", id |-> u.id, versions |-> WritesOf(plan), extra |-> {},
                  extraKeys |-> {}, live |-> live]
      BY DEF VersionsItem, live
    <3> HIDE DEF item
    <3>8. item \in LooseItems
      BY <3>3, <3>4, <3>6, <3>7 DEF LooseItems
    <3>9. ItsOwn(item, own) /\ (item.live => \A no \in DOMAIN item.versions : item.versions[no].prep)
      BY <3>6, <3>7 DEF ItsOwn
    <3>10. item \in ItemsOf(own)
      BY <3>8, <3>9 DEF ItemsOf
    <3>11. item \in VersOk
      BY <3>1, <3>2, <3>7, <3>10 DEF live
    <3> QED
      BY <3>5, <3>11 DEF item, u
  <2> HIDE DEF lone, DocsOk, VersOk, TombsOk, RowsOk
  <2>5. \A i \in DOMAIN lone : VersionsItem(q, lone[i].id, planLoose(q, lone[i])) \in P
    BY <2>4
  <2> HIDE DEF P
  <2> QED
    BY <2>3, <2>5
<1>8. D \in Seq(P)
  <2> DEFINE S == {u \in ToSet(stones) : Writes(planTombstone(q, u))}
  <2>1. stones \in Seq(U) /\ \A u \in ToSet(stones) : u \in U /\ u.phase = "slug_tombstones"
    BY OfIsOfList
  <2>2. tombs \in Seq(U) /\ \A i \in DOMAIN tombs : tombs[i] \in S
    <3> HIDE DEF S, stones
    <3>1. Kept(stones, S) \in Seq(U) /\ \A i \in DOMAIN Kept(stones, S) : Kept(stones, S)[i] \in S
      BY <2>1, KeptIsOfList
    <3> QED
      BY <3>1 DEF S
  <2>3. ASSUME NEW i \in DOMAIN tombs PROVE Tomb(tombs[i]) \in TombsOk
    <3> DEFINE u == tombs[i]
    <3>1. u \in ToSet(stones) /\ Writes(planTombstone(q, u))
      BY <2>2
    <3>2. u \in U /\ u.phase = "slug_tombstones"
      BY <2>1, <3>1
    <3> HIDE DEF u, tombs, stones
    <3>3. u \in UnitsOf(own)
      BY <1>2, <3>2
    <3>4. Holders(store, u.id) = {} /\ u.id \notin held
      BY <3>1 DEF planTombstone, Writes, docs
    <3> DEFINE doc == IF u.row.doc \in known THEN u.row.doc ELSE 0
    <3>5. doc \in Nat
      <4>1. u.row \in Columns("slug_tombstones")
        BY <3>2, <3>3, RowItemIs
      <4> HIDE DEF known
      <4> QED
        BY <4>1 DEF Columns
    <3>6. Tomb(u) = [RowItem(u) EXCEPT !.row.doc = doc]
      <4>1. RowItem(u).row = u.row
        BY DEF RowItem
      <4> HIDE DEF known
      <4> QED
        BY <4>1
    <3> HIDE DEF doc, held, known
    <3>7. /\ [RowItem(u) EXCEPT !.row.doc = doc] \in ItemsOf(own)
          /\ [RowItem(u) EXCEPT !.row.doc = doc].kind = "slug_tombstones"
          /\ [RowItem(u) EXCEPT !.row.doc = doc].id = u.id /\ u.id # 0
      BY <3>2, <3>3, <3>5, RowItemIs
    <3> HIDE DEF Tomb
    <3> QED
      BY <3>4, <3>6, <3>7 DEF u
  <2> HIDE DEF tombs, DocsOk, VersOk, TombsOk, RowsOk, Tomb
  <2>4. \A i \in DOMAIN tombs : Tomb(tombs[i]) \in P
    BY <2>3
  <2> HIDE DEF P
  <2> QED
    BY <2>2, <2>4
<1> HIDE DEF A, B, C, D, RowsOf
<1>9. Items(q) \in Seq(P)
  <2> HIDE DEF P
  <2> QED
    BY <1>1, <1>3, <1>5, <1>6, <1>7, <1>8
<1> DEFINE items == Items(q)
<1> HIDE DEF items
<1>10. \A i \in DOMAIN items : items[i] \in P
  <2> HIDE DEF P
  <2> QED
    BY <1>9 DEF items
<1>11. \A i \in P : i \in ItemsOf(own)
  OBVIOUS
<1>12. Promised(items)
  <2> SUFFICES ASSUME NEW i \in DOMAIN items
               PROVE LET item == items[i] IN
                 /\ item.kind = "versions" =>
                      /\ item.id \in Docs /\ item.live = store.documents[item.id].live
                      /\ \A k \in DOMAIN items : items[k].kind = "documents" => items[k].id # item.id
                 /\ item.kind = "documents" => item.row.slug \notin DOMAIN store.slug_tombstones
                 /\ item.kind = "slug_tombstones" =>
                      /\ Holders(store, item.id) = {}
                      /\ \A k \in DOMAIN items : items[k].kind = "documents" => items[k].row.slug # item.id
    BY DEF Promised
  <2>1. \A j \in P : /\ j.kind = "versions" => j \in VersOk
                     /\ j.kind = "documents" => j \in DocsOk
                     /\ j.kind = "slug_tombstones" => j \in TombsOk
    OBVIOUS
  <2>2. \A j \in VersOk, k \in DocsOk : j.id # k.id
    OBVIOUS
  <2>3. \A j \in TombsOk, k \in DocsOk : j.id # k.row.slug
    OBVIOUS
  <2>4. \A j \in VersOk : j.id \in Docs /\ j.live = store.documents[j.id].live
    OBVIOUS
  <2>5. \A j \in DocsOk : j.row.slug \notin DOMAIN store.slug_tombstones
    OBVIOUS
  <2>6. \A j \in TombsOk : Holders(store, j.id) = {}
    OBVIOUS
  <2> HIDE DEF P, VersOk, DocsOk, TombsOk, RowsOk
  <2> QED
    BY <1>10, <2>1, <2>2, <2>3, <2>4, <2>5, <2>6
<1>13. Items(q) \in Seq(ItemsOf(own))
  <2> HIDE DEF P
  <2> QED
    BY <1>9, <1>11
<1> QED
  BY <1>12, <1>13 DEF items

-----------------------------------------------------------------------------
(* Submitting.                                                             *)

\* A submitted body has units only, or versions alone only.
LEMMA PiecesAre ==
  ASSUME NEW own, NEW f, IsFile(f, own), NEW units \in Pieces(f)
  PROVE  units \in Seq(UnitsOf(own)) \/ units \in Seq(LooseOf(own))
<1>1. Units(f) \in Seq(UnitsOf(own))
  <2>1. f.pages \in Seq(Seq(UnitsOf(own)))
    BY DEF IsFile
  <2> QED
    BY <2>1, UnitsAre
<1>2. \A page \in ToSet(f.pages) : page \in Seq(UnitsOf(own))
  BY DEF IsFile, ToSet
<1>3. ASSUME NEW u \in Documents(f)
      PROVE  /\ u \in UnitsOf(own) /\ Foreign(u) \in UnitsOf(own)
             /\ [u EXCEPT !.phase = "versions"] \in LooseOf(own)
  <2>1. u \in UnitsOf(own) /\ u.phase = "documents"
    <3> HIDE <1>2
    <3> QED
      BY <1>1 DEF Documents, ToSet
  <2>2. u \in FileUnits /\ u.row \in Columns("documents") /\ WholeRow(u.row)
        /\ u = [phase |-> "documents", id |-> u.id, row |-> u.row, versions |-> u.versions]
        /\ \A no \in DOMAIN u.versions : u.versions[no].key \in Keys(own, <<u.id, no>>)
    BY <2>1 DEF UnitsOf, IsUnit, FileUnits
  <2>3. Foreign(u) \in UnitsOf(own)
    <3> DEFINE row == [u.row EXCEPT !.pid = u.row.pid + 1]
               new == [phase |-> "documents", id |-> u.id, row |-> row, versions |-> u.versions]
    <3>1. Foreign(u) = new
      BY <2>2 DEF Foreign
    <3>2. row \in Columns("documents") /\ WholeRow(row)
      BY <2>2 DEF Columns, WholeRow
    <3>3. row \in Rows
      BY <3>2, PhasesAre DEF Rows
    <3> HIDE DEF row
    <3>4. new \in FileUnits
      BY <2>2, <3>3, PhasesAre DEF FileUnits
    <3>5. IsUnit(new, own)
      BY <2>2, <3>2 DEF IsUnit
    <3>6. new.phase \in Phases
      BY PhasesAre
    <3> HIDE DEF new
    <3> QED
      BY <3>1, <3>4, <3>5, <3>6 DEF UnitsOf
  <2>4. [u EXCEPT !.phase = "versions"] \in LooseOf(own)
    <3> DEFINE new == [phase |-> "versions", id |-> u.id, row |-> u.row, versions |-> u.versions]
    <3>1. [u EXCEPT !.phase = "versions"] = new
      BY <2>2
    <3>2. new \in FileUnits /\ IsUnit(new, own)
      BY <2>2 DEF FileUnits, IsUnit
    <3> QED
      BY <3>1, <3>2 DEF LooseOf
  <2> QED
    BY <2>1, <2>3, <2>4
<1>4. \A T : \A x \in T : <<x>> \in Seq(T)
  OBVIOUS
<1>5. \/ units = Units(f) \/ units \in ToSet(f.pages)
      \/ \E u \in Documents(f) : units \in {<<u>>, <<Foreign(u)>>}
      \/ \E u \in Documents(f) : units = <<[u EXCEPT !.phase = "versions"]>>
  <2> DEFINE A == UNION {{<<u>>, <<Foreign(u)>>} : u \in Documents(f)}
             B == {<<[u EXCEPT !.phase = "versions"]>> : u \in Documents(f)}
  <2>1. units \in {Units(f)} \/ units \in ToSet(f.pages) \/ units \in A \/ units \in B
    BY DEF Pieces
  <2>2. ASSUME units \in A PROVE \E u \in Documents(f) : units \in {<<u>>, <<Foreign(u)>>}
    <3>1. PICK s \in {{<<u>>, <<Foreign(u)>>} : u \in Documents(f)} : units \in s
      BY <2>2
    <3> QED
      BY <3>1
  <2>3. ASSUME units \in B PROVE \E u \in Documents(f) : units = <<[u EXCEPT !.phase = "versions"]>>
    BY <2>3
  <2> HIDE DEF A, B
  <2> QED
    BY <2>1, <2>2, <2>3
<1>6. CASE \E u \in Documents(f) : units \in {<<u>>, <<Foreign(u)>>}
  BY <1>3, <1>4, <1>6
<1>7. CASE \E u \in Documents(f) : units = <<[u EXCEPT !.phase = "versions"]>>
  BY <1>3, <1>4, <1>7
<1> QED
  BY <1>1, <1>2, <1>5, <1>6, <1>7

\* The plan is made, and nothing else is touched.
LEMMA SubmittingIs ==
  ASSUME NEW own, World(own), Submitting
  PROVE  /\ World(own)' /\ UNCHANGED <<world, fate>>
         /\ restore'.at = "item" /\ restore'.puts = Empty /\ Promised(restore'.items)
<1>1. PICK f \in ToSet(shelf), replace \in BOOLEAN :
        \E units \in IF budget.drill THEN ToSet(f.pages) ELSE Pieces(f) :
          \E refused : Submit(f, units, replace, refused)
  BY DEF Submitting
<1>2. PICK units \in Pieces(f) : \E refused : Submit(f, units, replace, refused)
  BY <1>1 DEF Pieces
<1>3. PICK refused : Submit(f, units, replace, refused)
  BY <1>2
<1>4. IsFile(f, own)
  BY DEF World, IsShelf, ToSet
<1>5. PICK U \in {UnitsOf(own), LooseOf(own)} : units \in Seq(U)
  BY <1>4, PiecesAre
<1> DEFINE q == [units |-> units, st |-> store, replace |-> replace, refused |-> refused]
<1>6. q.st = store /\ q.units = units
  OBVIOUS
<1>7. /\ restore' = [at |-> "item", items |-> Items(q), clean |-> PlanIsClean(q), puts |-> Empty,
                     text |-> 0]
      /\ UNCHANGED <<world, export, file, shelf, fate>>
      /\ budget' = [budget EXCEPT !.restores = budget.restores - 1, !.trouble = budget.trouble - Cardinality(refused)]
  BY <1>3 DEF Submit
<1> HIDE DEF q
<1>8. Items(q) \in Seq(ItemsOf(own)) /\ Promised(Items(q))
  BY <1>5, <1>6, ItemsAre DEF World, World0
<1>9. IsRestore(restore', own, Docs')
  <2>1. \A i \in DOMAIN Items(q) : Items(q)[i].kind = "versions" => Items(q)[i].id \in Docs
    BY <1>8 DEF Promised
  <2>2. Docs' = Docs
    BY <1>7 DEF world, Docs
  <2> QED
    BY <1>7, <1>8, <2>1, <2>2 DEF IsRestore, Empty
<1>10. World(own)'
  BY <1>7, <1>9 DEF World, world, World0, Shelved, Owned, Stored, Remembered, IsFile
<1> QED
  BY <1>7, <1>8, <1>10

-----------------------------------------------------------------------------
(* Applying.                                                               *)

\* The first of a list, and the others.
LEMMA TailOf ==
  ASSUME NEW S, NEW s \in Seq(S), s # <<>>
  PROVE  /\ Head(s) \in S /\ Head(s) = s[1] /\ 1 \in DOMAIN s
         /\ Tail(s) \in Seq(S)
         /\ \A i \in DOMAIN Tail(s) : i + 1 \in DOMAIN s /\ Tail(s)[i] = s[i + 1]
<1>1. Len(s) \in Nat \ {0} /\ DOMAIN s = 1..Len(s)
  OBVIOUS
<1>2. Tail(s) \in Seq(S) /\ DOMAIN Tail(s) = 1..(Len(s) - 1)
  OBVIOUS
<1>3. \A i \in 1..(Len(s) - 1) : i + 1 \in 1..Len(s) /\ Tail(s)[i] = s[i + 1]
  BY <1>1
<1>4. Head(s) \in S /\ Head(s) = s[1]
  BY <1>1
<1> QED
  BY <1>1, <1>2, <1>3, <1>4

\* A restore at an item.
LEMMA RestoringIs ==
  ASSUME NEW own, World(own), restore.at \in {"item", "purge", "derive", "search"}
  PROVE  /\ DOMAIN restore = {"at", "items", "clean", "puts", "text"}
         /\ restore.items \in Seq(ItemsOf(own))
         /\ \A i \in DOMAIN restore.items :
              restore.items[i].kind = "versions" => restore.items[i].id \in Docs
         /\ \A no \in DOMAIN restore.puts :
              /\ AtUnit(restore) /\ no \in DOMAIN Item.versions /\ Item.versions[no].prep
              /\ restore.puts[no] \in Keys(own, <<Item.id, no>>)
         /\ restore.at # "item" => AtUnit(restore)
         /\ restore.at \in {"derive", "search"} => Item.kind = "versions"
         /\ restore.items # <<>> => Item \in ItemsOf(own) /\ (Item.kind = "versions" => Item.id \in Docs)
<1>1. restore # Idle
  BY DEF Idle
<1>2. IsRestore(restore, own, Docs)
  BY DEF World
<1>3. restore.items \in Seq(ItemsOf(own))
  BY <1>1, <1>2 DEF IsRestore
<1>4. restore.items # <<>> => Item \in ItemsOf(own) /\ Item = restore.items[1] /\ 1 \in DOMAIN restore.items
  BY <1>3, TailOf DEF Item
<1> QED
  BY <1>1, <1>2, <1>4 DEF IsRestore, Item

\* What each kind of item is.
LEMMA ItemKinds ==
  ASSUME NEW own, NEW item \in ItemsOf(own)
  PROVE  /\ item.kind \in Phases \union {"versions"} /\ item.id \in Nat \ {0}
         /\ item.kind \notin {"documents", "versions"} => item.row \in Columns(item.kind)
         /\ item.kind = "documents" => item.row \in Columns("documents") /\ Renderable(item)
         /\ item.kind = "versions" =>
              /\ item.extra = {} /\ item.extraKeys = {} /\ item.live \in BOOLEAN
              /\ item.live => \A no \in DOMAIN item.versions : item.versions[no].prep
         /\ item.kind \in {"documents", "versions"} =>
              /\ ItsOwn(item, own) /\ DOMAIN item.versions \subseteq Nat \ {0}
              /\ \A no \in DOMAIN item.versions : item.versions[no] \in VersionPlans
<1>0. \A i : i.kind = "documents" \/ i.kind = "versions" \/ i.kind \notin {"documents", "versions"}
  OBVIOUS
<1>1. CASE item \in RowItems /\ item.row \in Columns(item.kind)
  <2>1. item.kind \in Phases \ {"documents"} /\ item.kind # "versions" /\ item.id \in Nat \ {0}
    BY <1>1, PhasesAre DEF RowItems
  <2> QED
    BY <1>1, <2>1
<1>2. \A vs \in ItemVersions : DOMAIN vs \subseteq Nat \ {0} /\ \A no \in DOMAIN vs : vs[no] \in VersionPlans
  BY DEF ItemVersions, Numbered
<1>3. CASE item \in DocumentItems /\ ItsOwn(item, own) /\ Renderable(item)
  <2>1. item.kind = "documents" /\ item.id \in Nat \ {0} /\ item.row \in Columns("documents")
        /\ item.versions \in ItemVersions
    BY <1>3 DEF DocumentItems
  <2> QED
    BY <1>2, <1>3, <2>1, PhasesAre
<1>4. CASE /\ item \in LooseItems /\ ItsOwn(item, own)
           /\ item.live => \A no \in DOMAIN item.versions : item.versions[no].prep
  <2>1. item.kind = "versions" /\ item.id \in Nat \ {0} /\ item.versions \in ItemVersions
        /\ item.extra = {} /\ item.extraKeys = {} /\ item.live \in BOOLEAN
    BY <1>4 DEF LooseItems
  <2> QED
    BY <1>2, <1>4, <2>1
<1> QED
  BY <1>1, <1>3, <1>4 DEF ItemsOf

\* The next item, with nothing put yet.
LEMMA NextItemIs ==
  ASSUME NEW own, World(own), restore.at \in {"item", "purge", "derive", "search"},
         restore.items # <<>>, NEW failed, NextItem(failed), NEW docs, Docs \subseteq docs
  PROVE  /\ IsRestore(restore', own, docs)
         /\ restore'.at = "item" /\ restore'.puts = Empty /\ restore'.items = Tail(restore.items)
<1>1. DOMAIN restore = {"at", "items", "clean", "puts", "text"}
      /\ restore.items \in Seq(ItemsOf(own))
      /\ \A i \in DOMAIN restore.items :
              restore.items[i].kind = "versions" => restore.items[i].id \in Docs
  BY RestoringIs
<1>2. /\ DOMAIN restore' = {"at", "items", "clean", "puts", "text"}
      /\ restore'.at = "item" /\ restore'.puts = Empty /\ restore'.items = Tail(restore.items)
  BY <1>1 DEF NextItem
<1>3. Tail(restore.items) \in Seq(ItemsOf(own))
      /\ \A i \in DOMAIN Tail(restore.items) :
           i + 1 \in DOMAIN restore.items /\ Tail(restore.items)[i] = restore.items[i + 1]
  BY <1>1, TailOf
<1>4. \A i \in DOMAIN restore'.items : restore'.items[i].kind = "versions" => restore'.items[i].id \in docs
  BY <1>1, <1>2, <1>3
<1>5. restore'.items \in Seq(ItemsOf(own)) /\ DOMAIN restore'.puts = {}
  BY <1>2, <1>3 DEF Empty
<1> QED
  BY <1>2, <1>4, <1>5 DEF IsRestore

\* The restore goes on at its item.
LEMMA StaysAtItem ==
  ASSUME NEW own, World(own), restore.at \in {"item", "purge", "derive", "search"}, AtUnit(restore),
         NEW docs, Docs \subseteq docs, NEW at \in {"purge", "derive", "search"},
         at # "purge" => Item.kind = "versions",
         restore'.at = at, restore'.items = restore.items, restore'.puts = restore.puts,
         DOMAIN restore' = DOMAIN restore
  PROVE  IsRestore(restore', own, docs)
<1>1. IsRestore(restore, own, Docs) /\ restore # Idle
  BY DEF World, Idle
<1> QED
  BY <1>1 DEF IsRestore, AtUnit, Item

\* A step of the restore that leaves the database's rows and keys alone.
LEMMA StaysSound ==
  ASSUME NEW own, World(own), IsRestore(restore', own, Docs'), UNCHANGED <<nonce, clock, export, file, shelf>>,
         Sound(store'), Stored(store', own), bucket' \in [DOMAIN bucket' -> Nat],
         DOMAIN bucket' \subseteq 1..nonce,
         DOMAIN fate' = DOMAIN fate, DOMAIN budget' = DOMAIN budget, budget'.limits = budget.limits
  PROVE  World(own)'
BY DEF World, World0, Shelved, Owned, Stored, Remembered, IsFile

\* Bytes may go.
LEMMA BytesLess ==
  ASSUME Shelved, NEW lost, bucket' \in {Without(bucket, lost), bucket}
  PROVE  bucket' \in [DOMAIN bucket' -> Nat] /\ DOMAIN bucket' \subseteq 1..nonce
<1>1. Without(bucket, lost) \in [DOMAIN bucket \ lost -> Nat] /\ DOMAIN Without(bucket, lost) = DOMAIN bucket \ lost
  BY DEF Shelved, Without
<1> QED
  BY <1>1 DEF Shelved

\* Trouble costs trouble only.
LEMMA TroubleIs ==
  ASSUME Remembered, Spend("trouble") \/ UNCHANGED budget
  PROVE  DOMAIN budget' = DOMAIN budget /\ budget'.limits = budget.limits
BY SpendIs

RowApplied ==
  /\ Fits(Item)
  /\ store' = [store EXCEPT ![Item.kind] = Put(@, Item.id, Item.row)]

\* A row D1 accepts keeps the tables sound.
LEMMA RowAppliedIs ==
  ASSUME NEW own, World(own), AtItem(Phases \ {"documents"}), RowApplied
  PROVE  Sound(store') /\ store'.documents = store.documents /\ store'.versions = store.versions
         /\ (Item.kind = "slug_tombstones" \/ store'.slug_tombstones = store.slug_tombstones)
         /\ (Item.kind = "slug_tombstones" =>
               DOMAIN store'.slug_tombstones = DOMAIN store.slug_tombstones \union {Item.id})
<1>1. Item.kind \in Phases \ {"documents"} /\ restore.items # <<>> /\ Item \in ItemsOf(own)
  BY RestoringIs DEF AtItem
<1>2. Item.kind \in {"agents", "agent_keys", "oauth_clients", "slug_tombstones"}
  BY <1>1, PhasesAre
<1>3. Item.id \in Nat \ {0} /\ Item.row \in Columns(Item.kind)
  BY <1>1, <1>2, ItemKinds
<1> DEFINE kind == Item.kind
           new == [store EXCEPT ![kind] = Put(store[kind], Item.id, Item.row)]
<1>4. store' = new
  BY DEF RowApplied
<1>5. DOMAIN store = Tables /\ kind \in Tables
  BY <1>2, TablesAre DEF World, World0, Sound
<1>6. /\ new[kind] = Put(store[kind], Item.id, Item.row)
      /\ \A t \in Tables \ {kind} : new[t] = store[t]
      /\ DOMAIN new = Tables
  BY <1>5
<1> HIDE DEF new
<1>7. DOMAIN new[kind] = DOMAIN store[kind] \union {Item.id}
  BY <1>6, PutIs
<1>8. \A p \in Phases : Shaped(store, p)
  BY DEF World, World0, Sound
<1>9. Shaped(new, kind)
  BY <1>1, <1>3, <1>6, <1>8, RowMore
<1>10. \A p \in Phases : Shaped(new, p)
  BY <1>6, <1>8, <1>9 DEF Shaped, Tables
<1>11. new.documents = store.documents /\ new.versions = store.versions
       /\ new.documents_fts = store.documents_fts
       /\ DOMAIN store.agents \subseteq DOMAIN new.agents
       /\ (kind # "slug_tombstones" => new.slug_tombstones = store.slug_tombstones)
  <2>1. "documents" \in Tables \ {kind} /\ "versions" \in Tables \ {kind} /\ "documents_fts" \in Tables \ {kind}
    BY <1>2, TablesAre
  <2>2. "agents" \in Tables /\ "slug_tombstones" \in Tables
    BY TablesAre
  <2> QED
    BY <1>6, <1>7, <2>1, <2>2
<1>12. \A d \in DOMAIN new.documents : DocumentFits(new, d)
  <2> DEFINE S == store
  <2>1. \A d \in DOMAIN S.documents : DocumentFits(S, d)
    BY DEF World, World0, Sound
  <2> HIDE DEF S
  <2>2. S.documents = new.documents /\ S.versions = new.versions /\ DOMAIN S.agents \subseteq DOMAIN new.agents
    BY <1>11 DEF S
  <2> QED
    BY <2>1, <2>2 DEF DocumentFits, Holders
<1>13. \A c \in DOMAIN new.oauth_clients : ClientFits(new, c)
  <2>0. \A c \in DOMAIN store.oauth_clients : ClientFits(store, c)
    BY DEF World, World0, Sound
  <2>1. CASE kind # "oauth_clients"
    <3>1. new.oauth_clients = store.oauth_clients
      BY <1>6, <2>1, TablesAre
    <3> QED
      BY <1>11, <2>0, <3>1 DEF ClientFits
  <2>2. CASE kind = "oauth_clients"
    <3>1. /\ Item.row.agent \in DOMAIN store.agents
          /\ \A c \in DOMAIN store.oauth_clients \ {Item.id} :
                store.oauth_clients[c].agent # Item.row.agent
      BY <2>2 DEF RowApplied, Fits
    <3>2. new.oauth_clients = [c \in DOMAIN store.oauth_clients \union {Item.id} |->
                                 IF c = Item.id THEN Item.row ELSE store.oauth_clients[c]]
      BY <1>6, <2>2, PutIs
    <3> QED
      BY <1>11, <2>0, <3>1, <3>2 DEF ClientFits
  <2> QED
    BY <2>1, <2>2
<1>14. VersionsFit(new) /\ DOMAIN new.documents_fts \subseteq DOMAIN new.documents
  BY <1>11 DEF World, World0, Sound, VersionsFit
<1>15. Sound(new)
  BY <1>6, <1>10, <1>12, <1>13, <1>14 DEF Sound
<1>16. kind = "slug_tombstones" => DOMAIN new.slug_tombstones = DOMAIN store.slug_tombstones \union {Item.id}
  BY <1>7
<1> QED
  BY <1>4, <1>11, <1>15, <1>16

\* A row applied, or refused, keeps the world.
LEMMA RowsApply ==
  ASSUME NEW own, World(own), ApplyRow
  PROVE  World(own)'
<1>1. restore.at = "item" /\ restore.items # <<>> /\ AtItem(Phases \ {"documents"})
  BY DEF ApplyRow, AtItem
<1>2. PICK failed \in BOOLEAN : NextItem(failed)
  BY DEF ApplyRow
<1>3. /\ Sound(store') /\ store'.documents = store.documents /\ store'.versions = store.versions
  <2>1. CASE RowApplied
    BY <1>1, <2>1, RowAppliedIs
  <2>2. CASE UNCHANGED store
    BY <2>2 DEF World, World0
  <2> QED
    BY <2>1, <2>2 DEF ApplyRow, RowApplied
<1>4. Docs' = Docs /\ Stored(store', own)
  BY <1>3 DEF Docs, Stored, World
<1>5. IsRestore(restore', own, Docs')
  BY <1>1, <1>2, <1>4, NextItemIs
<1>6. DOMAIN budget' = DOMAIN budget /\ budget'.limits = budget.limits
  BY TroubleIs DEF ApplyRow, World
<1>7. UNCHANGED <<bucket, nonce, clock, export, file, shelf, fate>>
  BY DEF ApplyRow
<1>8. bucket' \in [DOMAIN bucket' -> Nat] /\ DOMAIN bucket' \subseteq 1..nonce
  BY <1>7 DEF World, World0, Shelved
<1> QED
  BY <1>3, <1>4, <1>5, <1>6, <1>7, <1>8, StaysSound

\* A blob is written under a key nobody has.
LEMMA PutsApply ==
  ASSUME NEW own, World(own), PutBlobs
  PROVE  \E new : World(new)'
<1>1. /\ restore.at = "item" /\ restore.items # <<>> /\ AtUnit(restore)
      /\ Item.kind \in {"documents", "versions"} /\ Item \in ItemsOf(own)
  BY RestoringIs DEF PutBlobs, AtItem, AtUnit, Item
<1>2. Item.id \in Nat \ {0} /\ DOMAIN Item.versions \subseteq Nat \ {0}
      /\ \A no \in DOMAIN Item.versions : Item.versions[no] \in VersionPlans
  BY <1>1, ItemKinds
<1>3. Docs' = Docs /\ UNCHANGED <<store, clock, export, file, shelf, fate>>
  BY DEF PutBlobs, Docs
<1>4. CASE \E failed \in BOOLEAN : NextItem(failed) /\ Spend("trouble") /\ UNCHANGED <<bucket, nonce>>
  <2>1. IsRestore(restore', own, Docs')
    BY <1>1, <1>3, <1>4, NextItemIs
  <2>2. DOMAIN budget' = DOMAIN budget /\ budget'.limits = budget.limits
    BY <1>4, TroubleIs DEF World
  <2>3. Sound(store') /\ Stored(store', own) /\ bucket' \in [DOMAIN bucket' -> Nat]
        /\ DOMAIN bucket' \subseteq 1..nonce
    BY <1>3, <1>4 DEF World, World0, Shelved
  <2>4. World(own)'
    BY <1>3, <1>4, <2>1, <2>2, <2>3, StaysSound
  <2> QED
    BY <2>4
<1>5. CASE \E no \in Unput : /\ bucket' = Put(bucket, nonce + 1, Item.versions[no].rec.text)
                             /\ nonce' = nonce + 1
                             /\ restore' = [restore EXCEPT !.puts = Put(@, no, nonce + 1)]
                             /\ UNCHANGED budget
  <2>1. PICK no \in Unput : /\ bucket' = Put(bucket, nonce + 1, Item.versions[no].rec.text)
                            /\ nonce' = nonce + 1
                            /\ restore' = [restore EXCEPT !.puts = Put(@, no, nonce + 1)]
                            /\ UNCHANGED budget
    BY <1>5
  <2>2. no \in DOMAIN Item.versions /\ Item.versions[no].prep /\ Item.versions[no].rec.text \in Nat
        /\ <<Item.id, no>> \in Nat \X Nat
    BY <1>2 DEF Unput, VersionPlans, Recs
  <2>3. PICK new \in [1..nonce + 1 -> Nat \X Nat] :
           Extends(new, own) /\ nonce + 1 \in Keys(new, <<Item.id, no>>)
    BY <2>2, ItExtends DEF World
  <2>4. /\ bucket' \in [DOMAIN bucket' -> Nat] /\ DOMAIN bucket' \subseteq 1..nonce'
    <3>1. bucket' = [k \in DOMAIN bucket \union {nonce + 1} |->
                       IF k = nonce + 1 THEN Item.versions[no].rec.text ELSE bucket[k]]
      BY <2>1, PutIs
    <3> QED
      BY <2>1, <2>2, <3>1 DEF World, World0, Shelved
  <2>5. Owned(new)' /\ nonce' \in Nat
    BY <2>1, <2>3 DEF Owned, World, World0
  <2>6. IsRestore(restore', new, Docs')
    <3>1. IsRestore(restore, new, Docs) /\ restore # Idle
      BY <1>1, <2>3, RestoreExtends DEF World, Idle
    <3>2. restore'.puts = Put(restore.puts, no, nonce + 1) /\ restore'.items = restore.items
          /\ restore'.at = "item" /\ DOMAIN restore' = DOMAIN restore
      BY <1>1, <2>1, <3>1 DEF IsRestore
    <3>3. restore'.puts = [n \in DOMAIN restore.puts \union {no} |->
                             IF n = no THEN nonce + 1 ELSE restore.puts[n]]
      BY <3>2, PutIs
    <3>4. ASSUME NEW n \in DOMAIN restore'.puts
          PROVE  /\ AtUnit(restore') /\ n \in DOMAIN Head(restore'.items).versions
                 /\ Head(restore'.items).versions[n].prep
                 /\ restore'.puts[n] \in Keys(new, <<Head(restore'.items).id, n>>)
      <4>1. CASE n = no
        BY <1>1, <2>2, <2>3, <3>2, <3>3, <4>1 DEF AtUnit, Item
      <4>2. CASE n \in DOMAIN restore.puts /\ n # no
        BY <3>1, <3>2, <3>3, <4>2 DEF IsRestore, AtUnit
      <4> QED
        BY <3>3, <4>1, <4>2
    <3>5. /\ restore'.items \in Seq(ItemsOf(new))
          /\ \A i \in DOMAIN restore'.items : restore'.items[i].kind = "versions" => restore'.items[i].id \in Docs'
          /\ DOMAIN restore' = {"at", "items", "clean", "puts", "text"}
      BY <1>3, <3>1, <3>2 DEF IsRestore
    <3> QED
      BY <3>2, <3>4, <3>5 DEF IsRestore
  <2>7. IsExport(export', new) /\ IsFile(file', new) /\ IsShelf(shelf', new)
    BY <1>3, <2>3, ExportExtends, FileExtends, ShelfExtends DEF World
  <2>8. Sound(store') /\ Stored(store', new) /\ clock' \in Nat
    BY <1>3, <2>3 DEF World, World0, Stored, Extends
  <2>9. Remembered' /\ (budget.limits \subseteq Nat)'
    BY <1>3, <2>1 DEF World, Remembered
  <2>10. World(new)'
    BY <2>4, <2>5, <2>6, <2>7, <2>8, <2>9 DEF World, World0, Shelved
  <2> QED
    BY <2>10
<1>6. \A S : (S \subseteq Nat /\ S # {}) => (CHOOSE n \in S : \A m \in S : n <= m) \in S
  BY LeastOf
<1>7. Unput \subseteq Nat /\ Unput # {}
  BY <1>2 DEF Unput, PutBlobs
<1> DEFINE least == CHOOSE n \in Unput : \A m \in Unput : n <= m
<1>8. least \in Unput
  BY <1>6, <1>7
<1> QED
  BY <1>4, <1>5, <1>8 DEF PutBlobs

Chosen == {<<Item.id, no>> : no \in DOMAIN Item.versions}

\* The versions once a unit is written, each under a key of its own place.
LEMMA UnitVersionsAre ==
  ASSUME NEW own, World(own), AtItem({"documents", "versions"}), Unput = {}
  PROVE  /\ DOMAIN UnitVersions = (DOMAIN store.versions \ Item.extra) \union Chosen
         /\ \A no \in DOMAIN Item.versions :
              /\ <<Item.id, no>> \in DOMAIN UnitVersions /\ UnitVersions[<<Item.id, no>>] = RowOf(no)
              /\ RowOf(no) \in Versions /\ RowOf(no).key \in Keys(own, <<Item.id, no>>)
         /\ \A x \in DOMAIN UnitVersions \ Chosen :
              x \in DOMAIN store.versions /\ UnitVersions[x] = store.versions[x]
         /\ \A x \in DOMAIN UnitVersions : UnitVersions[x].key \in Keys(own, x)
<1>1. /\ restore.items # <<>> /\ Item.kind \in {"documents", "versions"} /\ Item \in ItemsOf(own)
      /\ \A no \in DOMAIN restore.puts : restore.puts[no] \in Keys(own, <<Item.id, no>>)
  BY RestoringIs DEF AtItem
<1>2. /\ ItsOwn(Item, own)
      /\ \A no \in DOMAIN Item.versions : Item.versions[no] \in VersionPlans
  BY <1>1, ItemKinds
<1>3. ASSUME NEW no \in DOMAIN Item.versions
      PROVE  RowOf(no) \in Versions /\ RowOf(no).key \in Keys(own, <<Item.id, no>>)
  <2>1. Item.versions[no] \in VersionPlans /\ Item.versions[no].rec.key \in Keys(own, <<Item.id, no>>)
    BY <1>2 DEF ItsOwn
  <2>2. Item.versions[no].prep => restore.puts[no] \in Keys(own, <<Item.id, no>>)
    BY <1>1 DEF Unput
  <2> DEFINE plan == Item.versions[no]
  <2>3. plan.rec \in Recs /\ plan.prep \in BOOLEAN
    BY <2>1 DEF VersionPlans
  <2> HIDE DEF plan
  <2>4. \A k \in Keys(own, <<Item.id, no>>) : k \in Nat
    BY DEF Keys, World, Owned
  <2>5. plan.rec.by \in Nat /\ plan.rec.src \in BOOLEAN
    BY <2>3 DEF Recs
  <2>6. RowOf(no) = [by |-> plan.rec.by, src |-> plan.prep \/ plan.rec.src,
                     key |-> IF plan.prep THEN restore.puts[no] ELSE plan.rec.key]
    BY DEF RowOf, plan
  <2>7. (IF plan.prep THEN restore.puts[no] ELSE plan.rec.key) \in Keys(own, <<Item.id, no>>)
    BY <2>1, <2>2 DEF plan
  <2>8. (plan.prep \/ plan.rec.src) \in BOOLEAN
    OBVIOUS
  <2>9. RowOf(no).key = IF plan.prep THEN restore.puts[no] ELSE plan.rec.key
    BY <2>6
  <2>10. RowOf(no) \in Versions
    <3> DEFINE k == IF plan.prep THEN restore.puts[no] ELSE plan.rec.key
               s == plan.prep \/ plan.rec.src
    <3>1. k \in Nat /\ s \in BOOLEAN /\ RowOf(no) = [by |-> plan.rec.by, src |-> s, key |-> k]
      BY <2>4, <2>6, <2>7, <2>8
    <3> HIDE DEF k, s
    <3> QED
      BY <2>5, <3>1 DEF Versions
  <2> QED
    BY <2>7, <2>9, <2>10
<1> DEFINE f == Without(store.versions, Item.extra)
           g == [x \in Chosen |-> RowOf(x[2])]
<1>4. UnitVersions = Upsert(f, g)
  BY DEF UnitVersions, Chosen
<1>5. DOMAIN f = DOMAIN store.versions \ Item.extra /\ \A x \in DOMAIN f : f[x] = store.versions[x]
  BY DEF Without
<1>6. DOMAIN g = Chosen /\ \A x \in Chosen : g[x] = RowOf(x[2])
  OBVIOUS
<1> HIDE DEF f, g
<1>7. /\ DOMAIN UnitVersions = DOMAIN f \union Chosen
      /\ \A x \in Chosen : UnitVersions[x] = g[x]
      /\ \A x \in DOMAIN f \ Chosen : UnitVersions[x] = f[x]
  BY <1>4, <1>6 DEF Upsert
<1>8. ASSUME NEW no \in DOMAIN Item.versions
      PROVE  <<Item.id, no>> \in DOMAIN UnitVersions /\ UnitVersions[<<Item.id, no>>] = RowOf(no)
  <2>1. <<Item.id, no>> \in Chosen
    BY DEF Chosen
  <2>2. <<Item.id, no>>[2] = no
    OBVIOUS
  <2> QED
    BY <1>6, <1>7, <2>1, <2>2
<1>9. \A x \in DOMAIN UnitVersions \ Chosen :
         x \in DOMAIN store.versions /\ UnitVersions[x] = store.versions[x]
  BY <1>5, <1>7
<1>10. ASSUME NEW x \in DOMAIN UnitVersions PROVE UnitVersions[x].key \in Keys(own, x)
  <2>1. CASE x \in Chosen
    BY <1>3, <1>8, <2>1 DEF Chosen
  <2>2. CASE x \notin Chosen
    BY <1>9, <2>2 DEF World, Stored
  <2> QED
    BY <2>1, <2>2
<1> QED
  BY <1>3, <1>5, <1>7, <1>8, <1>9, <1>10

\* A unit D1 accepts keeps the tables sound.
LEMMA UnitStoreIs ==
  ASSUME NEW own, World(own), AtItem({"documents", "versions"}), Unput = {}, Fits(Item),
         store' = UnitStore
  PROVE  /\ Sound(store')
         /\ store'.versions = UnitVersions /\ store'.slug_tombstones = store.slug_tombstones
         /\ Item.kind = "versions" => store'.documents = store.documents
         /\ Item.kind = "documents" => store'.documents = Put(store.documents, Item.id, Item.row)
<1> DEFINE docs == IF Item.kind = "versions" THEN store.documents
                   ELSE Put(store.documents, Item.id, Item.row)
           fts == IF Item.kind = "versions" THEN store.documents_fts
                  ELSE IF Item.row.live
                  THEN Put(store.documents_fts, Item.id, Item.versions[Item.row.cur].rec.text)
                  ELSE Without(store.documents_fts, {Item.id})
<1>0. DOMAIN store = Tables
  BY DEF World, World0, Sound
<1>1. /\ DOMAIN store' = Tables
      /\ store'.documents = docs /\ store'.versions = UnitVersions /\ store'.documents_fts = fts
      /\ store'.agents = store.agents /\ store'.agent_keys = store.agent_keys
      /\ store'.oauth_clients = store.oauth_clients
      /\ store'.slug_tombstones = store.slug_tombstones
  <2>1. CASE Item.kind = "versions"
    BY <1>0, <2>1, TablesAre DEF UnitStore
  <2>2. CASE Item.kind # "versions"
    BY <1>0, <2>2, TablesAre DEF UnitStore
  <2> QED
    BY <2>1, <2>2
<1>2. /\ restore.items # <<>> /\ Item.kind \in {"documents", "versions"} /\ Item \in ItemsOf(own)
      /\ Item.kind = "versions" => Item.id \in Docs
  BY RestoringIs DEF AtItem
<1>3. /\ Item.id \in Nat \ {0}
      /\ Item.kind = "documents" => Item.row \in Columns("documents") /\ Renderable(Item)
      /\ ItsOwn(Item, own) /\ DOMAIN Item.versions \subseteq Nat \ {0}
  BY <1>2, ItemKinds
<1>4. DOMAIN docs = DOMAIN store.documents \union {Item.id}
  <2>1. CASE Item.kind = "versions"
    BY <1>2, <2>1 DEF Docs
  <2>2. CASE Item.kind # "versions"
    BY <2>2, PutIs
  <2> QED
    BY <2>1, <2>2
<1>5. /\ \A d \in DOMAIN store.documents \ {Item.id} : docs[d] = store.documents[d]
      /\ Item.kind = "versions" => docs = store.documents
      /\ Item.kind = "documents" => docs[Item.id] = Item.row
  <2>1. Item.kind # "versions" =>
          docs = [z \in DOMAIN store.documents \union {Item.id} |->
                    IF z = Item.id THEN Item.row ELSE store.documents[z]]
    BY PutIs
  <2> HIDE DEF docs
  <2>2. Item.kind = "versions" => docs = store.documents
    BY DEF docs
  <2> QED
    BY <1>2, <2>1, <2>2
<1>6. DOMAIN fts \subseteq DOMAIN docs
  <2>1. DOMAIN store.documents_fts \subseteq DOMAIN store.documents
    BY DEF World, World0, Sound
  <2>2. CASE Item.kind = "versions"
    BY <1>4, <2>1, <2>2
  <2>3. CASE Item.kind # "versions"
    <3>1. DOMAIN Put(store.documents_fts, Item.id, Item.versions[Item.row.cur].rec.text)
             = DOMAIN store.documents_fts \union {Item.id}
      BY PutIs
    <3>2. DOMAIN Without(store.documents_fts, {Item.id}) \subseteq DOMAIN store.documents_fts
      BY DEF Without
    <3> HIDE DEF docs
    <3> QED
      BY <1>4, <2>1, <2>3, <3>1, <3>2
  <2> QED
    BY <2>2, <2>3
<1>7. \A p \in Phases : Shaped(store, p)
  BY DEF World, World0, Sound
<1>8. Shaped(store', "documents")
  <2>1. CASE Item.kind = "versions"
    BY <1>1, <1>7, <2>1, PhasesAre DEF Shaped
  <2>2. CASE Item.kind = "documents"
    <3>1. store'.documents = Put(store.documents, Item.id, Item.row)
      BY <1>1, <2>2
    <3> QED
      BY <1>3, <1>7, <2>2, <3>1, PhasesAre, RowMore
  <2> QED
    BY <1>2, <2>1, <2>2
<1>9. \A p \in Phases : Shaped(store', p)
  BY <1>1, <1>7, <1>8, PhasesAre DEF Shaped
<1>10. /\ DOMAIN UnitVersions = (DOMAIN store.versions \ Item.extra) \union Chosen
       /\ \A x \in Item.extra : x[1] = Item.id
       /\ \A no \in DOMAIN Item.versions :
              <<Item.id, no>> \in DOMAIN UnitVersions /\ UnitVersions[<<Item.id, no>>] = RowOf(no)
              /\ RowOf(no) \in Versions
       /\ \A x \in DOMAIN UnitVersions \ Chosen :
              x \in DOMAIN store.versions /\ UnitVersions[x] = store.versions[x]
  BY <1>3, UnitVersionsAre DEF ItsOwn
<1> HIDE DEF docs, fts
<1>11. VersionsFit(store')
  <2>1. /\ DOMAIN store.versions \subseteq (DOMAIN store.documents) \X (Nat \ {0})
        /\ store.versions \in [DOMAIN store.versions -> Versions]
    BY DEF World, World0, Sound, VersionsFit
  <2>2. Chosen \subseteq (DOMAIN docs) \X (Nat \ {0})
    BY <1>3, <1>4 DEF Chosen
  <2>3. DOMAIN UnitVersions \subseteq (DOMAIN docs) \X (Nat \ {0})
    BY <1>4, <1>10, <2>1, <2>2
  <2>4. ASSUME NEW x \in DOMAIN UnitVersions PROVE UnitVersions[x] \in Versions
    <3>1. CASE x \in Chosen
      BY <1>10, <3>1 DEF Chosen
    <3>2. CASE x \notin Chosen
      BY <1>10, <2>1, <3>2
    <3> QED
      BY <3>1, <3>2
  <2>5. UnitVersions \in [DOMAIN UnitVersions -> Versions]
    <3> DEFINE f == Without(store.versions, Item.extra)
               g == [x \in Chosen |-> RowOf(x[2])]
    <3>1. UnitVersions = [x \in DOMAIN f \union DOMAIN g |-> IF x \in DOMAIN g THEN g[x] ELSE f[x]]
      BY DEF UnitVersions, Upsert, Chosen
    <3> HIDE DEF f, g
    <3> QED
      BY <2>4, <3>1
  <2> QED
    BY <1>1, <2>3, <2>5 DEF VersionsFit
<1>12. ASSUME NEW d \in DOMAIN docs PROVE DocumentFits(store', d)
  <2>1. CASE d \in DOMAIN store.documents /\ (d # Item.id \/ Item.kind = "versions")
    <3>1. docs[d] = store.documents[d] /\ DocumentFits(store, d)
      BY <1>5, <2>1 DEF World, World0, Sound
    <3>2. store.documents[d].live => <<d, store.documents[d].cur>> \in DOMAIN UnitVersions
      <4>1. CASE d # Item.id
        BY <1>10, <3>1, <4>1 DEF DocumentFits
      <4>2. CASE Item.kind = "versions"
        <5>1. Item.extra = {}
          BY <1>2, <4>2, ItemKinds
        <5> QED
          BY <1>10, <3>1, <5>1 DEF DocumentFits
      <4> QED
        BY <2>1, <4>1, <4>2
    <3>3. ASSUME store.documents[d].slug # 0 PROVE Holders(store', store.documents[d].slug) = {d}
      <4>1. Holders(store, store.documents[d].slug) = {d}
        BY <3>1, <3>3 DEF DocumentFits
      <4>2. CASE Item.kind = "versions"
        BY <1>1, <1>5, <4>1, <4>2 DEF Holders
      <4>3. CASE Item.kind = "documents"
        <5>1. d # Item.id
          BY <2>1, <4>3
        <5>2. Item.row.slug # store.documents[d].slug
          BY <3>3, <4>1, <4>3, <5>1 DEF Fits
        <5> QED
          BY <1>1, <1>4, <1>5, <4>1, <4>3, <5>1, <5>2 DEF Holders
      <4> QED
        BY <1>2, <4>2, <4>3
    <3> QED
      BY <1>1, <3>1, <3>2, <3>3 DEF DocumentFits
  <2>2. CASE Item.kind = "documents" /\ d = Item.id
    <3>1. docs[d] = Item.row /\ WholeRow(Item.row) /\ Item.row \in Columns("documents")
      BY <1>3, <1>5, <2>2 DEF Renderable
    <3>2. Item.row.live => <<d, Item.row.cur>> \in DOMAIN UnitVersions
      <4>1. Item.row.live => Item.row.cur \in Needs(Item.row)
        BY <3>1 DEF WholeRow, Needs
      <4> QED
        BY <1>3, <1>10, <2>2, <4>1 DEF Renderable
    <3>3. /\ Item.row.by \in DOMAIN store.agents
          /\ Item.row.slug # 0 => Holders(store, Item.row.slug) \subseteq {Item.id}
      BY <2>2 DEF Fits
    <3>4. Item.row.slug # 0 => Holders(store', Item.row.slug) = {d}
      BY <1>1, <1>4, <1>5, <2>2, <3>1, <3>3 DEF Holders
    <3> QED
      BY <1>1, <3>1, <3>2, <3>3, <3>4 DEF DocumentFits
  <2> QED
    BY <1>2, <1>4, <2>1, <2>2 DEF Docs
<1>13. \A c \in DOMAIN store'.oauth_clients : ClientFits(store', c)
  BY <1>1 DEF World, World0, Sound, ClientFits
<1>14. Sound(store')
  BY <1>1, <1>6, <1>9, <1>11, <1>12, <1>13 DEF Sound
<1> QED
  BY <1>1, <1>14 DEF docs

\* A unit committed, or rolled back, keeps the world.
LEMMA UnitsCommit ==
  ASSUME NEW own, World(own), CommitUnit
  PROVE  World(own)'
<1>1. /\ restore.at = "item" /\ restore.items # <<>> /\ AtUnit(restore)
      /\ AtItem({"documents", "versions"}) /\ Unput = {}
  BY DEF CommitUnit, AtItem, AtUnit, Item
<1>2. UNCHANGED <<nonce, clock, export, file, shelf, fate>> /\ DOMAIN fate' = DOMAIN fate
  BY DEF CommitUnit
<1>3. CASE Fits(Item) /\ store' = UnitStore /\ At("purge") /\ UNCHANGED <<bucket, budget>>
  <2>1. Sound(store') /\ store'.versions = UnitVersions
    BY <1>1, <1>3, UnitStoreIs
  <2>2. Stored(store', own)
    BY <1>1, <2>1, UnitVersionsAre DEF Stored
  <2>3. Docs \subseteq Docs'
    <3>1. Item.kind \in {"documents", "versions"}
      BY <1>1 DEF AtItem
    <3>2. CASE Item.kind = "versions"
      BY <1>1, <1>3, <3>2, UnitStoreIs DEF Docs
    <3>3. CASE Item.kind = "documents"
      <4>1. store'.documents = Put(store.documents, Item.id, Item.row)
        BY <1>1, <1>3, <3>3, UnitStoreIs
      <4>2. DOMAIN Put(store.documents, Item.id, Item.row) = DOMAIN store.documents \union {Item.id}
        BY PutIs
      <4> QED
        BY <4>1, <4>2 DEF Docs
    <3> QED
      BY <3>1, <3>2, <3>3
  <2>4. /\ restore'.at = "purge" /\ restore'.items = restore.items /\ restore'.puts = restore.puts
        /\ DOMAIN restore' = DOMAIN restore
    <3>1. DOMAIN restore = {"at", "items", "clean", "puts", "text"}
      BY <1>1, RestoringIs
    <3> QED
      BY <1>3, <3>1 DEF At
  <2>5. IsRestore(restore', own, Docs')
    BY <1>1, <2>3, <2>4, StaysAtItem
  <2>6. bucket' \in [DOMAIN bucket' -> Nat] /\ DOMAIN bucket' \subseteq 1..nonce
    BY <1>3 DEF World, World0, Shelved
  <2> QED
    BY <1>2, <1>3, <2>1, <2>2, <2>5, <2>6, StaysSound
<1>4. CASE /\ IF Fits(Item) THEN Spend("trouble") ELSE UNCHANGED budget
           /\ RollBack /\ UNCHANGED store
  <2>1. Sound(store') /\ Stored(store', own) /\ Docs' = Docs
    BY <1>4 DEF World, World0, Stored, Docs
  <2>2. bucket' \in [DOMAIN bucket' -> Nat] /\ DOMAIN bucket' \subseteq 1..nonce
    BY <1>4, BytesLess DEF World, World0, RollBack
  <2>3. IsRestore(restore', own, Docs')
    BY <1>1, <1>4, <2>1, NextItemIs DEF RollBack
  <2>4. DOMAIN budget' = DOMAIN budget /\ budget'.limits = budget.limits
    BY <1>4, TroubleIs DEF World
  <2> QED
    BY <1>2, <2>1, <2>2, <2>3, <2>4, StaysSound
<1> QED
  BY <1>3, <1>4 DEF CommitUnit

\* Once the unit is written.
LEMMA DerivingFails ==
  ASSUME NEW own, World(own), restore.at \in {"derive", "search"}, DeriveFails,
         UNCHANGED <<nonce, clock, export, file, shelf>>
  PROVE  World(own)'
<1>1. restore.items # <<>>
  BY RestoringIs DEF AtUnit
<1>2. Sound(store') /\ Stored(store', own) /\ Docs' = Docs
  BY DEF World, World0, Stored, Docs, DeriveFails
<1>3. bucket' \in [DOMAIN bucket' -> Nat] /\ DOMAIN bucket' \subseteq 1..nonce
  BY BytesLess DEF World, World0, RollBack, DeriveFails
<1>4. IsRestore(restore', own, Docs')
  BY <1>1, <1>2, NextItemIs DEF RollBack, DeriveFails
<1>5. DOMAIN budget' = DOMAIN budget /\ budget'.limits = budget.limits
  BY TroubleIs DEF World, DeriveFails
<1>6. DOMAIN fate' = DOMAIN fate
  BY DEF DeriveFails
<1> QED
  BY <1>2, <1>3, <1>4, <1>5, <1>6, StaysSound

\* So do the purge and the derivation that follow it.
LEMMA UnitsEnd ==
  ASSUME NEW own, World(own), PurgeOld \/ DeriveRead \/ DeriveWrite
  PROVE  World(own)'
<1>0. DOMAIN restore = {"at", "items", "clean", "puts", "text"}
      /\ restore.items # <<>> /\ AtUnit(restore) /\ restore.at \in {"purge", "derive", "search"}
      /\ (restore.at \in {"derive", "search"} => Item.kind = "versions")
      /\ (Item.kind = "versions" => Item.id \in Docs)
  <2>1. restore.at \in {"purge", "derive", "search"}
    BY DEF PurgeOld, DeriveRead, DeriveWrite
  <2> QED
    BY <2>1, RestoringIs DEF AtUnit
<1>1. UNCHANGED <<nonce, clock, export, file, shelf>>
  BY DEF PurgeOld, DeriveRead, DeriveWrite
<1>2. CASE PurgeOld
  <2>1. UNCHANGED <<store, fate>>
    BY <1>2 DEF PurgeOld
  <2>2. Sound(store') /\ Stored(store', own) /\ Docs' = Docs
    BY <2>1 DEF World, World0, Stored, Docs
  <2>3. bucket' \in [DOMAIN bucket' -> Nat] /\ DOMAIN bucket' \subseteq 1..nonce
    BY <1>2, BytesLess DEF World, World0, PurgeOld
  <2>4. DOMAIN budget' = DOMAIN budget /\ budget'.limits = budget.limits
    BY <1>2, TroubleIs DEF World, PurgeOld
  <2>5. IsRestore(restore', own, Docs')
    <3>1. CASE NextItem(FALSE)
      BY <1>0, <2>2, <3>1, NextItemIs
    <3>2. CASE At("derive") /\ Item.kind = "versions"
      <4>1. /\ restore'.at = "derive" /\ restore'.items = restore.items
            /\ restore'.puts = restore.puts /\ DOMAIN restore' = DOMAIN restore
        BY <1>0, <3>2 DEF At
      <4> QED
        BY <1>0, <2>2, <3>2, <4>1, StaysAtItem
    <3> QED
      BY <1>2, <3>1, <3>2 DEF PurgeOld
  <2> QED
    BY <1>1, <2>1, <2>2, <2>3, <2>4, <2>5, StaysSound
<1>3. CASE DeriveRead /\ ~DeriveFails
  <2>1. UNCHANGED <<store, bucket, fate, budget>>
    BY <1>3 DEF DeriveRead
  <2>2. Sound(store') /\ Stored(store', own) /\ Docs' = Docs
    BY <2>1 DEF World, World0, Stored, Docs
  <2>3. bucket' \in [DOMAIN bucket' -> Nat] /\ DOMAIN bucket' \subseteq 1..nonce
    BY <2>1 DEF World, World0, Shelved
  <2>4. IsRestore(restore', own, Docs')
    <3>1. CASE NextItem(FALSE)
      BY <1>0, <2>2, <3>1, NextItemIs
    <3>2. CASE ~NextItem(FALSE)
      <4>1. PICK text : restore' = [restore EXCEPT !.at = "search", !.text = text]
        BY <1>3, <3>2 DEF DeriveRead
      <4>2. /\ restore'.at = "search" /\ restore'.items = restore.items
            /\ restore'.puts = restore.puts /\ DOMAIN restore' = DOMAIN restore
        BY <1>0, <4>1
      <4>3. Item.kind = "versions"
        BY <1>0, <1>3 DEF DeriveRead
      <4> QED
        BY <1>0, <2>2, <4>2, <4>3, StaysAtItem
    <3> QED
      BY <3>1, <3>2
  <2> QED
    BY <1>1, <2>1, <2>2, <2>3, <2>4, StaysSound
<1>4. CASE DeriveWrite /\ ~DeriveFails
  <2>1. /\ store' = [store EXCEPT !.documents_fts = Put(@, Item.id, restore.text)]
        /\ NextItem(FALSE) /\ UNCHANGED <<bucket, fate, budget>>
    BY <1>4 DEF DeriveWrite
  <2>2. /\ DOMAIN store' = Tables
        /\ store'.documents_fts = Put(store.documents_fts, Item.id, restore.text)
        /\ \A t \in Tables \ {"documents_fts"} : store'[t] = store[t]
    BY <2>1, TablesAre DEF World, World0, Sound
  <2>3. DOMAIN store'.documents_fts = DOMAIN store.documents_fts \union {Item.id}
    BY <2>2, PutIs
  <2>4. /\ store'.documents = store.documents /\ store'.versions = store.versions
        /\ store'.agents = store.agents /\ store'.oauth_clients = store.oauth_clients
        /\ \A p \in Phases : store'[p] = store[p]
    BY <2>2, PhasesAre, TablesAre
  <2>5. Sound(store')
    <3>1. \A p \in Phases : Shaped(store', p)
      BY <2>4 DEF World, World0, Sound, Shaped
    <3>2. \A d \in DOMAIN store'.documents : DocumentFits(store', d)
      BY <2>4 DEF World, World0, Sound, DocumentFits, Holders
    <3>3. VersionsFit(store')
      BY <2>4 DEF World, World0, Sound, VersionsFit
    <3>4. \A c \in DOMAIN store'.oauth_clients : ClientFits(store', c)
      BY <2>4 DEF World, World0, Sound, ClientFits
    <3>5. DOMAIN store'.documents_fts \subseteq DOMAIN store'.documents
      <4>1. Item.kind = "versions"
        BY <1>0, <1>4 DEF DeriveWrite
      <4> QED
        BY <1>0, <2>3, <2>4, <4>1 DEF Docs, World, World0, Sound
    <3> QED
      BY <2>2, <3>1, <3>2, <3>3, <3>4, <3>5 DEF Sound
  <2>6. Stored(store', own) /\ Docs' = Docs
    BY <2>4 DEF World, Stored, Docs
  <2>7. bucket' \in [DOMAIN bucket' -> Nat] /\ DOMAIN bucket' \subseteq 1..nonce
    BY <2>1 DEF World, World0, Shelved
  <2>8. IsRestore(restore', own, Docs')
    BY <1>0, <2>1, <2>6, NextItemIs
  <2> QED
    BY <1>1, <2>1, <2>5, <2>6, <2>7, <2>8, StaysSound
<1>5. CASE DeriveFails /\ restore.at \in {"derive", "search"}
  BY <1>1, <1>5, DerivingFails
<1> QED
  BY <1>2, <1>3, <1>4, <1>5 DEF DeriveRead, DeriveWrite

\* So does the end of a restore, by a report or a crash.
LEMMA RestoreIsOver ==
  ASSUME NEW own, World(own), Report \/ Crash
  PROVE  World(own)' /\ restore' = Idle
<1>1. UNCHANGED <<world, export, file, shelf>> /\ restore' = Idle
  BY DEF Report, Crash
<1>2. IsRestore(restore', own, Docs')
  BY <1>1 DEF IsRestore
<1>3. DOMAIN budget' = DOMAIN budget /\ budget'.limits = budget.limits
  BY TroubleIs DEF World, Report, Crash
<1>4. DOMAIN fate' = DOMAIN fate
  BY DEF Report, Crash
<1> QED
  BY <1>1, <1>2, <1>3, <1>4, StaysSound DEF World, world, World0, Shelved, Stored

\* A step of the restore keeps the world.
LEMMA ApplyingIs ==
  ASSUME NEW own, World(own), Applying
  PROVE  \E new : World(new)'
<1>1. CASE PutBlobs
  BY <1>1, PutsApply
<1>2. CASE ~PutBlobs
  <2>1. World(own)'
    BY <1>2, RowsApply, UnitsCommit, UnitsEnd, RestoreIsOver DEF Applying
  <2> QED
    BY <2>1
<1> QED
  BY <1>1, <1>2

\* Empty tables are sound.
LEMMA EmptyIsSound ==
  /\ Sound(EmptyStore) /\ DOMAIN EmptyStore.versions = {} /\ DOMAIN EmptyStore.documents = {}
  /\ DOMAIN EmptyStore.slug_tombstones = {}
<1>1. DOMAIN EmptyStore = Tables /\ \A t \in Tables : EmptyStore[t] = Empty
  BY DEF EmptyStore
<1>2. DOMAIN Empty = {} /\ \A T : Empty \in [DOMAIN Empty -> T]
  BY DEF Empty
<1>3. /\ EmptyStore.versions = Empty /\ EmptyStore.documents = Empty
      /\ EmptyStore.oauth_clients = Empty /\ EmptyStore.documents_fts = Empty
      /\ EmptyStore.slug_tombstones = Empty
  BY <1>1, TablesAre
<1>4. \A p \in Phases : Shaped(EmptyStore, p)
  <2>1. IsFiniteSet({})
    BY FS_EmptySet
  <2> QED
    BY <1>1, <1>2, <2>1 DEF Shaped, Tables
<1>5. VersionsFit(EmptyStore)
  BY <1>2, <1>3 DEF VersionsFit
<1> HIDE DEF EmptyStore
<1>6. Sound(EmptyStore)
  BY <1>1, <1>2, <1>3, <1>4, <1>5 DEF Sound
<1> QED
  BY <1>2, <1>3, <1>6

\* The loss of both stores keeps the world.
LEMMA LosingIs ==
  ASSUME NEW own, World(own), Lose
  PROVE  World(own)'
<1>1. /\ store' = EmptyStore /\ bucket' = Empty /\ ~Restoring
      /\ UNCHANGED <<nonce, clock, export, file, shelf, restore>>
      /\ DOMAIN fate' = DOMAIN fate
  BY DEF Lose
<1>2. Sound(store') /\ Stored(store', own)
  BY <1>1, EmptyIsSound DEF Stored
<1>3. bucket' \in [DOMAIN bucket' -> Nat] /\ DOMAIN bucket' \subseteq 1..nonce
  BY <1>1 DEF Empty
<1>4. restore' = Idle
  <2>1. restore.at = "idle"
    BY DEF Lose, Restoring
  <2>2. IsRestore(restore, own, Docs)
    BY DEF World
  <2> QED
    BY <1>1, <2>1, <2>2 DEF IsRestore
<1>5. DOMAIN budget' = DOMAIN budget /\ budget'.limits = budget.limits
  BY SpendIs DEF Lose, World
<1> QED
  BY <1>1, <1>2, <1>3, <1>4, <1>5, StaysSound DEF IsRestore

\* So does a tick.
LEMMA TickingIs ==
  ASSUME NEW own, World(own), Tick
  PROVE  World(own)'
<1>1. DOMAIN budget' = DOMAIN budget /\ budget'.limits = budget.limits
  BY SpendIs DEF Tick, World
<1>2. clock' = clock + 1 /\ UNCHANGED <<store, bucket, nonce, export, file, shelf, restore, fate>>
  BY DEF Tick
<1>3. clock' \in Nat
  BY <1>2 DEF World, World0
<1> QED
  BY <1>1, <1>2, <1>3 DEF World, World0, Shelved, Owned, Stored, Remembered, IsFile, Docs

\* The world at first.
LEMMA StartingIs ==
  ASSUME Init
  PROVE  \E own : World(own)
<1>1. PICK b \in Budgets :
    /\ store = b.start
    /\ nonce = Cardinality(DOMAIN b.start.versions)
    /\ bucket = [k \in {v.key : v \in {b.start.versions[x] : x \in {y \in DOMAIN b.start.versions :
                    b.start.documents[y[1]].live}}} |-> k]
    /\ clock = 1
    /\ export = Idle
    /\ file = NoFile
    /\ shelf = <<>>
    /\ restore = Idle
    /\ fate = [restored |-> -1, blamed |-> {}, contested |-> {}]
    /\ budget = b
  BY DEF Init
<1>2. IsBudget(b)
  BY BackupAssumption
<1>3. /\ Sound(store) /\ IsFiniteSet(DOMAIN store.versions)
      /\ \A x, y \in DOMAIN store.versions :
           /\ store.versions[x].key \in 1..nonce
           /\ store.versions[x].key = store.versions[y].key => x = y
  BY <1>1, <1>2 DEF IsBudget
<1>4. nonce \in Nat
  BY <1>1, <1>3, FS_CardinalityType
<1> DEFINE With(k) == {x \in DOMAIN store.versions : store.versions[x].key = k}
           own == [k \in 1..nonce |-> IF With(k) = {} THEN <<0, 0>> ELSE CHOOSE x \in With(k) : TRUE]
<1>5. DOMAIN store.versions \subseteq Nat \X Nat
  <2>1. DOMAIN store.versions \subseteq (DOMAIN store.documents) \X (Nat \ {0})
    BY <1>3 DEF Sound, VersionsFit
  <2>2. DOMAIN store.documents \subseteq Nat
    BY <1>3, PhasesAre DEF Sound, Shaped
  <2> QED
    BY <2>1, <2>2
<1>6. Owned(own)
  <2>1. ASSUME NEW k \in 1..nonce PROVE own[k] \in Nat \X Nat
    <3>1. CASE With(k) = {}
      BY <3>1
    <3>2. CASE With(k) # {}
      <4>1. own[k] \in With(k)
        BY <3>2
      <4> QED
        BY <1>5, <4>1
    <3> QED
      BY <3>1, <3>2
  <2> QED
    BY <1>4, <2>1 DEF Owned
<1>7. Stored(store, own)
  <2>1. ASSUME NEW x \in DOMAIN store.versions PROVE store.versions[x].key \in Keys(own, x)
    <3> DEFINE k == store.versions[x].key
    <3>1. k \in 1..nonce /\ x \in With(k) /\ \A y \in With(k) : y = x
      BY <1>3
    <3>2. own[k] = x
      BY <3>1
    <3> QED
      BY <3>1, <3>2 DEF Keys
  <2> QED
    BY <2>1 DEF Stored
<1> HIDE DEF own
<1>8. Shelved
  <2> DEFINE S == {v.key : v \in {store.versions[x] : x \in {y \in DOMAIN store.versions :
                    store.documents[y[1]].live}}}
  <2>1. S \subseteq 1..nonce
    BY <1>3
  <2>2. bucket = [k \in S |-> k]
    BY <1>1
  <2> HIDE DEF S
  <2> QED
    BY <1>4, <2>1, <2>2 DEF Shelved
<1>9. Remembered /\ budget.limits \subseteq Nat
  <2>1. /\ DOMAIN b = {"start", "limits", "writers", "writes", "ticks", "trouble", "walks",
                      "losses", "restores", "racing", "drill"}
        /\ b.limits \subseteq Nat
    BY <1>2 DEF IsBudget
  <2> QED
    BY <1>1, <2>1 DEF Remembered, NoFile
<1>10. IsFile(file, own)
  <2>1. <<>> \in Seq(Seq(UnitsOf(own)))
    OBVIOUS
  <2> QED
    BY <1>1, <2>1 DEF IsFile, NoFile
<1>11. IsShelf(shelf, own)
  <2> DEFINE none == {}
  <2>1. shelf \in Seq(none) /\ \A f \in none : IsFile(f, own)
    BY <1>1
  <2> HIDE DEF none
  <2> QED
    BY <2>1 DEF IsShelf
<1>12. IsExport(export, own) /\ IsRestore(restore, own, Docs) /\ clock \in Nat
  BY <1>1 DEF IsExport, IsRestore
<1> QED
  BY <1>3, <1>4, <1>6, <1>7, <1>8, <1>9, <1>10, <1>11, <1>12 DEF World, World0

\* Every step keeps the world.
LEMMA WorldGoesOn ==
  ASSUME NEW own, World(own), [Next]_vars
  PROVE  \E new : World(new)'
<1>1. CASE Writing
  BY <1>1, WritingWorld
<1>2. CASE Tick \/ Lose \/ Walking \/ Submitting
  <2>1. World(own)'
    BY <1>2, TickingIs, LosingIs, WalkingIs, SubmittingIs
  <2> QED
    BY <2>1
<1>3. CASE Applying
  BY <1>3, ApplyingIs
<1>4. CASE UNCHANGED vars
  <2>1. World(own)'
    BY <1>4 DEF vars, World, World0, Shelved, Owned, Stored, Remembered, IsFile, Docs
  <2> QED
    BY <2>1
<1> QED
  BY <1>1, <1>2, <1>3, <1>4 DEF Next

\* The world is what TypeOK says of it.
LEMMA WorldIsTyped ==
  ASSUME NEW own, World(own)
  PROVE  TypeOK
BY DEF World, World0, Shelved, IsExport, IsRestore, Idle, TypeOK

\* The tables stay sound, and the walk and the restore where they can be.
THEOREM BackupIsTyped == Spec => []TypeOK
<1> DEFINE Inv == \E own : World(own)
<1>1. Init => Inv
  BY StartingIs
<1>2. Inv /\ [Next]_vars => Inv'
  BY WorldGoesOn
<1>3. Inv => TypeOK
  BY WorldIsTyped
<1> HIDE DEF Inv
<1> QED
  BY <1>1, <1>2, <1>3, PTL DEF Spec

-----------------------------------------------------------------------------
(* Names.                                                                  *)

\* What is to be applied neither takes a retired name nor retires a live one.
NamesKept(items) ==
  \A i \in DOMAIN items :
    /\ items[i].kind = "documents" =>
         items[i].row.slug \notin DOMAIN store.slug_tombstones \ fate.contested
    /\ items[i].kind = "slug_tombstones" =>
         /\ items[i].id \in fate.contested \/ Holders(store, items[i].id) = {}
         /\ \A k \in DOMAIN items : items[k].kind = "documents" => items[k].row.slug # items[i].id
Names == NamesStayRetired /\ (Restoring => NamesKept(restore.items))

\* The items that are left.
Fewer(new, old) == \A i \in DOMAIN new : \E j \in DOMAIN old : new[i] = old[j]
Onward == restore'.at = "idle" \/ (Restoring /\ Fewer(restore'.items, restore.items))

\* What is left to apply still keeps names apart.
LEMMA FewerNames ==
  ASSUME NEW old, NamesKept(old), NEW new, Fewer(new, old)
  PROVE  NamesKept(new)
BY DEF NamesKept, Fewer

\* The next item leaves fewer.
LEMMA NextIsOnward ==
  ASSUME NEW own, World(own), restore.at \in {"item", "purge", "derive", "search"},
         restore.items # <<>>, NEW failed, NextItem(failed)
  PROVE  Onward
<1>1. restore'.items = Tail(restore.items)
  BY NextItemIs
<1>2. \A i \in DOMAIN Tail(restore.items) :
         i + 1 \in DOMAIN restore.items /\ Tail(restore.items)[i] = restore.items[i + 1]
  BY RestoringIs, TailOf
<1> QED
  BY <1>1, <1>2 DEF Onward, Fewer, Restoring

\* A restore ends, or has no item it did not have.
LEMMA ApplyingGoesOn ==
  ASSUME NEW own, World(own), Applying
  PROVE  Onward
<1>1. CASE Report \/ Crash
  BY <1>1, RestoreIsOver DEF Onward, Idle
<1>2. CASE ~(Report \/ Crash)
  <2>1. restore.at \in {"item", "purge", "derive", "search"} /\ restore.items # <<>>
    <3>1. restore.at \in {"item", "purge", "derive", "search"}
      BY <1>2 DEF Applying, ApplyRow, PutBlobs, CommitUnit, PurgeOld, DeriveRead, DeriveWrite, AtItem
    <3>2. restore.at = "item" => restore.items # <<>>
      BY <1>2 DEF Applying, ApplyRow, PutBlobs, CommitUnit, PurgeOld, DeriveRead, DeriveWrite, AtItem
    <3> QED
      BY <3>1, <3>2, RestoringIs DEF AtUnit
  <2>2. CASE \E failed : NextItem(failed)
    BY <2>1, <2>2, NextIsOnward
  <2>3. CASE restore'.items = restore.items
    BY <2>1, <2>3 DEF Onward, Fewer, Restoring
  <2>4. "items" \in DOMAIN restore /\ DOMAIN restore = {"at", "items", "clean", "puts", "text"}
    BY <2>1, RestoringIs
  <2>5. CASE ApplyRow
    BY <2>2, <2>5 DEF ApplyRow
  <2>6. CASE PutBlobs
    BY <2>2, <2>3, <2>4, <2>6 DEF PutBlobs
  <2>7. CASE CommitUnit
    BY <2>2, <2>3, <2>4, <2>7 DEF CommitUnit, RollBack, At
  <2>8. CASE PurgeOld
    BY <2>2, <2>3, <2>4, <2>8 DEF PurgeOld, At
  <2>9. CASE DeriveRead
    BY <2>2, <2>3, <2>4, <2>9 DEF DeriveRead, DeriveFails, RollBack
  <2>10. CASE DeriveWrite
    BY <2>2, <2>10 DEF DeriveWrite, DeriveFails, RollBack
  <2> QED
    BY <1>2, <2>5, <2>6, <2>7, <2>8, <2>9, <2>10 DEF Applying
<1> QED
  BY <1>1, <1>2

\* No step of a restore makes a name contested, and few touch names at all.
LEMMA NamesApplied ==
  ASSUME NEW own, World(own), Applying
  PROVE  /\ fate'.contested = fate.contested
         /\ \/ store'.documents = store.documents /\ store'.slug_tombstones = store.slug_tombstones
            \/ /\ AtItem({"slug_tombstones"}) /\ store'.documents = store.documents
               /\ DOMAIN store'.slug_tombstones = DOMAIN store.slug_tombstones \union {Item.id}
            \/ /\ AtItem({"documents"}) /\ store'.documents = Put(store.documents, Item.id, Item.row)
               /\ store'.slug_tombstones = store.slug_tombstones
<1>1. fate'.contested = fate.contested
  BY DEF Applying, ApplyRow, PutBlobs, CommitUnit, PurgeOld, DeriveRead, DeriveWrite, DeriveFails,
         Report, Crash, World, Remembered
<1>2. CASE UNCHANGED store
  BY <1>1, <1>2
<1>3. CASE AtItem(Phases \ {"documents"}) /\ RowApplied
  BY <1>1, <1>3, RowAppliedIs DEF AtItem
<1>4. CASE AtItem({"documents", "versions"}) /\ Unput = {} /\ Fits(Item) /\ store' = UnitStore
  BY <1>1, <1>4, UnitStoreIs DEF AtItem
<1>5. CASE store' = [store EXCEPT !.documents_fts = Put(@, Item.id, restore.text)]
  BY <1>1, <1>5
<1> QED
  BY <1>2, <1>3, <1>4, <1>5 DEF Applying, ApplyRow, RowApplied, PutBlobs, CommitUnit, PurgeOld,
         DeriveRead, DeriveWrite, DeriveFails, Report, Crash, world

\* A step of the restore keeps names apart.
LEMMA NamesGoThrough ==
  ASSUME NEW own, World(own), Names, Applying
  PROVE  Names'
<1>1. Onward
  BY ApplyingGoesOn
<1>2. fate'.contested = fate.contested
  BY NamesApplied
<1>3. CASE store'.documents = store.documents /\ store'.slug_tombstones = store.slug_tombstones
  <2>1. NamesStayRetired'
    BY <1>2, <1>3 DEF Names, NamesStayRetired, Holders
  <2>2. ASSUME Fewer(restore'.items, restore.items), NamesKept(restore.items) PROVE NamesKept(restore.items)'
    <3>1. NamesKept(restore'.items)
      BY <2>2, FewerNames
    <3> QED
      BY <1>2, <1>3, <3>1 DEF NamesKept, Holders
  <2> QED
    BY <1>1, <2>1, <2>2 DEF Names, Onward, Restoring
<1>4. CASE /\ AtItem({"slug_tombstones"}) /\ store'.documents = store.documents
           /\ DOMAIN store'.slug_tombstones = DOMAIN store.slug_tombstones \union {Item.id}
  <2>0. restore.items \in Seq(ItemsOf(own)) /\ restore.items # <<>> /\ Restoring
    BY <1>4, RestoringIs DEF AtItem, Restoring
  <2>1. 1 \in DOMAIN restore.items /\ Item = restore.items[1] /\ Item.kind = "slug_tombstones"
    BY <1>4, <2>0, TailOf DEF AtItem, Item
  <2>2. NamesKept(restore.items)
    BY <2>0 DEF Names
  <2>3. /\ Item.id \in fate.contested \/ Holders(store, Item.id) = {}
        /\ \A k \in DOMAIN restore.items :
             restore.items[k].kind = "documents" => restore.items[k].row.slug # Item.id
    BY <2>1, <2>2 DEF NamesKept
  <2>4. NamesStayRetired'
    BY <1>2, <1>4, <2>3 DEF Names, NamesStayRetired, Holders
  <2>5. ASSUME Fewer(restore'.items, restore.items) PROVE NamesKept(restore.items)'
    <3>1. NamesKept(restore'.items)
      BY <2>2, <2>5, FewerNames
    <3>2. \A i \in DOMAIN restore'.items :
             restore'.items[i].kind = "documents" => restore'.items[i].row.slug # Item.id
      BY <2>3, <2>5 DEF Fewer
    <3> QED
      BY <1>2, <1>4, <3>1, <3>2 DEF NamesKept, Holders
  <2> QED
    BY <1>1, <2>4, <2>5 DEF Names, Onward, Restoring
<1>5. CASE /\ AtItem({"documents"}) /\ store'.documents = Put(store.documents, Item.id, Item.row)
           /\ store'.slug_tombstones = store.slug_tombstones
  <2>0. restore.items \in Seq(ItemsOf(own)) /\ restore.items # <<>> /\ Restoring
    BY <1>5, RestoringIs DEF AtItem, Restoring
  <2>1. 1 \in DOMAIN restore.items /\ Item = restore.items[1] /\ Item.kind = "documents"
    BY <1>5, <2>0, TailOf DEF AtItem, Item
  <2>2. NamesKept(restore.items)
    BY <2>0 DEF Names
  <2>3. /\ Item.row.slug \notin DOMAIN store.slug_tombstones \ fate.contested
        /\ \A i \in DOMAIN restore.items :
             restore.items[i].kind = "slug_tombstones" => Item.row.slug # restore.items[i].id
    BY <2>1, <2>2 DEF NamesKept
  <2>4. store'.documents = [z \in DOMAIN store.documents \union {Item.id} |->
                              IF z = Item.id THEN Item.row ELSE store.documents[z]]
    BY <1>5, PutIs
  <2>5. \A slug : slug # Item.row.slug => Holders(store', slug) \subseteq Holders(store, slug)
    BY <2>4 DEF Holders
  <2>6. NamesStayRetired'
    BY <1>2, <1>5, <2>3, <2>5 DEF Names, NamesStayRetired
  <2>7. ASSUME Fewer(restore'.items, restore.items) PROVE NamesKept(restore.items)'
    <3>1. NamesKept(restore'.items)
      BY <2>2, <2>7, FewerNames
    <3>2. \A i \in DOMAIN restore'.items :
             restore'.items[i].kind = "slug_tombstones" => Item.row.slug # restore'.items[i].id
      BY <2>3, <2>7 DEF Fewer
    <3> QED
      BY <1>2, <1>5, <2>5, <3>1, <3>2 DEF NamesKept
  <2> QED
    BY <1>1, <2>6, <2>7 DEF Names, Onward, Restoring
<1> QED
  BY <1>3, <1>4, <1>5, NamesApplied

\* So does a request, but for the names it retires or takes.
LEMMA NamesAreAsked ==
  ASSUME NEW own, World(own), Names, Writing
  PROVE  Names'
<1>1. Request /\ Asked /\ Sound(store')
  BY WritingWorld
<1>2. /\ fate'.contested = fate.contested \union (IF Restoring THEN Claimed(store') ELSE {})
      /\ restore' = restore
  BY <1>1 DEF Asked
<1>3. NamesStayRetired'
  BY <1>1, <1>2 DEF Names, NamesStayRetired, Request, NamesGoOn
<1>4. ASSUME Restoring, NamesKept(restore.items) PROVE NamesKept(restore.items)'
  <2>1. fate'.contested = fate.contested \union Claimed(store')
    BY <1>2, <1>4
  <2>2. ASSUME NEW i \in DOMAIN restore.items, restore.items[i].kind = "documents"
        PROVE  restore.items[i].row.slug \notin DOMAIN store'.slug_tombstones \ fate'.contested
    BY <1>4, <2>1, <2>2 DEF NamesKept, Claimed
  <2>3. ASSUME NEW i \in DOMAIN restore.items, restore.items[i].kind = "slug_tombstones"
        PROVE  restore.items[i].id \in fate'.contested \/ Holders(store', restore.items[i].id) = {}
    <3> DEFINE slug == restore.items[i].id
    <3>1. slug \in Nat \ {0}
      <4>1. restore.items \in Seq(ItemsOf(own))
        <5>1. restore # Idle
          BY <1>4 DEF Restoring, Idle
        <5> QED
          BY <5>1 DEF World, IsRestore
      <4>2. restore.items[i] \in ItemsOf(own)
        BY <4>1
      <4> QED
        BY <4>2, ItemKinds
    <3>2. slug \in fate.contested \/ Holders(store, slug) = {}
      BY <1>4, <2>3 DEF NamesKept
    <3> HIDE DEF slug
    <3>3. ASSUME NEW d \in Holders(store', slug), Holders(store, slug) = {} PROVE slug \in Claimed(store')
      <4>1. d \in DOMAIN store'.documents /\ store'.documents[d].slug = slug
        BY DEF Holders
      <4>2. d \in Docs
        BY <1>1, <3>1, <4>1 DEF Request, DocumentsGoOn
      <4>3. store.documents[d].slug # slug
        BY <3>3, <4>2 DEF Holders, Docs
      <4> QED
        BY <4>1, <4>2, <4>3 DEF Claimed
    <3>4. slug \in fate'.contested \/ Holders(store', slug) = {}
      BY <2>1, <3>2, <3>3
    <3> QED
      BY <3>4 DEF slug
  <2> QED
    BY <1>2, <1>4, <2>2, <2>3 DEF NamesKept
<1> QED
  BY <1>2, <1>3, <1>4 DEF Names, Restoring

\* So does every step.
LEMMA NamesGoOnward ==
  ASSUME NEW own, World(own), Names, [Next]_vars
  PROVE  Names'
<1>1. CASE Writing
  BY <1>1, NamesAreAsked
<1>2. CASE Applying
  BY <1>2, NamesGoThrough
<1>3. CASE Lose
  <2>1. store' = EmptyStore /\ restore' = restore /\ ~Restoring
    BY <1>3 DEF Lose
  <2> QED
    BY <2>1, EmptyIsSound DEF Names, NamesStayRetired, Restoring
<1>4. CASE Submitting
  <2>1. UNCHANGED <<world, fate>> /\ Promised(restore'.items)
    BY <1>4, SubmittingIs
  <2>2. NamesKept(restore'.items)
    BY <2>1 DEF NamesKept, Promised
  <2>3. NamesKept(restore.items)'
    BY <2>1, <2>2 DEF NamesKept, world
  <2> QED
    BY <2>1, <2>3 DEF Names, NamesStayRetired, world
<1>5. CASE Tick \/ Walking \/ UNCHANGED vars
  <2>1. UNCHANGED <<store, restore>> /\ fate'.contested = fate.contested
    BY <1>5, WalkingIs DEF Tick, vars, world
  <2> QED
    BY <2>1 DEF Names, NamesKept, NamesStayRetired, Restoring
<1> QED
  BY <1>1, <1>2, <1>3, <1>4, <1>5 DEF Next

\* And so they are at first.
LEMMA NamesAtFirst ==
  ASSUME Init
  PROVE  Names
<1>1. NamesStayRetired
  BY BackupAssumption DEF Init, IsBudget, NamesStayRetired
<1> QED
  BY <1>1 DEF Init, Names, Restoring, Idle

\* Only a name that a request retires or takes while a restore is under way can
\* end up both retired and held by a document: the plan keeps every other apart.
THEOREM NamesOutliveRestores == Spec => []NamesStayRetired
<1> DEFINE Inv == Names /\ \E own : World(own)
<1>1. Init => Inv
  BY StartingIs, NamesAtFirst
<1>2. Inv /\ [Next]_vars => Inv'
  BY WorldGoesOn, NamesGoOnward
<1>3. Inv => NamesStayRetired
  BY DEF Names
<1> HIDE DEF Inv
<1> QED
  BY <1>1, <1>2, <1>3, PTL DEF Spec

-----------------------------------------------------------------------------
(* Bytes.                                                                  *)

\* Versions that come without bytes are of a dead document, and stay so.
LooseKept(items) ==
  \A i \in DOMAIN items : items[i].kind = "versions" =>
    /\ items[i].live \/ ~store.documents[items[i].id].live
    /\ \A k \in DOMAIN items : items[k].kind = "documents" => items[k].id # items[i].id
\* What a unit has put is there, and nobody's yet.
PutsKept ==
  \A no \in DOMAIN restore.puts :
    /\ restore.puts[no] \in DOMAIN bucket /\ restore.puts[no] \notin Item.versions[no].old
    /\ \A x \in DOMAIN store.versions : store.versions[x].key # restore.puts[no]
\* What a unit is about to purge is nobody's any more.
PurgeSpares ==
  \A x \in DOMAIN store.versions : store.versions[x].key \notin OldKeys \union Item.extraKeys
Serving ==
  /\ ServedIsStored
  /\ Restoring => LooseKept(restore.items)
  /\ restore.at = "item" => PutsKept
  /\ restore.at = "purge" => PurgeSpares

\* The keys of a unit are those of its document.
LEMMA UnitKeys ==
  ASSUME NEW own, World(own), restore.at \in {"item", "purge", "derive", "search"}, AtUnit(restore)
  PROVE  /\ \A no \in DOMAIN restore.puts : /\ no \in DOMAIN Item.versions
                                            /\ restore.puts[no] \in Keys(own, <<Item.id, no>>)
         /\ \A k \in Minted : \E no : k \in Keys(own, <<Item.id, no>>)
         /\ \A k \in OldKeys : \E no \in DOMAIN Item.versions : /\ Item.versions[no].prep
                                                                /\ k \in Keys(own, <<Item.id, no>>)
         /\ \A k \in Item.extraKeys : \E x \in Item.extra : k \in Keys(own, x)
         /\ \A x \in Item.extra : x[1] = Item.id /\ x[2] \notin DOMAIN Item.versions
         /\ \A no \in DOMAIN Item.versions : Item.versions[no].old \subseteq Keys(own, <<Item.id, no>>)
<1>1. \A no \in DOMAIN restore.puts : /\ no \in DOMAIN Item.versions
                                      /\ restore.puts[no] \in Keys(own, <<Item.id, no>>)
  BY RestoringIs
<1>2. /\ \A no \in DOMAIN Item.versions : Item.versions[no].old \subseteq Keys(own, <<Item.id, no>>)
      /\ \A x \in Item.extra : x[1] = Item.id /\ x[2] \notin DOMAIN Item.versions
      /\ \A k \in Item.extraKeys : \E x \in Item.extra : k \in Keys(own, x)
  <2>1. Item.kind \in {"documents", "versions"} /\ Item \in ItemsOf(own)
    BY RestoringIs DEF AtUnit, Item
  <2>2. ItsOwn(Item, own)
    BY <2>1, ItemKinds
  <2> QED
    BY <2>2 DEF ItsOwn
<1>3. \A k \in Minted : \E no : k \in Keys(own, <<Item.id, no>>)
  BY <1>1 DEF Minted
<1>4. ASSUME NEW k \in OldKeys
      PROVE  \E no \in DOMAIN Item.versions : Item.versions[no].prep /\ k \in Keys(own, <<Item.id, no>>)
  <2>1. PICK no \in {n \in DOMAIN Item.versions : Item.versions[n].prep} : k \in Item.versions[no].old
    BY <1>4 DEF OldKeys
  <2> QED
    BY <1>2, <2>1
<1> QED
  BY <1>1, <1>2, <1>3, <1>4

\* A key is of one place, and the next one of none.
LEMMA KeysApart ==
  ASSUME NEW own, World(own)
  PROVE  /\ \A x, y : \A k : k \in Keys(own, x) /\ k \in Keys(own, y) => x = y
         /\ \A x : Keys(own, x) \subseteq 1..nonce
         /\ nonce \in Nat /\ nonce + 1 \notin 1..nonce
         /\ \A x \in DOMAIN store.versions : store.versions[x].key \in Keys(own, x)
BY DEF Keys, World, Owned, Stored

\* Bytes nobody serves may go.
LEMMA BytesGo ==
  ASSUME ServedIsStored, UNCHANGED store, fate.blamed \subseteq fate'.blamed,
         NEW lost, bucket' \in {Without(bucket, lost), bucket},
         \A x \in DOMAIN store.versions :
           x[1] \in fate'.blamed \/ store.versions[x].key \notin lost
  PROVE  ServedIsStored'
<1>1. \A k \in DOMAIN bucket \ lost : k \in DOMAIN bucket'
  BY DEF Without
<1> QED
  BY <1>1 DEF ServedIsStored, Live, Docs

\* What is left to apply still keeps dead documents dead.
LEMMA FewerLoose ==
  ASSUME NEW old, LooseKept(old), NEW new, Fewer(new, old)
  PROVE  LooseKept(new)
BY DEF LooseKept, Fewer

\* A failed unit's bytes, which no version has, are deleted.
LEMMA RollsBack ==
  ASSUME NEW own, World(own), Serving, AtItem({"documents", "versions"}), RollBack,
         UNCHANGED <<store, fate>>
  PROVE  ServedIsStored'
<1>1. PutsKept
  BY DEF Serving, AtItem
<1>2. \A x \in DOMAIN store.versions : store.versions[x].key \notin Minted
  BY <1>1 DEF PutsKept, Minted
<1> QED
  BY <1>2, BytesGo DEF RollBack, Serving

\* Those of loose versions are deleted although they have committed: the document
\* is blamed.
LEMMA RollsBackLate ==
  ASSUME NEW own, World(own), Serving, restore.at \in {"derive", "search"}, DeriveFails
  PROVE  ServedIsStored'
<1>1. AtUnit(restore)
  BY RestoringIs
<1>2. fate'.blamed = fate.blamed \union {Item.id} /\ UNCHANGED store
  BY DEF DeriveFails, World, Remembered
<1>3. ASSUME NEW x \in DOMAIN store.versions, store.versions[x].key \in Minted
      PROVE  x[1] \in fate'.blamed
  <2>1. PICK no : store.versions[x].key \in Keys(own, <<Item.id, no>>)
    BY <1>1, <1>3, UnitKeys
  <2>2. x = <<Item.id, no>>
    BY <2>1, KeysApart
  <2> QED
    BY <1>2, <2>2
<1>4. bucket' \in {Without(bucket, Minted), bucket}
  BY DEF DeriveFails, RollBack
<1> QED
  BY <1>2, <1>3, <1>4, BytesGo DEF Serving

\* What a unit replaced is purged.
LEMMA Purges ==
  ASSUME NEW own, World(own), Serving, PurgeOld
  PROVE  ServedIsStored'
<1>1. \A x \in DOMAIN store.versions : store.versions[x].key \notin OldKeys \union Item.extraKeys
  BY DEF Serving, PurgeOld, PurgeSpares
<1>2. bucket' \in {Without(bucket, OldKeys \union Item.extraKeys), bucket} /\ UNCHANGED <<store, fate>>
  BY DEF PurgeOld
<1> QED
  BY <1>1, <1>2, BytesGo DEF Serving

\* A unit that commits has the bytes it serves, and frees what it replaced.
LEMMA UnitsServe ==
  ASSUME NEW own, World(own), Serving, AtItem({"documents", "versions"}), Unput = {}, Fits(Item),
         store' = UnitStore, UNCHANGED <<bucket, fate>>
  PROVE  /\ ServedIsStored'
         /\ \A i \in DOMAIN restore.items : restore.items[i].kind = "versions" =>
              restore.items[i].live \/ ~store'.documents[restore.items[i].id].live
         /\ \A x \in DOMAIN store'.versions : store'.versions[x].key \notin OldKeys \union Item.extraKeys
<1>0. /\ restore.at = "item" /\ restore.items # <<>> /\ AtUnit(restore) /\ Restoring
      /\ Item.kind \in {"documents", "versions"}
  BY DEF AtItem, AtUnit, Item, Restoring
<1>1. /\ Item \in ItemsOf(own) /\ (Item.kind = "versions" => Item.id \in Docs)
      /\ restore.items \in Seq(ItemsOf(own))
  BY <1>0, RestoringIs
<1>2. 1 \in DOMAIN restore.items /\ Item = restore.items[1]
  BY <1>0, <1>1, TailOf DEF Item
<1>3. PutsKept /\ LooseKept(restore.items) /\ ServedIsStored
  BY <1>0 DEF Serving
<1>4. /\ store'.versions = UnitVersions
      /\ Item.kind = "versions" => store'.documents = store.documents
      /\ Item.kind = "documents" =>
           store'.documents = [z \in DOMAIN store.documents \union {Item.id} |->
                                 IF z = Item.id THEN Item.row ELSE store.documents[z]]
  BY UnitStoreIs, PutIs
<1>5. /\ DOMAIN UnitVersions = (DOMAIN store.versions \ Item.extra) \union Chosen
      /\ \A no \in DOMAIN Item.versions :
           /\ <<Item.id, no>> \in DOMAIN UnitVersions /\ UnitVersions[<<Item.id, no>>] = RowOf(no)
           /\ RowOf(no).key \in Keys(own, <<Item.id, no>>)
      /\ \A x \in DOMAIN UnitVersions \ Chosen :
           x \in DOMAIN store.versions /\ UnitVersions[x] = store.versions[x]
  BY UnitVersionsAre
<1>6. ASSUME NEW no \in DOMAIN Item.versions, Item.versions[no].prep
      PROVE  RowOf(no).key \in DOMAIN bucket /\ RowOf(no).key \notin Item.versions[no].old
  <2>1. no \in DOMAIN restore.puts /\ RowOf(no).key = restore.puts[no]
    BY <1>6 DEF Unput, RowOf
  <2> QED
    BY <1>3, <2>1 DEF PutsKept
<1>7. ASSUME NEW d \in DOMAIN store'.documents, d \notin fate.blamed, store'.documents[d].live,
             NEW n \in {store'.documents[d].cur, store'.documents[d].pub} \ {0}
      PROVE  <<d, n>> \in DOMAIN store'.versions /\ store'.versions[<<d, n>>].key \in DOMAIN bucket
  <2>1. CASE d = Item.id /\ Item.kind = "documents"
    <3>1. store'.documents[d] = Item.row /\ Renderable(Item)
      BY <1>1, <1>4, <2>1, ItemKinds
    <3>2. n \in Needs(Item.row) /\ Item.row.live
      BY <1>7, <3>1 DEF Needs
    <3>3. n \in DOMAIN Item.versions /\ Item.versions[n].prep
      BY <3>1, <3>2 DEF Renderable
    <3> QED
      BY <1>4, <1>5, <1>6, <2>1, <3>3
  <2>2. CASE ~(d = Item.id /\ Item.kind = "documents")
    <3>1. d \in DOMAIN store.documents /\ store'.documents[d] = store.documents[d]
      <4>1. CASE Item.kind = "versions"
        BY <1>4, <4>1
      <4>2. CASE Item.kind = "documents"
        BY <1>4, <2>2, <4>2
      <4> QED
        BY <1>0, <4>1, <4>2
    <3>2. <<d, n>> \in DOMAIN store.versions /\ store.versions[<<d, n>>].key \in DOMAIN bucket
      BY <1>3, <1>7, <3>1 DEF ServedIsStored, Live, Docs
    <3>3. CASE d # Item.id
      <4>1. <<d, n>> \notin Chosen
        BY <3>3 DEF Chosen
      <4>2. <<d, n>> \notin Item.extra
        <5>1. \A x \in Item.extra : x[1] = Item.id
          BY <1>0, UnitKeys
        <5>2. <<d, n>>[1] = d
          OBVIOUS
        <5> QED
          BY <3>3, <5>1, <5>2
      <4> QED
        BY <1>4, <1>5, <3>2, <4>1, <4>2
    <3>4. CASE d = Item.id
      <4>1. Item.kind = "versions"
        BY <1>0, <2>2, <3>4
      <4>2. Item.live
        <5>1. Item.live \/ ~store.documents[Item.id].live
          BY <1>2, <1>3, <4>1 DEF LooseKept
        <5> QED
          BY <1>7, <3>1, <3>4, <5>1
      <4>3. \A no \in DOMAIN Item.versions : Item.versions[no].prep
        BY <1>1, <4>1, <4>2, ItemKinds
      <4>4. Item.extra = {}
        BY <1>1, <4>1, ItemKinds
      <4>5. CASE n \in DOMAIN Item.versions
        BY <1>4, <1>5, <1>6, <3>4, <4>3, <4>5
      <4>6. CASE n \notin DOMAIN Item.versions
        <5>1. <<d, n>> \notin Chosen
          BY <4>6 DEF Chosen
        <5> QED
          BY <1>4, <1>5, <3>2, <4>4, <5>1
      <4> QED
        BY <4>5, <4>6
    <3> QED
      BY <3>3, <3>4
  <2> QED
    BY <2>1, <2>2
<1>8. ServedIsStored'
  BY <1>7 DEF ServedIsStored, Live, Docs
<1>9. ASSUME NEW i \in DOMAIN restore.items, restore.items[i].kind = "versions"
      PROVE  restore.items[i].live \/ ~store'.documents[restore.items[i].id].live
  <2>1. restore.items[i].live \/ ~store.documents[restore.items[i].id].live
    BY <1>3, <1>9 DEF LooseKept
  <2>2. CASE Item.kind = "versions"
    BY <1>4, <2>1, <2>2
  <2>3. CASE Item.kind = "documents"
    <3>1. Item.id # restore.items[i].id
      BY <1>2, <1>3, <1>9, <2>3 DEF LooseKept
    <3>2. restore.items[i].id \in DOMAIN store.documents
      BY <1>0, <1>9, RestoringIs DEF Docs
    <3> QED
      BY <1>4, <2>1, <2>3, <3>1, <3>2
  <2> QED
    BY <1>0, <2>2, <2>3
<1>10. ASSUME NEW x \in DOMAIN UnitVersions PROVE UnitVersions[x].key \notin OldKeys \union Item.extraKeys
  <2> DEFINE k == UnitVersions[x].key
  <2>1. k \in Keys(own, x)
    BY UnitVersionsAre
  <2>2. ASSUME k \in OldKeys PROVE FALSE
    <3>1. PICK no \in DOMAIN Item.versions : Item.versions[no].prep /\ k \in Keys(own, <<Item.id, no>>)
      BY <1>0, <2>2, UnitKeys
    <3>2. x = <<Item.id, no>>
      BY <2>1, <3>1, KeysApart
    <3>3. k = RowOf(no).key /\ k \notin Item.versions[no].old
      BY <1>5, <1>6, <3>1, <3>2
    <3>4. PICK m \in {n \in DOMAIN Item.versions : Item.versions[n].prep} : k \in Item.versions[m].old
      BY <2>2 DEF OldKeys
    <3>5. k \in Keys(own, <<Item.id, m>>)
      BY <1>0, <3>4, UnitKeys
    <3>6. <<Item.id, m>> = <<Item.id, no>>
      BY <3>1, <3>5, KeysApart
    <3> QED
      BY <3>3, <3>4, <3>6
  <2>3. ASSUME k \in Item.extraKeys PROVE FALSE
    <3>1. PICK y \in Item.extra : k \in Keys(own, y)
      BY <1>0, <2>3, UnitKeys
    <3>2. x = y /\ y[1] = Item.id /\ y[2] \notin DOMAIN Item.versions
      BY <1>0, <2>1, <3>1, KeysApart, UnitKeys
    <3>3. x \notin Chosen
      BY <3>2 DEF Chosen
    <3> QED
      BY <1>5, <3>1, <3>2, <3>3
  <2> QED
    BY <2>2, <2>3
<1> QED
  BY <1>4, <1>8, <1>9, <1>10

\* A step whose restore goes on with the next item, the documents as they were.
LEMMA NextServes ==
  ASSUME NEW own, World(own), Serving, restore.at \in {"item", "purge", "derive", "search"},
         restore.items # <<>>, NEW failed, NextItem(failed),
         store'.documents = store.documents, ServedIsStored'
  PROVE  Serving'
<1>1. restore'.at = "item" /\ restore'.puts = Empty
  BY NextItemIs
<1>2. Fewer(restore'.items, restore.items) /\ LooseKept(restore.items)
  BY <1>1, NextIsOnward DEF Onward, Serving, Restoring
<1>3. LooseKept(restore.items)'
  <2>1. LooseKept(restore'.items)
    BY <1>2, FewerLoose
  <2> QED
    BY <2>1 DEF LooseKept
<1>4. PutsKept'
  BY <1>1 DEF PutsKept, Empty
<1> QED
  BY <1>1, <1>3, <1>4 DEF Serving

\* A row touches no bytes.
LEMMA RowsServe ==
  ASSUME NEW own, World(own), Serving, ApplyRow
  PROVE  Serving'
<1>1. /\ restore.at = "item" /\ restore.items # <<>> /\ AtItem(Phases \ {"documents"})
      /\ UNCHANGED <<bucket, fate>>
  BY DEF ApplyRow, AtItem
<1>2. store'.documents = store.documents /\ store'.versions = store.versions
  <2>1. CASE RowApplied
    BY <1>1, <2>1, RowAppliedIs
  <2>2. CASE UNCHANGED store
    BY <2>2
  <2> QED
    BY <2>1, <2>2 DEF ApplyRow, RowApplied
<1>3. ServedIsStored'
  BY <1>1, <1>2 DEF Serving, ServedIsStored, Live, Docs
<1>4. \E failed : NextItem(failed)
  BY DEF ApplyRow
<1> QED
  BY <1>1, <1>2, <1>3, <1>4, NextServes

\* New bytes go under a key nobody has.
LEMMA PutsServe ==
  ASSUME NEW own, World(own), Serving, PutBlobs
  PROVE  Serving'
<1>1. /\ restore.at = "item" /\ restore.items # <<>> /\ AtUnit(restore)
      /\ UNCHANGED <<store, fate>>
  BY DEF PutBlobs, AtItem, AtUnit, Item
<1>2. CASE (\E failed : NextItem(failed)) /\ UNCHANGED bucket
  <2>1. ServedIsStored'
    BY <1>1, <1>2 DEF Serving, ServedIsStored, Live, Docs
  <2> QED
    BY <1>1, <1>2, <2>1, NextServes
<1>3. CASE \E no \in Unput : /\ bucket' = Put(bucket, nonce + 1, Item.versions[no].rec.text)
                             /\ restore' = [restore EXCEPT !.puts = Put(@, no, nonce + 1)]
  <2>1. PICK no \in Unput : /\ bucket' = Put(bucket, nonce + 1, Item.versions[no].rec.text)
                            /\ restore' = [restore EXCEPT !.puts = Put(@, no, nonce + 1)]
    BY <1>3
  <2>2. DOMAIN bucket' = DOMAIN bucket \union {nonce + 1}
    BY <2>1, PutIs
  <2>3. DOMAIN restore = {"at", "items", "clean", "puts", "text"}
    BY <1>1, RestoringIs
  <2>4. /\ restore'.puts = [n \in DOMAIN restore.puts \union {no} |->
                              IF n = no THEN nonce + 1 ELSE restore.puts[n]]
        /\ restore'.at = "item" /\ restore'.items = restore.items /\ Item' = Item
    <3>1. restore'.puts = Put(restore.puts, no, nonce + 1)
          /\ restore'.at = "item" /\ restore'.items = restore.items
      BY <1>1, <2>1, <2>3
    <3> QED
      BY <3>1, PutIs DEF Item
  <2>5. ServedIsStored' /\ LooseKept(restore.items)'
    BY <1>1, <2>2, <2>4 DEF Serving, ServedIsStored, LooseKept, Live, Docs, Restoring
  <2>6. PutsKept'
    <3>1. \A k \in 1..nonce : k # nonce + 1
      BY KeysApart
    <3>2. \A x \in DOMAIN store.versions : store.versions[x].key # nonce + 1
      BY <3>1, KeysApart
    <3>3. nonce + 1 \notin Item.versions[no].old
      <4>1. no \in DOMAIN Item.versions
        BY DEF Unput
      <4>2. Item.versions[no].old \subseteq Keys(own, <<Item.id, no>>)
        BY <1>1, <4>1, UnitKeys
      <4> QED
        BY <3>1, <4>2, KeysApart
    <3>4. PutsKept
      BY <1>1 DEF Serving
    <3>5. ASSUME NEW n \in DOMAIN restore'.puts
          PROVE  /\ restore'.puts[n] \in DOMAIN bucket' /\ restore'.puts[n] \notin Item'.versions[n].old
                 /\ \A x \in DOMAIN store'.versions : store'.versions[x].key # restore'.puts[n]
      <4>1. CASE n = no
        BY <1>1, <2>2, <2>4, <3>2, <3>3, <4>1
      <4>2. CASE n # no
        BY <1>1, <2>2, <2>4, <3>4, <4>2 DEF PutsKept
      <4> QED
        BY <4>1, <4>2
    <3> QED
      BY <3>5 DEF PutsKept
  <2> QED
    BY <2>4, <2>5, <2>6 DEF Serving
<1> DEFINE least == CHOOSE n \in Unput : \A m \in Unput : n <= m
<1>4. least \in Unput
  <2>1. Unput \subseteq Nat /\ Unput # {}
    <3>1. Item \in ItemsOf(own) /\ Item.kind \in {"documents", "versions"}
      BY <1>1, RestoringIs DEF PutBlobs, AtItem
    <3> QED
      BY <3>1, ItemKinds DEF Unput, PutBlobs
  <2> QED
    BY <2>1, LeastOf
<1> QED
  BY <1>2, <1>3, <1>4 DEF PutBlobs

\* A unit is served once it is written, and not served if it failed.
LEMMA CommitsServe ==
  ASSUME NEW own, World(own), Serving, CommitUnit
  PROVE  Serving'
<1>1. /\ restore.at = "item" /\ restore.items # <<>> /\ Restoring
      /\ AtItem({"documents", "versions"}) /\ Unput = {} /\ UNCHANGED fate
  BY DEF CommitUnit, AtItem, Restoring
<1>2. CASE Fits(Item) /\ store' = UnitStore /\ At("purge") /\ UNCHANGED bucket
  <2>1. /\ ServedIsStored'
        /\ \A i \in DOMAIN restore.items : restore.items[i].kind = "versions" =>
              restore.items[i].live \/ ~store'.documents[restore.items[i].id].live
        /\ \A x \in DOMAIN store'.versions : store'.versions[x].key \notin OldKeys \union Item.extraKeys
    BY <1>1, <1>2, UnitsServe
  <2>2. restore'.at = "purge" /\ restore'.items = restore.items
    BY <1>1, <1>2, RestoringIs DEF At
  <2>3. LooseKept(restore.items)'
    BY <1>1, <2>1, <2>2 DEF Serving, LooseKept
  <2>4. PurgeSpares'
    <3>1. Item' = Item
      BY <2>2 DEF Item
    <3> QED
      BY <2>1, <3>1 DEF PurgeSpares, OldKeys
  <2> QED
    BY <2>1, <2>2, <2>3, <2>4 DEF Serving
<1>3. CASE RollBack /\ UNCHANGED store
  <2>1. ServedIsStored'
    BY <1>1, <1>3, RollsBack
  <2> QED
    BY <1>1, <1>3, <2>1, NextServes DEF RollBack
<1> QED
  BY <1>2, <1>3 DEF CommitUnit

\* Purging and deriving leave what is served.
LEMMA EndsServe ==
  ASSUME NEW own, World(own), Serving, PurgeOld \/ DeriveRead \/ DeriveWrite
  PROVE  Serving'
<1>0. /\ restore.items # <<>> /\ Restoring /\ restore.at \in {"purge", "derive", "search"}
      /\ DOMAIN restore = {"at", "items", "clean", "puts", "text"}
  <2>1. restore.at \in {"purge", "derive", "search"}
    BY DEF PurgeOld, DeriveRead, DeriveWrite
  <2> QED
    BY <2>1, RestoringIs DEF AtUnit, Restoring
<1>1. store'.documents = store.documents /\ store'.versions = store.versions
  <2>1. DOMAIN store = Tables
    BY DEF World, World0, Sound
  <2>2. CASE UNCHANGED store
    BY <2>2
  <2>3. CASE store' = [store EXCEPT !.documents_fts = Put(@, Item.id, restore.text)]
    BY <2>1, <2>3, TablesAre
  <2> QED
    BY <2>2, <2>3 DEF PurgeOld, DeriveRead, DeriveWrite, DeriveFails
<1>2. ServedIsStored'
  <2>1. CASE PurgeOld
    BY <2>1, Purges
  <2>2. CASE DeriveFails /\ restore.at \in {"derive", "search"}
    BY <2>2, RollsBackLate
  <2>3. CASE UNCHANGED <<bucket, fate>>
    BY <1>1, <2>3 DEF Serving, ServedIsStored, Live, Docs
  <2> QED
    BY <2>1, <2>2, <2>3 DEF DeriveRead, DeriveWrite
<1>3. CASE \E failed : NextItem(failed)
  BY <1>0, <1>1, <1>2, <1>3, NextServes
<1>4. CASE restore'.at \in {"derive", "search"} /\ restore'.items = restore.items
  <2>1. LooseKept(restore.items)'
    BY <1>0, <1>1, <1>4 DEF Serving, LooseKept
  <2> QED
    BY <1>2, <1>4, <2>1 DEF Serving
<1>5. ASSUME At("derive") PROVE restore'.at \in {"derive", "search"} /\ restore'.items = restore.items
  BY <1>0, <1>5 DEF At
<1>6. ASSUME NEW text, restore' = [restore EXCEPT !.at = "search", !.text = text]
      PROVE  restore'.at \in {"derive", "search"} /\ restore'.items = restore.items
  BY <1>0, <1>6
<1> QED
  BY <1>3, <1>4, <1>5, <1>6 DEF PurgeOld, DeriveRead, DeriveWrite, DeriveFails, RollBack

\* So does a request.
LEMMA RequestsServe ==
  ASSUME NEW own, World(own), Serving, Writing
  PROVE  Serving'
<1>1. Request /\ Asked /\ Sound(store')
  BY WritingWorld
<1>2. restore' = restore /\ fate'.blamed = fate.blamed
  BY <1>1 DEF Asked
<1>3. \A x \in DOMAIN store.versions : store.versions[x].key \in Keys(own, x)
  BY KeysApart
<1>4. ASSUME NEW d \in DOMAIN store'.documents, d \notin fate.blamed, store'.documents[d].live,
             NEW n \in {store'.documents[d].cur, store'.documents[d].pub} \ {0}
      PROVE  <<d, n>> \in DOMAIN store'.versions /\ store'.versions[<<d, n>>].key \in DOMAIN bucket'
  <2>1. CASE <<d, n>> \in Gained
    BY <1>1, <2>1 DEF Request, VersionsGoOn, Gained
  <2>2. CASE Live(d) /\ n \in {store.documents[d].cur, store.documents[d].pub}
    <3>1. <<d, n>> \in DOMAIN store.versions /\ store.versions[<<d, n>>].key \in DOMAIN bucket
      BY <1>4, <2>2 DEF Serving, ServedIsStored, Live
    <3>2. <<d, n>> \in DOMAIN store'.versions /\ store'.versions[<<d, n>>] = store.versions[<<d, n>>]
      BY <1>1, <3>1 DEF Request, VersionsGoOn
    <3>3. ASSUME store.versions[<<d, n>>].key \notin DOMAIN bucket' PROVE FALSE
      <4>1. PICK x \in DOMAIN store.versions :
               store.versions[x].key = store.versions[<<d, n>>].key /\ ~store'.documents[x[1]].live
        BY <1>1, <3>1, <3>3 DEF Request, BytesGoOn
      <4>2. x = <<d, n>>
        BY <1>3, <3>1, <4>1, KeysApart
      <4>3. x[1] = d
        BY <4>2
      <4> QED
        BY <1>4, <4>1, <4>3
    <3> QED
      BY <3>2, <3>3
  <2> QED
    BY <1>1, <1>4, <2>1, <2>2 DEF Request, ReadsGoOn
<1>5. ServedIsStored'
  BY <1>2, <1>4 DEF ServedIsStored, Live, Docs
<1>6. ASSUME Restoring PROVE LooseKept(restore.items)'
  <2>1. LooseKept(restore.items)
    BY <1>6 DEF Serving
  <2>2. \A i \in DOMAIN restore.items : restore.items[i].kind = "versions" => restore.items[i].id \in Docs
    <3>1. restore # Idle
      BY <1>6 DEF Restoring, Idle
    <3> QED
      BY <3>1 DEF World, IsRestore
  <2>3. \A d \in Docs : store'.documents[d].live => store.documents[d].live
    BY <1>1 DEF Request, DocumentsGoOn
  <2> QED
    BY <1>2, <2>1, <2>2, <2>3 DEF LooseKept
<1>7. \A x \in DOMAIN store'.versions :
        \/ x \in DOMAIN store.versions /\ store'.versions[x].key = store.versions[x].key
        \/ store'.versions[x].key = nonce + 1
  BY <1>1 DEF Request, VersionsGoOn, Gained
<1>8. ASSUME restore.at = "item" PROVE PutsKept'
  <2>1. PutsKept
    BY <1>8 DEF Serving
  <2>2. ASSUME NEW no \in DOMAIN restore.puts
        PROVE  /\ restore.puts[no] \in DOMAIN bucket'
               /\ \A x \in DOMAIN store'.versions : store'.versions[x].key # restore.puts[no]
    <3>1. restore.puts[no] \in DOMAIN bucket
          /\ \A x \in DOMAIN store.versions : store.versions[x].key # restore.puts[no]
      BY <2>1 DEF PutsKept
    <3>2. restore.puts[no] \in 1..nonce
      <4>1. restore.puts[no] \in Keys(own, <<Item.id, no>>)
        BY <1>8, RestoringIs
      <4> QED
        BY <4>1, KeysApart
    <3>3. restore.puts[no] # nonce + 1
      BY <3>2, KeysApart
    <3> QED
      BY <1>1, <1>7, <3>1, <3>3 DEF Request, BytesGoOn
  <2> QED
    BY <1>2, <2>1, <2>2 DEF PutsKept, Item
<1>9. ASSUME restore.at = "purge" PROVE PurgeSpares'
  <2>1. PurgeSpares /\ AtUnit(restore)
    BY <1>9, RestoringIs DEF Serving
  <2>2. \A k \in OldKeys \union Item.extraKeys : k \in 1..nonce
    <3>1. \A k \in OldKeys \union Item.extraKeys : \E x : k \in Keys(own, x)
      BY <1>9, <2>1, UnitKeys
    <3>2. \A x : Keys(own, x) \subseteq 1..nonce
      BY KeysApart
    <3> QED
      BY <3>1, <3>2
  <2>3. nonce + 1 \notin OldKeys \union Item.extraKeys
    BY <2>2, KeysApart
  <2> QED
    BY <1>2, <1>7, <2>1, <2>3 DEF PurgeSpares, OldKeys, Item
<1> QED
  BY <1>2, <1>5, <1>6, <1>8, <1>9 DEF Serving, Restoring

\* So does every step.
LEMMA ServingGoesOn ==
  ASSUME NEW own, World(own), Serving, [Next]_vars
  PROVE  Serving'
<1>1. CASE Writing
  BY <1>1, RequestsServe
<1>2. CASE Report \/ Crash
  <2>1. UNCHANGED <<store, bucket>> /\ restore' = Idle /\ fate'.blamed = fate.blamed
    BY <1>2, RestoreIsOver DEF Report, Crash, world, World, Remembered
  <2> QED
    BY <2>1 DEF Serving, ServedIsStored, Live, Docs, Restoring, Idle
<1>3. CASE Applying /\ ~(Report \/ Crash)
  BY <1>3, RowsServe, PutsServe, CommitsServe, EndsServe DEF Applying
<1>4. CASE Lose
  <2>1. store' = EmptyStore /\ restore' = restore /\ ~Restoring
    BY <1>4 DEF Lose
  <2> QED
    BY <2>1, EmptyIsSound DEF Serving, ServedIsStored, Live, Docs, Restoring
<1>5. CASE Submitting
  <2>1. /\ UNCHANGED <<store, bucket, fate>> /\ Promised(restore'.items)
        /\ restore'.at = "item" /\ restore'.puts = Empty
    BY <1>5, SubmittingIs DEF world
  <2>2. IsRestore(restore', own, Docs') /\ restore' # Idle
    BY <1>5, <2>1, SubmittingIs DEF World, Idle
  <2>3. \A i \in DOMAIN restore'.items : restore'.items[i] \in ItemsOf(own)
    BY <2>2 DEF IsRestore
  <2>4. \A i \in DOMAIN restore'.items : restore'.items[i].kind = "versions" =>
          restore'.items[i].live \/ ~store.documents[restore'.items[i].id].live
    BY <2>1 DEF Promised
  <2>5. LooseKept(restore.items)'
    BY <2>1, <2>4 DEF Promised, LooseKept
  <2>6. PutsKept'
    BY <2>1 DEF PutsKept, Empty
  <2> QED
    BY <2>1, <2>5, <2>6 DEF Serving, ServedIsStored, Live, Docs
<1>6. CASE Tick \/ Walking \/ UNCHANGED vars
  <2>1. UNCHANGED <<store, bucket, restore>> /\ fate'.blamed = fate.blamed
    BY <1>6, WalkingIs DEF Tick, vars, world
  <2> QED
    BY <2>1 DEF Serving, ServedIsStored, Live, Docs, LooseKept, PutsKept, PurgeSpares, OldKeys,
                Item, Restoring
<1> QED
  BY <1>1, <1>2, <1>3, <1>4, <1>5, <1>6 DEF Next

\* And what is served is stored at first.
LEMMA ServingAtFirst ==
  ASSUME Init
  PROVE  Serving
<1>1. PICK b \in Budgets :
    /\ store = b.start
    /\ bucket = [k \in {v.key : v \in {b.start.versions[x] : x \in {y \in DOMAIN b.start.versions :
                    b.start.documents[y[1]].live}}} |-> k]
    /\ restore = Idle
  BY DEF Init
<1>2. /\ Sound(store)
      /\ \A d \in DOMAIN store.documents :
           store.documents[d].pub # 0 => <<d, store.documents[d].pub>> \in DOMAIN store.versions
  BY <1>1, BackupAssumption DEF IsBudget
<1>3. ASSUME NEW d \in DOMAIN store.documents, store.documents[d].live,
             NEW n \in {store.documents[d].cur, store.documents[d].pub} \ {0}
      PROVE  <<d, n>> \in DOMAIN store.versions /\ store.versions[<<d, n>>].key \in DOMAIN bucket
  <2>1. <<d, n>> \in DOMAIN store.versions
    BY <1>2, <1>3 DEF Sound, DocumentFits
  <2> DEFINE S == {v.key : v \in {store.versions[x] : x \in {y \in DOMAIN store.versions :
                    store.documents[y[1]].live}}}
             x == <<d, n>>
  <2>2. DOMAIN bucket = S
    BY <1>1
  <2>3. x[1] = d
    OBVIOUS
  <2>4. x \in DOMAIN store.versions /\ store.documents[x[1]].live
    BY <1>3, <2>1, <2>3
  <2> HIDE DEF x
  <2>5. store.versions[x].key \in S
    BY <2>4
  <2> QED
    BY <2>1, <2>2, <2>5 DEF x
<1> QED
  BY <1>1, <1>3 DEF Serving, ServedIsStored, Live, Docs, Restoring, Idle

\* The current and the published version of a live document have their bytes,
\* whatever a restore wrote, rolled back or purged and whoever wrote meanwhile,
\* but for a document whose loose versions failed after they had committed.
THEOREM ServedBytesAreStored == Spec => []ServedIsStored
<1> DEFINE Inv == Serving /\ \E own : World(own)
<1>1. Init => Inv
  BY StartingIs, ServingAtFirst
<1>2. Inv /\ [Next]_vars => Inv'
  BY WorldGoesOn, ServingGoesOn
<1>3. Inv => ServedIsStored
  BY DEF Serving
<1> HIDE DEF Inv
<1> QED
  BY <1>1, <1>2, <1>3, PTL DEF Spec
=============================================================================
