------------------------ MODULE DocumentStoreProofs ------------------------
(***************************************************************************)
(* Proofs that the inductive invariant IInv of DocumentStore holds, and of *)
(* the safety properties it implies.  Most actions change only what one    *)
(* request knows: LocalStep covers them.  An action that changes a table   *)
(* or the bucket has a lemma of its own.                                   *)
(*                                                                         *)
(* And proofs that DocumentStore implements DocumentHistory, and that no   *)
(* agent moves what the world is shown.  Both rest on IInv and on what a   *)
(* request was granted when it opened (Granted): few actions touch a       *)
(* document at all, and each of those is one step of the abstract history  *)
(* or none.                                                                *)
(***************************************************************************)
EXTENDS DocumentStore, SequenceTheorems, TLAPS

-----------------------------------------------------------------------------
(* Helpers.                                                                *)

\* The state of a request that is over is a good one.
LEMMA IdleIsGood ==
  ASSUME ConstantsAssumption, TypeOK
  PROVE  Idle \in RequestStates /\ Labelled(Idle) /\ Grounded(Idle) /\ Stored(Idle)
<1>1. Idle \in RequestStates
  BY DEF Idle, RequestStates, Labels, Operations, Visibilities
<1>2. Labelled(Idle)
  BY DEF Idle, Labelled
<1>3. Grounded(Idle)
  BY DEF Idle, Grounded
<1>4. Stored(Idle)
  BY DEF Idle, Stored, InFlight, TypeOK
<1> QED BY <1>1, <1>2, <1>3, <1>4

\* A request that is over is apart from every other.
LEMMA IdleIsApart ==
  ASSUME ConstantsAssumption, IInv, NEW r \in Requests
  PROVE  Apart(Idle, req[r]) /\ Apart(req[r], Idle)
<1>1. Apart(Idle, req[r])
  BY DEF Apart, Idle, InFlight
<1>2. req[r].op = "publish" => req[r].doc \in Docs
  BY DEF IInv, RequestsInv, Labelled, Idle
<1>3. None \notin Docs
  BY DEF ConstantsAssumption
<1> QED BY <1>1, <1>2, <1>3 DEF Apart, Idle, InFlight

\* A step that only moves one request to a good state keeps the invariant.
LEMMA LocalStep ==
  ASSUME ConstantsAssumption, IInv, NEW r \in Requests, NEW x \in RequestStates,
         Labelled(x), Grounded(x), Stored(x),
         \A s \in Requests \ {r} : Apart(x, req[s]) /\ Apart(req[s], x),
         req' = [req EXCEPT ![r] = x],
         UNCHANGED <<docVars, nameVars, textVars, blobVars>>,
         acked' \subseteq Docs
  PROVE  IInv'
<1> USE DEF IInv
<1> UNCHANGED <<life, visibility, current_ver, published_ver, slug, versions,
                documents_fts, slug_tombstones, bucket, attempts>>
  BY DEF docVars, nameVars, textVars, blobVars
<1>1. TypeOK'
  BY DEF TypeOK
<1>2. \A s \in Requests : req'[s] = IF s = r THEN x ELSE req[s]
  BY DEF TypeOK
<1>3. RequestsInv'
  <2>1. \A s \in Requests : Labelled(req'[s])
    BY <1>2 DEF RequestsInv
  <2>2. \A s \in Requests : Grounded(req[s])'
    BY <1>2 DEF RequestsInv, Grounded, Live, HasVersion, VersionsOf
  <2>3. \A s \in Requests : Stored(req[s])'
    BY <1>2 DEF RequestsInv, Stored, InFlight, KeyOf, BlobKey
  <2>4. \A s, t \in Requests : s # t => Apart(req'[s], req'[t])
    BY <1>2 DEF RequestsInv
  <2> QED BY <2>1, <2>2, <2>3, <2>4 DEF RequestsInv
<1>4. RowsInv'
  BY DEF RowsInv, Live, HasVersion
<1>5. PointerInv'
  BY DEF PointerInv, Live, HasVersion
<1>6. LiveVersionsAreStored' /\ EditsExtendTheirBase' /\ SlugIsUnique'
  BY DEF LiveVersionsAreStored, Live, Blobs, EditsExtendTheirBase, SlugIsUnique
<1> QED BY <1>1, <1>3, <1>4, <1>5, <1>6

\* A request that ends without touching the store.
LEMMA FinishStep ==
  ASSUME ConstantsAssumption, IInv, NEW r \in Requests, Finish(r),
         UNCHANGED <<docVars, nameVars, textVars, blobVars>>,
         acked' \subseteq Docs
  PROVE  IInv'
BY IdleIsGood, IdleIsApart, LocalStep DEF Finish, IInv

\* What IInv says of one request, and of two.
LEMMA RequestFacts ==
  ASSUME IInv, NEW r \in Requests
  PROVE  /\ req[r] \in RequestStates
         /\ Labelled(req[r]) /\ Grounded(req[r]) /\ Stored(req[r])
         /\ \A s \in Requests \ {r} : Apart(req[r], req[s]) /\ Apart(req[s], req[r])
BY DEF IInv, TypeOK, RequestsInv

-----------------------------------------------------------------------------
(* The actions that change only their request.                             *)

LEMMA CheckConflictStep ==
  ASSUME ConstantsAssumption, IInv, NEW r \in Requests, CheckConflict(r)
  PROVE  IInv'
<1>1. CASE Finish(r)
  BY <1>1, FinishStep DEF CheckConflict, IInv, TypeOK
<1>2. CASE Goto(r, "retired")
  <2> DEFINE x == [req[r] EXCEPT !.pc = "retired"]
  <2>1. /\ req[r].pc = "conflict"
        /\ req' = [req EXCEPT ![r] = x]
        /\ UNCHANGED <<docVars, nameVars, textVars, blobVars, acked>>
    BY <1>2 DEF CheckConflict, Goto
  <2>2. x \in RequestStates
    BY RequestFacts DEF RequestStates, Labels
  <2>3. Labelled(x)
    BY <2>1, RequestFacts DEF Labelled, RequestStates, Idle
  <2>4. Grounded(x)
    BY <2>1, RequestFacts DEF Grounded, RequestStates
  <2>5. Stored(x)
    BY <2>1, RequestFacts DEF Stored, InFlight, RequestStates
  <2>6. \A s \in Requests \ {r} : Apart(x, req[s]) /\ Apart(req[s], x)
    BY <2>1, RequestFacts DEF Apart, InFlight, RequestStates
  <2> QED BY <2>1, <2>2, <2>3, <2>4, <2>5, <2>6, LocalStep DEF IInv, TypeOK
<1> QED BY <1>1, <1>2 DEF CheckConflict

LEMMA CheckRetiredStep ==
  ASSUME ConstantsAssumption, IInv, NEW r \in Requests, CheckRetired(r)
  PROVE  IInv'
<1>1. CASE Finish(r)
  BY <1>1, FinishStep DEF CheckRetired, IInv, TypeOK
<1>2. CASE Goto(r, IF req[r].op = "slug" THEN "slugBatch" ELSE "putRender")
  <2> DEFINE x == [req[r] EXCEPT !.pc = IF req[r].op = "slug" THEN "slugBatch"
                                                               ELSE "putRender"]
  <2>1. /\ req[r].pc = "retired"
        /\ req' = [req EXCEPT ![r] = x]
        /\ UNCHANGED <<docVars, nameVars, textVars, blobVars, acked>>
    BY <1>2 DEF CheckRetired, Goto
  <2>2. x \in RequestStates
    BY RequestFacts DEF RequestStates, Labels
  <2>3. Labelled(x)
    BY <2>1, RequestFacts DEF Labelled, RequestStates, Idle, ConstantsAssumption
  <2>4. Grounded(x)
    BY <2>1, RequestFacts DEF Grounded, RequestStates
  <2>5. Stored(x)
    BY <2>1, RequestFacts DEF Stored, InFlight, RequestStates
  <2>6. \A s \in Requests \ {r} : Apart(x, req[s]) /\ Apart(req[s], x)
    BY <2>1, RequestFacts DEF Apart, InFlight, RequestStates
  <2> QED BY <2>1, <2>2, <2>3, <2>4, <2>5, <2>6, LocalStep DEF IInv, TypeOK
<1> QED BY <1>1, <1>2 DEF CheckRetired

LEMMA FailBatchStep ==
  ASSUME ConstantsAssumption, IInv, NEW r \in Requests, FailBatch(r)
  PROVE  IInv'
<1> DEFINE x == [req[r] EXCEPT !.pc = "rollback"]
<1>1. /\ req[r].pc = "batch"
      /\ req' = [req EXCEPT ![r] = x]
      /\ UNCHANGED <<docVars, nameVars, textVars, blobVars, acked>>
  BY DEF FailBatch, Goto
<1>2. x \in RequestStates
  BY RequestFacts DEF RequestStates, Labels
<1>3. Labelled(x) /\ Grounded(x)
  BY <1>1, RequestFacts DEF Labelled, Grounded, RequestStates, Idle
<1>4. Stored(x)
  BY <1>1, RequestFacts DEF Stored, InFlight, RequestStates, KeyOf
<1>5. \A s \in Requests \ {r} : Apart(x, req[s]) /\ Apart(req[s], x)
  BY <1>1, RequestFacts DEF Apart, InFlight, RequestStates
<1> QED BY <1>1, <1>2, <1>3, <1>4, <1>5, LocalStep DEF IInv, TypeOK

LEMMA AbandonStep ==
  ASSUME ConstantsAssumption, IInv, NEW r \in Requests, Abandon(r)
  PROVE  IInv'
BY FinishStep DEF Abandon, IInv, TypeOK

LEMMA AnswerRevokeStep ==
  ASSUME ConstantsAssumption, IInv, NEW r \in Requests, AnswerRevoke(r)
  PROVE  IInv'
<1>1. req[r].doc \in Docs
  BY RequestFacts DEF AnswerRevoke, Labelled
<1>2. acked' \subseteq Docs
  BY <1>1 DEF AnswerRevoke, IInv, TypeOK
<1> QED BY <1>2, FinishStep DEF AnswerRevoke

LEMMA BeginPublishStep ==
  ASSUME ConstantsAssumption, IInv, NEW r \in Requests, BeginPublish(r)
  PROVE  IInv'
<1>1. PICK d \in Docs, src \in Sources, input \in Slugs \cup {None},
           who \in Authors, vis \in Births :
        /\ life[d] = "unborn"
        /\ \A q \in Requests : req[q].doc # d
        /\ req' = [req EXCEPT ![r] =
                     PublishRequest(who, d, src, ResolveSlug(input, None), vis)]
  BY DEF BeginPublish
<1> DEFINE target == ResolveSlug(input, None)
           x == PublishRequest(who, d, src, target, vis)
<1>2. target \in Slugs \cup {None, Keep}
  BY DEF ResolveSlug
<1>3. AfterResolve(target, "putRender") \in {"conflict", "putRender"}
  BY DEF AfterResolve
<1>4. x \in RequestStates
  BY <1>2, <1>3, IdleIsGood DEF PublishRequest, RequestStates, Labels, Operations,
     Visibilities, ConstantsAssumption, Idle, IInv
<1>5. Labelled(x) /\ Grounded(x)
  BY <1>1, <1>3 DEF PublishRequest, Labelled, Grounded, Idle, AfterResolve
<1>6. Stored(x)
  BY <1>3, IdleIsGood DEF PublishRequest, Stored, Idle, InFlight, IInv
<1>7. \A s \in Requests \ {r} : Apart(x, req[s]) /\ Apart(req[s], x)
  <2> SUFFICES ASSUME NEW s \in Requests \ {r} PROVE Apart(x, req[s]) /\ Apart(req[s], x)
    OBVIOUS
  <2>1. req[s].doc # d
    BY <1>1
  <2>2. x.doc = d /\ ~InFlight(x)
    BY <1>3 DEF PublishRequest, Idle, InFlight
  <2> QED BY <2>1, <2>2 DEF Apart
<1> QED BY <1>1, <1>4, <1>5, <1>6, <1>7, LocalStep DEF BeginPublish, IInv, TypeOK

\* A request working on a document that was born is apart from every publish.
LEMMA BornIsApart ==
  ASSUME IInv, NEW r \in Requests, NEW x,
         x.doc \in Docs, life[x.doc] # "unborn", x.op # "publish", ~InFlight(x)
  PROVE  Apart(x, req[r]) /\ Apart(req[r], x)
BY RequestFacts DEF Apart, Grounded

LEMMA OpenUpdateStep ==
  ASSUME ConstantsAssumption, IInv, NEW r \in Requests,
         NEW who \in {"agent", "operator"}, NEW d \in Docs, NEW src \in Sources,
         NEW expected \in Nat, NEW base \in {0, expected},
         NEW input \in Slugs \cup {None, Keep},
         OpenUpdate(r, who, d, src, expected, base, input)
  PROVE  IInv'
<1> DEFINE target == ResolveSlug(input, slug[d])
           x == UpdateRequest(who, d, src, expected, base, target)
<1>1. /\ life[d] = "live" /\ expected \in {0, current_ver[d]}
      /\ req' = [req EXCEPT ![r] = x]
      /\ UNCHANGED <<docVars, nameVars, textVars, blobVars, acked>>
  BY DEF OpenUpdate, RowAccepts
<1>2. /\ target \in Slugs \cup {None, Keep}
      /\ AfterResolve(target, "putRender") \in {"conflict", "putRender"}
  BY DEF ResolveSlug, AfterResolve
<1>3. slug[d] \in Slugs \cup {None} /\ current_ver[d] \in Nat
  BY DEF IInv, TypeOK
<1>4. x \in RequestStates
  <2>1. Idle \in RequestStates
    BY IdleIsGood DEF IInv
  <2>2. AfterResolve(target, "putRender") \in Labels
    BY <1>2 DEF Labels
  <2>3. base \in Nat /\ current_ver[d] + 1 \in Nat
    BY <1>3
  <2> QED BY <1>2, <1>3, <2>1, <2>2, <2>3 DEF UpdateRequest, RequestStates, Operations
<1>5. Labelled(x)
  BY <1>1, <1>2, <1>3 DEF UpdateRequest, Labelled, Idle, AfterResolve
<1>6. Grounded(x)
  BY <1>1, <1>2, <1>3 DEF UpdateRequest, Grounded, Idle, Live
<1>7. Stored(x)
  BY <1>2, IdleIsGood DEF UpdateRequest, Stored, Idle, InFlight, IInv
<1>8. \A s \in Requests \ {r} : Apart(x, req[s]) /\ Apart(req[s], x)
  BY <1>1, <1>2, BornIsApart DEF UpdateRequest, Idle, InFlight
<1> QED BY <1>1, <1>4, <1>5, <1>6, <1>7, <1>8, LocalStep DEF IInv, TypeOK

LEMMA BeginUpdateStep ==
  ASSUME ConstantsAssumption, IInv, NEW r \in Requests, BeginUpdate(r)
  PROVE  IInv'
<1>0. PICK d \in Docs, src \in Sources, who \in Authors, input \in Slugs \cup {None, Keep} :
        \E expected \in {0, current_ver[d]} :
          OpenUpdate(r, who, d, src, expected, expected, input)
  BY DEF BeginUpdate
<1>1. PICK expected \in {0, current_ver[d]} :
        OpenUpdate(r, who, d, src, expected, expected, input)
  BY <1>0
<1>2. who \in {"agent", "operator"} /\ expected \in Nat
  BY DEF ConstantsAssumption, IInv, TypeOK
<1> QED BY <1>1, <1>2, OpenUpdateStep

LEMMA DelegateUpdateStep ==
  ASSUME ConstantsAssumption, IInv, NEW r \in Requests, DelegateUpdate(r)
  PROVE  IInv'
<1> DEFINE q == req[r]
<1>1. /\ q.pc = "row"
      /\ OpenUpdate(r, q.who, q.doc, q.src, q.expected, q.base, q.slug)
  BY DEF DelegateUpdate
<1>2. /\ q.doc \in Docs /\ q.src \in Sources /\ q.base \in {0, q.expected}
      /\ q.who \in {"agent", "operator"} /\ q.expected \in Nat
      /\ q.slug \in Slugs \cup {None, Keep}
  BY <1>1, RequestFacts DEF Labelled, RequestStates
<1> QED BY <1>1, <1>2, OpenUpdateStep

LEMMA BeginSourceReadStep ==
  ASSUME ConstantsAssumption, IInv, NEW r \in Requests, BeginSourceRead(r)
  PROVE  IInv'
<1>0. PICK op \in {"edit", "restore"} \cap Doors, who \in Authors,
           input \in Slugs \cup {None, Keep} :
        \E v \in versions :
          /\ life[v.doc] = "live"
          /\ op = "edit" => v.no = current_ver[v.doc]
          /\ op = "restore" => who = "operator" /\ input = Keep
          /\ req' = [req EXCEPT ![r] = SourceRequest(op, who, v, input)]
  BY DEF BeginSourceRead
<1>1. PICK v \in versions :
        /\ life[v.doc] = "live"
        /\ req' = [req EXCEPT ![r] = SourceRequest(op, who, v, input)]
  BY <1>0
<1> DEFINE x == SourceRequest(op, who, v, input)
<1>2. /\ op \in {"edit", "restore"} /\ who \in {"agent", "operator"}
      /\ v.doc \in Docs /\ v.no \in Nat /\ v.key \in Keys
  BY DEF ConstantsAssumption, IInv, TypeOK, VersionRows
<1>3. x \in RequestStates
  <2>1. Idle \in RequestStates
    BY IdleIsGood DEF IInv
  <2> QED BY <1>2, <2>1 DEF SourceRequest, RequestStates, Labels, Operations
<1>4. Labelled(x) /\ Grounded(x)
  BY <1>1, <1>2 DEF SourceRequest, Labelled, Grounded, Idle
<1>5. Stored(x)
  BY IdleIsGood DEF SourceRequest, Stored, Idle, InFlight, IInv
<1>6. \A s \in Requests \ {r} : Apart(x, req[s]) /\ Apart(req[s], x)
  BY <1>1, <1>2, BornIsApart DEF SourceRequest, Idle, InFlight
<1> QED BY <1>1, <1>3, <1>4, <1>5, <1>6, LocalStep DEF BeginSourceRead, IInv, TypeOK

LEMMA GetSourceStep ==
  ASSUME ConstantsAssumption, IInv, NEW r \in Requests, GetSource(r)
  PROVE  IInv'
<1> DEFINE q == req[r]
<1>1. CASE Finish(r)
  BY <1>1, FinishStep DEF GetSource, IInv, TypeOK
<1>2. CASE \E src \in Sources : req' = [req EXCEPT ![r] = DelegatedRequest(q, src)]
  <2>1. PICK src \in Sources : req' = [req EXCEPT ![r] = DelegatedRequest(q, src)]
    BY <1>2
  <2> DEFINE x == DelegatedRequest(q, src)
  <2>2. q.pc = "source" /\ q.op \in {"edit", "restore"} /\ q.doc \in Docs /\ q \in RequestStates
    BY RequestFacts DEF GetSource, Labelled
  <2>3. ExpectedOf(q.op, q.next) \in Nat
    BY <2>2 DEF ExpectedOf, RequestStates
  <2>4. x \in RequestStates
    BY <2>2, <2>3 DEF DelegatedRequest, RequestStates, Labels
  <2>5. Labelled(x)
    BY <2>2, <2>3 DEF DelegatedRequest, Labelled, RequestStates, ExpectedOf, Idle
  <2>6. Grounded(x)
    BY <2>2, RequestFacts DEF DelegatedRequest, Grounded, RequestStates
  <2>7. Stored(x)
    BY <2>2, RequestFacts DEF DelegatedRequest, Stored, InFlight, RequestStates
  <2>8. \A s \in Requests \ {r} : Apart(x, req[s]) /\ Apart(req[s], x)
    BY <2>2, RequestFacts DEF DelegatedRequest, Apart, InFlight, RequestStates
  <2> QED BY <2>1, <2>4, <2>5, <2>6, <2>7, <2>8, LocalStep DEF GetSource, IInv, TypeOK
<1> QED BY <1>1, <1>2 DEF GetSource

LEMMA BeginRevokeStep ==
  ASSUME ConstantsAssumption, IInv, NEW r \in Requests, NEW d \in Docs, BeginRevoke(r, d)
  PROVE  IInv'
<1> DEFINE x == RevokeRequest(d)
<1>1. /\ life[d] # "unborn"
      /\ req' = [req EXCEPT ![r] = x]
      /\ UNCHANGED <<docVars, nameVars, textVars, blobVars, acked>>
  BY DEF BeginRevoke, Revocable
<1>2. life[d] \in {"live", "revoked"} /\ slug[d] \in Slugs \cup {None}
  BY <1>1 DEF IInv, TypeOK
<1>3. x \in RequestStates
  BY <1>2, IdleIsGood DEF RevokeRequest, RequestStates, Labels, Operations, Idle, IInv
<1>4. Labelled(x)
  BY <1>2 DEF RevokeRequest, Labelled, Idle
<1>5. Grounded(x)
  BY <1>1, <1>2 DEF RevokeRequest, Grounded, Idle
<1>6. Stored(x)
  BY <1>2, IdleIsGood DEF RevokeRequest, Stored, Idle, InFlight, IInv
<1>7. \A s \in Requests \ {r} : Apart(x, req[s]) /\ Apart(req[s], x)
  BY <1>1, <1>2, BornIsApart DEF RevokeRequest, Idle, InFlight
<1> QED BY <1>1, <1>3, <1>4, <1>5, <1>6, <1>7, LocalStep DEF IInv, TypeOK

LEMMA ReadKeysStep ==
  ASSUME ConstantsAssumption, IInv, NEW r \in Requests, ReadKeys(r)
  PROVE  IInv'
<1> DEFINE q == req[r]
           label == IF q.pc = "keys" THEN "kill" ELSE "purge"
           found == KeysToPurge(q.doc)
           x == [q EXCEPT !.pc = label, !.keys = found]
<1>1. /\ q.pc \in {"keys", "purgeKeys"}
      /\ req' = [req EXCEPT ![r] = x]
      /\ UNCHANGED <<docVars, nameVars, textVars, blobVars, acked>>
  BY DEF ReadKeys
<1>2. q \in RequestStates /\ Labelled(q) /\ Grounded(q) /\ Stored(q) /\ q.op = "revoke"
  BY <1>1, RequestFacts DEF Labelled
<1>3. found \subseteq Keys
  BY DEF KeysToPurge, VersionsOf, IInv, TypeOK, VersionRows
<1>4. x \in RequestStates
  <2>1. label \in Labels
    BY DEF Labels
  <2> HIDE DEF label, found
  <2> QED BY <1>2, <1>3, <2>1 DEF RequestStates
<1>5. Labelled(x)
  BY <1>1, <1>2 DEF Labelled, RequestStates
<1>6. Grounded(x)
  BY <1>1, <1>2 DEF Grounded, RequestStates, KeysToPurge
<1>7. Stored(x)
  BY <1>1, <1>2 DEF Stored, InFlight, RequestStates
<1>8. \A s \in Requests \ {r} : Apart(x, req[s]) /\ Apart(req[s], x)
  BY <1>1, <1>2, RequestFacts DEF Apart, InFlight, RequestStates
<1> QED BY <1>1, <1>4, <1>5, <1>6, <1>7, <1>8, LocalStep DEF IInv, TypeOK

LEMMA BeginSetSlugStep ==
  ASSUME ConstantsAssumption, IInv, NEW r \in Requests, BeginSetSlug(r)
  PROVE  IInv'
<1>1. PICK d \in Docs, input \in Slugs \cup {None} :
        /\ life[d] = "live"
        /\ ResolveSlug(input, slug[d]) # Keep
        /\ req' = [req EXCEPT ![r] = SlugRequest(d, ResolveSlug(input, slug[d]))]
  BY DEF BeginSetSlug
<1> DEFINE target == ResolveSlug(input, slug[d])
           x == SlugRequest(d, target)
<1>2. /\ target \in Slugs \cup {None}
      /\ AfterResolve(target, "slugBatch") \in {"conflict", "slugBatch"}
      /\ slug[d] \in Slugs \cup {None}
  BY <1>1 DEF ResolveSlug, AfterResolve, IInv, TypeOK
<1>3. x \in RequestStates
  <2>1. Idle \in RequestStates
    BY IdleIsGood DEF IInv
  <2>2. AfterResolve(target, "slugBatch") \in Labels
    BY <1>2 DEF Labels
  <2> QED BY <1>2, <2>1, <2>2 DEF SlugRequest, RequestStates, Operations
<1>4. Labelled(x)
  <2>1. /\ x.op = "slug" /\ x.doc = d /\ x.slug = target /\ target # Keep
        /\ x.pc \in {"conflict", "slugBatch"}
        /\ x.pc = "conflict" => target \in Slugs
    BY <1>1, <1>2 DEF SlugRequest, Idle, AfterResolve
  <2> QED BY <2>1 DEF Labelled
<1>5. Grounded(x)
  BY <1>1, <1>2 DEF SlugRequest, Grounded, Idle
<1>6. Stored(x)
  BY <1>2, IdleIsGood DEF SlugRequest, Stored, Idle, InFlight, IInv
<1>7. \A s \in Requests \ {r} : Apart(x, req[s]) /\ Apart(req[s], x)
  BY <1>1, <1>2, BornIsApart DEF SlugRequest, Idle, InFlight
<1> QED BY <1>1, <1>3, <1>4, <1>5, <1>6, <1>7, LocalStep DEF BeginSetSlug, IInv, TypeOK

LEMMA BeginPromoteStep ==
  ASSUME ConstantsAssumption, IInv, NEW r \in Requests, BeginPromote(r)
  PROVE  IInv'
<1>1. PICK v \in versions :
        life[v.doc] = "live" /\ req' = [req EXCEPT ![r] = PromoteRequest(v)]
  BY DEF BeginPromote
<1> DEFINE x == PromoteRequest(v)
<1>2. v.doc \in Docs /\ v.no \in Nat
  BY DEF IInv, TypeOK, VersionRows
<1>3. x \in RequestStates
  <2>1. Idle \in RequestStates
    BY IdleIsGood DEF IInv
  <2> QED BY <1>2, <2>1 DEF PromoteRequest, RequestStates, Operations, Labels
<1>4. Labelled(x) /\ Grounded(x)
  BY <1>1, <1>2 DEF PromoteRequest, Labelled, Grounded, Idle, HasVersion
<1>5. Stored(x)
  BY IdleIsGood DEF PromoteRequest, Stored, Idle, InFlight, IInv
<1>6. \A s \in Requests \ {r} : Apart(x, req[s]) /\ Apart(req[s], x)
  BY <1>1, <1>2, BornIsApart DEF PromoteRequest, Idle, InFlight
<1> QED BY <1>1, <1>3, <1>4, <1>5, <1>6, LocalStep DEF BeginPromote, IInv, TypeOK

-----------------------------------------------------------------------------
(* The actions that change a table or the bucket.                          *)

\* The requests stay good when the one that moved is, and what the others
\* rely on survived the step.
LEMMA RequestsStep ==
  ASSUME IInv, NEW r \in Requests, NEW x \in RequestStates,
         req' = [req EXCEPT ![r] = x],
         Labelled(x), Grounded(x)', Stored(x)',
         \A s \in Requests \ {r} : Apart(x, req[s]) /\ Apart(req[s], x),
         \A s \in Requests \ {r}, q \in RequestStates : q = req[s] => Grounded(q)' /\ Stored(q)'
  PROVE  RequestsInv'
<1>1. \A s \in Requests : req'[s] = IF s = r THEN x ELSE req[s]
  BY DEF IInv, TypeOK
<1>2. \A s \in Requests : Labelled(req'[s])
  BY <1>1 DEF IInv, RequestsInv
<1>3. \A s, t \in Requests : s # t => Apart(req'[s], req'[t])
  BY <1>1 DEF IInv, RequestsInv
<1>4. ASSUME NEW s \in Requests PROVE Grounded(req[s])' /\ Stored(req[s])'
  <2> PICK q \in RequestStates : q = req'[s]
    BY <1>1, RequestFacts
  <2>1. Grounded(q)' /\ Stored(q)'
    BY <1>1
  <2> QED BY <2>1 DEF Grounded, Stored, InFlight, KeyOf
<1> QED BY <1>2, <1>3, <1>4 DEF RequestsInv

\* While the tables stand still and nonces only grow, so do their invariants.
LEMMA TablesStep ==
  ASSUME IInv, UNCHANGED <<docVars, nameVars, textVars>>,
         attempts' \in Nat, attempts <= attempts'
  PROVE  RowsInv' /\ PointerInv' /\ EditsExtendTheirBase' /\ SlugIsUnique'
<1> UNCHANGED <<life, visibility, current_ver, published_ver, slug, versions>>
  BY DEF docVars, nameVars, textVars
<1>1. RowsInv'
  BY DEF IInv, TypeOK, VersionRows, Keys, RowsInv, Live, HasVersion
<1>2. PointerInv' /\ EditsExtendTheirBase' /\ SlugIsUnique'
  BY DEF IInv, PointerInv, Live, HasVersion, EditsExtendTheirBase, SlugIsUnique
<1> QED BY <1>1, <1>2

LEMMA PutRenderStep ==
  ASSUME ConstantsAssumption, IInv, NEW r \in Requests, PutRender(r)
  PROVE  IInv'
<1> PICK q \in RequestStates : q = req[r]
  BY RequestFacts
<1> PICK x : x = [q EXCEPT !.pc = "putSource", !.nonce = attempts + 1]
  OBVIOUS
<1> UNCHANGED <<life, visibility, current_ver, published_ver, slug, versions,
                documents_fts, slug_tombstones, acked>>
  BY DEF PutRender, docVars, nameVars, textVars
<1>1. /\ q.pc = "putRender"
      /\ attempts' = attempts + 1
      /\ bucket' = bucket \cup {<<BlobKey(q.doc, q.next, attempts + 1), "H">>}
      /\ req' = [req EXCEPT ![r] = x]
  BY DEF PutRender
<1>2. /\ Labelled(q) /\ Grounded(q) /\ Stored(q)
      /\ q.doc \in Docs /\ q.next \in Nat \ {0} /\ q.op \in {"publish", "update"}
  BY <1>1, RequestFacts DEF Labelled, RequestStates
<1>3. attempts \in Nat /\ attempts' \in Nat /\ attempts <= attempts'
  BY <1>1 DEF IInv, TypeOK
<1>4. x \in RequestStates
  <2>1. attempts + 1 \in Nat /\ "putSource" \in Labels
    BY <1>3 DEF Labels
  <2> QED BY <2>1 DEF RequestStates
<1>5. TypeOK'
  <2>1. bucket' \subseteq Keys \X {"H", "S"}
    BY <1>1, <1>2, <1>3 DEF IInv, TypeOK, Keys, BlobKey
  <2> QED BY <1>1, <1>3, <1>4, <2>1 DEF IInv, TypeOK
<1>6. Labelled(x) /\ Grounded(x)'
  BY <1>1, <1>2 DEF Labelled, Grounded, RequestStates, Live, HasVersion, VersionsOf
<1>7. Stored(x)'
  <2>1. /\ x.nonce = attempts + 1 /\ x.pc = "putSource"
        /\ x.doc = q.doc /\ x.next = q.next
    BY DEF RequestStates
  <2>2. \A v \in versions : v.key[3] \in Nat /\ v.key[3] <= attempts
    BY DEF IInv, RowsInv, TypeOK, VersionRows, Keys
  <2>3. \A v \in versions : v.key[3] # attempts + 1
    BY <1>3, <2>2
  <2> QED BY <1>1, <1>3, <2>1, <2>3 DEF Stored, InFlight, KeyOf, BlobKey
<1>8. ASSUME NEW s \in Requests \ {r} PROVE Apart(x, req[s]) /\ Apart(req[s], x)
  <2> PICK p \in RequestStates : p = req[s]
    BY RequestFacts
  <2>1. p.nonce \in Nat /\ p.nonce <= attempts /\ Apart(q, p) /\ Apart(p, q)
    BY RequestFacts DEF RequestStates, Stored
  <2>2. /\ x.nonce = attempts + 1 /\ x.pc = "putSource"
        /\ x.doc = q.doc /\ x.op = q.op
    BY DEF RequestStates
  <2>3. p.nonce # x.nonce
    BY <1>3, <2>1, <2>2
  <2> QED BY <2>1, <2>2, <2>3 DEF Apart
<1>9. ASSUME NEW s \in Requests \ {r}, NEW p \in RequestStates, p = req[s]
      PROVE  Grounded(p)' /\ Stored(p)'
  <2>1. Grounded(p)'
    BY <1>9, RequestFacts DEF Grounded, Live, HasVersion, VersionsOf
  <2>2. Stored(p)'
    BY <1>1, <1>3, <1>9, RequestFacts DEF Stored, InFlight, KeyOf, BlobKey, RequestStates
  <2> QED BY <2>1, <2>2
<1>10. RequestsInv'
  BY <1>1, <1>4, <1>6, <1>7, <1>8, <1>9, RequestsStep
<1>11. LiveVersionsAreStored'
  BY <1>1 DEF IInv, LiveVersionsAreStored, Live, Blobs
<1> QED BY <1>3, <1>5, <1>10, <1>11, TablesStep DEF IInv, docVars, nameVars, textVars

LEMMA PutSourceStep ==
  ASSUME ConstantsAssumption, IInv, NEW r \in Requests, PutSource(r)
  PROVE  IInv'
<1> PICK q \in RequestStates : q = req[r]
  BY RequestFacts
<1> PICK x : x = [q EXCEPT !.pc = "batch"]
  OBVIOUS
<1> UNCHANGED <<life, visibility, current_ver, published_ver, slug, versions,
                documents_fts, slug_tombstones, attempts, acked>>
  BY DEF PutSource, docVars, nameVars, textVars
<1>1. /\ q.pc = "putSource"
      /\ bucket' = bucket \cup {<<KeyOf(q), "S">>}
      /\ req' = [req EXCEPT ![r] = x]
  BY DEF PutSource, Goto, Key
<1>2. /\ Labelled(q) /\ Grounded(q) /\ Stored(q)
      /\ q.doc \in Docs /\ q.next \in Nat \ {0} /\ q.op \in {"publish", "update"}
  BY <1>1, RequestFacts DEF Labelled, RequestStates
<1>3. attempts \in Nat
  BY DEF IInv, TypeOK
<1>4. x \in RequestStates
  BY DEF RequestStates, Labels
<1>5. TypeOK'
  <2>1. bucket' \subseteq Keys \X {"H", "S"}
    BY <1>1, <1>2 DEF IInv, TypeOK, Keys, KeyOf, BlobKey, RequestStates
  <2> QED BY <1>1, <1>4, <2>1 DEF IInv, TypeOK
<1>6. Labelled(x) /\ Grounded(x)'
  BY <1>1, <1>2 DEF Labelled, Grounded, RequestStates, Live, HasVersion, VersionsOf
<1>7. Stored(x)'
  BY <1>1, <1>2 DEF Stored, InFlight, RequestStates, KeyOf, BlobKey
<1>8. ASSUME NEW s \in Requests \ {r} PROVE Apart(x, req[s]) /\ Apart(req[s], x)
  BY <1>1, RequestFacts DEF Apart, InFlight, RequestStates
<1>9. ASSUME NEW s \in Requests \ {r}, NEW p \in RequestStates, p = req[s]
      PROVE  Grounded(p)' /\ Stored(p)'
  <2>1. Grounded(p)'
    BY <1>9, RequestFacts DEF Grounded, Live, HasVersion, VersionsOf
  <2>2. Stored(p)'
    BY <1>1, <1>9, RequestFacts DEF Stored, InFlight, KeyOf, BlobKey, RequestStates
  <2> QED BY <2>1, <2>2
<1>10. RequestsInv'
  BY <1>1, <1>4, <1>6, <1>7, <1>8, <1>9, RequestsStep
<1>11. LiveVersionsAreStored'
  BY <1>1 DEF IInv, LiveVersionsAreStored, Live, Blobs
<1> QED BY <1>3, <1>5, <1>10, <1>11, TablesStep DEF IInv, docVars, nameVars, textVars

\* A loser takes back its own attempt's blobs: no row carries its nonce, and
\* no other attempt in flight shares it.
LEMMA RollbackStep ==
  ASSUME ConstantsAssumption, IInv, NEW r \in Requests, Rollback(r)
  PROVE  IInv'
<1> PICK q \in RequestStates : q = req[r]
  BY RequestFacts
<1> UNCHANGED <<life, visibility, current_ver, published_ver, slug, versions,
                documents_fts, slug_tombstones, attempts, acked>>
  BY DEF Rollback, docVars, nameVars, textVars
<1>1. /\ q.pc = "rollback"
      /\ bucket' = bucket \ Blobs(KeyOf(q))
      /\ req' = [req EXCEPT ![r] = Idle]
  BY DEF Rollback, Finish, Key
<1>2. attempts \in Nat /\ Idle \in RequestStates /\ Labelled(Idle)
  BY IdleIsGood DEF IInv, TypeOK
<1>3. TypeOK'
  BY <1>1, <1>2 DEF IInv, TypeOK
<1>4. Grounded(Idle)' /\ Stored(Idle)'
  BY <1>2 DEF Grounded, Stored, InFlight, Idle
<1>5. ASSUME NEW s \in Requests \ {r}, NEW p \in RequestStates, p = req[s]
      PROVE  Grounded(p)' /\ Stored(p)'
  <2>1. Grounded(p)'
    BY <1>5, RequestFacts DEF Grounded, Live, HasVersion, VersionsOf
  <2>2. InFlight(p) => p.nonce # q.nonce
    BY <1>1, <1>5, RequestFacts DEF Apart, InFlight
  <2>3. InFlight(p) => /\ <<KeyOf(p), "H">> \notin Blobs(KeyOf(q))
                       /\ <<KeyOf(p), "S">> \notin Blobs(KeyOf(q))
    BY <2>2 DEF Blobs, KeyOf, BlobKey
  <2>4. Stored(p)'
    BY <1>1, <1>5, <2>3, RequestFacts DEF Stored, InFlight, KeyOf, BlobKey
  <2> QED BY <2>1, <2>4
<1>6. RequestsInv'
  BY <1>1, <1>2, <1>4, <1>5, IdleIsApart, RequestsStep
<1>7. LiveVersionsAreStored'
  <2>1. \A v \in versions : v.key[3] # q.nonce
    BY <1>1, RequestFacts DEF Stored, InFlight
  <2>2. \A v \in versions : Blobs(v.key) \cap Blobs(KeyOf(q)) = {}
    BY <2>1 DEF Blobs, KeyOf, BlobKey
  <2> QED BY <1>1, <2>2 DEF IInv, LiveVersionsAreStored, Live, Blobs
<1> QED BY <1>2, <1>3, <1>6, <1>7, TablesStep DEF IInv, docVars, nameVars, textVars

\* A purge takes only the blobs of the revoked document's rows.
LEMMA PurgeStep ==
  ASSUME ConstantsAssumption, IInv, NEW r \in Requests, NEW n \in 1..MaxVersion, Purge(r, n)
  PROVE  IInv'
<1> PICK q \in RequestStates : q = req[r]
  BY RequestFacts
<1> UNCHANGED <<life, visibility, current_ver, published_ver, slug, versions,
                documents_fts, slug_tombstones, attempts, acked>>
  BY DEF Purge, docVars, nameVars, textVars
<1>0. q.pc = "purge"
  BY DEF Purge
<1>1. PICK key \in q.keys :
        /\ bucket' = bucket \ Blobs(key)
        /\ req' = [req EXCEPT ![r].keys = @ \ {key}]
  BY DEF Purge
<1> PICK x : x = [q EXCEPT !.keys = @ \ {key}]
  OBVIOUS
<1>2. /\ Labelled(q) /\ Grounded(q) /\ Stored(q)
      /\ q.op = "revoke" /\ q.doc \in Docs /\ life[q.doc] = "revoked"
  BY <1>0, RequestFacts DEF Labelled, Grounded
<1>3. PICK w \in versions : w.doc = q.doc /\ w.key = key
  BY <1>1, <1>2 DEF Grounded, VersionsOf
<1>4. x \in RequestStates
  BY DEF RequestStates
<1>5. req' = [req EXCEPT ![r] = x]
  BY <1>1
<1>6. TypeOK'
  BY <1>1, <1>4, <1>5 DEF IInv, TypeOK
<1>7. Labelled(x) /\ Grounded(x)'
  BY <1>0, <1>2 DEF Labelled, Grounded, RequestStates, Live, HasVersion, VersionsOf
<1>8. Stored(x)'
  BY <1>0, <1>2 DEF Stored, InFlight, RequestStates
<1>9. ASSUME NEW s \in Requests \ {r} PROVE Apart(x, req[s]) /\ Apart(req[s], x)
  BY <1>0, RequestFacts DEF Apart, InFlight, RequestStates
<1>10. ASSUME NEW s \in Requests \ {r}, NEW p \in RequestStates, p = req[s]
       PROVE  Grounded(p)' /\ Stored(p)'
  <2>1. Grounded(p)'
    BY <1>10, RequestFacts DEF Grounded, Live, HasVersion, VersionsOf
  <2>2. InFlight(p) => w.key[3] # p.nonce
    BY <1>10, RequestFacts DEF Stored
  <2>3. InFlight(p) => /\ <<KeyOf(p), "H">> \notin Blobs(key)
                       /\ <<KeyOf(p), "S">> \notin Blobs(key)
    BY <2>2, <1>3 DEF Blobs, KeyOf, BlobKey
  <2>4. Stored(p)'
    BY <1>1, <1>10, <2>3, RequestFacts DEF Stored, InFlight, KeyOf, BlobKey
  <2> QED BY <2>1, <2>4
<1>11. RequestsInv'
  BY <1>4, <1>5, <1>7, <1>8, <1>9, <1>10, RequestsStep
<1>12. LiveVersionsAreStored'
  <2>1. key[1] = q.doc /\ \A v \in versions : v.key[1] = v.doc
    BY <1>3 DEF IInv, RowsInv
  <2>2. \A v \in versions : Live(v.doc) => v.key # key
    BY <1>2, <2>1 DEF Live
  <2>3. \A v \in versions : Live(v.doc) => Blobs(v.key) \cap Blobs(key) = {}
    BY <2>2 DEF Blobs
  <2> QED BY <1>1, <2>3 DEF IInv, LiveVersionsAreStored, Live, Blobs
<1>13. attempts' \in Nat /\ attempts <= attempts'
  BY DEF IInv, TypeOK
<1> QED BY <1>6, <1>11, <1>12, <1>13, TablesStep DEF IInv, docVars, nameVars, textVars

LEMMA KillStep ==
  ASSUME ConstantsAssumption, IInv, NEW r \in Requests, Kill(r)
  PROVE  IInv'
<1> PICK q \in RequestStates : q = req[r]
  BY RequestFacts
<1> PICK d : d = q.doc
  OBVIOUS
<1> PICK x : x = [q EXCEPT !.pc = "purge"]
  OBVIOUS
<1> UNCHANGED <<visibility, versions, bucket, attempts, acked>>
  BY DEF Kill, blobVars
<1>1. /\ q.pc = "kill"
      /\ life' = [life EXCEPT ![d] = "revoked"]
      /\ current_ver' = [current_ver EXCEPT ![d] = 0]
      /\ published_ver' = [published_ver EXCEPT ![d] = 0]
      /\ slug' = [slug EXCEPT ![d] = None]
      /\ documents_fts' = [documents_fts EXCEPT ![d] = 0]
      /\ slug_tombstones' = slug_tombstones \cup Retired(None, q.retire)
      /\ req' = [req EXCEPT ![r] = x]
  BY DEF Kill, Goto, ClearColumn
<1>2. /\ Labelled(q) /\ Grounded(q) /\ Stored(q)
      /\ q.op = "revoke" /\ d \in Docs /\ life[d] # "unborn"
  BY <1>1, RequestFacts DEF Labelled, Grounded
<1>3. \A e \in Docs : /\ life'[e] = IF e = d THEN "revoked" ELSE life[e]
                      /\ current_ver'[e] = IF e = d THEN 0 ELSE current_ver[e]
                      /\ published_ver'[e] = IF e = d THEN 0 ELSE published_ver[e]
                      /\ slug'[e] = IF e = d THEN None ELSE slug[e]
  BY <1>1, <1>2 DEF IInv, TypeOK
<1>4. x \in RequestStates
  BY DEF RequestStates, Labels
<1>5. TypeOK'
  <2>1. slug_tombstones' \subseteq Slugs
    BY <1>1 DEF IInv, TypeOK, Retired, RequestStates
  <2> QED BY <1>1, <1>2, <1>4, <2>1 DEF IInv, TypeOK
<1>6. Labelled(x) /\ Grounded(x)'
  BY <1>1, <1>2, <1>3 DEF Labelled, Grounded, RequestStates, VersionsOf
<1>7. Stored(x)'
  BY <1>1, <1>2 DEF Stored, InFlight, RequestStates
<1>8. ASSUME NEW s \in Requests \ {r} PROVE Apart(x, req[s]) /\ Apart(req[s], x)
  BY <1>1, RequestFacts DEF Apart, InFlight, RequestStates
<1>9. ASSUME NEW s \in Requests \ {r}, NEW p \in RequestStates, p = req[s]
      PROVE  Grounded(p)' /\ Stored(p)'
  <2>1. Labelled(p) /\ Grounded(p) /\ Stored(p)
    BY <1>9, RequestFacts
  <2>2. p.op # "none" => p.doc \in Docs
    BY <2>1 DEF Labelled, Idle
  <2>3. Grounded(p)'
    BY <1>2, <1>3, <2>1, <2>2 DEF Grounded, Live, HasVersion, VersionsOf, Labelled
  <2>4. Stored(p)'
    BY <2>1 DEF Stored, KeyOf, BlobKey
  <2> QED BY <2>3, <2>4
<1>10. RequestsInv'
  BY <1>1, <1>4, <1>6, <1>7, <1>8, <1>9, RequestsStep
<1>11. \A v \in versions : v.doc \in Docs
  BY DEF IInv, TypeOK, VersionRows
<1>12. RowsInv'
  BY <1>3, <1>11 DEF IInv, RowsInv, Live, HasVersion
<1>13. PointerInv'
  BY <1>3 DEF IInv, PointerInv, Live, HasVersion
<1>14. LiveVersionsAreStored'
  BY <1>3, <1>11 DEF IInv, LiveVersionsAreStored, Live, Blobs
<1>15. EditsExtendTheirBase' /\ SlugIsUnique'
  BY <1>3 DEF IInv, EditsExtendTheirBase, SlugIsUnique, ConstantsAssumption
<1> QED BY <1>5, <1>10, <1>12, <1>13, <1>14, <1>15 DEF IInv

\* The slug statements keep the columns typed and the index keeps names unique.
LEMMA ApplySlugFacts ==
  ASSUME ConstantsAssumption, IInv, NEW r \in Requests, req[r].doc \in Docs,
         ApplySlug(r), IndexAdmits(req[r].doc, req[r].slug)
  PROVE  /\ slug' \in [Docs -> Slugs \cup {None}]
         /\ slug_tombstones' \subseteq Slugs
         /\ SlugIsUnique'
<1> PICK q \in RequestStates : q = req[r]
  BY RequestFacts
<1>1. slug' = IF q.slug = Keep THEN slug ELSE [slug EXCEPT ![q.doc] = q.slug]
  BY DEF ApplySlug
<1>2. q.slug \in Slugs \cup {None, Keep} /\ q.retire \in Slugs \cup {None}
  BY DEF RequestStates
<1>3. slug' \in [Docs -> Slugs \cup {None}]
  BY <1>1, <1>2 DEF IInv, TypeOK
<1>4. slug_tombstones' \subseteq Slugs
  BY <1>2 DEF ApplySlug, Retired, IInv, TypeOK
<1>5. SlugIsUnique'
  <2>1. CASE q.slug = Keep
    BY <1>1, <2>1 DEF IInv, SlugIsUnique
  <2>2. CASE q.slug # Keep
    <3>1. \A e \in Docs : slug'[e] = IF e = q.doc THEN q.slug ELSE slug[e]
      BY <1>1, <2>2 DEF IInv, TypeOK
    <3> QED BY <3>1 DEF IInv, SlugIsUnique, IndexAdmits
  <2> QED BY <2>1, <2>2
<1> QED BY <1>3, <1>4, <1>5

LEMMA CommitSlugStep ==
  ASSUME ConstantsAssumption, IInv, NEW r \in Requests, CommitSlug(r)
  PROVE  IInv'
<1> UNCHANGED <<life, visibility, current_ver, published_ver, versions,
                documents_fts, bucket, attempts, acked>>
  BY DEF CommitSlug, docVars, textVars, blobVars
<1>1. /\ ApplySlug(r) /\ IndexAdmits(req[r].doc, req[r].slug)
      /\ req' = [req EXCEPT ![r] = Idle] /\ req[r].doc \in Docs
  BY RequestFacts DEF CommitSlug, Finish, Labelled
<1>2. Idle \in RequestStates /\ Labelled(Idle) /\ Grounded(Idle)' /\ Stored(Idle)'
  BY IdleIsGood DEF IInv, Grounded, Stored, InFlight, Idle
<1>3. TypeOK'
  BY <1>1, <1>2, ApplySlugFacts DEF IInv, TypeOK
<1>4. ASSUME NEW s \in Requests \ {r}, NEW p \in RequestStates, p = req[s]
      PROVE  Grounded(p)' /\ Stored(p)'
  BY <1>4, RequestFacts DEF Grounded, Stored, InFlight, Live, HasVersion, VersionsOf
<1>5. RequestsInv'
  BY <1>1, <1>2, <1>4, IdleIsApart, RequestsStep
<1>6. RowsInv'
  BY DEF IInv, RowsInv, Live, HasVersion
<1>7. PointerInv' /\ LiveVersionsAreStored' /\ EditsExtendTheirBase'
  BY DEF IInv, PointerInv, LiveVersionsAreStored, EditsExtendTheirBase, Live, HasVersion, Blobs
<1> QED BY <1>1, <1>3, <1>5, <1>6, <1>7, ApplySlugFacts DEF IInv

LEMMA PromoteStep ==
  ASSUME ConstantsAssumption, IInv, NEW r \in Requests, Promote(r)
  PROVE  IInv'
<1> PICK q \in RequestStates : q = req[r]
  BY RequestFacts
<1> UNCHANGED <<life, visibility, current_ver, slug, slug_tombstones, versions,
                documents_fts, bucket, attempts, acked>>
  BY DEF Promote, nameVars, textVars, blobVars
<1>1. /\ req' = [req EXCEPT ![r] = Idle]
      /\ q.doc \in Docs /\ q.next \in Nat /\ HasVersion(q.doc, q.next)
      /\ published_ver' = IF Live(q.doc) THEN [published_ver EXCEPT ![q.doc] = q.next]
                                         ELSE published_ver
  BY RequestFacts DEF Promote, Finish, Labelled, Grounded, PromotesRow, Live, RequestStates
<1>2. Idle \in RequestStates /\ Labelled(Idle) /\ Grounded(Idle)' /\ Stored(Idle)'
  BY IdleIsGood DEF IInv, Grounded, Stored, InFlight, Idle
<1>3. TypeOK'
  BY <1>1, <1>2 DEF IInv, TypeOK
<1>4. ASSUME NEW s \in Requests \ {r}, NEW p \in RequestStates, p = req[s]
      PROVE  Grounded(p)' /\ Stored(p)'
  BY <1>4, RequestFacts DEF Grounded, Stored, InFlight, Live, HasVersion, VersionsOf
<1>5. RequestsInv'
  BY <1>1, <1>2, <1>4, IdleIsApart, RequestsStep
<1>6. q.next # 0
  BY <1>1 DEF HasVersion, IInv, TypeOK, VersionRows
<1>7. PointerInv'
  BY <1>1, <1>6 DEF IInv, TypeOK, PointerInv, Live, HasVersion
<1>8. RowsInv'
  BY DEF IInv, RowsInv, Live, HasVersion
<1>9. LiveVersionsAreStored' /\ EditsExtendTheirBase' /\ SlugIsUnique'
  BY DEF IInv, LiveVersionsAreStored, EditsExtendTheirBase, SlugIsUnique, Live, Blobs
<1> QED BY <1>3, <1>5, <1>7, <1>8, <1>9 DEF IInv

LEMMA SetVisibilityStep ==
  ASSUME ConstantsAssumption, IInv, NEW d \in Docs, SetVisibility(d)
  PROVE  IInv'
<1> UNCHANGED <<life, current_ver, slug, slug_tombstones, versions,
                documents_fts, bucket, attempts, req, acked>>
  BY DEF SetVisibility, nameVars, textVars, blobVars
<1>1. PICK vis \in Visibilities :
        /\ visibility' = [visibility EXCEPT ![d] = vis]
        /\ published_ver' = [published_ver EXCEPT ![d] = PublishedOnFlip(d, vis)]
  BY DEF SetVisibility, Visibilities
<1>2. Live(d)
  BY DEF SetVisibility, Live
<1>3. TypeOK'
  BY <1>1 DEF IInv, TypeOK, PublishedOnFlip
<1>4. RequestsInv'
  <2>1. \A s \in Requests : Grounded(req[s])'
    BY DEF IInv, RequestsInv, Grounded, Live, HasVersion, VersionsOf
  <2>2. \A s \in Requests : Stored(req[s])'
    BY DEF IInv, RequestsInv, Stored, InFlight, KeyOf, BlobKey
  <2> QED BY <2>1, <2>2 DEF IInv, RequestsInv
<1>5. PointerInv'
  <2>1. current_ver[d] \in Nat /\ current_ver[d] > 0 /\ HasVersion(d, current_ver[d])
    BY <1>2 DEF IInv, TypeOK, RowsInv
  <2>2. PublishedOnFlip(d, vis) # 0 => HasVersion(d, PublishedOnFlip(d, vis))
    BY <1>2, <2>1 DEF IInv, PointerInv, PublishedOnFlip
  <2>3. vis = "public" => PublishedOnFlip(d, vis) # 0
    BY <2>1 DEF PublishedOnFlip
  <2> QED BY <1>1, <1>2, <2>2, <2>3 DEF IInv, TypeOK, PointerInv, Live, HasVersion
<1>6. RowsInv'
  BY DEF IInv, RowsInv, Live, HasVersion
<1>7. LiveVersionsAreStored' /\ EditsExtendTheirBase' /\ SlugIsUnique'
  BY DEF IInv, LiveVersionsAreStored, EditsExtendTheirBase, SlugIsUnique, Live, Blobs
<1> QED BY <1>3, <1>4, <1>5, <1>6, <1>7 DEF IInv

LEMMA ReleaseSlugTombstoneStep ==
  ASSUME ConstantsAssumption, IInv, NEW s \in Slugs, ReleaseSlugTombstone(s)
  PROVE  IInv'
<1> UNCHANGED <<life, visibility, current_ver, published_ver, slug, versions,
                documents_fts, bucket, attempts, req, acked>>
  BY DEF ReleaseSlugTombstone, docVars, textVars, blobVars
<1>1. TypeOK'
  BY DEF ReleaseSlugTombstone, IInv, TypeOK
<1>2. RequestsInv'
  <2>1. \A r \in Requests : Grounded(req[r])'
    BY DEF IInv, RequestsInv, Grounded, Live, HasVersion, VersionsOf
  <2>2. \A r \in Requests : Stored(req[r])'
    BY DEF IInv, RequestsInv, Stored, InFlight, KeyOf, BlobKey
  <2> QED BY <2>1, <2>2 DEF IInv, RequestsInv
<1>3. RowsInv' /\ PointerInv'
  BY DEF IInv, RowsInv, PointerInv, Live, HasVersion
<1>4. LiveVersionsAreStored' /\ EditsExtendTheirBase' /\ SlugIsUnique'
  BY DEF IInv, LiveVersionsAreStored, EditsExtendTheirBase, SlugIsUnique, Live, Blobs
<1> QED BY <1>1, <1>2, <1>3, <1>4 DEF IInv

\* A publish commits on the document it drew: no one else works on it, and no
\* row is filed under it yet.
LEMMA CommitPublishStep ==
  ASSUME ConstantsAssumption, IInv, NEW r \in Requests, CommitPublish(r)
  PROVE  IInv'
<1> PICK q \in RequestStates : q = req[r]
  BY RequestFacts
<1> PICK d : d = q.doc
  OBVIOUS
<1> PICK row : row = VersionRow(d, 1, KeyOf(q), q.src, 0)
  OBVIOUS
<1> UNCHANGED <<bucket, attempts, acked>>
  BY DEF CommitPublish, blobVars
<1>1. /\ q.pc = "batch" /\ q.op = "publish"
      /\ life' = [life EXCEPT ![d] = "live"]
      /\ visibility' = [visibility EXCEPT ![d] = q.vis]
      /\ current_ver' = [current_ver EXCEPT ![d] = 1]
      /\ published_ver' = [published_ver EXCEPT ![d] = PublishedAtBirth(q.vis)]
      /\ versions' = versions \cup {row}
      /\ documents_fts' = [documents_fts EXCEPT ![d] = 1]
      /\ ApplySlug(r) /\ IndexAdmits(q.doc, q.slug)
      /\ req' = [req EXCEPT ![r] = Idle]
  BY DEF CommitPublish, Finish, Key
<1>2. /\ d \in Docs /\ life[d] = "unborn" /\ q.src \in Sources /\ q.next = 1
      /\ q.nonce \in Nat /\ q.nonce <= attempts /\ q.vis \in Visibilities
      /\ Blobs(KeyOf(q)) \subseteq bucket
  BY <1>1, RequestFacts DEF Labelled, Grounded, Stored, RequestStates, Blobs
<1>3. /\ row \in VersionRows /\ row.doc = d /\ row.no = 1 /\ row.base = 0
      /\ row.key = KeyOf(q) /\ row.key[1] = d /\ row.key[3] = q.nonce
  BY <1>2 DEF VersionRow, VersionRows, Keys, KeyOf, BlobKey
<1>4. \A v \in versions : v \in VersionRows /\ v.doc \in Docs /\ v.doc # d
  BY <1>2 DEF IInv, TypeOK, RowsInv, VersionRows
<1>5. \A e \in Docs :
        /\ life'[e] = IF e = d THEN "live" ELSE life[e]
        /\ visibility'[e] = IF e = d THEN q.vis ELSE visibility[e]
        /\ current_ver'[e] = IF e = d THEN 1 ELSE current_ver[e]
        /\ published_ver'[e] = IF e = d THEN PublishedAtBirth(q.vis) ELSE published_ver[e]
  BY <1>1, <1>2 DEF IInv, TypeOK
<1>6. Idle \in RequestStates /\ Labelled(Idle) /\ Grounded(Idle)' /\ Stored(Idle)'
  BY IdleIsGood DEF IInv, TypeOK, Grounded, Stored, InFlight, Idle
<1>7. PublishedAtBirth(q.vis) \in {0, 1} /\ (q.vis = "public" => PublishedAtBirth(q.vis) = 1)
  BY DEF PublishedAtBirth
<1>8. TypeOK'
  <2>1. slug' \in [Docs -> Slugs \cup {None}] /\ slug_tombstones' \subseteq Slugs
    BY <1>1, <1>2, ApplySlugFacts
  <2>2. versions' \subseteq VersionRows
    BY <1>1, <1>3 DEF IInv, TypeOK
  <2>3. req' \in [Requests -> RequestStates]
    BY <1>1, <1>6 DEF IInv, TypeOK
  <2>4. life' \in [Docs -> {"unborn", "live", "revoked"}] /\ visibility' \in [Docs -> Visibilities]
    BY <1>1, <1>2 DEF IInv, TypeOK
  <2>5. current_ver' \in [Docs -> Nat] /\ documents_fts' \in [Docs -> Nat]
    BY <1>1, 1 \in Nat DEF IInv, TypeOK
  <2>6. PublishedAtBirth(q.vis) \in Nat
    BY <1>7
  <2>7. published_ver' \in [Docs -> Nat]
    BY <1>1, <2>6 DEF IInv, TypeOK
  <2> QED BY <2>1, <2>2, <2>3, <2>4, <2>5, <2>7 DEF IInv, TypeOK
<1>9. \A e, n : HasVersion(e, n) => HasVersion(e, n)'
  BY <1>1 DEF HasVersion
<1>10. ASSUME NEW s \in Requests \ {r}, NEW p \in RequestStates, p = req[s]
       PROVE  Grounded(p)' /\ Stored(p)'
  <2>1. Labelled(p) /\ Grounded(p) /\ Stored(p) /\ Apart(q, p)
    BY <1>10, RequestFacts
  <2>2. p.doc # d
    BY <1>1, <2>1 DEF Apart
  <2>3. p.op # "none" => p.doc \in Docs
    BY <2>1 DEF Labelled, Idle
  <2>4. Grounded(p)'
    BY <1>1, <1>5, <1>9, <2>1, <2>2, <2>3 DEF Grounded, Live, VersionsOf, Labelled
  <2>5. InFlight(p) => row.key[3] # p.nonce
    BY <1>1, <1>3, <2>1 DEF Apart, InFlight
  <2>6. Stored(p)'
    BY <1>1, <2>1, <2>5 DEF Stored, KeyOf, BlobKey, InFlight
  <2> QED BY <2>4, <2>6
<1>11. RequestsInv'
  BY <1>1, <1>6, <1>10, IdleIsApart, RequestsStep
<1>12. HasVersion(d, 1)'
  BY <1>1, <1>3 DEF HasVersion
<1>13. RowsInv'
  <2>1. \A v \in versions' : life'[v.doc] # "unborn" /\ v.key[1] = v.doc /\ v.key[3] <= attempts'
    BY <1>1, <1>2, <1>3, <1>4, <1>5 DEF IInv, RowsInv
  <2>2. \A v, w \in versions' : v.doc = w.doc /\ v.no = w.no => v = w
    BY <1>1, <1>3, <1>4 DEF IInv, RowsInv
  <2>3. ASSUME NEW e \in Docs, Live(e)'
        PROVE  /\ current_ver'[e] > 0
               /\ \A v \in versions' : v.doc = e => v.no <= current_ver'[e]
               /\ \A n \in 1..current_ver'[e] : HasVersion(e, n)'
    <3>1. CASE e = d
      BY <1>1, <1>3, <1>4, <1>5, <1>12, <3>1
    <3>2. CASE e # d
      BY <1>1, <1>3, <1>5, <1>9, <2>3, <3>2 DEF IInv, RowsInv, Live
    <3> QED BY <3>1, <3>2
  <2> QED BY <2>1, <2>2, <2>3 DEF RowsInv
<1>14. PointerInv'
  BY <1>5, <1>7, <1>9, <1>12 DEF IInv, PointerInv, Live
<1>15. LiveVersionsAreStored'
  BY <1>1, <1>2, <1>3, <1>4, <1>5 DEF IInv, LiveVersionsAreStored, Live, Blobs
<1>16. EditsExtendTheirBase'
  BY <1>1, <1>3 DEF IInv, EditsExtendTheirBase
<1>17. SlugIsUnique'
  BY <1>1, <1>2, ApplySlugFacts
<1> QED BY <1>8, <1>11, <1>13, <1>14, <1>15, <1>16, <1>17 DEF IInv

\* An update on a live document appends exactly the next version: the primary
\* key refuses any version it already has, and it is never further ahead.
LEMMA CommitUpdateStep ==
  ASSUME ConstantsAssumption, IInv, NEW r \in Requests, CommitUpdate(r)
  PROVE  IInv'
<1> PICK q \in RequestStates : q = req[r]
  BY RequestFacts
<1> PICK d : d = q.doc
  OBVIOUS
<1> PICK row : row = VersionRow(d, q.next, KeyOf(q), q.src, q.base)
  OBVIOUS
<1> UNCHANGED <<life, visibility, published_ver, bucket, attempts, acked>>
  BY DEF CommitUpdate, blobVars
<1>1. /\ q.pc = "batch" /\ q.op = "update"
      /\ ~HasVersion(d, q.next)
      /\ versions' = versions \cup {row}
      /\ current_ver' = [current_ver EXCEPT ![d] = q.next]
      /\ documents_fts' = [documents_fts EXCEPT ![d] = q.next]
      /\ ApplySlug(r) /\ IndexAdmits(q.doc, q.slug)
      /\ req' = [req EXCEPT ![r] = Idle]
  BY DEF CommitUpdate, Finish, Key, PrimaryKeyAdmits
<1>2. /\ d \in Docs /\ life[d] # "unborn" /\ q.src \in Sources
      /\ q.next \in Nat \ {0} /\ q.base \in Nat /\ q.base \in {0, q.next - 1}
      /\ Live(d) => q.next <= current_ver[d] + 1
      /\ q.nonce \in Nat /\ q.nonce <= attempts
      /\ Blobs(KeyOf(q)) \subseteq bucket
  BY <1>1, RequestFacts DEF Labelled, Grounded, Stored, RequestStates, Blobs
<1>3. /\ row \in VersionRows /\ row.doc = d /\ row.no = q.next /\ row.base = q.base
      /\ row.key = KeyOf(q) /\ row.key[1] = d /\ row.key[3] = q.nonce
  BY <1>2 DEF VersionRow, VersionRows, Keys, KeyOf, BlobKey
<1>4. current_ver[d] \in Nat
  BY <1>2 DEF IInv, TypeOK
<1>5. Live(d) => q.next = current_ver[d] + 1
  <2>1. Live(d) => q.next \notin 1..current_ver[d]
    BY <1>1, <1>2 DEF IInv, RowsInv
  <2> QED BY <1>2, <1>4, <2>1
<1>6. \A e \in Docs : current_ver'[e] = IF e = d THEN q.next ELSE current_ver[e]
  BY <1>1, <1>2 DEF IInv, TypeOK
<1>7. Idle \in RequestStates /\ Labelled(Idle) /\ Grounded(Idle)' /\ Stored(Idle)'
  BY IdleIsGood DEF IInv, TypeOK, Grounded, Stored, InFlight, Idle
<1>8. TypeOK'
  <2>1. slug' \in [Docs -> Slugs \cup {None}] /\ slug_tombstones' \subseteq Slugs
    BY <1>1, <1>2, ApplySlugFacts
  <2>2. versions' \subseteq VersionRows
    BY <1>1, <1>3 DEF IInv, TypeOK
  <2>3. req' \in [Requests -> RequestStates]
    BY <1>1, <1>7 DEF IInv, TypeOK
  <2>4. current_ver' \in [Docs -> Nat] /\ documents_fts' \in [Docs -> Nat]
    BY <1>1, <1>2 DEF IInv, TypeOK
  <2> QED BY <2>1, <2>2, <2>3, <2>4 DEF IInv, TypeOK
<1>9. \A e, n : HasVersion(e, n) => HasVersion(e, n)'
  BY <1>1 DEF HasVersion
<1>10. ASSUME NEW s \in Requests \ {r}, NEW p \in RequestStates, p = req[s]
       PROVE  Grounded(p)' /\ Stored(p)'
  <2>1. Labelled(p) /\ Grounded(p) /\ Stored(p) /\ Apart(q, p) /\ p.next \in Nat
    BY <1>10, RequestFacts DEF RequestStates
  <2>2. p.op # "none" => p.doc \in Docs
    BY <2>1 DEF Labelled, Idle
  <2>3. p.op = "update" /\ Live(p.doc) => p.next <= current_ver'[p.doc] + 1
    BY <1>2, <1>4, <1>5, <1>6, <2>1, <2>2 DEF Grounded
  <2>4. Grounded(p)'
    BY <1>1, <1>9, <2>1, <2>3 DEF Grounded, Live, VersionsOf
  <2>5. InFlight(p) => row.key[3] # p.nonce
    BY <1>1, <1>3, <2>1 DEF Apart, InFlight
  <2>6. Stored(p)'
    BY <1>1, <2>1, <2>5 DEF Stored, KeyOf, BlobKey, InFlight
  <2> QED BY <2>4, <2>6
<1>11. RequestsInv'
  BY <1>1, <1>7, <1>10, IdleIsApart, RequestsStep
<1>12. HasVersion(d, q.next)'
  BY <1>1, <1>3 DEF HasVersion
<1>13. RowsInv'
  <2>1. \A v \in versions' : life'[v.doc] # "unborn" /\ v.key[1] = v.doc /\ v.key[3] <= attempts'
    BY <1>1, <1>2, <1>3 DEF IInv, RowsInv
  <2>2. \A v, w \in versions' : v.doc = w.doc /\ v.no = w.no => v = w
    BY <1>1, <1>3 DEF IInv, RowsInv, HasVersion
  <2>3. ASSUME NEW e \in Docs, Live(e)'
        PROVE  /\ current_ver'[e] > 0
               /\ \A v \in versions' : v.doc = e => v.no <= current_ver'[e]
               /\ \A n \in 1..current_ver'[e] : HasVersion(e, n)'
    <3>0. Live(e)
      BY <2>3 DEF Live
    <3>1. CASE e = d
      <4>1. current_ver'[e] = current_ver[d] + 1 /\ q.next = current_ver[d] + 1
        BY <1>5, <1>6, <3>0, <3>1
      <4>2. \A v \in versions : v.doc = d => v.no \in Nat /\ v.no <= current_ver[d]
        BY <1>2, <3>0, <3>1 DEF IInv, RowsInv, TypeOK, VersionRows
      <4>3. \A v \in versions' : v.doc = e => v.no <= current_ver'[e]
        BY <1>1, <1>3, <1>4, <3>1, <4>1, <4>2
      <4>4. \A n \in 1..current_ver[d] : HasVersion(d, n)'
        BY <1>2, <1>9, <3>0, <3>1 DEF IInv, RowsInv
      <4> QED BY <1>4, <1>12, <3>1, <4>1, <4>3, <4>4
    <3>2. CASE e # d
      BY <1>1, <1>3, <1>6, <1>9, <3>0, <3>2 DEF IInv, RowsInv
    <3> QED BY <3>1, <3>2
  <2> QED BY <2>1, <2>2, <2>3 DEF RowsInv
<1>14. PointerInv'
  BY <1>9 DEF IInv, PointerInv, Live
<1>15. LiveVersionsAreStored'
  BY <1>1, <1>2, <1>3 DEF IInv, LiveVersionsAreStored, Live, Blobs
<1>16. EditsExtendTheirBase'
  BY <1>1, <1>2, <1>3 DEF IInv, EditsExtendTheirBase
<1>17. SlugIsUnique'
  BY <1>1, <1>2, ApplySlugFacts
<1> QED BY <1>8, <1>11, <1>13, <1>14, <1>15, <1>16, <1>17 DEF IInv

-----------------------------------------------------------------------------
(* The invariant.                                                          *)

LEMMA InitIInv ==
  ASSUME ConstantsAssumption, Init
  PROVE  IInv
<1>1. TypeOK
  <2>1. Idle \in RequestStates
    BY DEF Idle, RequestStates, Labels, Operations, Visibilities
  <2>2. None \in Slugs \cup {None}
    OBVIOUS
  <2> QED BY <2>1, <2>2 DEF Init, TypeOK, Visibilities
<1>2. RequestsInv
  <2>1. Labelled(Idle) /\ Grounded(Idle) /\ Stored(Idle)
    BY <1>1, IdleIsGood
  <2>2. Apart(Idle, Idle)
    BY DEF Apart, Idle, InFlight
  <2> QED BY <2>1, <2>2 DEF Init, RequestsInv
<1>3. RowsInv /\ PointerInv /\ LiveVersionsAreStored /\ EditsExtendTheirBase
  BY DEF Init, RowsInv, PointerInv, LiveVersionsAreStored, EditsExtendTheirBase, Live
<1>4. SlugIsUnique
  BY DEF Init, SlugIsUnique, ConstantsAssumption
<1> QED BY <1>1, <1>2, <1>3, <1>4 DEF IInv

\* Every step of the store keeps IInv.
LEMMA NextIInv ==
  ASSUME ConstantsAssumption, IInv, [Next]_vars
  PROVE  IInv'
<1>1. ASSUME NEW r \in Requests, Step(r) PROVE IInv'
  <2>1. CASE BeginPublish(r)  BY <2>1, BeginPublishStep
  <2>2. CASE BeginUpdate(r)  BY <2>2, BeginUpdateStep
  <2>3. CASE BeginSourceRead(r)  BY <2>3, BeginSourceReadStep
  <2>4. CASE GetSource(r)  BY <2>4, GetSourceStep
  <2>5. CASE DelegateUpdate(r)  BY <2>5, DelegateUpdateStep
  <2>6. CASE CheckConflict(r)  BY <2>6, CheckConflictStep
  <2>7. CASE CheckRetired(r)  BY <2>7, CheckRetiredStep
  <2>8. CASE PutRender(r)  BY <2>8, PutRenderStep
  <2>9. CASE PutSource(r)  BY <2>9, PutSourceStep
  <2>10. CASE CommitPublish(r)  BY <2>10, CommitPublishStep
  <2>11. CASE CommitUpdate(r)  BY <2>11, CommitUpdateStep
  <2>12. CASE FailBatch(r)  BY <2>12, FailBatchStep
  <2>13. CASE Rollback(r)  BY <2>13, RollbackStep
  <2>14. CASE \E d \in Docs : BeginRevoke(r, d)  BY <2>14, BeginRevokeStep
  <2>15. CASE ReadKeys(r)  BY <2>15, ReadKeysStep
  <2>16. CASE Kill(r)  BY <2>16, KillStep
  <2>17. CASE \E n \in 1..MaxVersion : Purge(r, n)  BY <2>17, PurgeStep
  <2>18. CASE AnswerRevoke(r)  BY <2>18, AnswerRevokeStep
  <2>19. CASE BeginSetSlug(r)  BY <2>19, BeginSetSlugStep
  <2>20. CASE CommitSlug(r)  BY <2>20, CommitSlugStep
  <2>21. CASE BeginPromote(r)  BY <2>21, BeginPromoteStep
  <2>22. CASE Promote(r)  BY <2>22, PromoteStep
  <2>23. CASE Abandon(r)  BY <2>23, AbandonStep
  <2> QED
    BY <1>1, <2>1, <2>2, <2>3, <2>4, <2>5, <2>6, <2>7, <2>8, <2>9, <2>10, <2>11, <2>12,
       <2>13, <2>14, <2>15, <2>16, <2>17, <2>18, <2>19, <2>20, <2>21, <2>22, <2>23 DEF Step
<1>2. CASE \E d \in Docs : SetVisibility(d)
  BY <1>2, SetVisibilityStep
<1>3. CASE \E s \in Slugs : ReleaseSlugTombstone(s)
  BY <1>3, ReleaseSlugTombstoneStep
<1>4. CASE UNCHANGED vars
  <2> UNCHANGED <<life, visibility, current_ver, published_ver, slug, versions,
                  documents_fts, slug_tombstones, bucket, attempts, req, acked>>
    BY <1>4 DEF vars, docVars, nameVars, textVars, blobVars
  <2>1. TypeOK'
    BY DEF IInv, TypeOK
  <2>2. \A r \in Requests : Grounded(req[r])' /\ Stored(req[r])'
    BY DEF IInv, RequestsInv, Grounded, Stored, InFlight, KeyOf, BlobKey, Live,
       HasVersion, VersionsOf
  <2>3. RequestsInv'
    BY <2>2 DEF IInv, RequestsInv
  <2>4. RowsInv' /\ PointerInv'
    BY DEF IInv, RowsInv, PointerInv, Live, HasVersion
  <2>5. LiveVersionsAreStored' /\ EditsExtendTheirBase' /\ SlugIsUnique'
    BY DEF IInv, LiveVersionsAreStored, EditsExtendTheirBase, SlugIsUnique, Live, Blobs
  <2> QED BY <2>1, <2>3, <2>4, <2>5 DEF IInv
<1> QED BY <1>1, <1>2, <1>3, <1>4 DEF Next

\* IInv holds in every reachable state, for any number of documents, names,
\* texts and requests in flight.
THEOREM Invariance == Spec => []IInv
<1>1. Init => IInv
  BY InitIInv, ConstantsAssumption
<1>2. IInv /\ [Next]_vars => IInv'
  BY NextIInv, ConstantsAssumption
<1> QED BY <1>1, <1>2, PTL DEF Spec

\* Every column and every request field keeps its type.
THEOREM TypeCorrect == Spec => []TypeOK
<1>1. IInv => TypeOK
  BY DEF IInv
<1> QED BY <1>1, Invariance, PTL

\* No rollback and no purge takes the bytes of a live document's version.
THEOREM NoLiveBytesLost == Spec => []LiveVersionsAreStored
<1>1. IInv => LiveVersionsAreStored
  BY DEF IInv
<1> QED BY <1>1, Invariance, PTL

\* Concurrent writers leave a history without gap or double.
THEOREM HistoriesAreDense == Spec => []HistoryIsDense
<1>1. ASSUME IInv PROVE HistoryIsDense
  <2>1. ASSUME NEW d \in Docs, Live(d)
        PROVE  current_ver[d] > 0 /\ {v.no : v \in VersionsOf(d)} = 1..current_ver[d]
    <3>1. current_ver[d] \in Nat /\ current_ver[d] > 0
      BY <1>1, <2>1 DEF IInv, TypeOK, RowsInv
    <3>2. \A v \in VersionsOf(d) : v.no \in 1..current_ver[d]
      BY <1>1, <2>1, <3>1 DEF IInv, TypeOK, RowsInv, VersionsOf, VersionRows
    <3>3. \A n \in 1..current_ver[d] : \E v \in VersionsOf(d) : v.no = n
      BY <1>1, <2>1 DEF IInv, RowsInv, HasVersion, VersionsOf
    <3> QED BY <3>1, <3>2, <3>3
  <2> QED BY <1>1, <2>1 DEF HistoryIsDense, IInv, RowsInv
<1> QED BY <1>1, Invariance, PTL

\* An edit or a guarded update extends the very version it was written from.
THEOREM NoLostUpdate == Spec => []EditsExtendTheirBase
<1>1. IInv => EditsExtendTheirBase
  BY DEF IInv
<1> QED BY <1>1, Invariance, PTL

\* A public document always has an existing published version.
THEOREM PublicMeansPublished == Spec => []PublicIsPublished
<1>1. IInv => PublicIsPublished
  BY DEF IInv, PointerInv, PublicIsPublished
<1> QED BY <1>1, Invariance, PTL

\* A revoked document keeps no published pointer.
THEOREM NoPromotionAfterRevoke == Spec => []RevokedIsUnpublished
<1>1. IInv => RevokedIsUnpublished
  BY DEF IInv, PointerInv, RevokedIsUnpublished, Live
<1> QED BY <1>1, Invariance, PTL

\* No two documents hold the same name.
THEOREM NamesAreUnique == Spec => []SlugIsUnique
<1>1. IInv => SlugIsUnique
  BY DEF IInv
<1> QED BY <1>1, Invariance, PTL

-----------------------------------------------------------------------------
(* Names: as long as no two requests that change names overlap, a name is  *)
(* live or retired and never both, and no name is shed without being       *)
(* retired.  Writes that leave the name alone may overlap with them and    *)
(* with each other as they like.  The assumption is needed: resolveSlug    *)
(* reads before the batch and nothing in the batch reads again, so two     *)
(* overlapping renames can retire a name one of them holds.                *)

\* A request that may change a name: every revoke, and every write that names
\* a slug other than the one its document has.
ChangesName(q) == q.op = "revoke" \/ q.slug # Keep

NamesAlone ==
  \A r, s \in Requests : r # s => ~(ChangesName(req[r]) /\ ChangesName(req[s]))

\* What a request read of its document's name, and of the name it claims, is
\* still so.
NamesCurrent(q) ==
  /\ q.op \in {"update", "slug"} /\ q.slug # Keep =>
       Live(q.doc) /\ q.retire = slug[q.doc] /\ q.slug # q.retire
  /\ q.pc \in {"keys", "kill"} => q.retire = slug[q.doc]
  /\ q.op = "publish" => q.retire = None
  /\ q.pc \in {"putRender", "putSource", "batch", "slugBatch"} /\ q.slug \in Slugs =>
       q.slug \notin slug_tombstones

NamesInv ==
  /\ LiveAndRetiredAreDisjoint
  /\ \A d \in Docs : ~Live(d) => slug[d] = None
  /\ \A r \in Requests : NamesCurrent(req[r])

\* What ShedNamesAreRetired says of one step.
ShedAreRetired == \A s \in Slugs : Named(s) /\ ~Named(s)' => s \in slug_tombstones'

-----------------------------------------------------------------------------
LEMMA NoneIsNoName == None \notin Slugs /\ Keep \notin Slugs /\ None # Keep
BY ConstantsAssumption DEF ConstantsAssumption

LEMMA IdleNamesNothing == NamesCurrent(Idle)
BY NoneIsNoName DEF NamesCurrent, Idle

\* A step that moves one request and leaves names and lives alone.
LEMMA LocalNames ==
  ASSUME IInv, NamesInv, NEW r \in Requests, NEW x, NamesCurrent(x),
         req' = [req EXCEPT ![r] = x], UNCHANGED <<life, slug, slug_tombstones>>
  PROVE  NamesInv' /\ ShedAreRetired
<1>1. \A s \in Requests : req'[s] = IF s = r THEN x ELSE req[s]
  BY DEF IInv, TypeOK
<1>2. \A s \in Requests : NamesCurrent(req'[s])
  BY <1>1 DEF NamesInv
<1>3. \A s \in Requests : NamesCurrent(req[s])'
  BY <1>2 DEF NamesCurrent, Live
<1> QED BY <1>3 DEF NamesInv, LiveAndRetiredAreDisjoint, Live, ShedAreRetired, Named

\* While one request changes a name, the others hold on to none.
LEMMA OthersHoldNoName ==
  ASSUME IInv, NamesInv, NamesAlone, NEW r \in Requests, ChangesName(req[r]),
         NEW s \in Requests \ {r}, req'[s] = req[s]
  PROVE  NamesCurrent(req[s])'
<1>1. req[s].op # "revoke" /\ req[s].slug = Keep
  BY DEF NamesAlone, ChangesName
<1>2. req[s].pc \notin {"keys", "kill"}
  BY <1>1, RequestFacts DEF Labelled
<1>3. req[s].op = "publish" => req[s].retire = None
  BY DEF NamesInv, NamesCurrent
<1> QED BY <1>1, <1>2, <1>3, NoneIsNoName DEF NamesCurrent

\* A batch that applies a slug action: the name it claims was not retired, and
\* the one it leaves was the document's own.
LEMMA CommitNames ==
  ASSUME IInv, NamesInv, NamesAlone, NEW r \in Requests,
         req[r].pc \in {"batch", "slugBatch"}, ApplySlug(r),
         req' = [req EXCEPT ![r] = Idle],
         life' = [life EXCEPT ![req[r].doc] = "live"] \/ life' = life,
         req[r].op = "publish" => life' = [life EXCEPT ![req[r].doc] = "live"]
  PROVE  NamesInv' /\ ShedAreRetired
<1> PICK q \in RequestStates : q = req[r]
  BY RequestFacts
<1>1. /\ q.doc \in Docs /\ q.op \in {"publish", "update", "slug"}
      /\ q.op = "publish" => life[q.doc] = "unborn"
      /\ q.slug \in Slugs \cup {None, Keep}
  BY RequestFacts DEF Labelled, Grounded, RequestStates
<1>2. \A s \in Requests : req'[s] = IF s = r THEN Idle ELSE req[s]
  BY DEF IInv, TypeOK
<1>3. /\ \A d \in Docs : life'[d] = life[d] \/ life'[d] = "live"
      /\ q.op = "publish" => life'[q.doc] = "live"
  BY <1>1 DEF IInv, TypeOK
<1>4. NamesCurrent(Idle)'
  BY NoneIsNoName DEF NamesCurrent, Idle
<1>5. CASE q.slug = Keep
  <2>1. slug' = slug /\ slug_tombstones' = slug_tombstones
    BY <1>5 DEF ApplySlug, Retired
  <2>2. \A d \in Docs : ~Live(d)' => slug'[d] = None
    BY <1>3, <2>1 DEF NamesInv, Live
  <2>3. ASSUME NEW s \in Requests PROVE NamesCurrent(req[s])'
    <3>1. CASE s = r
      BY <1>2, <1>4, <3>1 DEF NamesCurrent
    <3>2. CASE s # r
      <4>1. NamesCurrent(req[s]) /\ req'[s] = req[s]
        BY <1>2, <3>2 DEF NamesInv
      <4>2. req[s].op \in {"update", "slug"} => req[s].doc \in Docs
        BY RequestFacts DEF Labelled, Idle
      <4>3. req[s].op \in {"update", "slug"} /\ Live(req[s].doc) => Live(req[s].doc)'
        BY <1>3, <4>1, <4>2 DEF Live
      <4> QED BY <2>1, <4>1, <4>3 DEF NamesCurrent
    <3> QED BY <3>1, <3>2
  <2> QED BY <2>1, <2>2, <2>3 DEF NamesInv, LiveAndRetiredAreDisjoint, ShedAreRetired, Named
<1>6. CASE q.slug # Keep
  <2>1. q.retire = slug[q.doc] /\ (q.slug \in Slugs => q.slug # q.retire)
    <3>1. CASE q.op = "publish"
      BY <1>1, <3>1, NoneIsNoName DEF NamesInv, NamesCurrent, Live
    <3>2. CASE q.op # "publish"
      BY <1>1, <1>6, <3>2 DEF NamesInv, NamesCurrent
    <3> QED BY <3>1, <3>2
  <2>2. q.slug \notin slug_tombstones
    BY <1>1, <1>6 DEF NamesInv, NamesCurrent, IInv, TypeOK
  <2>3. /\ \A d \in Docs : slug'[d] = IF d = q.doc THEN q.slug ELSE slug[d]
        /\ slug_tombstones' = slug_tombstones \cup ({slug[q.doc]} \ {None})
    BY <1>6, <2>1 DEF ApplySlug, Retired, IInv, TypeOK
  <2>4. \A d \in Docs : slug'[d] \notin slug_tombstones'
    <3>1. slug'[q.doc] \notin slug_tombstones'
      BY <1>1, <1>6, <2>1, <2>2, <2>3
    <3>2. \A d \in Docs \ {q.doc} : slug[d] \in Slugs => slug[d] # slug[q.doc]
      BY <1>1 DEF IInv, SlugIsUnique
    <3>3. \A d \in Docs : slug[d] \in Slugs \cup {None} /\ slug[d] \notin slug_tombstones
      BY DEF NamesInv, LiveAndRetiredAreDisjoint, IInv, TypeOK
    <3> QED BY <1>1, <2>3, <3>1, <3>2, <3>3, NoneIsNoName
  <2>5. \A d \in Docs : ~Live(d)' => slug'[d] = None
    <3>1. Live(q.doc)'
      <4>1. CASE q.op = "publish"
        BY <1>1, <1>3, <4>1 DEF Live
      <4>2. CASE q.op # "publish"
        BY <1>1, <1>3, <1>6, <4>2 DEF Live, NamesInv, NamesCurrent
      <4> QED BY <4>1, <4>2
    <3>2. \A d \in Docs : ~Live(d)' => ~Live(d)
      BY <1>3 DEF Live
    <3> QED BY <1>1, <2>3, <3>1, <3>2 DEF NamesInv
  <2>6. ChangesName(req[r])
    BY <1>6 DEF ChangesName
  <2>7. \A s \in Requests : NamesCurrent(req[s])'
    BY <1>2, <1>4, <2>6, OthersHoldNoName DEF NamesCurrent
  <2>8. ShedAreRetired
    BY <1>1, <2>3, NoneIsNoName DEF ShedAreRetired, Named
  <2> QED BY <2>4, <2>5, <2>7, <2>8 DEF NamesInv, LiveAndRetiredAreDisjoint
<1> QED BY <1>5, <1>6

\* The kill releases the document's own name and retires it.
LEMMA KillNames ==
  ASSUME IInv, NamesInv, NamesAlone, NEW r \in Requests, Kill(r)
  PROVE  NamesInv' /\ ShedAreRetired
<1> PICK q \in RequestStates : q = req[r]
  BY RequestFacts
<1>1. q.pc = "kill" /\ q.op = "revoke" /\ q.doc \in Docs /\ q.retire = slug[q.doc]
  BY RequestFacts DEF Kill, Labelled, NamesInv, NamesCurrent
<1> DEFINE x == [q EXCEPT !.pc = "purge"]
<1>2. /\ life' = [life EXCEPT ![q.doc] = "revoked"]
      /\ slug' = [slug EXCEPT ![q.doc] = None]
      /\ slug_tombstones' = slug_tombstones \cup ({slug[q.doc]} \ {None})
      /\ req' = [req EXCEPT ![r] = x]
  BY <1>1, NoneIsNoName DEF Kill, ClearColumn, Retired, Goto
<1>3. \A d \in Docs : /\ life'[d] = IF d = q.doc THEN "revoked" ELSE life[d]
                      /\ slug'[d] = IF d = q.doc THEN None ELSE slug[d]
  BY <1>2 DEF IInv, TypeOK
<1>4. \A s \in Requests : req'[s] = IF s = r THEN x ELSE req[s]
  BY <1>2 DEF IInv, TypeOK
<1>5. \A d \in Docs : slug'[d] \notin slug_tombstones'
  <2>1. \A d \in Docs \ {q.doc} : slug[d] \in Slugs => slug[d] # slug[q.doc]
    BY <1>1 DEF IInv, SlugIsUnique
  <2>2. \A d \in Docs : slug[d] \in Slugs \cup {None} /\ slug[d] \notin slug_tombstones
    BY DEF NamesInv, LiveAndRetiredAreDisjoint, IInv, TypeOK
  <2>3. None \notin slug_tombstones
    BY NoneIsNoName DEF IInv, TypeOK
  <2> QED BY <1>1, <1>2, <1>3, <2>1, <2>2, <2>3
<1>6. \A d \in Docs : ~Live(d)' => slug'[d] = None
  BY <1>3 DEF NamesInv, Live
<1>7. NamesCurrent(x)'
  BY <1>1 DEF NamesCurrent, RequestStates
<1>8. \A s \in Requests : NamesCurrent(req[s])'
  BY <1>1, <1>4, <1>7, OthersHoldNoName DEF NamesCurrent, ChangesName
<1>9. ShedAreRetired
  BY <1>1, <1>2, <1>3, NoneIsNoName DEF ShedAreRetired, Named
<1> QED BY <1>5, <1>6, <1>8, <1>9 DEF NamesInv, LiveAndRetiredAreDisjoint

\* An update that opens reads the name of a live document.
LEMMA OpenUpdateNames ==
  ASSUME IInv, NamesInv, NEW r \in Requests, NEW who, NEW d \in Docs, NEW src,
         NEW expected, NEW base, NEW input \in Slugs \cup {None, Keep},
         OpenUpdate(r, who, d, src, expected, base, input)
  PROVE  NamesInv' /\ ShedAreRetired
<1> DEFINE target == ResolveSlug(input, slug[d])
           x == UpdateRequest(who, d, src, expected, base, target)
<1>1. /\ Live(d) /\ req' = [req EXCEPT ![r] = x]
      /\ UNCHANGED <<life, slug, slug_tombstones>>
  BY DEF OpenUpdate, RowAccepts, Live, docVars, nameVars
<1>2. /\ target # Keep => target # slug[d]
      /\ AfterResolve(target, "putRender") = "putRender" => target \notin Slugs
      /\ AfterResolve(target, "putRender") \in {"conflict", "putRender"}
  BY DEF ResolveSlug, AfterResolve
<1>3. NamesCurrent(x)
  BY <1>1, <1>2 DEF NamesCurrent, UpdateRequest, Idle
<1> QED BY <1>1, <1>3, LocalNames

\* A request that goes on with the name it has: only the check against the
\* retired names lets it move on to a write.
LEMMA GotoNames ==
  ASSUME IInv, NamesInv, NEW r \in Requests, NEW x,
         req' = [req EXCEPT ![r] = x], UNCHANGED <<life, slug, slug_tombstones>>,
         x.op = req[r].op, x.doc = req[r].doc, x.slug = req[r].slug, x.retire = req[r].retire,
         x.pc \in {"keys", "kill"} => req[r].pc \in {"keys", "kill"},
         x.pc \in {"putRender", "putSource", "batch", "slugBatch"} =>
           \/ req[r].pc \in {"putRender", "putSource", "batch", "slugBatch"}
           \/ req[r].slug \notin slug_tombstones
  PROVE  NamesInv' /\ ShedAreRetired
<1>1. NamesCurrent(x)
  BY DEF NamesInv, NamesCurrent
<1> QED BY <1>1, LocalNames

LEMMA NextNames ==
  ASSUME IInv, NamesInv, NamesAlone, [Next]_vars
  PROVE  NamesInv' /\ ShedAreRetired
<1>1. ASSUME NEW r \in Requests, Step(r)
      PROVE  NamesInv' /\ ShedAreRetired
  <2> PICK q \in RequestStates : q = req[r]
    BY RequestFacts
  <2> Labelled(q) /\ Grounded(q)
    BY RequestFacts
  <2>1. CASE BeginPublish(r)
    <3>1. PICK d \in Docs, src \in Sources, input \in Slugs \cup {None}, who \in Authors,
               vis \in Births :
            /\ life[d] = "unborn"
            /\ \A s \in Requests : req[s].doc # d
            /\ req' = [req EXCEPT ![r] =
                         PublishRequest(who, d, src, ResolveSlug(input, None), vis)]
      BY <2>1 DEF BeginPublish
    <3> DEFINE target == ResolveSlug(input, None)
    <3>2. /\ AfterResolve(target, "putRender") = "putRender" => target \notin Slugs
          /\ AfterResolve(target, "putRender") \in {"conflict", "putRender"}
      BY DEF AfterResolve
    <3>3. NamesCurrent(PublishRequest(who, d, src, target, vis))
      BY <3>2 DEF NamesCurrent, PublishRequest, Idle
    <3> QED BY <2>1, <3>1, <3>3, LocalNames DEF BeginPublish, docVars, nameVars
  <2>2. CASE BeginUpdate(r)
    <3>1. PICK d \in Docs, src \in Sources, who \in Authors, input \in Slugs \cup {None, Keep} :
            \E expected \in {0, current_ver[d]} :
              OpenUpdate(r, who, d, src, expected, expected, input)
      BY <2>2 DEF BeginUpdate
    <3> QED BY <3>1, OpenUpdateNames
  <2>3. CASE BeginSourceRead(r)
    <3>0. PICK op \in {"edit", "restore"} \cap Doors, who \in Authors,
               input \in Slugs \cup {None, Keep} :
            \E v \in versions :
              /\ life[v.doc] = "live"
              /\ op = "edit" => v.no = current_ver[v.doc]
              /\ op = "restore" => who = "operator" /\ input = Keep
              /\ req' = [req EXCEPT ![r] = SourceRequest(op, who, v, input)]
      BY <2>3 DEF BeginSourceRead
    <3>1. PICK v \in versions : req' = [req EXCEPT ![r] = SourceRequest(op, who, v, input)]
      BY <3>0
    <3>2. NamesCurrent(SourceRequest(op, who, v, input))
      BY DEF NamesCurrent, SourceRequest, Idle
    <3> QED BY <2>3, <3>1, <3>2, LocalNames DEF BeginSourceRead, docVars, nameVars
  <2>4. CASE GetSource(r)
    <3>1. UNCHANGED <<life, slug, slug_tombstones>> /\ q.op \in {"edit", "restore"}
      BY <2>4 DEF GetSource, Labelled, docVars, nameVars
    <3>2. CASE Finish(r)
      BY <3>1, <3>2, IdleNamesNothing, LocalNames DEF Finish
    <3>3. CASE \E src \in Sources : req' = [req EXCEPT ![r] = DelegatedRequest(req[r], src)]
      <4>1. PICK src : req' = [req EXCEPT ![r] = DelegatedRequest(q, src)]
        BY <3>3
      <4>2. NamesCurrent(DelegatedRequest(q, src))
        BY <3>1 DEF NamesCurrent, DelegatedRequest, RequestStates
      <4> QED BY <3>1, <4>1, <4>2, LocalNames
    <3> QED BY <2>4, <3>2, <3>3 DEF GetSource
  <2>5. CASE DelegateUpdate(r)
    BY <2>5, OpenUpdateNames DEF DelegateUpdate, Labelled, RequestStates
  <2>6. CASE \/ CheckConflict(r) \/ FailBatch(r) \/ Rollback(r) \/ AnswerRevoke(r) \/ Abandon(r)
             \/ PutSource(r) \/ CheckRetired(r) \/ Promote(r)
    <3>1. UNCHANGED <<life, slug, slug_tombstones>>
      BY <2>6 DEF CheckConflict, FailBatch, Rollback, AnswerRevoke, Abandon, PutSource,
         CheckRetired, Promote, docVars, nameVars
    <3>2. CASE Finish(r)
      BY <3>1, <3>2, IdleNamesNothing, LocalNames DEF Finish
    <3>3. ASSUME NEW label, Goto(r, label), label \notin {"keys", "kill"},
                 label \in {"putRender", "putSource", "batch", "slugBatch"} =>
                   \/ q.pc \in {"putRender", "putSource", "batch", "slugBatch"}
                   \/ q.slug \notin slug_tombstones
          PROVE  NamesInv' /\ ShedAreRetired
      <4> DEFINE x == [q EXCEPT !.pc = label]
      <4>1. /\ req' = [req EXCEPT ![r] = x]
            /\ x.op = q.op /\ x.doc = q.doc /\ x.slug = q.slug /\ x.retire = q.retire
            /\ x.pc = label
        BY <3>3 DEF Goto, RequestStates
      <4> HIDE DEF x
      <4> QED BY <3>1, <3>3, <4>1, GotoNames
    <3>4. CheckRetired(r) => \/ Finish(r)
                             \/ /\ q.slug \notin slug_tombstones
                                /\ \E label \in {"slugBatch", "putRender"} : Goto(r, label)
      BY DEF CheckRetired, IsRetired
    <3>5. CheckConflict(r) => Finish(r) \/ Goto(r, "retired")
      BY DEF CheckConflict
    <3> QED BY <2>6, <3>2, <3>3, <3>4, <3>5
            DEF FailBatch, Rollback, AnswerRevoke, Abandon, PutSource, Promote
  <2>7. CASE PutRender(r) \/ ReadKeys(r) \/ \E n \in 1..MaxVersion : Purge(r, n)
    <3>1. UNCHANGED <<life, slug, slug_tombstones>>
      BY <2>7 DEF PutRender, ReadKeys, Purge, docVars, nameVars
    <3> DEFINE x == req'[r]
    <3>2. /\ x.op = q.op /\ x.doc = q.doc /\ x.slug = q.slug /\ x.retire = q.retire
          /\ x.pc \in {"keys", "kill"} => q.pc = "keys"
          /\ x.pc \in {"putRender", "putSource", "batch", "slugBatch"} => q.pc = "putRender"
      BY <2>7 DEF PutRender, ReadKeys, Purge, IInv, TypeOK, RequestStates
    <3>3. \A s \in Requests \ {r} : req'[s] = req[s]
      BY <2>7 DEF PutRender, ReadKeys, Purge, IInv, TypeOK
    <3>4. \A s \in Requests : NamesCurrent(req'[s])
      BY <3>2, <3>3 DEF NamesInv, NamesCurrent
    <3>5. \A s \in Requests : NamesCurrent(req[s])'
      BY <3>1, <3>4 DEF NamesCurrent, Live
    <3> QED BY <3>1, <3>5 DEF NamesInv, LiveAndRetiredAreDisjoint, Live, ShedAreRetired, Named
  <2>8. CASE CommitPublish(r) \/ CommitUpdate(r) \/ CommitSlug(r)
    <3>1. /\ req[r].pc \in {"batch", "slugBatch"} /\ ApplySlug(r)
          /\ req' = [req EXCEPT ![r] = Idle]
          /\ life' = [life EXCEPT ![req[r].doc] = "live"] \/ life' = life
          /\ req[r].op = "publish" => life' = [life EXCEPT ![req[r].doc] = "live"]
      BY <2>8 DEF CommitPublish, CommitUpdate, CommitSlug, Finish, docVars, Labelled
    <3> QED BY <3>1, CommitNames
  <2>9. CASE Kill(r)
    BY <2>9, KillNames
  <2>10. CASE \E d \in Docs : BeginRevoke(r, d)
    <3>1. PICK d \in Docs : BeginRevoke(r, d)
      BY <2>10
    <3>2. NamesCurrent(RevokeRequest(d))
      BY DEF NamesCurrent, RevokeRequest, Idle
    <3> QED BY <3>1, <3>2, LocalNames DEF BeginRevoke, docVars, nameVars
  <2>11. CASE BeginSetSlug(r)
    <3>1. PICK d \in Docs, input \in Slugs \cup {None} :
            /\ life[d] = "live"
            /\ ResolveSlug(input, slug[d]) # Keep
            /\ req' = [req EXCEPT ![r] = SlugRequest(d, ResolveSlug(input, slug[d]))]
      BY <2>11 DEF BeginSetSlug
    <3> DEFINE target == ResolveSlug(input, slug[d])
    <3>2. /\ target # slug[d]
          /\ AfterResolve(target, "slugBatch") = "slugBatch" => target \notin Slugs
          /\ AfterResolve(target, "slugBatch") \in {"conflict", "slugBatch"}
      BY <3>1 DEF AfterResolve, ResolveSlug
    <3>3. NamesCurrent(SlugRequest(d, target))
      BY <3>1, <3>2 DEF NamesCurrent, SlugRequest, Idle, Live
    <3> QED BY <2>11, <3>1, <3>3, LocalNames DEF BeginSetSlug, docVars, nameVars
  <2>12. CASE BeginPromote(r)
    <3>1. PICK v \in versions : req' = [req EXCEPT ![r] = PromoteRequest(v)]
      BY <2>12 DEF BeginPromote
    <3>2. NamesCurrent(PromoteRequest(v))
      BY DEF NamesCurrent, PromoteRequest, Idle
    <3> QED BY <2>12, <3>1, <3>2, LocalNames DEF BeginPromote, docVars, nameVars
  <2> QED BY <1>1, <2>1, <2>2, <2>3, <2>4, <2>5, <2>6, <2>7, <2>8, <2>9, <2>10, <2>11,
             <2>12 DEF Step
<1>2. CASE \E d \in Docs : SetVisibility(d)
  BY <1>2 DEF SetVisibility, nameVars, NamesInv, NamesCurrent, LiveAndRetiredAreDisjoint,
     Live, ShedAreRetired, Named
<1>3. CASE \E s \in Slugs : ReleaseSlugTombstone(s)
  BY <1>3 DEF ReleaseSlugTombstone, docVars, NamesInv, NamesCurrent,
     LiveAndRetiredAreDisjoint, Live, ShedAreRetired, Named
<1>4. CASE UNCHANGED vars
  BY <1>4 DEF vars, docVars, nameVars, NamesInv, NamesCurrent, LiveAndRetiredAreDisjoint,
     Live, ShedAreRetired, Named
<1> QED BY <1>1, <1>2, <1>3, <1>4 DEF Next

LEMMA InitNames ==
  ASSUME Init
  PROVE  NamesInv
BY IdleNamesNothing DEF Init, NamesInv, LiveAndRetiredAreDisjoint

LEMMA NamesInvariance == Spec /\ []NamesAlone => [](IInv /\ NamesInv)
<1>1. Init => NamesInv
  BY InitNames
<1>2. IInv /\ NamesInv /\ NamesAlone /\ [Next]_vars => NamesInv'
  BY NextNames
<1> QED BY <1>1, <1>2, Invariance, PTL DEF Spec

\* While requests that change names take turns, a name is live or retired,
\* never both: resolveSlug's two reads still hold when the batch commits.
THEOREM NamesAreLiveOrRetired == Spec /\ []NamesAlone => []LiveAndRetiredAreDisjoint
<1>1. NamesInv => LiveAndRetiredAreDisjoint
  BY DEF NamesInv
<1> QED BY <1>1, NamesInvariance, PTL

\* ... and every name that stops resolving is retired in the same step.
THEOREM NoNameIsLost == Spec /\ []NamesAlone => ShedNamesAreRetired
<1>1. IInv /\ NamesInv /\ NamesAlone /\ [Next]_vars =>
        [\A s \in Slugs : Named(s) /\ ~Named(s)' => s \in slug_tombstones']_vars
  BY NextNames DEF ShedAreRetired
<1> QED BY <1>1, NamesInvariance, PTL DEF Spec, ShedNamesAreRetired

-----------------------------------------------------------------------------
(* What a request was granted when it opened.                              *)

\* Only the operator's requests kill, rename alone, promote or restore, and an
\* update makes a version that its bound allows.
Granted(q) ==
  /\ q.op \in {"restore", "revoke", "slug", "promote"} => q.who = "operator"
  /\ q.op = "update" => q.next <= MaxVersion

AllGranted == \A r \in Requests : Granted(req[r])

\* A step that moves one request to a granted state.
LEMMA GrantedStep ==
  ASSUME TypeOK, AllGranted, NEW r \in Requests, NEW x, Granted(x),
         req' = [req EXCEPT ![r] = x]
  PROVE  AllGranted'
<1>1. \A s \in Requests : req'[s] = IF s = r THEN x ELSE req[s]
  BY DEF TypeOK
<1>2. \A s \in Requests : Granted(req[s])' <=> Granted(req'[s])
  BY DEF Granted
<1> QED BY <1>1, <1>2 DEF AllGranted

LEMMA IdleIsGranted == Granted(Idle)
BY DEF Granted, Idle

LEMMA OpenUpdateGrants ==
  ASSUME IInv, AllGranted, NEW r \in Requests, NEW who, NEW d \in Docs, NEW src, NEW expected,
         NEW base, NEW input, OpenUpdate(r, who, d, src, expected, base, input)
  PROVE  AllGranted'
<1> DEFINE x == UpdateRequest(who, d, src, expected, base, ResolveSlug(input, slug[d]))
<1>1. ConstantsAssumption /\ current_ver[d] \in Nat /\ current_ver[d] < MaxVersion
  BY ConstantsAssumption DEF OpenUpdate, IInv, TypeOK
<1>2. Granted(x)
  BY <1>1 DEF Granted, UpdateRequest, Idle, ConstantsAssumption
<1> QED BY <1>2, GrantedStep DEF OpenUpdate, IInv

LEMMA GrantedNext ==
  ASSUME IInv, AllGranted, [Next]_vars
  PROVE  AllGranted'
<1> USE IdleIsGranted
<1> TypeOK
  BY DEF IInv
<1>1. ASSUME NEW r \in Requests, Step(r)
      PROVE  AllGranted'
  <2> Granted(req[r]) /\ Labelled(req[r]) /\ req[r] \in RequestStates
    BY RequestFacts DEF AllGranted
  <2>1. CASE BeginPublish(r)
    <3>1. PICK d \in Docs, src \in Sources, input \in Slugs \cup {None}, who \in Authors,
               vis \in Births :
            /\ life[d] = "unborn"
            /\ \A q \in Requests : req[q].doc # d
            /\ req' = [req EXCEPT ![r] =
                         PublishRequest(who, d, src, ResolveSlug(input, None), vis)]
      BY <2>1 DEF BeginPublish
    <3>2. Granted(PublishRequest(who, d, src, ResolveSlug(input, None), vis))
      BY DEF Granted, PublishRequest, Idle
    <3> QED BY <3>1, <3>2, GrantedStep
  <2>2. CASE BeginUpdate(r)
    BY <2>2, OpenUpdateGrants DEF BeginUpdate
  <2>3. CASE BeginSourceRead(r)
    <3>0. PICK op \in {"edit", "restore"} \cap Doors, who \in Authors,
               input \in Slugs \cup {None, Keep} :
            \E v \in versions :
              /\ life[v.doc] = "live"
              /\ op = "edit" => v.no = current_ver[v.doc]
              /\ op = "restore" => who = "operator" /\ input = Keep
              /\ req' = [req EXCEPT ![r] = SourceRequest(op, who, v, input)]
      BY <2>3 DEF BeginSourceRead
    <3>1. PICK v \in versions :
            /\ op = "restore" => who = "operator"
            /\ req' = [req EXCEPT ![r] = SourceRequest(op, who, v, input)]
      BY <3>0
    <3>2. Granted(SourceRequest(op, who, v, input))
      BY <3>1 DEF Granted, SourceRequest, Idle
    <3> QED BY <3>1, <3>2, GrantedStep
  <2>4. CASE GetSource(r)
    <3>1. CASE Finish(r)
      BY <3>1, GrantedStep DEF Finish
    <3>2. CASE \E src \in Sources : req' = [req EXCEPT ![r] = DelegatedRequest(req[r], src)]
      <4>1. PICK src : req' = [req EXCEPT ![r] = DelegatedRequest(req[r], src)]
        BY <3>2
      <4>2. req[r].op \in {"edit", "restore"}
        BY <2>4 DEF GetSource, Labelled
      <4>3. Granted(DelegatedRequest(req[r], src))
        BY <4>2 DEF Granted, DelegatedRequest, RequestStates
      <4> QED BY <4>1, <4>3, GrantedStep
    <3> QED BY <2>4, <3>1, <3>2 DEF GetSource
  <2>5. CASE DelegateUpdate(r)
    <3>1. req[r].doc \in Docs
      BY <2>5 DEF DelegateUpdate, Labelled
    <3> QED BY <2>5, <3>1, OpenUpdateGrants DEF DelegateUpdate
  <2>6. CASE \E label : Goto(r, label)
    <3>1. PICK label : req' = [req EXCEPT ![r] = [req[r] EXCEPT !.pc = label]]
      BY <2>6 DEF Goto
    <3>2. Granted([req[r] EXCEPT !.pc = label])
      BY DEF Granted, RequestStates
    <3> QED BY <3>1, <3>2, GrantedStep
  <2>7. CASE Finish(r)
    BY <2>7, GrantedStep DEF Finish
  <2>8. CASE PutRender(r) \/ ReadKeys(r) \/ \E n \in 1..MaxVersion : Purge(r, n)
    <3>1. req'[r].op = req[r].op /\ req'[r].who = req[r].who /\ req'[r].next = req[r].next
      BY <2>8 DEF PutRender, ReadKeys, Purge, TypeOK, RequestStates
    <3>2. \A s \in Requests \ {r} : req'[s] = req[s]
      BY <2>8 DEF PutRender, ReadKeys, Purge, TypeOK
    <3> QED BY <3>1, <3>2 DEF AllGranted, Granted
  <2>9. CASE \E d \in Docs : BeginRevoke(r, d)
    <3>1. PICK d \in Docs : req' = [req EXCEPT ![r] = RevokeRequest(d)]
      BY <2>9 DEF BeginRevoke
    <3>2. Granted(RevokeRequest(d))
      BY DEF Granted, RevokeRequest, Idle
    <3> QED BY <3>1, <3>2, GrantedStep
  <2>10. CASE BeginSetSlug(r)
    <3>1. PICK d, target : req' = [req EXCEPT ![r] = SlugRequest(d, target)]
      BY <2>10 DEF BeginSetSlug
    <3>2. Granted(SlugRequest(d, target))
      BY DEF Granted, SlugRequest, Idle
    <3> QED BY <3>1, <3>2, GrantedStep
  <2>11. CASE BeginPromote(r)
    <3>1. PICK v : req' = [req EXCEPT ![r] = PromoteRequest(v)]
      BY <2>11 DEF BeginPromote
    <3>2. Granted(PromoteRequest(v))
      BY DEF Granted, PromoteRequest, Idle
    <3> QED BY <3>1, <3>2, GrantedStep
  <2>12. CheckConflict(r) \/ CheckRetired(r) \/ PutSource(r) \/ FailBatch(r) \/ Kill(r) =>
           Finish(r) \/ \E label : Goto(r, label)
    BY DEF CheckConflict, CheckRetired, PutSource, FailBatch, Kill
  <2>13. CommitPublish(r) \/ CommitUpdate(r) \/ Rollback(r) \/ AnswerRevoke(r) \/ CommitSlug(r)
           \/ Promote(r) \/ Abandon(r) => Finish(r)
    BY DEF CommitPublish, CommitUpdate, Rollback, AnswerRevoke, CommitSlug, Promote, Abandon
  <2> QED BY <1>1, <2>1, <2>2, <2>3, <2>4, <2>5, <2>6, <2>7, <2>8, <2>9, <2>10, <2>11,
             <2>12, <2>13 DEF Step
<1>2. CASE UNCHANGED req
  BY <1>2 DEF AllGranted, Granted
<1> QED BY <1>1, <1>2 DEF Next, SetVisibility, ReleaseSlugTombstone, vars

\* What requests were granted stays true of them.
LEMMA GrantedInvariance == Spec => []AllGranted
<1>1. Init => AllGranted
  BY IdleIsGranted DEF Init, AllGranted
<1>2. IInv /\ AllGranted /\ [Next]_vars => AllGranted'
  BY GrantedNext
<1> QED BY <1>1, <1>2, Invariance, PTL DEF Spec

-----------------------------------------------------------------------------
(* Which actions touch a document, and whose they are.                     *)

\* A request's step changes no other request.
LEMMA StepMovesOne ==
  ASSUME TypeOK, NEW r \in Requests, Step(r), NEW s \in Requests, s # r
  PROVE  req'[s] = req[s]
BY DEF Step, BeginPublish, BeginUpdate, OpenUpdate, BeginSourceRead, GetSource, DelegateUpdate,
   CheckConflict, CheckRetired, PutRender, PutSource, CommitPublish, CommitUpdate, FailBatch,
   Rollback, BeginRevoke, ReadKeys, Kill, AnswerRevoke, Purge, BeginSetSlug, CommitSlug,
   BeginPromote, Promote, Abandon, Goto, Finish, TypeOK

\* Four actions of a request write the columns or the rows of a document; the
\* others leave every document and every version as it was.
LEMMA FourWriters ==
  ASSUME NEW r \in Requests, Step(r)
  PROVE  \/ CommitPublish(r) \/ CommitUpdate(r) \/ Kill(r) \/ Promote(r)
         \/ UNCHANGED <<docVars, versions>>
BY DEF Step, BeginPublish, BeginUpdate, OpenUpdate, BeginSourceRead, GetSource, DelegateUpdate,
   CheckConflict, CheckRetired, PutRender, PutSource, FailBatch,
   Rollback, BeginRevoke, ReadKeys, AnswerRevoke, Purge, BeginSetSlug, CommitSlug,
   BeginPromote, Abandon, textVars

\* What a publish and an update do to the columns and rows of documents.
LEMMA PublishWrites ==
  ASSUME IInv, NEW r \in Requests, CommitPublish(r)
  PROVE  \E d \in Docs, src \in Sources, vis \in Visibilities, row \in VersionRows :
           /\ life[d] = "unborn"
           /\ row.doc = d /\ row.no = 1 /\ row.src = src
           /\ life' = [life EXCEPT ![d] = "live"]
           /\ visibility' = [visibility EXCEPT ![d] = vis]
           /\ current_ver' = [current_ver EXCEPT ![d] = 1]
           /\ published_ver' = [published_ver EXCEPT ![d] = PublishedAtBirth(vis)]
           /\ versions' = versions \cup {row}
<1> PICK q \in RequestStates : q = req[r]
  BY RequestFacts
<1>1. /\ q.doc \in Docs /\ q.src \in Sources /\ q.vis \in Visibilities
      /\ life[q.doc] = "unborn" /\ q.nonce \in Nat /\ q.next = 1
  BY RequestFacts DEF CommitPublish, Labelled, Grounded, RequestStates
<1> DEFINE row == VersionRow(q.doc, 1, KeyOf(q), q.src, 0)
<1>2. row \in VersionRows /\ row.doc = q.doc /\ row.no = 1 /\ row.src = q.src
  BY <1>1 DEF VersionRow, VersionRows, Keys, KeyOf, BlobKey
<1>3. /\ life' = [life EXCEPT ![q.doc] = "live"]
      /\ visibility' = [visibility EXCEPT ![q.doc] = q.vis]
      /\ current_ver' = [current_ver EXCEPT ![q.doc] = 1]
      /\ published_ver' = [published_ver EXCEPT ![q.doc] = PublishedAtBirth(q.vis)]
      /\ versions' = versions \cup {row}
  BY DEF CommitPublish, Key
<1> QED BY <1>1, <1>2, <1>3

LEMMA UpdateWrites ==
  ASSUME IInv, AllGranted, NEW r \in Requests, CommitUpdate(r)
  PROVE  \E d \in Docs, src \in Sources, row \in VersionRows :
           /\ life[d] # "unborn"
           /\ row.doc = d /\ row.src = src
           /\ Live(d) => row.no = current_ver[d] + 1 /\ row.no <= MaxVersion
           /\ versions' = versions \cup {row}
           /\ current_ver' = [current_ver EXCEPT ![d] = row.no]
           /\ UNCHANGED <<life, visibility, published_ver>>
<1> PICK q \in RequestStates : q = req[r]
  BY RequestFacts
<1>1. /\ q.doc \in Docs /\ q.src \in Sources /\ life[q.doc] # "unborn"
      /\ q.next \in Nat \ {0} /\ q.base \in Nat /\ q.nonce \in Nat
      /\ Live(q.doc) => q.next <= current_ver[q.doc] + 1
      /\ ~HasVersion(q.doc, q.next)
  BY RequestFacts DEF CommitUpdate, Labelled, Grounded, RequestStates, PrimaryKeyAdmits
<1> DEFINE row == VersionRow(q.doc, q.next, KeyOf(q), q.src, q.base)
<1>2. row \in VersionRows /\ row.doc = q.doc /\ row.no = q.next /\ row.src = q.src
  BY <1>1 DEF VersionRow, VersionRows, Keys, KeyOf, BlobKey
<1>3. current_ver[q.doc] \in Nat
  BY <1>1 DEF IInv, TypeOK
<1>4. Live(q.doc) => q.next = current_ver[q.doc] + 1
  <2>1. Live(q.doc) => q.next \notin 1..current_ver[q.doc]
    BY <1>1 DEF IInv, RowsInv
  <2> QED BY <1>1, <1>3, <2>1
<1>5. q.next <= MaxVersion
  BY DEF CommitUpdate, AllGranted, Granted
<1>6. /\ versions' = versions \cup {row}
      /\ current_ver' = [current_ver EXCEPT ![q.doc] = row.no]
      /\ UNCHANGED <<life, visibility, published_ver>>
  BY <1>2 DEF CommitUpdate, Key
<1> QED BY <1>1, <1>2, <1>4, <1>5, <1>6

\* What an agent's step leaves alone: the row pins which version of a live
\* document the world is served, and only the operator's acts move the pin.
LEMMA AgentStepIsQuiet ==
  ASSUME IInv, AllGranted, [Next]_vars, StepOf("agent"), NEW d \in Docs, Live(d)
  PROVE  AnonymousSees(d)' = AnonymousSees(d)
<1>1. PICK r \in Requests : req[r].who = "agent" /\ req'[r] # req[r]
  BY DEF StepOf
<1>2. Step(r)
  <2>1. PICK s \in Requests : Step(s)
    BY <1>1 DEF Next, SetVisibility, ReleaseSlugTombstone, vars
  <2> QED BY <1>1, <2>1, StepMovesOne DEF IInv
<1>3. Labelled(req[r]) /\ Granted(req[r])
  BY RequestFacts DEF AllGranted
<1>4. ~Kill(r) /\ ~Promote(r)
  BY <1>1, <1>3 DEF Kill, Promote, Labelled, Granted
<1>5. CASE CommitPublish(r)
  BY <1>5, PublishWrites DEF AnonymousSees, ServedVersion, Live, IInv, TypeOK
<1>6. CASE CommitUpdate(r)
  <2>1. visibility[d] = "public" => published_ver[d] # 0
    BY DEF IInv, PointerInv
  <2> QED BY <1>6, <2>1 DEF CommitUpdate, AnonymousSees, ServedVersion
<1>7. CASE UNCHANGED <<docVars, versions>>
  BY <1>7 DEF docVars, AnonymousSees, ServedVersion
<1> QED BY <1>2, <1>4, <1>5, <1>6, <1>7, FourWriters

\* No agent moves what the anonymous internet is served of a live document,
\* whatever it races with.
THEOREM StagedIsNotPublished == Spec => AgentsNeverMoveThePublicBytes
<1>1. IInv /\ AllGranted /\ [Next]_vars =>
        [StepOf("agent") => \A d \in Docs : Live(d) => AnonymousSees(d)' = AnonymousSees(d)]_vars
  BY AgentStepIsQuiet
<1> QED BY <1>1, Invariance, GrantedInvariance, PTL DEF Spec, AgentsNeverMoveThePublicBytes

-----------------------------------------------------------------------------
(* The refinement: DocumentStore implements DocumentHistory.               *)

\* What History sees of one document.
Texts(d) == IF Live(d) THEN [n \in 1..current_ver[d] |-> TextOf(d, n)] ELSE <<>>

\* A version's text is the one its row holds: rows are never doubled.
LEMMA TextOfVersion ==
  ASSUME IInv, NEW v \in versions
  PROVE  TextOf(v.doc, v.no) = v.src /\ v.src \in Sources
<1>1. v.src \in Sources /\ Holds(v.doc, v.no, v.src)
  BY DEF IInv, TypeOK, VersionRows, Holds
<1>2. \A s \in Sources : Holds(v.doc, v.no, s) => s = v.src
  BY DEF Holds, IInv, RowsInv
<1> QED BY <1>1, <1>2 DEF TextOf

\* A live document's texts are a sequence as long as its newest version.
LEMMA TextsAreSequences ==
  ASSUME IInv, NEW d \in Docs, Live(d)
  PROVE  Texts(d) \in Seq(Sources) /\ Len(Texts(d)) = current_ver[d]
<1>1. current_ver[d] \in Nat
  BY DEF IInv, TypeOK
<1>2. \A n \in 1..current_ver[d] : TextOf(d, n) \in Sources
  BY TextOfVersion DEF IInv, RowsInv, HasVersion
<1> QED BY <1>1, <1>2 DEF Texts

\* A row that stays keeps its text.
LEMMA TextsStay ==
  ASSUME IInv, IInv', versions \subseteq versions', NEW d \in Docs,
         NEW n \in Nat, HasVersion(d, n)
  PROVE  TextOf(d, n)' = TextOf(d, n)
<1>1. PICK v \in versions : v.doc = d /\ v.no = n
  BY DEF HasVersion
<1>2. TextOf(d, n) = v.src
  BY <1>1, TextOfVersion
<1>3. TextOf(v.doc, v.no)' = v.src
  <2>1. v \in versions'
    OBVIOUS
  <2>2. v.src \in Sources /\ Holds(v.doc, v.no, v.src)'
    BY <2>1 DEF IInv, TypeOK, VersionRows, Holds
  <2>3. \A s \in Sources : Holds(v.doc, v.no, s)' => s = v.src
    BY <2>1 DEF Holds, IInv, RowsInv
  <2> QED BY <2>2, <2>3 DEF TextOf
<1> QED BY <1>1, <1>2, <1>3

\* A document no action writes is seen unchanged.
LEMMA SeenUnchanged ==
  ASSUME IInv, IInv', NEW d \in Docs, versions \subseteq versions',
         life'[d] = life[d], current_ver'[d] = current_ver[d]
  PROVE  Texts(d)' = Texts(d)
<1>1. CASE Live(d)
  <2>1. Live(d)' /\ current_ver[d] \in Nat
    BY <1>1 DEF Live, IInv, TypeOK
  <2>2. \A n \in 1..current_ver[d] : TextOf(d, n)' = TextOf(d, n)
    BY <1>1, <2>1, TextsStay DEF IInv, RowsInv
  <2> QED BY <1>1, <2>1, <2>2 DEF Texts
<1>2. CASE ~Live(d)
  BY <1>2 DEF Live, Texts
<1> QED BY <1>1, <1>2

\* A publish is a birth.
LEMMA PublishIsBirth ==
  ASSUME IInv, IInv', NEW r \in Requests, CommitPublish(r)
  PROVE  \E d \in Docs : History!Birth(d)
<1>1. PICK d \in Docs, src \in Sources, vis \in Visibilities, row \in VersionRows :
        /\ life[d] = "unborn"
        /\ row.doc = d /\ row.no = 1 /\ row.src = src
        /\ life' = [life EXCEPT ![d] = "live"]
        /\ visibility' = [visibility EXCEPT ![d] = vis]
        /\ current_ver' = [current_ver EXCEPT ![d] = 1]
        /\ published_ver' = [published_ver EXCEPT ![d] = PublishedAtBirth(vis)]
        /\ versions' = versions \cup {row}
  BY PublishWrites
<1>2. /\ life'[d] = "live" /\ visibility'[d] = vis
      /\ current_ver'[d] = 1 /\ published_ver'[d] = PublishedAtBirth(vis)
  BY <1>1 DEF IInv, TypeOK
<1>3. \A e \in Docs \ {d} :
        /\ life'[e] = life[e] /\ visibility'[e] = visibility[e]
        /\ current_ver'[e] = current_ver[e] /\ published_ver'[e] = published_ver[e]
  BY <1>1 DEF IInv, TypeOK
<1>4. Texts(d)' = <<src>>
  <2>1. TextOf(row.doc, row.no)' = row.src
    <3>1. row \in versions'
      BY <1>1
    <3>2. row.src \in Sources /\ Holds(row.doc, row.no, row.src)'
      BY <1>1, <3>1 DEF Holds
    <3>3. \A s \in Sources : Holds(row.doc, row.no, s)' => s = row.src
      BY <3>1 DEF Holds, IInv, RowsInv
    <3> QED BY <3>2, <3>3 DEF TextOf
  <2>2. TextOf(d, 1)' = src
    BY <1>1, <2>1
  <2>3. Texts(d)' = [n \in 1..1 |-> TextOf(d, n)']
    BY <1>2 DEF Texts, Live
  <2>4. [n \in 1..1 |-> TextOf(d, n)'] = [n \in 1..1 |-> src]
    BY <2>2
  <2>5. [n \in 1..1 |-> src] = <<src>>
    OBVIOUS
  <2> QED BY <2>3, <2>4, <2>5
<1>5. AnonymousSees(d)' \in {0, 1}
  BY <1>2 DEF AnonymousSees, ServedVersion, PublishedAtBirth
<1>6. \A e \in Docs \ {d} : Texts(e)' = Texts(e) /\ AnonymousSees(e)' = AnonymousSees(e)
  BY <1>1, <1>3, SeenUnchanged DEF AnonymousSees, ServedVersion
<1>7. [e \in Docs |-> Texts(e)]' = [[e \in Docs |-> Texts(e)] EXCEPT ![d] = <<src>>]
  BY <1>4, <1>6
<1>8. [e \in Docs |-> AnonymousSees(e)]'
        = [[e \in Docs |-> AnonymousSees(e)] EXCEPT ![d] = AnonymousSees(d)']
  BY <1>6
<1> QED BY <1>1, <1>5, <1>7, <1>8 DEF History!Birth, Texts

\* What is seen of a document that the step leaves alone or that is not live.
LEMMA Unseen ==
  ASSUME IInv, IInv', versions \subseteq versions', NEW d \in Docs,
         \/ /\ life'[d] = life[d] /\ visibility'[d] = visibility[d]
            /\ current_ver'[d] = current_ver[d] /\ published_ver'[d] = published_ver[d]
         \/ ~Live(d) /\ life'[d] = life[d]
  PROVE  Texts(d)' = Texts(d) /\ AnonymousSees(d)' = AnonymousSees(d)
<1>1. CASE ~Live(d) /\ life'[d] = life[d]
  BY <1>1 DEF Live, Texts, AnonymousSees
<1>2. CASE /\ life'[d] = life[d] /\ visibility'[d] = visibility[d]
           /\ current_ver'[d] = current_ver[d] /\ published_ver'[d] = published_ver[d]
  BY <1>2, SeenUnchanged DEF AnonymousSees, ServedVersion
<1> QED BY <1>1, <1>2

\* An update extends a live document's texts, or is not seen at all.
LEMMA UpdateIsExtend ==
  ASSUME IInv, IInv', AllGranted, NEW r \in Requests, CommitUpdate(r)
  PROVE  (\E d \in Docs : History!Extend(d)) \/ UNCHANGED History!vars
<1>1. PICK d \in Docs, src \in Sources, row \in VersionRows :
        /\ life[d] # "unborn"
        /\ row.doc = d /\ row.src = src
        /\ Live(d) => row.no = current_ver[d] + 1 /\ row.no <= MaxVersion
        /\ versions' = versions \cup {row}
        /\ current_ver' = [current_ver EXCEPT ![d] = row.no]
        /\ UNCHANGED <<life, visibility, published_ver>>
  BY UpdateWrites
<1>2. current_ver[d] \in Nat /\ current_ver'[d] = row.no
  BY <1>1 DEF IInv, TypeOK
<1>3. \A e \in Docs \ {d} : Texts(e)' = Texts(e) /\ AnonymousSees(e)' = AnonymousSees(e)
  BY <1>1, Unseen DEF IInv, TypeOK
<1>4. CASE ~Live(d)
  <2>1. \A e \in Docs : Texts(e)' = Texts(e) /\ AnonymousSees(e)' = AnonymousSees(e)
    BY <1>1, <1>3, <1>4, Unseen
  <2>2. /\ [e \in Docs |-> Texts(e)]' = [e \in Docs |-> Texts(e)]
        /\ [e \in Docs |-> AnonymousSees(e)]' = [e \in Docs |-> AnonymousSees(e)]
    BY <2>1
  <2> QED BY <1>1, <2>2 DEF History!vars, Texts
<1>5. CASE Live(d)
  <2>1. Live(d)' /\ row.no = current_ver[d] + 1 /\ current_ver[d] < MaxVersion
    BY <1>1, <1>2, <1>5, ConstantsAssumption DEF Live, ConstantsAssumption
  <2>2. Texts(d) \in Seq(Sources) /\ Len(Texts(d)) = current_ver[d]
    BY <1>5, TextsAreSequences
  <2>3. TextOf(d, row.no)' = src
    <3>1. row \in versions'
      BY <1>1
    <3>2. src \in Sources /\ Holds(d, row.no, src)'
      BY <1>1, <3>1 DEF Holds
    <3>3. \A s \in Sources : Holds(d, row.no, s)' => s = src
      BY <1>1, <3>1 DEF Holds, IInv, RowsInv
    <3> QED BY <3>2, <3>3 DEF TextOf
  <2>4. \A n \in 1..current_ver[d] : TextOf(d, n)' = TextOf(d, n)
    BY <1>1, <1>5, TextsStay DEF IInv, RowsInv
  <2>5. Texts(d)' = [n \in 1..(current_ver[d] + 1) |-> TextOf(d, n)']
    BY <1>2, <2>1 DEF Texts
  <2>6. Texts(d)' = Append(Texts(d), src)
    <3>1. \A n \in 1..(current_ver[d] + 1) :
            TextOf(d, n)' = IF n = current_ver[d] + 1 THEN src ELSE Texts(d)[n]
      BY <1>2, <1>5, <2>1, <2>3, <2>4 DEF Texts
    <3> PICK t \in Seq(Sources) : t = Texts(d)
      BY <2>2
    <3>2. /\ Append(t, src) \in Seq(Sources) /\ Len(Append(t, src)) = current_ver[d] + 1
          /\ \A n \in 1..(current_ver[d] + 1) :
               Append(t, src)[n] = IF n = current_ver[d] + 1 THEN src ELSE Texts(d)[n]
      BY <1>2, <2>2, AppendProperties
    <3>3. Append(t, src)
            = [n \in 1..(current_ver[d] + 1) |->
                 IF n = current_ver[d] + 1 THEN src ELSE Texts(d)[n]]
      BY <3>2, LenProperties
    <3> QED BY <2>5, <3>1, <3>3
  <2>7. AnonymousSees(d)' = AnonymousSees(d)
    BY <1>1 DEF AnonymousSees, ServedVersion, Live, IInv, PointerInv
  <2>8. [e \in Docs |-> Texts(e)]'
          = [[e \in Docs |-> Texts(e)] EXCEPT ![d] = Append(@, src)]
    BY <1>3, <2>6
  <2>9. [e \in Docs |-> AnonymousSees(e)]' = [e \in Docs |-> AnonymousSees(e)]
    BY <1>3, <2>7
  <2>10. Len([e \in Docs |-> Texts(e)][d]) < MaxVersion
    BY <2>1, <2>2
  <2> QED BY <1>1, <1>5, <2>8, <2>9, <2>10 DEF History!Extend, Texts, Live
<1> QED BY <1>4, <1>5

\* The kill of a live document is the abstract kill; a second kill is not seen.
LEMMA KillIsKill ==
  ASSUME IInv, IInv', NEW r \in Requests, Kill(r)
  PROVE  (\E d \in Docs : History!Kill(d)) \/ UNCHANGED History!vars
<1>1. req[r].doc \in Docs /\ life[req[r].doc] # "unborn"
  BY RequestFacts DEF Kill, Labelled, Grounded
<1> PICK d \in Docs : d = req[r].doc
  BY <1>1
<1>2. /\ life' = [life EXCEPT ![d] = "revoked"]
      /\ current_ver' = [current_ver EXCEPT ![d] = 0]
      /\ published_ver' = [published_ver EXCEPT ![d] = 0]
      /\ UNCHANGED <<visibility, versions>>
  BY DEF Kill, ClearColumn
<1>3. life'[d] = "revoked" /\ life[d] \in {"live", "revoked"}
  BY <1>1, <1>2 DEF IInv, TypeOK
<1>4. \A e \in Docs \ {d} :
        /\ life'[e] = life[e] /\ visibility'[e] = visibility[e]
        /\ current_ver'[e] = current_ver[e] /\ published_ver'[e] = published_ver[e]
  BY <1>2 DEF IInv, TypeOK
<1>5. \A e \in Docs \ {d} : Texts(e)' = Texts(e) /\ AnonymousSees(e)' = AnonymousSees(e)
  BY <1>2, <1>4, Unseen
<1>6. Texts(d)' = <<>> /\ AnonymousSees(d)' = 0
  BY <1>3 DEF Texts, AnonymousSees, Live
<1>7. CASE Live(d)
  <2>1. [e \in Docs |-> Texts(e)]' = [[e \in Docs |-> Texts(e)] EXCEPT ![d] = <<>>]
    BY <1>5, <1>6
  <2>2. [e \in Docs |-> AnonymousSees(e)]'
          = [[e \in Docs |-> AnonymousSees(e)] EXCEPT ![d] = 0]
    BY <1>5, <1>6
  <2> QED BY <1>1, <1>2, <1>7, <2>1, <2>2 DEF History!Kill, Texts, Live
<1>8. CASE ~Live(d)
  <2>1. Texts(d) = <<>> /\ AnonymousSees(d) = 0
    BY <1>8 DEF Texts, AnonymousSees, Live
  <2>2. /\ [e \in Docs |-> Texts(e)]' = [e \in Docs |-> Texts(e)]
        /\ [e \in Docs |-> AnonymousSees(e)]' = [e \in Docs |-> AnonymousSees(e)]
    BY <1>5, <1>6, <2>1
  <2>3. life' = life
    <3>1. \A e \in Docs : life'[e] = life[e]
      <4>1. life[d] = "revoked"
        BY <1>3, <1>8 DEF Live
      <4> QED BY <1>3, <1>4, <4>1
    <3>2. life \in [Docs -> {"unborn", "live", "revoked"}]
          /\ life' \in [Docs -> {"unborn", "live", "revoked"}]
      BY DEF IInv, TypeOK
    <3> QED BY <3>1, <3>2
  <2> QED BY <2>2, <2>3 DEF History!vars, Texts
<1> QED BY <1>7, <1>8

\* The operator's visibility and promotion move what is shown, to a version
\* that exists.
LEMMA ShownStep ==
  ASSUME IInv, IInv', NEW d \in Docs, Live(d),
         UNCHANGED <<life, current_ver, versions>>,
         \A e \in Docs \ {d} : /\ visibility'[e] = visibility[e]
                               /\ published_ver'[e] = published_ver[e]
  PROVE  History!Show(d)
<1>1. Live(d)' /\ current_ver'[d] = current_ver[d] /\ current_ver[d] \in Nat
  BY DEF Live, IInv, TypeOK
<1>2. AnonymousSees(d)' \in 0..current_ver[d]
  <2>1. published_ver'[d] \in Nat
    BY DEF IInv, TypeOK
  <2>2. published_ver'[d] # 0 => \E v \in versions : v.doc = d /\ v.no = published_ver'[d]
    BY <1>1 DEF IInv, PointerInv, HasVersion
  <2>3. published_ver'[d] <= current_ver[d]
    BY <1>1, <2>1, <2>2 DEF IInv, RowsInv
  <2> QED BY <1>1, <2>1, <2>3 DEF AnonymousSees, ServedVersion
<1>3. \A e \in Docs : Texts(e)' = Texts(e)
  BY SeenUnchanged
<1>4. \A e \in Docs \ {d} : AnonymousSees(e)' = AnonymousSees(e)
  BY Unseen
<1>5. [e \in Docs |-> Texts(e)]' = [e \in Docs |-> Texts(e)]
  BY <1>3
<1>6. [e \in Docs |-> AnonymousSees(e)]'
        = [[e \in Docs |-> AnonymousSees(e)] EXCEPT ![d] = AnonymousSees(d)']
  BY <1>4
<1>7. Len([e \in Docs |-> Texts(e)][d]) = current_ver[d]
  BY TextsAreSequences
<1> QED BY <1>2, <1>5, <1>6, <1>7 DEF History!Show, Texts, Live

LEMMA PromoteIsShow ==
  ASSUME IInv, IInv', NEW r \in Requests, Promote(r)
  PROVE  (\E d \in Docs : History!Show(d)) \/ UNCHANGED History!vars
<1>1. req[r].doc \in Docs
  BY RequestFacts DEF Promote, Labelled
<1> PICK d \in Docs : d = req[r].doc
  BY <1>1
<1>2. UNCHANGED <<life, visibility, current_ver, versions>>
  BY DEF Promote, textVars
<1>3. CASE Live(d)
  <2>1. published_ver' = [published_ver EXCEPT ![d] = req[r].next]
    BY <1>3 DEF Promote, PromotesRow, Live
  <2>2. \A e \in Docs \ {d} : visibility'[e] = visibility[e] /\ published_ver'[e] = published_ver[e]
    BY <1>2, <2>1 DEF IInv, TypeOK
  <2> QED BY <1>1, <1>2, <1>3, <2>2, ShownStep
<1>4. CASE ~Live(d)
  <2>1. published_ver' = published_ver
    BY <1>4 DEF Promote, PromotesRow, Live
  <2>2. \A e \in Docs : Texts(e)' = Texts(e) /\ AnonymousSees(e)' = AnonymousSees(e)
    BY <1>2, <2>1, Unseen
  <2>3. /\ [e \in Docs |-> Texts(e)]' = [e \in Docs |-> Texts(e)]
        /\ [e \in Docs |-> AnonymousSees(e)]' = [e \in Docs |-> AnonymousSees(e)]
    BY <2>2
  <2> QED BY <1>2, <2>3 DEF History!vars, Texts
<1> QED BY <1>3, <1>4

LEMMA InitIsInit ==
  ASSUME Init
  PROVE  History!Init
<1>1. \A d \in Docs : Texts(d) = <<>> /\ AnonymousSees(d) = 0
  BY DEF Init, Texts, AnonymousSees, Live
<1>2. /\ [d \in Docs |-> Texts(d)] = [d \in Docs |-> <<>>]
      /\ [d \in Docs |-> AnonymousSees(d)] = [d \in Docs |-> 0]
  BY <1>1
<1> QED BY <1>2 DEF Init, History!Init, Texts

\* Every step of the store is one step of the abstract history, or none.
LEMMA NextIsHistory ==
  ASSUME IInv, IInv', AllGranted, [Next]_vars
  PROVE  [History!Next]_(History!vars)
<1>1. ASSUME UNCHANGED <<docVars, versions>> PROVE UNCHANGED History!vars
  <2>1. \A e \in Docs : Texts(e)' = Texts(e) /\ AnonymousSees(e)' = AnonymousSees(e)
    BY <1>1, Unseen DEF docVars
  <2>2. /\ [e \in Docs |-> Texts(e)]' = [e \in Docs |-> Texts(e)]
        /\ [e \in Docs |-> AnonymousSees(e)]' = [e \in Docs |-> AnonymousSees(e)]
    BY <2>1
  <2> QED BY <1>1, <2>2 DEF History!vars, Texts, docVars
<1>2. ASSUME NEW r \in Requests, Step(r) PROVE [History!Next]_(History!vars)
  <2>1. CASE CommitPublish(r)
    BY <2>1, PublishIsBirth DEF History!Next
  <2>2. CASE CommitUpdate(r)
    BY <2>2, UpdateIsExtend DEF History!Next
  <2>3. CASE Kill(r)
    BY <2>3, KillIsKill DEF History!Next
  <2>4. CASE Promote(r)
    BY <2>4, PromoteIsShow DEF History!Next
  <2>5. CASE UNCHANGED <<docVars, versions>>
    BY <1>1, <2>5
  <2> QED BY <1>2, <2>1, <2>2, <2>3, <2>4, <2>5, FourWriters
<1>3. ASSUME NEW d \in Docs, SetVisibility(d) PROVE History!Show(d)
  <2>1. /\ UNCHANGED <<life, current_ver, versions>> /\ Live(d)
        /\ \A e \in Docs \ {d} : /\ visibility'[e] = visibility[e]
                                 /\ published_ver'[e] = published_ver[e]
    BY <1>3 DEF SetVisibility, textVars, Live, IInv, TypeOK
  <2> QED BY <2>1, ShownStep
<1>4. CASE \E s \in Slugs : ReleaseSlugTombstone(s)
  BY <1>1, <1>4 DEF ReleaseSlugTombstone, textVars
<1>5. CASE UNCHANGED vars
  BY <1>1, <1>5 DEF vars, textVars
<1> QED BY <1>2, <1>3, <1>4, <1>5 DEF Next, History!Next

\* The store implements the abstract history, for any number of documents,
\* texts and requests, and whatever calls fail on the way.
THEOREM StoreImplementsHistory == Spec => ImplementsHistory
<1>1. Init => History!Init
  BY InitIsInit
<1>2. IInv /\ IInv' /\ AllGranted /\ [Next]_vars => [History!Next]_(History!vars)
  BY NextIsHistory
<1> QED BY <1>1, <1>2, Invariance, GrantedInvariance, PTL
        DEF Spec, ImplementsHistory, History!Spec

=============================================================================
