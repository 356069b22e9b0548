--------------------------- MODULE SearchIndexProofs ---------------------------
(***************************************************************************)
(* Proofs about what is derived from the documents and who reads it, for    *)
(* any documents, limits, bounds and pages.                                 *)
(*                                                                         *)
(* Typed is the types of the state and what ties them: no stamp is ahead of *)
(* the clock, a row is listed under its own id.  On it stand three parts,   *)
(* each kept by every step.  Screened: no leg of a query that D1 has gated  *)
(* names a document dead when it began.  Walking: of a walk under way, what *)
(* it returned is behind its cursor, once each, and what kept its place is  *)
(* returned or ahead of it.  Polled: what the consumer of the feed does not *)
(* know was written after its window, and what this poll has yet to give it *)
(* is ahead of the cursor or newer than all it gave.                        *)
(*                                                                         *)
(* FusionIsFair and NoTextIsLost are of what no step changes, and rest on    *)
(* arithmetic: a rank's credit is its Share, which falls with the rank but   *)
(* never below a nineteenth of another; and on IsPacked, which holds after   *)
(* each block of a text: while there is room no character of it is lost.     *)
(***************************************************************************)
EXTENDS SearchIndex, OrderingProofs

-----------------------------------------------------------------------------
(* The lists and their pages.                                              *)

\* What is listed: rows with stamps, told apart by their ids.
IsListed(S) ==
  /\ IsFiniteSet(S)
  /\ \A r \in S : r.id \in Nat \ {0} /\ r.created \in Nat \ {0} /\ r.updated \in Nat \ {0}
  /\ \A r, s \in S : r.id = s.id => r = s

LEMMA AheadOrders ==
  ASSUME NEW S, IsListed(S), NEW order
  PROVE  Orders(S, {p \in S \X S : Ahead(Key(p[1], order), Key(p[2], order))})
BY DEF Orders, IsListed, Ahead, Key

LEMMA ListedInOrder ==
  ASSUME NEW S, IsListed(S), NEW order
  PROVE  /\ IsPlaced(Listed(S, order), S, {p \in S \X S : Ahead(Key(p[1], order), Key(p[2], order))})
         /\ Cardinality(S) \in Nat
<1> DEFINE R == {p \in S \X S : Ahead(Key(p[1], order), Key(p[2], order))}
           g == Listed(S, order)
<1>1. Orders(S, R) /\ IsFiniteSet(S)
  BY AheadOrders DEF IsListed
<1>2. ASSUME NEW x \in S
      PROVE  Place(S, R, x) = Cardinality({y \in S : Ahead(Key(y, order), Key(x, order))})
  <2>1. {y \in S : Ahead(Key(y, order), Key(x, order))} = {y \in S : <<y, x>> \in R}
    OBVIOUS
  <2> QED
    BY <2>1 DEF Place
<1> HIDE DEF R
<1>3. ASSUME NEW k \in 1..Cardinality(S) PROVE g[k] \in S /\ Place(S, R, g[k]) = k - 1
  <2>1. PICK x \in S : Place(S, R, x) = k - 1
    BY <1>1, PlaceTaken
  <2>2. \E y \in S : Cardinality({z \in S : Ahead(Key(z, order), Key(y, order))}) = k - 1
    BY <1>2, <2>1
  <2>3. g[k] = CHOOSE y \in S : Cardinality({z \in S : Ahead(Key(z, order), Key(y, order))}) = k - 1
    BY DEF Listed, InOrder
  <2>4. g[k] \in S /\ Cardinality({z \in S : Ahead(Key(z, order), Key(g[k], order))}) = k - 1
    BY <2>2, <2>3
  <2> QED
    BY <1>2, <2>4
<1>4. g \in [1..Cardinality(S) -> S]
  BY <1>3 DEF Listed, InOrder
<1> HIDE DEF g
<1>5. IsPlaced(g, S, R)
  BY <1>1, <1>3, <1>4, PlacedInOrder
<1> QED
  BY <1>1, <1>5, PlaceTaken DEF g, R

\* What a page is: distinct rows beyond its cursor, all of them when it is the
\* last, and otherwise those that are not past the cursor it hands out.
IsPage(page, S, cursor, order, mint) ==
  LET past == Beyond(S, cursor, order)
  IN  /\ page.items \in Seq(past)
      /\ \A i, k \in DOMAIN page.items : page.items[i] = page.items[k] => i = k
      /\ page.next = NoCursor => past \subseteq ToSet(page.items)
      /\ page.next # NoCursor =>
           /\ page.next.order = mint
           /\ \E r \in past : page.next.ts = Key(r, order).ts /\ page.next.id = r.id /\ r \in ToSet(page.items)
           /\ \A r \in past : r \in ToSet(page.items) <=> ~Ahead(page.next, Key(r, order))

CursorAt(ts, id, o) == [ts |-> ts, id |-> id, order |-> o]
Cursors == [ts : Nat, id : Nat, order : {"", "created", "updated"}]

LEMMA CursorsAre ==
  /\ NoCursor \in Cursors /\ NoCursor.ts = 0
  /\ \A ts, id, o :
       /\ CursorAt(ts, id, o).ts = ts /\ CursorAt(ts, id, o).id = id /\ CursorAt(ts, id, o).order = o
       /\ ts \in Nat /\ id \in Nat /\ o \in {"", "created", "updated"} => CursorAt(ts, id, o) \in Cursors
BY DEF CursorAt, Cursors, NoCursor

\* A page of a list is a page.
LEMMA PageOfList ==
  ASSUME NEW S, IsListed(S), NEW cursor, NEW order, NEW limit \in Nat \ {0}, NEW mint
  PROVE  /\ IsPage(Paginate(S, cursor, order, limit, mint), S, cursor, order, mint)
         /\ \E ts, id, o : Paginate(S, cursor, order, limit, mint).next = CursorAt(ts, id, o)
<1> DEFINE B == Beyond(S, cursor, order)
           R == {p \in B \X B : Ahead(Key(p[1], order), Key(p[2], order))}
           L == Listed(B, order)
           n == Cardinality(B)
           page == Paginate(S, cursor, order, limit, mint)
<1>1. B \subseteq S
  BY DEF Beyond
<1>2. IsListed(B)
  BY <1>1, FS_Subset DEF IsListed
<1>3. IsPlaced(L, B, R) /\ n \in Nat
  BY <1>2, ListedInOrder
<1>4. /\ L \in [1..n -> B]
      /\ \A x \in B : \E k \in 1..n : L[k] = x
      /\ \A i, k \in 1..n : Ahead(Key(L[i], order), Key(L[k], order)) <=> i < k
      /\ \A i, k \in 1..n : L[i] = L[k] => i = k
  <2>1. \A i, k \in 1..n : <<L[i], L[k]>> \in R <=> i < k
    BY <1>3 DEF IsPlaced
  <2>2. L \in [1..n -> B] /\ (\A x \in B : \E k \in 1..n : L[k] = x)
        /\ \A i, k \in 1..n : L[i] = L[k] => i = k
    BY <1>3 DEF IsPlaced
  <2> HIDE DEF L, B, n
  <2>3. \A i, k \in 1..n : <<L[i], L[k]>> \in R <=> Ahead(Key(L[i], order), Key(L[k], order))
    BY <2>2
  <2> QED
    BY <2>1, <2>2, <2>3
<1>5. \A r \in B : r.id \in Nat \ {0} /\ Key(r, order).ts \in Nat \ {0} /\ Key(r, order).id = r.id
  BY <1>2 DEF IsListed, Key
<1>6. /\ page.items = SubSeq(L, 1, Min({limit, Len(L)}))
      /\ page.next = IF Len(L) > limit THEN [ts |-> Key(L[limit], order).ts, id |-> Key(L[limit], order).id, order |-> mint]
                ELSE NoCursor
  BY DEF Paginate, CursorAfter
<1>7. \E ts, id, o : page.next = CursorAt(ts, id, o)
  BY DEF Paginate, NoCursor, CursorAt
<1> HIDE DEF L, R, B, n, page
<1>8. L \in Seq(B) /\ Len(L) = n /\ DOMAIN L = 1..n
  BY <1>3, <1>4
<1> DEFINE m == Min({limit, n})
<1>9. m \in {limit, n} /\ m <= limit /\ m <= n /\ m \in Nat
  BY <1>3, LeastIs
<1> HIDE DEF m
<1>10. /\ page.items \in Seq(B) /\ Len(page.items) = m /\ DOMAIN page.items = 1..m
       /\ \A i \in 1..m : page.items[i] = L[i] /\ i \in 1..n
  <2>1. page.items = SubSeq(L, 1, m)
    BY <1>6, <1>8 DEF m
  <2> QED
    BY <2>1, <1>8, <1>9, <1>3, <1>4
<1>11. \A i, k \in DOMAIN page.items : page.items[i] = page.items[k] => i = k
  BY <1>10, <1>4
<1>12. \A r \in B : r \in ToSet(page.items) <=> \E i \in 1..m : L[i] = r
  BY <1>10 DEF ToSet
<1>13. CASE n <= limit
  <2>1. page.next = NoCursor /\ m = n
    BY <1>13, <1>6, <1>8, <1>9, <1>3
  <2>2. B \subseteq ToSet(page.items)
    BY <2>1, <1>4, <1>12
  <2> QED
    BY <2>1, <2>2, <1>7, <1>10, <1>11 DEF IsPage, B, page
<1>14. CASE n > limit
  <2>1. /\ page.next = [ts |-> Key(L[limit], order).ts, id |-> Key(L[limit], order).id, order |-> mint]
        /\ m = limit /\ limit \in 1..n /\ limit \in 1..m
    BY <1>14, <1>6, <1>8, <1>9, <1>3
  <2>2. L[limit] \in B /\ L[limit] \in ToSet(page.items)
    BY <2>1, <1>4, <1>12
  <2>3. page.next.ts = Key(L[limit], order).ts /\ page.next.id = L[limit].id /\ page.next.order = mint
    BY <2>1, <2>2, <1>5
  <2>4. ASSUME NEW r \in B PROVE r \in ToSet(page.items) <=> ~Ahead(page.next, Key(r, order))
    <3>1. PICK k \in 1..n : L[k] = r
      BY <1>4
    <3>2. Ahead(page.next, Key(r, order)) <=> Ahead(Key(L[limit], order), Key(L[k], order))
      BY <2>2, <2>3, <3>1, <1>5 DEF Ahead
    <3>3. Ahead(page.next, Key(r, order)) <=> limit < k
      BY <3>2, <1>4, <2>1
    <3>4. r \in ToSet(page.items) <=> k \in 1..m
      BY <3>1, <1>12, <1>10, <1>4
    <3> QED
      BY <3>3, <3>4, <2>1, <1>3
  <2>5. page.next # NoCursor
    <3>1. page.next.ts # 0
      BY <2>2, <2>3, <1>5
    <3> QED
      BY <3>1, CursorsAre
  <2> QED
    BY <2>2, <2>3, <2>4, <2>5, <1>7, <1>10, <1>11 DEF IsPage, B, page
<1> QED
  BY <1>3, <1>13, <1>14

\* A request that is not refused walks one axis, the one its cursor came from.
LEMMA NotRefused ==
  ASSUME NEW q, Refusal(q) = ""
  PROVE  /\ q.limit \in 0..MAX_LIMIT
         /\ OrderOf(q) \in LIST_ORDERS
         /\ q.cursor # NoCursor => ~CursorOrderMismatch(q.cursor, OrderOf(q))
BY DEF Refusal

LEMMA LimitIsPositive ==
  ASSUME NEW q, q.limit \in 0..MAX_LIMIT, NEW door
  PROVE  LimitOf(q, door) \in Nat \ {0}
BY PaginationAssumption DEF LimitOf

-----------------------------------------------------------------------------
(* The fusion of a query's legs.                                           *)

\* A credit is a number.
LEMMA CreditIsNat ==
  ASSUME NEW list \in Seq(Nat), NEW doc
  PROVE  Credit(list, doc) \in Nat
<1> DEFINE at == {i \in DOMAIN list : list[i] = doc}
<1>1. at \subseteq Nat
  OBVIOUS
<1>2. CASE at = {}
  BY <1>2 DEF Credit
<1>3. CASE at # {}
  <2>1. Min(at) \in at
    <3> HIDE DEF at
    <3> QED
      BY <1>1, <1>3, LeastIs
  <2>2. Min(at) \in Nat \ {0}
    BY <2>1
  <2>3. Credit(list, doc) = Denominator \div (RRF_K + Min(at))
    BY <1>3 DEF Credit
  <2> HIDE DEF at
  <2>4. \A n \in Nat, k \in Nat \ {0} : n \div k \in Nat
    OBVIOUS
  <2>5. Denominator \in Nat /\ RRF_K + Min(at) \in Nat \ {0}
    BY <2>2, RankFusionAssumption
  <2> QED
    BY <2>3, <2>4, <2>5
<1> QED
  BY <1>2, <1>3

\* So is the score of a document that two legs rank.
LEMMA ScoreIsNat ==
  ASSUME NEW fts \in Seq(Nat), NEW vec \in Seq(Nat), NEW doc
  PROVE  Score(<<fts, vec>>, doc) \in Nat
<1> DEFINE lists == <<fts, vec>>
           one == Credit(lists[1], doc)
           both == one + Credit(lists[2], doc)
           P(t) == t = [l \in 0..Len(lists) |-> IF l = 0 THEN 0 ELSE t[l - 1] + Credit(lists[l], doc)]
           t0 == [l \in 0..2 |-> IF l = 0 THEN 0 ELSE IF l = 1 THEN one ELSE both]
<1>1. Len(lists) = 2 /\ one \in Nat /\ both \in Nat
  BY CreditIsNat
<1>2. Score(lists, doc) = (CHOOSE t : P(t))[2]
  BY <1>1 DEF Score
<1>3. P(t0)
  <2> HIDE DEF one, both
  <2>1. ASSUME NEW l \in 0..2 PROVE t0[l] = IF l = 0 THEN 0 ELSE t0[l - 1] + Credit(lists[l], doc)
    <3>1. CASE l = 0
      BY <3>1
    <3>2. CASE l = 1
      BY <3>2, <1>1 DEF one
    <3>3. CASE l = 2
      BY <3>3, <1>1 DEF both
    <3> QED
      BY <3>1, <3>2, <3>3
  <2> QED
    BY <1>1, <2>1
<1> DEFINE c == CHOOSE t : P(t)
<1>4. P(c)
  BY <1>3
<1> HIDE DEF c
<1>5. c[0] = 0 /\ c[1] = c[0] + Credit(lists[1], doc) /\ c[2] = c[1] + Credit(lists[2], doc)
  BY <1>1, <1>4
<1> QED
  BY <1>1, <1>2, <1>5 DEF c

\* Ranking by score names only what has a score.
LEMMA RankedHaveScores ==
  ASSUME NEW S, IsFiniteSet(S), S \subseteq Nat, NEW score \in [S -> Int]
  PROVE  ByScore(score) \in Seq(S)
<1> DEFINE R == {p \in S \X S : score[p[1]] > score[p[2]] \/ (score[p[1]] = score[p[2]] /\ p[1] < p[2])}
           n == Cardinality(S)
           g == ByScore(score)
<1>1. Orders(S, R)
  BY DEF Orders
<1>2. ASSUME NEW x \in S
      PROVE  Place(S, R, x) = Cardinality({y \in S : score[y] > score[x] \/ (score[y] = score[x] /\ y < x)})
  <2>1. {y \in S : score[y] > score[x] \/ (score[y] = score[x] /\ y < x)} = {y \in S : <<y, x>> \in R}
    OBVIOUS
  <2> QED
    BY <2>1 DEF Place
<1> HIDE DEF R
<1>3. n \in Nat /\ \A k \in 1..n : \E x \in S : Place(S, R, x) = k - 1
  <2> HIDE DEF g
  <2>1. IsFiniteSet(S)
    OBVIOUS
  <2> QED
    BY ONLY <1>1, <2>1, PlaceTaken
<1>4. DOMAIN score = S
  OBVIOUS
<1>5. ASSUME NEW k \in 1..n PROVE g[k] \in S
  <2>1. \E x \in S : Cardinality({y \in S : score[y] > score[x] \/ (score[y] = score[x] /\ y < x)}) = k - 1
    BY <1>2, <1>3
  <2>2. g[k] = CHOOSE x \in S : Cardinality({y \in S : score[y] > score[x] \/ (score[y] = score[x] /\ y < x)}) = k - 1
    BY <1>4 DEF ByScore, InOrder
  <2> QED
    BY <2>1, <2>2
<1>6. g \in [1..n -> S]
  BY <1>4, <1>5 DEF ByScore, InOrder
<1> QED
  BY <1>3, <1>6

\* What is fused was in one of the legs.
LEMMA FusedWereRanked ==
  ASSUME NEW fts \in Seq(Nat), NEW vec \in Seq(Nat), NEW deprecated, NEW limit \in Nat
  PROVE  ToSet(Fuse(<<fts, vec>>, deprecated, limit)) \subseteq ToSet(fts) \union ToSet(vec)
<1> DEFINE lists == <<fts, vec>>
           S == ToSet(fts) \union ToSet(vec)
           score == [d \in UNION {ToSet(lists[l]) : l \in DOMAIN lists} |-> Penalised(lists, deprecated, d)]
           ranked == ByScore(score)
<1>1. UNION {ToSet(lists[l]) : l \in DOMAIN lists} = S
  OBVIOUS
<1>2. IsFiniteSet(S) /\ S \subseteq Nat
  <2>1. ASSUME NEW list \in Seq(Nat) PROVE IsFiniteSet(ToSet(list)) /\ ToSet(list) \subseteq Nat
    <3>1. IsFiniteSet(1..Len(list)) /\ DOMAIN list = 1..Len(list)
      BY FS_Interval
    <3>2. [i \in 1..Len(list) |-> list[i]] \in Surjection(1..Len(list), ToSet(list))
      BY <3>1 DEF Surjection, ToSet
    <3> QED
      BY <3>1, <3>2, FS_Surjection DEF ToSet
  <2> QED
    BY <2>1, FS_Union
<1>3. ASSUME NEW d PROVE Penalised(lists, deprecated, d) \in Int
  <2>1. Score(lists, d) \in Nat
    BY ScoreIsNat
  <2>2. \A n \in Nat : (n \div 20) * 19 \in Int
    OBVIOUS
  <2> QED
    BY <2>1, <2>2 DEF Penalised
<1>4. score \in [S -> Int]
  <2> HIDE DEF lists
  <2> QED
    BY <1>1, <1>3
<1>5. Fuse(lists, deprecated, limit) = SubSeq(ranked, 1, Min({limit, Len(ranked)}))
  BY DEF Fuse
<1> HIDE DEF score, S
<1>6. ranked \in Seq(S)
  BY <1>2, <1>4, RankedHaveScores
<1> HIDE DEF ranked
<1> DEFINE m == Min({limit, Len(ranked)})
<1>7. m \in 0..Len(ranked)
  <2>1. {limit, Len(ranked)} \subseteq Nat
    BY <1>6
  <2>2. m \in {limit, Len(ranked)} /\ \A k \in {limit, Len(ranked)} : m <= k
    BY <2>1, LeastIs
  <2> QED
    BY <2>1, <2>2
<1> HIDE DEF m
<1>8. SubSeq(ranked, 1, m) \in Seq(S)
  BY <1>6, <1>7
<1>9. Fuse(lists, deprecated, limit) \in Seq(S)
  BY <1>5, <1>8 DEF m
<1>10. \A s \in Seq(S) : ToSet(s) \subseteq S
  BY DEF ToSet
<1> QED
  BY <1>9, <1>10 DEF S

-----------------------------------------------------------------------------
(* Types, and what is left of the bounds.                                  *)

Filters == [since : Nat, status : {"", "active"}, publication : {"", "pending"}]
RowsOf(docs) ==
  [id : docs, life : {"unborn", "live", "revoked"}, created : Nat, updated : Nat,
   ver : Nat, published : Nat, status : {"active", "deprecated"}, chunks : 0..MAX_CHUNKS]
JobsOf(docs) ==
  [doc : docs, ver : Nat, chunks : 0..MAX_CHUNKS, at : {"embed", "delete", "upsert"},
   by : {"write", "sweep"}]
MutationsOf(docs) ==
  [op : {"delete", "upsert"}, doc : docs, ver : Nat, chunks : 0..MAX_CHUNKS]
TasksOf(docs) ==
  [kind : {"none"} \union Lists \union Sweeps \union Modes,
   at : {"", "page", "probe", "row", "sync", "write", "done",
         "embedQuery", "fts", "query", "rejoin", "answer"},
   cursor : Cursors, todo : Seq(RowsOf(docs)), seen : Seq(docs), steady : SUBSET docs,
   filter : Filters, dead : SUBSET docs, tokens : BOOLEAN, embedded : BOOLEAN,
   fts : Seq(docs), vec : Seq(docs), deprecated : SUBSET docs]

\* A row is its own document's, and was stamped by the clock when it was born.
RowsStamped ==
  \A d \in budget.docs :
    /\ rows[d] \in RowsOf(budget.docs) /\ rows[d].id = d
    /\ rows[d].created <= clock /\ rows[d].updated <= clock
    /\ Born(d) => rows[d].created # 0 /\ rows[d].updated # 0

RowsTyped ==
  /\ rows \in [budget.docs -> RowsOf(budget.docs)] /\ RowsStamped
  /\ clock \in Nat \ {0}
  /\ links \in [budget.docs -> Nat]

IndexTyped ==
  /\ vectors \in [budget.docs \X Slots -> Nat]
  /\ pending \in Seq(MutationsOf(budget.docs)) /\ Len(pending) <= MaxPending
  /\ jobs \subseteq JobsOf(budget.docs)

\* Where a reader of a kind may be.
InPhase(kind, at) ==
  \/ kind \in Lists /\ at \in {"page", "done"}
  \/ kind = "missing" /\ at \in {"page", "probe", "row", "sync", "done"}
  \/ kind = "rebuild" /\ at \in {"page", "row", "sync", "done"}
  \/ kind = "links" /\ at \in {"page", "row", "write", "done"}
  \/ kind \in Modes /\ at \in {"embedQuery", "fts", "query", "rejoin", "answer"}
  \/ kind = "none" /\ at = ""

ReadersTyped ==
  /\ task \in TasksOf(budget.docs)
  /\ InPhase(task.kind, task.at)
  /\ task.at = "write" => task.todo # <<>>
  /\ feed \in [since : Nat, top : Nat, known : [budget.docs -> RowsOf(budget.docs)]]

Typed == IsBudget(budget) /\ RowsTyped /\ IndexTyped /\ ReadersTyped

LEMMA TypedIsTypeOK ==
  ASSUME Typed
  PROVE  TypeOK
<1>1. \A field \in {"writes", "ticks", "trouble"} : budget[field] \in Nat
  BY DEF Typed, IsBudget
<1>2. \A d \in budget.docs : rows[d] \in
       [id : budget.docs, life : {"unborn", "live", "revoked"}, created : 0..clock, updated : 0..clock,
        ver : Nat, published : Nat, status : {"active", "deprecated"}, chunks : 0..MAX_CHUNKS]
  BY DEF Typed, RowsTyped, RowsStamped, RowsOf
<1>3. \A j \in jobs : j.doc \in budget.docs /\ j.at \in {"embed", "delete", "upsert"}
  BY DEF Typed, IndexTyped, JobsOf
<1> QED
  BY <1>1, <1>2, <1>3 DEF Typed, RowsTyped, IndexTyped, TypeOK

\* What the bounds of a behaviour let a step rely on.
SameBounds ==
  /\ IsBudget(budget')
  /\ budget'.docs = budget.docs /\ budget'.reads = budget.reads
  /\ budget'.chunks = budget.chunks /\ budget'.syncs = budget.syncs

LEMMA SpendingKeepsBounds ==
  ASSUME IsBudget(budget), NEW field \in {"writes", "ticks", "trouble"}, Spend(field)
  PROVE  SameBounds
<1> DEFINE left == budget[field] - 1
<1>1. left \in Nat /\ budget' = [budget EXCEPT ![field] = left]
  BY DEF IsBudget, Spend
<1>2. /\ \A f \in DOMAIN budget : f # field => budget'[f] = budget[f]
      /\ DOMAIN budget' = DOMAIN budget /\ budget'[field] = left
  <2>1. field \in DOMAIN budget
    BY DEF IsBudget
  <2> HIDE DEF left
  <2> QED
    BY <1>1, <2>1
<1>3. budget'.trial = budget.trial
  BY <1>2 DEF IsBudget
<1>4. budget' \in [born : [DOMAIN budget'.born -> Nat \ {0}], docs : SUBSET (Nat \ {0}),
                  writes : Nat, ticks : Nat, trouble : Nat, reads : SUBSET (Lists \union Sweeps \union Modes),
                  chunks : SUBSET (0..MAX_CHUNKS), syncs : BOOLEAN, trial : {budget'.trial}]
  <2> HIDE DEF left
  <2> QED
    BY <1>1 DEF IsBudget
<1>5. /\ budget'.docs = budget.docs /\ budget'.reads = budget.reads /\ budget'.born = budget.born
      /\ budget'.chunks = budget.chunks /\ budget'.syncs = budget.syncs
  BY <1>1 DEF IsBudget
<1> QED
  BY <1>3, <1>4, <1>5 DEF IsBudget, SameBounds

LEMMA BoundsStay ==
  ASSUME IsBudget(budget), [Next]_vars
  PROVE  SameBounds
<1>1. CASE UNCHANGED budget
  BY <1>1 DEF SameBounds
<1>2. CASE Spend("writes") \/ Spend("ticks") \/ Spend("trouble")
  BY <1>2, SpendingKeepsBounds
<1>3. CASE Writers
  BY <1>2, <1>3 DEF Writers, Publish, Update, SetStatus, Promote, Revoke, Tick, Write
<1>4. CASE SyncStep \/ (\E j \in jobs : JobFails(j)) \/ Apply
  BY <1>1, <1>2, <1>4 DEF SyncStep, Embed, DeleteOld, Upsert, JobFails, Apply
<1>5. CASE Walks \/ Abandon
  BY <1>1, <1>2, <1>5 DEF Walks, StartWalk, ReadPage, Probe, SyncRow, RowSynced, GetRender,
     WriteLinks, EndPage, EndWalk, Abandon
<1>6. CASE Searches
  BY <1>1, <1>2, <1>6 DEF Searches, StartSearch, EmbedQuery, SearchText, QueryVectors,
     QueryFails, Rejoin, EndSearch
<1>7. CASE UNCHANGED vars
  BY <1>1, <1>7 DEF vars
<1> QED
  BY <1>3, <1>4, <1>5, <1>6, <1>7 DEF Next

-----------------------------------------------------------------------------
(* The steps, told apart by what they leave alone.                         *)

\* A writer's batch: one row, stamped by the clock, never one that is revoked.
Rewrites(d, row) ==
  /\ d \in budget.docs /\ rows[d].life # "revoked"
  /\ row \in RowsOf(budget.docs) /\ row.id = d /\ row.life # "unborn"
  /\ row.updated = clock
  /\ row.created = IF Born(d) THEN rows[d].created ELSE clock
  /\ rows' = [rows EXCEPT ![d] = row]
  /\ task' = [task EXCEPT !.steady = StillSteady(d, row)]
  /\ UNCHANGED <<feed, clock>>

Quiet == UNCHANGED <<rows, clock, task, feed>>
Ticks == clock' = clock + 1 /\ UNCHANGED <<rows, task, feed>>
Reads == (Walks \/ Abandon \/ Searches) /\ UNCHANGED <<rows, clock>>

LEMMA RowOfDocument ==
  ASSUME Typed, NEW d \in budget.docs
  PROVE  /\ rows[d] \in RowsOf(budget.docs) /\ rows[d].id = d /\ clock \in Nat
         /\ budget.chunks \subseteq 0..MAX_CHUNKS /\ MAX_CHUNKS \in Nat
         /\ rows[d].ver + 1 \in Nat
<1>1. rows[d] \in RowsOf(budget.docs) /\ rows[d].id = d /\ clock \in Nat
  BY DEF Typed, RowsTyped, RowsStamped
<1>2. rows[d].ver + 1 \in Nat
  BY <1>1 DEF RowsOf
<1>3. budget.chunks \subseteq 0..MAX_CHUNKS
  BY DEF Typed, IsBudget
<1>4. MAX_CHUNKS \in Nat
  BY SearchIndexAssumption
<1> QED
  BY <1>1, <1>2, <1>3, <1>4

\* The steps of a query before its answer leave all but the reader as it is.
LEMMA QueryStepsAre ==
  ASSUME task \in TasksOf(budget.docs),
         (\E ok \in BOOLEAN : EmbedQuery(ok)) \/ SearchText \/ QueryVectors \/ QueryFails \/ Rejoin
  PROVE  /\ task.at \in {"embedQuery", "fts", "query", "rejoin"}
         /\ task' = NoTask \/ task'.kind = task.kind
         /\ UNCHANGED <<rows, clock, feed>>
<1>1. CASE \E ok \in BOOLEAN : EmbedQuery(ok)
  BY <1>1 DEF EmbedQuery, TasksOf, corpus
<1>2. CASE SearchText
  BY <1>2 DEF SearchText, TasksOf, corpus
<1>3. CASE QueryVectors
  BY <1>3 DEF QueryVectors, TasksOf, corpus
<1>4. CASE QueryFails
  BY <1>4 DEF QueryFails, TasksOf, corpus
<1>5. CASE Rejoin
  BY <1>5 DEF Rejoin, TasksOf, corpus
<1> QED
  BY <1>1, <1>2, <1>3, <1>4, <1>5

\* What a writer leaves of a row is a row.
LEMMA RowsAfterWrites ==
  ASSUME NEW docs, NEW r \in RowsOf(docs), NEW now \in Nat, NEW n \in 0..MAX_CHUNKS,
         NEW status \in {"active", "deprecated"}
  PROVE  /\ [r EXCEPT !.life = "live", !.created = now, !.updated = now, !.ver = 1, !.chunks = n] \in RowsOf(docs)
         /\ [r EXCEPT !.updated = now, !.ver = @ + 1, !.chunks = n] \in RowsOf(docs)
         /\ [r EXCEPT !.status = status, !.updated = now] \in RowsOf(docs)
         /\ [r EXCEPT !.published = r.ver, !.updated = now] \in RowsOf(docs)
         /\ [r EXCEPT !.life = "revoked", !.ver = 0, !.published = 0, !.chunks = 0, !.updated = now] \in RowsOf(docs)
         /\ DOMAIN r = {"id", "life", "created", "updated", "ver", "published", "status", "chunks"}
<1>1. 0 \in 0..MAX_CHUNKS /\ r.ver + 1 \in Nat /\ r.ver \in Nat
  BY SearchIndexAssumption DEF RowsOf
<1>2. [r EXCEPT !.life = "live", !.created = now, !.updated = now, !.ver = 1, !.chunks = n] \in RowsOf(docs)
  BY DEF RowsOf
<1>3. [r EXCEPT !.updated = now, !.ver = @ + 1, !.chunks = n] \in RowsOf(docs)
  BY <1>1 DEF RowsOf
<1>4. [r EXCEPT !.status = status, !.updated = now] \in RowsOf(docs)
  BY DEF RowsOf
<1>5. [r EXCEPT !.published = r.ver, !.updated = now] \in RowsOf(docs)
  BY <1>1 DEF RowsOf
<1>6. [r EXCEPT !.life = "revoked", !.ver = 0, !.published = 0, !.chunks = 0, !.updated = now] \in RowsOf(docs)
  BY <1>1 DEF RowsOf
<1>7. DOMAIN r = {"id", "life", "created", "updated", "ver", "published", "status", "chunks"}
  BY DEF RowsOf
<1> QED
  BY <1>2, <1>3, <1>4, <1>5, <1>6, <1>7

\* What a writer does to a row and to what is derived from it.
LEMMA WritersRewrite ==
  ASSUME Typed, Writers
  PROVE  \/ Ticks /\ UNCHANGED <<links, vectors, pending, jobs>>
         \/ \E d \in budget.docs : \E row \in RowsOf(budget.docs) :
              /\ Rewrites(d, row)
              /\ UNCHANGED <<vectors, pending>>
              /\ links' \in [budget.docs -> Nat]
              /\ \E sync \in SUBSET JobsOf(budget.docs) : jobs' = jobs \union sync
<1> DEFINE D == budget.docs
           G(d) == \E row \in RowsOf(D) :
              /\ Rewrites(d, row)
              /\ UNCHANGED <<vectors, pending>>
              /\ links' \in [D -> Nat]
              /\ \E sync \in SUBSET JobsOf(D) : jobs' = jobs \union sync
<1>1. ASSUME NEW d \in D, NEW row \in RowsOf(D), NEW sync \in SUBSET JobsOf(D),
             Write(d, row, sync), links' \in [D -> Nat],
             rows[d].life # "revoked", row.id = d, row.life # "unborn", row.updated = clock,
             row.created = IF Born(d) THEN rows[d].created ELSE clock
      PROVE  G(d)
  <2>1. Rewrites(d, row) /\ UNCHANGED <<vectors, pending>>
    BY <1>1 DEF Write, Rewrites, index
  <2>2. \E s \in SUBSET JobsOf(D) : jobs' = jobs \union s
    BY <1>1 DEF Write
  <2> QED
    BY <1>1, <2>1, <2>2
<1>2. links \in [D -> Nat]
  BY DEF Typed, RowsTyped
<1> HIDE DEF G
<1>3. ASSUME NEW d \in D, NEW n \in budget.chunks, Publish(d, n) PROVE G(d)
  <2> DEFINE row == [rows[d] EXCEPT !.life = "live", !.created = clock, !.updated = clock,
                                    !.ver = 1, !.chunks = n]
             job == Job(d, 1, n, "embed", "write")
  <2>1. row \in RowsOf(D) /\ row.id = d /\ row.life # "unborn" /\ row.updated = clock /\ row.created = clock
    <3> USE RowOfDocument
    <3>0. 0 \in 0..MAX_CHUNKS /\ "active" \in {"active", "deprecated"}
      BY SearchIndexAssumption
    <3>1. row \in RowsOf(D)
      BY <3>0, RowsAfterWrites
    <3>2. DOMAIN rows[d] = {"id", "life", "created", "updated", "ver", "published", "status", "chunks"}
      BY <3>0, RowsAfterWrites
    <3> QED
      BY <3>1, <3>2
  <2>2. {job} \in SUBSET JobsOf(D)
    BY RowOfDocument DEF Job, JobsOf
  <2>3. Write(d, row, {job}) /\ ~Born(d) /\ rows[d].life # "revoked" /\ links' \in [D -> Nat]
    BY <1>2, <1>3 DEF Publish, Born
  <2> HIDE DEF row, job
  <2> QED
    BY <1>1, <2>1, <2>2, <2>3
<1>4. ASSUME NEW d \in D, NEW n \in budget.chunks, Update(d, n) PROVE G(d)
  <2> DEFINE row == [rows[d] EXCEPT !.updated = clock, !.ver = @ + 1, !.chunks = n]
             job == Job(d, rows[d].ver + 1, n, "embed", "write")
  <2>1. Live(d) /\ Born(d) /\ rows[d].life # "revoked"
    BY <1>4 DEF Update, Live, Born
  <2>2. row \in RowsOf(D) /\ row.id = d /\ row.life = "live" /\ row.updated = clock /\ row.created = rows[d].created
    <3> USE RowOfDocument
    <3>0. 0 \in 0..MAX_CHUNKS /\ "active" \in {"active", "deprecated"}
      BY SearchIndexAssumption
    <3>1. row \in RowsOf(D)
      BY <3>0, RowsAfterWrites
    <3>2. DOMAIN rows[d] = {"id", "life", "created", "updated", "ver", "published", "status", "chunks"}
      BY <3>0, RowsAfterWrites
    <3> QED
      BY <2>1, <3>1, <3>2 DEF Live
  <2>3. {job} \in SUBSET JobsOf(D)
    BY RowOfDocument DEF Job, JobsOf
  <2>4. Write(d, row, {job}) /\ links' \in [D -> Nat]
    BY <1>2, <1>4, RowOfDocument DEF Update
  <2> HIDE DEF row, job
  <2> QED
    BY <1>1, <2>1, <2>2, <2>3, <2>4
<1>5. ASSUME NEW d \in D, NEW status \in {"active", "deprecated"}, SetStatus(d, status) PROVE G(d)
  <2> DEFINE row == [rows[d] EXCEPT !.status = status, !.updated = Touched(d)]
  <2>1. Live(d) /\ Born(d) /\ rows[d].life # "revoked"
    BY <1>5 DEF SetStatus, Live, Born
  <2>2. row \in RowsOf(D) /\ row.id = d /\ row.life = "live" /\ row.updated = clock /\ row.created = rows[d].created
    <3> USE RowOfDocument
    <3>0. 0 \in 0..MAX_CHUNKS /\ "active" \in {"active", "deprecated"}
      BY SearchIndexAssumption
    <3>1. row \in RowsOf(D)
      BY <3>0, RowsAfterWrites DEF Touched
    <3>2. DOMAIN rows[d] = {"id", "life", "created", "updated", "ver", "published", "status", "chunks"}
      BY <3>0, RowsAfterWrites
    <3> QED
      BY <2>1, <3>1, <3>2 DEF Live, Touched
  <2>3. Write(d, row, {}) /\ links' \in [D -> Nat]
    BY <1>2, <1>5 DEF SetStatus
  <2> HIDE DEF row
  <2> QED
    BY <1>1, <2>1, <2>2, <2>3
<1>6. ASSUME NEW d \in D, Promote(d) PROVE G(d)
  <2> DEFINE row == [rows[d] EXCEPT !.published = rows[d].ver, !.updated = Touched(d)]
  <2>1. Live(d) /\ Born(d) /\ rows[d].life # "revoked"
    BY <1>6 DEF Promote, Live, Born
  <2>2. row \in RowsOf(D) /\ row.id = d /\ row.life = "live" /\ row.updated = clock /\ row.created = rows[d].created
    <3> USE RowOfDocument
    <3>0. 0 \in 0..MAX_CHUNKS /\ "active" \in {"active", "deprecated"}
      BY SearchIndexAssumption
    <3>1. row \in RowsOf(D)
      BY <3>0, RowsAfterWrites DEF Touched
    <3>2. DOMAIN rows[d] = {"id", "life", "created", "updated", "ver", "published", "status", "chunks"}
      BY <3>0, RowsAfterWrites
    <3> QED
      BY <2>1, <3>1, <3>2 DEF Live, Touched
  <2>3. Write(d, row, {}) /\ links' \in [D -> Nat]
    BY <1>2, <1>6 DEF Promote
  <2> HIDE DEF row
  <2> QED
    BY <1>1, <2>1, <2>2, <2>3
<1>7. ASSUME NEW d \in D, Revoke(d) PROVE G(d)
  <2> DEFINE row == [rows[d] EXCEPT !.life = "revoked", !.ver = 0, !.published = 0,
                                    !.chunks = 0, !.updated = Touched(d)]
             job == Job(d, 0, 0, "delete", "write")
  <2>1. Live(d) /\ Born(d) /\ rows[d].life # "revoked"
    BY <1>7 DEF Revoke, Live, Born
  <2>2. row \in RowsOf(D) /\ row.id = d /\ row.life = "revoked" /\ row.updated = clock /\ row.created = rows[d].created
    <3> USE RowOfDocument
    <3>0. 0 \in 0..MAX_CHUNKS /\ "active" \in {"active", "deprecated"}
      BY SearchIndexAssumption
    <3>1. row \in RowsOf(D)
      BY <3>0, RowsAfterWrites DEF Touched
    <3>2. DOMAIN rows[d] = {"id", "life", "created", "updated", "ver", "published", "status", "chunks"}
      BY <3>0, RowsAfterWrites
    <3> QED
      BY <2>1, <3>1, <3>2 DEF Live, Touched
  <2>3. {job} \in SUBSET JobsOf(D)
    BY RowOfDocument DEF Job, JobsOf
  <2>4. Write(d, row, {job}) /\ links' \in [D -> Nat]
    BY <1>2, <1>7 DEF Revoke
  <2> HIDE DEF row, job
  <2> QED
    BY <1>1, <2>1, <2>2, <2>3, <2>4
<1>8. CASE Tick
  BY <1>8 DEF Tick, Ticks, index
<1> HIDE DEF D
<1>9. CASE \E d \in D : G(d)
  BY <1>9 DEF G, D
<1> QED
  BY <1>3, <1>4, <1>5, <1>6, <1>7, <1>8, <1>9 DEF Writers, D

LEMMA StepsAre ==
  ASSUME Typed, [Next]_vars
  PROVE  \/ \E d \in budget.docs : \E row \in RowsOf(budget.docs) : Rewrites(d, row)
         \/ Ticks \/ Quiet \/ Reads
<1>1. CASE Writers
  BY <1>1, WritersRewrite
<1>2. CASE SyncStep \/ (\E j \in jobs : JobFails(j)) \/ Apply
  BY <1>2 DEF SyncStep, Embed, DeleteOld, Upsert, JobFails, Apply, corpus, Quiet
<1>3. CASE Walks \/ Abandon
  BY <1>3 DEF Walks, StartWalk, ReadPage, Probe, SyncRow, RowSynced, GetRender,
     WriteLinks, EndPage, EndWalk, Abandon, corpus, Reads
<1>4. CASE Searches
  BY <1>4 DEF Searches, StartSearch, EmbedQuery, SearchText, QueryVectors,
     QueryFails, Rejoin, EndSearch, corpus, Reads
<1>5. CASE UNCHANGED vars
  BY <1>5 DEF vars, Quiet
<1> QED
  BY <1>1, <1>2, <1>3, <1>4, <1>5 DEF Next

-----------------------------------------------------------------------------
(* The rows stay typed.                                                    *)

LEMMA RowsStayTyped ==
  ASSUME Typed, [Next]_vars
  PROVE  RowsTyped'
<1> DEFINE D == budget.docs
<1>0. budget'.docs = D /\ RowsTyped
  BY BoundsStay DEF Typed, SameBounds
<1>1. CASE Writers
  <2>1. CASE Ticks /\ UNCHANGED links
    <3>1. clock \in Nat /\ clock' = clock + 1 /\ rows' = rows /\ links' = links
      BY <2>1, <1>0 DEF Ticks, RowsTyped
    <3>2. \A d \in D : rows[d].created \in Nat /\ rows[d].updated \in Nat
      BY <1>0 DEF RowsTyped, RowsStamped, RowsOf
    <3>3. RowsStamped'
      BY <1>0, <3>1, <3>2 DEF RowsTyped, RowsStamped, Born
    <3> QED
      BY <1>0, <3>1, <3>3 DEF RowsTyped
  <2>2. ASSUME NEW d \in D, NEW row \in RowsOf(D), Rewrites(d, row), links' \in [D -> Nat]
        PROVE  RowsTyped'
    <3>1. rows' \in [D -> RowsOf(D)] /\ clock' = clock /\ clock \in Nat \ {0}
      BY <2>2, <1>0 DEF Rewrites, RowsTyped
    <3>2. ASSUME NEW e \in D
          PROVE  /\ rows'[e] \in RowsOf(D) /\ rows'[e].id = e
                 /\ rows'[e].created <= clock /\ rows'[e].updated <= clock
                 /\ rows'[e].life # "unborn" => rows'[e].created # 0 /\ rows'[e].updated # 0
      <4>0. /\ rows[e].id = e /\ rows[e].created <= clock /\ rows[e].updated <= clock
            /\ Born(e) => rows[e].created # 0 /\ rows[e].updated # 0
            /\ rows'[e] \in RowsOf(D)
        BY <1>0, <3>1 DEF RowsTyped, RowsStamped
      <4>1. CASE e = d
        <5>1. rows'[e] = row
          BY <4>1, <2>2, <1>0 DEF Rewrites, RowsTyped
        <5>2. row.id = d /\ row.updated = clock /\ row.created = IF Born(d) THEN rows[d].created ELSE clock
          BY <2>2 DEF Rewrites
        <5> QED
          BY <3>1, <4>0, <4>1, <5>1, <5>2
      <4>2. CASE e # d
        <5>1. rows'[e] = rows[e]
          BY <4>2, <2>2, <1>0 DEF Rewrites, RowsTyped
        <5> QED
          BY <4>0, <5>1 DEF Born
      <4> QED
        BY <4>1, <4>2
    <3>3. RowsStamped'
      BY <1>0, <3>1, <3>2 DEF RowsStamped, Born
    <3> QED
      BY <1>0, <2>2, <3>1, <3>3 DEF RowsTyped
  <2> QED
    BY <1>1, <2>1, <2>2, WritersRewrite
<1>2. ASSUME UNCHANGED <<rows, clock>>, links' \in [D -> Nat]
      PROVE  RowsTyped'
  <2>1. RowsStamped'
    BY <1>0, <1>2 DEF RowsTyped, RowsStamped, Born
  <2> QED
    BY <1>0, <1>2, <2>1 DEF RowsTyped
<1>3. ASSUME UNCHANGED <<rows, clock, links>>
      PROVE  RowsTyped'
  BY <1>0, <1>2, <1>3 DEF RowsTyped
<1>4. CASE SyncStep \/ (\E j \in jobs : JobFails(j)) \/ Apply
  BY <1>3, <1>4 DEF SyncStep, Embed, DeleteOld, Upsert, JobFails, Apply, corpus
<1>5. CASE WriteLinks
  <2>1. task.todo \in Seq(RowsOf(D)) /\ task.todo # <<>>
    BY <1>5 DEF WriteLinks, Typed, ReadersTyped, TasksOf
  <2>2. Head(task.todo) \in RowsOf(D)
    BY <2>1
  <2>3. Head(task.todo).ver \in Nat /\ Head(task.todo).id \in D
    BY <2>2 DEF RowsOf
  <2>4. links' \in [D -> Nat]
    BY <1>0, <1>5, <2>3 DEF WriteLinks, RowsTyped
  <2> QED
    BY <1>2, <1>5, <2>4 DEF WriteLinks
<1>6. CASE (Walks /\ ~WriteLinks) \/ Abandon
  BY <1>3, <1>6 DEF Walks, StartWalk, ReadPage, Probe, SyncRow, RowSynced, GetRender,
     EndPage, EndWalk, Abandon, corpus
<1>7. CASE Searches
  BY <1>3, <1>7 DEF Searches, StartSearch, EmbedQuery, SearchText, QueryVectors,
     QueryFails, Rejoin, EndSearch, corpus
<1>8. CASE UNCHANGED vars
  BY <1>3, <1>8 DEF vars
<1> QED
  BY <1>1, <1>4, <1>5, <1>6, <1>7, <1>8 DEF Next

-----------------------------------------------------------------------------
(* So does the index.                                                      *)

LEMMA IndexStaysTyped ==
  ASSUME Typed, [Next]_vars
  PROVE  IndexTyped'
<1> DEFINE D == budget.docs
           M == MutationsOf(D)
           J == JobsOf(D)
<1>0. budget'.docs = D /\ IndexTyped /\ MAX_CHUNKS \in 0..MAX_CHUNKS /\ 0 \in 0..MAX_CHUNKS
  BY BoundsStay, SearchIndexAssumption DEF Typed, SameBounds
<1>1. ASSUME UNCHANGED <<vectors, pending>>, jobs' \subseteq J
      PROVE  IndexTyped'
  BY <1>0, <1>1 DEF IndexTyped
<1>2. ASSUME NEW m \in M, Accept(m), jobs' \subseteq J
      PROVE  IndexTyped'
  <2>1. /\ pending \in Seq(M) /\ Len(pending) < MaxPending /\ MaxPending \in Nat
        /\ pending' = Append(pending, m) /\ vectors' = vectors
    BY <1>0, <1>2, SearchIndexAssumption DEF IndexTyped, Accept
  <2>2. pending' \in Seq(M) /\ Len(pending') <= MaxPending
    BY <2>1
  <2> QED
    BY <1>0, <1>2, <2>1, <2>2 DEF IndexTyped
<1>3. ASSUME NEW j \in jobs, NEW at \in {"embed", "delete", "upsert"}
      PROVE  [j EXCEPT !.at = at] \in J /\ jobs \subseteq J /\ j \in J
  BY <1>0, <1>3 DEF IndexTyped, JobsOf
<1>4. CASE Writers
  <2>1. jobs \subseteq J
    BY <1>0 DEF IndexTyped
  <2> QED
    BY <1>1, <1>4, <2>1, WritersRewrite
<1>5. ASSUME NEW j \in jobs, Embed(j) PROVE IndexTyped'
  BY <1>1, <1>3, <1>5 DEF Embed, Advance, index
<1>6. ASSUME NEW j \in jobs, DeleteOld(j) PROVE IndexTyped'
  <2>1. DeleteRange(j) \in M
    BY <1>0, <1>3 DEF DeleteRange, MutationsOf, JobsOf
  <2>2. jobs' \subseteq J
    BY <1>3, <1>6 DEF DeleteOld, Advance
  <2> QED
    BY <1>2, <1>6, <2>1, <2>2 DEF DeleteOld
<1>7. ASSUME NEW j \in jobs, Upsert(j) PROVE IndexTyped'
  <2>1. [op |-> "upsert", doc |-> j.doc, ver |-> j.ver, chunks |-> j.chunks] \in M
    BY <1>0, <1>3 DEF MutationsOf, JobsOf
  <2>2. jobs' \subseteq J
    BY <1>3, <1>7 DEF Upsert
  <2> QED
    BY <1>2, <1>7, <2>1, <2>2 DEF Upsert
<1>8. ASSUME NEW j \in jobs, JobFails(j) PROVE IndexTyped'
  BY <1>1, <1>3, <1>8 DEF JobFails, index
<1>9. CASE Apply
  <2>1. pending \in Seq(M) /\ pending # <<>> /\ Len(pending) <= MaxPending
    BY <1>0, <1>9 DEF IndexTyped, Apply
  <2>2. Head(pending) \in M /\ Tail(pending) \in Seq(M) /\ Len(Tail(pending)) <= MaxPending
    BY <2>1, SearchIndexAssumption
  <2>3. vectors' \in [D \X Slots -> Nat]
    <3>1. Head(pending).ver \in Nat /\ vectors \in [D \X Slots -> Nat]
      BY <1>0, <2>2 DEF IndexTyped, MutationsOf
    <3>2. vectors' = [v \in DOMAIN vectors |->
             IF v[1] = Head(pending).doc /\ v[2] < Head(pending).chunks THEN Head(pending).ver ELSE vectors[v]]
      BY <1>9 DEF Apply
    <3> QED
      BY <3>1, <3>2
  <2> QED
    BY <1>0, <1>9, <2>2, <2>3 DEF IndexTyped, Apply
<1>10. CASE SyncRow
  <2>1. task.todo \in Seq(RowsOf(D)) /\ task.todo # <<>>
    BY <1>10 DEF SyncRow, Typed, ReadersTyped, TasksOf
  <2>2. Head(task.todo) \in RowsOf(D)
    BY <2>1
  <2> DEFINE row == Head(task.todo)
  <2>3. Job(row.id, row.ver, row.chunks, "embed", "sweep") \in J
    BY <2>2 DEF RowsOf, Job, JobsOf
  <2>4. jobs' = jobs \union {Job(row.id, row.ver, row.chunks, "embed", "sweep")}
    BY <1>10 DEF SyncRow
  <2>5. jobs' \subseteq J
    BY <1>0, <2>3, <2>4 DEF IndexTyped
  <2> QED
    BY <1>1, <1>10, <2>5 DEF SyncRow, index
<1>11. CASE Abandon
  <2>1. jobs' \subseteq J
    BY <1>0, <1>11 DEF IndexTyped, Abandon
  <2> QED
    BY <1>1, <1>11, <2>1 DEF Abandon, index
<1>12. ASSUME UNCHANGED <<vectors, pending, jobs>> PROVE IndexTyped'
  BY <1>0, <1>12 DEF IndexTyped
<1>13. CASE Walks /\ ~SyncRow
  BY <1>12, <1>13 DEF Walks, StartWalk, ReadPage, Probe, RowSynced, GetRender,
     WriteLinks, EndPage, EndWalk, index
<1>14. CASE Searches
  BY <1>12, <1>14 DEF Searches, StartSearch, EmbedQuery, SearchText, QueryVectors,
     QueryFails, Rejoin, EndSearch, index
<1>15. CASE UNCHANGED vars
  BY <1>12, <1>15 DEF vars
<1> QED
  BY <1>4, <1>5, <1>6, <1>7, <1>8, <1>9, <1>10, <1>11, <1>13, <1>14, <1>15 DEF Next, SyncStep

-----------------------------------------------------------------------------
(* So do the readers.                                                      *)

ShownRows == {r \in Table : Shown(r, task.kind, task.filter)}

LEMMA TableIsListed ==
  ASSUME Typed
  PROVE  /\ IsListed(ShownRows)
         /\ ShownRows \subseteq RowsOf(budget.docs)
         /\ \A r \in ShownRows : Born(r.id) /\ rows[r.id] = r
<1> DEFINE D == budget.docs
           All == {rows[d] : d \in D}
<1>0. IsFiniteSet(D) /\ D \subseteq Nat \ {0} /\ RowsStamped /\ rows \in [D -> RowsOf(D)]
  BY DEF Typed, RowsTyped, IsBudget
<1>1. IsFiniteSet(All)
  <2>1. [d \in D |-> rows[d]] \in Surjection(D, All)
    BY DEF Surjection
  <2> HIDE DEF All
  <2> QED
    BY <1>0, <2>1, FS_Surjection
<1>2. ShownRows \subseteq All /\ \A r \in ShownRows : r.life # "unborn"
  BY DEF ShownRows, Table
<1>3. IsFiniteSet(ShownRows)
  <2> HIDE DEF All
  <2> QED
    BY <1>1, <1>2, FS_Subset
<1>4. ASSUME NEW r \in ShownRows
      PROVE  /\ r \in RowsOf(D) /\ r.id \in D /\ rows[r.id] = r /\ Born(r.id)
             /\ r.created \in Nat \ {0} /\ r.updated \in Nat \ {0}
  <2>1. PICK d \in D : rows[d] = r
    BY <1>2
  <2>2. r \in RowsOf(D) /\ r.id = d /\ Born(d) /\ r.created # 0 /\ r.updated # 0
    BY <1>0, <1>2, <2>1 DEF RowsStamped, Born
  <2>3. r.created \in Nat /\ r.updated \in Nat
    BY <2>2 DEF RowsOf
  <2> QED
    BY <2>1, <2>2, <2>3
<1>5. IsListed(ShownRows)
  BY <1>0, <1>3, <1>4 DEF IsListed
<1> QED
  BY <1>4, <1>5

\* What ReadPage does, in terms of the page it read.
PageRead(page, ids, axis) ==
  /\ task.kind \in Lists \union Sweeps /\ task.at = "page"
  /\ axis \in LIST_ORDERS
  /\ task.kind \in Sweeps => axis = "created"
  /\ task.cursor # NoCursor /\ task.kind \in Lists => ~CursorOrderMismatch(task.cursor, axis)
  /\ task.cursor = NoCursor => axis = WalkOrder(task.kind)
  /\ IsPage(page, ShownRows, task.cursor, axis, IF task.kind \in Sweeps THEN "" ELSE axis)
  /\ page.items \in Seq(RowsOf(budget.docs)) /\ page.next \in Cursors
  /\ ids \in Seq(budget.docs) /\ DOMAIN ids = DOMAIN page.items
  /\ \A i \in DOMAIN ids : ids[i] = page.items[i].id /\ rows[ids[i]] = page.items[i] /\ Born(ids[i])
  /\ task' = [task EXCEPT
       !.seen = @ \o ids, !.cursor = page.next,
       !.todo = IF task.kind \in Sweeps THEN page.items ELSE <<>>,
       !.at = CASE task.kind = "missing" -> "probe"
                [] task.kind \in {"rebuild", "links"} -> "row"
                [] task.kind \in Lists /\ page.next # NoCursor -> "page"
                [] OTHER -> "done"]
  /\ IF task.kind = "feed"
       THEN feed' = [feed EXCEPT
              !.known = [d \in DOMAIN feed.known |->
                 IF d \in ToSet(ids) THEN rows[d] ELSE feed.known[d]],
              !.top = Max({@} \union {page.items[i].updated : i \in DOMAIN page.items})]
       ELSE UNCHANGED feed

LEMMA ReadingIsPaging ==
  ASSUME Typed, NEW order, NEW limit, NEW door, ReadPage(order, limit, door)
  PROVE  \E page, ids, axis : PageRead(page, ids, axis)
<1> DEFINE D == budget.docs
           q == [limit |-> limit, order |-> order, cursor |-> task.cursor, since |-> task.filter.since,
                 status |-> task.filter.status, publication |-> task.filter.publication]
           axis == IF task.kind \in Sweeps THEN DEFAULT_ORDER ELSE OrderOf(q)
           mint == IF task.kind \in Sweeps THEN "" ELSE axis
           IdsOf(page) == [i \in DOMAIN page.items |-> page.items[i].id]
           Turns(page, ids) ==
             /\ task' = [task EXCEPT
                  !.seen = @ \o ids, !.cursor = page.next,
                  !.todo = IF task.kind \in Sweeps THEN page.items ELSE <<>>,
                  !.at = CASE task.kind = "missing" -> "probe"
                           [] task.kind \in {"rebuild", "links"} -> "row"
                           [] task.kind \in Lists /\ page.next # NoCursor -> "page"
                           [] OTHER -> "done"]
             /\ IF task.kind = "feed"
                  THEN feed' = [feed EXCEPT
                         !.known = [d \in DOMAIN feed.known |->
                            IF d \in ToSet(ids) THEN rows[d] ELSE feed.known[d]],
                         !.top = Max({@} \union {page.items[i].updated : i \in DOMAIN page.items})]
                  ELSE UNCHANGED feed
<1>1. /\ task.at = "page" /\ Refusal(q) = ""
      /\ task.cursor = NoCursor => OrderOf(q) = WalkOrder(task.kind)
  BY DEF ReadPage
<1>2. PICK page \in {Paginate(ShownRows, task.cursor, axis, LimitOf(q, door), mint)} :
        Turns(page, IdsOf(page))
  BY Zenon DEF ReadPage, ShownRows
<1> HIDE DEF Turns
<1>3. task.kind \in Lists \union Sweeps
  BY <1>1 DEF Typed, ReadersTyped, TasksOf, InPhase, Lists, Sweeps, Modes
<1>4. /\ q.limit \in 0..MAX_LIMIT /\ OrderOf(q) \in LIST_ORDERS
      /\ task.cursor # NoCursor => ~CursorOrderMismatch(task.cursor, OrderOf(q))
  <2>1. q.cursor = task.cursor
    OBVIOUS
  <2> HIDE DEF q
  <2> QED
    BY <1>1, <2>1, NotRefused
<1> HIDE DEF q
<1> DEFINE lim == LimitOf(q, door)
<1>5. lim \in Nat \ {0}
  BY <1>4, LimitIsPositive
<1>6. /\ axis \in LIST_ORDERS /\ (task.kind \in Sweeps => axis = "created")
      /\ task.cursor # NoCursor /\ task.kind \in Lists => ~CursorOrderMismatch(task.cursor, axis)
      /\ task.cursor = NoCursor => axis = WalkOrder(task.kind)
      /\ mint \in {"", "created", "updated"}
  BY <1>1, <1>3, <1>4 DEF LIST_ORDERS, DEFAULT_ORDER, Lists, Sweeps, WalkOrder
<1>7. page = Paginate(ShownRows, task.cursor, axis, lim, mint)
  BY <1>2
<1> HIDE DEF axis, mint, lim
<1>8. /\ IsListed(ShownRows) /\ ShownRows \subseteq RowsOf(D)
      /\ \A r \in ShownRows : r.id \in D /\ Born(r.id) /\ rows[r.id] = r
  BY TableIsListed DEF RowsOf
<1>9. /\ IsPage(page, ShownRows, task.cursor, axis, mint)
      /\ \E ts, id, o : page.next = CursorAt(ts, id, o)
  BY <1>5, <1>7, <1>8, PageOfList
<1>10. page.items \in Seq(ShownRows)
  BY <1>9 DEF IsPage, Beyond
<1>11. page.items \in Seq(RowsOf(D))
  BY <1>8, <1>10
<1> DEFINE ids == IdsOf(page)
<1>12. \A i \in DOMAIN page.items : page.items[i] \in ShownRows
  BY <1>10
<1>13. ids \in Seq(D) /\ DOMAIN ids = DOMAIN page.items
  BY <1>8, <1>10, <1>12
<1>14. \A i \in DOMAIN ids : ids[i] = page.items[i].id /\ rows[ids[i]] = page.items[i] /\ Born(ids[i])
  BY <1>8, <1>12
<1> HIDE DEF ids
<1>15. page.next \in Cursors
  <2> DEFINE nx == page.next
  <2>1. nx = NoCursor \/ \E r \in ShownRows : nx.ts = Key(r, axis).ts /\ nx.id = r.id /\ nx.order = mint
    BY <1>9 DEF IsPage, Beyond
  <2>2. \E ts, id, o : nx = CursorAt(ts, id, o)
    BY <1>9
  <2> HIDE DEF nx
  <2>3. CASE nx = NoCursor
    BY <2>3, CursorsAre DEF nx
  <2>4. ASSUME NEW r \in ShownRows, nx.ts = Key(r, axis).ts, nx.id = r.id, nx.order = mint
        PROVE  nx \in Cursors
    <3>1. Key(r, axis).ts \in Nat /\ r.id \in Nat
      BY <1>8 DEF Key, IsListed
    <3>2. PICK ts, id, o : nx = CursorAt(ts, id, o)
      BY <2>2
    <3>3. nx.ts = ts /\ nx.id = id /\ nx.order = o
      BY ONLY <3>2 DEF CursorAt
    <3>4. ts \in Nat /\ id \in Nat /\ o \in {"", "created", "updated"}
      BY ONLY <1>6, <2>4, <3>1, <3>3
    <3>5. CursorAt(ts, id, o) \in Cursors
      BY <3>4, CursorsAre
    <3> QED
      BY <3>2, <3>5
  <2> QED
    BY <2>1, <2>3, <2>4 DEF nx
<1>16. Turns(page, ids)
  BY <1>2 DEF ids
<1>17. PageRead(page, ids, axis)
  BY <1>1, <1>3, <1>6, <1>9, <1>11, <1>13, <1>14, <1>15, <1>16 DEF PageRead, Turns, mint
<1> QED
  BY <1>17

\* The newest stamp of a page, or the one known before it.
LEMMA TopIsNewest ==
  ASSUME NEW docs, NEW items \in Seq(RowsOf(docs)), NEW top \in Nat, NEW m,
         m = Max({top} \union {items[i].updated : i \in DOMAIN items})
  PROVE  /\ m \in Nat /\ top <= m
         /\ \A i \in DOMAIN items : items[i].updated \in Nat /\ items[i].updated <= m
         /\ m \in {top} \union {items[i].updated : i \in DOMAIN items}
<1> DEFINE U == {items[i].updated : i \in DOMAIN items}
           S == {top} \union U
<1>1. /\ DOMAIN items = 1..Len(items) /\ Len(items) \in Nat
      /\ \A i \in DOMAIN items : items[i].updated \in Nat
  <2>1. DOMAIN items = 1..Len(items) /\ Len(items) \in Nat
    OBVIOUS
  <2>2. \A i \in DOMAIN items : items[i] \in RowsOf(docs)
    OBVIOUS
  <2>3. \A r \in RowsOf(docs) : r.updated \in Nat
    BY DEF RowsOf
  <2> QED
    BY <2>1, <2>2, <2>3
<1>2. IsFiniteSet(U)
  <2>1. [i \in DOMAIN items |-> items[i].updated] \in Surjection(DOMAIN items, U)
    BY DEF Surjection
  <2>2. IsFiniteSet(DOMAIN items)
    BY <1>1, FS_Interval
  <2> HIDE DEF U
  <2> QED
    BY <2>1, <2>2, FS_Surjection
<1>3. S \subseteq Nat /\ top \in S
  BY <1>1
<1>4. IsFiniteSet(S)
  <2> HIDE DEF U
  <2> QED
    BY <1>2, FS_Union, FS_Singleton
<1> HIDE DEF S
<1>5. m \in S /\ \A k \in S : k <= m
  BY <1>3, <1>4, GreatestOf DEF S
<1>6. \A i \in DOMAIN items : items[i].updated \in S
  BY DEF S
<1>7. m \in {top} \union {items[i].updated : i \in DOMAIN items}
  BY <1>5 DEF S
<1> QED
  BY <1>1, <1>3, <1>5, <1>6, <1>7

\* A leg ranks what it may.
LEMMA RankingsAre ==
  ASSUME NEW docs, IsFiniteSet(docs), NEW ranking \in Rankings(docs)
  PROVE  ranking \in Seq(docs) /\ ToSet(ranking) \subseteq docs
<1>1. PICK S \in SUBSET docs : ranking \in SetToSeqs(S)
  BY DEF Rankings
<1>2. Cardinality(S) \in Nat
  BY FS_Subset, FS_CardinalityType
<1>3. ranking \in [1..Cardinality(S) -> S]
  BY <1>1 DEF SetToSeqs
<1> QED
  BY <1>2, <1>3 DEF ToSet

LEMMA NoTaskIsTyped ==
  ASSUME NEW docs
  PROVE  /\ NoTask \in TasksOf(docs) /\ NoTask.at = "" /\ NoTask.kind = "none"
         /\ InPhase("none", NoTask.at) /\ AnyRow \in Filters
<1>1. NoCursor \in Cursors /\ AnyRow \in Filters
  BY CursorsAre DEF AnyRow, Filters
<1>2. <<>> \in Seq(docs) /\ <<>> \in Seq(RowsOf(docs))
  OBVIOUS
<1>3. InPhase("none", "")
  BY DEF InPhase, Lists, Sweeps, Modes
<1> QED
  BY <1>1, <1>2, <1>3 DEF NoTask, TasksOf

TaskTyped ==
  /\ task \in TasksOf(budget.docs)
  /\ InPhase(task.kind, task.at)
  /\ task.at = "write" => task.todo # <<>>

LEMMA TaskStaysTyped ==
  ASSUME Typed, [Next]_vars
  PROVE  TaskTyped'
<1> DEFINE D == budget.docs
           T == TasksOf(D)
<1>0. /\ budget'.docs = D /\ task \in T /\ InPhase(task.kind, task.at)
      /\ task.at = "write" => task.todo # <<>>
      /\ IsFiniteSet(D)
  BY BoundsStay DEF Typed, SameBounds, ReadersTyped, IsBudget
<1>1. ASSUME task' \in T, InPhase(task'.kind, task'.at), task'.at # "write"
      PROVE  TaskTyped'
  BY <1>0, <1>1 DEF TaskTyped
<1>2. CASE UNCHANGED task
  BY <1>0, <1>2 DEF TaskTyped
<1>3. CASE task' = NoTask
  BY <1>1, <1>3, NoTaskIsTyped
<1>4. ASSUME NEW d \in D, NEW row \in RowsOf(D), Rewrites(d, row) PROVE TaskTyped'
  <2>1. task' = [task EXCEPT !.steady = StillSteady(d, row)] /\ StillSteady(d, row) \in SUBSET task.steady
    BY <1>4 DEF Rewrites, StillSteady
  <2>2. StillSteady(d, row) \in SUBSET D
    BY <1>0, <2>1 DEF TasksOf
  <2>3. task' \in T /\ task'.at = task.at /\ task'.kind = task.kind /\ task'.todo = task.todo
    BY <1>0, <2>1, <2>2 DEF TasksOf
  <2> QED
    BY <1>0, <2>3 DEF TaskTyped
<1>5. ASSUME NEW kind \in Lists \union Sweeps, NEW filter \in Filters, StartWalk(kind, filter)
      PROVE  TaskTyped'
  <2> DEFINE steady == {d \in D : Born(d) /\ Shown(rows[d], kind, filter)}
  <2>1. task' = [NoTask EXCEPT !.kind = kind, !.at = "page", !.filter = filter, !.steady = steady]
        /\ steady \in SUBSET D
    BY <1>5 DEF StartWalk
  <2> HIDE DEF steady
  <2>2. task' \in T /\ task'.at = "page" /\ task'.kind = kind
    BY <2>1, NoTaskIsTyped DEF TasksOf
  <2>3. InPhase(kind, "page")
    BY DEF InPhase, Lists, Sweeps
  <2> QED
    BY <1>1, <2>2, <2>3
<1>6. ASSUME NEW order, NEW limit, NEW door, ReadPage(order, limit, door) PROVE TaskTyped'
  <2>1. PICK page, ids, axis : PageRead(page, ids, axis)
    BY <1>6, ReadingIsPaging
  <2> DEFINE items == page.items
             nx == page.next
             todo == IF task.kind \in Sweeps THEN items ELSE <<>>
             at == CASE task.kind = "missing" -> "probe"
                     [] task.kind \in {"rebuild", "links"} -> "row"
                     [] task.kind \in Lists /\ page.next # NoCursor -> "page"
                     [] OTHER -> "done"
             seen == task.seen \o ids
  <2>2. task' = [task EXCEPT !.seen = seen, !.cursor = nx, !.todo = todo, !.at = at]
    BY <2>1, <1>0 DEF PageRead, TasksOf
  <2>3. nx \in Cursors /\ items \in Seq(RowsOf(D)) /\ ids \in Seq(D) /\ task.kind \in Lists \union Sweeps
    BY <2>1 DEF PageRead
  <2>4. at \in {"probe", "row", "page", "done"} /\ InPhase(task.kind, at)
    BY <2>3 DEF InPhase, Lists, Sweeps
  <2>5. todo \in Seq(RowsOf(D)) /\ seen \in Seq(D)
    <3>1. task.seen \in Seq(D) /\ ids \in Seq(D)
      BY <1>0, <2>3 DEF TasksOf
    <3>2. seen \in Seq(D)
      BY <3>1, ConcatProperties
    <3>3. todo \in Seq(RowsOf(D))
      <4>1. <<>> \in Seq(RowsOf(D))
        OBVIOUS
      <4> HIDE DEF items
      <4> QED
        BY <2>3, <4>1 DEF items
    <3> QED
      BY <3>2, <3>3
  <2> HIDE DEF items, nx, todo, at, seen
  <2>6. task' \in T /\ task'.at = at /\ task'.kind = task.kind
    BY <1>0, <2>2, <2>3, <2>4, <2>5 DEF TasksOf
  <2> QED
    BY <1>1, <2>4, <2>6
<1>7. CASE Probe
  <2> DEFINE todo == Kept(task.todo, {r \in ToSet(task.todo) : IsMissing(r)})
  <2>1. todo \in Seq(RowsOf(D))
    BY <1>0, KeptIsOfList DEF TasksOf
  <2>2. task' = [task EXCEPT !.at = "row", !.todo = todo] /\ task.at = "probe"
    BY <1>0, <1>7 DEF Probe, TasksOf
  <2> HIDE DEF todo
  <2>3. task' \in T /\ task'.at = "row" /\ task'.kind = task.kind
    BY <1>0, <2>1, <2>2 DEF TasksOf
  <2>4. InPhase(task.kind, "row")
    BY <1>0, <2>2 DEF InPhase, Lists, Sweeps, Modes
  <2> QED
    BY <1>1, <2>3, <2>4
<1>8. ASSUME task.todo # <<>>
      PROVE  Tail(task.todo) \in Seq(RowsOf(D))
  <2>1. task.todo \in Seq(RowsOf(D))
    BY <1>0 DEF TasksOf
  <2> QED
    BY <1>8, <2>1, HeadTailProperties
<1>9. CASE SyncRow
  <2>1. /\ task' = [task EXCEPT !.at = "sync", !.todo = Tail(task.todo)]
        /\ task.kind \in {"missing", "rebuild"} /\ Tail(task.todo) \in Seq(RowsOf(D))
    BY <1>0, <1>8, <1>9 DEF SyncRow, TasksOf
  <2>2. task' \in T /\ task'.at = "sync" /\ task'.kind = task.kind
    BY <1>0, <2>1 DEF TasksOf
  <2>3. InPhase(task.kind, "sync")
    BY <2>1 DEF InPhase, Lists
  <2> QED
    BY <1>1, <2>2, <2>3
<1>10. CASE RowSynced
  <2>1. task' = [task EXCEPT !.at = "row"] /\ task.at = "sync"
    BY <1>10 DEF RowSynced
  <2>2. task' \in T /\ task'.at = "row" /\ task'.kind = task.kind
    BY <1>0, <2>1 DEF TasksOf
  <2>3. InPhase(task.kind, "row")
    BY <1>0, <2>1 DEF InPhase, Lists, Sweeps, Modes
  <2> QED
    BY <1>1, <2>2, <2>3
<1>11. CASE GetRender
  <2>1. task.kind = "links" /\ task.at = "row" /\ task.todo # <<>>
    BY <1>11 DEF GetRender
  <2>2. CASE task' = [task EXCEPT !.at = "write"]
    <3>1. task' \in T /\ task'.at = "write" /\ task'.kind = "links" /\ task'.todo # <<>>
      BY <1>0, <2>1, <2>2 DEF TasksOf
    <3>2. InPhase("links", "write")
      BY DEF InPhase, Lists
    <3> QED
      BY <1>0, <3>1, <3>2 DEF TaskTyped
  <2>3. CASE task' = [task EXCEPT !.todo = Tail(task.todo)]
    <3>1. task' \in T /\ task'.at = task.at /\ task'.kind = task.kind
      BY <1>0, <1>8, <2>1, <2>3 DEF TasksOf
    <3> QED
      BY <1>0, <1>1, <2>1, <3>1
  <2> QED
    BY <1>0, <1>11, <2>2, <2>3 DEF GetRender, TasksOf
<1>12. CASE WriteLinks
  <2>1. task' = [task EXCEPT !.at = "row", !.todo = Tail(task.todo)] /\ task.at = "write"
    BY <1>0, <1>12 DEF WriteLinks, TasksOf
  <2>2. task' \in T /\ task'.at = "row" /\ task'.kind = task.kind
    BY <1>0, <1>8, <2>1 DEF TasksOf
  <2>3. InPhase(task.kind, "row")
    BY <1>0, <2>1 DEF InPhase, Lists, Sweeps, Modes
  <2> QED
    BY <1>1, <2>2, <2>3
<1>13. CASE EndPage
  <2> DEFINE at == IF task.cursor = NoCursor THEN "done" ELSE "page"
  <2>1. task' = [task EXCEPT !.at = at] /\ task.kind \in Sweeps /\ at \in {"done", "page"}
    BY <1>13 DEF EndPage
  <2> HIDE DEF at
  <2>2. task' \in T /\ task'.at = at /\ task'.kind = task.kind
    BY <1>0, <2>1 DEF TasksOf
  <2>3. InPhase(task.kind, at)
    BY <2>1 DEF InPhase, Lists, Sweeps
  <2> QED
    BY <1>1, <2>1, <2>2, <2>3
<1>14. CASE EndWalk \/ Abandon \/ EndSearch
  BY <1>3, <1>14 DEF EndWalk, Abandon, EndSearch
<1>15. ASSUME NEW mode \in Modes, NEW tokens \in BOOLEAN, NEW status \in {"", "active"},
              StartSearch(mode, tokens, status)
       PROVE  TaskTyped'
  <2> DEFINE filter == [AnyRow EXCEPT !.status = status]
             dead == {d \in DOMAIN rows : rows[d].life = "revoked"}
             at == IF mode = "keyword" THEN "fts" ELSE "embedQuery"
  <2>1. task' = [NoTask EXCEPT !.kind = mode, !.tokens = tokens, !.filter = filter, !.at = at, !.dead = dead]
    BY <1>15 DEF StartSearch
  <2>2. filter \in Filters
    BY DEF AnyRow, Filters
  <2>3. dead \in SUBSET D
    BY DEF Typed, RowsTyped
  <2>4. at \in {"fts", "embedQuery"}
    OBVIOUS
  <2> HIDE DEF filter, dead, at
  <2>5. task' \in T /\ task'.at = at /\ task'.kind = mode
    BY <2>1, <2>2, <2>3, <2>4, NoTaskIsTyped DEF TasksOf
  <2>6. InPhase(mode, at)
    BY <2>4 DEF InPhase, Lists, Modes
  <2> QED
    BY <1>1, <2>4, <2>5, <2>6
<1>16. ASSUME NEW ok \in BOOLEAN, EmbedQuery(ok) PROVE TaskTyped'
  <2> DEFINE at == IF task.tokens /\ (task.kind = "hybrid" \/ ~ok) THEN "fts" ELSE "query"
  <2>1. task' = NoTask \/ task' = [task EXCEPT !.embedded = ok, !.at = at]
    BY <1>16 DEF EmbedQuery
  <2>2. at \in {"fts", "query"} /\ task.at = "embedQuery"
    BY <1>16 DEF EmbedQuery
  <2> HIDE DEF at
  <2>3. CASE task' = [task EXCEPT !.embedded = ok, !.at = at]
    <3>1. task' \in T /\ task'.at = at /\ task'.kind = task.kind
      BY <1>0, <2>2, <2>3 DEF TasksOf
    <3>2. InPhase(task.kind, at)
      BY <1>0, <2>2 DEF InPhase, Lists, Sweeps, Modes
    <3> QED
      BY <1>1, <2>2, <3>1, <3>2
  <2> QED
    BY <1>3, <2>1, <2>3
<1>17. CASE SearchText
  <2> DEFINE E == {d \in D : Eligible(d)}
             at == IF task.embedded THEN "query" ELSE "answer"
  <2>1. PICK ranking \in Rankings(E) :
          task' = [task EXCEPT !.fts = ranking, !.deprecated = Deprecated(ToSet(ranking)), !.at = at]
    BY <1>17 DEF SearchText
  <2>2. IsFiniteSet(E) /\ E \subseteq D
    BY <1>0, FS_Subset
  <2>3. ranking \in Seq(E) /\ ToSet(ranking) \subseteq E
    BY <2>2, RankingsAre
  <2>4. ranking \in Seq(D) /\ Deprecated(ToSet(ranking)) \in SUBSET D
    BY <2>2, <2>3 DEF Deprecated
  <2>5. at \in {"query", "answer"} /\ task.at = "fts"
    BY <1>17 DEF SearchText
  <2> HIDE DEF at
  <2>6. task' \in T /\ task'.at = at /\ task'.kind = task.kind
    BY <1>0, <2>1, <2>4, <2>5 DEF TasksOf
  <2>7. InPhase(task.kind, at)
    BY <1>0, <2>5 DEF InPhase, Lists, Sweeps, Modes
  <2> QED
    BY <1>1, <2>5, <2>6, <2>7
<1>18. CASE QueryVectors
  <2> DEFINE E == {d \in D : \E i \in Slots : vectors[<<d, i>>] # 0}
  <2>1. PICK ranking \in Rankings(E) : task' = [task EXCEPT !.vec = ranking, !.at = "rejoin"]
    BY <1>18 DEF QueryVectors
  <2>2. IsFiniteSet(E) /\ E \subseteq D
    BY <1>0, FS_Subset
  <2> HIDE DEF E
  <2>3. ranking \in Seq(D)
    BY <2>2, RankingsAre
  <2>4. task' \in T /\ task'.at = "rejoin" /\ task'.kind = task.kind
    BY <1>0, <2>1, <2>3 DEF TasksOf
  <2>5. InPhase(task.kind, "rejoin")
    BY <1>0, <1>18 DEF QueryVectors, InPhase, Lists, Sweeps, Modes
  <2> QED
    BY <1>1, <2>4, <2>5
<1>19. CASE QueryFails
  <2>1. task' = [task EXCEPT !.at = "answer"] /\ task.at = "query"
    BY <1>19 DEF QueryFails
  <2>2. task' \in T /\ task'.at = "answer" /\ task'.kind = task.kind
    BY <1>0, <2>1 DEF TasksOf
  <2>3. InPhase(task.kind, "answer")
    BY <1>0, <2>1 DEF InPhase, Lists, Sweeps, Modes
  <2> QED
    BY <1>1, <2>2, <2>3
<1>20. CASE Rejoin
  <2> DEFINE vec == Kept(task.vec, {d \in ToSet(task.vec) : Eligible(d)})
             deprecated == task.deprecated \union Deprecated(ToSet(task.vec) \ ToSet(task.fts))
  <2>1. task' = [task EXCEPT !.vec = vec, !.at = "answer", !.deprecated = deprecated] /\ task.at = "rejoin"
    BY <1>0, <1>20 DEF Rejoin, TasksOf
  <2>2. vec \in Seq(D)
    BY <1>0, KeptIsOfList DEF TasksOf
  <2>3. deprecated \in SUBSET D
    <3>1. task.vec \in Seq(D) /\ task.deprecated \subseteq D
      BY <1>0 DEF TasksOf
    <3>2. ToSet(task.vec) \subseteq D
      BY <3>1 DEF ToSet
    <3> QED
      BY <3>1, <3>2 DEF Deprecated
  <2> HIDE DEF vec, deprecated
  <2>4. task' \in T /\ task'.at = "answer" /\ task'.kind = task.kind
    BY <1>0, <2>1, <2>2, <2>3 DEF TasksOf
  <2>5. InPhase(task.kind, "answer")
    BY <1>0, <2>1 DEF InPhase, Lists, Sweeps, Modes
  <2> QED
    BY <1>1, <2>4, <2>5
<1>21. CASE Walks
  <2>1. AnyRow \in Filters /\ Sweeps \subseteq Lists \union Sweeps
    BY NoTaskIsTyped
  <2>2. \A pub \in {"", "pending"} : [AnyRow EXCEPT !.publication = pub] \in Filters
    BY DEF AnyRow, Filters
  <2>3. [AnyRow EXCEPT !.since = feed.since] \in Filters
    BY DEF AnyRow, Filters, Typed, ReadersTyped
  <2>4. {"created", "updated", "feed"} \subseteq Lists \union Sweeps
    BY DEF Lists
  <2> QED
    BY <1>5, <1>6, <1>7, <1>9, <1>10, <1>11, <1>12, <1>13, <1>14, <1>21, <2>1, <2>2, <2>3, <2>4 DEF Walks
<1>22. CASE Searches
  BY <1>14, <1>15, <1>16, <1>17, <1>18, <1>19, <1>20, <1>22 DEF Searches
<1> QED
  BY <1>2, <1>4, <1>14, <1>21, <1>22, StepsAre DEF Ticks, Quiet, Reads

LEMMA ReadersStayTyped ==
  ASSUME Typed, [Next]_vars
  PROVE  ReadersTyped'
<1> DEFINE D == budget.docs
           F == [since : Nat, top : Nat, known : [D -> RowsOf(D)]]
<1>0. budget'.docs = D /\ feed \in F
  BY BoundsStay DEF Typed, SameBounds, ReadersTyped
<1>1. CASE UNCHANGED feed
  BY <1>0, <1>1, TaskStaysTyped DEF TaskTyped, ReadersTyped
<1>2. ASSUME feed' \in F PROVE ReadersTyped'
  BY <1>0, <1>2, TaskStaysTyped DEF TaskTyped, ReadersTyped
<1>3. ASSUME NEW order, NEW limit, NEW door, ReadPage(order, limit, door) PROVE ReadersTyped'
  <2>1. PICK page, ids, axis : PageRead(page, ids, axis)
    BY <1>3, ReadingIsPaging
  <2>2. CASE task.kind # "feed"
    BY <1>1, <2>1, <2>2 DEF PageRead
  <2>3. CASE task.kind = "feed"
    <3> DEFINE known == [d \in D |-> IF d \in ToSet(ids) THEN rows[d] ELSE feed.known[d]]
               top == Max({feed.top} \union {page.items[i].updated : i \in DOMAIN page.items})
    <3>1. feed' = [feed EXCEPT !.known = known, !.top = top]
      BY <1>0, <2>1, <2>3 DEF PageRead
    <3>2. known \in [D -> RowsOf(D)]
      BY <1>0 DEF Typed, RowsTyped
    <3>3. page.items \in Seq(RowsOf(D)) /\ feed.top \in Nat
      BY <1>0, <2>1 DEF PageRead
    <3>4. top \in Nat
      BY <3>3, TopIsNewest
    <3> HIDE DEF known, top
    <3>5. feed' \in F
      BY <1>0, <3>1, <3>2, <3>4
    <3> QED
      BY <1>2, <3>5
  <2> QED
    BY <2>2, <2>3
<1>4. CASE EndWalk
  <2>1. feed' \in F
    BY <1>0, <1>4 DEF EndWalk, ResumeAt
  <2> QED
    BY <1>2, <2>1
<1>5. CASE Walks
  BY <1>1, <1>3, <1>4, <1>5 DEF Walks, StartWalk, Probe, SyncRow, RowSynced, GetRender, WriteLinks, EndPage
<1>6. CASE Abandon \/ Searches
  BY <1>1, <1>6 DEF Abandon, Searches, StartSearch, EmbedQuery, SearchText, QueryVectors,
     QueryFails, Rejoin, EndSearch
<1> QED
  BY <1>1, <1>5, <1>6, StepsAre DEF Ticks, Quiet, Reads, Rewrites

-----------------------------------------------------------------------------
(* At the start.                                                           *)

\* The clock has reached every stamp that is there.
LEMMA ClockAtStart ==
  ASSUME NEW b, IsBudget(b), NEW now, now = Max({1} \union {b.born[d] : d \in DOMAIN b.born})
  PROVE  /\ now \in Nat \ {0}
         /\ \A d \in DOMAIN b.born : b.born[d] \in Nat \ {0} /\ b.born[d] <= now
<1> DEFINE B == DOMAIN b.born
           U == {b.born[d] : d \in B}
           S == {1} \union U
<1>1. b.born \in [B -> Nat \ {0}] /\ B \subseteq b.docs /\ IsFiniteSet(b.docs)
  BY DEF IsBudget
<1>2. IsFiniteSet(B)
  BY <1>1, FS_Subset
<1>3. IsFiniteSet(U)
  <2>1. b.born \in Surjection(B, U)
    BY <1>1 DEF Surjection
  <2> HIDE DEF U, B
  <2> QED
    BY <1>2, <2>1, FS_Surjection
<1>4. S \subseteq Nat \ {0} /\ 1 \in S
  BY <1>1
<1>5. IsFiniteSet(S)
  <2> HIDE DEF U
  <2> QED
    BY <1>3, FS_Union, FS_Singleton
<1>6. \A d \in B : b.born[d] \in S
  OBVIOUS
<1> HIDE DEF S
<1>7. now \in S /\ \A k \in S : k <= now
  BY <1>4, <1>5, GreatestOf DEF S
<1> QED
  BY <1>4, <1>6, <1>7

Newborn(d, now) ==
  [Unborn(d) EXCEPT !.life = "live", !.created = now, !.updated = now, !.ver = 1, !.chunks = 1]

LEMMA UnbornIsRow ==
  ASSUME NEW docs, NEW d \in docs, NEW now \in Nat
  PROVE  /\ Unborn(d) \in RowsOf(docs) /\ Unborn(d).id = d /\ Unborn(d).life = "unborn"
         /\ Unborn(d).created = 0 /\ Unborn(d).updated = 0
         /\ Newborn(d, now) \in RowsOf(docs) /\ Newborn(d, now).id = d
         /\ Newborn(d, now).created = now /\ Newborn(d, now).updated = now
<1>1. 0 \in 0..MAX_CHUNKS /\ 1 \in 0..MAX_CHUNKS
  BY SearchIndexAssumption
<1> QED
  BY <1>1 DEF Unborn, Newborn, RowsOf

LEMMA TypedAtStart ==
  ASSUME Init
  PROVE  Typed
<1>1. PICK b \in Budgets :
        /\ budget = b
        /\ rows = [d \in b.docs |-> IF d \notin DOMAIN b.born THEN Unborn(d) ELSE
             [Unborn(d) EXCEPT !.life = "live", !.created = b.born[d],
                            !.updated = b.born[d], !.ver = 1, !.chunks = 1]]
        /\ links = [d \in b.docs |-> rows[d].ver]
        /\ vectors = [v \in b.docs \X Slots |-> 0]
        /\ feed = [since |-> 0, top |-> 0, known |-> [d \in b.docs |-> Unborn(d)]]
        /\ clock = Max({1} \union {b.born[d] : d \in DOMAIN b.born})
  BY DEF Init
<1> DEFINE D == b.docs
<1>2. IsBudget(b) /\ budget.docs = D
  BY <1>1, SearchIndexAssumption
<1>3. clock \in Nat \ {0} /\ \A d \in DOMAIN b.born : b.born[d] \in Nat \ {0} /\ b.born[d] <= clock
  BY <1>1, <1>2, ClockAtStart
<1>4. ASSUME NEW d \in D
      PROVE  /\ rows[d] \in RowsOf(D) /\ rows[d].id = d
             /\ rows[d].created <= clock /\ rows[d].updated <= clock
             /\ rows[d].life # "unborn" => rows[d].created # 0 /\ rows[d].updated # 0
  <2>1. CASE d \notin DOMAIN b.born
    <3>1. rows[d] = Unborn(d)
      BY <1>1, <2>1
    <3>2. Unborn(d) \in RowsOf(D) /\ Unborn(d).id = d /\ Unborn(d).life = "unborn"
          /\ Unborn(d).created = 0 /\ Unborn(d).updated = 0
      BY <1>3, UnbornIsRow
    <3> QED
      BY <1>3, <3>1, <3>2
  <2>2. CASE d \in DOMAIN b.born
    <3> DEFINE now == b.born[d]
    <3>1. rows[d] = Newborn(d, now) /\ now \in Nat \ {0} /\ now <= clock
      BY <1>1, <1>3, <2>2 DEF Newborn
    <3> HIDE DEF now
    <3>2. /\ Newborn(d, now) \in RowsOf(D) /\ Newborn(d, now).id = d
          /\ Newborn(d, now).created = now /\ Newborn(d, now).updated = now
      BY <3>1, UnbornIsRow
    <3> QED
      BY <1>3, <3>1, <3>2
  <2> QED
    BY <2>1, <2>2
<1>5. rows \in [D -> RowsOf(D)]
  <2>1. DOMAIN rows = D /\ rows = [d \in D |-> rows[d]]
    BY <1>1
  <2> QED
    BY <1>4, <2>1
<1>6. RowsStamped
  BY <1>2, <1>4 DEF RowsStamped, Born
<1>7. links \in [D -> Nat]
  <2>1. \A d \in D : rows[d].ver \in Nat
    BY <1>4 DEF RowsOf
  <2> QED
    BY <1>1, <2>1
<1>8. RowsTyped
  BY <1>2, <1>3, <1>5, <1>6, <1>7 DEF RowsTyped
<1>9. IndexTyped
  <2>1. vectors \in [D \X Slots -> Nat]
    BY <1>1
  <2>2. pending = <<>> /\ jobs = {}
    BY DEF Init
  <2> QED
    BY <1>2, <2>1, <2>2, SearchIndexAssumption DEF IndexTyped
<1>10. ReadersTyped
  <2>1. task = NoTask
    BY DEF Init
  <2>2. \A d \in D : Unborn(d) \in RowsOf(D)
    BY <1>3, UnbornIsRow
  <2>3. feed \in [since : Nat, top : Nat, known : [D -> RowsOf(D)]]
    BY <1>1, <2>2
  <2> QED
    BY <1>2, <2>1, <2>3, NoTaskIsTyped DEF ReadersTyped
<1> QED
  BY <1>1, <1>2, <1>8, <1>9, <1>10 DEF Typed

LEMMA TypedStays ==
  ASSUME Typed, [Next]_vars
  PROVE  Typed'
BY BoundsStay, RowsStayTyped, IndexStaysTyped, ReadersStayTyped DEF Typed, SameBounds

\* The types hold, whatever the bounds of the behaviour: no index mutation is
\* accepted over the bound, no row is stamped ahead of the clock, and every job
\* and vector is some document's.
THEOREM SearchIsTyped ==
  Spec => []TypeOK
<1>1. Init => Typed
  BY TypedAtStart
<1>2. Typed /\ [Next]_vars => Typed'
  BY TypedStays
<1>3. Typed => TypeOK
  BY TypedIsTypeOK
<1> QED
  BY <1>1, <1>2, <1>3, PTL DEF Spec

-----------------------------------------------------------------------------
(* The gate of a search.                                                   *)

\* A query's dead stay dead, and no leg that passed its gate names one of them;
\* the hits of the index have yet to pass it when they are about to be rejoined.
Screened ==
  task.kind \in Modes =>
    /\ \A d \in task.dead : rows[d].life = "revoked"
    /\ ToSet(task.fts) \cap task.dead = {}
    /\ task.at # "rejoin" => ToSet(task.vec) \cap task.dead = {}

LEMMA LivingAreNotDead ==
  ASSUME NEW S, \A d \in S : Eligible(d), NEW dead, \A d \in dead : rows[d].life = "revoked"
  PROVE  S \cap dead = {}
BY DEF Eligible, Live

LEMMA ScreenedStays ==
  ASSUME Typed, Screened, [Next]_vars
  PROVE  Screened'
<1> DEFINE D == budget.docs
           T == TasksOf(D)
<1>0. /\ task \in T /\ InPhase(task.kind, task.at) /\ IsFiniteSet(D)
      /\ Modes \cap (Lists \union Sweeps \union {"none"}) = {}
      /\ rows \in [D -> RowsOf(D)]
  BY DEF Typed, RowsTyped, ReadersTyped, IsBudget, Lists, Sweeps, Modes
<1>1. ASSUME NEW d \in D, NEW row \in RowsOf(D), Rewrites(d, row) PROVE Screened'
  <2>1. /\ task'.kind = task.kind /\ task'.at = task.at /\ task'.dead = task.dead
        /\ task'.fts = task.fts /\ task'.vec = task.vec
    BY <1>0, <1>1 DEF Rewrites, TasksOf
  <2>2. \A e \in D : rows[e].life = "revoked" => rows'[e].life = "revoked"
    BY <1>0, <1>1 DEF Rewrites
  <2>3. task.dead \subseteq D
    BY <1>0 DEF TasksOf
  <2> QED
    BY <2>1, <2>2, <2>3 DEF Screened
<1>2. CASE UNCHANGED <<rows, task>>
  BY <1>2 DEF Screened
<1>3. ASSUME UNCHANGED rows, task'.kind \notin Modes PROVE Screened'
  BY <1>3 DEF Screened
<1>4. CASE task' = NoTask
  BY <1>4 DEF NoTask, Screened, Modes
<1>5. CASE Walks /\ UNCHANGED rows
  <2>1. ASSUME NEW kind \in Lists \union Sweeps, NEW filter, StartWalk(kind, filter) PROVE Screened'
    <3>1. task'.kind = kind
      BY <2>1 DEF StartWalk, NoTask
    <3> QED
      BY <1>0, <1>3, <1>5, <3>1
  <2>2. ASSUME NEW order, NEW limit, NEW door, ReadPage(order, limit, door) PROVE Screened'
    <3>1. PICK page, ids, axis : PageRead(page, ids, axis)
      BY <2>2, ReadingIsPaging
    <3>2. task.kind \in Lists \union Sweeps /\ task'.kind = task.kind
      BY <1>0, <3>1 DEF PageRead, TasksOf
    <3> QED
      BY <1>0, <1>3, <1>5, <3>2
  <2>3. CASE Probe \/ SyncRow \/ RowSynced \/ GetRender \/ WriteLinks \/ EndPage
    <3>1. task'.kind = task.kind
      BY <1>0, <2>3 DEF Probe, SyncRow, RowSynced, GetRender, WriteLinks, EndPage, TasksOf
    <3>2. task.at \in {"probe", "row", "sync", "write"}
      BY <2>3 DEF Probe, SyncRow, RowSynced, GetRender, WriteLinks, EndPage
    <3>3. task.kind \notin Modes
      BY <1>0, <3>2 DEF InPhase, Lists, Sweeps, Modes
    <3> QED
      BY <1>3, <1>5, <3>1, <3>3
  <2>4. CASE EndWalk
    BY <1>4, <2>4 DEF EndWalk
  <2>5. Sweeps \subseteq Lists \union Sweeps /\ {"created", "updated", "feed"} \subseteq Lists \union Sweeps
    BY DEF Lists
  <2> QED
    BY <1>5, <2>1, <2>2, <2>3, <2>4, <2>5 DEF Walks
<1>6. CASE Abandon \/ EndSearch
  BY <1>4, <1>6 DEF Abandon, EndSearch
<1>7. ASSUME NEW mode, NEW tokens, NEW status, StartSearch(mode, tokens, status) PROVE Screened'
  <2>1. /\ rows' = rows /\ task'.dead = {d \in DOMAIN rows : rows[d].life = "revoked"}
        /\ task'.fts = <<>> /\ task'.vec = <<>>
    BY <1>7 DEF StartSearch, NoTask, corpus
  <2>2. ToSet(<<>>) = {}
    BY DEF ToSet
  <2> QED
    BY <2>1, <2>2 DEF Screened
<1>8. ASSUME UNCHANGED rows, task.at # "rejoin",
             task'.kind = task.kind, task'.dead = task.dead, task'.fts = task.fts, task'.vec = task.vec
      PROVE  Screened'
  BY <1>8 DEF Screened
<1>9. ASSUME NEW ok, EmbedQuery(ok) PROVE Screened'
  <2>1. CASE task' = NoTask
    BY <1>4, <2>1
  <2>2. CASE task' # NoTask
    <3>1. /\ rows' = rows /\ task.at = "embedQuery" /\ task'.kind = task.kind
          /\ task'.dead = task.dead /\ task'.fts = task.fts /\ task'.vec = task.vec
      BY <1>0, <1>9, <2>2 DEF EmbedQuery, TasksOf, corpus
    <3> QED
      BY <1>8, <3>1
  <2> QED
    BY <2>1, <2>2
<1>10. CASE QueryFails
  <2>1. /\ rows' = rows /\ task.at = "query" /\ task'.kind = task.kind
        /\ task'.dead = task.dead /\ task'.fts = task.fts /\ task'.vec = task.vec
    BY <1>0, <1>10 DEF QueryFails, TasksOf, corpus
  <2> QED
    BY <1>8, <2>1
<1>11. CASE SearchText
  <2> DEFINE E == {d \in D : Eligible(d)}
  <2>1. PICK ranking \in Rankings(E) :
          task' = [task EXCEPT !.fts = ranking, !.deprecated = Deprecated(ToSet(ranking)),
                     !.at = IF task.embedded THEN "query" ELSE "answer"]
    BY <1>11 DEF SearchText
  <2>2. IsFiniteSet(E)
    BY <1>0, FS_Subset
  <2>3. \A d \in ToSet(ranking) : Eligible(d)
    <3>1. ToSet(ranking) \subseteq E
      BY <2>2, RankingsAre
    <3> QED
      BY <3>1
  <2>4. /\ rows' = rows /\ task.at = "fts" /\ task'.kind = task.kind
        /\ task'.dead = task.dead /\ task'.fts = ranking /\ task'.vec = task.vec
    BY <1>0, <1>11, <2>1 DEF SearchText, TasksOf, corpus
  <2> HIDE DEF E
  <2> QED
    BY <2>3, <2>4, LivingAreNotDead DEF Screened
<1>12. CASE QueryVectors
  <2>1. /\ rows' = rows /\ task'.at = "rejoin" /\ task'.kind = task.kind
        /\ task'.dead = task.dead /\ task'.fts = task.fts
    BY <1>0, <1>12 DEF QueryVectors, TasksOf, corpus
  <2> QED
    BY <2>1 DEF Screened
<1>13. CASE Rejoin
  <2> DEFINE E == {d \in ToSet(task.vec) : Eligible(d)}
             vec == Kept(task.vec, E)
  <2>1. /\ rows' = rows /\ task'.kind = task.kind
        /\ task'.dead = task.dead /\ task'.fts = task.fts /\ task'.vec = vec
    BY <1>0, <1>13 DEF Rejoin, TasksOf, corpus
  <2>2. \A i \in DOMAIN vec : vec[i] \in E
    <3>1. task.vec \in Seq(D)
      BY <1>0 DEF TasksOf
    <3> HIDE DEF E
    <3> QED
      BY <3>1, KeptIsOfList
  <2>3. \A d \in ToSet(vec) : Eligible(d)
    BY <2>2 DEF ToSet
  <2> HIDE DEF vec, E
  <2> QED
    BY <2>1, <2>3, LivingAreNotDead DEF Screened
<1>14. CASE Searches
  BY <1>6, <1>7, <1>9, <1>10, <1>11, <1>12, <1>13, <1>14 DEF Searches
<1> QED
  BY <1>1, <1>2, <1>5, <1>6, <1>14, StepsAre DEF Ticks, Quiet, Reads

\* The gate holds to the answer: both legs passed it, and fusing adds nothing.
LEMMA ScreenedIsEnough ==
  ASSUME Typed, Screened
  PROVE  RevokedNeverSurface
<1> SUFFICES ASSUME task.at = "answer", NEW limit \in 1..MAX_LIMIT
             PROVE  ToSet(Answer(limit)) \cap task.dead = {}
  BY DEF RevokedNeverSurface
<1>1. task.kind \in Modes
  BY DEF Typed, ReadersTyped, InPhase
<1>2. ToSet(task.fts) \cap task.dead = {} /\ ToSet(task.vec) \cap task.dead = {}
  BY <1>1 DEF Screened
<1>3. task.fts \in Seq(Nat) /\ task.vec \in Seq(Nat)
  <2>1. budget.docs \subseteq Nat
    BY DEF Typed, IsBudget
  <2>2. task.fts \in Seq(budget.docs) /\ task.vec \in Seq(budget.docs)
    BY DEF Typed, ReadersTyped, TasksOf
  <2> QED
    BY <2>1, <2>2
<1>4. CASE task.kind = "keyword" \/ (task.kind = "semantic" /\ ~task.embedded)
  <2>1. Answer(limit) = task.fts
    BY <1>4 DEF Answer
  <2> QED
    BY <1>2, <2>1
<1>5. CASE task.kind = "semantic" /\ task.embedded
  <2>1. Answer(limit) = task.vec
    BY <1>5 DEF Answer
  <2> QED
    BY <1>2, <2>1
<1>6. CASE task.kind = "hybrid"
  <2> DEFINE deprecated == IF task.filter.status = "" THEN task.deprecated ELSE {}
  <2>1. Answer(limit) = Fuse(<<task.fts, task.vec>>, deprecated, limit)
    BY <1>6 DEF Answer
  <2> HIDE DEF deprecated
  <2>2. ToSet(Fuse(<<task.fts, task.vec>>, deprecated, limit)) \subseteq ToSet(task.fts) \union ToSet(task.vec)
    BY <1>3, FusedWereRanked, PaginationAssumption
  <2> QED
    BY <1>2, <2>1, <2>2
<1> QED
  BY <1>1, <1>4, <1>5, <1>6 DEF Modes

\* Whatever the index holds and however late it learns of a revoke, a document
\* revoked before a query began is in no answer of it.
THEOREM RevokedStayOut ==
  Spec => []RevokedNeverSurface
<1>1. Init => Typed /\ Screened
  <2>1. ASSUME Init PROVE task.kind = "none"
    <3>1. task = NoTask
      BY <2>1 DEF Init
    <3> QED
      BY <3>1, NoTaskIsTyped
  <2>2. task.kind = "none" => Screened
    BY DEF Screened, Modes
  <2> QED
    BY <2>1, <2>2, TypedAtStart
<1>2. Typed /\ Screened /\ [Next]_vars => (Typed /\ Screened)'
  BY TypedStays, ScreenedStays
<1>3. Typed /\ Screened => RevokedNeverSurface
  BY ScreenedIsEnough
<1> QED
  BY <1>1, <1>2, <1>3, PTL DEF Spec

-----------------------------------------------------------------------------
(* The walks.                                                              *)

WalkKey(d) == Key(rows[d], WalkOrder(task.kind))

\* Between two pages, what was returned is not past the cursor and the steady
\* documents that were not returned are.
Walking ==
  task.kind \in Lists \union Sweeps =>
    /\ \A i, k \in DOMAIN task.seen : task.seen[i] = task.seen[k] => i = k
    /\ \A i \in DOMAIN task.seen : Born(task.seen[i])
    /\ \A d \in task.steady : Born(d) /\ Shown(rows[d], task.kind, task.filter)
    /\ task.at = "done" => task.cursor = NoCursor
    /\ task.cursor = NoCursor /\ task.at = "page" => task.seen = <<>>
    /\ task.cursor = NoCursor /\ task.at # "page" => task.steady \subseteq ToSet(task.seen)
    /\ task.cursor # NoCursor =>
         /\ task.cursor.order = IF task.kind \in Sweeps THEN "" ELSE WalkOrder(task.kind)
         /\ \A i \in DOMAIN task.seen : ~Ahead(task.cursor, WalkKey(task.seen[i]))
         /\ \A d \in task.steady : d \in ToSet(task.seen) \/ Ahead(task.cursor, WalkKey(d))

LEMMA ConcatParts ==
  ASSUME NEW S, NEW s \in Seq(S), NEW t \in Seq(S)
  PROVE  /\ \A i \in DOMAIN s : i \in DOMAIN (s \o t) /\ (s \o t)[i] = s[i]
         /\ \A k \in DOMAIN t : Len(s) + k \in DOMAIN (s \o t) /\ (s \o t)[Len(s) + k] = t[k]
         /\ \A i \in DOMAIN (s \o t) :
              \/ i \in DOMAIN s /\ (s \o t)[i] = s[i]
              \/ i - Len(s) \in DOMAIN t /\ (s \o t)[i] = t[i - Len(s)]
         /\ DOMAIN (s \o t) \subseteq Int /\ Len(s) \in Int
<1> DEFINE u == s \o t
           m == Len(s)
           n == Len(t)
<1>1. /\ u \in Seq(S) /\ Len(u) = m + n /\ m \in Nat /\ n \in Nat
      /\ \A i \in 1..m + n : u[i] = IF i <= m THEN s[i] ELSE t[i - m]
  BY ConcatProperties
<1>2. DOMAIN s = 1..m /\ DOMAIN t = 1..n /\ DOMAIN u = 1..m + n
  BY <1>1
<1> HIDE DEF u, m, n
<1>3. ASSUME NEW k \in 1..n PROVE m + k \in 1..m + n /\ u[m + k] = t[k]
  <2>1. m + k \in 1..m + n /\ ~(m + k <= m) /\ m + k - m = k
    BY <1>1
  <2> QED
    BY <1>1, <2>1
<1>4. /\ \A i \in 1..m : i \in 1..m + n /\ u[i] = s[i]
      /\ \A i \in 1..m + n : (i \in 1..m /\ u[i] = s[i]) \/ (i - m \in 1..n /\ u[i] = t[i - m])
  BY <1>1
<1> QED
  BY <1>1, <1>2, <1>3, <1>4 DEF u, m, n

LEMMA ConcatIsUnion ==
  ASSUME NEW S, NEW s \in Seq(S), NEW t \in Seq(S)
  PROVE  ToSet(s \o t) = ToSet(s) \union ToSet(t)
<1> DEFINE u == s \o t
<1>1. /\ \A i \in DOMAIN s : i \in DOMAIN u /\ u[i] = s[i]
      /\ \A k \in DOMAIN t : Len(s) + k \in DOMAIN u /\ u[Len(s) + k] = t[k]
      /\ \A i \in DOMAIN u : (i \in DOMAIN s /\ u[i] = s[i]) \/ (i - Len(s) \in DOMAIN t /\ u[i] = t[i - Len(s)])
  BY ConcatParts
<1> HIDE DEF u
<1>2. ToSet(s) \union ToSet(t) \subseteq ToSet(u)
  BY <1>1 DEF ToSet
<1>3. ToSet(u) \subseteq ToSet(s) \union ToSet(t)
  BY <1>1 DEF ToSet
<1> QED
  BY <1>2, <1>3 DEF u

LEMMA ConcatIsInjective ==
  ASSUME NEW S, NEW s \in Seq(S), NEW t \in Seq(S),
         \A i, k \in DOMAIN s : s[i] = s[k] => i = k,
         \A i, k \in DOMAIN t : t[i] = t[k] => i = k,
         \A i \in DOMAIN s, k \in DOMAIN t : s[i] # t[k]
  PROVE  \A i, k \in DOMAIN (s \o t) : (s \o t)[i] = (s \o t)[k] => i = k
<1> DEFINE u == s \o t
<1>1. /\ \A i \in DOMAIN u : (i \in DOMAIN s /\ u[i] = s[i]) \/ (i - Len(s) \in DOMAIN t /\ u[i] = t[i - Len(s)])
      /\ DOMAIN u \subseteq Int /\ Len(s) \in Int
  BY ConcatParts
<1> HIDE DEF u
<1>2. ASSUME NEW i \in DOMAIN u, NEW k \in DOMAIN u, u[i] = u[k] PROVE i = k
  BY <1>1, <1>2
<1> QED
  BY <1>2 DEF u

\* Ahead by stamps and ids that are numbers.
IsKey(a) == a.ts \in Int /\ a.id \in Int

LEMMA AheadFacts ==
  /\ \A a, b, c : IsKey(a) /\ IsKey(b) /\ IsKey(c) /\ Ahead(a, b) /\ Ahead(b, c) => Ahead(a, c)
  /\ \A a, b, c : IsKey(a) /\ IsKey(b) /\ IsKey(c) /\ ~Ahead(a, b) /\ b.id = c.id /\ b.ts <= c.ts => ~Ahead(a, c)
  /\ \A a, b, c : a.ts = b.ts /\ a.id = b.id /\ Ahead(a, c) => Ahead(b, c)
  /\ \A a, b, c : a.ts = b.ts /\ a.id = b.id /\ Ahead(c, a) => Ahead(c, b)
BY DEF Ahead, IsKey

LEMMA KeysAreTyped ==
  ASSUME Typed
  PROVE  /\ \A order : \A d \in budget.docs : IsKey(Key(rows[d], order)) /\ Key(rows[d], order).id = d
         /\ IsKey(task.cursor)
<1>1. budget.docs \subseteq Nat /\ RowsStamped /\ task.cursor \in Cursors
  BY DEF Typed, RowsTyped, IsBudget, ReadersTyped, TasksOf
<1>2. \A d \in budget.docs : rows[d].id = d /\ rows[d].created \in Nat /\ rows[d].updated \in Nat
  BY <1>1 DEF RowsStamped, RowsOf
<1>3. \A order : \A d \in budget.docs : IsKey(Key(rows[d], order)) /\ Key(rows[d], order).id = d
  BY <1>1, <1>2 DEF Key, IsKey
<1>4. ASSUME NEW c \in Cursors PROVE IsKey(c)
  <2>1. c.ts \in Nat /\ c.id \in Nat
    BY DEF Cursors
  <2> QED
    BY <2>1 DEF IsKey
<1> QED
  BY <1>1, <1>3, <1>4

\* A write moves its document up, or leaves it where it is.
LEMMA RewritesMoveUp ==
  ASSUME Typed, NEW d \in budget.docs, NEW row \in RowsOf(budget.docs), Rewrites(d, row)
  PROVE  /\ \A e \in budget.docs : rows'[e] = IF e = d THEN row ELSE rows[e]
         /\ row.life # "unborn"
         /\ \A order : IsKey(Key(row, order)) /\ Key(row, order).id = d
         /\ Born(d) => \A order : Key(rows[d], order).ts <= Key(row, order).ts
<1>1. rows \in [budget.docs -> RowsOf(budget.docs)] /\ RowsStamped /\ clock \in Nat
  BY DEF Typed, RowsTyped
<1>2. /\ row.id = d /\ row.life # "unborn" /\ row.updated = clock
      /\ row.created = IF Born(d) THEN rows[d].created ELSE clock
      /\ rows' = [rows EXCEPT ![d] = row]
  BY DEF Rewrites
<1>3. /\ row.created \in Nat /\ row.updated \in Nat /\ rows[d].created \in Nat
      /\ rows[d].updated \in Nat /\ rows[d].updated <= clock
  BY <1>1 DEF RowsStamped, RowsOf
<1>4. d \in Nat
  BY DEF Typed, IsBudget
<1>5. \A order : IsKey(Key(row, order)) /\ Key(row, order).id = d
  BY <1>2, <1>3, <1>4 DEF Key, IsKey
<1>6. ASSUME Born(d), NEW order PROVE Key(rows[d], order).ts <= Key(row, order).ts
  BY <1>2, <1>3, <1>6 DEF Key
<1> QED
  BY <1>1, <1>2, <1>5, <1>6

LEMMA WalkingSurvivesWrites ==
  ASSUME Typed, Walking, NEW d \in budget.docs, NEW row \in RowsOf(budget.docs), Rewrites(d, row)
  PROVE  Walking'
<1> DEFINE D == budget.docs
           kind == task.kind
           order == WalkOrder(kind)
<1>1. /\ \A e \in D : rows'[e] = IF e = d THEN row ELSE rows[e]
      /\ row.life # "unborn"
      /\ IsKey(Key(row, order)) /\ Key(row, order).id = d
      /\ Born(d) => Key(rows[d], order).ts <= Key(row, order).ts
  BY RewritesMoveUp
<1>2. /\ task'.kind = kind /\ task'.at = task.at /\ task'.cursor = task.cursor
      /\ task'.seen = task.seen /\ task'.filter = task.filter
      /\ task'.steady = StillSteady(d, row)
  BY DEF Typed, ReadersTyped, Rewrites, TasksOf
<1>3. task.seen \in Seq(D) /\ task.steady \subseteq D
  BY DEF Typed, ReadersTyped, TasksOf
<1>4. \A i \in DOMAIN task.seen : task.seen[i] \in D
  BY <1>3
<1> SUFFICES ASSUME kind \in Lists \union Sweeps PROVE Walking'
  BY <1>2 DEF Walking
<1>5. ASSUME NEW e \in task'.steady
      PROVE  /\ e \in task.steady /\ e \in D
             /\ rows'[e].life # "unborn" /\ Shown(rows'[e], kind, task.filter)
             /\ Key(rows'[e], order) = Key(rows[e], order)
  <2>1. e \in task.steady /\ e \in D
    BY <1>2, <1>3, <1>5 DEF StillSteady
  <2>2. CASE e = d
    <3>1. Shown(row, kind, task.filter) /\ Key(row, order) = Key(rows[d], order)
      BY <1>2, <1>5, <2>2 DEF StillSteady
    <3> QED
      BY <1>1, <2>1, <2>2, <3>1
  <2>3. CASE e # d
    <3>1. rows'[e] = rows[e]
      BY <1>1, <2>1, <2>3
    <3>2. Born(e) /\ Shown(rows[e], kind, task.filter)
      BY <2>1 DEF Walking
    <3> QED
      BY <2>1, <3>1, <3>2 DEF Born
  <2> QED
    BY <2>2, <2>3
<1>6. ASSUME NEW e \in D, Born(e)
      PROVE  /\ rows'[e].life # "unborn"
             /\ ~Ahead(task.cursor, Key(rows[e], order)) => ~Ahead(task.cursor, Key(rows'[e], order))
  <2>1. CASE e = d
    <3>1. rows'[e] = row /\ Key(rows[d], order).ts <= Key(row, order).ts
      BY <1>1, <1>6, <2>1
    <3>2. IsKey(task.cursor) /\ IsKey(Key(rows[d], order)) /\ Key(rows[d], order).id = d
      BY KeysAreTyped
    <3>3. ~Ahead(task.cursor, Key(rows[d], order)) => ~Ahead(task.cursor, Key(row, order))
      BY <1>1, <3>1, <3>2, AheadFacts
    <3> QED
      BY <1>1, <2>1, <3>1, <3>3
  <2>2. CASE e # d
    BY <1>1, <1>6, <2>2 DEF Born
  <2> QED
    BY <2>1, <2>2
<1>7. /\ \A i, k \in DOMAIN task.seen : task.seen[i] = task.seen[k] => i = k
      /\ \A i \in DOMAIN task.seen : Born(task.seen[i])
      /\ task.at = "done" => task.cursor = NoCursor
      /\ task.cursor = NoCursor /\ task.at = "page" => task.seen = <<>>
      /\ task.cursor = NoCursor /\ task.at # "page" => task.steady \subseteq ToSet(task.seen)
      /\ task.cursor # NoCursor =>
           /\ task.cursor.order = IF kind \in Sweeps THEN "" ELSE order
           /\ \A i \in DOMAIN task.seen : ~Ahead(task.cursor, Key(rows[task.seen[i]], order))
           /\ \A e \in task.steady : e \in ToSet(task.seen) \/ Ahead(task.cursor, Key(rows[e], order))
  BY DEF Walking, WalkKey
<1>8. \A i \in DOMAIN task.seen : rows'[task.seen[i]].life # "unborn"
  BY <1>4, <1>6, <1>7
<1>9. ASSUME task.cursor # NoCursor
      PROVE  /\ task.cursor.order = IF kind \in Sweeps THEN "" ELSE order
             /\ \A i \in DOMAIN task.seen : ~Ahead(task.cursor, Key(rows'[task.seen[i]], order))
             /\ \A e \in task'.steady : e \in ToSet(task.seen) \/ Ahead(task.cursor, Key(rows'[e], order))
  BY <1>4, <1>5, <1>6, <1>7, <1>9
<1>10. task.cursor = NoCursor /\ task.at # "page" => task'.steady \subseteq ToSet(task.seen)
  BY <1>5, <1>7
<1>11. \A e : WalkKey(e)' = Key(rows'[e], order) /\ (Born(e)' <=> rows'[e].life # "unborn")
  BY <1>2 DEF WalkKey, Born
<1>12. WalkOrder(task'.kind) = order
  BY <1>2
<1> HIDE DEF order
<1> QED
  BY <1>2, <1>5, <1>7, <1>8, <1>9, <1>10, <1>11, <1>12 DEF Walking

\* A page walks the axis its walk began on: another order is refused.
LEMMA AxisIsTheWalks ==
  ASSUME Typed, Walking, NEW page, NEW ids, NEW axis, PageRead(page, ids, axis)
  PROVE  axis = WalkOrder(task.kind)
<1>1. /\ task.kind \in Lists \union Sweeps
      /\ task.kind \in Sweeps => axis = "created"
      /\ task.cursor # NoCursor /\ task.kind \in Lists => ~CursorOrderMismatch(task.cursor, axis)
      /\ task.cursor = NoCursor => axis = WalkOrder(task.kind)
  BY DEF PageRead
<1>2. CASE task.kind \in Sweeps
  BY <1>1, <1>2 DEF WalkOrder, Sweeps
<1>3. CASE task.kind \in Lists /\ task.cursor # NoCursor
  <2>1. task.kind \notin Sweeps
    BY <1>3 DEF Lists, Sweeps
  <2>2. task.cursor.order = WalkOrder(task.kind) /\ task.cursor.order # ""
    BY <1>3, <2>1 DEF Walking, WalkOrder
  <2> QED
    BY <1>1, <1>3, <2>2 DEF CursorOrderMismatch
<1> QED
  BY <1>1, <1>2, <1>3

\* The page continues the walk: what it returns was not returned before, and
\* what is steady and not on it is past the cursor it hands out.
LEMMA WalkingSurvivesPages ==
  ASSUME Typed, Walking, NEW order, NEW limit, NEW door, ReadPage(order, limit, door)
  PROVE  Walking'
<1> DEFINE D == budget.docs
           o == WalkOrder(task.kind)
           cursor == task.cursor
<1>1. PICK page, ids, axis : PageRead(page, ids, axis)
  BY ReadingIsPaging
<1>2. /\ task.kind \in Lists \union Sweeps /\ task.at = "page"
      /\ task.kind \in Sweeps => axis = "created"
      /\ cursor # NoCursor /\ task.kind \in Lists => ~CursorOrderMismatch(cursor, axis)
      /\ cursor = NoCursor => axis = o
  BY <1>1 DEF PageRead
<1>3. /\ \A i, k \in DOMAIN task.seen : task.seen[i] = task.seen[k] => i = k
      /\ \A i \in DOMAIN task.seen : Born(task.seen[i])
      /\ \A d \in task.steady : Born(d) /\ Shown(rows[d], task.kind, task.filter)
      /\ cursor = NoCursor => task.seen = <<>>
      /\ cursor # NoCursor =>
           /\ cursor.order = IF task.kind \in Sweeps THEN "" ELSE o
           /\ \A i \in DOMAIN task.seen : ~Ahead(cursor, Key(rows[task.seen[i]], o))
           /\ \A d \in task.steady : d \in ToSet(task.seen) \/ Ahead(cursor, Key(rows[d], o))
  BY <1>2 DEF Walking, WalkKey
<1>4. axis = o
  BY <1>1, AxisIsTheWalks
<1> DEFINE B == Beyond(ShownRows, cursor, o)
           mint == IF task.kind \in Sweeps THEN "" ELSE o
           items == page.items
           nx == page.next
<1>5. /\ items \in Seq(B)
      /\ \A i, k \in DOMAIN items : items[i] = items[k] => i = k
      /\ nx = NoCursor => B \subseteq ToSet(items)
      /\ nx # NoCursor =>
           /\ nx.order = mint
           /\ \E r \in B : nx.ts = Key(r, o).ts /\ nx.id = r.id /\ r \in ToSet(items)
           /\ \A r \in B : r \in ToSet(items) <=> ~Ahead(nx, Key(r, o))
      /\ nx \in Cursors
  BY <1>1, <1>4 DEF PageRead, IsPage
<1>6. /\ ids \in Seq(D) /\ DOMAIN ids = DOMAIN items
      /\ \A i \in DOMAIN ids : ids[i] = items[i].id /\ rows[ids[i]] = items[i] /\ Born(ids[i])
  BY <1>1 DEF PageRead
<1>7. task \in TasksOf(D) /\ task.seen \in Seq(D) /\ task.steady \subseteq D
  BY DEF Typed, ReadersTyped, TasksOf
<1> DEFINE seen == task.seen \o ids
<1>8. /\ task'.kind = task.kind /\ task'.steady = task.steady /\ task'.filter = task.filter
      /\ task'.cursor = nx /\ task'.seen = seen
      /\ rows' = rows
      /\ nx = NoCursor => task'.at # "page"
      /\ nx # NoCursor => task'.at # "done"
  <2>1. /\ task'.kind = task.kind /\ task'.steady = task.steady /\ task'.filter = task.filter
        /\ task'.cursor = nx /\ task'.seen = seen
        /\ task'.at = CASE task.kind = "missing" -> "probe"
                [] task.kind \in {"rebuild", "links"} -> "row"
                [] task.kind \in Lists /\ page.next # NoCursor -> "page"
                [] OTHER -> "done"
    BY <1>1, <1>7 DEF PageRead, TasksOf
  <2>2. rows' = rows
    BY DEF ReadPage, corpus
  <2>3. CASE task.kind \in Lists
    BY <2>1, <2>2, <2>3 DEF Lists
  <2>4. CASE task.kind \in Sweeps
    BY <2>1, <2>2, <2>4 DEF Sweeps
  <2> QED
    BY <1>2, <2>3, <2>4
<1>9. \A r \in B : cursor = NoCursor \/ Ahead(cursor, Key(r, o))
  BY DEF Beyond, Past
<1>10. ASSUME NEW d \in D, Born(d), Shown(rows[d], task.kind, task.filter),
              cursor = NoCursor \/ Ahead(cursor, Key(rows[d], o))
       PROVE  rows[d] \in B /\ rows[d].id = d
  BY <1>10 DEF Beyond, Past, ShownRows, Table, Born, Typed, RowsTyped, RowsStamped
<1> HIDE DEF B, items, nx, mint, o, cursor
<1>11. \A i \in DOMAIN ids : items[i] \in B /\ rows[ids[i]] \in B /\ ids[i] \in D
  BY <1>5, <1>6
<1>12. \A d \in D : rows[d] \in ToSet(items) /\ rows[d].id = d => d \in ToSet(ids)
  BY <1>6 DEF ToSet
<1>13. \A i \in DOMAIN ids : rows[ids[i]] \in ToSet(items)
  BY <1>6 DEF ToSet
<1>14. \A i \in DOMAIN task.seen : task.seen[i] \in D
  BY <1>7
\* Nothing twice.
<1>15. \A i \in DOMAIN task.seen, k \in DOMAIN ids : task.seen[i] # ids[k]
  <2>1. CASE cursor = NoCursor
    BY <1>3, <2>1
  <2>2. CASE cursor # NoCursor
    BY <1>3, <1>9, <1>11, <2>2
  <2> QED
    BY <2>1, <2>2
<1>16. \A i, k \in DOMAIN ids : ids[i] = ids[k] => i = k
  BY <1>5, <1>6
<1>17. /\ seen \in Seq(D) /\ ToSet(seen) = ToSet(task.seen) \union ToSet(ids)
       /\ \A i, k \in DOMAIN seen : seen[i] = seen[k] => i = k
  <2>1. task.seen \in Seq(D) /\ ids \in Seq(D)
    BY <1>6, <1>7
  <2>2. \A i, k \in DOMAIN task.seen : task.seen[i] = task.seen[k] => i = k
    BY <1>3
  <2>3. seen \in Seq(D) /\ ToSet(seen) = ToSet(task.seen) \union ToSet(ids)
    <3>1. seen \in Seq(D)
      BY <2>1, ConcatProperties
    <3>2. ToSet(seen) = ToSet(task.seen) \union ToSet(ids)
      BY <2>1, ConcatIsUnion
    <3> QED
      BY <3>1, <3>2
  <2>4. \A i, k \in DOMAIN seen : seen[i] = seen[k] => i = k
    BY ONLY <2>1, <2>2, <1>15, <1>16, ConcatIsInjective, Zenon
  <2> QED
    BY <2>3, <2>4
<1> HIDE DEF seen
<1>18. \A i \in DOMAIN seen : seen[i] \in ToSet(task.seen) \union ToSet(ids)
  BY <1>17 DEF ToSet
<1>19. \A i \in DOMAIN seen : Born(seen[i])
  <2>1. ASSUME NEW d \in ToSet(task.seen) PROVE Born(d)
    BY <1>3 DEF ToSet
  <2>2. ASSUME NEW d \in ToSet(ids) PROVE Born(d)
    BY <1>6 DEF ToSet
  <2> QED
    BY <1>18, <2>1, <2>2
\* Nothing missed.
<1>20. ASSUME NEW d \in task.steady
       PROVE  \/ d \in ToSet(task.seen)
              \/ rows[d] \in B /\ rows[d].id = d
  <2>1. d \in D /\ Born(d) /\ Shown(rows[d], task.kind, task.filter)
    BY <1>3, <1>7
  <2>2. d \in ToSet(task.seen) \/ cursor = NoCursor \/ Ahead(cursor, Key(rows[d], o))
    BY <1>3
  <2> QED
    BY <1>10, <2>1, <2>2
<1>21. CASE nx = NoCursor
  <2>1. task.steady \subseteq ToSet(seen)
    BY <1>5, <1>7, <1>12, <1>17, <1>20, <1>21
  <2> QED
    BY <1>8, <1>17, <1>19, <1>3, <1>21, <2>1 DEF Walking, Born
<1>22. CASE nx # NoCursor
  <2>1. IsKey(cursor) /\ IsKey(nx) /\ \A d \in D : IsKey(Key(rows[d], o))
    <3>1. IsKey(nx)
      <4>1. \A c \in Cursors : c.ts \in Nat /\ c.id \in Nat
        BY DEF Cursors
      <4> QED
        BY <1>5, <4>1 DEF IsKey
    <3> QED
      BY <3>1, KeysAreTyped DEF cursor
  <2>2. cursor = NoCursor \/ Ahead(cursor, nx)
    <3>1. PICK r \in B : nx.ts = Key(r, o).ts /\ nx.id = r.id
      BY <1>5, <1>22
    <3>2. cursor = NoCursor \/ Ahead(cursor, Key(r, o))
      BY <1>9
    <3>3. Key(r, o).id = r.id
      BY DEF Key
    <3> QED
      BY <3>1, <3>2, <3>3, AheadFacts
  <2>3. ASSUME NEW i \in DOMAIN seen PROVE ~Ahead(nx, Key(rows[seen[i]], o))
    <3>1. CASE seen[i] \in ToSet(ids)
      <4>1. PICK k \in DOMAIN ids : ids[k] = seen[i]
        BY <3>1 DEF ToSet
      <4> QED
        BY <1>5, <1>11, <1>13, <1>22, <4>1
    <3>2. CASE seen[i] \in ToSet(task.seen)
      <4>1. PICK k \in DOMAIN task.seen : task.seen[k] = seen[i]
        BY <3>2 DEF ToSet
      <4>2. cursor # NoCursor
        <5>1. DOMAIN task.seen # {} /\ DOMAIN <<>> = {}
          BY <4>1
        <5> QED
          BY <1>3, <5>1
      <4>3. seen[i] \in D /\ ~Ahead(cursor, Key(rows[seen[i]], o))
        BY <1>3, <1>14, <4>1, <4>2
      <4> QED
        BY <2>1, <2>2, <4>2, <4>3, AheadFacts
    <3> QED
      BY <1>18, <3>1, <3>2
  <2>4. ASSUME NEW d \in task.steady PROVE d \in ToSet(seen) \/ Ahead(nx, Key(rows[d], o))
    BY <1>5, <1>7, <1>12, <1>17, <1>20, <1>22
  <2>5. nx.order = IF task.kind \in Sweeps THEN "" ELSE o
    BY <1>5, <1>22 DEF mint
  <2>6. \A e : WalkKey(e)' = Key(rows[e], o) /\ (Born(e)' <=> Born(e))
    BY <1>8 DEF WalkKey, Born, o
  <2>7. WalkOrder(task'.kind) = o
    BY <1>8 DEF o
  <2> QED
    BY <1>8, <1>17, <1>19, <1>3, <1>22, <2>3, <2>4, <2>5, <2>6, <2>7 DEF Walking
<1> QED
  BY <1>21, <1>22

LEMMA WalkingStays ==
  ASSUME Typed, Walking, [Next]_vars
  PROVE  Walking'
<1> DEFINE D == budget.docs
           T == TasksOf(D)
<1>0. /\ task \in T /\ InPhase(task.kind, task.at)
      /\ Modes \cap (Lists \union Sweeps \union {"none"}) = {} /\ "none" \notin Lists \union Sweeps
  BY DEF Typed, ReadersTyped, Lists, Sweeps, Modes
<1>1. CASE UNCHANGED <<rows, task>>
  BY <1>1 DEF Walking, WalkKey, Born
<1>2. CASE task'.kind \notin Lists \union Sweeps
  BY <1>2 DEF Walking
<1>3. CASE task' = NoTask
  BY <1>0, <1>2, <1>3, NoTaskIsTyped
<1>4. ASSUME UNCHANGED rows, task'.kind = task.kind, task'.cursor = task.cursor,
             task'.seen = task.seen, task'.steady = task.steady, task'.filter = task.filter,
             task.at # "page",
             task'.at = "done" => task.cursor = NoCursor,
             task'.at = "page" => task.cursor # NoCursor
      PROVE  Walking'
  <2>1. \A e : WalkKey(e)' = WalkKey(e) /\ (Born(e)' <=> Born(e))
    BY <1>4 DEF WalkKey, Born
  <2> QED
    BY <1>4, <2>1 DEF Walking
<1>5. ASSUME NEW kind \in Lists \union Sweeps, NEW filter, StartWalk(kind, filter) PROVE Walking'
  <2>1. /\ rows' = rows /\ task'.kind = kind /\ task'.at = "page" /\ task'.filter = filter
        /\ task'.steady = {d \in D : Born(d) /\ Shown(rows[d], kind, filter)}
        /\ task'.seen = <<>> /\ task'.cursor = NoCursor
    BY <1>5 DEF StartWalk, NoTask, corpus
  <2>2. \A e : Born(e)' <=> Born(e)
    BY <2>1 DEF Born
  <2>3. DOMAIN <<>> = {}
    OBVIOUS
  <2> QED
    BY <2>1, <2>2, <2>3 DEF Walking
<1>6. CASE Probe \/ SyncRow \/ RowSynced \/ GetRender \/ WriteLinks
  <2> DEFINE Steps == /\ rows' = rows /\ task'.kind = task.kind /\ task'.cursor = task.cursor
                      /\ task'.seen = task.seen /\ task'.steady = task.steady /\ task'.filter = task.filter
                      /\ task.at \in {"probe", "row", "sync", "write"} /\ task'.at \in {"row", "sync", "write"}
  <2>1. Steps
    <3>0. task \in TasksOf(D)
      BY <1>0
    <3>1. CASE Probe
      BY <3>0, <3>1 DEF Probe, TasksOf, corpus
    <3>2. CASE SyncRow
      BY <3>0, <3>2 DEF SyncRow, TasksOf, corpus
    <3>3. CASE RowSynced
      BY <3>0, <3>3 DEF RowSynced, TasksOf, corpus
    <3>4. CASE WriteLinks
      BY <3>0, <3>4 DEF WriteLinks, TasksOf, corpus
    <3>5. CASE GetRender
      BY <3>0, <3>5 DEF GetRender, TasksOf, corpus
    <3> QED
      BY <1>6, <3>1, <3>2, <3>3, <3>4, <3>5
  <2> QED
    BY <1>4, <2>1
<1>7. CASE EndPage
  <2>1. /\ rows' = rows /\ task'.kind = task.kind /\ task'.cursor = task.cursor
        /\ task'.seen = task.seen /\ task'.steady = task.steady /\ task'.filter = task.filter
        /\ task.at = "row" /\ task'.at = IF task.cursor = NoCursor THEN "done" ELSE "page"
    BY <1>0, <1>7 DEF EndPage, TasksOf, corpus
  <2> QED
    BY <1>4, <2>1
<1>8. CASE EndWalk \/ Abandon \/ EndSearch
  BY <1>3, <1>8 DEF EndWalk, Abandon, EndSearch
<1>9. CASE Walks
  <2>1. Sweeps \subseteq Lists \union Sweeps /\ {"created", "updated", "feed"} \subseteq Lists \union Sweeps
    BY DEF Lists
  <2> QED
    BY <1>5, <1>6, <1>7, <1>8, <1>9, <2>1, WalkingSurvivesPages DEF Walks
<1>10. ASSUME NEW mode \in Modes, NEW tokens, NEW status, StartSearch(mode, tokens, status) PROVE Walking'
  <2>1. task'.kind = mode
    BY <1>10 DEF StartSearch, NoTask
  <2> QED
    BY <1>0, <1>2, <2>1
<1>11. CASE (\E ok \in BOOLEAN : EmbedQuery(ok)) \/ SearchText \/ QueryVectors \/ QueryFails \/ Rejoin
  <2>1. /\ task.at \in {"embedQuery", "fts", "query", "rejoin"}
        /\ task' = NoTask \/ task'.kind = task.kind
    BY <1>0, <1>11, QueryStepsAre
  <2>2. task.kind \in Modes
    BY <1>0, <2>1 DEF InPhase
  <2> QED
    BY <1>0, <1>2, <1>3, <2>1, <2>2
<1>12. CASE Searches
  BY <1>8, <1>10, <1>11, <1>12 DEF Searches
<1> QED
  BY <1>1, <1>8, <1>9, <1>12, StepsAre, WalkingSurvivesWrites DEF Ticks, Quiet, Reads

\* A list or a sweep that reaches its end returned nothing twice and everything
\* that kept its place, however many documents there are, whatever the limits of
\* its pages, and whatever was written in between.
THEOREM ListsAreExact ==
  Spec => []WalksAreExact
<1>1. ASSUME Init PROVE Typed /\ Walking
  <2>1. task.kind = "none"
    <3>1. task = NoTask
      BY <1>1 DEF Init
    <3> QED
      BY <3>1, NoTaskIsTyped
  <2> QED
    BY <1>1, <2>1, TypedAtStart DEF Walking, Lists, Sweeps
<1>2. Typed /\ Walking /\ [Next]_vars => (Typed /\ Walking)'
  BY TypedStays, WalkingStays
<1>3. ASSUME Typed, Walking, task.at = "done"
      PROVE  /\ \A i, k \in DOMAIN task.seen : task.seen[i] = task.seen[k] => i = k
             /\ task.steady \subseteq ToSet(task.seen)
  <2>1. task.kind \in Lists \union Sweeps
    BY <1>3 DEF Typed, ReadersTyped, InPhase, Sweeps
  <2> QED
    BY <1>3, <2>1 DEF Walking
<1>4. Typed /\ Walking => WalksAreExact
  BY <1>3 DEF WalksAreExact
<1> QED
  BY <1>1, <1>2, <1>4, PTL DEF Spec

-----------------------------------------------------------------------------
(* The change feed.                                                        *)

\* A consumer knows a document as it is, or resumes at or before its stamp; in
\* the middle of a poll, it will resume there, or the document is still to come.
Polled ==
  /\ feed.since <= feed.top /\ feed.top <= clock
  /\ \A d \in budget.docs : Born(d) => feed.known[d] = rows[d] \/ rows[d].updated >= feed.since
  /\ task.kind = "feed" =>
       /\ task.filter = [AnyRow EXCEPT !.since = feed.since]
       /\ task.cursor # NoCursor => task.cursor.ts <= feed.top
       /\ \A d \in budget.docs : Born(d) =>
            \/ feed.known[d] = rows[d] \/ rows[d].updated >= feed.top
            \/ task.at = "page" /\ (task.cursor = NoCursor \/ Ahead(task.cursor, WalkKey(d)))

LEMMA PolledIsTyped ==
  ASSUME Typed
  PROVE  /\ feed.since \in Nat /\ feed.top \in Nat /\ clock \in Nat
         /\ feed.known \in [budget.docs -> RowsOf(budget.docs)]
         /\ \A d \in budget.docs : rows[d].updated \in Nat /\ rows[d].updated <= clock /\ rows[d].id = d
         /\ rows \in [budget.docs -> RowsOf(budget.docs)]
<1>1. \A r \in RowsOf(budget.docs) : r.updated \in Nat
  BY DEF RowsOf
<1> QED
  BY <1>1 DEF Typed, ReadersTyped, RowsTyped, RowsStamped

LEMMA PolledSurvivesWrites ==
  ASSUME Typed, Polled, budget'.docs = budget.docs,
         NEW d \in budget.docs, NEW row \in RowsOf(budget.docs), Rewrites(d, row)
  PROVE  Polled'
<1> DEFINE D == budget.docs
<1>0. row.updated = clock /\ clock' = clock /\ feed' = feed
  BY DEF Rewrites
<1>1. \A e \in D : rows'[e] = IF e = d THEN row ELSE rows[e]
  BY RewritesMoveUp
<1>2. /\ task'.kind = task.kind /\ task'.at = task.at /\ task'.cursor = task.cursor /\ task'.filter = task.filter
  BY DEF Typed, ReadersTyped, Rewrites, TasksOf
<1>3. feed.since \in Nat /\ feed.top \in Nat /\ clock \in Nat /\ feed.since <= feed.top /\ feed.top <= clock
  BY PolledIsTyped DEF Polled
<1>4. /\ rows'[d].updated >= feed.top /\ rows'[d].updated >= feed.since
      /\ \A e \in D : e # d => rows'[e] = rows[e] /\ (Born(e)' <=> Born(e)) /\ WalkKey(e)' = WalkKey(e)
  BY <1>0, <1>1, <1>2, <1>3 DEF Born, WalkKey
<1>5. ASSUME NEW e \in D, Born(e)'
      PROVE  /\ feed.known[e] = rows'[e] \/ rows'[e].updated >= feed.since
             /\ task.kind = "feed" =>
                  \/ feed.known[e] = rows'[e] \/ rows'[e].updated >= feed.top
                  \/ task.at = "page" /\ (task.cursor = NoCursor \/ Ahead(task.cursor, WalkKey(e)'))
  <2>1. CASE e = d
    BY <1>4, <2>1
  <2>2. CASE e # d
    BY <1>4, <1>5, <2>2 DEF Polled
  <2> QED
    BY <2>1, <2>2
<1>6. task.kind = "feed" =>
        /\ task.filter = [AnyRow EXCEPT !.since = feed.since]
        /\ task.cursor # NoCursor => task.cursor.ts <= feed.top
  BY DEF Polled
<1> QED
  BY <1>0, <1>2, <1>3, <1>5, <1>6 DEF Polled

\* A page of a poll: what it delivers is known as it is, and nothing that is
\* still to come is left behind the newest stamp.
LEMMA PolledSurvivesPages ==
  ASSUME Typed, Walking, Polled, budget'.docs = budget.docs,
         NEW order, NEW limit, NEW door, ReadPage(order, limit, door)
  PROVE  Polled'
<1> DEFINE D == budget.docs
           cursor == task.cursor
<1>1. PICK page, ids, axis : PageRead(page, ids, axis)
  BY ReadingIsPaging
<1>2. /\ rows' = rows /\ clock' = clock /\ task \in TasksOf(D)
      /\ task.kind \in Lists \union Sweeps
  BY <1>1 DEF ReadPage, corpus, PageRead, Typed, ReadersTyped
<1>3. CASE task.kind # "feed"
  <2>1. feed' = feed /\ task'.kind # "feed"
    BY <1>1, <1>2, <1>3 DEF PageRead, TasksOf
  <2> QED
    BY <1>2, <2>1 DEF Polled, Born
<1>4. CASE task.kind = "feed"
  <2> DEFINE B == Beyond(ShownRows, cursor, "updated")
             items == page.items
             nx == page.next
             top == Max({feed.top} \union {items[i].updated : i \in DOMAIN items})
  <2>1. axis = "updated" /\ "feed" \in Lists /\ "feed" \notin Sweeps
    BY <1>1, <1>4, AxisIsTheWalks DEF WalkOrder, Lists, Sweeps
  <2>2. /\ items \in Seq(B)
        /\ nx = NoCursor => B \subseteq ToSet(items)
        /\ nx # NoCursor =>
             /\ \E r \in B : nx.ts = Key(r, "updated").ts /\ nx.id = r.id /\ r \in ToSet(items)
             /\ \A r \in B : r \in ToSet(items) <=> ~Ahead(nx, Key(r, "updated"))
        /\ items \in Seq(RowsOf(D))
    BY <1>1, <2>1 DEF PageRead, IsPage
  <2>3. /\ ids \in Seq(D) /\ DOMAIN ids = DOMAIN items
        /\ \A i \in DOMAIN ids : ids[i] = items[i].id /\ rows[ids[i]] = items[i]
    BY <1>1 DEF PageRead
  <2>4. /\ task'.kind = "feed" /\ task'.filter = task.filter /\ task'.cursor = nx
        /\ nx # NoCursor => task'.at = "page"
    BY <1>1, <1>2, <1>4, <2>1 DEF PageRead, TasksOf
  <2>5. /\ feed'.since = feed.since /\ feed'.top = top
        /\ \A d \in D : feed'.known[d] = IF d \in ToSet(ids) THEN rows[d] ELSE feed.known[d]
    <3>1. feed' = [feed EXCEPT
              !.known = [d \in DOMAIN feed.known |->
                 IF d \in ToSet(ids) THEN rows[d] ELSE feed.known[d]],
              !.top = Max({@} \union {page.items[i].updated : i \in DOMAIN page.items})]
      BY <1>1, <1>4 DEF PageRead
    <3>2. feed \in [since : Nat, top : Nat, known : [D -> RowsOf(D)]]
      BY DEF Typed, ReadersTyped
    <3> QED
      BY <3>1, <3>2
  <2>6. /\ feed.since \in Nat /\ feed.top \in Nat /\ clock \in Nat
        /\ \A d \in D : rows[d].updated \in Nat /\ rows[d].updated <= clock /\ rows[d].id = d
        /\ feed.since <= feed.top /\ feed.top <= clock
        /\ task.filter = [AnyRow EXCEPT !.since = feed.since]
        /\ cursor # NoCursor => cursor.ts <= feed.top
        /\ \A d \in D : Born(d) => feed.known[d] = rows[d] \/ rows[d].updated >= feed.since
        /\ \A d \in D : Born(d) =>
             \/ feed.known[d] = rows[d] \/ rows[d].updated >= feed.top
             \/ cursor = NoCursor \/ Ahead(cursor, Key(rows[d], "updated"))
    BY <1>4, PolledIsTyped DEF Polled, WalkKey, WalkOrder
  <2> HIDE DEF items, nx, top
  <2>7. /\ top \in Nat /\ feed.top <= top
        /\ \A i \in DOMAIN items : items[i].updated \in Nat /\ items[i].updated <= top
        /\ top = feed.top \/ \E i \in DOMAIN items : top = items[i].updated
    <3>1. top = Max({feed.top} \union {items[i].updated : i \in DOMAIN items})
      BY DEF top
    <3>2. items \in Seq(RowsOf(D))
      BY <2>2
    <3>3. feed.top \in Nat
      BY <2>6
    <3>4. top \in Nat
      BY <3>1, <3>2, <3>3, TopIsNewest
    <3>5. feed.top <= top
      BY <3>1, <3>2, <3>3, TopIsNewest
    <3>6. \A i \in DOMAIN items : items[i].updated \in Nat
      BY <3>1, <3>2, <3>3, TopIsNewest
    <3>7. \A i \in DOMAIN items : items[i].updated <= top
      BY <3>1, <3>2, <3>3, TopIsNewest
    <3>8. top = feed.top \/ \E i \in DOMAIN items : top = items[i].updated
      <4>1. top \in {feed.top} \union {items[i].updated : i \in DOMAIN items}
        BY <3>1, <3>2, <3>3, TopIsNewest
      <4> QED
        BY ONLY <4>1
    <3> QED
      BY ONLY <3>4, <3>5, <3>6, <3>7, <3>8
  <2>8. \A r : Key(r, "updated").ts = r.updated
    BY DEF Key
  <2>9. \A r \in B : cursor = NoCursor \/ Ahead(cursor, Key(r, "updated"))
    BY DEF Beyond, Past
  <2>10. ASSUME NEW d \in D, Born(d), rows[d].updated >= feed.since,
                cursor = NoCursor \/ Ahead(cursor, Key(rows[d], "updated"))
         PROVE  rows[d] \in B
    <3>1. Shown(rows[d], task.kind, task.filter)
      BY <1>4, <2>1, <2>6, <2>10 DEF Shown, Matches, ChangedSince, AnyRow
    <3> QED
      BY <2>10, <3>1 DEF Beyond, Past, ShownRows, Table, Born
  <2> HIDE DEF B
  <2>11. \A i \in DOMAIN ids : ids[i] \in D /\ items[i] \in B
    BY <2>2, <2>3
  <2>12. top <= clock
    BY <2>3, <2>6, <2>7, <2>11
  <2>13. nx # NoCursor => nx.ts <= top
    <3> SUFFICES ASSUME nx # NoCursor PROVE nx.ts <= top
      OBVIOUS
    <3>1. PICK r \in B : nx.ts = Key(r, "updated").ts /\ r \in ToSet(items)
      BY <2>2
    <3>2. PICK i \in DOMAIN items : items[i] = r
      BY <3>1 DEF ToSet
    <3> QED
      BY <2>7, <2>8, <3>1, <3>2
  \* A later page brings no stamp newer than the cursor's.
  <2>14. cursor # NoCursor => top = feed.top
    <3> SUFFICES ASSUME cursor # NoCursor, NEW i \in DOMAIN items PROVE items[i].updated <= feed.top
      BY <2>6, <2>7
    <3>1. Ahead(cursor, Key(items[i], "updated"))
      BY <2>3, <2>9, <2>11
    <3>2. cursor.ts \in Nat /\ cursor.ts <= feed.top /\ items[i].updated \in Nat
      BY <1>2, <2>6, <2>7 DEF TasksOf, Cursors
    <3> QED
      BY <2>6, <2>8, <3>1, <3>2 DEF Ahead
  <2>15. \A d \in D : rows[d] \in ToSet(items) => d \in ToSet(ids)
    BY <2>3, <2>6 DEF ToSet
  <2>16. ASSUME NEW d \in D, Born(d)
         PROVE  /\ feed'.known[d] = rows[d] \/ rows[d].updated >= feed.since
                /\ \/ feed'.known[d] = rows[d] \/ rows[d].updated >= top
                   \/ nx # NoCursor /\ Ahead(nx, Key(rows[d], "updated"))
    <3>1. CASE d \in ToSet(ids)
      BY <2>5, <3>1
    <3>2. CASE d \notin ToSet(ids) /\ feed.known[d] = rows[d]
      BY <2>5, <3>2
    <3>3. CASE d \notin ToSet(ids) /\ feed.known[d] # rows[d]
      <4>1. rows[d].updated >= feed.since /\ rows[d] \notin ToSet(items)
        BY <2>6, <2>15, <2>16, <3>3
      <4>2. CASE cursor = NoCursor \/ Ahead(cursor, Key(rows[d], "updated"))
        <5>1. rows[d] \in B
          BY <2>10, <2>16, <4>1, <4>2
        <5> QED
          BY <2>2, <4>1, <5>1
      <4>3. CASE cursor # NoCursor /\ rows[d].updated >= feed.top
        BY <2>14, <4>1, <4>3
      <4> QED
        BY <2>6, <2>16, <3>3, <4>2, <4>3
    <3> QED
      BY <3>1, <3>2, <3>3
  <2>17. feed'.since <= top
    BY <2>5, <2>6, <2>7
  <2>18. \A d : WalkKey(d)' = Key(rows[d], "updated") /\ (Born(d)' <=> Born(d))
    BY <1>2, <2>4 DEF WalkKey, WalkOrder, Born
  <2> QED
    BY <1>2, <2>4, <2>5, <2>6, <2>12, <2>13, <2>16, <2>17, <2>18 DEF Polled
<1> QED
  BY <1>3, <1>4

LEMMA PolledStays ==
  ASSUME Typed, Walking, Polled, [Next]_vars
  PROVE  Polled'
<1> DEFINE D == budget.docs
<1>0. /\ task \in TasksOf(D) /\ InPhase(task.kind, task.at) /\ budget'.docs = D
      /\ "feed" \notin Modes /\ "feed" \notin Sweeps
  BY BoundsStay DEF Typed, ReadersTyped, SameBounds, Modes, Sweeps
<1>1. CASE Ticks
  <2>1. clock' = clock + 1 /\ rows' = rows /\ task' = task /\ feed' = feed /\ clock \in Nat /\ feed.top \in Nat
    BY <1>1, PolledIsTyped DEF Ticks
  <2>2. \A d : WalkKey(d)' = WalkKey(d) /\ (Born(d)' <=> Born(d))
    BY <2>1 DEF WalkKey, Born
  <2>3. feed.top <= clock + 1
    BY <2>1 DEF Polled
  <2> QED
    BY <1>0, <2>1, <2>2, <2>3 DEF Polled
<1>2. CASE Quiet
  BY <1>0, <1>2 DEF Quiet, Polled, WalkKey, Born
<1>3. ASSUME UNCHANGED <<rows, clock, feed>>, task'.kind # "feed" PROVE Polled'
  BY <1>0, <1>3 DEF Polled, Born
<1>4. ASSUME NEW kind, NEW filter, StartWalk(kind, filter),
             kind = "feed" => filter = [AnyRow EXCEPT !.since = feed.since]
      PROVE  Polled'
  <2>1. /\ rows' = rows /\ clock' = clock /\ feed' = feed /\ task'.kind = kind
        /\ task'.at = "page" /\ task'.filter = filter /\ task'.cursor = NoCursor
    BY <1>4 DEF StartWalk, NoTask, corpus
  <2> QED
    BY <1>0, <1>4, <2>1 DEF Polled, Born
<1>5. CASE Probe \/ SyncRow \/ RowSynced \/ GetRender \/ WriteLinks \/ EndPage
  <2>1. UNCHANGED <<rows, clock, feed>> /\ task'.kind = task.kind
    <3>1. CASE Probe \/ SyncRow \/ RowSynced
      BY <1>0, <3>1 DEF Probe, SyncRow, RowSynced, TasksOf, corpus
    <3>2. CASE GetRender \/ WriteLinks \/ EndPage
      BY <1>0, <3>2 DEF GetRender, WriteLinks, EndPage, TasksOf, corpus
    <3> QED
      BY <1>5, <3>1, <3>2
  <2>2. task.at \in {"probe", "row", "sync", "write"}
    BY <1>5 DEF Probe, SyncRow, RowSynced, GetRender, WriteLinks, EndPage
  <2>3. task.kind # "feed"
    BY <1>0, <2>2 DEF InPhase
  <2> QED
    BY <1>3, <2>1, <2>3
<1>6. CASE EndWalk
  <2>1. /\ rows' = rows /\ clock' = clock /\ task'.kind = "none" /\ task.at = "done"
        /\ feed' = IF task.kind = "feed" THEN [feed EXCEPT !.since = feed.top] ELSE feed
    BY <1>6, NoTaskIsTyped DEF EndWalk, ResumeAt, corpus
  <2>2. CASE task.kind = "feed"
    <3>1. feed'.since = feed.top /\ feed'.top = feed.top /\ feed'.known = feed.known
      BY <2>1, <2>2 DEF Typed, ReadersTyped
    <3>2. \A d \in D : Born(d) => feed.known[d] = rows[d] \/ rows[d].updated >= feed.top
      BY <2>1, <2>2 DEF Polled
    <3>3. feed.top \in Nat
      BY PolledIsTyped
    <3> QED
      BY <1>0, <2>1, <3>1, <3>2, <3>3 DEF Polled, Born
  <2>3. CASE task.kind # "feed"
    BY <1>3, <2>1, <2>3
  <2> QED
    BY <2>2, <2>3
<1>7. CASE Walks
  <2>1. \A kind \in Sweeps : kind # "feed"
    BY DEF Sweeps
  <2> QED
    BY <1>0, <1>4, <1>5, <1>6, <1>7, <2>1, PolledSurvivesPages DEF Walks
<1>8. CASE Abandon \/ EndSearch
  <2>1. UNCHANGED <<rows, clock, feed>> /\ task'.kind = "none"
    BY <1>8, NoTaskIsTyped DEF Abandon, EndSearch, corpus
  <2> QED
    BY <1>3, <2>1
<1>9. ASSUME NEW mode \in Modes, NEW tokens, NEW status, StartSearch(mode, tokens, status) PROVE Polled'
  <2>1. UNCHANGED <<rows, clock, feed>> /\ task'.kind = mode
    BY <1>9 DEF StartSearch, NoTask, corpus
  <2> QED
    BY <1>0, <1>3, <2>1
<1>10. CASE (\E ok \in BOOLEAN : EmbedQuery(ok)) \/ SearchText \/ QueryVectors \/ QueryFails \/ Rejoin
  <2>1. /\ task.at \in {"embedQuery", "fts", "query", "rejoin"}
        /\ task' = NoTask \/ task'.kind = task.kind
        /\ UNCHANGED <<rows, clock, feed>>
    BY <1>0, <1>10, QueryStepsAre
  <2>2. task.kind # "feed"
    BY <1>0, <2>1 DEF InPhase, Lists
  <2> QED
    BY <1>3, <2>1, <2>2, NoTaskIsTyped
<1>11. CASE Searches
  BY <1>8, <1>9, <1>10, <1>11 DEF Searches
<1> QED
  BY <1>0, <1>1, <1>2, <1>7, <1>8, <1>11, StepsAre, PolledSurvivesWrites DEF Reads

\* No write is lost to a consumer of the change feed: whatever is written or
\* revoked between its pages and its polls, in one millisecond or in many, and
\* whichever polls it gives up, a document it does not know as it is has a stamp
\* its next poll asks for.
THEOREM FeedLosesNothing ==
  Spec => []FeedMissesNothing
<1>1. ASSUME Init PROVE Typed /\ Walking /\ Polled
  <2>1. task.kind = "none" /\ task = NoTask
    <3>1. task = NoTask
      BY <1>1 DEF Init
    <3> QED
      BY <3>1, NoTaskIsTyped
  <2>2. Typed /\ Walking
    BY <1>1, <2>1, TypedAtStart DEF Walking, Lists, Sweeps
  <2>3. feed.since = 0 /\ feed.top = 0
    <3>1. PICK b \in Budgets : feed = [since |-> 0, top |-> 0, known |-> [d \in b.docs |-> Unborn(d)]]
      BY <1>1 DEF Init
    <3> QED
      BY <3>1
  <2>4. \A d \in budget.docs : rows[d].updated >= 0 /\ 0 <= clock
    BY <2>2, PolledIsTyped
  <2>5. 0 <= clock
    BY <2>2, PolledIsTyped
  <2> QED
    BY <2>1, <2>2, <2>3, <2>4, <2>5 DEF Polled
<1>2. Typed /\ Walking /\ Polled /\ [Next]_vars => (Typed /\ Walking /\ Polled)'
  BY TypedStays, WalkingStays, PolledStays
<1>3. Polled => FeedMissesNothing
  BY DEF Polled, FeedMissesNothing, ChangedSince
<1> QED
  BY <1>1, <1>2, <1>3, PTL DEF Spec

-----------------------------------------------------------------------------
(* The fusion of two lists.                                                *)

\* What a rank is worth, in twentieths.
Share(r) == Denominator \div (20 * (RRF_K + r))

\* A product of the same with more is more.
LEMMA Products ==
  /\ \A a, b, c \in Nat : a <= b => a * c <= b * c /\ c * a <= c * b
  /\ \A a, b \in Nat, c \in Nat \ {0} : a < b => a * c < b * c /\ c * a < c * b
<1>1. ASSUME NEW a \in Nat, NEW b \in Nat, NEW c \in Nat, a <= b
      PROVE  a * c <= b * c /\ c * a <= c * b
  <2>1. b * c = a * c + (b - a) * c /\ (b - a) * c >= 0 /\ c * a = a * c /\ c * b = b * c
    BY <1>1
  <2>2. a * c \in Nat /\ b * c \in Nat /\ (b - a) * c \in Int
    OBVIOUS
  <2> QED
    BY <2>1, <2>2
<1>2. ASSUME NEW a \in Nat, NEW b \in Nat, NEW c \in Nat \ {0}, a < b
      PROVE  a * c < b * c /\ c * a < c * b
  <2>1. b * c = a * c + (b - a) * c /\ (b - a) * c > 0 /\ c * a = a * c /\ c * b = b * c
    BY <1>2
  <2>2. a * c \in Nat /\ b * c \in Nat /\ (b - a) * c \in Int
    OBVIOUS
  <2> QED
    BY <2>1, <2>2
<1> QED
  BY <1>1, <1>2

\* The denominator is the share of a rank, that many times.
LEMMA ShareIs ==
  ASSUME NEW r \in 1..MaxRank
  PROVE  /\ Share(r) \in Nat \ {0} /\ RRF_K + r \in Nat \ {0}
         /\ Denominator = 20 * (Share(r) * (RRF_K + r))
         /\ Denominator \div (RRF_K + r) = 20 * Share(r)
<1> DEFINE k == RRF_K + r
           n == Share(r)
<1>1. k \in Nat \ {0} /\ Denominator \in Nat \ {0} /\ Denominator % (20 * k) = 0
  BY RankFusionAssumption
<1>2. n = Denominator \div (20 * k)
  BY DEF Share
<1> HIDE DEF k, n
<1> DEFINE m == 20 * k
<1>3. m \in Nat \ {0}
  BY <1>1
<1>4. n = Denominator \div m /\ Denominator % m = 0
  BY <1>1, <1>2
<1> HIDE DEF m
<1>5. n \in Nat /\ Denominator = m * n
  BY <1>1, <1>3, <1>4
<1>6. Denominator = 20 * (n * k) /\ n * k \in Nat
  BY <1>1, <1>5 DEF m
<1>7. n # 0
  BY <1>1, <1>6
<1>8. Denominator = k * (20 * n)
  BY <1>1, <1>5 DEF m
<1> DEFINE x == 20 * n
<1>9. x \in Nat
  BY <1>5
<1> HIDE DEF x
<1>10. Denominator \div k = x
  BY <1>1, <1>8, <1>9 DEF x
<1> QED
  BY <1>1, <1>5, <1>6, <1>7, <1>10 DEF k, n, x

\* A better rank is worth more, but a twentieth of any is no more than the rest
\* of another.
LEMMA SharesFall ==
  ASSUME NEW r \in 1..MaxRank, NEW s \in 1..MaxRank
  PROVE  /\ r < s => Share(s) < Share(r)
         /\ Share(r) <= 19 * Share(s)
<1> DEFINE a == Share(r)
           b == Share(s)
           k == RRF_K + r
           l == RRF_K + s
<1>1. a \in Nat \ {0} /\ b \in Nat \ {0} /\ k \in Nat \ {0} /\ l \in Nat \ {0} /\ a * k = b * l
  <2>1. Denominator = 20 * (a * k) /\ Denominator = 20 * (b * l) /\ a \in Nat \ {0} /\ b \in Nat \ {0}
        /\ k \in Nat \ {0} /\ l \in Nat \ {0}
    BY ShareIs
  <2> HIDE DEF a, b, k, l
  <2>2. a * k \in Nat /\ b * l \in Nat
    BY <2>1
  <2> DEFINE x == a * k
             y == b * l
  <2> HIDE DEF x, y
  <2>3. 20 * x = 20 * y /\ x \in Nat /\ y \in Nat
    BY <2>1, <2>2 DEF x, y
  <2>4. x = y
    BY <2>3
  <2> QED
    BY <2>1, <2>4 DEF x, y
<1>2. l <= 19 * k /\ (r < s => k < l)
  BY RankFusionAssumption
<1> HIDE DEF a, b, k, l
<1>3. ASSUME k < l PROVE b < a
  <2> SUFFICES ASSUME a <= b PROVE FALSE
    BY <1>1
  <2>1. a * k <= b * k /\ b * k < b * l
    BY <1>1, <1>3, Products
  <2>2. a * k \in Nat /\ b * k \in Nat /\ b * l \in Nat
    BY <1>1
  <2> QED
    BY <1>1, <2>1, <2>2
<1>4. a <= 19 * b
  <2> SUFFICES ASSUME 19 * b < a PROVE FALSE
    BY <1>1
  <2>1. (19 * b) * k < a * k
    BY <1>1, Products
  <2>2. b * l <= b * (19 * k)
    BY <1>1, <1>2, Products
  <2>3. b * (19 * k) = (19 * b) * k
    BY <1>1
  <2>4. (19 * b) * k \in Nat /\ a * k \in Nat /\ b * l \in Nat
    BY <1>1
  <2> QED
    BY <1>1, <2>1, <2>2, <2>3, <2>4
<1> QED
  BY <1>2, <1>3, <1>4 DEF a, b

\* What a leg credits, in twentieths.
Points(list, doc) == Credit(list, doc) \div 20

\* A leg lists ranked documents, once each.
LEMMA LegsAre ==
  ASSUME NEW list \in Legs
  PROVE  /\ list \in Seq(Ranked) /\ list \in Seq(Nat) /\ Len(list) <= MaxRank /\ DOMAIN list = 1..Len(list)
         /\ \A i, k \in DOMAIN list : list[i] = list[k] => i = k
<1>1. PICK n \in 0..MaxRank : list \in [1..n -> Ranked] /\ IsInjective(list)
  BY DEF Legs
<1>2. MaxRank \in Nat
  BY RankFusionAssumption
<1>3. list \in Seq(Ranked) /\ Len(list) = n /\ DOMAIN list = 1..n
  BY <1>1, <1>2
<1>4. Ranked \subseteq Nat
  BY DEF Ranked
<1>5. list \in Seq(Nat)
  <2>1. list \in [1..n -> Nat]
    BY <1>1, <1>4
  <2> QED
    BY <1>2, <2>1
<1>6. \A i, k \in DOMAIN list : list[i] = list[k] => i = k
  BY <1>1 DEF IsInjective
<1> QED
  BY <1>1, <1>2, <1>3, <1>5, <1>6

\* A document is credited by its rank, or not at all.
LEMMA CreditIs ==
  ASSUME NEW list \in Legs, NEW doc
  PROVE  /\ \A r \in DOMAIN list : list[r] = doc => r \in 1..MaxRank /\ Points(list, doc) = Share(r)
         /\ doc \notin ToSet(list) => Points(list, doc) = 0
         /\ Points(list, doc) \in Nat /\ Credit(list, doc) = 20 * Points(list, doc)
<1> DEFINE at == {i \in DOMAIN list : list[i] = doc}
<1>1. /\ list \in Seq(Ranked) /\ Len(list) <= MaxRank /\ MaxRank \in Nat /\ DOMAIN list = 1..Len(list)
      /\ \A i, k \in DOMAIN list : list[i] = list[k] => i = k
  BY LegsAre, RankFusionAssumption
<1>2. ASSUME NEW r \in DOMAIN list, list[r] = doc
      PROVE  r \in 1..MaxRank /\ Points(list, doc) = Share(r) /\ Credit(list, doc) = 20 * Share(r)
  <2>1. r \in 1..MaxRank /\ r \in Nat
    BY <1>1
  <2>2. at = {r}
    BY <1>1, <1>2
  <2>3. Min(at) = r
    <3>1. {r} \subseteq Nat /\ {r} # {}
      BY <2>1
    <3>2. Min({r}) \in {r}
      BY <3>1, LeastIs
    <3> QED
      BY <2>2, <3>2
  <2>4. Credit(list, doc) = Denominator \div (RRF_K + r)
    BY <2>2, <2>3 DEF Credit
  <2>5. Credit(list, doc) = 20 * Share(r) /\ Share(r) \in Nat
    BY <2>1, <2>4, ShareIs
  <2>6. \A n \in Nat : (20 * n) \div 20 = n
    OBVIOUS
  <2> QED
    BY <2>1, <2>5, <2>6 DEF Points
<1>3. ASSUME doc \notin ToSet(list) PROVE Points(list, doc) = 0 /\ Credit(list, doc) = 0
  <2>1. at = {}
    BY <1>3 DEF ToSet
  <2>2. Credit(list, doc) = 0
    BY <2>1 DEF Credit
  <2>3. 0 \div 20 = 0
    OBVIOUS
  <2> QED
    BY <2>2, <2>3 DEF Points
<1>4. CASE doc \in ToSet(list)
  <2>1. PICK r \in DOMAIN list : list[r] = doc
    BY <1>4 DEF ToSet
  <2>2. r \in 1..MaxRank /\ Points(list, doc) = Share(r) /\ Credit(list, doc) = 20 * Share(r)
    BY <1>2, <2>1
  <2>3. Points(list, doc) \in Nat
    BY <2>2, ShareIs
  <2> QED
    BY <1>2, <1>4, <2>2, <2>3
<1>5. CASE doc \notin ToSet(list)
  BY <1>2, <1>3, <1>5 DEF ToSet
<1> QED
  BY <1>4, <1>5

\* The leg that prefers one gives it more points, and any leg gives some.
LEMMA PointsFavour ==
  ASSUME NEW list \in Legs, NEW d, NEW e
  PROVE  /\ Prefers(list, d, e) => d \in ToSet(list) /\ Points(list, e) < Points(list, d)
         /\ d \in ToSet(list) => Points(list, d) # 0
<1>0. DOMAIN list = 1..Len(list) /\ list \in Seq(Ranked)
  BY LegsAre
<1>1. ASSUME Prefers(list, d, e) PROVE d \in ToSet(list) /\ Points(list, e) < Points(list, d)
  <2>1. PICK i \in DOMAIN list : list[i] = d /\ \A k \in DOMAIN list : list[k] = e => i < k
    BY <1>1 DEF Prefers
  <2>2. i \in 1..MaxRank /\ Points(list, d) = Share(i) /\ Share(i) \in Nat \ {0}
    BY <2>1, CreditIs, ShareIs
  <2>3. CASE e \in ToSet(list)
    <3>1. PICK k \in DOMAIN list : list[k] = e
      BY <2>3 DEF ToSet
    <3>2. k \in 1..MaxRank /\ Points(list, e) = Share(k) /\ i < k
      BY <2>1, <3>1, CreditIs
    <3> QED
      BY <2>1, <2>2, <3>2, SharesFall DEF ToSet
  <2>4. CASE e \notin ToSet(list)
    <3>1. Points(list, e) = 0
      BY <2>4, CreditIs
    <3> QED
      BY <2>1, <2>2, <3>1 DEF ToSet
  <2> QED
    BY <2>3, <2>4
<1>2. ASSUME d \in ToSet(list) PROVE Points(list, d) # 0
  <2>1. PICK i \in DOMAIN list : list[i] = d
    BY <1>2 DEF ToSet
  <2>2. i \in 1..MaxRank /\ Points(list, d) = Share(i)
    BY <2>1, CreditIs
  <2> QED
    BY <2>2, ShareIs
<1> QED
  BY <1>1, <1>2

\* Points of two documents, of one leg or of two.
LEMMA PointsCompare ==
  ASSUME NEW l \in Legs, NEW m \in Legs, NEW d \in ToSet(l), NEW e \in ToSet(m)
  PROVE  Points(m, e) <= 19 * Points(l, d)
<1>1. PICK i \in DOMAIN l : l[i] = d
  BY DEF ToSet
<1>2. PICK k \in DOMAIN m : m[k] = e
  BY DEF ToSet
<1>3. i \in 1..MaxRank /\ Points(l, d) = Share(i)
  BY <1>1, CreditIs
<1>4. k \in 1..MaxRank /\ Points(m, e) = Share(k)
  BY <1>2, CreditIs
<1> QED
  BY <1>3, <1>4, SharesFall

\* The score of two legs is the sum of their credits.
LEMMA ScoreIs ==
  ASSUME NEW fts \in Seq(Nat), NEW vec \in Seq(Nat), NEW doc
  PROVE  Score(<<fts, vec>>, doc) = Credit(fts, doc) + Credit(vec, doc)
<1> DEFINE lists == <<fts, vec>>
           one == Credit(lists[1], doc)
           both == one + Credit(lists[2], doc)
           P(t) == t = [l \in 0..Len(lists) |-> IF l = 0 THEN 0 ELSE t[l - 1] + Credit(lists[l], doc)]
           t0 == [l \in 0..2 |-> IF l = 0 THEN 0 ELSE IF l = 1 THEN one ELSE both]
<1>1. Len(lists) = 2 /\ one \in Nat /\ Credit(lists[2], doc) \in Nat /\ both \in Nat
  BY CreditIsNat
<1>2. Score(lists, doc) = (CHOOSE t : P(t))[2]
  BY <1>1 DEF Score
<1>3. P(t0)
  <2> HIDE DEF one, both
  <2>1. ASSUME NEW l \in 0..2 PROVE t0[l] = IF l = 0 THEN 0 ELSE t0[l - 1] + Credit(lists[l], doc)
    <3>1. CASE l = 0
      BY <3>1
    <3>2. CASE l = 1
      BY <3>2, <1>1 DEF one
    <3>3. CASE l = 2
      BY <3>3, <1>1 DEF both
    <3> QED
      BY <3>1, <3>2, <3>3
  <2> QED
    BY <1>1, <2>1
<1> DEFINE c == CHOOSE t : P(t)
<1>4. P(c)
  BY <1>3
<1> HIDE DEF c
<1>5. c[0] = 0 /\ c[1] = c[0] + Credit(lists[1], doc) /\ c[2] = c[1] + Credit(lists[2], doc)
  BY <1>1, <1>4
<1>6. c[2] = Credit(lists[1], doc) + Credit(lists[2], doc)
  BY <1>1, <1>5
<1> QED
  BY <1>2, <1>6 DEF c

\* What a ranking puts ahead.
Higher(S, score) ==
  {p \in S \X S : score[p[1]] > score[p[2]] \/ (score[p[1]] = score[p[2]] /\ p[1] < p[2])}

\* Ranking by score is in the order of the scores.
LEMMA RankedInOrder ==
  ASSUME NEW S, IsFiniteSet(S), S \subseteq Nat, NEW score \in [S -> Int]
  PROVE  IsPlaced(ByScore(score), S, Higher(S, score))
<1> DEFINE R == Higher(S, score)
           n == Cardinality(S)
           g == ByScore(score)
<1>1. Orders(S, R)
  BY DEF Orders, Higher
<1>2. ASSUME NEW x \in S
      PROVE  Place(S, R, x) = Cardinality({y \in S : score[y] > score[x] \/ (score[y] = score[x] /\ y < x)})
  <2>1. {y \in S : score[y] > score[x] \/ (score[y] = score[x] /\ y < x)} = {y \in S : <<y, x>> \in R}
    BY DEF Higher
  <2> QED
    BY <2>1 DEF Place
<1> HIDE DEF R
<1>3. n \in Nat /\ \A k \in 1..n : \E x \in S : Place(S, R, x) = k - 1
  <2> HIDE DEF g
  <2>1. IsFiniteSet(S)
    OBVIOUS
  <2> QED
    BY ONLY <1>1, <2>1, PlaceTaken
<1>4. DOMAIN score = S
  OBVIOUS
<1>5. ASSUME NEW k \in 1..n PROVE g[k] \in S /\ Place(S, R, g[k]) = k - 1
  <2>1. \E x \in S : Cardinality({y \in S : score[y] > score[x] \/ (score[y] = score[x] /\ y < x)}) = k - 1
    BY <1>2, <1>3
  <2>2. g[k] = CHOOSE x \in S : Cardinality({y \in S : score[y] > score[x] \/ (score[y] = score[x] /\ y < x)}) = k - 1
    BY <1>4 DEF ByScore, InOrder
  <2>3. g[k] \in S /\ Cardinality({y \in S : score[y] > score[g[k]] \/ (score[y] = score[g[k]] /\ y < g[k])}) = k - 1
    BY <2>1, <2>2
  <2> QED
    BY <1>2, <2>3
<1>6. g \in [1..n -> S]
  BY <1>4, <1>5 DEF ByScore, InOrder
<1> HIDE DEF g
<1>7. IsPlaced(g, S, R)
  BY <1>1, <1>5, <1>6, PlacedInOrder
<1> QED
  BY <1>7 DEF R, g

\* What a leg ranks is finitely many numbers.
LEMMA LegIsFinite ==
  ASSUME NEW list \in Legs
  PROVE  IsFiniteSet(ToSet(list)) /\ ToSet(list) \subseteq Ranked
<1>1. list \in Seq(Ranked) /\ DOMAIN list = 1..Len(list)
  BY LegsAre
<1>2. IsFiniteSet(1..MaxRank) /\ ToSet(list) \subseteq Ranked
  BY <1>1, RankFusionAssumption, FS_Interval DEF ToSet
<1> QED
  BY <1>2, FS_Subset DEF Ranked

\* What both legs give a document, and what is left of it for a deprecated one.
PointsOfBoth(fts, vec, doc) == Points(fts, doc) + Points(vec, doc)
Weight(fts, vec, deprecated, doc) ==
  IF doc \in deprecated THEN 19 * PointsOfBoth(fts, vec, doc) ELSE 20 * PointsOfBoth(fts, vec, doc)

\* The score of a document is its weight.
LEMMA PenalisedIs ==
  ASSUME NEW fts \in Legs, NEW vec \in Legs, NEW deprecated, NEW doc
  PROVE  /\ Penalised(<<fts, vec>>, deprecated, doc) = Weight(fts, vec, deprecated, doc)
         /\ Weight(fts, vec, deprecated, doc) \in Nat
<1> DEFINE p == PointsOfBoth(fts, vec, doc)
<1>1. fts \in Seq(Nat) /\ vec \in Seq(Nat)
  BY LegsAre
<1>2. p \in Nat /\ Credit(fts, doc) + Credit(vec, doc) = 20 * p
  BY CreditIs DEF PointsOfBoth
<1>3. Score(<<fts, vec>>, doc) = 20 * p
  BY <1>1, <1>2, ScoreIs
<1> HIDE DEF p
<1>4. ((20 * p) \div 20) * 19 = 19 * p /\ 19 * p \in Nat /\ 20 * p \in Nat
  BY <1>2
<1> QED
  BY <1>3, <1>4 DEF Penalised, Weight, p

\* Fusing all, who weighs more is ahead, and who has no weight is not there.
LEMMA FusedByWeight ==
  ASSUME NEW fts \in Legs, NEW vec \in Legs, NEW deprecated,
         NEW d \in ToSet(fts) \union ToSet(vec), NEW e,
         e \in ToSet(fts) \union ToSet(vec) =>
           Weight(fts, vec, deprecated, e) < Weight(fts, vec, deprecated, d)
  PROVE  Prefers(Fuse(<<fts, vec>>, deprecated, MaxRank), d, e)
<1> DEFINE lists == <<fts, vec>>
           S == ToSet(fts) \union ToSet(vec)
           U == UNION {ToSet(lists[l]) : l \in DOMAIN lists}
           score == [x \in U |-> Penalised(lists, deprecated, x)]
           ranked == ByScore(score)
           n == Cardinality(S)
<1>1. U = S
  OBVIOUS
<1>2. IsFiniteSet(S) /\ S \subseteq Ranked /\ S \subseteq Nat
  <2>1. IsFiniteSet(ToSet(fts)) /\ IsFiniteSet(ToSet(vec)) /\ ToSet(fts) \subseteq Ranked /\ ToSet(vec) \subseteq Ranked
    BY LegIsFinite
  <2>2. IsFiniteSet(S)
    BY <2>1, FS_Union
  <2> QED
    BY <2>1, <2>2 DEF Ranked
<1>3. n \in Nat /\ n <= MaxRank /\ MaxRank \in Nat
  <2>1. MaxRank \in Nat
    BY RankFusionAssumption
  <2>2. IsFiniteSet(Ranked) /\ Cardinality(Ranked) = MaxRank
    BY <2>1, FS_Interval DEF Ranked
  <2>3. IsFiniteSet(S) /\ S \subseteq Ranked
    BY <1>2
  <2> HIDE DEF S
  <2> QED
    BY <2>1, <2>2, <2>3, FS_Subset, FS_CardinalityType
<1>4. \A x : Penalised(lists, deprecated, x) = Weight(fts, vec, deprecated, x) /\ Weight(fts, vec, deprecated, x) \in Nat
  BY PenalisedIs
<1> HIDE DEF lists, S
<1>5. score \in [S -> Int] /\ \A x \in S : score[x] = Weight(fts, vec, deprecated, x)
  BY <1>1, <1>4
<1>6. Fuse(lists, deprecated, MaxRank) = SubSeq(ranked, 1, Min({MaxRank, Len(ranked)}))
  BY DEF Fuse
<1> HIDE DEF score, U
<1>7. IsPlaced(ranked, S, Higher(S, score))
  BY <1>2, <1>5, RankedInOrder
<1> HIDE DEF ranked
<1>8. /\ ranked \in Seq(S) /\ Len(ranked) = n /\ DOMAIN ranked = 1..n
      /\ \A x \in S : \E i \in 1..n : ranked[i] = x
      /\ \A i, k \in 1..n : <<ranked[i], ranked[k]>> \in Higher(S, score) => i < k
  BY <1>3, <1>7 DEF IsPlaced
<1>9. Min({MaxRank, Len(ranked)}) = n
  <2>1. {MaxRank, n} \subseteq Nat /\ {MaxRank, n} # {}
    BY <1>3
  <2>2. Min({MaxRank, n}) \in {MaxRank, n} /\ \A x \in {MaxRank, n} : Min({MaxRank, n}) <= x
    BY <2>1, LeastIs
  <2> QED
    BY <1>3, <1>8, <2>2
<1>10. Fuse(lists, deprecated, MaxRank) = ranked
  BY <1>3, <1>6, <1>8, <1>9
<1>11. PICK i \in 1..n : ranked[i] = d
  BY <1>8 DEF S
<1>12. ASSUME NEW k \in 1..n, ranked[k] = e PROVE i < k
  <2>1. e \in S /\ d \in S
    BY <1>8, <1>11, <1>12
  <2>2. score[e] < score[d] /\ score[e] \in Int /\ score[d] \in Int
    BY <2>1, <1>5 DEF S
  <2>3. <<d, e>> \in Higher(S, score)
    BY <2>1, <2>2 DEF Higher
  <2> QED
    BY <1>8, <1>11, <1>12, <2>3
<1> QED
  BY <1>8, <1>10, <1>11, <1>12 DEF Prefers, lists

\* Fusion is fair to a leg.
LEMMA FusionIsFairTo ==
  ASSUME NEW fts \in Legs
  PROVE  FusesFairly(fts)
<1> SUFFICES ASSUME NEW vec \in Legs, NEW deprecated \in SUBSET Ranked, NEW d \in Ranked, NEW e \in Ranked
    PROVE LET fused == Fuse(<<fts, vec>>, deprecated, MaxRank)
              both == ToSet(fts) \cap ToSet(vec)
              one == (ToSet(fts) \union ToSet(vec)) \ both
              ahead(list) == e \in ToSet(list) => Prefers(list, d, e)
              knows(list) == {d, e} \cap ToSet(list) # {}
          IN  /\ /\ d # e /\ (d \in deprecated => e \in deprecated)
                 /\ knows(fts) \/ knows(vec)
                 /\ knows(fts) => Prefers(fts, d, e)
                 /\ knows(vec) => Prefers(vec, d, e)
                 => Prefers(fused, d, e)
              /\ d \in both \cap deprecated /\ e \in one \ deprecated /\ ahead(fts) /\ ahead(vec)
                   => Prefers(fused, d, e)
  BY DEF FusesFairly
<1> DEFINE knows(list) == {d, e} \cap ToSet(list) # {}
           ahead(list) == e \in ToSet(list) => Prefers(list, d, e)
           w(x) == Weight(fts, vec, deprecated, x)
           f(x) == Points(fts, x)
           v(x) == Points(vec, x)
<1>1. f(d) \in Nat /\ v(d) \in Nat /\ f(e) \in Nat /\ v(e) \in Nat
  BY CreditIs
<1>2. ASSUME NEW list \in Legs
      PROVE  /\ Prefers(list, d, e) => d \in ToSet(list) /\ Points(list, e) < Points(list, d)
             /\ ~knows(list) => Points(list, d) = 0 /\ Points(list, e) = 0
  BY PointsFavour, CreditIs
<1>3. ASSUME d \in deprecated => e \in deprecated, knows(fts) \/ knows(vec),
             knows(fts) => Prefers(fts, d, e), knows(vec) => Prefers(vec, d, e)
      PROVE  Prefers(Fuse(<<fts, vec>>, deprecated, MaxRank), d, e)
  <2>1. d \in ToSet(fts) \union ToSet(vec)
    BY <1>2, <1>3
  <2>2. f(e) <= f(d) /\ v(e) <= v(d) /\ (f(e) < f(d) \/ v(e) < v(d))
    BY <1>1, <1>2, <1>3
  <2> HIDE DEF f, v
  <2>3. f(e) + v(e) < f(d) + v(d)
    BY <1>1, <2>2
  <2>4. w(e) < w(d)
    BY <1>1, <1>3, <2>3 DEF Weight, PointsOfBoth, f, v
  <2> QED
    BY <2>1, <2>4, FusedByWeight
<1>4. ASSUME d \in ToSet(fts), d \in ToSet(vec), d \in deprecated, e \notin deprecated,
             NEW l \in Legs, NEW m \in Legs, {l, m} = {fts, vec} \/ (l = fts /\ m = vec),
             e \in ToSet(l), e \notin ToSet(m), Prefers(l, d, e),
             PointsOfBoth(fts, vec, d) = Points(l, d) + Points(m, d), PointsOfBoth(fts, vec, e) = Points(l, e) + Points(m, e)
      PROVE  Prefers(Fuse(<<fts, vec>>, deprecated, MaxRank), d, e)
  <2> DEFINE a == Points(l, d)
             b == Points(m, d)
             c == Points(l, e)
  <2>1. a \in Nat /\ b \in Nat /\ c \in Nat /\ c < a /\ Points(m, e) = 0
    BY <1>4, CreditIs, PointsFavour
  <2>2. d \in ToSet(m)
    BY <1>4
  <2>3. c <= 19 * b
    BY <1>4, <2>2, PointsCompare
  <2>4. w(d) = 19 * (a + b) /\ w(e) = 20 * c
    BY <1>4, <2>1 DEF Weight
  <2> HIDE DEF a, b, c, w
  <2>5. w(e) < w(d)
    BY <2>1, <2>3, <2>4
  <2> QED
    BY <1>4, <2>5, FusedByWeight DEF w
<1>5. ASSUME d \in ToSet(fts) \cap ToSet(vec), d \in deprecated,
             e \in (ToSet(fts) \union ToSet(vec)) \ (ToSet(fts) \cap ToSet(vec)), e \notin deprecated,
             ahead(fts), ahead(vec)
      PROVE  Prefers(Fuse(<<fts, vec>>, deprecated, MaxRank), d, e)
  <2>1. CASE e \in ToSet(fts)
    BY <1>4, <1>5, <2>1 DEF PointsOfBoth
  <2>2. CASE e \notin ToSet(fts)
    <3>1. PointsOfBoth(fts, vec, d) = v(d) + f(d) /\ PointsOfBoth(fts, vec, e) = v(e) + f(e)
      BY <1>1 DEF PointsOfBoth
    <3> QED
      BY <1>4, <1>5, <2>2, <3>1
  <2> QED
    BY <2>1, <2>2
<1> QED
  BY <1>3, <1>5

-----------------------------------------------------------------------------
(* The cutting of a text.                                                  *)

\* What the windows hold.
Held(windows) == UNION {ToSet(windows[w]) : w \in DOMAIN windows}
Chars == Nat \X Nat

\* One list after another has what either has.
LEMMA JoinHas ==
  ASSUME NEW U, NEW a \in Seq(U), NEW b \in Seq(U)
  PROVE  /\ a \o b \in Seq(U) /\ Len(a \o b) = Len(a) + Len(b)
         /\ ToSet(a \o b) = ToSet(a) \union ToSet(b)
<1> DEFINE c == a \o b
<1>1. c \in Seq(U) /\ Len(c) = Len(a) + Len(b) /\ Len(a) \in Nat /\ Len(b) \in Nat
      /\ DOMAIN a = 1..Len(a) /\ DOMAIN b = 1..Len(b) /\ DOMAIN c = 1..(Len(a) + Len(b))
  OBVIOUS
<1>2. ASSUME NEW i \in DOMAIN a PROVE i \in DOMAIN c /\ c[i] = a[i]
  BY <1>1
<1>3. ASSUME NEW i \in DOMAIN b PROVE i + Len(a) \in DOMAIN c /\ c[i + Len(a)] = b[i]
  BY <1>1
<1>4. ASSUME NEW i \in DOMAIN c
      PROVE  \/ i \in DOMAIN a /\ c[i] = a[i]
             \/ i - Len(a) \in DOMAIN b /\ c[i] = b[i - Len(a)]
  BY <1>1
<1> HIDE DEF c
<1>5. \A x : x \in ToSet(c) <=> x \in ToSet(a) \union ToSet(b)
  BY <1>2, <1>3, <1>4 DEF ToSet
<1> QED
  BY <1>1, <1>5 DEF c

\* What is held by one list after another, and by one window more.
LEMMA HeldOf ==
  ASSUME NEW T
  PROVE  /\ \A v, w \in Seq(Seq(T)) : Held(v \o w) = Held(v) \union Held(w)
         /\ \A v \in Seq(Seq(T)), c \in Seq(T) : Held(Append(v, c)) = Held(v) \union ToSet(c)
<1>1. ASSUME NEW u PROVE Held(u) = UNION {ToSet(c) : c \in ToSet(u)}
  BY DEF Held, ToSet
<1>3. ASSUME NEW v \in Seq(Seq(T)), NEW w \in Seq(Seq(T))
      PROVE  Held(v \o w) = Held(v) \union Held(w)
  <2>1. ToSet(v \o w) = ToSet(v) \union ToSet(w)
    BY JoinHas
  <2> QED
    BY <1>1, <2>1
<1>4. ASSUME NEW v \in Seq(Seq(T)), NEW c \in Seq(T)
      PROVE  Held(Append(v, c)) = Held(v) \union ToSet(c)
  <2>1. Append(v, c) = v \o <<c>> /\ <<c>> \in Seq(Seq(T))
    OBVIOUS
  <2>2. Held(<<c>>) = ToSet(c)
    BY DEF Held
  <2> QED
    BY <1>3, <2>1, <2>2
<1> QED
  BY <1>3, <1>4

\* The stride goes forward, by no more than a window.
LEMMA StrideIs == Stride \in Nat \ {0} /\ Stride <= TARGET_CHUNK_CHARS
<1> DEFINE a == TARGET_CHUNK_CHARS - CHUNK_OVERLAP_CHARS
<1>1. TARGET_CHUNK_CHARS \in Nat \ {0} /\ CHUNK_OVERLAP_CHARS \in Nat
  BY ChunksAssumption
<1>2. a \in Int /\ a <= TARGET_CHUNK_CHARS
  BY <1>1
<1>3. Stride = Max({1, a})
  BY DEF Stride
<1> HIDE DEF a
<1>4. \E x \in {1, a} : \A y \in {1, a} : y <= x
  BY <1>2
<1>5. Max({1, a}) \in {1, a} /\ \A y \in {1, a} : y <= Max({1, a})
  BY <1>4 DEF Max
<1> QED
  BY <1>1, <1>2, <1>3, <1>5

\* The less of two,
LEMMA LessOf ==
  ASSUME NEW a \in Int, NEW b \in Int
  PROVE  Min({a, b}) = IF a <= b THEN a ELSE b
<1>1. \E x \in {a, b} : \A y \in {a, b} : x <= y
  OBVIOUS
<1>2. Min({a, b}) \in {a, b} /\ \A y \in {a, b} : Min({a, b}) <= y
  BY <1>1 DEF Min
<1> QED
  BY <1>2

\* and the more.
LEMMA MoreOf ==
  ASSUME NEW a \in Int, NEW b \in Int
  PROVE  Max({a, b}) = IF a <= b THEN b ELSE a
<1>1. \E x \in {a, b} : \A y \in {a, b} : y <= x
  OBVIOUS
<1>2. Max({a, b}) \in {a, b} /\ \A y \in {a, b} : y <= Max({a, b})
  BY <1>1 DEF Max
<1> QED
  BY <1>2

\* How many cuts there are: enough to come to the end.
LEMMA CutsAre ==
  ASSUME NEW l \in Nat \ {0}, NEW s \in Nat \ {0}
  PROVE  LET cuts == {k \in 0..(l - 1) : k % s = 0} IN
         /\ Cardinality(cuts) \in Nat \ {0}
         /\ (Cardinality(cuts) - 1) * s <= l - 1
         /\ l <= Cardinality(cuts) * s
<1> DEFINE m == ((l - 1) \div s) + 1
           cuts == {k \in 0..(l - 1) : k % s = 0}
           f == [i \in 1..m |-> (i - 1) * s]
<1>1. m \in Nat \ {0} /\ (m - 1) * s <= l - 1 /\ l <= m * s
  <2> DEFINE a == l - 1
             q == a \div s
             r == a % s
  <2>1. a \in Nat
    OBVIOUS
  <2> HIDE DEF a
  <2>2. q \in Nat /\ r \in 0..(s - 1) /\ a = s * q + r
    BY <2>1
  <2> HIDE DEF q, r
  <2>3. s * q = q * s /\ (q + 1) * s = q * s + s /\ q * s \in Nat
    BY <2>2
  <2>4. q * s <= a /\ a + 1 <= (q + 1) * s
    BY <2>1, <2>2, <2>3
  <2>5. m = q + 1 /\ l = a + 1 /\ m - 1 = q
    BY <2>1, <2>2 DEF a, q
  <2> QED
    BY <2>1, <2>2, <2>4, <2>5
<1> HIDE DEF m
<1>2. ASSUME NEW i \in 1..m PROVE f[i] \in cuts
  <2>1. i - 1 \in Nat /\ m - 1 \in Nat /\ i - 1 <= m - 1 /\ f[i] = (i - 1) * s
    BY <1>1
  <2>2. (i - 1) * s <= (m - 1) * s /\ (i - 1) * s \in Nat /\ (m - 1) * s \in Nat
    BY <2>1, Products
  <2>3. \A n \in Nat : (n * s) % s = 0
    OBVIOUS
  <2> QED
    BY <1>1, <2>1, <2>2, <2>3
<1>3. ASSUME NEW k \in cuts PROVE \E i \in 1..m : f[i] = k
  <2> DEFINE q == k \div s
  <2>1. k \in Nat /\ k <= l - 1 /\ k % s = 0
    OBVIOUS
  <2>2. q \in Nat /\ k = q * s
    BY <2>1
  <2> HIDE DEF q
  <2>3. q < m
    <3> SUFFICES ASSUME m <= q PROVE FALSE
      BY <1>1, <2>2
    <3>1. m * s <= q * s /\ m * s \in Nat /\ q * s \in Nat
      BY <1>1, <2>2, Products
    <3> QED
      BY <1>1, <2>1, <2>2, <3>1
  <2>4. q + 1 \in 1..m /\ f[q + 1] = k
    BY <1>1, <2>2, <2>3
  <2> QED
    BY <2>4
<1>4. ASSUME NEW i \in 1..m, NEW j \in 1..m, f[i] = f[j] PROVE i = j
  <2>1. f[i] = (i - 1) * s /\ f[j] = (j - 1) * s /\ i - 1 \in Nat /\ j - 1 \in Nat
    BY <1>1
  <2>2. i - 1 < j - 1 => (i - 1) * s < (j - 1) * s
    BY <2>1, Products
  <2>3. j - 1 < i - 1 => (j - 1) * s < (i - 1) * s
    BY <2>1, Products
  <2>4. (i - 1) * s \in Nat /\ (j - 1) * s \in Nat
    BY <2>1
  <2> QED
    BY <1>1, <1>4, <2>1, <2>2, <2>3, <2>4
<1> HIDE DEF f, cuts
<1>5. f \in [1..m -> cuts]
  BY <1>2 DEF f
<1>6. f \in Bijection(1..m, cuts)
  BY <1>3, <1>4, <1>5 DEF Bijection, Injection, Surjection, IsInjective
<1>7. IsFiniteSet(1..m) /\ Cardinality(1..m) = m
  BY <1>1, FS_Interval
<1>8. Cardinality(cuts) = m
  <2>1. ExistsBijection(1..m, cuts)
    BY <1>6 DEF ExistsBijection
  <2> QED
    BY <1>7, <2>1, FS_Bijection
<1> QED
  BY <1>1, <1>8 DEF cuts

\* A block over the target is cut into windows that hold it from its start, and
\* all of it unless there was no more room.
LEMMA HardSplitIs ==
  ASSUME NEW C, NEW text \in Seq(C), text # <<>>, NEW room \in Nat
  PROVE  LET cut == HardSplit(text, room) IN
         /\ cut \in Seq(Seq(C)) /\ Len(cut) <= room
         /\ \A w \in DOMAIN cut : Len(cut[w]) <= TARGET_CHUNK_CHARS
         /\ \E u \in 0..Len(text) : /\ Held(cut) = {text[i] : i \in 1..u}
                                    /\ Len(cut) < room => u = Len(text)
<1> DEFINE l == Len(text)
           s == Stride
           t == TARGET_CHUNK_CHARS
           cuts == {k \in 0..(l - 1) : k % s = 0}
           m == Cardinality(cuts)
           n == Min({m, room})
           from(w) == (w - 1) * s
           to(w) == Min({from(w) + t, l})
           cut == HardSplit(text, room)
<1>1. l \in Nat \ {0} /\ s \in Nat \ {0} /\ s <= t /\ t \in Nat \ {0} /\ DOMAIN text = 1..l
  BY StrideIs, ChunksAssumption
<1>2. m \in Nat \ {0} /\ (m - 1) * s <= l - 1 /\ l <= m * s
  <2> HIDE DEF l, s
  <2> QED
    BY <1>1, CutsAre
<1>3. n = (IF m <= room THEN m ELSE room) /\ n \in Nat
  <2> HIDE DEF m
  <2> QED
    BY <1>2, LessOf
<1>4. cut = [w \in 1..n |-> SubSeq(text, from(w) + 1, to(w))]
  BY DEF HardSplit
<1> HIDE DEF l, s, t, m, n, cuts, cut
\* Where each window begins and ends.
<1>5. ASSUME NEW w \in 1..n
      PROVE  /\ from(w) \in Nat /\ from(w) < l
             /\ to(w) \in Nat /\ to(w) <= l /\ to(w) <= from(w) + t
             /\ from(w) < to(w) /\ (to(w) = l \/ to(w) = from(w) + t)
  <2>1. w - 1 \in Nat /\ m - 1 \in Nat /\ w - 1 <= m - 1
    BY <1>2, <1>3
  <2>2. (w - 1) * s <= (m - 1) * s /\ (w - 1) * s \in Nat /\ (m - 1) * s \in Nat
    BY <1>1, <2>1, Products
  <2>3. from(w) \in Nat /\ from(w) < l
    BY <1>1, <1>2, <2>2
  <2> HIDE DEF from
  <2>4. to(w) = IF from(w) + t <= l THEN from(w) + t ELSE l
    BY <1>1, <2>3, LessOf
  <2> HIDE DEF to
  <2> QED
    BY <1>1, <2>3, <2>4
<1> DEFINE f(w) == from(w)
           e(w) == to(w)
<1> HIDE DEF from, to
<1>6. ASSUME NEW w \in 1..n
      PROVE  /\ cut[w] \in Seq(C) /\ Len(cut[w]) = to(w) - from(w) /\ Len(cut[w]) <= t
             /\ ToSet(cut[w]) = {text[i] : i \in (from(w) + 1)..to(w)}
  <2> DEFINE a == from(w)
             b == to(w)
  <2>1. a \in Nat /\ b \in Nat /\ b <= l /\ b <= a + t /\ a < b
    BY <1>5
  <2>2. cut[w] = SubSeq(text, a + 1, b)
    BY <1>4
  <2> DEFINE c == SubSeq(text, a + 1, b)
  <2> HIDE DEF a, b
  <2>3. c \in Seq(C) /\ Len(c) = b - a /\ DOMAIN c = 1..(b - a) /\ \A i \in 1..(b - a) : c[i] = text[a + i]
    BY <1>1, <2>1 DEF l
  <2>4. ASSUME NEW i \in (a + 1)..b PROVE i - a \in 1..(b - a) /\ c[i - a] = text[i]
    BY <2>1, <2>3
  <2>5. ASSUME NEW i \in 1..(b - a) PROVE a + i \in (a + 1)..b
    BY <2>1
  <2> HIDE DEF c
  <2>6. ToSet(c) = {text[i] : i \in (a + 1)..b}
    BY <2>3, <2>4, <2>5 DEF ToSet
  <2>7. b - a <= t
    BY <1>1, <2>1
  <2> QED
    BY <2>2, <2>3, <2>6, <2>7 DEF a, b, c
<1>7. cut \in Seq(Seq(C)) /\ Len(cut) = n /\ DOMAIN cut = 1..n
  <2>1. DOMAIN cut = 1..n
    BY <1>4
  <2>2. cut \in [1..n -> Seq(C)]
    BY <1>4, <1>6
  <2> QED
    BY <1>3, <2>1, <2>2
\* One after another they leave nothing out.
<1>8. CASE n = 0
  <2>1. Held(cut) = {} /\ 1..0 = {}
    BY <1>7, <1>8 DEF Held
  <2>2. n = room
    BY <1>2, <1>3, <1>8
  <2>3. 0 \in 0..l
    BY <1>1
  <2>4. Held(cut) = {text[i] : i \in 1..0}
    BY <2>1
  <2> QED
    BY <1>3, <1>7, <1>8, <2>2, <2>3, <2>4 DEF cut, l, t
<1>9. CASE n # 0
  <2> DEFINE u == to(n)
  <2>1. n \in 1..n /\ u \in 0..l
    BY <1>1, <1>3, <1>5, <1>9
  <2>2. ASSUME NEW w \in 1..n PROVE to(w) <= u
    <3>1. w - 1 \in Nat /\ n - 1 \in Nat /\ w - 1 <= n - 1
      BY <1>3
    <3>2. (w - 1) * s <= (n - 1) * s /\ (w - 1) * s \in Nat /\ (n - 1) * s \in Nat
      BY <1>1, <3>1, Products
    <3>3. from(w) <= from(n) /\ from(w) \in Nat /\ from(n) \in Nat
      BY <3>2 DEF from
    <3>4. to(w) <= from(w) + t /\ to(w) <= l /\ to(w) \in Nat /\ (to(n) = l \/ to(n) = from(n) + t)
      BY <1>5, <2>1
    <3> QED
      BY <1>1, <3>3, <3>4
  <2>3. ASSUME NEW i \in 1..u PROVE \E w \in 1..n : i \in (from(w) + 1)..to(w)
    <3> DEFINE q == (i - 1) \div s
    <3>1. i - 1 \in Nat /\ i \in Nat /\ i <= u /\ u \in Nat /\ u <= l
      BY <1>1, <2>1
    <3>2. q \in Nat /\ q * s <= i - 1 /\ i - 1 < (q + 1) * s
      <4> DEFINE a == i - 1
                 k == a \div s
                 r == a % s
      <4>1. a \in Nat
        BY <3>1
      <4> HIDE DEF a
      <4>2. k \in Nat /\ r \in 0..(s - 1) /\ a = s * k + r
        BY <1>1, <4>1
      <4> HIDE DEF k, r
      <4>3. s * k = k * s /\ (k + 1) * s = k * s + s /\ k * s \in Nat
        BY <1>1, <4>2
      <4>4. k * s <= a /\ a < (k + 1) * s
        BY <1>1, <4>1, <4>2, <4>3
      <4> QED
        BY <4>2, <4>4 DEF a, k
    <3> HIDE DEF q
    <3>3. CASE q < n
      <4>1. q + 1 \in 1..n /\ from(q + 1) = q * s
        <5>1. q + 1 - 1 = q
          BY <3>2
        <5> QED
          BY <1>3, <3>2, <3>3, <5>1 DEF from
      <4>2. (q + 1) * s = q * s + s /\ q * s \in Nat
        BY <1>1, <3>2
      <4>3. i <= from(q + 1) + t /\ i <= l /\ from(q + 1) + 1 <= i
        BY <1>1, <3>1, <3>2, <4>1, <4>2
      <4>4. to(q + 1) \in Nat /\ (to(q + 1) = l \/ to(q + 1) = from(q + 1) + t)
        BY <1>5, <4>1
      <4> QED
        BY <3>1, <4>1, <4>2, <4>3, <4>4
    <3>4. CASE n <= q
      <4>1. n - 1 \in Nat /\ n - 1 <= q
        BY <1>3, <1>9, <3>2, <3>4
      <4>2. (n - 1) * s <= q * s /\ (n - 1) * s \in Nat /\ q * s \in Nat
        BY <1>1, <3>2, <4>1, Products
      <4>3. from(n) + 1 <= i
        BY <3>1, <3>2, <4>2 DEF from
      <4>4. from(n) \in Nat
        BY <1>5, <2>1
      <4> QED
        BY <2>1, <3>1, <4>3, <4>4
    <3> QED
      BY <1>3, <3>2, <3>3, <3>4
  <2>4. ASSUME NEW w \in 1..n, NEW i \in (from(w) + 1)..to(w) PROVE i \in 1..u
    <3>1. from(w) \in Nat /\ to(w) \in Nat /\ to(w) <= u /\ u \in Nat
      BY <1>5, <2>1, <2>2
    <3> QED
      BY <3>1
  <2> HIDE DEF u
  <2>5. Held(cut) = {text[i] : i \in 1..u}
    <3>1. ASSUME NEW x PROVE x \in Held(cut) <=> \E w \in 1..n : x \in {text[i] : i \in (from(w) + 1)..to(w)}
      BY <1>6, <1>7 DEF Held
    <3> QED
      BY <2>3, <2>4, <3>1
  <2>6. n < room => u = l
    <3> SUFFICES ASSUME n < room PROVE u = l
      OBVIOUS
    <3>1. n = m
      BY <1>2, <1>3
    <3>2. from(n) = (m - 1) * s /\ m * s = (m - 1) * s + s /\ (m - 1) * s \in Nat
      BY <1>1, <1>2, <3>1 DEF from
    <3>3. l <= from(n) + t
      BY <1>1, <1>2, <3>2
    <3>4. to(n) <= l /\ to(n) \in Nat /\ (to(n) = l \/ to(n) = from(n) + t) /\ from(n) \in Nat
      BY <1>5, <2>1
    <3> QED
      BY <1>1, <3>3, <3>4 DEF u
  <2>7. \E v \in 0..l : Held(cut) = {text[i] : i \in 1..v} /\ (Len(cut) < room => v = l)
    BY <1>7, <2>1, <2>5, <2>6
  <2>8. Len(cut) <= room /\ \A w \in DOMAIN cut : Len(cut[w]) <= t
    BY <1>2, <1>3, <1>6, <1>7
  <2> QED
    BY <1>7, <2>7, <2>8 DEF cut, l, t
<1> QED
  BY <1>8, <1>9

\* What overlaps is the end of a window, no longer than the overlap.
LEMMA OverlapIs ==
  ASSUME NEW C, NEW text \in Seq(C)
  PROVE  /\ OverlapOf(text) \in Seq(C) /\ Len(OverlapOf(text)) <= CHUNK_OVERLAP_CHARS
         /\ ToSet(OverlapOf(text)) \subseteq ToSet(text)
<1> DEFINE l == Len(text)
           a == l - CHUNK_OVERLAP_CHARS + 1
           k == Max({1, a})
           c == SubSeq(text, k, l)
<1>1. l \in Nat /\ CHUNK_OVERLAP_CHARS \in Nat /\ a \in Int /\ DOMAIN text = 1..l
  BY ChunksAssumption
<1>2. k = IF 1 <= a THEN a ELSE 1
  <2> HIDE DEF a
  <2> QED
    BY <1>1, MoreOf
<1>3. k \in Nat \ {0} /\ l - k + 1 <= CHUNK_OVERLAP_CHARS
  BY <1>1, <1>2
<1>4. OverlapOf(text) = c
  BY DEF OverlapOf
<1> HIDE DEF k, a
<1>5. CASE k <= l
  <2>1. c \in Seq(C) /\ Len(c) = l - k + 1 /\ DOMAIN c = 1..(l - k + 1)
        /\ \A i \in 1..(l - k + 1) : c[i] = text[k + i - 1]
    BY <1>1, <1>3, <1>5
  <2>2. ASSUME NEW i \in DOMAIN c PROVE c[i] \in ToSet(text)
    <3>1. k + i - 1 \in DOMAIN text /\ c[i] = text[k + i - 1]
      BY <1>1, <1>3, <2>1
    <3> HIDE DEF c
    <3> QED
      BY <3>1 DEF ToSet
  <2> HIDE DEF c
  <2>3. ToSet(c) \subseteq ToSet(text)
    BY <2>2 DEF ToSet
  <2> QED
    BY <1>3, <1>4, <2>1, <2>3
<1>6. CASE l < k
  <2>1. c = <<>>
    BY <1>1, <1>3, <1>6
  <2>2. ToSet(<<>>) = {}
    BY DEF ToSet
  <2> QED
    BY <1>1, <1>4, <2>1, <2>2
<1> QED
  BY <1>1, <1>3, <1>5, <1>6

\* Two texts with a break between them, which is no character of either.
LEMMA JoinedIs ==
  ASSUME NEW a \in Seq(Chars), NEW b \in Seq(Chars)
  PROVE  /\ Joined(a, b) \in Seq(Chars)
         /\ Len(Joined(a, b)) <= Len(a) + 2 + Len(b)
         /\ a = <<>> => Joined(a, b) = b
         /\ ToSet(a) \union ToSet(b) \subseteq ToSet(Joined(a, b))
         /\ \A c \in ToSet(Joined(a, b)) : c \in ToSet(a) \union ToSet(b) \/ c[1] = 0
<1>1. /\ Break \in Seq(Chars) /\ Len(Break) = 2
      /\ \A c \in ToSet(Break) : c[1] = 0
  <2>1. Break \in Seq(Chars) /\ Len(Break) = 2
    BY DEF Break, Chars
  <2>2. DOMAIN Break = 1..2 /\ Break[1][1] = 0 /\ Break[2][1] = 0
    BY DEF Break
  <2>3. \A i \in 1..2 : Break[i][1] = 0
    BY <2>2
  <2> QED
    BY <2>1, <2>2, <2>3 DEF ToSet
<1>2. CASE a = <<>>
  <2>1. Joined(a, b) = b /\ ToSet(a) = {}
    BY <1>2 DEF Joined, ToSet
  <2> QED
    BY <1>2, <2>1
<1>3. CASE a # <<>>
  <2> DEFINE ab == a \o Break
             c == ab \o b
  <2>1. ab \in Seq(Chars) /\ Len(ab) = Len(a) + 2 /\ ToSet(ab) = ToSet(a) \union ToSet(Break)
    <3>1. Break \in Seq(Chars) /\ Len(Break) = 2
      BY <1>1
    <3>2. Len(ab) = Len(a) + Len(Break) /\ ab \in Seq(Chars) /\ ToSet(ab) = ToSet(a) \union ToSet(Break)
      <4>1. a \in Seq(Chars)
        OBVIOUS
      <4>2. \A x, y \in Seq(Chars) : /\ x \o y \in Seq(Chars) /\ Len(x \o y) = Len(x) + Len(y)
                                     /\ ToSet(x \o y) = ToSet(x) \union ToSet(y)
        BY JoinHas
      <4> QED
        BY ONLY <3>1, <4>1, <4>2
    <3> QED
      BY <3>1, <3>2
  <2> HIDE DEF ab
  <2>2. c \in Seq(Chars) /\ Len(c) = Len(ab) + Len(b) /\ ToSet(c) = ToSet(ab) \union ToSet(b)
    BY <2>1, JoinHas
  <2>3. Joined(a, b) = c
    BY <1>3 DEF Joined, ab
  <2> HIDE DEF c
  <2>4. Len(a) \in Nat /\ Len(b) \in Nat
    OBVIOUS
  <2> QED
    BY <1>1, <1>3, <2>1, <2>2, <2>3, <2>4
<1> QED
  BY <1>2, <1>3

\* The characters of the first blocks of a text.
TextOf(lengths, n) == {c \in Chars : c[1] \in 1..n /\ c[2] \in 1..lengths[c[1]]}
\* What the windows lack comes after what they hold.
LacksTheEnd(lengths, windows) ==
  \A c \in TextOf(lengths, Len(lengths)) \ Held(windows) :
    \A d \in TextOf(lengths, Len(lengths)) \cap Held(windows) : Before(d, c)
MaxLength == TARGET_CHUNK_CHARS + CHUNK_OVERLAP_CHARS + 2

\* The first n blocks are packed: while there is room nothing of them is lost.
IsPacked(lengths, n, acc) ==
  /\ acc = [windows |-> acc.windows, cur |-> acc.cur]
  /\ acc.windows \in Seq(Seq(Chars)) /\ acc.cur \in Seq(Chars)
  /\ Len(acc.windows) <= MAX_WINDOWS
  /\ \A w \in DOMAIN acc.windows : Len(acc.windows[w]) <= MaxLength
  /\ Len(acc.cur) <= MaxLength
  /\ Len(acc.windows) < MAX_WINDOWS =>
       /\ TextOf(lengths, n) \subseteq Held(acc.windows) \union ToSet(acc.cur)
       /\ \A c \in Held(acc.windows) \union ToSet(acc.cur) : c[1] <= n
  /\ Len(acc.windows) = MAX_WINDOWS => LacksTheEnd(lengths, acc.windows)

\* The window under way is pushed, if there is one.
LEMMA PushIs ==
  ASSUME NEW acc, acc.windows \in Seq(Seq(Chars)), acc.cur \in Seq(Chars),
         \A w \in DOMAIN acc.windows : Len(acc.windows[w]) <= MaxLength, Len(acc.cur) <= MaxLength,
         Len(acc.windows) < MAX_WINDOWS
  PROVE  /\ Push(acc) \in Seq(Seq(Chars)) /\ Len(Push(acc)) <= MAX_WINDOWS
         /\ Held(Push(acc)) = Held(acc.windows) \union ToSet(acc.cur)
         /\ \A w \in DOMAIN Push(acc) : Len(Push(acc)[w]) <= MaxLength
<1> DEFINE v == acc.windows
           c == acc.cur
<1>1. v \in Seq(Seq(Chars)) /\ c \in Seq(Chars) /\ Len(v) \in Nat /\ MAX_WINDOWS \in Nat /\ Len(v) < MAX_WINDOWS
      /\ Len(c) <= MaxLength /\ \A w \in DOMAIN v : Len(v[w]) <= MaxLength
  BY ChunksAssumption
<1>2. Push(acc) = IF c = <<>> THEN v ELSE Append(v, c)
  BY DEF Push
<1> HIDE DEF v, c
<1>3. CASE c = <<>>
  <2>1. ToSet(c) = {}
    BY <1>3 DEF ToSet
  <2> QED
    BY <1>1, <1>2, <1>3, <2>1 DEF v, c
<1>4. CASE c # <<>>
  <2> DEFINE w == Append(v, c)
  <2>1. w \in Seq(Seq(Chars)) /\ Len(w) = Len(v) + 1 /\ \A i \in DOMAIN w : w[i] = c \/ (i \in DOMAIN v /\ w[i] = v[i])
    BY <1>1
  <2>2. Held(w) = Held(v) \union ToSet(c)
    BY <1>1, HeldOf
  <2> HIDE DEF w
  <2>3. Len(w) <= MAX_WINDOWS
    BY <1>1, <2>1
  <2>4. \A i \in DOMAIN w : Len(w[i]) <= MaxLength
    BY <1>1, <2>1
  <2>5. Push(acc) = w
    BY <1>2, <1>4 DEF w
  <2> QED
    BY <2>1, <2>2, <2>3, <2>4, <2>5 DEF v, c
<1> QED
  BY <1>3, <1>4

\* A block more: its characters more.
LEMMA BlockIs ==
  ASSUME NEW lengths \in Seq(Nat), NEW n \in 1..Len(lengths)
  PROVE  LET text == Block(n, lengths[n]) IN
         /\ text \in Seq(Chars) /\ Len(text) = lengths[n] /\ ToSet(text) = {<<n, i>> : i \in 1..lengths[n]}
         /\ \A i \in 1..lengths[n] : text[i] = <<n, i>>
         /\ TextOf(lengths, n) = TextOf(lengths, n - 1) \union ToSet(text)
         /\ TextOf(lengths, n) \subseteq TextOf(lengths, Len(lengths))
<1> DEFINE l == lengths[n]
           text == Block(n, l)
<1>1. l \in Nat /\ n \in Nat /\ n \in 1..Len(lengths) /\ Len(lengths) \in Nat
  OBVIOUS
<1>2. text = [i \in 1..l |-> <<n, i>>]
  BY DEF Block
<1>3. text \in [1..l -> Chars]
  BY <1>1, <1>2 DEF Chars
<1>4. text \in Seq(Chars) /\ Len(text) = l
  <2> HIDE DEF text, l
  <2> QED
    BY <1>1, <1>3
<1>5. ToSet(text) = {<<n, i>> : i \in 1..l}
  BY <1>2 DEF ToSet
<1> HIDE DEF text
<1>6. ASSUME NEW c PROVE c \in TextOf(lengths, n) <=> c \in TextOf(lengths, n - 1) \/ c \in ToSet(text)
  <2>1. ASSUME c \in TextOf(lengths, n) PROVE c \in TextOf(lengths, n - 1) \/ c \in ToSet(text)
    <3>1. c \in Nat \X Nat /\ c[1] \in 1..n /\ c[2] \in 1..lengths[c[1]] /\ c = <<c[1], c[2]>>
      BY <2>1 DEF TextOf, Chars
    <3>2. c[1] = n \/ c[1] \in 1..(n - 1)
      BY <1>1, <3>1
    <3>3. CASE c[1] = n
      BY <1>5, <3>1, <3>3
    <3>4. CASE c[1] \in 1..(n - 1)
      BY <3>1, <3>4 DEF TextOf, Chars
    <3> QED
      BY <3>2, <3>3, <3>4
  <2>2. ASSUME c \in TextOf(lengths, n - 1) PROVE c \in TextOf(lengths, n)
    BY <1>1, <2>2 DEF TextOf
  <2>3. ASSUME c \in ToSet(text) PROVE c \in TextOf(lengths, n)
    <3>1. PICK i \in 1..l : c = <<n, i>>
      BY <1>5, <2>3
    <3>2. <<n, i>> \in Nat \X Nat /\ <<n, i>>[1] = n /\ <<n, i>>[2] = i /\ n \in 1..n
      BY <1>1
    <3> QED
      BY <3>1, <3>2 DEF TextOf, Chars
  <2> QED
    BY <2>1, <2>2, <2>3
<1>7. TextOf(lengths, n) \subseteq TextOf(lengths, Len(lengths))
  BY <1>1 DEF TextOf
<1> QED
  BY <1>2, <1>4, <1>5, <1>6, <1>7 DEF text

\* When the windows hold the text up to a place and no more, they lack the end.
LEMMA UpToHere ==
  ASSUME NEW lengths \in Seq(Nat), NEW n \in 1..Len(lengths), NEW u \in Nat, NEW windows,
         TextOf(lengths, n - 1) \subseteq Held(windows),
         {<<n, i>> : i \in 1..u} \cap TextOf(lengths, n) \subseteq Held(windows),
         \A c \in Held(windows) : c[1] <= n - 1 \/ (c[1] = n /\ c[2] <= u)
  PROVE  LacksTheEnd(lengths, windows)
<1> SUFFICES ASSUME NEW c \in TextOf(lengths, Len(lengths)), c \notin Held(windows),
                    NEW d \in TextOf(lengths, Len(lengths)), d \in Held(windows)
             PROVE  Before(d, c)
  BY DEF LacksTheEnd
<1>1. /\ c \in Nat \X Nat /\ d \in Nat \X Nat /\ c = <<c[1], c[2]>>
      /\ c[1] \in 1..Len(lengths) /\ c[2] \in 1..lengths[c[1]] /\ c[2] \in Nat
  BY DEF TextOf, Chars
<1>2. n \in Nat /\ Len(lengths) \in Nat
  OBVIOUS
<1>3. ~(c[1] <= n - 1)
  <2> SUFFICES ASSUME c[1] <= n - 1 PROVE FALSE
    OBVIOUS
  <2>1. c[1] \in 1..(n - 1)
    BY <1>1, <1>2
  <2>2. c \in TextOf(lengths, n - 1)
    BY <1>1, <2>1 DEF TextOf, Chars
  <2> QED
    BY <2>2
<1>4. c[1] = n => c[2] > u
  <2> SUFFICES ASSUME c[1] = n, c[2] <= u PROVE FALSE
    BY <1>1
  <2>1. c[2] \in 1..u /\ c = <<n, c[2]>>
    BY <1>1
  <2>2. c \in TextOf(lengths, n)
    BY <1>1, <1>2 DEF TextOf, Chars
  <2> QED
    BY <2>1, <2>2
<1>5. d[1] <= n - 1 \/ (d[1] = n /\ d[2] <= u)
  OBVIOUS
<1>6. c[1] \in Nat /\ d[1] \in Nat /\ d[2] \in Nat
  BY <1>1
<1> QED
  BY <1>1, <1>2, <1>3, <1>4, <1>5, <1>6 DEF Before

\* What packing a block more does, case by case.
LEMMA PackIs ==
  ASSUME NEW acc, NEW text, Len(acc.windows) \in Nat, Len(text) \in Nat, NEW j, j = Joined(acc.cur, text), Len(j) \in Nat
  PROVE  /\ Len(acc.windows) >= MAX_WINDOWS => PackBlock(acc, text) = acc
         /\ Len(acc.windows) < MAX_WINDOWS /\ Len(text) > TARGET_CHUNK_CHARS =>
              PackBlock(acc, text) = [windows |-> Push(acc) \o HardSplit(text, MAX_WINDOWS - Len(Push(acc))), cur |-> <<>>]
         /\ Len(acc.windows) < MAX_WINDOWS /\ Len(text) <= TARGET_CHUNK_CHARS /\ Len(j) <= TARGET_CHUNK_CHARS =>
              PackBlock(acc, text) = [acc EXCEPT !.cur = j]
         /\ Len(acc.windows) < MAX_WINDOWS /\ Len(text) <= TARGET_CHUNK_CHARS /\ ~(Len(j) <= TARGET_CHUNK_CHARS) =>
              PackBlock(acc, text) = [windows |-> Push(acc), cur |-> Joined(OverlapOf(acc.cur), text)]
<1> DEFINE n == Len(acc.windows)
           l == Len(text)
           cutAll == [windows |-> Push(acc) \o HardSplit(text, MAX_WINDOWS - Len(Push(acc))), cur |-> <<>>]
           added == [acc EXCEPT !.cur = j]
           begun == [windows |-> Push(acc), cur |-> Joined(OverlapOf(acc.cur), text)]
           q == Len(j)
<1>1. PackBlock(acc, text) =
        CASE n >= MAX_WINDOWS -> acc
          [] n < MAX_WINDOWS /\ l > TARGET_CHUNK_CHARS -> cutAll
          [] n < MAX_WINDOWS /\ l <= TARGET_CHUNK_CHARS -> IF q <= TARGET_CHUNK_CHARS THEN added ELSE begun
  BY DEF PackBlock
<1>2. n \in Nat /\ l \in Nat /\ MAX_WINDOWS \in Nat /\ TARGET_CHUNK_CHARS \in Nat
  BY ChunksAssumption
<1> HIDE DEF n, l, cutAll, added, begun, q
<1>3. /\ n >= MAX_WINDOWS => ~(n < MAX_WINDOWS)
      /\ n < MAX_WINDOWS => ~(n >= MAX_WINDOWS)
      /\ l > TARGET_CHUNK_CHARS => ~(l <= TARGET_CHUNK_CHARS)
      /\ l <= TARGET_CHUNK_CHARS => ~(l > TARGET_CHUNK_CHARS)
  BY <1>2
<1>4. n >= MAX_WINDOWS => PackBlock(acc, text) = acc
  BY <1>1, <1>3
<1>5. n < MAX_WINDOWS /\ l > TARGET_CHUNK_CHARS => PackBlock(acc, text) = cutAll
  BY <1>1, <1>3
<1>6. n < MAX_WINDOWS /\ l <= TARGET_CHUNK_CHARS /\ q <= TARGET_CHUNK_CHARS => PackBlock(acc, text) = added
  BY <1>1, <1>3
<1>7. n < MAX_WINDOWS /\ l <= TARGET_CHUNK_CHARS /\ ~(q <= TARGET_CHUNK_CHARS) => PackBlock(acc, text) = begun
  BY <1>1, <1>3
<1> QED
  BY <1>4, <1>5, <1>6, <1>7 DEF n, l, cutAll, added, begun, q

\* Every block packed keeps it so.
LEMMA PackKeeps ==
  ASSUME NEW lengths \in Seq(Nat), NEW n \in 1..Len(lengths), NEW acc, IsPacked(lengths, n - 1, acc)
  PROVE  IsPacked(lengths, n, PackBlock(acc, Block(n, lengths[n])))
<1> DEFINE l == lengths[n]
           text == Block(n, l)
           v == acc.windows
           c == acc.cur
           to == PackBlock(acc, text)
           room == MAX_WINDOWS - Len(Push(acc))
           cut == HardSplit(text, room)
<1>1. /\ n \in Nat /\ n \in 1..Len(lengths) /\ Len(lengths) \in Nat /\ l \in Nat
      /\ MAX_WINDOWS \in Nat \ {0} /\ TARGET_CHUNK_CHARS \in Nat \ {0} /\ CHUNK_OVERLAP_CHARS \in Nat
      /\ MaxLength = TARGET_CHUNK_CHARS + CHUNK_OVERLAP_CHARS + 2
  BY ChunksAssumption DEF MaxLength
<1>2. /\ text \in Seq(Chars) /\ Len(text) = l /\ ToSet(text) = {<<n, i>> : i \in 1..l}
      /\ \A i \in 1..l : text[i] = <<n, i>>
      /\ TextOf(lengths, n) = TextOf(lengths, n - 1) \union ToSet(text)
      /\ TextOf(lengths, n) \subseteq TextOf(lengths, Len(lengths))
  BY BlockIs
<1>3. /\ acc = [windows |-> v, cur |-> c] /\ v \in Seq(Seq(Chars)) /\ c \in Seq(Chars)
      /\ Len(v) <= MAX_WINDOWS /\ Len(v) \in Nat /\ Len(c) \in Nat
      /\ \A w \in DOMAIN v : Len(v[w]) <= MaxLength
      /\ Len(c) <= MaxLength
      /\ Len(v) < MAX_WINDOWS => /\ TextOf(lengths, n - 1) \subseteq Held(v) \union ToSet(c)
                                 /\ \A x \in Held(v) \union ToSet(c) : x[1] <= n - 1
      /\ Len(v) = MAX_WINDOWS => LacksTheEnd(lengths, v)
  BY DEF IsPacked
<1>4. Len(v) < MAX_WINDOWS =>
        /\ Push(acc) \in Seq(Seq(Chars)) /\ Len(Push(acc)) <= MAX_WINDOWS
        /\ Held(Push(acc)) = Held(v) \union ToSet(c)
        /\ \A w \in DOMAIN Push(acc) : Len(Push(acc)[w]) <= MaxLength
  BY <1>3, PushIs
<1>9. /\ Len(v) >= MAX_WINDOWS => to = acc
      /\ Len(v) < MAX_WINDOWS /\ l > TARGET_CHUNK_CHARS => to = [windows |-> Push(acc) \o cut, cur |-> <<>>]
      /\ Len(v) < MAX_WINDOWS /\ l <= TARGET_CHUNK_CHARS /\ Len(Joined(c, text)) <= TARGET_CHUNK_CHARS =>
           to = [acc EXCEPT !.cur = Joined(c, text)]
      /\ Len(v) < MAX_WINDOWS /\ l <= TARGET_CHUNK_CHARS /\ ~(Len(Joined(c, text)) <= TARGET_CHUNK_CHARS) =>
           to = [windows |-> Push(acc), cur |-> Joined(OverlapOf(c), text)]
  <2>1. Len(Joined(c, text)) \in Nat
    <3> HIDE DEF text, c
    <3>1. Joined(c, text) \in Seq(Chars)
      BY <1>2, <1>3, JoinedIs
    <3> QED
      BY <3>1
  <2>2. Len(text) \in Nat /\ Len(text) = l
    BY <1>1, <1>2
  <2> QED
    BY <1>3, <2>1, <2>2, PackIs
<1>5. CASE Len(v) >= MAX_WINDOWS
  <2>1. to = acc
    BY <1>5, <1>9
  <2>2. ~(Len(v) < MAX_WINDOWS)
    BY <1>1, <1>3, <1>5
  <2> QED
    BY <1>3, <2>1, <2>2 DEF IsPacked
<1>6. CASE Len(v) < MAX_WINDOWS /\ l > TARGET_CHUNK_CHARS
  <2> DEFINE p == Push(acc)
             w == p \o cut
  <2>1. to = [windows |-> w, cur |-> <<>>]
    BY <1>6, <1>9
  <2>2. /\ p \in Seq(Seq(Chars)) /\ Len(p) <= MAX_WINDOWS /\ Len(p) \in Nat /\ Held(p) = Held(v) \union ToSet(c)
        /\ \A i \in DOMAIN p : Len(p[i]) <= MaxLength
    BY <1>4, <1>6
  <2>3. room \in Nat /\ text # <<>>
    <3>1. text # <<>>
      <4>1. Len(text) = l /\ l > TARGET_CHUNK_CHARS /\ l \in Nat /\ TARGET_CHUNK_CHARS \in Nat
        BY ONLY <1>1, <1>2, <1>6
      <4> HIDE DEF text, l
      <4> QED
        BY <4>1
    <3>2. room = MAX_WINDOWS - Len(p)
      OBVIOUS
    <3> HIDE DEF p, room, text
    <3> QED
      BY <1>1, <2>2, <3>1, <3>2
  <2> HIDE DEF text, room
  <2>4. /\ cut \in Seq(Seq(Chars)) /\ Len(cut) <= room
        /\ \A i \in DOMAIN cut : Len(cut[i]) <= TARGET_CHUNK_CHARS
        /\ \E u \in 0..Len(text) : /\ Held(cut) = {text[i] : i \in 1..u}
                                   /\ Len(cut) < room => u = Len(text)
    BY <1>2, <2>3, HardSplitIs
  <2>5. PICK u \in 0..l : /\ Held(cut) = {text[i] : i \in 1..u}
                          /\ Len(cut) < room => u = l
    BY <1>2, <2>4
  <2>6. u \in Nat /\ u <= l /\ Held(cut) = {<<n, i>> : i \in 1..u}
    <3>1. u \in Nat /\ u <= l /\ \A i \in 1..u : i \in 1..l
      BY <1>1
    <3>2. \A i \in 1..u : text[i] = <<n, i>>
      BY <1>2, <3>1
    <3> QED
      BY <2>5, <3>1, <3>2
  <2> HIDE DEF cut, p
  <2>7. w \in Seq(Seq(Chars)) /\ Len(w) = Len(p) + Len(cut) /\ Held(w) = Held(p) \union Held(cut)
        /\ ToSet(w) = ToSet(p) \union ToSet(cut)
    BY <2>2, <2>4, JoinHas, HeldOf
  <2> HIDE DEF w
  <2>8. Len(w) <= MAX_WINDOWS /\ Len(w) \in Nat /\ (Len(w) < MAX_WINDOWS => Len(cut) < room)
    BY <1>1, <2>2, <2>4, <2>7 DEF room, p
  <2>9. \A i \in DOMAIN w : Len(w[i]) <= MaxLength
    <3>1. ASSUME NEW x \in ToSet(w) PROVE Len(x) <= MaxLength
      <4>1. CASE x \in ToSet(p)
        BY <2>2, <4>1 DEF ToSet
      <4>2. CASE x \in ToSet(cut)
        <5>1. PICK i \in DOMAIN cut : x = cut[i]
          BY <4>2 DEF ToSet
        <5>2. x \in Seq(Chars) /\ Len(x) <= TARGET_CHUNK_CHARS /\ Len(x) \in Nat
          BY <2>4, <5>1
        <5> QED
          BY <1>1, <5>2
      <4> QED
        BY <2>7, <3>1, <4>1, <4>2
    <3> QED
      BY <3>1 DEF ToSet
  <2>10. TextOf(lengths, n - 1) \subseteq Held(w) /\ \A x \in Held(p) : x[1] <= n - 1
    BY <1>3, <1>6, <2>2, <2>7
  <2>11. ASSUME Len(w) < MAX_WINDOWS
         PROVE  TextOf(lengths, n) \subseteq Held(w) \union ToSet(<<>>) /\ \A x \in Held(w) \union ToSet(<<>>) : x[1] <= n
    <3>1. u = l /\ ToSet(text) = Held(cut)
      BY <1>2, <2>5, <2>6, <2>8, <2>11
    <3>2. ToSet(<<>>) = {}
      BY DEF ToSet
    <3>3. TextOf(lengths, n) \subseteq Held(w)
      BY <1>2, <2>7, <2>10, <3>1
    <3>4. ASSUME NEW x \in Held(w) PROVE x[1] <= n
      <4>1. CASE x \in Held(p)
        <5>1. x \in Held(v) \union ToSet(c)
          BY <2>2, <4>1
        <5>2. x[1] \in Nat
          <6>1. x \in Chars
            <7>1. \A i \in DOMAIN v : v[i] \in Seq(Chars)
              BY <1>3
            <7>2. \A s \in Seq(Chars) : ToSet(s) \subseteq Chars
              BY DEF ToSet
            <7> QED
              BY <1>3, <5>1, <7>1, <7>2 DEF Held
          <6> QED
            BY <6>1 DEF Chars
        <5> QED
          BY <1>1, <2>10, <4>1, <5>2
      <4>2. CASE x \in Held(cut)
        <5>1. PICK i \in 1..u : x = <<n, i>>
          BY <2>6, <4>2
        <5> QED
          BY <1>1, <5>1
      <4> QED
        BY <2>7, <3>4, <4>1, <4>2
    <3> QED
      BY <3>2, <3>3, <3>4
  <2>12. LacksTheEnd(lengths, w)
    <3>1. {<<n, i>> : i \in 1..u} \cap TextOf(lengths, n) \subseteq Held(w)
      BY <2>6, <2>7
    <3>2. ASSUME NEW x \in Held(w) PROVE x[1] <= n - 1 \/ (x[1] = n /\ x[2] <= u)
      <4>1. CASE x \in Held(p)
        BY <2>10, <4>1
      <4>2. CASE x \in Held(cut)
        <5>1. PICK i \in 1..u : x = <<n, i>>
          BY <2>6, <4>2
        <5> QED
          BY <2>6, <5>1
      <4> QED
        BY <2>7, <3>2, <4>1, <4>2
    <3>3. u \in Nat /\ n \in 1..Len(lengths) /\ TextOf(lengths, n - 1) \subseteq Held(w)
      BY <1>1, <2>6, <2>10
    <3> QED
      BY <3>1, <3>2, <3>3, UpToHere
  <2>13. <<>> \in Seq(Chars) /\ Len(<<>>) <= MaxLength
    BY <1>1
  <2>14. to.windows = w /\ to.cur = <<>>
    BY <2>1
  <2> HIDE DEF to
  <2>15. IsPacked(lengths, n, to)
    BY <2>1, <2>7, <2>8, <2>9, <2>11, <2>12, <2>13, <2>14 DEF IsPacked
  <2> QED
    BY <2>15 DEF to, text
<1>7. CASE Len(v) < MAX_WINDOWS /\ l <= TARGET_CHUNK_CHARS /\ Len(Joined(c, text)) <= TARGET_CHUNK_CHARS
  <2> DEFINE j == Joined(c, text)
  <2>1. to = [windows |-> v, cur |-> j]
    <3>1. to = [acc EXCEPT !.cur = j]
      BY <1>7, <1>9
    <3> HIDE DEF to, j, v, c
    <3> QED
      BY <1>3, <3>1
  <2>2. /\ j \in Seq(Chars) /\ ToSet(c) \union ToSet(text) \subseteq ToSet(j)
        /\ \A x \in ToSet(j) : x \in ToSet(c) \union ToSet(text) \/ x[1] = 0
    BY <1>2, <1>3, JoinedIs
  <2>3. Len(j) <= TARGET_CHUNK_CHARS /\ Len(j) \in Nat
    BY <1>7, <2>2
  <2> HIDE DEF j
  <2>4. Len(j) <= MaxLength
    BY <1>1, <2>3
  <2>5. TextOf(lengths, n) \subseteq Held(v) \union ToSet(j)
    BY <1>2, <1>3, <1>7, <2>2
  <2>6. ASSUME NEW x \in Held(v) \union ToSet(j) PROVE x[1] <= n
    <3>1. CASE x \in Held(v) \union ToSet(c)
      <4>1. x \in Chars /\ x[1] <= n - 1
        <5>1. \A i \in DOMAIN v : v[i] \in Seq(Chars)
          BY <1>3
        <5>2. \A s \in Seq(Chars) : ToSet(s) \subseteq Chars
          BY DEF ToSet
        <5> QED
          BY <1>3, <1>7, <3>1, <5>1, <5>2 DEF Held
      <4>2. x[1] \in Nat
        BY <4>1 DEF Chars
      <4> QED
        BY <1>1, <4>1, <4>2
    <3>2. CASE x \in ToSet(text)
      <4>1. PICK i \in 1..l : x = <<n, i>>
        BY <1>2, <3>2
      <4> QED
        BY <1>1, <4>1
    <3>3. CASE x[1] = 0
      BY <1>1, <3>3
    <3> QED
      BY <2>2, <2>6, <3>1, <3>2, <3>3
  <2>7. to.windows = v /\ to.cur = j /\ Len(v) # MAX_WINDOWS
    BY <1>1, <1>3, <1>7, <2>1
  <2> HIDE DEF to, v
  <2>8. IsPacked(lengths, n, to)
    BY <1>3, <2>1, <2>2, <2>4, <2>5, <2>6, <2>7 DEF IsPacked
  <2> QED
    BY <2>8 DEF to, text
<1>8. CASE Len(v) < MAX_WINDOWS /\ l <= TARGET_CHUNK_CHARS /\ ~(Len(Joined(c, text)) <= TARGET_CHUNK_CHARS)
  <2> DEFINE p == Push(acc)
             o == OverlapOf(c)
             j == Joined(o, text)
  <2>1. to = [windows |-> p, cur |-> j]
    BY <1>8, <1>9
  <2>2. /\ p \in Seq(Seq(Chars)) /\ Len(p) <= MAX_WINDOWS /\ Len(p) \in Nat /\ Held(p) = Held(v) \union ToSet(c)
        /\ \A i \in DOMAIN p : Len(p[i]) <= MaxLength
    BY <1>4, <1>8
  <2>3. o \in Seq(Chars) /\ Len(o) <= CHUNK_OVERLAP_CHARS /\ Len(o) \in Nat /\ ToSet(o) \subseteq ToSet(c)
    BY <1>3, OverlapIs
  <2> HIDE DEF o, text
  <2>4. /\ j \in Seq(Chars) /\ ToSet(o) \union ToSet(text) \subseteq ToSet(j)
        /\ \A x \in ToSet(j) : x \in ToSet(o) \union ToSet(text) \/ x[1] = 0
        /\ Len(j) <= Len(o) + 2 + Len(text) /\ Len(j) \in Nat
    <3>1. text \in Seq(Chars) /\ o \in Seq(Chars)
      BY <1>2, <2>3
    <3> QED
      BY ONLY <3>1, JoinedIs
  <2> HIDE DEF j, p
  <2>5. Len(j) <= MaxLength
    <3>1. l <= TARGET_CHUNK_CHARS /\ Len(text) = l
      BY <1>2, <1>8
    <3> HIDE DEF l
    <3> QED
      BY <1>1, <2>3, <2>4, <3>1
  <2>6. TextOf(lengths, n - 1) \subseteq Held(p) /\ \A x \in Held(p) : x[1] <= n - 1
    BY <1>3, <1>8, <2>2
  <2>7. TextOf(lengths, n) \subseteq Held(p) \union ToSet(j)
    BY <1>2, <2>4, <2>6
  <2>8. ASSUME NEW x \in Held(p) \union ToSet(j) PROVE x[1] <= n
    <3>1. CASE x \in Held(p)
      <4>1. x \in Chars /\ x[1] <= n - 1
        <5>1. \A i \in DOMAIN p : p[i] \in Seq(Chars)
          BY <2>2
        <5>2. \A s \in Seq(Chars) : ToSet(s) \subseteq Chars
          BY DEF ToSet
        <5> QED
          BY <2>6, <3>1, <5>1, <5>2 DEF Held
      <4>2. x[1] \in Nat
        BY <4>1 DEF Chars
      <4> QED
        BY <1>1, <4>1, <4>2
    <3>2. CASE x \in ToSet(text)
      <4>1. PICK i \in 1..l : x = <<n, i>>
        BY <1>2, <3>2
      <4> QED
        BY <1>1, <4>1
    <3>3. CASE x[1] = 0
      BY <1>1, <3>3
    <3> QED
      BY <2>2, <2>3, <2>4, <2>8, <3>1, <3>2, <3>3
  <2>9. LacksTheEnd(lengths, p)
    <3>1. \A x \in Held(p) : x[1] <= n - 1 \/ (x[1] = n /\ x[2] <= 0)
      BY <2>6
    <3>2. {<<n, i>> : i \in 1..0} = {}
      OBVIOUS
    <3> QED
      BY <1>1, <2>6, <3>1, <3>2, UpToHere
  <2>10. to.windows = p /\ to.cur = j
    BY <2>1
  <2> HIDE DEF to
  <2>11. IsPacked(lengths, n, to)
    BY <2>1, <2>2, <2>4, <2>5, <2>7, <2>8, <2>9, <2>10 DEF IsPacked
  <2> QED
    BY <2>11 DEF to, text
<1>10. \/ Len(v) >= MAX_WINDOWS
       \/ Len(v) < MAX_WINDOWS /\ l > TARGET_CHUNK_CHARS
       \/ Len(v) < MAX_WINDOWS /\ l <= TARGET_CHUNK_CHARS
  <2>1. Len(v) \in Nat /\ l \in Nat /\ MAX_WINDOWS \in Nat /\ TARGET_CHUNK_CHARS \in Nat
    BY <1>1, <1>3
  <2>2. \A a, b \in Nat : a < b \/ a >= b
    BY ONLY SMT
  <2>3. \A a, b \in Nat : a > b \/ a <= b
    BY ONLY SMT
  <2> HIDE DEF l, v
  <2> QED
    BY ONLY <2>1, <2>2, <2>3, Zenon
<1> QED
  <2> HIDE DEF to, text, v, c
  <2> QED
    BY <1>5, <1>6, <1>7, <1>8, <1>10 DEF to, text

\* Packing block by block is a function.
LEMMA PackedIs ==
  ASSUME NEW lengths \in Seq(Nat)
  PROVE  \E packed : /\ packed = [b \in 0..Len(lengths) |->
                                    IF b = 0 THEN [windows |-> <<>>, cur |-> <<>>]
                                    ELSE PackBlock(packed[b - 1], Block(b, lengths[b]))]
<1> DEFINE N == Len(lengths)
           empty == [windows |-> <<>>, cur |-> <<>>]
           step(t, b) == PackBlock(t, Block(b, lengths[b]))
           Upto(n) == \E t : t = [b \in 0..n |-> IF b = 0 THEN empty ELSE step(t[b - 1], b)]
           S == {n \in Nat : Upto(n)}
<1>1. N \in Nat
  OBVIOUS
<1> HIDE DEF empty, step, N
<1>2. 0 \in S
  <2> DEFINE t == [b \in 0..0 |-> empty]
  <2>1. t = [b \in 0..0 |-> IF b = 0 THEN empty ELSE step(t[b - 1], b)]
    BY \A b \in 0..0 : b = 0
  <2> HIDE DEF t
  <2> QED
    BY <2>1
<1>3. ASSUME NEW n \in Nat, n \in S PROVE n + 1 \in S
  <2>1. PICK t : t = [b \in 0..n |-> IF b = 0 THEN empty ELSE step(t[b - 1], b)]
    BY <1>3
  <2> DEFINE last == step(t[n], n + 1)
             u == [b \in 0..(n + 1) |-> IF b = n + 1 THEN last ELSE t[b]]
  <2>2. ASSUME NEW b \in 0..(n + 1) PROVE u[b] = IF b = 0 THEN empty ELSE step(u[b - 1], b)
    <3>1. CASE b = n + 1
      <4>1. u[b] = last /\ b # 0 /\ b - 1 = n /\ n \in 0..(n + 1) /\ n # n + 1
        BY <3>1
      <4>2. u[n] = t[n]
        BY <4>1
      <4> HIDE DEF u
      <4> QED
        BY <3>1, <4>1, <4>2
    <3>2. CASE b # n + 1
      <4>1. b \in 0..n /\ u[b] = t[b]
        BY <3>2
      <4>2. b # 0 => b - 1 \in 0..(n + 1) /\ b - 1 # n + 1
        BY <4>1
      <4>3. b # 0 => u[b - 1] = t[b - 1]
        BY <4>2
      <4>4. t[b] = IF b = 0 THEN empty ELSE step(t[b - 1], b)
        BY <2>1, <4>1
      <4> HIDE DEF u
      <4> QED
        BY <4>1, <4>3, <4>4
    <3> QED
      BY <3>1, <3>2
  <2>3. u = [b \in 0..(n + 1) |-> IF b = 0 THEN empty ELSE step(u[b - 1], b)]
    <3> DEFINE w == [b \in 0..(n + 1) |-> IF b = 0 THEN empty ELSE step(u[b - 1], b)]
    <3>1. DOMAIN u = 0..(n + 1) /\ DOMAIN w = 0..(n + 1) /\ \A b \in 0..(n + 1) : u[b] = w[b]
      BY <2>2
    <3>2. u = [b \in 0..(n + 1) |-> u[b]] /\ w = [b \in 0..(n + 1) |-> w[b]]
      BY <3>1
    <3> HIDE DEF u, w
    <3>3. u = w
      BY <3>1, <3>2
    <3> QED
      BY <3>3 DEF w
  <2> HIDE DEF u
  <2> QED
    BY <2>3
<1>4. N \in S
  <2> HIDE DEF S
  <2> QED
    BY <1>1, <1>2, <1>3, Inductive
<1>5. PICK t : t = [b \in 0..N |-> IF b = 0 THEN empty ELSE step(t[b - 1], b)]
  BY <1>4
<1> QED
  BY <1>5 DEF N, empty, step

\* The windows of a text keep it, up to their number.
LEMMA WindowsKeep ==
  ASSUME NEW lengths \in Seq(Nat)
  PROVE  LET windows == PackWindows(lengths) IN
         /\ Len(windows) <= MAX_WINDOWS
         /\ \A w \in DOMAIN windows : Len(windows[w]) <= MaxLength
         /\ \/ TextOf(lengths, Len(lengths)) \subseteq Held(windows)
            \/ Len(windows) = MAX_WINDOWS /\ LacksTheEnd(lengths, windows)
<1> DEFINE N == Len(lengths)
           empty == [windows |-> <<>>, cur |-> <<>>]
           P(t) == t = [b \in 0..N |-> IF b = 0 THEN empty ELSE PackBlock(t[b - 1], Block(b, lengths[b]))]
           packed == CHOOSE t : P(t)
           all == packed[N]
           windows == PackWindows(lengths)
           S == {n \in Nat : n <= N => IsPacked(lengths, n, packed[n])}
<1>1. N \in Nat /\ MAX_WINDOWS \in Nat \ {0} /\ TARGET_CHUNK_CHARS \in Nat /\ CHUNK_OVERLAP_CHARS \in Nat
  BY ChunksAssumption
<1>2. P(packed)
  <2>1. \E t : P(t)
    BY PackedIs
  <2> QED
    BY <2>1
<1>3. windows = IF Len(all.windows) < MAX_WINDOWS THEN Push(all) ELSE all.windows
  BY DEF PackWindows
<1> HIDE DEF packed
<1>4. /\ packed[0] = empty
      /\ \A b \in 1..N : packed[b] = PackBlock(packed[b - 1], Block(b, lengths[b]))
  <2> DEFINE f(b) == IF b = 0 THEN empty ELSE PackBlock(packed[b - 1], Block(b, lengths[b]))
  <2>1. packed = [b \in 0..N |-> f(b)]
    BY <1>2
  <2>2. ASSUME NEW b \in 0..N PROVE packed[b] = f(b)
    <3> HIDE DEF f
    <3> QED
      BY <2>1
  <2>3. 0 \in 0..N /\ \A b \in 1..N : b \in 0..N /\ b # 0
    BY <1>1
  <2>4. f(0) = empty
    OBVIOUS
  <2>5. \A b \in 1..N : f(b) = PackBlock(packed[b - 1], Block(b, lengths[b]))
    BY <2>3
  <2> HIDE DEF f, empty
  <2> QED
    BY <2>2, <2>3, <2>4, <2>5
<1>5. 0 \in S
  <2>1. empty.windows = <<>> /\ empty.cur = <<>> /\ empty = [windows |-> empty.windows, cur |-> empty.cur]
    OBVIOUS
  <2>2. <<>> \in Seq(Seq(Chars)) /\ <<>> \in Seq(Chars) /\ Len(<<>>) = 0 /\ DOMAIN <<>> = {}
    OBVIOUS
  <2>3. Held(<<>>) = {} /\ ToSet(<<>>) = {}
    BY <2>2 DEF Held, ToSet
  <2>4. TextOf(lengths, 0) = {}
    BY DEF TextOf
  <2>5. 0 <= MaxLength /\ 0 < MAX_WINDOWS /\ 0 <= MAX_WINDOWS /\ 0 # MAX_WINDOWS
    BY <1>1 DEF MaxLength
  <2> HIDE DEF empty
  <2>6. IsPacked(lengths, 0, empty)
    BY <2>1, <2>2, <2>3, <2>4, <2>5 DEF IsPacked
  <2> QED
    BY <1>4, <2>6
<1>6. ASSUME NEW n \in Nat, n \in S PROVE n + 1 \in S
  <2> SUFFICES ASSUME n + 1 <= N PROVE IsPacked(lengths, n + 1, packed[n + 1])
    OBVIOUS
  <2> DEFINE m == n + 1
  <2>1. m \in 1..Len(lengths) /\ m - 1 = n /\ n <= N
    BY <1>1
  <2>2. IsPacked(lengths, m - 1, packed[n])
    BY <1>6, <2>1
  <2>3. packed[m] = PackBlock(packed[n], Block(m, lengths[m]))
    BY <1>4, <2>1
  <2> HIDE DEF m
  <2>4. IsPacked(lengths, m, PackBlock(packed[n], Block(m, lengths[m])))
    BY <2>1, <2>2, PackKeeps
  <2> QED
    BY <2>3, <2>4 DEF m
<1>7. IsPacked(lengths, N, all)
  <2>1. Nat \subseteq S
    <3> HIDE DEF S
    <3> QED
      BY <1>5, <1>6, Inductive
  <2> QED
    BY <1>1, <2>1
<1> DEFINE v == all.windows
           c == all.cur
           p == Push(all)
<1>8. /\ v \in Seq(Seq(Chars)) /\ c \in Seq(Chars) /\ Len(v) <= MAX_WINDOWS /\ Len(v) \in Nat
      /\ \A w \in DOMAIN v : Len(v[w]) <= MaxLength
      /\ Len(c) <= MaxLength
      /\ Len(v) < MAX_WINDOWS => TextOf(lengths, N) \subseteq Held(v) \union ToSet(c)
      /\ Len(v) = MAX_WINDOWS => LacksTheEnd(lengths, v)
  BY <1>7 DEF IsPacked
<1>9. CASE Len(v) < MAX_WINDOWS
  <2>1. /\ Len(p) <= MAX_WINDOWS /\ Held(p) = Held(v) \union ToSet(c)
        /\ \A w \in DOMAIN p : Len(p[w]) <= MaxLength
    <3> HIDE DEF all
    <3> QED
      BY <1>8, <1>9, PushIs
  <2>2. windows = p
    BY <1>3, <1>9
  <2> HIDE DEF windows, p, v, c, N
  <2>3. TextOf(lengths, N) \subseteq Held(windows)
    BY <1>8, <1>9, <2>1, <2>2
  <2>4. Len(windows) <= MAX_WINDOWS /\ \A w \in DOMAIN windows : Len(windows[w]) <= MaxLength
    BY <2>1, <2>2
  <2> QED
    BY <2>3, <2>4 DEF windows, N
<1>10. CASE ~(Len(v) < MAX_WINDOWS)
  <2>1. Len(v) = MAX_WINDOWS
    BY <1>1, <1>8, <1>10
  <2>2. windows = v
    BY <1>3, <1>10
  <2> HIDE DEF windows, v, c, N
  <2> QED
    BY <1>8, <2>1, <2>2 DEF windows
<1> QED
  BY <1>9, <1>10

\* The windows of a text are as KeepsText says.
LEMMA TextIsKept ==
  ASSUME NEW lengths \in Seq(Nat)
  PROVE  KeepsText(lengths)
<1> DEFINE windows == PackWindows(lengths)
           most == Max({0} \union ToSet(lengths))
           text == {<<b, i>> : b \in DOMAIN lengths, i \in 1..most}
           chars == {c \in text : c[2] <= lengths[c[1]]}
           held == UNION {ToSet(windows[w]) : w \in DOMAIN windows}
<1>1. most \in Nat
  <2> DEFINE S == {0} \union ToSet(lengths)
  <2>1. S \subseteq Nat /\ S # {}
    BY DEF ToSet
  <2>2. IsFiniteSet(DOMAIN lengths)
    BY FS_Interval
  <2>3. IsFiniteSet(ToSet(lengths))
    <3>1. lengths \in Surjection(DOMAIN lengths, ToSet(lengths))
      BY DEF Surjection, ToSet
    <3> QED
      BY <2>2, <3>1, FS_Surjection
  <2>4. IsFiniteSet(S)
    BY <2>3, FS_AddElement, {0} \union ToSet(lengths) = ToSet(lengths) \union {0}
  <2> HIDE DEF S
  <2>5. Max(S) \in S
    BY <2>1, <2>4, GreatestOf
  <2> QED
    BY <2>1, <2>5 DEF S
<1>2. chars \subseteq TextOf(lengths, Len(lengths))
  <2> HIDE DEF most
  <2>1. ASSUME NEW c, c \in chars PROVE c \in TextOf(lengths, Len(lengths))
    <3>0. c \in text /\ c[2] <= lengths[c[1]]
      BY <2>1
    <3>1. PICK b \in DOMAIN lengths, i \in 1..most : c = <<b, i>>
      BY <3>0
    <3> HIDE DEF chars, text
    <3>2. i <= lengths[b] /\ b \in 1..Len(lengths) /\ i \in Nat /\ i >= 1 /\ lengths[b] \in Nat /\ b \in Nat
      BY <1>1, <3>0, <3>1
    <3>3. c \in Nat \X Nat /\ c[1] = b /\ c[2] = i /\ i \in 1..lengths[b]
      BY <3>1, <3>2
    <3> QED
      BY <3>2, <3>3 DEF TextOf, Chars
  <2> HIDE DEF chars
  <2> QED
    BY <2>1
<1>3. held = Held(windows)
  BY DEF Held
<1>4. /\ Len(windows) <= MAX_WINDOWS
      /\ \A w \in DOMAIN windows : Len(windows[w]) <= MaxLength
      /\ \/ TextOf(lengths, Len(lengths)) \subseteq Held(windows)
         \/ Len(windows) = MAX_WINDOWS /\ LacksTheEnd(lengths, windows)
  BY WindowsKeep
<1>5. MaxLength = TARGET_CHUNK_CHARS + CHUNK_OVERLAP_CHARS + Len(Break)
  BY DEF MaxLength, Break
<1> HIDE DEF windows, chars
<1>6. \A w \in DOMAIN windows : Len(windows[w]) <= TARGET_CHUNK_CHARS + CHUNK_OVERLAP_CHARS + Len(Break)
  BY <1>4, <1>5
<1> HIDE DEF held
<1>7. \A c \in chars \ held : Len(windows) = MAX_WINDOWS /\ \A d \in chars \cap held : Before(d, c)
  BY <1>2, <1>3, <1>4 DEF LacksTheEnd
<1>8. Len(windows) <= MAX_WINDOWS
  BY <1>4
<1>9. KeepsText(lengths) <=>
        /\ Len(windows) <= MAX_WINDOWS
        /\ \A w \in DOMAIN windows : Len(windows[w]) <= TARGET_CHUNK_CHARS + CHUNK_OVERLAP_CHARS + Len(Break)
        /\ \A c \in chars \ held : Len(windows) = MAX_WINDOWS /\ \A d \in chars \cap held : Before(d, c)
  BY DEF KeepsText, windows, chars, held
<1> QED
  BY <1>6, <1>7, <1>8, <1>9

\* Fusing two lists by rank favours neither list nor the documents it likes less
\* (fuseByRank).
THEOREM FusionFavoursNobody ==
  Spec => []FusionIsFair
<1>1. Init => Typed
  BY TypedAtStart
<1>2. Typed /\ [Next]_vars => Typed'
  BY TypedStays
<1>3. Typed => FusionIsFair
  BY FusionIsFairTo DEF Typed, IsBudget, FusionIsFair
<1> QED
  BY <1>1, <1>2, <1>3, PTL DEF Spec

\* However long the blocks of a text, its windows keep it (packWindows).
THEOREM TextsAreKept ==
  Spec => []NoTextIsLost
<1>1. Init => Typed
  BY TypedAtStart
<1>2. Typed /\ [Next]_vars => Typed'
  BY TypedStays
<1>3. Typed => NoTextIsLost
  BY TextIsKept DEF Typed, IsBudget, NoTextIsLost
<1> QED
  BY <1>1, <1>2, <1>3, PTL DEF Spec
=============================================================================
