------------------------------ MODULE RankFusion ------------------------------
(***************************************************************************)
(* How the two legs of a search become one ranking: chunk hits collapsed to *)
(* documents, reciprocal rank fusion, the penalty of deprecated documents.  *)
(* Documents are numbers, in the order of their ids.  The code's floating   *)
(* point scores are fractions here, over a denominator common to all ranks. *)
(***************************************************************************)
EXTENDS Ordering, FiniteSetsExt, SequencesExt

CONSTANTS
  RRF_K,       \* k of the fusion, 60 in the code
  MaxRank,     \* bound on the length of a leg's list
  Denominator  \* of a score: 20 times a common multiple of k + 1 .. k + MaxRank

ASSUME RankFusionAssumption ==
  /\ RRF_K \in Nat /\ MaxRank \in Nat \ {0}
  /\ Denominator \in Nat \ {0}
  /\ \A r \in 1..MaxRank : Denominator % (20 * (RRF_K + r)) = 0      \* 0.95 is 19/20
  /\ MaxRank <= 18 * RRF_K    \* a leg has at most 210 documents

\* A list credits a document once, at its best rank.
Credit(list, doc) ==
  LET at == {i \in DOMAIN list : list[i] = doc}
  IN  IF at = {} THEN 0 ELSE Denominator \div (RRF_K + Min(at))

Score(lists, doc) ==
  LET total[l \in 0..Len(lists)] == IF l = 0 THEN 0 ELSE total[l - 1] + Credit(lists[l], doc)
  IN  total[Len(lists)]

\* Best score first; equal scores by id, so the order is a function of the input.
ByScore(score) ==
  InOrder(DOMAIN score, LAMBDA a, b : score[a] > score[b] \/ (score[a] = score[b] /\ a < b))

ReciprocalRankFusion(lists) ==
  ByScore([d \in UNION {ToSet(lists[l]) : l \in DOMAIN lists} |-> Score(lists, d)])

\* Chunk hits [doc, score] of the vector index: the best chunk of a document
\* stands for it.
CollapseChunksToDocs(hits) ==
  ByScore([d \in {h.doc : h \in hits} |-> Max({h.score : h \in {g \in hits : g.doc = d}})])

\* Fault: a deprecated document is put behind every active one.
Buried(lists, deprecated, doc) ==
  IF doc \in deprecated THEN 0 ELSE Score(lists, doc)
\* DEPRECATED_HYBRID_SCORE_MULTIPLIER: a hint, not a partition.
Penalised(lists, deprecated, doc) ==
  IF doc \in deprecated THEN (Score(lists, doc) \div 20) * 19 ELSE Score(lists, doc)

\* The hybrid ranking; the penalty is off when the request filters on status.
Fuse(lists, deprecated, limit) ==
  LET ranked == ByScore([d \in UNION {ToSet(lists[l]) : l \in DOMAIN lists} |->
                          Penalised(lists, deprecated, d)])
  IN  SubSeq(ranked, 1, Min({limit, Len(ranked)}))

-----------------------------------------------------------------------------
Ranked == 1..MaxRank
Legs == UNION {{l \in [1..n -> Ranked] : IsInjective(l)} : n \in 0..MaxRank}

\* A leg ranks d above e, or ranks d and not e.
Prefers(list, d, e) ==
  \E i \in DOMAIN list : list[i] = d /\ \A k \in DOMAIN list : list[k] = e => i < k

\* What one leg is fused with, and what the ranking then owes both.
FusesFairly(fts) ==
  \A vec \in Legs : \A deprecated \in SUBSET Ranked : \A d, e \in Ranked :
    LET fused == Fuse(<<fts, vec>>, deprecated, MaxRank)
        both == ToSet(fts) \cap ToSet(vec)
        one == (ToSet(fts) \union ToSet(vec)) \ both
        ahead(list) == e \in ToSet(list) => Prefers(list, d, e)
        knows(list) == {d, e} \cap ToSet(list) # {}
    IN  /\ /\ d # e /\ (d \in deprecated => e \in deprecated)
           /\ knows(fts) \/ knows(vec)
           /\ knows(fts) => Prefers(fts, d, e)
           /\ knows(vec) => Prefers(vec, d, e)
           => Prefers(fused, d, e)
        /\ d \in both \cap deprecated /\ e \in one \ deprecated /\ ahead(fts) /\ ahead(vec)
             => Prefers(fused, d, e)
=============================================================================
