--------------------------- MODULE MCDocumentStore ---------------------------
(***************************************************************************)
(* Instances of DocumentStore for TLC.  Documents, requests, names and     *)
(* texts are interchangeable, so the safety runs take them up to symmetry. *)
(***************************************************************************)
EXTENDS DocumentStore, TLC

Symmetry ==
  Permutations(Docs) \cup Permutations(Requests)
    \cup Permutations(Slugs) \cup Permutations(Sources)
=============================================================================
