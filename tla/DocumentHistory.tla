--------------------------- MODULE DocumentHistory ---------------------------
(***************************************************************************)
(* What the document store promises its readers, with every request atomic *)
(* and no storage: a document is born with one text, its history only      *)
(* grows while it lives, the text the anonymous internet is shown moves    *)
(* only by an act of its own, and the kill switch ends it for good.        *)
(* DocumentStore implements this specification.                            *)
(***************************************************************************)
EXTENDS Naturals, Sequences

CONSTANTS
  Docs,       \* documents
  Sources,    \* the texts a version can hold
  MaxVersion  \* bound on the length of a history

VARIABLES
  life,   \* "unborn", "live" or "revoked", per document
  text,   \* the texts of a live document, oldest first
  shown   \* the version anonymous readers are served, 0 for none

vars == <<life, text, shown>>

Init ==
  /\ life = [d \in Docs |-> "unborn"]
  /\ text = [d \in Docs |-> <<>>]
  /\ shown = [d \in Docs |-> 0]

\* A document is born with its first version, open to the world or not.
Birth(d) ==
  /\ life[d] = "unborn"
  /\ life' = [life EXCEPT ![d] = "live"]
  /\ \E s \in Sources : text' = [text EXCEPT ![d] = <<s>>]
  /\ \E n \in {0, 1} : shown' = [shown EXCEPT ![d] = n]

\* A writer adds a version; what the world is shown does not move.
Extend(d) ==
  /\ life[d] = "live"
  /\ Len(text[d]) < MaxVersion
  /\ \E s \in Sources : text' = [text EXCEPT ![d] = Append(@, s)]
  /\ UNCHANGED <<life, shown>>

\* The operator chooses which version the world is shown, or closes the door.
Show(d) ==
  /\ life[d] = "live"
  /\ \E n \in 0..Len(text[d]) : shown' = [shown EXCEPT ![d] = n]
  /\ UNCHANGED <<life, text>>

\* The kill switch.
Kill(d) ==
  /\ life[d] = "live"
  /\ life' = [life EXCEPT ![d] = "revoked"]
  /\ text' = [text EXCEPT ![d] = <<>>]
  /\ shown' = [shown EXCEPT ![d] = 0]

Next == \E d \in Docs : Birth(d) \/ Extend(d) \/ Show(d) \/ Kill(d)

Spec == Init /\ [][Next]_vars
=============================================================================
