-------------------------------- MODULE Seeder --------------------------------
(***************************************************************************)
(* The seeder of the platform documents, for one reserved name: isolates   *)
(* of one or two deployed builds each make a pass that brings the corpus   *)
(* copy of the document to the bytes of their build, publishes them, and   *)
(* deprecates a document their build no longer seeds.                      *)
(*                                                                         *)
(* A pass is a sequence of core calls with awaits between them; the cores  *)
(* themselves are DocumentStore's, taken here by what their batch does to  *)
(* the one document that holds the name.  An isolate may die at any await. *)
(* Agents may write and deprecate the document, the operator may revoke it *)
(* and release its name; the operator's own promotions are left out, so    *)
(* every move of published_ver below is the seeder's.                      *)
(***************************************************************************)
EXTENDS Naturals, Sequences

CONSTANTS
  Isolates,     \* passes in flight at a time
  Builds,       \* build numbers 1 .. Builds, deployed in this order
  Bundle,       \* Bundle[b]: the bytes build b seeds, None if it does not
  AgentBytes,   \* what an agent may write to the document
  None,
  MaxBirths,    \* bound on documents born under the name
  MaxTrouble    \* bound on agents' acts, late passes and isolates that die

ASSUME SeederAssumption ==
  /\ Builds \in Nat \ {0}
  /\ DOMAIN Bundle = 1..Builds
  /\ MaxBirths \in Nat /\ MaxTrouble \in Nat
  /\ None \notin AgentBytes

VARIABLES
  doc,        \* the live document that holds the name, by birth number; 0 none
  births,     \* documents born under the name so far
  history,    \* the bytes of its versions, oldest first
  published,  \* its published_ver
  status,     \* its documents.status
  retired,    \* the name is in slug_tombstones
  running,    \* builds that isolates still start on
  pass,       \* the pass each isolate is in
  trouble     \* agents' acts, late passes and deaths so far (bounded)

corpus == <<doc, births, history, published, status, retired>>
vars == <<corpus, running, pass, trouble>>

NoPass == [at |-> "idle", build |-> 1, doc |-> 0, ver |-> 0]
Trouble == trouble < MaxTrouble /\ trouble' = trouble + 1
Goto(i, label) == pass' = [pass EXCEPT ![i].at = label]
End(i) == pass' = [pass EXCEPT ![i] = NoPass]

Newest == CHOOSE b \in running : \A c \in running : c <= b
Bytes(i) == Bundle[pass[i].build]
Current == history[Len(history)]

-----------------------------------------------------------------------------
\* Fault: bytes that match end the pass, whatever the status is.
UnchangedIgnoresStatus(b) == Current = Bundle[b]
\* The corpus copy needs nothing: bytes and classification are the build's.
Unchanged(b) == Current = Bundle[b] /\ status = "active"

\* What a pass of build b has to do, by the one row its first SELECT returns.
Errand(b) ==
  CASE Bundle[b] = None /\ doc # 0 /\ status = "active" -> "deprecate"
    [] Bundle[b] # None /\ doc = 0 -> "tombstone"
    [] Bundle[b] # None /\ doc # 0 /\ Current # Bundle[b] -> "update"
    [] Bundle[b] # None /\ doc # 0 /\ Current = Bundle[b] /\ ~Unchanged(b) -> "activate"
    [] OTHER -> "idle"

\* An isolate of a running build makes its one pass (the latch).
StartPass(i, b) ==
  /\ b \in running
  /\ pass[i].at = "idle"
  /\ pass' = [pass EXCEPT ![i] =
       IF Errand(b) = "idle" THEN NoPass
       ELSE [at |-> Errand(b), build |-> b, doc |-> doc, ver |-> 0]]
  /\ IF b = Newest THEN UNCHANGED trouble ELSE Trouble
  /\ UNCHANGED <<corpus, running>>

\* No document holds the name: is the name retired?
CheckTombstone(i) ==
  /\ pass[i].at = "tombstone"
  /\ IF retired THEN End(i) ELSE Goto(i, "claim")        \* blocked
  /\ UNCHANGED <<corpus, running, trouble>>

\* resolveSlug inside publishDocumentCore asks again, for both sets.
Claim(i) ==
  /\ pass[i].at = "claim"
  /\ IF doc # 0 \/ retired THEN End(i) ELSE Goto(i, "insert")
  /\ UNCHANGED <<corpus, running, trouble>>

\* publishDocumentCore's batch: born public and published.  The loser of a
\* race meets the unique index.
Insert(i) ==
  /\ pass[i].at = "insert"
  /\ IF doc # 0
       THEN UNCHANGED corpus
       ELSE /\ births < MaxBirths
            /\ doc' = births + 1
            /\ births' = births + 1
            /\ history' = <<Bytes(i)>>
            /\ published' = 1
            /\ status' = "active"
            /\ UNCHANGED retired
  /\ End(i)
  /\ UNCHANGED <<running, trouble>>

\* The opening SELECT of updateDocumentCore: not_found on a revoked document,
\* unchanged when another writer brought the same bytes.
OpenUpdate(i) ==
  /\ pass[i].at = "update"
  /\ IF doc # pass[i].doc \/ Current = Bytes(i)
       THEN End(i)
       ELSE pass' = [pass EXCEPT ![i].at = "commit", ![i].ver = Len(history) + 1]
  /\ UNCHANGED <<corpus, running, trouble>>

\* Its batch: appended, or refused by the primary key of versions.  On a
\* document revoked since, it changes nothing a reader of the name can see.
CommitUpdate(i) ==
  /\ pass[i].at = "commit"
  /\ IF doc = pass[i].doc
       THEN IF pass[i].ver = Len(history) + 1
              THEN history' = Append(history, Bytes(i)) /\ Goto(i, "promote")
              ELSE End(i) /\ UNCHANGED history
       ELSE Goto(i, "promote") /\ UNCHANGED history
  /\ UNCHANGED <<doc, births, published, status, retired, running, trouble>>

\* Fault: an off-by-one.
PromotesNext(i) == pass[i].ver + 1
\* Fault: the pointer is moved to whatever is current.
PromotesCurrent(i) == Len(history)
\* The pointer is moved to the version this pass stored.
PromotedVersion(i) == pass[i].ver

Promote(i) ==
  /\ pass[i].at = "promote"
  /\ published' = IF doc = pass[i].doc THEN PromotedVersion(i) ELSE published
  /\ End(i)
  /\ UNCHANGED <<doc, births, history, status, retired, running, trouble>>

\* setDocumentStatusCore: repair ("activate") or retirement ("deprecate").
SetStatus(i) ==
  /\ pass[i].at \in {"activate", "deprecate"}
  /\ status' = CASE doc # pass[i].doc -> status
                 [] pass[i].at = "activate" -> "active"
                 [] OTHER -> "deprecated"
  /\ End(i)
  /\ UNCHANGED <<doc, births, history, published, retired, running, trouble>>

Die(i) ==
  /\ pass[i].at # "idle"
  /\ Trouble
  /\ End(i)
  /\ UNCHANGED <<corpus, running>>

-----------------------------------------------------------------------------
(* Everybody else.                                                         *)

Deploy ==
  /\ Newest < Builds
  /\ running' = running \cup {Newest + 1}
  /\ UNCHANGED <<corpus, pass, trouble>>

\* The rollout ends: no isolate starts on an older build any more.
EndRollout ==
  /\ running # {Newest}
  /\ running' = {Newest}
  /\ UNCHANGED <<corpus, pass, trouble>>

\* Any active key may write any document it can name by public_id ...
AgentWrite ==
  /\ doc # 0 /\ Trouble
  /\ \E b \in AgentBytes : Current # b /\ history' = Append(history, b)
  /\ UNCHANGED <<doc, births, published, status, retired, running, pass>>

\* ... and set its status.
AgentDeprecate ==
  /\ doc # 0 /\ Trouble
  /\ status' = "deprecated"
  /\ UNCHANGED <<doc, births, history, published, retired, running, pass>>

Revoke ==
  /\ doc # 0
  /\ doc' = 0
  /\ history' = <<>>
  /\ published' = 0
  /\ retired' = TRUE
  /\ UNCHANGED <<births, status, running, pass, trouble>>

Release ==
  /\ retired
  /\ births < MaxBirths
  /\ retired' = FALSE
  /\ UNCHANGED <<doc, births, history, published, status, running, pass, trouble>>

-----------------------------------------------------------------------------
Init ==
  /\ doc = 0
  /\ births = 0
  /\ history = <<>>
  /\ published = 0
  /\ status = "active"
  /\ retired = FALSE
  /\ running = {1}
  /\ pass = [i \in Isolates |-> NoPass]
  /\ trouble = 0

Work(i) ==
  \/ CheckTombstone(i) \/ Claim(i) \/ Insert(i)
  \/ OpenUpdate(i) \/ CommitUpdate(i) \/ Promote(i)
  \/ SetStatus(i)

Next ==
  \/ \E i \in Isolates : Work(i) \/ Die(i) \/ \E b \in 1..Builds : StartPass(i, b)
  \/ Deploy \/ EndRollout
  \/ AgentWrite \/ AgentDeprecate
  \/ Revoke \/ Release

Spec == Init /\ [][Next]_vars

\* The platform resumes every pass, a rollout ends, and requests keep reaching
\* fresh isolates of the newest build.
Fairness ==
  /\ WF_vars(EndRollout)
  /\ \A i \in Isolates :
       /\ WF_vars(Work(i))
       /\ WF_vars(StartPass(i, Newest))

FairSpec == Spec /\ Fairness

-----------------------------------------------------------------------------
(* Properties.                                                             *)

Bundled == {Bundle[b] : b \in 1..Builds} \ {None}
Labels == {"idle", "tombstone", "claim", "insert", "update", "commit",
           "promote", "activate", "deprecate"}

\* Every variable holds a value of its type; a pointer never dangles.
TypeOK ==
  /\ births \in Nat
  /\ doc \in {0, births}
  /\ history \in Seq(Bundled \cup AgentBytes)
  /\ doc = 0 <=> history = <<>>
  /\ published \in 0..Len(history)
  /\ status \in {"active", "deprecated"}
  /\ retired \in BOOLEAN
  /\ running \subseteq 1..Builds /\ \E b \in running : \A c \in running : c <= b
  /\ pass \in [Isolates -> [at : Labels, build : 1..Builds, doc : Nat, ver : Nat]]
  /\ trouble \in Nat

\* Every byte the seeder opens to the anonymous internet came with a build,
\* whatever agents write to the document between its steps.
OnlyBuildsArePublished ==
  doc # 0 => published # 0 /\ history[published] \in Bundled

\* What makes it so: a pass that writes has bytes to write, knows a document
\* already born, and stored its build's bytes under the version it promotes.
PassInv(p) ==
  /\ p.at \in {"tombstone", "claim", "insert", "update", "commit", "promote"} =>
       Bundle[p.build] # None
  /\ p.at \in {"update", "commit", "promote"} => p.doc \in 1..births
  /\ p.at = "promote" /\ doc = p.doc =>
       p.ver \in 1..Len(history) /\ history[p.ver] = Bundle[p.build]

IInv == TypeOK /\ OnlyBuildsArePublished /\ \A i \in Isolates : PassInv(pass[i])

\* The copy is current when it holds the newest build's bytes, active, or, if
\* that build seeds nothing, is deprecated.
CopyIsCurrent ==
  \/ doc = 0 /\ (retired \/ births = MaxBirths \/ Bundle[Newest] = None)
  \/ doc # 0 /\ Bundle[Newest] # None /\ Current = Bundle[Newest] /\ status = "active"
  \/ doc # 0 /\ Bundle[Newest] = None /\ status = "deprecated"

\* The corpus copy heals: after rollouts, races, deaths and meddling, it ends
\* up current.
CorpusConverges == <>[]CopyIsCurrent

\* ... and so does what the world is served under the name: no reader is left
\* on an old build's bytes.
PublicCopyConverges ==
  <>[](doc # 0 /\ Bundle[Newest] # None => history[published] = Bundle[Newest])
=============================================================================
