----------------------------- MODULE SeederProofs -----------------------------
(***************************************************************************)
(* Seeder's invariants hold for any number of isolates, builds and agents' *)
(* writes.  A pass that has stored its bytes keeps them under the version  *)
(* it will promote, because a history only grows (PassInv).                *)
(***************************************************************************)
EXTENDS Seeder, TLAPS

\* The record of an isolate that is in no pass is a good one.
LEMMA NoPassIsGood ==
  /\ NoPass \in [at : Labels, build : 1..Builds, doc : Nat, ver : Nat]
  /\ PassInv(NoPass)
<1>1. 1 \in 1..Builds
  BY SeederAssumption
<1> QED BY <1>1 DEF NoPass, Labels, PassInv

\* Nothing is running, nothing is born.
LEMMA InitIInv == Init => IInv
<1> SUFFICES ASSUME Init PROVE IInv
  OBVIOUS
<1>1. <<>> \in Seq(Bundled \cup AgentBytes) /\ Len(<<>>) = 0
  OBVIOUS
<1>2. running \subseteq 1..Builds /\ \E b \in running : \A c \in running : c <= b
  BY SeederAssumption DEF Init
<1>3. pass \in [Isolates -> [at : Labels, build : 1..Builds, doc : Nat, ver : Nat]]
  BY NoPassIsGood DEF Init
<1>4. TypeOK
  <2>1. births \in Nat /\ doc \in {0, births} /\ trouble \in Nat /\ published \in 0..Len(history)
    BY <1>1 DEF Init
  <2>2. history \in Seq(Bundled \cup AgentBytes) /\ (doc = 0 <=> history = <<>>)
    BY <1>1 DEF Init
  <2>3. status \in {"active", "deprecated"} /\ retired \in BOOLEAN
    BY DEF Init
  <2> QED BY <2>1, <2>2, <2>3, <1>2, <1>3 DEF TypeOK
<1>5. OnlyBuildsArePublished
  BY DEF Init, OnlyBuildsArePublished
<1>6. \A i \in Isolates : PassInv(pass[i])
  BY NoPassIsGood DEF Init
<1> QED BY <1>4, <1>5, <1>6 DEF IInv

\* A step that leaves the corpus alone and moves one pass to a good record
\* preserves the invariant.
LEMMA PassStep ==
  ASSUME IInv, NEW i \in Isolates,
         NEW p \in [at : Labels, build : 1..Builds, doc : Nat, ver : Nat],
         pass' = [pass EXCEPT ![i] = p], PassInv(p),
         UNCHANGED corpus, UNCHANGED running, trouble' \in Nat
  PROVE  IInv'
<1>1. /\ TypeOK /\ OnlyBuildsArePublished /\ \A j \in Isolates : PassInv(pass[j])
  BY DEF IInv
<1>2. TypeOK'
  BY <1>1 DEF TypeOK, corpus
<1>3. OnlyBuildsArePublished'
  BY <1>1 DEF OnlyBuildsArePublished, corpus
<1>4. ASSUME NEW j \in Isolates PROVE PassInv(pass[j])'
  BY <1>1, <1>4 DEF TypeOK, PassInv, corpus
<1> QED BY <1>2, <1>3, <1>4 DEF IInv

\* A pass that ends, or dies.
LEMMA EndStep ==
  ASSUME IInv, NEW i \in Isolates, End(i),
         UNCHANGED corpus, UNCHANGED running, trouble' \in Nat
  PROVE  IInv'
BY NoPassIsGood, PassStep DEF End

\* A step that counts trouble keeps the counter a number.
LEMMA TroubleIsNat == ASSUME TypeOK, Trouble PROVE trouble' \in Nat
BY DEF TypeOK, Trouble

\* A pass that moves to its next await, the corpus untouched.
LEMMA GotoStep ==
  ASSUME IInv, NEW i \in Isolates, NEW label \in Labels, Goto(i, label),
         PassInv([pass[i] EXCEPT !.at = label]),
         UNCHANGED corpus, UNCHANGED running, UNCHANGED trouble
  PROVE  IInv'
<1> DEFINE p == [pass[i] EXCEPT !.at = label]
<1>1. TypeOK
  BY DEF IInv
<1>2. p \in [at : Labels, build : 1..Builds, doc : Nat, ver : Nat]
  BY <1>1 DEF TypeOK
<1>3. pass' = [pass EXCEPT ![i] = p]
  BY <1>1 DEF Goto, TypeOK
<1>4. trouble' \in Nat
  BY <1>1 DEF TypeOK
<1>5. PassInv(p)
  OBVIOUS
<1> HIDE DEF p
<1> QED BY <1>2, <1>3, <1>4, <1>5, PassStep

\* What the other passes know stays true when the document they know only
\* grows, or is another one, born later.
LEMMA OthersKeep ==
  ASSUME IInv, NEW j \in Isolates, pass'[j] \in {pass[j], NoPass},
         births' \in Nat, births <= births',
         doc' = doc => /\ Len(history) <= Len(history')
                       /\ Len(history') \in Nat
                       /\ \A v \in 1..Len(history) : history'[v] = history[v],
         doc' # doc => doc' \notin 1..births
  PROVE  PassInv(pass[j])'
<1>1. TypeOK /\ PassInv(pass[j])
  BY DEF IInv
<1>2. CASE pass'[j] = NoPass
  BY <1>2 DEF PassInv, NoPass
<1>3. CASE pass'[j] = pass[j]
  <2>1. pass[j].doc \in Nat /\ births \in Nat /\ history \in Seq(Bundled \cup AgentBytes)
    BY <1>1 DEF TypeOK
  <2>2. pass[j].doc \in 1..births => pass[j].doc \in 1..births'
    BY <2>1
  <2>3. ASSUME pass[j].at = "promote", doc' = pass[j].doc
        PROVE  pass[j].ver \in 1..Len(history') /\ history'[pass[j].ver] = Bundle[pass[j].build]
    <3>1. doc = doc'
      BY <1>1, <2>3 DEF PassInv
    <3>2. pass[j].ver \in 1..Len(history) /\ history[pass[j].ver] = Bundle[pass[j].build]
      BY <1>1, <2>3, <3>1 DEF PassInv
    <3> QED BY <2>1, <3>1, <3>2
  <2> QED BY <1>1, <1>3, <2>2, <2>3 DEF PassInv
<1> QED BY <1>2, <1>3

\* A pass begins with the errand its first SELECT yields.
LEMMA StartPassStep ==
  ASSUME IInv, NEW i \in Isolates, NEW b \in 1..Builds, StartPass(i, b)
  PROVE  IInv'
<1> DEFINE p == [at |-> Errand(b), build |-> b, doc |-> doc, ver |-> 0]
<1>1. TypeOK
  BY DEF IInv
<1>2. trouble' \in Nat
  BY <1>1, TroubleIsNat DEF StartPass, TypeOK
<1>3. Errand(b) \in Labels
  BY DEF Errand, Labels
<1>4. Errand(b) \notin {"claim", "insert", "commit", "promote"}
  BY DEF Errand
<1>5. Errand(b) \in {"tombstone", "update"} => Bundle[b] # None
  BY DEF Errand
<1>6. Errand(b) = "update" => doc # 0
  BY DEF Errand
<1>7. p \in [at : Labels, build : 1..Builds, doc : Nat, ver : Nat]
  BY <1>1, <1>3 DEF TypeOK
<1>8. PassInv(p)
  BY <1>1, <1>4, <1>5, <1>6 DEF PassInv, TypeOK
<1>9. pass' = [pass EXCEPT ![i] = NoPass] \/ pass' = [pass EXCEPT ![i] = p]
  BY DEF StartPass
<1>10. UNCHANGED corpus /\ UNCHANGED running
  BY DEF StartPass
<1>11. CASE pass' = [pass EXCEPT ![i] = NoPass]
  BY <1>2, <1>10, <1>11, EndStep DEF End
<1>12. CASE pass' = [pass EXCEPT ![i] = p]
  <2> HIDE DEF p
  <2> QED BY <1>2, <1>7, <1>8, <1>10, <1>12, PassStep
<1> QED BY <1>9, <1>11, <1>12

\* The two looks at the name before a birth.
LEMMA LookStep ==
  ASSUME IInv, NEW i \in Isolates, CheckTombstone(i) \/ Claim(i)
  PROVE  IInv'
<1>1. TypeOK /\ PassInv(pass[i])
  BY DEF IInv
<1>2. UNCHANGED corpus /\ UNCHANGED running /\ UNCHANGED trouble /\ trouble' \in Nat
  BY <1>1 DEF CheckTombstone, Claim, TypeOK
<1>3. CASE End(i)
  BY <1>2, <1>3, EndStep
<1>4. ASSUME NEW label \in {"claim", "insert"}, Goto(i, label),
             pass[i].at \in {"tombstone", "claim"}
      PROVE  IInv'
  <2>1. label \in Labels
    BY DEF Labels
  <2>2. PassInv([pass[i] EXCEPT !.at = label])
    BY <1>1, <1>4 DEF PassInv, TypeOK
  <2> QED BY <1>2, <1>4, <2>1, <2>2, GotoStep
<1> QED BY <1>3, <1>4 DEF CheckTombstone, Claim

\* A birth publishes the bytes of the pass's build; the loser changes nothing.
LEMMA InsertStep ==
  ASSUME IInv, NEW i \in Isolates, Insert(i)
  PROVE  IInv'
<1>1. TypeOK /\ PassInv(pass[i]) /\ End(i)
  BY DEF IInv, Insert
<1>2. CASE doc # 0
  BY <1>1, <1>2, EndStep DEF Insert, TypeOK
<1>3. CASE doc = 0
  <2>1. /\ doc' = births + 1 /\ births' = births + 1
        /\ history' = <<Bytes(i)>> /\ published' = 1
        /\ status' = "active"
        /\ UNCHANGED <<retired, running, trouble>>
    BY <1>3 DEF Insert
  <2>2. Bytes(i) \in Bundled
    BY <1>1 DEF Insert, PassInv, Bytes, Bundled, TypeOK
  <2>3. history' \in Seq(Bundled \cup AgentBytes) /\ Len(history') = 1 /\ history'[1] = Bytes(i)
    BY <2>1, <2>2
  <2>4. pass' \in [Isolates -> [at : Labels, build : 1..Builds, doc : Nat, ver : Nat]]
    BY <1>1, NoPassIsGood DEF End, TypeOK
  <2>5. births' \in Nat /\ doc' \in {0, births'} /\ (doc' = 0 <=> history' = <<>>)
    BY <1>1, <2>1, <2>3 DEF TypeOK
  <2>6. TypeOK'
    BY <1>1, <2>1, <2>3, <2>4, <2>5 DEF TypeOK
  <2>7. OnlyBuildsArePublished'
    BY <2>1, <2>2, <2>3 DEF OnlyBuildsArePublished, Bundled
  <2>8. ASSUME NEW j \in Isolates PROVE PassInv(pass[j])'
    <3>1. pass'[j] \in {pass[j], NoPass}
      BY <1>1 DEF End, TypeOK
    <3>2. births' \in Nat /\ births <= births' /\ doc' # doc /\ doc' \notin 1..births
      BY <1>1, <1>3, <2>1 DEF TypeOK
    <3> QED BY <3>1, <3>2, OthersKeep
  <2> QED BY <2>6, <2>7, <2>8 DEF IInv
<1> QED BY <1>2, <1>3

\* An update that goes on names a document it saw alive.
LEMMA OpenUpdateStep ==
  ASSUME IInv, NEW i \in Isolates, OpenUpdate(i)
  PROVE  IInv'
<1> DEFINE p == [pass[i] EXCEPT !.at = "commit", !.ver = Len(history) + 1]
<1>1. TypeOK /\ PassInv(pass[i])
  BY DEF IInv
<1>2. UNCHANGED corpus /\ UNCHANGED running /\ trouble' \in Nat
  BY <1>1 DEF OpenUpdate, TypeOK
<1>3. CASE End(i)
  BY <1>2, <1>3, EndStep
<1>4. CASE pass' = [pass EXCEPT ![i].at = "commit", ![i].ver = Len(history) + 1]
  <2>1. pass' = [pass EXCEPT ![i] = p]
    BY <1>1, <1>4 DEF TypeOK
  <2>2. p \in [at : Labels, build : 1..Builds, doc : Nat, ver : Nat]
    <3>1. Len(history) + 1 \in Nat /\ "commit" \in Labels
      BY <1>1 DEF TypeOK, Labels
    <3>2. pass[i] \in [at : Labels, build : 1..Builds, doc : Nat, ver : Nat]
      BY <1>1 DEF TypeOK
    <3> QED BY <3>1, <3>2
  <2>3. pass[i].at = "update"
    BY DEF OpenUpdate
  <2>4. PassInv(p)
    BY <1>1, <2>3 DEF PassInv, TypeOK
  <2> HIDE DEF p
  <2> QED BY <1>2, <2>1, <2>2, <2>4, PassStep
<1> QED BY <1>3, <1>4 DEF OpenUpdate

\* Appending keeps every version where it was, the published one too.
LEMMA Appended ==
  ASSUME TypeOK, NEW b \in Bundled \cup AgentBytes, history' = Append(history, b)
  PROVE  /\ history' \in Seq(Bundled \cup AgentBytes)
         /\ Len(history') = Len(history) + 1
         /\ Len(history) \in Nat
         /\ history'[Len(history) + 1] = b
         /\ \A v \in 1..Len(history) : history'[v] = history[v]
BY DEF TypeOK

\* An appended version leaves the types and the published bytes alone.
LEMMA AppendKeeps ==
  ASSUME IInv, NEW b \in Bundled \cup AgentBytes, history' = Append(history, b),
         doc # 0, UNCHANGED <<doc, births, published, status, retired, running>>,
         pass' \in [Isolates -> [at : Labels, build : 1..Builds, doc : Nat, ver : Nat]],
         trouble' \in Nat
  PROVE  TypeOK' /\ OnlyBuildsArePublished'
<1>1. TypeOK /\ OnlyBuildsArePublished
  BY DEF IInv
<1>2. /\ history' \in Seq(Bundled \cup AgentBytes)
      /\ Len(history') = Len(history) + 1
      /\ Len(history) \in Nat
      /\ \A v \in 1..Len(history) : history'[v] = history[v]
  BY <1>1, Appended
<1>3. history' # <<>> /\ published' \in 0..Len(history')
  <2>1. Len(history') # 0
    BY <1>2
  <2>2. published \in 0..Len(history) /\ published' = published
    BY <1>1 DEF TypeOK
  <2> QED BY <1>2, <2>1, <2>2
<1>4. TypeOK'
  BY <1>1, <1>2, <1>3 DEF TypeOK
<1>5. OnlyBuildsArePublished'
  BY <1>1, <1>2 DEF OnlyBuildsArePublished, TypeOK, Bundled
<1> QED BY <1>4, <1>5

\* The pass that stores its bytes knows them under the version it will promote.
LEMMA CommitUpdateStep ==
  ASSUME IInv, NEW i \in Isolates, CommitUpdate(i)
  PROVE  IInv'
<1>1. TypeOK /\ PassInv(pass[i]) /\ pass[i].at = "commit"
  BY DEF IInv, CommitUpdate
<1>2. UNCHANGED <<doc, births, published, status, retired, running, trouble>>
  BY DEF CommitUpdate
<1>3. Bytes(i) \in Bundled /\ pass[i].doc \in 1..births
  BY <1>1 DEF PassInv, Bytes, Bundled, TypeOK
<1>4. CASE End(i) /\ UNCHANGED history
  BY <1>1, <1>2, <1>4, EndStep DEF TypeOK, corpus
<1>5. CASE doc # pass[i].doc /\ Goto(i, "promote") /\ UNCHANGED history
  <2>1. PassInv([pass[i] EXCEPT !.at = "promote"])
    BY <1>1, <1>5 DEF PassInv, TypeOK
  <2>2. "promote" \in Labels
    BY DEF Labels
  <2> QED BY <1>2, <1>5, <2>1, <2>2, GotoStep DEF corpus
<1>6. CASE /\ doc = pass[i].doc /\ pass[i].ver = Len(history) + 1
           /\ history' = Append(history, Bytes(i)) /\ Goto(i, "promote")
  <2>1. /\ Len(history') = Len(history) + 1
        /\ Len(history) \in Nat
        /\ history'[Len(history) + 1] = Bytes(i)
        /\ \A v \in 1..Len(history) : history'[v] = history[v]
    BY <1>1, <1>3, <1>6, Appended
  <2>2. pass' \in [Isolates -> [at : Labels, build : 1..Builds, doc : Nat, ver : Nat]]
    BY <1>1, <1>6 DEF Goto, TypeOK, Labels
  <2>3. trouble' \in Nat /\ births' \in Nat /\ births <= births' /\ doc # 0
    BY <1>1, <1>2, <1>3, <1>6 DEF TypeOK
  <2>4. TypeOK' /\ OnlyBuildsArePublished'
    BY <1>2, <1>3, <1>6, <2>2, <2>3, AppendKeeps
  <2>5. ASSUME NEW j \in Isolates PROVE PassInv(pass[j])'
    <3>1. CASE j = i
      <4>1. pass'[j] = [pass[i] EXCEPT !.at = "promote"]
        BY <1>1, <1>6, <3>1 DEF Goto, TypeOK
      <4>2. /\ pass'[j].build = pass[i].build /\ pass'[j].doc = pass[i].doc
            /\ pass'[j].ver = pass[i].ver /\ pass'[j].at = "promote"
        BY <1>1, <4>1 DEF TypeOK
      <4>3. pass'[j].ver \in 1..Len(history')
        BY <1>6, <2>1, <4>2
      <4>4. history'[pass'[j].ver] = Bundle[pass'[j].build]
        BY <1>6, <2>1, <4>2 DEF Bytes
      <4>5. Bundle[pass'[j].build] # None /\ pass'[j].doc \in 1..births'
        BY <1>1, <1>2, <1>3, <4>2 DEF PassInv
      <4> QED BY <4>3, <4>4, <4>5 DEF PassInv
    <3>2. CASE j # i
      <4>1. pass'[j] \in {pass[j], NoPass}
        BY <1>1, <1>6, <3>2 DEF Goto, TypeOK
      <4>2. Len(history) <= Len(history') /\ Len(history') \in Nat
        BY <2>1
      <4> QED BY <1>2, <2>1, <2>3, <4>1, <4>2, OthersKeep
    <3> QED BY <3>1, <3>2
  <2> QED BY <2>4, <2>5 DEF IInv
<1> QED BY <1>4, <1>5, <1>6 DEF CommitUpdate

\* The pointer moves to a version that holds a build's bytes.
LEMMA PromoteStep ==
  ASSUME IInv, NEW i \in Isolates, Promote(i)
  PROVE  IInv'
<1>1. TypeOK /\ OnlyBuildsArePublished /\ PassInv(pass[i]) /\ pass[i].at = "promote" /\ End(i)
  BY DEF IInv, Promote
<1>2. UNCHANGED <<doc, births, history, status, retired, running, trouble>>
  BY DEF Promote
<1>3. CASE doc # pass[i].doc
  <2>1. published' = published
    BY <1>3 DEF Promote
  <2> QED BY <1>1, <1>2, <2>1, EndStep DEF TypeOK, corpus
<1>4. CASE doc = pass[i].doc
  <2>1. /\ published' = pass[i].ver
        /\ pass[i].ver \in 1..Len(history)
        /\ history[pass[i].ver] = Bundle[pass[i].build]
        /\ Bundle[pass[i].build] \in Bundled
    BY <1>1, <1>4 DEF Promote, PromotedVersion, PassInv, Bundled, TypeOK
  <2>2. pass' \in [Isolates -> [at : Labels, build : 1..Builds, doc : Nat, ver : Nat]]
    BY <1>1, NoPassIsGood DEF End, TypeOK
  <2>3. Len(history) \in Nat
    BY <1>1 DEF TypeOK
  <2>4. published' \in 0..Len(history) /\ published' # 0
    BY <2>1, <2>3
  <2>5. TypeOK'
    BY <1>1, <1>2, <2>2, <2>4 DEF TypeOK
  <2>6. OnlyBuildsArePublished'
    BY <1>2, <2>1, <2>4 DEF OnlyBuildsArePublished, Bundled
  <2>7. ASSUME NEW j \in Isolates PROVE PassInv(pass[j])'
    <3>1. pass'[j] \in {pass[j], NoPass}
      BY <1>1 DEF End, TypeOK
    <3>2. births' \in Nat /\ births <= births'
      BY <1>1, <1>2 DEF TypeOK
    <3> QED BY <1>2, <2>3, <3>1, <3>2, OthersKeep
  <2> QED BY <2>5, <2>6, <2>7 DEF IInv
<1> QED BY <1>3, <1>4

\* A step that sets the status, and ends at most one pass.
LEMMA StatusStep ==
  ASSUME IInv, status' \in {"active", "deprecated"}, trouble' \in Nat,
         UNCHANGED <<doc, births, history, published, retired, running>>,
         UNCHANGED pass \/ \E i \in Isolates : End(i)
  PROVE  IInv'
<1>1. TypeOK /\ OnlyBuildsArePublished
  BY DEF IInv
<1>2. pass' \in [Isolates -> [at : Labels, build : 1..Builds, doc : Nat, ver : Nat]]
  BY <1>1, NoPassIsGood DEF End, TypeOK
<1>3. TypeOK' /\ OnlyBuildsArePublished'
  BY <1>1, <1>2 DEF TypeOK, OnlyBuildsArePublished, Bundled
<1>4. ASSUME NEW j \in Isolates PROVE PassInv(pass[j])'
  <2>1. pass'[j] \in {pass[j], NoPass}
    BY <1>1 DEF End, TypeOK
  <2>2. births' \in Nat /\ births <= births' /\ Len(history) \in Nat
    BY <1>1 DEF TypeOK
  <2> QED BY <2>1, <2>2, OthersKeep
<1> QED BY <1>3, <1>4 DEF IInv

\* Repair, retirement, and an agent's word on the status.
LEMMA SetStatusStep ==
  ASSUME IInv, AgentDeprecate \/ \E i \in Isolates : SetStatus(i)
  PROVE  IInv'
<1>1. TypeOK
  BY DEF IInv
<1>2. ASSUME NEW i \in Isolates, SetStatus(i) PROVE IInv'
  <2>1. status' \in {"active", "deprecated"} /\ trouble' \in Nat
    BY <1>1, <1>2 DEF SetStatus, TypeOK
  <2> QED BY <1>2, <2>1, StatusStep DEF SetStatus
<1>3. CASE AgentDeprecate
  BY <1>1, <1>3, TroubleIsNat, StatusStep DEF AgentDeprecate
<1> QED BY <1>2, <1>3

\* An agent's version is stored, and published by nobody.
LEMMA AgentWriteStep ==
  ASSUME IInv, AgentWrite
  PROVE  IInv'
<1>1. TypeOK /\ doc # 0 /\ trouble' \in Nat
  BY TroubleIsNat DEF IInv, AgentWrite
<1>2. UNCHANGED <<doc, births, published, status, retired, running, pass>>
  BY DEF AgentWrite
<1>3. PICK b \in AgentBytes : history' = Append(history, b)
  BY DEF AgentWrite
<1>4. TypeOK' /\ OnlyBuildsArePublished'
  BY <1>1, <1>2, <1>3, AppendKeeps DEF TypeOK
<1>5. ASSUME NEW j \in Isolates PROVE PassInv(pass[j])'
  <2>1. /\ Len(history') = Len(history) + 1
        /\ Len(history) \in Nat
        /\ \A v \in 1..Len(history) : history'[v] = history[v]
    BY <1>1, <1>3, Appended
  <2>2. births' \in Nat /\ births <= births' /\ pass'[j] \in {pass[j], NoPass}
    BY <1>1, <1>2 DEF TypeOK
  <2>3. Len(history') \in Nat /\ Len(history) <= Len(history')
    BY <2>1
  <2> QED BY <1>2, <2>1, <2>2, <2>3, OthersKeep
<1> QED BY <1>4, <1>5 DEF IInv

\* A revoke takes the name from the document; what passes know of it is moot.
LEMMA RevokeStep ==
  ASSUME IInv, Revoke
  PROVE  IInv'
<1>1. TypeOK /\ doc # 0
  BY DEF IInv, Revoke
<1>2. /\ doc' = 0 /\ history' = <<>> /\ published' = 0 /\ retired' = TRUE
      /\ UNCHANGED <<births, status, running, pass, trouble>>
  BY DEF Revoke
<1>3. history' \in Seq(Bundled \cup AgentBytes) /\ Len(history') = 0
  BY <1>2
<1>4. published' \in 0..Len(history') /\ doc' \in {0, births'}
  BY <1>2, <1>3
<1>5. TypeOK'
  BY <1>1, <1>2, <1>3, <1>4 DEF TypeOK
<1>6. OnlyBuildsArePublished'
  BY <1>2 DEF OnlyBuildsArePublished
<1>7. ASSUME NEW j \in Isolates PROVE PassInv(pass[j])'
  <2>1. births' \in Nat /\ births <= births' /\ pass'[j] \in {pass[j], NoPass}
    BY <1>1, <1>2 DEF TypeOK
  <2>2. doc' # doc /\ doc' \notin 1..births
    BY <1>1, <1>2 DEF TypeOK
  <2> QED BY <2>1, <2>2, OthersKeep
<1> QED BY <1>5, <1>6, <1>7 DEF IInv

\* There always is a newest build, and it is running.
LEMMA NewestIsRunning ==
  ASSUME TypeOK
  PROVE  Newest \in running /\ \A c \in running : c <= Newest
BY DEF TypeOK, Newest

\* Rollouts and a released name: no pass, no version, no pointer moves.
LEMMA QuietStep ==
  ASSUME IInv, Deploy \/ EndRollout \/ Release
  PROVE  IInv'
<1>1. TypeOK /\ OnlyBuildsArePublished
  BY DEF IInv
<1>2. UNCHANGED <<doc, births, history, published, status, pass, trouble>>
  BY DEF Deploy, EndRollout, Release, corpus
<1>3. retired' \in BOOLEAN
  BY <1>1 DEF Deploy, EndRollout, Release, corpus, TypeOK
<1>4. running' \subseteq 1..Builds /\ \E b \in running' : \A c \in running' : c <= b
  <2>1. CASE Deploy
    <3>1. running \subseteq 1..Builds /\ Newest \in running /\ \A c \in running : c <= Newest
      BY <1>1, NewestIsRunning DEF TypeOK
    <3>2. Newest < Builds /\ running' = running \cup {Newest + 1}
      BY <2>1 DEF Deploy
    <3>3. Newest + 1 \in 1..Builds
      BY <3>1, <3>2, SeederAssumption
    <3>4. \A c \in running' : c <= Newest + 1
      BY <3>1, <3>2, <3>3, SeederAssumption
    <3> QED BY <3>1, <3>2, <3>3, <3>4
  <2>2. CASE EndRollout
    <3>1. Newest \in 1..Builds /\ running' = {Newest}
      BY <1>1, <2>2, NewestIsRunning DEF EndRollout, TypeOK
    <3> QED BY <3>1
  <2>3. CASE Release
    BY <1>1, <2>3 DEF Release, TypeOK
  <2> QED BY <2>1, <2>2, <2>3
<1>5. TypeOK' /\ OnlyBuildsArePublished'
  BY <1>1, <1>2, <1>3, <1>4 DEF TypeOK, OnlyBuildsArePublished, Bundled
<1>6. ASSUME NEW j \in Isolates PROVE PassInv(pass[j])'
  <2>1. births' \in Nat /\ births <= births' /\ pass'[j] \in {pass[j], NoPass} /\ Len(history) \in Nat
    BY <1>1, <1>2 DEF TypeOK
  <2> QED BY <1>2, <2>1, OthersKeep
<1> QED BY <1>5, <1>6 DEF IInv

\* Every step preserves the invariant.
LEMMA NextIInv == IInv /\ [Next]_vars => IInv'
<1> SUFFICES ASSUME IInv, [Next]_vars PROVE IInv'
  OBVIOUS
<1>1. ASSUME NEW i \in Isolates, Work(i) PROVE IInv'
  BY <1>1, LookStep, InsertStep, OpenUpdateStep, CommitUpdateStep, PromoteStep,
     SetStatusStep DEF Work
<1>2. ASSUME NEW i \in Isolates, Die(i) PROVE IInv'
  BY <1>2, EndStep, TroubleIsNat DEF Die, IInv
<1>3. ASSUME NEW i \in Isolates, NEW b \in 1..Builds, StartPass(i, b) PROVE IInv'
  BY <1>3, StartPassStep
<1>4. CASE Deploy \/ EndRollout \/ Release
  BY <1>4, QuietStep
<1>5. CASE AgentWrite \/ AgentDeprecate \/ Revoke
  BY <1>5, AgentWriteStep, SetStatusStep, RevokeStep
<1>6. CASE UNCHANGED vars
  BY <1>6 DEF vars, corpus, IInv, TypeOK, OnlyBuildsArePublished, Bundled, PassInv
<1> QED BY <1>1, <1>2, <1>3, <1>4, <1>5, <1>6 DEF Next

\* The invariant holds of every behaviour of the seeder, whatever the builds
\* carry and however many isolates race.
THEOREM Invariance == Spec => []IInv
<1>1. Init => IInv
  BY InitIInv
<1>2. IInv /\ [Next]_vars => IInv'
  BY NextIInv
<1> QED BY <1>1, <1>2, PTL DEF Spec

\* The columns keep their types, and the published pointer never dangles.
THEOREM TypeCorrect == Spec => []TypeOK
<1>1. IInv => TypeOK
  BY DEF IInv
<1> QED BY <1>1, Invariance, PTL

\* The seeder never opens an agent's bytes to the anonymous internet,
\* whatever is written between its update and its promotion.
THEOREM OnlyBuildBytesArePublic == Spec => []OnlyBuildsArePublished
<1>1. IInv => OnlyBuildsArePublished
  BY DEF IInv
<1> QED BY <1>1, Invariance, PTL
=============================================================================
