------------------------------ MODULE WalkProofs ------------------------------
(***************************************************************************)
(* Proofs about what a finished export file holds, and that the drill      *)
(* brings it back, for any database, page sizes and requests that write    *)
(* while the file is made.                                                 *)
(*                                                                         *)
(* The pages of a file are one walk through the phases, each in the order  *)
(* of its keys.  Walked says where the walk is: what it emitted is apart,  *)
(* not ahead of its cursor, and whatever it owes is emitted or ahead.  The *)
(* page under way goes on from the file's cursor in the same way, with the *)
(* rows fetched between the two.  A request can take rows away and add     *)
(* some, but moves none: so what it leaves of the debt stays where it was. *)
(*                                                                         *)
(* A file nobody wrote beside is quiet: it owes all of its image, and what *)
(* it holds is from it (Quiet).  The drill replays such a file into empty  *)
(* tables.  Drill says that all there is came from the image (Part), that  *)
(* the pages answered clean are back (Back), and that the units of the     *)
(* page under way are back or among its items to come (Replayed).  Once    *)
(* the last page is back so is everything the file owed: the image.        *)
(***************************************************************************)
EXTENDS BackupProofs

-----------------------------------------------------------------------------
(* The order of the walk.                                                  *)

Spots == [ts : Nat, id : Nat]
Cursors == [phase : Phases, after : Spots]
SpotOf(u) == [ts |-> u.row.at, id |-> u.id]

\* What is still to come at a cursor: later phases, and what is after it in its own.
Ahead(c, p, k) ==
  c # Done /\ (PhaseAt(c.phase) < PhaseAt(p) \/ (c.phase = p /\ After(k, c.after)))
Sooner(u, v) ==
  PhaseAt(u.phase) < PhaseAt(v.phase) \/ (u.phase = v.phase /\ Earlier(SpotOf(u), SpotOf(v)))

\* What the walk has emitted: in order, nothing that is still to come, and
\* everything owed that is not.  What is owed, and a document, keeps its key.
Fixed(u, owed) == u.phase = "documents" \/ <<u.phase, u.id>> \in owed
TrueOf(u, st) == u.id \in DOMAIN st[u.phase] /\ u.row.at = st[u.phase][u.id].at
Holds(us, o) == \E n \in DOMAIN us : us[n].phase = o[1] /\ us[n].id = o[2]
Walked(us, c, st, owed) ==
  /\ \A n \in DOMAIN us : ~Ahead(c, us[n].phase, SpotOf(us[n]))
  /\ \A m, n \in DOMAIN us : m < n => Sooner(us[m], us[n])
  /\ \A n \in DOMAIN us : Fixed(us[n], owed) => TrueOf(us[n], st)
  /\ \A o \in owed : ~Ahead(c, o[1], Key(st[o[1]], o[2])) => Holds(us, o)
Owing(owed, st) == \A o \in owed : o \in Phases \X Nat /\ o[2] \in DOMAIN st[o[1]]

\* Where the walk goes on after the rows of a phase.
EndOf(phase, us, last) ==
  IF ~last THEN [phase |-> phase, after |-> SpotOf(Last(us))]
  ELSE IF PhaseAt(phase) = 5 THEN Done
  ELSE [phase |-> nextBackupPhase[PhaseAt(phase)], after |-> Start]
PageWalked(e, f, st) ==
  /\ e.cursor \in Cursors
  /\ e.at = "fetch" => e.remaining > 0 /\ Walked(Units(f) \o e.units, e.cursor, st, f.owed)
  /\ e.at # "fetch" =>
       /\ e.cursor.phase = "documents"
       /\ Walked((Units(f) \o e.units) \o e.rows, EndOf("documents", e.rows, e.last), st, f.owed)
FileWalked(f, st) ==
  /\ f.cursor \in Cursors
  /\ Owing(f.owed, st)
  /\ Walked(Units(f), f.cursor, st, f.owed)
\* The finished files: complete, and in the order of the walk.
InWalkOrder(us) == \A m, n \in DOMAIN us : m < n => Sooner(us[m], us[n])
WholeFiles == WalkIsComplete /\ \A f \in ToSet(shelf) : InWalkOrder(Units(f))
Walk ==
  /\ WholeFiles
  /\ Restoring \/ file.cursor = Done => export = Idle
  /\ Restoring => file.cursor = Done
  /\ file.cursor # Done => FileWalked(file, store)
  /\ export # Idle => PageWalked(export, file, store)

-----------------------------------------------------------------------------
\* A phase is known by its place.
LEMMA PhaseOfPlace ==
  /\ \A p \in Phases : PhaseAt(p) \in 1..5 /\ BACKUP_PHASES[PhaseAt(p)] = p
  /\ \A p, q \in Phases : PhaseAt(p) = PhaseAt(q) => p = q
  /\ PhaseAt("documents") = 4 /\ PhaseAt("slug_tombstones") = 5
<1>1. ASSUME NEW p \in Phases PROVE PhaseAt(p) \in 1..5 /\ BACKUP_PHASES[PhaseAt(p)] = p
  <2>1. PICK i \in 1..5 : BACKUP_PHASES[i] = p
    BY DEF Phases, BACKUP_PHASES, ToSet
  <2> QED
    BY <2>1 DEF PhaseAt
<1>2. PhaseAt("documents") = 4 /\ PhaseAt("slug_tombstones") = 5
  BY <1>1, PhasesAre DEF BACKUP_PHASES
<1> QED
  BY <1>1, <1>2

\* The phase after one.
LEMMA PhaseNext ==
  ASSUME NEW p \in Phases, PhaseAt(p) < 5
  PROVE  /\ nextBackupPhase[PhaseAt(p)] \in Phases
         /\ PhaseAt(nextBackupPhase[PhaseAt(p)]) = PhaseAt(p) + 1
<1>1. PhaseAt(p) \in 1..4
  BY PhaseOfPlace
<1>2. nextBackupPhase[PhaseAt(p)] = BACKUP_PHASES[PhaseAt(p) + 1]
  BY <1>1 DEF nextBackupPhase
<1>3. PICK q \in Phases : BACKUP_PHASES[PhaseAt(p) + 1] = q
  BY <1>1, PhasesAre DEF BACKUP_PHASES
<1>4. \A i, k \in 1..5 : BACKUP_PHASES[i] = BACKUP_PHASES[k] => i = k
  BY DEF BACKUP_PHASES
<1>5. PhaseAt(q) = PhaseAt(p) + 1
  BY <1>1, <1>3, <1>4, PhaseOfPlace
<1> QED
  BY <1>2, <1>3, <1>5

\* The order of keys.
LEMMA EarlierIs ==
  /\ \A k, l, m \in Spots : Earlier(k, l) /\ Earlier(l, m) => Earlier(k, m)
  /\ \A k \in Spots : ~Earlier(k, k)
  /\ \A k, l \in Spots : k = l \/ Earlier(k, l) \/ Earlier(l, k)
<1>1. \A k, l, m \in Spots : Earlier(k, l) /\ Earlier(l, m) => Earlier(k, m)
  BY DEF Spots, Earlier
<1>2. \A k \in Spots : ~Earlier(k, k)
  BY DEF Spots, Earlier
<1>3. ASSUME NEW k \in Spots, NEW l \in Spots, ~Earlier(k, l), ~Earlier(l, k) PROVE k = l
  <2>1. k.ts = l.ts /\ k.id = l.id
    BY <1>3 DEF Spots, Earlier
  <2> QED
    BY <2>1 DEF Spots
<1> QED
  BY <1>1, <1>2, <1>3

\* Rows have keys, and so have units.
LEMMA SpotsAre ==
  ASSUME Sound(store), NEW p \in Phases
  PROVE  \A i \in DOMAIN store[p] : /\ Key(store[p], i) \in Spots /\ i \in Nat \ {0}
                                    /\ store[p][i].at \in Nat
<1>1. Shaped(store, p)
  BY DEF Sound
<1>2. ASSUME NEW i \in DOMAIN store[p] PROVE store[p][i].at \in Nat /\ i \in Nat \ {0}
  <2>1. store[p][i] \in Columns(p) /\ i \in Nat \ {0}
    BY <1>1 DEF Shaped
  <2> QED
    BY <2>1, PhasesAre DEF Columns
<1> QED
  BY <1>2 DEF Key, Spots

\* The key a unit travels by is its row's.
LEMMA UnitSpot ==
  ASSUME NEW own, NEW u \in UnitsOf(own)
  PROVE  SpotOf(u) \in Spots /\ u.phase \in Phases /\ u.id \in Nat \ {0}
<1>1. u.phase \in Phases /\ u.id \in Nat \ {0} /\ u.row \in Columns(u.phase)
  BY PhasesAre DEF UnitsOf, IsUnit, FileUnits
<1>2. u.row.at \in Nat
  BY <1>1, PhasesAre DEF Columns
<1> QED
  BY <1>1, <1>2 DEF SpotOf, Spots

\* What a page fetches: rows after the cursor, in the order of their keys, and
\* none left out but later ones, and those only if as many as asked for were found.
LEMMA FetchInOrder ==
  ASSUME Sound(store), NEW phase \in Phases, NEW after, NEW take \in Nat
  PROVE  LET t == store[phase]
             list == fetchPhase(phase, after, take)
         IN /\ list \in Seq(DOMAIN t) /\ Len(list) <= take
            /\ \A n \in DOMAIN list : After(Key(t, list[n]), after)
            /\ \A m, n \in DOMAIN list : m < n => Earlier(Key(t, list[m]), Key(t, list[n]))
            /\ \A i \in DOMAIN t : After(Key(t, i), after) =>
                 \/ \E n \in DOMAIN list : list[n] = i
                 \/ /\ Len(list) = take
                    /\ \A n \in DOMAIN list : Earlier(Key(t, list[n]), Key(t, i))
<1> DEFINE t == store[phase]
           ids == {i \in DOMAIN t : After(Key(t, i), after)}
           R == {p \in ids \X ids : Earlier(Key(t, p[1]), Key(t, p[2]))}
           n == Cardinality(ids)
<1>1. Shaped(store, phase)
  BY DEF Sound
<1>2. \A i \in DOMAIN t : Key(t, i) \in Spots /\ Key(t, i).id = i
  BY SpotsAre DEF Key
<1>3. IsFiniteSet(ids) /\ ids \subseteq DOMAIN t
  <2>1. ids \subseteq DOMAIN t /\ IsFiniteSet(DOMAIN t)
    BY <1>1 DEF Shaped
  <2> HIDE DEF ids
  <2> QED
    BY <2>1, FS_Subset
<1>ids. \A i \in DOMAIN t : i \in ids <=> After(Key(t, i), after)
  OBVIOUS
<1> HIDE DEF t, ids
<1>4. Orders(ids, R)
  <2>1. \A x \in ids : Key(t, x) \in Spots /\ Key(t, x).id = x
    BY <1>2, <1>3
  <2>2. \A x, y \in ids : <<x, y>> \in R <=> Earlier(Key(t, x), Key(t, y))
    OBVIOUS
  <2> HIDE DEF R
  <2>3. \A x \in ids : <<x, x>> \notin R
    BY <2>1, <2>2, EarlierIs
  <2>4. ASSUME NEW x \in ids, NEW y \in ids, NEW z \in ids, <<x, y>> \in R, <<y, z>> \in R
        PROVE  <<x, z>> \in R
    BY <2>1, <2>2, <2>4, EarlierIs
  <2>5. \A x, y \in ids : x = y \/ <<x, y>> \in R \/ <<y, x>> \in R
    BY <2>1, <2>2, EarlierIs
  <2> QED
    BY <2>3, <2>4, <2>5 DEF Orders
<1>5. n \in Nat /\ \A k \in 1..n : \E x \in ids : Place(ids, R, x) = k - 1
  <2> HIDE DEF R
  <2> QED
    BY <1>3, <1>4, PlaceTaken
<1>6. ASSUME NEW x \in ids
      PROVE  Place(ids, R, x) = Cardinality({y \in ids : Earlier(Key(t, y), Key(t, x))})
  <2>1. {y \in ids : Earlier(Key(t, y), Key(t, x))} = {y \in ids : <<y, x>> \in R}
    OBVIOUS
  <2> QED
    BY <2>1 DEF Place
<1> DEFINE all == InOrder(ids, LAMBDA i, j : Earlier(Key(t, i), Key(t, j)))
<1>7. all = [k \in 1..n |-> CHOOSE x \in ids :
                 Cardinality({y \in ids : Earlier(Key(t, y), Key(t, x))}) = k - 1]
  BY DEF InOrder
<1>8. fetchPhase(phase, after, take) = SubSeq(all, 1, IF n < take THEN n ELSE take)
  BY DEF fetchPhase, t, ids
<1> HIDE DEF all, n
<1>9. \A k \in 1..n : all[k] \in ids /\ Place(ids, R, all[k]) = k - 1
  <2> SUFFICES ASSUME NEW k \in 1..n PROVE all[k] \in ids /\ Place(ids, R, all[k]) = k - 1
    OBVIOUS
  <2>1. \E x \in ids : Cardinality({y \in ids : Earlier(Key(t, y), Key(t, x))}) = k - 1
    BY <1>5, <1>6
  <2>2. /\ all[k] \in ids
        /\ Cardinality({y \in ids : Earlier(Key(t, y), Key(t, all[k]))}) = k - 1
    BY <1>7, <2>1
  <2> QED
    BY <1>6, <2>2
<1>10. all \in [1..n -> ids]
  BY <1>7, <1>9
<1>11. IsPlaced(all, ids, R)
  <2>1. all \in [1..Cardinality(ids) -> ids]
        /\ \A k \in 1..Cardinality(ids) : Place(ids, R, all[k]) = k - 1
    BY <1>9, <1>10 DEF n
  <2> HIDE DEF R
  <2> QED
    BY <1>3, <1>4, <2>1, PlacedInOrder
<1>12. /\ \A x \in ids : \E k \in 1..n : all[k] = x
       /\ \A i, k \in 1..n : i < k => Earlier(Key(t, all[i]), Key(t, all[k]))
  <2>1. /\ \A x \in ids : \E k \in 1..n : all[k] = x
        /\ \A i, k \in 1..n : <<all[i], all[k]>> \in R <=> i < k
    BY <1>11 DEF IsPlaced, n
  <2> QED
    BY <2>1
<1> DEFINE m == IF n < take THEN n ELSE take
           list == SubSeq(all, 1, m)
<1>13. m \in Nat /\ m <= n /\ m <= take /\ (m = n \/ m = take)
  BY <1>5
<1>14. list = [i \in 1..m |-> all[i]]
  <2> HIDE DEF m
  <2>1. all \in Seq(ids) /\ Len(all) = n
    BY <1>5, <1>10
  <2> QED
    BY <1>5, <1>13, <2>1
<1> HIDE DEF m, list, R
<1>15. list \in Seq(ids) /\ Len(list) = m /\ DOMAIN list = 1..m
  <2>1. \A i \in 1..m : i \in 1..n /\ all[i] \in ids
    BY <1>5, <1>9, <1>13
  <2> QED
    BY <1>13, <1>14, <2>1
<1>16. \A i \in 1..m : list[i] = all[i] /\ i \in 1..n
  BY <1>5, <1>13, <1>14
<1>17. ASSUME NEW x \in ids
       PROVE  \/ \E k \in DOMAIN list : list[k] = x
              \/ /\ Len(list) = take
                 /\ \A k \in DOMAIN list : Earlier(Key(t, list[k]), Key(t, x))
  <2>1. PICK k \in 1..n : all[k] = x
    BY <1>12
  <2>2. CASE k <= m
    <3>1. k \in 1..m
      BY <1>13, <2>2
    <3> QED
      BY <1>15, <1>16, <2>1, <3>1
  <2>3. CASE m < k
    <3>1. m = take
      BY <1>5, <1>13, <2>3
    <3>2. \A i \in 1..m : i < k
      BY <1>13, <2>3
    <3> QED
      BY <1>12, <1>15, <1>16, <2>1, <3>1, <3>2
  <2> QED
    BY <1>13, <2>2, <2>3
<1>18. list \in Seq(DOMAIN t)
  BY <1>3, <1>15
<1>19. \A k \in DOMAIN list : After(Key(t, list[k]), after)
  BY <1>15, <1>3, <1>ids
<1>20. \A i, k \in DOMAIN list : i < k => Earlier(Key(t, list[i]), Key(t, list[k]))
  BY <1>12, <1>15, <1>16
<1>21. Len(list) <= take
  BY <1>13, <1>15
<1>22. fetchPhase(phase, after, take) = list
  BY <1>8 DEF list, m
<1> QED
  BY <1>17, <1>18, <1>19, <1>20, <1>21, <1>22, <1>ids DEF t

-----------------------------------------------------------------------------
(* The units of a file are those of its pages, one page after another.     *)

\* A page more: its units more.
LEMMA UnitsMore ==
  ASSUME NEW T, NEW f, f.pages \in Seq(Seq(T)), NEW h, NEW units \in Seq(T),
         h.pages = Append(f.pages, units)
  PROVE  Units(h) = Units(f) \o units
<1> DEFINE s == f.pages
           t == h.pages
           N == Len(s)
<1>0. /\ s \in Seq(Seq(T)) /\ t \in Seq(Seq(T)) /\ Len(t) = N + 1 /\ N \in Nat /\ t # <<>>
      /\ \A i \in 1..N : t[i] = s[i]
      /\ t[N + 1] = units /\ N = Len(s) /\ (N = 0 <=> s = <<>>)
      /\ Units(f) = FlattenSeq(s) /\ Units(h) = FlattenSeq(t)
  <2>1. s \in Seq(Seq(T)) /\ t = Append(s, units) /\ N = Len(s)
    OBVIOUS
  <2>2. Units(f) = FlattenSeq(s) /\ Units(h) = FlattenSeq(t)
    BY DEF Units
  <2> HIDE DEF s, t, N
  <2>u. units \in Seq(T)
    OBVIOUS
  <2> DEFINE B == Seq(T)
  <2>b. units \in B /\ s \in Seq(B)
    BY <2>1
  <2>3. t \in Seq(B) /\ Len(t) = N + 1 /\ N \in Nat /\ t # <<>>
        /\ t[N + 1] = units /\ (N = 0 <=> s = <<>>)
    <3> HIDE DEF B
    <3> QED
      BY <2>1, <2>b
  <2>4. \A i \in 1..N : t[i] = s[i]
    <3> HIDE DEF B
    <3> QED
      BY <2>1, <2>b
  <2> QED
    BY <2>1, <2>2, <2>3, <2>4
<1> HIDE DEF s, t, N
<1>1. PICK g : /\ Flat(g, s) /\ \A i \in 1..N : g[i] \in Seq(T)
               /\ FlattenSeq(s) = IF s = <<>> THEN <<>> ELSE g[N]
  BY <1>0, FlatOf
<1>2. PICK k : Flat(k, t) /\ FlattenSeq(t) = IF t = <<>> THEN <<>> ELSE k[N + 1]
  <2>1. t \in Seq(Seq(T)) /\ Len(t) = N + 1
    BY <1>0
  <2>2. PICK k : Flat(k, t) /\ FlattenSeq(t) = IF t = <<>> THEN <<>> ELSE k[Len(t)]
    BY <2>1, FlatOf
  <2> QED
    BY <2>1, <2>2
<1>3. \A i \in 1..N : g[i] = IF i = 1 THEN s[i] ELSE g[i - 1] \o s[i]
  BY <1>0, <1>1 DEF Flat
<1>4. \A i \in 1..N + 1 : k[i] = IF i = 1 THEN t[i] ELSE k[i - 1] \o t[i]
  BY <1>0, <1>2 DEF Flat
<1> DEFINE R == {n \in Nat : n \in 1..N => k[n] = g[n]}
<1>5. 0 \in R
  OBVIOUS
<1>6. ASSUME NEW n \in Nat, n \in R PROVE n + 1 \in R
  <2> SUFFICES ASSUME n + 1 <= N PROVE k[n + 1] = g[n + 1]
    OBVIOUS
  <2>1. n + 1 \in 1..N /\ n + 1 \in 1..N + 1 /\ n + 1 - 1 = n
    BY <1>0
  <2>2. g[n + 1] = (IF n + 1 = 1 THEN s[n + 1] ELSE g[n] \o s[n + 1])
        /\ k[n + 1] = (IF n + 1 = 1 THEN t[n + 1] ELSE k[n] \o t[n + 1])
    BY <2>1, <1>3, <1>4
  <2>3. t[n + 1] = s[n + 1]
    BY <1>0, <2>1
  <2>4. n + 1 # 1 => k[n] = g[n]
    BY <1>0, <1>6
  <2> QED
    BY <2>2, <2>3, <2>4
<1>7. \A n \in Nat : n \in R
  <2> HIDE DEF R
  <2> QED
    BY <1>5, <1>6, Inductive
<1>8. N + 1 \in 1..N + 1 /\ N + 1 - 1 = N
  BY <1>0
<1>9. k[N + 1] = (IF N + 1 = 1 THEN units ELSE k[N] \o units)
  BY <1>0, <1>4, <1>8
<1>10. CASE N = 0
  <2>1. Units(f) = <<>> /\ Units(h) = units
    BY <1>0, <1>1, <1>2, <1>9, <1>10
  <2> QED
    BY <2>1
<1>11. CASE N # 0
  <2>1. N \in 1..N
    BY <1>0, <1>11
  <2>2. k[N] = g[N]
    BY <1>7, <2>1
  <2>3. N + 1 # 1 /\ s # <<>> /\ t # <<>>
    BY <1>0, <1>11
  <2>4. Units(f) = g[N] /\ Units(h) = k[N + 1]
    <3>1. FlattenSeq(s) = g[N]
      BY <1>1, <2>3
    <3>2. FlattenSeq(t) = k[N + 1]
      BY <1>2, <2>3
    <3> QED
      BY <1>0, <3>1, <3>2
  <2>5. k[N + 1] = k[N] \o units
    BY <1>9, <2>3
  <2> QED
    BY <2>2, <2>4, <2>5
<1> QED
  BY <1>10, <1>11
-----------------------------------------------------------------------------
(* How the walk goes on.                                                   *)

\* Only the units' phases, ids and rows matter.
LEMMA WalkedSame ==
  ASSUME NEW us, NEW vs, NEW c, NEW st, NEW owed, DOMAIN us = DOMAIN vs,
         \A n \in DOMAIN us : us[n].phase = vs[n].phase /\ us[n].id = vs[n].id /\ us[n].row = vs[n].row,
         Walked(us, c, st, owed)
  PROVE  Walked(vs, c, st, owed)
<1>1. \A n \in DOMAIN vs : SpotOf(vs[n]) = SpotOf(us[n])
  BY DEF SpotOf
<1>2. \A n \in DOMAIN vs : ~Ahead(c, vs[n].phase, SpotOf(vs[n]))
  BY <1>1 DEF Walked
<1>3. ASSUME NEW m \in DOMAIN vs, NEW n \in DOMAIN vs, m < n PROVE Sooner(vs[m], vs[n])
  <2>1. Sooner(us[m], us[n])
    BY <1>3 DEF Walked
  <2> QED
    BY <1>1, <2>1 DEF Sooner
<1>4. ASSUME NEW n \in DOMAIN vs, Fixed(vs[n], owed) PROVE TrueOf(vs[n], st)
  <2>1. Fixed(us[n], owed)
    BY <1>4 DEF Fixed
  <2>2. TrueOf(us[n], st)
    BY <2>1 DEF Walked
  <2> QED
    BY <2>2 DEF TrueOf
<1>5. ASSUME NEW o \in owed, ~Ahead(c, o[1], Key(st[o[1]], o[2])) PROVE Holds(vs, o)
  BY <1>5 DEF Walked, Holds
<1> QED
  BY <1>2, <1>3, <1>4, <1>5 DEF Walked

\* Rows of the cursor's phase, in order and none left out before the next cursor.
LEMMA WalkedOn ==
  ASSUME NEW own, World(own), NEW us \in Seq(UnitsOf(own)), NEW c \in Cursors, NEW owed,
         Owing(owed, store), Walked(us, c, store, owed),
         NEW more \in Seq(UnitsOf(own)), NEW to,
         \A n \in DOMAIN more : /\ more[n].phase = c.phase /\ After(SpotOf(more[n]), c.after)
                                /\ TrueOf(more[n], store),
         \A m, n \in DOMAIN more : m < n => Earlier(SpotOf(more[m]), SpotOf(more[n])),
         \A p \in Phases, k \in Spots : Ahead(to, p, k) => Ahead(c, p, k),
         \A n \in DOMAIN more : ~Ahead(to, more[n].phase, SpotOf(more[n])),
         \A p \in Phases : \A i \in DOMAIN store[p] :
           Ahead(c, p, Key(store[p], i)) /\ ~Ahead(to, p, Key(store[p], i)) =>
             p = c.phase /\ \E n \in DOMAIN more : more[n].id = i
  PROVE  Walked(us \o more, to, store, owed)
<1> DEFINE a == Len(us)
           b == Len(more)
           all == us \o more
<1>0. /\ a \in Nat /\ b \in Nat /\ DOMAIN us = 1..a /\ DOMAIN more = 1..b /\ DOMAIN all = 1..(a + b)
      /\ \A n \in 1..a : all[n] = us[n]
      /\ \A n \in 1..b : all[a + n] = more[n]
  OBVIOUS
<1>u. /\ \A n \in 1..a : us[n] \in UnitsOf(own)
      /\ \A n \in 1..b : more[n] \in UnitsOf(own)
  BY <1>0
<1>p. \A n \in 1..(a + b) : n \in 1..a \/ (n - a \in 1..b /\ all[n] = more[n - a])
  <2> SUFFICES ASSUME NEW n \in 1..(a + b), ~(n \in 1..a) PROVE n - a \in 1..b /\ all[n] = more[n - a]
    OBVIOUS
  <2>1. n - a \in 1..b /\ a + (n - a) = n
    BY <1>0
  <2> QED
    BY <1>0, <2>1
<1> HIDE DEF a, b, all
<1>s. /\ \A n \in 1..a : SpotOf(us[n]) \in Spots /\ us[n].phase \in Phases
      /\ \A n \in 1..b : SpotOf(more[n]) \in Spots
  BY <1>u, UnitSpot
<1>c. c.phase \in Phases /\ c.after \in Spots /\ c # Done
  <2>1. c.phase # "" /\ c.phase \in Phases /\ c.after \in Spots
    BY PhasesAre DEF Cursors
  <2>2. Done.phase = ""
    BY DEF Done
  <2> QED
    BY <2>1, <2>2
<1>1. ASSUME NEW n \in 1..(a + b) PROVE ~Ahead(to, all[n].phase, SpotOf(all[n]))
  <2>1. CASE n \in 1..a
    <3>1. ~Ahead(c, us[n].phase, SpotOf(us[n]))
      BY <1>0, <2>1 DEF Walked
    <3> QED
      BY <1>0, <1>s, <2>1, <3>1
  <2>2. CASE n - a \in 1..b /\ all[n] = more[n - a]
    BY <1>0, <2>2
  <2> QED
    BY <1>p, <2>1, <2>2
<1>2. ASSUME NEW m \in 1..(a + b), NEW n \in 1..(a + b), m < n PROVE Sooner(all[m], all[n])
  <2>1. CASE n \in 1..a
    <3>1. m \in 1..a
      BY <1>0, <1>2, <2>1
    <3>2. Sooner(us[m], us[n])
      BY <1>0, <1>2, <2>1, <3>1 DEF Walked
    <3> QED
      BY <1>0, <2>1, <3>1, <3>2
  <2>2. CASE ~(n \in 1..a) /\ ~(m \in 1..a)
    <3>1. /\ n - a \in 1..b /\ all[n] = more[n - a] /\ m - a \in 1..b /\ all[m] = more[m - a]
          /\ m - a < n - a
      BY <1>0, <1>p, <1>2, <2>2
    <3>2. more[m - a].phase = c.phase /\ more[n - a].phase = c.phase
          /\ Earlier(SpotOf(more[m - a]), SpotOf(more[n - a]))
      BY <1>0, <3>1
    <3> QED
      BY <3>1, <3>2 DEF Sooner
  <2>3. CASE ~(n \in 1..a) /\ m \in 1..a
    <3>1. n - a \in 1..b /\ all[n] = more[n - a] /\ all[m] = us[m]
      BY <1>0, <1>p, <2>3
    <3> DEFINE u == us[m]
               v == more[n - a]
    <3>2. v.phase = c.phase /\ Earlier(c.after, SpotOf(v)) /\ SpotOf(v) \in Spots
      BY <1>0, <1>s, <3>1 DEF After
    <3>3. ~Ahead(c, u.phase, SpotOf(u)) /\ SpotOf(u) \in Spots /\ u.phase \in Phases
      BY <1>0, <1>s, <2>3 DEF Walked
    <3> HIDE DEF u, v
    <3>4. PhaseAt(u.phase) <= PhaseAt(c.phase)
          /\ (c.phase = u.phase => ~Earlier(c.after, SpotOf(u)))
      <4>1. ~(PhaseAt(c.phase) < PhaseAt(u.phase)) /\ ~(c.phase = u.phase /\ After(SpotOf(u), c.after))
        BY <1>c, <3>3 DEF Ahead
      <4>2. PhaseAt(c.phase) \in 1..5 /\ PhaseAt(u.phase) \in 1..5
        BY <1>c, <3>3, PhaseOfPlace
      <4> QED
        BY <4>1, <4>2 DEF After
    <3>5. CASE PhaseAt(u.phase) = PhaseAt(c.phase)
      <4>1. u.phase = c.phase
        BY <1>c, <3>3, <3>5, PhaseOfPlace
      <4>2. SpotOf(u) = c.after \/ Earlier(SpotOf(u), c.after)
        BY <1>c, <3>3, <3>4, <4>1, EarlierIs
      <4>3. Earlier(SpotOf(u), SpotOf(v))
        BY <1>c, <3>2, <3>3, <4>2, EarlierIs
      <4> QED
        BY <3>1, <3>2, <4>1, <4>3 DEF Sooner, u, v
    <3>6. CASE PhaseAt(u.phase) # PhaseAt(c.phase)
      <4>1. PhaseAt(u.phase) < PhaseAt(v.phase)
        <5>1. PhaseAt(c.phase) \in 1..5 /\ PhaseAt(u.phase) \in 1..5
          BY <1>c, <3>3, PhaseOfPlace
        <5> QED
          BY <5>1, <3>2, <3>4, <3>6
      <4> QED
        BY <3>1, <4>1 DEF Sooner, u, v
    <3> QED
      BY <3>5, <3>6
  <2> QED
    BY <2>1, <2>2, <2>3
<1>3. ASSUME NEW n \in 1..(a + b), Fixed(all[n], owed) PROVE TrueOf(all[n], store)
  <2>1. CASE n \in 1..a
    <3>1. Fixed(us[n], owed) => TrueOf(us[n], store)
      BY <1>0, <2>1 DEF Walked
    <3> QED
      BY <1>0, <1>3, <2>1, <3>1
  <2>2. CASE n - a \in 1..b /\ all[n] = more[n - a]
    BY <1>0, <2>2
  <2> QED
    BY <1>p, <2>1, <2>2
<1>4. ASSUME NEW o \in owed, ~Ahead(to, o[1], Key(store[o[1]], o[2])) PROVE Holds(all, o)
  <2>0. o[1] \in Phases /\ o[2] \in DOMAIN store[o[1]]
    BY DEF Owing
  <2>1. CASE Ahead(c, o[1], Key(store[o[1]], o[2]))
    <3>1. PICK n \in DOMAIN more : o[1] = c.phase /\ more[n].id = o[2]
      BY <1>4, <2>0, <2>1
    <3>2. more[n].phase = o[1]
      BY <3>1
    <3>3. a + n \in 1..(a + b) /\ all[a + n] = more[n]
      BY <1>0, <3>1
    <3> QED
      BY <1>0, <3>1, <3>2, <3>3 DEF Holds
  <2>2. CASE ~Ahead(c, o[1], Key(store[o[1]], o[2]))
    <3>1. PICK n \in DOMAIN us : us[n].phase = o[1] /\ us[n].id = o[2]
      BY <2>2 DEF Walked, Holds
    <3>2. n \in 1..(a + b) /\ all[n] = us[n]
      BY <1>0, <3>1
    <3> QED
      BY <1>0, <3>1, <3>2 DEF Holds
  <2> QED
    BY <2>1, <2>2
<1>5. Walked(all, to, store, owed)
  BY <1>0, <1>1, <1>2, <1>3, <1>4 DEF Walked
<1> QED
  BY <1>5 DEF all

-----------------------------------------------------------------------------
\* Rows of the cursor's phase, in order; none is left out, or only later ones.
InTurn(more, c, last) ==
  /\ \A n \in DOMAIN more : /\ more[n].phase = c.phase /\ After(SpotOf(more[n]), c.after)
                            /\ TrueOf(more[n], store)
  /\ \A m, n \in DOMAIN more : m < n => Earlier(SpotOf(more[m]), SpotOf(more[n]))
  /\ last \/ more # <<>>
  /\ \A i \in DOMAIN store[c.phase] : After(Key(store[c.phase], i), c.after) =>
       \/ \E n \in DOMAIN more : more[n].id = i
       \/ ~last /\ \A n \in DOMAIN more : Earlier(SpotOf(more[n]), Key(store[c.phase], i))

\* A cursor of a phase is not the end of the walk.
LEMMA NotDone ==
  \A c : c.phase \in Phases => c # Done
<1>1. Done.phase = "" /\ "" \notin Phases
  BY PhasesAre DEF Done
<1> QED
  BY <1>1

\* The end of a page is the end, or a cursor of a phase.
LEMMA EndIsCursor ==
  ASSUME NEW own, NEW us \in Seq(UnitsOf(own)), NEW phase \in Phases, NEW last \in BOOLEAN,
         last \/ us # <<>>
  PROVE  EndOf(phase, us, last) = Done \/ EndOf(phase, us, last) \in Cursors
<1>1. CASE last /\ PhaseAt(phase) = 5
  BY <1>1 DEF EndOf
<1>2. CASE last /\ PhaseAt(phase) # 5
  <2>1. nextBackupPhase[PhaseAt(phase)] \in Phases
    <3>1. PhaseAt(phase) \in 1..5 /\ PhaseAt(phase) < 5
      BY <1>2, PhaseOfPlace
    <3> QED
      BY <3>1, PhaseNext
  <2>2. Start \in Spots
    BY DEF Start, Spots
  <2> QED
    BY <1>2, <2>1, <2>2 DEF EndOf, Cursors
<1>3. CASE ~last
  <2>1. Last(us) \in UnitsOf(own)
    BY <1>3 DEF Last
  <2>2. SpotOf(Last(us)) \in Spots
    BY <2>1, UnitSpot
  <2> QED
    BY <1>3, <2>2 DEF EndOf, Cursors
<1> QED
  BY <1>1, <1>2, <1>3

\* They take the walk to their end.
LEMMA InTurnGoesOn ==
  ASSUME NEW own, World(own), NEW us \in Seq(UnitsOf(own)), NEW c \in Cursors, NEW owed,
         Owing(owed, store), Walked(us, c, store, owed),
         NEW more \in Seq(UnitsOf(own)), NEW last \in BOOLEAN, InTurn(more, c, last)
  PROVE  Walked(us \o more, EndOf(c.phase, more, last), store, owed)
<1> DEFINE to == EndOf(c.phase, more, last)
           end == SpotOf(Last(more))
<1>c. c.phase \in Phases /\ c.after \in Spots /\ c # Done
  BY NotDone DEF Cursors
<1>p. \A p \in Phases : PhaseAt(p) \in 1..5
  BY PhaseOfPlace
<1>m. \A n \in DOMAIN more : /\ SpotOf(more[n]) \in Spots /\ more[n].phase = c.phase
                             /\ Earlier(c.after, SpotOf(more[n]))
  <2>1. \A n \in DOMAIN more : more[n] \in UnitsOf(own)
    OBVIOUS
  <2> QED
    BY <2>1, UnitSpot DEF InTurn, After
<1>k. \A p \in Phases : \A i \in DOMAIN store[p] :
        Key(store[p], i) \in Spots /\ Earlier(Start, Key(store[p], i))
  <2> SUFFICES ASSUME NEW p \in Phases, NEW i \in DOMAIN store[p]
               PROVE  Key(store[p], i) \in Spots /\ Earlier(Start, Key(store[p], i))
    OBVIOUS
  <2>1. Key(store[p], i) \in Spots /\ i \in Nat \ {0} /\ store[p][i].at \in Nat
    BY SpotsAre DEF World, World0
  <2>2. Earlier(Start, Key(store[p], i))
    BY <2>1 DEF Key, Start, Earlier
  <2> QED
    BY <2>1, <2>2
<1>d. \A p, k : ~Ahead(Done, p, k)
  BY DEF Ahead
<1>1. CASE ~last
  <2>0. Len(more) \in DOMAIN more /\ end = SpotOf(more[Len(more)])
        /\ \A n \in DOMAIN more : n = Len(more) \/ n < Len(more)
    <3>1. more # <<>>
      BY <1>1 DEF InTurn
    <3> QED
      BY <3>1 DEF Last
  <2>1. end \in Spots /\ Earlier(c.after, end)
    BY <1>m, <2>0
  <2>2. \A n \in DOMAIN more : ~Earlier(end, SpotOf(more[n]))
    <3> SUFFICES ASSUME NEW n \in DOMAIN more, Earlier(end, SpotOf(more[n])) PROVE FALSE
      OBVIOUS
    <3>1. n = Len(more) \/ Earlier(SpotOf(more[n]), end)
      BY <2>0 DEF InTurn
    <3>2. SpotOf(more[n]) \in Spots /\ end \in Spots
      BY <1>m, <2>1
    <3> HIDE DEF end
    <3> QED
      BY <2>0, <3>1, <3>2, EarlierIs
  <2>3. to.phase = c.phase /\ to.after = end /\ to # Done
    <3>1. to = [phase |-> c.phase, after |-> end]
      BY <1>1 DEF EndOf
    <3> HIDE DEF to
    <3>2. to.phase = c.phase /\ to.after = end
      BY <3>1
    <3> QED
      BY <1>c, <3>2, NotDone
  <2> HIDE DEF to, end
  <2>4. \A p, k : Ahead(to, p, k) <=> PhaseAt(c.phase) < PhaseAt(p) \/ (c.phase = p /\ Earlier(end, k))
    BY <2>3 DEF Ahead, After
  <2>5. \A p, k : Ahead(c, p, k) <=> PhaseAt(c.phase) < PhaseAt(p) \/ (c.phase = p /\ Earlier(c.after, k))
    BY <1>c DEF Ahead, After
  <2>6. ASSUME NEW p \in Phases, NEW k \in Spots, Ahead(to, p, k) PROVE Ahead(c, p, k)
    BY <1>c, <2>1, <2>4, <2>5, <2>6, EarlierIs
  <2>7. \A n \in DOMAIN more : ~Ahead(to, more[n].phase, SpotOf(more[n]))
    BY <1>c, <1>p, <1>m, <2>2, <2>4
  <2>8. ASSUME NEW p \in Phases, NEW i \in DOMAIN store[p],
               Ahead(c, p, Key(store[p], i)), ~Ahead(to, p, Key(store[p], i))
        PROVE  p = c.phase /\ \E n \in DOMAIN more : more[n].id = i
    <3>1. p = c.phase /\ Earlier(c.after, Key(store[p], i)) /\ ~Earlier(end, Key(store[p], i))
      BY <2>4, <2>5, <2>8
    <3>2. \/ \E n \in DOMAIN more : more[n].id = i
          \/ \A n \in DOMAIN more : Earlier(SpotOf(more[n]), Key(store[p], i))
      BY <3>1 DEF InTurn, After
    <3> QED
      BY <2>0, <3>1, <3>2
  <2>9. \A n \in DOMAIN more : more[n].phase = c.phase /\ After(SpotOf(more[n]), c.after) /\ TrueOf(more[n], store)
    BY DEF InTurn
  <2>10. \A m, n \in DOMAIN more : m < n => Earlier(SpotOf(more[m]), SpotOf(more[n]))
    BY DEF InTurn
  <2>11. Walked(us \o more, to, store, owed)
    BY <2>6, <2>7, <2>8, <2>9, <2>10, WalkedOn
  <2> QED
    BY <2>11 DEF to
<1>2. CASE last
  <2>1. \/ PhaseAt(c.phase) = 5 /\ to = Done
        \/ /\ to # Done /\ to.phase \in Phases /\ to.after = Start
           /\ PhaseAt(to.phase) = PhaseAt(c.phase) + 1
    <3>1. CASE PhaseAt(c.phase) = 5
      BY <1>2, <3>1 DEF EndOf
    <3>2. CASE PhaseAt(c.phase) # 5
      <4>1. to = [phase |-> nextBackupPhase[PhaseAt(c.phase)], after |-> Start]
        BY <1>2, <3>2 DEF EndOf
      <4>2. to.phase \in Phases /\ PhaseAt(to.phase) = PhaseAt(c.phase) + 1
        <5>1. PhaseAt(c.phase) < 5
          BY <1>c, <1>p, <3>2
        <5> QED
          BY <1>c, <4>1, <5>1, PhaseNext
      <4> HIDE DEF to
      <4>3. to.after = Start
        BY <4>1
      <4> QED
        BY <4>2, <4>3, NotDone
    <3> QED
      BY <3>1, <3>2
  <2> HIDE DEF to
  <2>5. \A p, k : Ahead(c, p, k) <=> PhaseAt(c.phase) < PhaseAt(p) \/ (c.phase = p /\ Earlier(c.after, k))
    BY <1>c DEF Ahead, After
  <2>4. \A p, k : Ahead(to, p, k) => to # Done /\ (PhaseAt(to.phase) < PhaseAt(p) \/ to.phase = p)
    BY DEF Ahead
  <2>6. ASSUME NEW p \in Phases, NEW k \in Spots, Ahead(to, p, k) PROVE Ahead(c, p, k)
    <3>1. PhaseAt(c.phase) < PhaseAt(p)
      BY <1>c, <1>p, <2>1, <2>4, <2>6
    <3> QED
      BY <2>5, <3>1
  <2>7. ASSUME NEW n \in DOMAIN more, Ahead(to, more[n].phase, SpotOf(more[n])) PROVE FALSE
    <3>1. more[n].phase = c.phase
      BY <1>m
    <3> QED
      BY <1>c, <1>p, <2>1, <2>4, <2>7, <3>1
  <2>8. ASSUME NEW p \in Phases, NEW i \in DOMAIN store[p],
               Ahead(c, p, Key(store[p], i)), ~Ahead(to, p, Key(store[p], i))
        PROVE  p = c.phase /\ \E n \in DOMAIN more : more[n].id = i
    <3>1. CASE PhaseAt(c.phase) < PhaseAt(p)
      <4>1. to # Done /\ to.phase \in Phases /\ to.after = Start /\ PhaseAt(to.phase) = PhaseAt(c.phase) + 1
        BY <1>c, <1>p, <2>1, <3>1
      <4>2. PhaseAt(to.phase) < PhaseAt(p) \/ to.phase = p
        <5>1. PhaseAt(to.phase) < PhaseAt(p) \/ PhaseAt(to.phase) = PhaseAt(p)
          BY <1>c, <1>p, <3>1, <4>1
        <5> QED
          BY <4>1, <5>1, PhaseOfPlace
      <4>3. Earlier(Start, Key(store[p], i))
        BY <1>k
      <4> QED
        BY <2>8, <4>1, <4>2, <4>3 DEF Ahead, After
    <3>2. CASE c.phase = p /\ Earlier(c.after, Key(store[p], i))
      BY <1>2, <3>2 DEF InTurn, After
    <3> QED
      BY <2>5, <2>8, <3>1, <3>2
  <2>9. \A n \in DOMAIN more : more[n].phase = c.phase /\ After(SpotOf(more[n]), c.after) /\ TrueOf(more[n], store)
    BY DEF InTurn
  <2>10. \A m, n \in DOMAIN more : m < n => Earlier(SpotOf(more[m]), SpotOf(more[n]))
    BY DEF InTurn
  <2>12. \A n \in DOMAIN more : ~Ahead(to, more[n].phase, SpotOf(more[n]))
    BY <2>7
  <2>11. Walked(us \o more, to, store, owed)
    BY <2>6, <2>8, <2>9, <2>10, <2>12, WalkedOn
  <2> QED
    BY <2>11 DEF to
<1> QED
  BY <1>1, <1>2

\* What is peeked at, but for the row too many.
LEMMA PeekedIs ==
  ASSUME NEW T, NEW s \in Seq(T), NEW k \in Nat, k > 0, Len(s) <= k + 1
  PROVE  \E N \in Nat :
           /\ (IF Len(s) <= k THEN s ELSE Front(s)) = [n \in 1..N |-> s[n]]
           /\ \/ Len(s) <= k /\ N = Len(s)
              \/ ~(Len(s) <= k) /\ N = k /\ Len(s) = k + 1
<1>1. CASE Len(s) <= k
  <2>1. s = [n \in 1..Len(s) |-> s[n]] /\ Len(s) \in Nat
    OBVIOUS
  <2> QED
    BY <1>1, <2>1
<1>2. CASE ~(Len(s) <= k)
  <2>1. Len(s) = k + 1 /\ Len(s) - 1 = k
    BY <1>2
  <2>2. Front(s) = [i \in 1..Len(s) - 1 |-> s[i]]
    BY DEF Front
  <2> QED
    BY <1>2, <2>1, <2>2
<1> QED
  BY <1>1, <1>2

\* A page's rows are fetched in turn.
LEMMA FetchInTurn ==
  ASSUME NEW own, World(own), NEW c \in Cursors, NEW remaining \in Nat, remaining > 0
  PROVE  LET peeked == fetchPhase(c.phase, c.after, remaining + 1)
             last == Len(peeked) <= remaining
             rows == IF last THEN peeked ELSE Front(peeked)
             more == [n \in DOMAIN rows |-> Unit(c.phase, rows[n], Empty)]
         IN /\ more \in Seq(UnitsOf(own)) /\ Len(more) = Len(rows) /\ InTurn(more, c, last)
            /\ Len(rows) <= remaining /\ Len(rows) \in Nat /\ (rows = <<>> <=> more = <<>>)
            /\ last \in BOOLEAN
<1> DEFINE t == store[c.phase]
           peeked == fetchPhase(c.phase, c.after, remaining + 1)
           last == Len(peeked) <= remaining
           rows == IF last THEN peeked ELSE Front(peeked)
           more == [n \in DOMAIN rows |-> Unit(c.phase, rows[n], Empty)]
<1>c. c.phase \in Phases /\ c.after \in Spots
  BY DEF Cursors
<1>1. /\ peeked \in Seq(DOMAIN t) /\ Len(peeked) <= remaining + 1
      /\ \A n \in DOMAIN peeked : After(Key(t, peeked[n]), c.after)
      /\ \A m, n \in DOMAIN peeked : m < n => Earlier(Key(t, peeked[m]), Key(t, peeked[n]))
      /\ \A i \in DOMAIN t : After(Key(t, i), c.after) =>
           \/ \E n \in DOMAIN peeked : peeked[n] = i
           \/ /\ Len(peeked) = remaining + 1
              /\ \A n \in DOMAIN peeked : Earlier(Key(t, peeked[n]), Key(t, i))
  <2>1. remaining + 1 \in Nat /\ Sound(store)
    BY DEF World, World0
  <2> QED
    BY <1>c, <2>1, FetchInOrder
<1> HIDE DEF peeked
<1>2. Len(peeked) \in Nat /\ DOMAIN peeked = 1..Len(peeked)
  BY <1>1
<1>3. PICK N \in Nat :
        /\ rows = [n \in 1..N |-> peeked[n]]
        /\ \/ last /\ N = Len(peeked)
           \/ ~last /\ N = remaining /\ Len(peeked) = N + 1
  BY <1>1, PeekedIs
<1>n. N <= Len(peeked) /\ N <= remaining
  BY <1>2, <1>3
<1>l. last \in BOOLEAN /\ (last => Len(peeked) <= remaining)
  OBVIOUS
<1> HIDE DEF rows, last
<1>4. N <= remaining /\ N <= Len(peeked) /\ DOMAIN rows = 1..N
      /\ \A n \in 1..N : rows[n] = peeked[n] /\ n \in DOMAIN peeked
  <2>1. N <= Len(peeked) /\ N <= remaining
    BY <1>n
  <2>3. rows = [n \in 1..N |-> peeked[n]]
    BY <1>3
  <2>4. \A n \in 1..N : n \in DOMAIN peeked
    BY <1>2, <2>1
  <2> QED
    BY <2>1, <2>3, <2>4
<1>6. \A n \in 1..N : rows[n] \in DOMAIN t
  BY <1>1, <1>4
<1>7. Len(rows) = N /\ (rows = <<>> <=> N = 0)
  BY <1>3, <1>4
<1>8. DOMAIN more = 1..N /\ \A n \in 1..N : more[n] = Unit(c.phase, rows[n], Empty)
  BY <1>4
<1>9. \A n \in 1..N : more[n] \in UnitsOf(own)
  BY <1>c, <1>6, <1>8, RowIsUnit DEF World, World0
<1>10. more \in Seq(UnitsOf(own)) /\ Len(more) = N
  <2>1. more = [n \in 1..N |-> Unit(c.phase, rows[n], Empty)]
    BY <1>4
  <2> HIDE DEF more
  <2> QED
    BY <1>8, <1>9, <2>1
<1> HIDE DEF more
<1>11. \A n \in 1..N : /\ more[n].phase = c.phase /\ more[n].id = peeked[n]
                       /\ more[n].row = t[peeked[n]]
                       /\ SpotOf(more[n]) = Key(t, peeked[n])
  BY <1>4, <1>8 DEF Unit, SpotOf, Key
<1>12. \A n \in DOMAIN more : /\ more[n].phase = c.phase /\ After(SpotOf(more[n]), c.after)
                              /\ TrueOf(more[n], store)
  <2> SUFFICES ASSUME NEW n \in 1..N
               PROVE  /\ more[n].phase = c.phase /\ After(SpotOf(more[n]), c.after)
                      /\ TrueOf(more[n], store)
    BY <1>8
  <2>1. more[n].phase = c.phase /\ After(SpotOf(more[n]), c.after)
    BY <1>1, <1>4, <1>11
  <2>2. more[n].id \in DOMAIN t /\ more[n].row = t[more[n].id]
    BY <1>4, <1>6, <1>11
  <2> QED
    BY <1>11, <2>1, <2>2 DEF TrueOf
<1>13. \A m, n \in DOMAIN more : m < n => Earlier(SpotOf(more[m]), SpotOf(more[n]))
  BY <1>1, <1>4, <1>8, <1>11
<1>14. last \/ more # <<>>
  BY <1>3, <1>8, <1>10
<1>15. ASSUME NEW i \in DOMAIN t, After(Key(t, i), c.after)
       PROVE  \/ \E n \in DOMAIN more : more[n].id = i
              \/ ~last /\ \A n \in DOMAIN more : Earlier(SpotOf(more[n]), Key(t, i))
  <2>1. CASE \E n \in DOMAIN peeked : peeked[n] = i
    <3>1. PICK n \in DOMAIN peeked : peeked[n] = i
      BY <2>1
    <3>2. CASE n \in 1..N
      BY <1>8, <1>11, <3>1, <3>2
    <3>3. CASE ~(n \in 1..N)
      <4>0. n \in 1..Len(peeked) /\ N < n
        BY <1>2, <3>3
      <4>1. ~last /\ \A m \in 1..N : m < n
        BY <1>2, <1>3, <4>0
      <4>2. \A m \in 1..N : Earlier(Key(t, peeked[m]), Key(t, i))
        BY <1>1, <1>4, <3>1, <4>1
      <4> QED
        BY <1>8, <1>11, <4>1, <4>2
    <3> QED
      BY <3>2, <3>3
  <2>2. CASE /\ Len(peeked) = remaining + 1
             /\ \A n \in DOMAIN peeked : Earlier(Key(t, peeked[n]), Key(t, i))
    <3>1. ~last
      BY <1>3, <1>l, <2>2
    <3> QED
      BY <1>4, <1>8, <1>11, <2>2, <3>1
  <2> QED
    BY <1>1, <1>15, <2>1, <2>2
<1>16. InTurn(more, c, last)
  BY <1>12, <1>13, <1>14, <1>15 DEF InTurn
<1>17. rows = <<>> <=> more = <<>>
  BY <1>7, <1>8, <1>10
<1>18. Len(rows) <= remaining /\ Len(rows) \in Nat /\ Len(more) = Len(rows)
  BY <1>3, <1>4, <1>7, <1>10
<1> QED
  BY <1>10, <1>16, <1>17, <1>18, <1>l DEF more, rows, last, peeked

-----------------------------------------------------------------------------
(* What the walk has at its end, and what its steps keep.                  *)

Complete(f) ==
  LET units == Units(f)
      Places(p, i) == {n \in DOMAIN units : units[n].phase = p /\ units[n].id = i}
  IN /\ \A o \in f.owed : Cardinality(Places(o[1], o[2])) = 1
     /\ \A u \in Documents(f) : Cardinality(Places("documents", u.id)) = 1

\* Two units of one row that keeps its key are one.
LEMMA HeldOnce ==
  ASSUME NEW own, NEW us \in Seq(UnitsOf(own)), NEW c, NEW st, NEW owed, Walked(us, c, st, owed),
         NEW n \in DOMAIN us, Fixed(us[n], owed)
  PROVE  Cardinality({m \in DOMAIN us : us[m].phase = us[n].phase /\ us[m].id = us[n].id}) = 1
<1> DEFINE S == {m \in DOMAIN us : us[m].phase = us[n].phase /\ us[m].id = us[n].id}
<1>1. ASSUME NEW m \in S PROVE m = n
  <2>1. Fixed(us[m], owed) /\ us[m].phase = us[n].phase /\ us[m].id = us[n].id
    BY DEF Fixed
  <2>2. TrueOf(us[m], st) /\ TrueOf(us[n], st)
    BY <2>1 DEF Walked
  <2>3. SpotOf(us[m]) = SpotOf(us[n])
    BY <2>1, <2>2 DEF TrueOf, SpotOf
  <2>4. us[n] \in UnitsOf(own) /\ us[m] \in UnitsOf(own)
    OBVIOUS
  <2>5. SpotOf(us[n]) \in Spots /\ us[n].phase \in Phases
    BY <2>4, UnitSpot
  <2>6. ~Sooner(us[m], us[n]) /\ ~Sooner(us[n], us[m])
    <3>1. PhaseAt(us[n].phase) \in 1..5
      BY <2>5, PhaseOfPlace
    <3> QED
      BY <2>1, <2>3, <2>5, <3>1, EarlierIs DEF Sooner
  <2>7. m \in Nat /\ n \in Nat /\ m \in DOMAIN us
    OBVIOUS
  <2>8. ~(m < n) /\ ~(n < m)
    BY <2>6, <2>7 DEF Walked
  <2> QED
    BY <2>7, <2>8
<1>2. S = {n}
  BY <1>1
<1> QED
  BY <1>2, FS_Singleton

\* A walk at its end, with all that was ahead behind it, is complete.
LEMMA EndIsComplete ==
  ASSUME NEW own, NEW f, Units(f) \in Seq(UnitsOf(own)), NEW st,
         Walked(Units(f), Done, st, f.owed), Owing(f.owed, st)
  PROVE  Complete(f)
<1> DEFINE us == Units(f)
           Places(p, i) == {n \in DOMAIN us : us[n].phase = p /\ us[n].id = i}
<1>0. us \in Seq(UnitsOf(own)) /\ Walked(us, Done, st, f.owed)
      /\ Documents(f) = {u \in ToSet(us) : u.phase = "documents"}
  BY DEF Documents
<1>1. ASSUME NEW o \in f.owed PROVE Cardinality(Places(o[1], o[2])) = 1
  <2> HIDE DEF us
  <2>1. ~Ahead(Done, o[1], Key(st[o[1]], o[2]))
    BY DEF Ahead
  <2>2. PICK n \in DOMAIN us : us[n].phase = o[1] /\ us[n].id = o[2]
    BY <1>0, <2>1 DEF Walked, Holds
  <2>3. us[n] \in UnitsOf(own)
    BY <1>0
  <2>4. o = <<o[1], o[2]>>
    BY DEF Owing
  <2>5. Fixed(us[n], f.owed)
    BY <2>2, <2>4 DEF Fixed
  <2>6. Cardinality({m \in DOMAIN us : us[m].phase = us[n].phase /\ us[m].id = us[n].id}) = 1
    BY <1>0, <2>5, HeldOnce
  <2> QED
    BY <2>2, <2>6
<1>2. ASSUME NEW u \in Documents(f) PROVE Cardinality(Places("documents", u.id)) = 1
  <2>1. PICK n \in DOMAIN us : us[n] = u /\ u.phase = "documents"
    BY <1>0 DEF ToSet
  <2>2. Fixed(us[n], f.owed)
    BY <2>1 DEF Fixed
  <2> HIDE DEF us
  <2>3. Cardinality({m \in DOMAIN us : us[m].phase = us[n].phase /\ us[m].id = us[n].id}) = 1
    BY <1>0, <2>2, HeldOnce
  <2> QED
    BY <2>1, <2>3
<1> QED
  BY <1>1, <1>2 DEF Complete

-----------------------------------------------------------------------------
\* An export is idle or somewhere, and a restore.
LEMMA IdleIs ==
  ASSUME NEW own, World(own)
  PROVE  /\ Exporting <=> export # Idle
         /\ Restoring <=> restore # Idle
BY DEF World, IsExport, IsRestore, Idle, Exporting, Restoring

\* The trailer: the file goes on, or it is complete.
LEMMA FinishIsWalked ==
  ASSUME NEW own, World(own), Walk, export # Idle, UNCHANGED <<store, restore>>,
         NEW units \in Seq(UnitsOf(own)), NEW to, to = Done \/ to \in Cursors,
         Walked(Units(file) \o units, to, store, file.owed), FinishPage(units, to)
  PROVE  Walk'
<1> DEFINE f == [file EXCEPT !.pages = Append(@, units), !.cursor = to]
<1>1. /\ export' = Idle
      /\ IF to = Done THEN file' = NoFile /\ shelf' = Append(shelf, f)
         ELSE file' = f /\ shelf' = shelf
  BY DEF FinishPage
<1>2. ~Restoring /\ file.cursor # Done /\ FileWalked(file, store)
  BY DEF Walk
<1>3. DOMAIN file = {"pages", "cursor", "image", "quiet", "owed"}
      /\ file.pages \in Seq(Seq(UnitsOf(own)))
  BY DEF World, IsFile
<1>4. f.pages = Append(file.pages, units) /\ f.cursor = to /\ f.owed = file.owed
  BY <1>3
<1> HIDE DEF f
<1>5. Units(f) = Units(file) \o units
  BY <1>3, <1>4, UnitsMore
<1>6. Units(f) \in Seq(UnitsOf(own))
  <2>1. Units(file) \in Seq(UnitsOf(own))
    BY <1>3, UnitsAre
  <2> QED
    BY <1>5, <2>1
<1>7. CASE to = Done
  <2>1. Complete(f)
    <3>1. Walked(Units(f), Done, store, f.owed) /\ Owing(f.owed, store)
      BY <1>2, <1>4, <1>5, <1>7 DEF FileWalked
    <3> QED
      BY <1>6, <3>1, EndIsComplete
  <2>2. ToSet(shelf') = ToSet(shelf) \union {f}
    <3>1. PICK T : shelf \in Seq(T)
      BY DEF World, IsShelf
    <3>2. shelf \in Seq(T \union {f}) /\ shelf' = Append(shelf, f)
      BY <1>1, <1>7, <3>1
    <3>3. /\ DOMAIN shelf' = 1..Len(shelf) + 1 /\ Len(shelf) \in Nat /\ DOMAIN shelf = 1..Len(shelf)
          /\ shelf'[Len(shelf) + 1] = f /\ \A i \in 1..Len(shelf) : shelf'[i] = shelf[i]
      BY <3>2
    <3> QED
      BY <3>3 DEF ToSet
  <2>3. WholeFiles'
    <3>0. \A g \in ToSet(shelf) : Complete(g) /\ InWalkOrder(Units(g))
      BY DEF Walk, WholeFiles, WalkIsComplete, Complete
    <3>1. InWalkOrder(Units(f))
      BY <1>5 DEF Walked, InWalkOrder
    <3>2. \A g \in ToSet(shelf') : Complete(g) /\ InWalkOrder(Units(g))
      BY <2>1, <2>2, <3>0, <3>1
    <3> QED
      BY <3>2 DEF WholeFiles, WalkIsComplete, Complete, InWalkOrder, Units
  <2>4. file'.cursor = Done
    BY <1>1, <1>7 DEF NoFile
  <2> QED
    BY <1>1, <1>2, <2>3, <2>4 DEF Walk, Restoring
<1>8. CASE to # Done
  <2>1. FileWalked(file', store')
    BY <1>1, <1>2, <1>4, <1>5, <1>8 DEF FileWalked
  <2>2. WholeFiles'
    BY <1>1, <1>8 DEF Walk, WholeFiles, WalkIsComplete, InWalkOrder, Units, Documents
  <2> QED
    BY <1>1, <1>2, <1>8, <2>1, <2>2 DEF Walk, Restoring
<1> QED
  BY <1>7, <1>8

\* The end of a phase's rows: the page is full, or the next phase is fetched.
LEMMA EndIsWalked ==
  ASSUME NEW own, World(own), Walk, export # Idle, UNCHANGED <<store, restore>>,
         export.remaining \in Nat, export.cursor.phase \in Phases,
         NEW units \in Seq(UnitsOf(own)), NEW taken \in Nat, NEW last \in BOOLEAN,
         last => taken <= export.remaining, last \/ units # <<>>,
         Walked(Units(file) \o units, EndOf(export.cursor.phase, units, last), store, file.owed),
         EndOfRows(units, taken, last)
  PROVE  Walk'
<1> DEFINE phase == export.cursor.phase
           to == EndOf(phase, units, last)
           next == [phase |-> nextBackupPhase[PhaseAt(phase)], after |-> Start]
           here == [phase |-> phase, after |-> [ts |-> Last(units).row.at, id |-> Last(units).id]]
           left == export.remaining - taken
<1>1. PhaseAt(phase) \in 1..5
  <2> HIDE DEF phase
  <2>1. phase \in Phases
    BY DEF phase
  <2> QED
    BY <2>1, PhaseOfPlace
<1>t. to = Done \/ to \in Cursors
  <2> HIDE DEF phase
  <2>1. phase \in Phases
    BY DEF phase
  <2> QED
    BY <2>1, EndIsCursor
<1>h. /\ ~last => to = here
      /\ last /\ PhaseAt(phase) = 5 => to = Done
      /\ last /\ PhaseAt(phase) # 5 => to = next
  BY DEF EndOf, SpotOf
<1>4. \/ FinishPage(units, to)
      \/ /\ to # Done /\ left \in Nat /\ left > 0
         /\ export' = [export EXCEPT !.at = "fetch", !.cursor = to, !.remaining = left,
                                     !.units = units]
         /\ UNCHANGED <<file, shelf>>
  <2>1. CASE ~last
    <3>1. FinishPage(units, here)
      BY <2>1 DEF EndOfRows
    <3> QED
      BY <1>h, <2>1, <3>1
  <2>2. CASE last /\ PhaseAt(phase) = 5
    <3>1. FinishPage(units, Done)
      BY <2>2 DEF EndOfRows
    <3> QED
      BY <1>h, <2>2, <3>1
  <2>3. CASE last /\ PhaseAt(phase) < 5 /\ left = 0
    <3>1. PhaseAt(export.cursor.phase) # 5 /\ PhaseAt(export.cursor.phase) < 5
          /\ export.remaining - taken = 0 /\ ~(export.remaining - taken > 0) /\ last
      BY <1>1, <2>3
    <3>2. FinishPage(units, next)
      BY <3>1, Zenon DEF EndOfRows
    <3>3. to = next
      BY <1>h, <3>1
    <3> QED
      BY <3>2, <3>3
  <2>4. CASE last /\ PhaseAt(phase) < 5 /\ left > 0
    <3>1. PhaseAt(export.cursor.phase) # 5 /\ PhaseAt(export.cursor.phase) < 5
          /\ export.remaining - taken # 0 /\ export.remaining - taken > 0 /\ last
          /\ left \in Nat
      BY <1>1, <2>4
    <3>2. /\ export' = [export EXCEPT !.at = "fetch", !.cursor = next, !.remaining = left,
                                     !.units = units]
          /\ UNCHANGED <<file, shelf>>
      BY <3>1, Zenon DEF EndOfRows
    <3>3. to = next
      BY <1>h, <3>1
    <3>4. next # Done
      <4>1. next.phase \in Phases
        <5> HIDE DEF phase
        <5>1. phase \in Phases /\ PhaseAt(phase) < 5
          BY <2>4 DEF phase
        <5> QED
          BY <5>1, PhaseNext
      <4> HIDE DEF next
      <4> QED
        BY <4>1, NotDone
    <3> HIDE DEF next, to, left
    <3>5. left > 0 /\ left \in Nat
      BY <2>4, <3>1
    <3> QED
      BY <3>2, <3>3, <3>4, <3>5
  <2>5. last => left \in Nat
    OBVIOUS
  <2> QED
    BY <1>1, <2>1, <2>2, <2>3, <2>4, <2>5
<1> HIDE DEF to, left, next, here
<1>w. Walked(Units(file) \o units, to, store, file.owed)
  BY DEF to
<1>5. CASE FinishPage(units, to)
  BY <1>5, <1>t, <1>w, FinishIsWalked
<1>6. CASE /\ to # Done /\ left \in Nat /\ left > 0
           /\ export' = [export EXCEPT !.at = "fetch", !.cursor = to, !.remaining = left,
                                       !.units = units]
           /\ UNCHANGED <<file, shelf>>
  <2>1. export'.at = "fetch" /\ export'.cursor = to /\ export'.remaining = left /\ export'.units = units
    BY <1>6 DEF World, IsExport
  <2>2. PageWalked(export', file', store')
    BY <1>6, <1>t, <1>w, <2>1 DEF PageWalked
  <2>3. WholeFiles'
    BY <1>6 DEF Walk, WholeFiles, WalkIsComplete, InWalkOrder, Units, Documents
  <2> QED
    BY <1>6, <2>2, <2>3 DEF Walk, Restoring
<1> QED
  BY <1>4, <1>5, <1>6

-----------------------------------------------------------------------------
\* A file begins with nothing behind its cursor.
LEMMA StartIsWalked ==
  ASSUME NEW own, World(own), Walk, StartWalk
  PROVE  Walk'
<1>1. /\ ~Exporting /\ ~Restoring
      /\ file' = [pages |-> <<>>, cursor |-> FirstPage, quiet |-> TRUE,
                  image |-> [store |-> store, bucket |-> bucket],
                  owed |-> UNION {{<<p, i>> : i \in DOMAIN store[p]} : p \in Phases}]
      /\ UNCHANGED <<store, export, shelf, restore>>
  BY DEF StartWalk, world
<1>2. export' = Idle /\ ~Restoring'
  BY <1>1, IdleIs DEF Restoring
<1>3. Units(file') = <<>>
  BY <1>1 DEF Units, FlattenSeq
<1>4. FirstPage \in Cursors /\ FirstPage # Done /\ FirstPage.phase = "agents" /\ FirstPage.after = Start
  <2>1. FirstPage \in Cursors
    BY PhasesAre DEF FirstPage, Cursors, Spots, Start
  <2> QED
    BY <2>1, NotDone DEF FirstPage, Cursors
<1>5. \A o \in file'.owed : /\ o \in Phases \X Nat /\ o[2] \in DOMAIN store[o[1]]
                            /\ Ahead(FirstPage, o[1], Key(store[o[1]], o[2]))
  <2> SUFFICES ASSUME NEW p \in Phases, NEW i \in DOMAIN store[p]
               PROVE  i \in Nat /\ Ahead(FirstPage, p, Key(store[p], i))
    BY <1>1
  <2>1. i \in Nat \ {0} /\ store[p][i].at \in Nat
    BY SpotsAre DEF World, World0
  <2>2. Earlier(Start, Key(store[p], i))
    BY <2>1 DEF Key, Start, Earlier
  <2>3. PhaseAt("agents") = 1
    BY PhaseOfPlace, PhasesAre DEF BACKUP_PHASES
  <2>4. p = "agents" \/ 1 < PhaseAt(p)
    BY <2>3, PhaseOfPlace, PhasesAre
  <2> QED
    BY <1>4, <2>1, <2>2, <2>3, <2>4 DEF Ahead, After
<1>6. Walked(<<>>, FirstPage, store, file'.owed)
  BY <1>5 DEF Walked
<1>7. FileWalked(file', store')
  BY <1>1, <1>3, <1>4, <1>5, <1>6 DEF FileWalked, Owing
<1>8. WholeFiles'
  BY <1>1 DEF Walk, WholeFiles, WalkIsComplete, InWalkOrder, Units, Documents
<1>9. file'.cursor # Done
  BY <1>1, <1>4
<1> QED
  BY <1>2, <1>7, <1>8, <1>9 DEF Walk

\* A page begins where the file ends.
LEMMA RequestIsWalked ==
  ASSUME NEW own, World(own), Walk, NEW raw \in budget.limits, RequestPage(raw)
  PROVE  Walk'
<1>1. /\ ~Exporting /\ file.cursor # Done
      /\ export' = [at |-> "fetch", cursor |-> file.cursor, remaining |-> parseBackupLimit(raw),
                    rows |-> <<>>, last |-> FALSE, unread |-> {}, read |-> Empty, units |-> <<>>]
      /\ UNCHANGED <<store, file, shelf, restore>>
  BY DEF RequestPage, world
<1>2. parseBackupLimit(raw) > 0
  BY BackupAssumption DEF World, parseBackupLimit
<1>3. FileWalked(file, store)
  BY <1>1 DEF Walk
<1>4. Units(file) \o <<>> = Units(file)
  <2>1. Units(file) \in Seq(UnitsOf(own))
    BY UnitsAre DEF World, IsFile
  <2> QED
    BY <2>1
<1>5. PageWalked(export', file', store')
  BY <1>1, <1>2, <1>3, <1>4 DEF PageWalked, FileWalked
<1>6. WholeFiles'
  BY <1>1 DEF Walk, WholeFiles, WalkIsComplete, InWalkOrder, Units, Documents
<1>7. ~Restoring'
  BY <1>1 DEF Walk, Restoring
<1> QED
  BY <1>1, <1>3, <1>5, <1>6, <1>7 DEF Walk

\* Three runs, joined either way.
LEMMA Beside ==
  ASSUME NEW T, NEW r \in Seq(T), NEW s \in Seq(T), NEW t \in Seq(T)
  PROVE  r \o (s \o t) = (r \o s) \o t
OBVIOUS

\* Rows are fetched: documents are read one by one, others are emitted at once.
LEMMA FetchIsWalked ==
  ASSUME NEW own, World(own), Walk, FetchPhase
  PROVE  Walk'
<1> DEFINE c == export.cursor
           peeked == fetchPhase(c.phase, c.after, export.remaining + 1)
           last == Len(peeked) <= export.remaining
           rows == IF last THEN peeked ELSE Front(peeked)
           more == [n \in DOMAIN rows |-> Unit(c.phase, rows[n], Empty)]
           us == Units(file) \o export.units
<1>1. export # Idle /\ export.remaining \in Nat /\ export.at = "fetch"
      /\ export.units \in Seq(UnitsOf(own))
  BY DEF FetchPhase, World, IsExport, Idle
<1>2. /\ c \in Cursors /\ export.remaining > 0
      /\ Walked(us, c, store, file.owed)
  BY <1>1 DEF Walk, PageWalked
<1>3. ~Restoring /\ file.cursor # Done /\ FileWalked(file, store)
  BY <1>1 DEF Walk
<1>4. /\ \/ /\ c.phase = "documents" /\ rows # <<>>
            /\ export' = [export EXCEPT !.at = "versions", !.last = last, !.rows = more]
            /\ UNCHANGED <<file, shelf>>
         \/ EndOfRows(export.units \o more, Len(rows), last)
      /\ UNCHANGED <<store, restore>>
  BY DEF FetchPhase, world
<1>5. /\ more \in Seq(UnitsOf(own)) /\ Len(more) = Len(rows) /\ InTurn(more, c, last)
      /\ Len(rows) <= export.remaining /\ Len(rows) \in Nat /\ (rows = <<>> <=> more = <<>>)
      /\ last \in BOOLEAN
  <2> HIDE DEF c
  <2> QED
    BY <1>1, <1>2, FetchInTurn
<1> HIDE DEF c, more, last, rows
<1>6. Units(file) \in Seq(UnitsOf(own))
  BY UnitsAre DEF World, IsFile
<1>7. us \in Seq(UnitsOf(own))
  BY <1>1, <1>6
<1>8. Walked(us \o more, EndOf(c.phase, more, last), store, file.owed)
  <2> HIDE DEF us
  <2>1. Owing(file.owed, store)
    BY <1>3 DEF FileWalked
  <2> QED
    BY <1>2, <1>5, <1>7, <2>1, InTurnGoesOn
<1>9. CASE /\ c.phase = "documents" /\ rows # <<>>
           /\ export' = [export EXCEPT !.at = "versions", !.last = last, !.rows = more]
           /\ UNCHANGED <<file, shelf>>
  <2>1. export'.at = "versions" /\ export'.last = last /\ export'.rows = more /\ export'.units = export.units
        /\ export'.cursor = c
    BY <1>1, <1>9 DEF World, IsExport, c
  <2>2. PageWalked(export', file', store')
    BY <1>2, <1>4, <1>8, <1>9, <2>1 DEF PageWalked
  <2>3. WholeFiles'
    BY <1>9 DEF Walk, WholeFiles, WalkIsComplete, InWalkOrder, Units, Documents
  <2> QED
    BY <1>3, <1>4, <1>9, <2>2, <2>3 DEF Walk, Restoring
<1>10. CASE EndOfRows(export.units \o more, Len(rows), last)
  <2> DEFINE units == export.units \o more
  <2>0. units \in Seq(UnitsOf(own))
    BY <1>1, <1>5
  <2>1. Units(file) \o units = us \o more
    <3> DEFINE r == Units(file)
               s == export.units
               T == UnitsOf(own)
    <3>1. r \in Seq(T) /\ s \in Seq(T) /\ more \in Seq(T)
      BY <1>1, <1>5, <1>6
    <3>2. r \o (s \o more) = (r \o s) \o more
      <4> HIDE DEF r, s, T
      <4> QED
        BY <3>1, Beside, SMTT(20)
    <3> QED
      BY <3>2
  <2>2. last \/ (more # <<>> /\ units # <<>> /\ Last(units) = Last(more))
    <3>1. CASE last
      BY <3>1
    <3>2. CASE more # <<>>
      <4>1. /\ Len(units) = Len(export.units) + Len(more) /\ Len(more) \in Nat /\ Len(more) > 0
            /\ Len(export.units) \in Nat
        BY <1>1, <1>5, <3>2
      <4>2. units[Len(export.units) + Len(more)] = more[Len(more)]
        BY <1>1, <1>5, <4>1
      <4>3. units # <<>>
        BY <4>1
      <4> QED
        BY <3>2, <4>1, <4>2, <4>3 DEF Last
    <3> QED
      BY <1>5, <3>1, <3>2 DEF InTurn
  <2> HIDE DEF units
  <2>3. EndOf(c.phase, units, last) = EndOf(c.phase, more, last)
    BY <1>5, <2>2 DEF EndOf
  <2>4. Walked(Units(file) \o units, EndOf(export.cursor.phase, units, last), store, file.owed)
    BY <1>8, <2>1, <2>3 DEF c
  <2>5. export.cursor.phase \in Phases
    BY <1>2 DEF Cursors, c
  <2>6. EndOfRows(units, Len(rows), last)
    BY <1>10 DEF units
  <2>7. last \/ units # <<>>
    BY <2>2
  <2> QED
    BY <1>1, <1>4, <1>5, <2>0, <2>4, <2>5, <2>6, <2>7, EndIsWalked
<1> QED
  BY <1>4, <1>9, <1>10

-----------------------------------------------------------------------------
\* One run after another, place by place.
LEMMA JoinedAre ==
  ASSUME NEW T, NEW x \in Seq(T), NEW y \in Seq(T)
  PROVE  /\ x \o y \in Seq(T) /\ DOMAIN (x \o y) = 1..(Len(x) + Len(y))
         /\ \A k \in 1..Len(x) : (x \o y)[k] = x[k]
         /\ \A k \in 1..Len(y) : (x \o y)[Len(x) + k] = y[k]
OBVIOUS

\* The first row gives way to its unit.
LEMMA HeadGivesWay ==
  ASSUME NEW T, NEW x \in Seq(T), NEW rows \in Seq(T), rows # <<>>, NEW unit \in T
  PROVE  LET old == x \o rows
             new == Append(x, unit) \o Tail(rows)
         IN /\ DOMAIN old = DOMAIN new
            /\ \A i \in DOMAIN old : old[i] = new[i] \/ (old[i] = rows[1] /\ new[i] = unit)
<1> DEFINE y == Append(x, unit)
           rest == Tail(rows)
           old == x \o rows
           new == y \o rest
           a == Len(x)
           n == Len(rows)
<1>1. a \in Nat /\ n \in Nat /\ n > 0 /\ rest \in Seq(T) /\ Len(rest) = n - 1
      /\ \A k \in 1..n - 1 : rest[k] = rows[k + 1]
  OBVIOUS
<1>2. y \in Seq(T) /\ Len(y) = a + 1 /\ y[a + 1] = unit /\ \A k \in 1..a : y[k] = x[k]
  OBVIOUS
<1> HIDE DEF y, rest
<1>3. /\ DOMAIN old = 1..(a + n)
      /\ \A k \in 1..a : old[k] = x[k]
      /\ \A k \in 1..n : old[a + k] = rows[k]
  BY JoinedAre
<1>4. /\ DOMAIN new = 1..(Len(y) + Len(rest))
      /\ \A k \in 1..Len(y) : new[k] = y[k]
      /\ \A k \in 1..Len(rest) : new[Len(y) + k] = rest[k]
  <2>1. y \in Seq(T) /\ rest \in Seq(T)
    BY <1>1, <1>2
  <2> HIDE DEF a, n
  <2> QED
    BY <2>1, JoinedAre
<1> HIDE DEF a, n, old, new
<1>5. DOMAIN new = 1..(a + n)
  BY <1>1, <1>2, <1>4
<1>6. ASSUME NEW i \in 1..(a + n) PROVE old[i] = new[i] \/ (old[i] = rows[1] /\ new[i] = unit)
  <2>1. CASE i <= a
    <3>1. i \in 1..a /\ i \in 1..Len(y)
      BY <1>1, <1>2, <2>1
    <3> QED
      BY <1>2, <1>3, <1>4, <3>1
  <2>2. CASE i = a + 1
    <3>1. 1 \in 1..n /\ i \in 1..Len(y)
      BY <1>1, <1>2, <2>2
    <3> QED
      BY <1>2, <1>3, <1>4, <2>2, <3>1
  <2>3. CASE i > a + 1
    <3> DEFINE k == i - (a + 1)
    <3>1. k \in 1..n - 1 /\ k + 1 \in 1..n /\ i = (a + 1) + k /\ i = a + (k + 1)
      BY <1>1, <2>3
    <3> HIDE DEF k
    <3>2. new[i] = rest[k]
      BY <1>1, <1>2, <1>4, <3>1
    <3>3. old[i] = rows[k + 1]
      BY <1>3, <3>1
    <3> QED
      BY <1>1, <3>1, <3>2, <3>3
  <2> QED
    BY <1>1, <2>1, <2>2, <2>3
<1> QED
  BY <1>3, <1>5, <1>6 DEF old, new, y, rest

\* A document is emitted as it was fetched, with its versions.
LEMMA EmitIsWalked ==
  ASSUME NEW own, World(own), Walk, EmitDocument
  PROVE  Walk'
<1> DEFINE unit == [Head(export.rows) EXCEPT !.versions = export.read]
           units == Append(export.units, unit)
           rows == export.rows
           us == Units(file)
           T == UnitsOf(own)
<1>1. export # Idle /\ export.at = "blobs"
  BY DEF EmitDocument, Idle
<1>2. /\ rows \in Seq(T) /\ export.units \in Seq(T) /\ rows # <<>>
      /\ export.remaining \in Nat /\ Len(rows) <= export.remaining /\ export.last \in BOOLEAN
      /\ export.cursor.phase \in Phases
  BY <1>1 DEF World, IsExport
<1>3. us \in Seq(T)
  BY UnitsAre DEF World, IsFile
<1>4. Head(rows) = rows[1] /\ rows[1] \in T
  BY <1>2
<1>5. unit \in T /\ unit.phase = rows[1].phase /\ unit.id = rows[1].id /\ unit.row = rows[1].row
  <2>1. /\ export.read \in Chapters
        /\ \A no \in DOMAIN export.read : export.read[no].key \in Keys(own, <<Head(rows).id, no>>)
    BY <1>1 DEF World, IsExport
  <2> DEFINE head == rows[1]
  <2> HIDE DEF head
  <2>2. head \in UnitsOf(own) /\ unit = [head EXCEPT !.versions = export.read]
        /\ \A no \in DOMAIN export.read : export.read[no].key \in Keys(own, <<head.id, no>>)
    BY <1>4, <2>1 DEF head
  <2> HIDE DEF unit
  <2>3. unit \in FileUnits /\ unit.phase = head.phase /\ unit.row = head.row /\ unit.id = head.id
        /\ unit.versions = export.read
    BY <2>1, <2>2 DEF UnitsOf, FileUnits
  <2> QED
    BY <2>2, <2>3 DEF UnitsOf, IsUnit, head
<1> HIDE DEF unit
<1>6. units \in Seq(T) /\ units # <<>> /\ Last(units) = unit
  BY <1>2, <1>5 DEF Last
<1>7. export.cursor.phase = "documents"
      /\ Walked((us \o export.units) \o rows, EndOf("documents", rows, export.last), store, file.owed)
  BY <1>1 DEF Walk, PageWalked
<1>8. UNCHANGED <<store, restore>> /\ ~Restoring /\ file.cursor # Done /\ FileWalked(file, store)
  BY <1>1 DEF EmitDocument, world, Walk
<1> DEFINE rest == Tail(rows)
           old == (us \o export.units) \o rows
           new == (us \o units) \o rest
<1>9. Walked(new, EndOf("documents", rows, export.last), store, file.owed)
  <2> DEFINE x == us \o export.units
  <2>1. x \in Seq(T) /\ us \o units = Append(x, unit)
    BY <1>2, <1>3, <1>5
  <2>2. old = x \o rows /\ new = Append(x, unit) \o rest
    BY <2>1
  <2> HIDE DEF x
  <2>3. /\ DOMAIN old = DOMAIN new
        /\ \A i \in DOMAIN old : old[i] = new[i] \/ (old[i] = rows[1] /\ new[i] = unit)
    <3>1. rows \in Seq(T) /\ rows # <<>> /\ unit \in T /\ x \in Seq(T)
      BY <1>2, <1>5, <2>1
    <3>2. LET o == x \o rows
              w == Append(x, unit) \o Tail(rows)
          IN /\ DOMAIN o = DOMAIN w
             /\ \A i \in DOMAIN o : o[i] = w[i] \/ (o[i] = rows[1] /\ w[i] = unit)
      <4> HIDE DEF rows, T
      <4> QED
        BY <3>1, HeadGivesWay
    <3> HIDE DEF rows, us, units, T, old, new
    <3> QED
      BY <2>2, <3>2 DEF rest
  <2>4. Walked(old, EndOf("documents", rows, export.last), store, file.owed)
    BY <1>7
  <2> HIDE DEF old, new
  <2>7. \A i \in DOMAIN old : old[i].phase = new[i].phase /\ old[i].id = new[i].id /\ old[i].row = new[i].row
    BY <1>5, <2>3
  <2> QED
    BY <2>3, <2>4, <2>7, WalkedSame
<1>10. CASE Len(rows) > 1
  <2>1. export' = [export EXCEPT !.at = "versions", !.rows = rest, !.units = units,
                                 !.remaining = @ - 1]
        /\ UNCHANGED <<file, shelf>>
    BY <1>10 DEF EmitDocument, unit
  <2>2. export'.at = "versions" /\ export'.rows = rest /\ export'.units = units
        /\ export'.last = export.last /\ export'.cursor = export.cursor
    BY <1>1, <2>1 DEF World, IsExport
  <2>3. Last(rest) = Last(rows)
    <3>1. rows \in Seq(T) /\ Len(rows) > 1
      BY <1>2, <1>10
    <3> HIDE DEF rows, T
    <3>2. Len(rest) = Len(rows) - 1 /\ Len(rows) \in Nat /\ rest[Len(rows) - 1] = rows[Len(rows)]
      BY <3>1
    <3> QED
      BY <3>2 DEF Last
  <2>4. EndOf("documents", rest, export.last) = EndOf("documents", rows, export.last)
    BY <2>3 DEF EndOf
  <2>9. PageWalked(export', file', store')
    <3>1. export.cursor \in Cursors
      BY <1>1 DEF Walk, PageWalked
    <3>2. Units(file') = us /\ file'.owed = file.owed
      BY <2>1
    <3> QED
      BY <1>7, <1>8, <1>9, <2>2, <2>4, <3>1, <3>2 DEF PageWalked
  <2>10. WholeFiles'
    BY <2>1 DEF Walk, WholeFiles, WalkIsComplete, InWalkOrder, Units, Documents
  <2> QED
    BY <1>8, <2>1, <2>9, <2>10 DEF Walk, Restoring
<1>11. CASE ~(Len(rows) > 1)
  <2>1. EndOfRows(units, 1, export.last)
    BY <1>11 DEF EmitDocument, unit
  <2>2. Len(rows) = 1 /\ 1 <= export.remaining /\ Last(rows) = rows[1] /\ rest = <<>>
    <3>0. Len(rows) \in Nat /\ Len(rows) # 0
      BY <1>2, EmptySeq
    <3>1. rows \in Seq(T) /\ rows # <<>> /\ Len(rows) = 1
      <4> DEFINE n == Len(rows)
      <4>1. n \in Nat /\ n # 0 /\ ~(n > 1)
        BY <1>11, <3>0
      <4> HIDE DEF n
      <4>2. n = 1
        BY <4>1
      <4> QED
        BY <1>2, <4>2 DEF n
    <3>2. Len(rows) <= export.remaining /\ export.remaining \in Nat
      BY <1>2
    <3> HIDE DEF rows, T
    <3>3. Len(rows) = 1
      BY <3>1
    <3>4. rest = <<>>
      <4>1. Tail(rows) \in Seq(T) /\ Len(Tail(rows)) = 0
        BY <3>1, <3>3, HeadTailProperties
      <4> QED
        BY <4>1, EmptySeq
    <3> QED
      BY <3>1, <3>2, <3>3, <3>4 DEF Last
  <2>3. EndOf("documents", units, export.last) = EndOf("documents", rows, export.last)
    BY <1>5, <1>6, <2>2 DEF EndOf, SpotOf
  <2>4. new = us \o units
    <3>1. us \o units \in Seq(T)
      BY <1>3, <1>6
    <3> HIDE DEF us, units, T, rest
    <3> QED
      BY <2>2, <3>1
  <2>8. Walked(Units(file) \o units, EndOf(export.cursor.phase, units, export.last), store, file.owed)
    BY <1>7, <1>9, <2>3, <2>4
  <2> HIDE DEF units, rows
  <2>9. export.last => 1 <= export.remaining
    BY <2>2
  <2> QED
    BY <1>1, <1>2, <1>6, <1>8, <2>1, <2>8, <2>9, EndIsWalked
<1> QED
  BY <1>10, <1>11

\* A request leaves what the walk has true of what is still there.
LEMMA WriteIsWalked ==
  ASSUME NEW us, NEW c, NEW owed, Walked(us, c, store, owed), NEW more,
         \A o \in more : /\ o \in owed /\ o[2] \in DOMAIN store'[o[1]]
                         /\ Key(store'[o[1]], o[2]) = Key(store[o[1]], o[2]),
         \A d \in Docs : d \in DOMAIN store'.documents /\ store'.documents[d].at = store.documents[d].at
  PROVE  Walked(us, c, store', more)
<1>1. ASSUME NEW n \in DOMAIN us, Fixed(us[n], more) PROVE TrueOf(us[n], store')
  <2>1. TrueOf(us[n], store)
    BY <1>1 DEF Walked, Fixed
  <2>2. CASE us[n].phase = "documents"
    BY <2>1, <2>2 DEF TrueOf, Docs
  <2>3. CASE <<us[n].phase, us[n].id>> \in more
    <3> DEFINE o == <<us[n].phase, us[n].id>>
    <3>1. o[2] \in DOMAIN store'[o[1]] /\ Key(store'[o[1]], o[2]) = Key(store[o[1]], o[2])
      BY <2>3
    <3>2. store'[us[n].phase][us[n].id].at = store[us[n].phase][us[n].id].at
      BY <3>1 DEF Key
    <3> QED
      BY <2>1, <3>1, <3>2 DEF TrueOf
  <2> QED
    BY <1>1, <2>2, <2>3 DEF Fixed
<1>2. ASSUME NEW o \in more, ~Ahead(c, o[1], Key(store'[o[1]], o[2])) PROVE Holds(us, o)
  BY <1>2 DEF Walked
<1> QED
  BY <1>1, <1>2 DEF Walked

-----------------------------------------------------------------------------
\* A document stays, and so does its created_at.
TimesKept == \A d \in Docs : /\ d \in DOMAIN store'.documents
                             /\ store'.documents[d].at = store.documents[d].at

\* No request removes a document or makes it older.
LEMMA RequestsKeepTimes ==
  ASSUME World0, Writing
  PROVE  TimesKept
<1>0. "documents" \in DOMAIN store /\ \A d \in Docs : store.documents[d] \in Columns("documents")
  <2>1. Shaped(store, "documents") /\ DOMAIN store = Tables
    BY PhasesAre DEF World0, Sound
  <2> QED
    BY <2>1, TablesAre DEF Shaped, Docs
<1>c. \A r \in Columns("documents") : DOMAIN r = {"at", "pid", "by", "cur", "pub", "live", "slug"}
  BY DEF Columns
<1>1. CASE \E a \in 1..2 : Enrol(a)
  <2>1. store'.documents = store.documents
    BY <1>1 DEF Enrol, Write
  <2> QED
    BY <2>1 DEF TimesKept, Docs
<1>2. CASE \E c \in DOMAIN store.oauth_clients : Rebind(c, c + 10)
  <2>1. store'.documents = store.documents
    BY <1>2 DEF Rebind, Write
  <2> QED
    BY <2>1 DEF TimesKept, Docs
<1>3. CASE \E a \in DOMAIN store.agents : Publish(Cardinality(Docs) + 1, a)
  <2>1. PICK a \in DOMAIN store.agents : Publish(Cardinality(Docs) + 1, a)
    BY <1>3
  <2> DEFINE d == Cardinality(Docs) + 1
  <2>2. d \notin Docs /\ \E row : store'.documents = Put(store.documents, d, row)
    BY <1>0, <2>1 DEF Publish, Write
  <2> HIDE DEF d
  <2>3. PICK row : store'.documents = Put(store.documents, d, row)
    BY <2>2
  <2>4. \A e \in Docs : e \in DOMAIN store'.documents /\ store'.documents[e] = store.documents[e]
    BY <2>2, <2>3, PutIs DEF Docs
  <2> QED
    BY <2>4 DEF TimesKept
<1>4. CASE \E d \in Docs : Update(d) \/ Promote(d) \/ Revoke(d)
  <2>1. PICK d \in Docs : Update(d) \/ Promote(d) \/ Revoke(d)
    BY <1>4
  <2> DEFINE row == store.documents[d]
  <2>2. \/ store'.documents = [store.documents EXCEPT ![d].cur = row.cur + 1]
        \/ store'.documents = [store.documents EXCEPT ![d].pub = row.cur]
        \/ store'.documents = [store.documents EXCEPT ![d] =
             [row EXCEPT !.live = FALSE, !.cur = 0, !.pub = 0, !.slug = 0]]
    <3>1. CASE Update(d)
      BY <1>0, <3>1 DEF Update, Write
    <3>2. CASE Promote(d)
      BY <1>0, <3>2 DEF Promote, Write
    <3>3. CASE Revoke(d)
      BY <1>0, <3>3 DEF Revoke, Write
    <3> QED
      BY <2>1, <3>1, <3>2, <3>3
  <2>3. row \in Columns("documents") /\ DOMAIN row = {"at", "pid", "by", "cur", "pub", "live", "slug"}
    BY <1>0, <1>c
  <2>4. \E new : new.at = row.at /\ store'.documents = [store.documents EXCEPT ![d] = new]
    <3> HIDE DEF row
    <3>1. [row EXCEPT !.cur = row.cur + 1].at = row.at /\ [row EXCEPT !.pub = row.cur].at = row.at
          /\ [row EXCEPT !.live = FALSE, !.cur = 0, !.pub = 0, !.slug = 0].at = row.at
      BY <2>3
    <3> QED
      BY <2>2, <3>1 DEF row
  <2> QED
    BY <2>4 DEF TimesKept, Docs
<1>5. CASE \E d \in Docs, slug \in 1..3 : Rename(d, slug)
  <2>1. PICK d \in Docs, slug \in 1..3 : Rename(d, slug)
    BY <1>5
  <2>2. store'.documents = [store.documents EXCEPT ![d].slug = slug]
    BY <1>0, <2>1 DEF Rename, Write
  <2> QED
    BY <1>0, <1>c, <2>2 DEF TimesKept, Docs
<1>6. CASE \E slug \in DOMAIN store.slug_tombstones : Release(slug)
  <2>1. store'.documents = store.documents
    BY <1>6 DEF Release, Write
  <2> QED
    BY <2>1 DEF TimesKept, Docs
<1> QED
  BY <1>1, <1>2, <1>3, <1>4, <1>5, <1>6 DEF Writing

\* What is still owed after a request.
LEMMA RequestOwes ==
  ASSUME Remembered, Writing
  PROVE  file'.owed = StillThere(store')
<1>1. ASSUME NEW kind, NEW st, NEW lost, NEW minted, Write(kind, st, lost, minted)
      PROVE  file'.owed = StillThere(store')
  BY <1>1 DEF Write, Remembered
<1> QED
  BY <1>1 DEF Writing, Enrol, Rebind, Publish, Update, Promote, Revoke, Rename, Release

\* A request keeps the walk.
LEMMA RequestsWalked ==
  ASSUME NEW own, World(own), Walk, Writing
  PROVE  Walk'
<1>1. Asked
  <2>1. \A x \in DOMAIN store.versions : store.versions[x].key \in 1..nonce
    BY DEF World, Stored, Keys, Owned
  <2> QED
    BY <2>1, WritingIs DEF World
<1>2. TimesKept /\ file'.owed = StillThere(store')
  BY RequestsKeepTimes, RequestOwes DEF World
<1>3. file'.pages = file.pages /\ file'.cursor = file.cursor /\ UNCHANGED <<export, shelf, restore>>
  BY <1>1 DEF Asked
<1>4. WholeFiles'
  BY <1>3 DEF Walk, WholeFiles, WalkIsComplete, InWalkOrder, Units, Documents
<1>5. Units(file') = Units(file)
  BY <1>3 DEF Units
<1>6. ASSUME NEW us, NEW c, Walked(us, c, store, file.owed)
      PROVE  Walked(us, c, store', file'.owed)
  <2>1. \A o \in file'.owed : /\ o \in file.owed /\ o[2] \in DOMAIN store'[o[1]]
                              /\ Key(store'[o[1]], o[2]) = Key(store[o[1]], o[2])
    BY <1>2 DEF StillThere
  <2> QED
    BY <1>2, <1>6, <2>1, WriteIsWalked DEF TimesKept
<1>7. ASSUME file.cursor # Done PROVE FileWalked(file', store')
  <2>1. FileWalked(file, store)
    BY <1>7 DEF Walk
  <2>2. Owing(file'.owed, store')
    BY <1>2, <2>1 DEF FileWalked, Owing, StillThere
  <2> QED
    BY <1>3, <1>5, <1>6, <2>1, <2>2 DEF FileWalked
<1>8. ASSUME export # Idle PROVE PageWalked(export', file', store')
  <2>1. PageWalked(export, file, store)
    BY <1>8 DEF Walk
  <2> QED
    BY <1>3, <1>5, <1>6, <2>1 DEF PageWalked
<1> QED
  BY <1>3, <1>4, <1>7, <1>8 DEF Walk, Restoring

\* So do reads of a document, a cut page and everything outside of the walk.
LEMMA ReadsWalked ==
  ASSUME NEW own, World(own), Walk, SelectVersions \/ ReadBlob \/ CutPage
  PROVE  Walk'
<1>1. UNCHANGED <<store, restore, file, shelf>>
  BY DEF SelectVersions, ReadBlob, CutPage, world
<1>2. export # Idle
  BY DEF SelectVersions, ReadBlob, CutPage, Exporting, Idle
<1>3. export' = Idle \/ /\ export'.at # "fetch" /\ export.at # "fetch"
                        /\ export'.rows = export.rows /\ export'.last = export.last
                        /\ export'.units = export.units /\ export'.cursor = export.cursor
  <2>1. CASE SelectVersions
    BY <1>2, <2>1 DEF SelectVersions, World, IsExport
  <2>2. CASE ReadBlob
    BY <1>2, <2>2 DEF ReadBlob, World, IsExport
  <2>3. CASE CutPage
    BY <2>3 DEF CutPage
  <2> QED
    BY <2>1, <2>2, <2>3
<1>4. WholeFiles'
  BY <1>1 DEF Walk, WholeFiles, WalkIsComplete, InWalkOrder, Units, Documents
<1>5. ASSUME export' # Idle PROVE PageWalked(export', file', store')
  BY <1>1, <1>2, <1>3, <1>5 DEF Walk, PageWalked
<1> QED
  BY <1>1, <1>2, <1>4, <1>5 DEF Walk, Restoring

\* And so does every other step.
LEMMA RestWalked ==
  ASSUME NEW own, World(own), Walk, Tick \/ Lose \/ Submitting \/ Applying \/ UNCHANGED vars
  PROVE  Walk'
<1>1. UNCHANGED <<export, file, shelf>>
  <2>1. CASE Tick \/ Lose \/ UNCHANGED vars
    BY <2>1 DEF Tick, Lose, vars
  <2>2. CASE Submitting
    <3>1. PICK f \in ToSet(shelf), replace \in BOOLEAN :
            \E units \in IF budget.drill THEN ToSet(f.pages) ELSE Pieces(f) :
              \E refused \in {{}} \union {{x} : x \in VersionsIn(units)} :
                Submit(f, units, replace, refused)
      BY <2>2 DEF Submitting
    <3>2. PICK units, refused : Submit(f, units, replace, refused)
      BY <3>1
    <3> QED
      BY <3>2 DEF Submit
  <2>3. CASE Applying
    BY <2>3 DEF Applying, ApplyRow, PutBlobs, CommitUnit, PurgeOld, DeriveRead, DeriveWrite, Report, Crash, world
  <2> QED
    BY <2>1, <2>2, <2>3
<1>2. WholeFiles'
  BY <1>1 DEF Walk, WholeFiles, WalkIsComplete, InWalkOrder, Units, Documents
<1>3. CASE file.cursor = Done
  <2>1. export = Idle
    BY <1>3 DEF Walk
  <2> QED
    BY <1>1, <1>2, <1>3, <2>1 DEF Walk
<1>4. CASE file.cursor # Done
  <2>1. ~Restoring /\ restore = Idle
    BY <1>4, IdleIs DEF Walk
  <2>2. UNCHANGED <<store, restore>>
    <3>1. CASE Tick
      BY <3>1 DEF Tick
    <3>2. ASSUME Lose PROVE FALSE
      BY <1>4, <3>2 DEF Lose
    <3>s. ASSUME Submitting PROVE FALSE
      <4>1. PICK f \in ToSet(shelf), replace \in BOOLEAN :
              \E units \in IF budget.drill THEN ToSet(f.pages) ELSE Pieces(f) :
                \E refused \in {{}} \union {{x} : x \in VersionsIn(units)} :
                  Submit(f, units, replace, refused)
        BY <3>s DEF Submitting
      <4>2. PICK units, refused : Submit(f, units, replace, refused)
        BY <4>1
      <4> QED
        BY <1>4, <4>2 DEF Submit
    <3>3. CASE Applying
      <4>1. restore.at # "idle"
        BY <3>3 DEF Applying, ApplyRow, PutBlobs, CommitUnit, PurgeOld, DeriveRead, DeriveWrite,
                    Report, Crash, AtItem, Restoring
      <4> QED
        BY <2>1, <4>1 DEF Restoring
    <3>4. CASE UNCHANGED vars
      BY <3>4 DEF vars
    <3> QED
      BY <3>1, <3>2, <3>s, <3>3, <3>4
  <2> QED
    BY <1>1, <1>2, <2>2 DEF Walk, Restoring
<1> QED
  BY <1>3, <1>4

\* So every step keeps the walk.
LEMMA WalkGoesOn ==
  ASSUME NEW own, World(own), Walk, [Next]_vars
  PROVE  Walk'
<1>1. CASE Walking
  <2>1. CASE \E raw \in budget.limits : RequestPage(raw)
    BY <2>1, RequestIsWalked
  <2>2. CASE StartWalk \/ FetchPhase \/ EmitDocument
    BY <2>2, StartIsWalked, FetchIsWalked, EmitIsWalked
  <2>3. CASE SelectVersions \/ ReadBlob \/ CutPage
    BY <2>3, ReadsWalked
  <2> QED
    BY <1>1, <2>1, <2>2, <2>3 DEF Walking
<1>2. CASE Writing
  BY <1>2, RequestsWalked
<1>3. CASE Tick \/ Lose \/ Submitting \/ Applying \/ UNCHANGED vars
  BY <1>3, RestWalked
<1> QED
  BY <1>1, <1>2, <1>3 DEF Next

\* And there is none at first.
LEMMA WalkAtFirst ==
  ASSUME Init
  PROVE  Walk
<1>1. export = Idle /\ file = NoFile /\ shelf = <<>> /\ restore = Idle
  BY DEF Init
<1>2. ToSet(shelf) = {}
  BY <1>1 DEF ToSet
<1>3. WholeFiles
  BY <1>2 DEF WholeFiles, WalkIsComplete
<1>4. file.cursor = Done
  BY <1>1 DEF NoFile
<1> QED
  BY <1>1, <1>3, <1>4 DEF Walk

\* A finished file holds every row that was there all along, once.
THEOREM WalksLeaveNothingOut == Spec => []WalkIsComplete
<1> DEFINE Inv == \E own : World(own) /\ Walk
<1>1. Init => Inv
  BY StartingIs, WalkAtFirst
<1>2. Inv /\ [Next]_vars => Inv'
  BY WorldGoesOn, WalkGoesOn
<1>3. Inv => WalkIsComplete
  BY DEF Walk, WholeFiles
<1> HIDE DEF Inv
<1> QED
  BY <1>1, <1>2, <1>3, PTL DEF Spec

-----------------------------------------------------------------------------
(* What a quiet file keeps.                                                *)

\* The phases whose rows are copied as they are.
Plain == {"agents", "agent_keys", "oauth_clients"}
\* A retired name was some document's, or nobody's.
TombsFit(st) ==
  \A slug \in DOMAIN st.slug_tombstones : st.slug_tombstones[slug].doc \in DOMAIN st.documents \union {0}
\* What a unit says was in the image: its row, and a document's versions with the
\* bytes they had, as far as the walk could read them.
FromRow(I, p, i, row) == i \in DOMAIN I.store[p] /\ row = I.store[p][i]
Numbers(st, d) == {x[2] : x \in VersionsOf(st, d)}
FromVersion(I, d, no, v) ==
  /\ <<d, no>> \in DOMAIN I.store.versions
  /\ v.by = I.store.versions[<<d, no>>].by
  /\ v.text # 0 => v.text = TextIn(I, d, no)
FromImage(I, u) ==
  /\ FromRow(I, u.phase, u.id, u.row)
  /\ u.phase = "documents" =>
       /\ DOMAIN u.versions = Numbers(I.store, u.id)
       /\ \A no \in DOMAIN u.versions : FromVersion(I, u.id, no, u.versions[no])
\* A file nobody wrote beside: all of its image is owed, and its units are from it.
IsQuiet(f) ==
  /\ Sound(f.image.store) /\ TombsFit(f.image.store)
  /\ \A p \in Phases : \A i \in DOMAIN f.image.store[p] : <<p, i>> \in f.owed
  /\ \A u \in ToSet(Units(f)) : FromImage(f.image, u)
\* So is what the page under way has read so far.
QuietExport(I, e) ==
  /\ \A u \in ToSet(e.units) : FromImage(I, u)
  /\ \A u \in ToSet(e.rows) : FromRow(I, "documents", u.id, u.row)
  /\ e.at = "blobs" =>
       LET d == Head(e.rows).id IN
       /\ \A v \in e.unread : <<d, v[1]>> \in DOMAIN I.store.versions /\ v[2] = I.store.versions[<<d, v[1]>>]
       /\ DOMAIN e.read \union {v[1] : v \in e.unread} = Numbers(I.store, d)
       /\ \A no \in DOMAIN e.read : FromVersion(I, d, no, e.read[no])
\* Every quiet file is so; while one is being made the tables are its image.
Quiet ==
  /\ TombsFit(store)
  /\ \A f \in ToSet(shelf) : f.pages # <<>> /\ (f.quiet => IsQuiet(f))
  /\ file.cursor # Done /\ file.quiet =>
       /\ IsQuiet(file)
       /\ file.image.store = store /\ file.image.bucket = bucket
       /\ Exporting => QuietExport(file.image, export)

-----------------------------------------------------------------------------
(* The drill.                                                              *)

\* What the drill has put in the tables is from the image: rows as they were, but
\* for a disputed name; versions with their bytes, but for the documents blamed; and
\* search rows of the text the documents now have.
WasLive(I, d) == I.store.documents[d].live
AsWas(I, d, row) ==
  /\ d \in DOMAIN I.store.documents
  /\ LET was == I.store.documents[d] IN
     row = was \/ (was.slug \in Disputed(I.store) /\ row = [was EXCEPT !.slug = 0])
RowsPart(I, st) ==
  \A p \in Plain \union {"slug_tombstones"} : \A i \in DOMAIN st[p] : FromRow(I, p, i, st[p][i])
DocsPart(I, st) == \A d \in DOMAIN st.documents : AsWas(I, d, st.documents[d])
BytesAre(I, d, no, key, bk, blamed) ==
  /\ key \in DOMAIN bk => bk[key] = TextIn(I, d, no)
  /\ d \notin blamed => key \in DOMAIN bk
VersionPart(I, d, no, v, bk, blamed) ==
  /\ <<d, no>> \in DOMAIN I.store.versions
  /\ v.by = I.store.versions[<<d, no>>].by
  /\ WasLive(I, d) => BytesAre(I, d, no, v.key, bk, blamed)
VersionsPart(I, st, bk, blamed) ==
  \A x \in DOMAIN st.versions : VersionPart(I, x[1], x[2], st.versions[x], bk, blamed)
SearchPart(I, st) ==
  /\ DOMAIN st.documents_fts = {d \in DOMAIN st.documents : st.documents[d].live}
  /\ \A d \in DOMAIN st.documents_fts : st.documents_fts[d] = TextIn(I, d, st.documents[d].cur)
Part(I, st, bk, blamed) ==
  RowsPart(I, st) /\ DocsPart(I, st) /\ VersionsPart(I, st, bk, blamed) /\ SearchPart(I, st)

\* What is in the tables, or is to come with the items left.
AnItem(items, kinds, id) == \E i \in DOMAIN items : items[i].kind \in kinds /\ items[i].id = id
AVersion(items, id, no) ==
  \E i \in DOMAIN items : /\ items[i].kind \in {"documents", "versions"} /\ items[i].id = id
                          /\ no \in DOMAIN items[i].versions
Coming(u, st, items, I) ==
  /\ \/ u.phase = "slug_tombstones" /\ u.id \in Disputed(I.store)
     \/ u.id \in DOMAIN st[u.phase]
     \/ AnItem(items, {u.phase}, u.id)
  /\ u.phase = "documents" => \A no \in DOMAIN u.versions :
       <<u.id, no>> \in DOMAIN st.versions \/ AVersion(items, u.id, no)
\* The pages up to k are back.
Back(f, k, st) ==
  \A j \in DOMAIN f.pages : j <= k => \A u \in ToSet(f.pages[j]) : Coming(u, st, <<>>, f.image)

\* The items of a plan are from the image.
VersionFrom(I, d, no, plan) ==
  /\ <<d, no>> \in DOMAIN I.store.versions /\ plan.rec.by = I.store.versions[<<d, no>>].by
  /\ plan.old = {}
  /\ WasLive(I, d) => plan.prep /\ plan.rec.text = TextIn(I, d, no)
ItemFrom(I, item) ==
  /\ item.kind \notin {"documents", "versions"} => FromRow(I, item.kind, item.id, item.row)
  /\ item.kind = "documents" => AsWas(I, item.id, item.row) /\ item.extra = {} /\ item.extraKeys = {}
  /\ item.kind \in {"documents", "versions"} =>
       \A no \in DOMAIN item.versions : VersionFrom(I, item.id, no, item.versions[no])
ItemsFrom(I, items) == \A i \in DOMAIN items : ItemFrom(I, items[i])
\* The page being replayed: its items are from the image, its units are back or
\* to come, and what its item has put is where the item says.
LeftOf(r) == IF r.at = "item" THEN r.items ELSE Tail(r.items)
PutsAre(r, bk) ==
  \A no \in DOMAIN r.puts :
    r.puts[no] \in DOMAIN bk /\ bk[r.puts[no]] = Head(r.items).versions[no].rec.text
TextIs(I, r, st) ==
  LET d == Head(r.items).id IN
  d \in DOMAIN st.documents /\ st.documents[d].live /\ r.text = TextIn(I, d, st.documents[d].cur)
Replayed(f, k, r, st, bk) ==
  /\ ItemsFrom(f.image, r.items)
  /\ k + 1 \in DOMAIN f.pages
  /\ r.clean => \A u \in ToSet(f.pages[k + 1]) : Coming(u, st, LeftOf(r), f.image)
  /\ r.at = "item" => PutsAre(r, bk)
  /\ r.at = "search" => TextIs(f.image, r, st)
\* A drill follows the newest file, and is no further than its marked pages.
Drills(f, k, st, bk, blamed, r) ==
  /\ Part(f.image, st, bk, blamed)
  /\ Back(f, k, st)
  /\ r.at # "idle" => Replayed(f, k, r, st, bk)
Drill ==
  /\ fate.restored # -1 => shelf # <<>> /\ file.cursor = Done /\ fate.restored \in Nat
  /\ budget.drill /\ fate.restored # -1 /\ Last(shelf).quiet =>
       Drills(Last(shelf), fate.restored, store, bucket, fate.blamed, restore)
  /\ ~budget.drill => fate.restored \in {-1, 0}

-----------------------------------------------------------------------------
(* Lists.                                                                  *)

\* A filter keeps the elements of a set, each at a place of its own.
IsSieved(g, list, S) ==
  LET kept == Kept(list, S) IN
  /\ g \in [DOMAIN kept -> DOMAIN list]
  /\ \A i \in DOMAIN kept : kept[i] = list[g[i]] /\ list[g[i]] \in S
  /\ \A i, k \in DOMAIN kept : g[i] = g[k] => i = k
  /\ \A j \in DOMAIN list : list[j] \in S => \E i \in DOMAIN kept : g[i] = j
\* And there is such a map for every list.
LEMMA KeptPlaces ==
  ASSUME NEW T, NEW list \in Seq(T), NEW S
  PROVE  \E g : IsSieved(g, list, S)
<1> DEFINE at == {i \in DOMAIN list : list[i] \in S}
           R == {p \in at \X at : p[1] < p[2]}
           n == Cardinality(at)
<1>1. at \subseteq 1..Len(list) /\ Len(list) \in Nat
  OBVIOUS
<1>2. IsFiniteSet(at)
  <2>1. IsFiniteSet(1..Len(list))
    BY <1>1, FS_Interval
  <2> QED
    BY <1>1, <2>1, FS_Subset
<1>3. Orders(at, R)
  BY <1>1 DEF Orders
<1>4. ASSUME NEW x \in at PROVE Place(at, R, x) = Cardinality({y \in at : y < x})
  <2>1. {y \in at : y < x} = {y \in at : <<y, x>> \in R}
    OBVIOUS
  <2> QED
    BY <2>1 DEF Place
<1>5. n \in Nat /\ \A k \in 1..n : \E x \in at : Place(at, R, x) = k - 1
  <2> HIDE DEF at, R
  <2> QED
    BY <1>2, <1>3, PlaceTaken
<1> DEFINE g == InOrder(at, <)
<1>6. ASSUME NEW k \in 1..n PROVE g[k] \in at /\ Place(at, R, g[k]) = k - 1
  <2>1. \E x \in at : Cardinality({y \in at : y < x}) = k - 1
    BY <1>4, <1>5
  <2>2. g[k] = CHOOSE x \in at : Cardinality({y \in at : y < x}) = k - 1
    BY DEF InOrder
  <2> HIDE DEF at, R, g
  <2>3. g[k] \in at /\ Cardinality({y \in at : y < g[k]}) = k - 1
    BY <2>1, <2>2
  <2> QED
    BY <1>4, <2>3
<1>g. g \in [1..n -> at]
  <2> DEFINE e(k) == CHOOSE x \in at : Cardinality({y \in at : y < x}) = k - 1
  <2>1. g = [k \in 1..n |-> e(k)]
    BY DEF InOrder
  <2> HIDE DEF at, R, g, e
  <2>2. \A k \in 1..n : e(k) \in at
    BY <1>6, <2>1
  <2> QED
    BY <2>1, <2>2
<1>8. IsPlaced(g, at, R)
  <2> HIDE DEF at, R, g
  <2> QED
    BY <1>2, <1>3, <1>6, <1>g, PlacedInOrder
<1>7. Kept(list, S) = [k \in 1..n |-> list[g[k]]]
  BY DEF Kept
<1>9. \A i \in at : i \in DOMAIN list /\ list[i] \in S
  OBVIOUS
<1>10. \A j \in DOMAIN list : list[j] \in S => j \in at
  OBVIOUS
<1> HIDE DEF g, at, R
<1>11. /\ \A x \in at : \E i \in 1..n : g[i] = x
       /\ \A i, k \in 1..n : g[i] = g[k] => i = k
  BY <1>8 DEF IsPlaced
<1>12. DOMAIN Kept(list, S) = 1..n
  BY <1>7
<1>13. g \in [1..n -> DOMAIN list]
  BY <1>g, <1>9
<1>14. \A i \in 1..n : Kept(list, S)[i] = list[g[i]] /\ list[g[i]] \in S
  BY <1>7, <1>g, <1>9
<1> DEFINE kept == Kept(list, S)
<1>15. DOMAIN kept = 1..n /\ \A i \in 1..n : kept[i] = list[g[i]] /\ list[g[i]] \in S
  BY <1>12, <1>14
<1> HIDE DEF kept
<1>16. \A j \in DOMAIN list : list[j] \in S => \E i \in DOMAIN kept : g[i] = j
  BY <1>10, <1>11, <1>15
<1>17. \A i \in DOMAIN kept : kept[i] = list[g[i]] /\ list[g[i]] \in S
  BY <1>15
<1>18. g \in [DOMAIN kept -> DOMAIN list] /\ \A i, k \in DOMAIN kept : g[i] = g[k] => i = k
  BY <1>11, <1>13, <1>15
<1> QED
  BY <1>16, <1>17, <1>18 DEF IsSieved, kept

\* What a filter keeps, as a set.
LEMMA KeptSet ==
  ASSUME NEW T, NEW list \in Seq(T), NEW S
  PROVE  /\ Kept(list, S) \in Seq(T)
         /\ \A x : x \in ToSet(Kept(list, S)) <=> x \in ToSet(list) /\ x \in S
<1>1. PICK g : IsSieved(g, list, S)
  BY KeptPlaces
<1>2. Kept(list, S) \in Seq(T)
  BY KeptIsOfList
<1> QED
  BY <1>1, <1>2 DEF IsSieved, ToSet

\* One list after another.
LEMMA JoinSet ==
  ASSUME NEW T, NEW s \in Seq(T), NEW t \in Seq(T)
  PROVE  s \o t \in Seq(T) /\ \A x : x \in ToSet(s \o t) <=> x \in ToSet(s) \/ x \in ToSet(t)
<1>1. /\ Len(s) \in Nat /\ Len(t) \in Nat /\ DOMAIN s = 1..Len(s) /\ DOMAIN t = 1..Len(t)
      /\ DOMAIN (s \o t) = 1..Len(s) + Len(t)
      /\ \A i \in 1..Len(s) : (s \o t)[i] = s[i]
      /\ \A i \in 1..Len(t) : (s \o t)[Len(s) + i] = t[i]
  OBVIOUS
<1>2. ASSUME NEW i \in DOMAIN (s \o t) PROVE (s \o t)[i] \in ToSet(s) \/ (s \o t)[i] \in ToSet(t)
  <2>1. CASE i \in 1..Len(s)
    BY <1>1, <2>1 DEF ToSet
  <2>2. CASE i \notin 1..Len(s)
    <3>1. i - Len(s) \in 1..Len(t) /\ Len(s) + (i - Len(s)) = i
      BY <1>1, <2>2
    <3>2. (s \o t)[i] = t[i - Len(s)]
      BY <1>1, <3>1
    <3> QED
      BY <1>1, <3>1, <3>2 DEF ToSet
  <2> QED
    BY <2>1, <2>2
<1>3. \A x \in ToSet(s) : x \in ToSet(s \o t)
  <2> SUFFICES ASSUME NEW i \in DOMAIN s PROVE s[i] \in ToSet(s \o t)
    BY DEF ToSet
  <2>1. i \in DOMAIN (s \o t) /\ (s \o t)[i] = s[i]
    BY <1>1
  <2> QED
    BY <2>1 DEF ToSet
<1>4. \A x \in ToSet(t) : x \in ToSet(s \o t)
  <2> SUFFICES ASSUME NEW i \in DOMAIN t PROVE t[i] \in ToSet(s \o t)
    BY DEF ToSet
  <2>1. Len(s) + i \in DOMAIN (s \o t) /\ (s \o t)[Len(s) + i] = t[i]
    BY <1>1
  <2> QED
    BY <2>1 DEF ToSet
<1>5. \A x \in ToSet(s \o t) : x \in ToSet(s) \/ x \in ToSet(t)
  BY <1>2 DEF ToSet
<1> QED
  BY <1>3, <1>4, <1>5

-----------------------------------------------------------------------------
(* The pages of a file.                                                    *)

\* Where the units of each page stand among all.
IsPaged(P, s, us) ==
  /\ \A i \in DOMAIN s : \A a \in DOMAIN s[i] :
       P[<<i, a>>] \in DOMAIN us /\ us[P[<<i, a>>]] = s[i][a]
  /\ \A i, j \in DOMAIN s : \A a \in DOMAIN s[i], b \in DOMAIN s[j] :
       i < j \/ (i = j /\ a < b) => P[<<i, a>>] < P[<<j, b>>]
  /\ \A n \in DOMAIN us : \E i \in DOMAIN s : \E a \in DOMAIN s[i] : us[n] = s[i][a]
\* And there are such places for every file.
LEMMA PagePlaces ==
  ASSUME NEW T, NEW f, f.pages \in Seq(Seq(T))
  PROVE  \E P : IsPaged(P, f.pages, Units(f))
<1> DEFINE s == f.pages
           N == Len(s)
<1>1. s \in Seq(Seq(T)) /\ Units(f) = FlattenSeq(s) /\ N = Len(s)
  BY DEF Units
<1>2. N \in Nat /\ DOMAIN s = 1..N /\ (s = <<>> <=> N = 0) /\ \A i \in 1..N : s[i] \in Seq(T)
  OBVIOUS
<1> HIDE DEF s, N
<1>3. PICK g : /\ Flat(g, s) /\ \A i \in 1..N : g[i] \in Seq(T)
               /\ FlattenSeq(s) = IF s = <<>> THEN <<>> ELSE g[N]
  BY <1>1, FlatOf
<1>4. \A i \in 1..N : g[i] = IF i = 1 THEN s[i] ELSE g[i - 1] \o s[i]
  BY <1>1, <1>3 DEF Flat
<1> DEFINE at(i) == IF i = 1 THEN 0 ELSE Len(g[i - 1])
<1>5. ASSUME NEW i \in 1..N
      PROVE  /\ at(i) \in Nat /\ Len(g[i]) = at(i) + Len(s[i]) /\ Len(g[i]) \in Nat /\ Len(s[i]) \in Nat
             /\ DOMAIN g[i] = 1..Len(g[i]) /\ DOMAIN s[i] = 1..Len(s[i])
             /\ \A a \in DOMAIN s[i] : at(i) + a \in DOMAIN g[i] /\ g[i][at(i) + a] = s[i][a]
             /\ \A n \in DOMAIN g[i] : \/ n - at(i) \in DOMAIN s[i] /\ g[i][n] = s[i][n - at(i)]
                                       \/ i # 1 /\ n \in DOMAIN g[i - 1] /\ g[i][n] = g[i - 1][n]
             /\ i # 1 => \A n \in DOMAIN g[i - 1] : n \in DOMAIN g[i] /\ g[i][n] = g[i - 1][n]
  <2>1. CASE i = 1
    <3>1. g[i] = s[i] /\ at(i) = 0 /\ s[i] \in Seq(T)
      BY <1>2, <1>4, <2>1
    <3> QED
      BY <2>1, <3>1
  <2>2. CASE i # 1
    <3>1. i - 1 \in 1..N
      BY <1>2, <2>2
    <3> DEFINE r == g[i - 1]
               t == s[i]
    <3>2. g[i] = r \o t /\ at(i) = Len(r) /\ r \in Seq(T) /\ t \in Seq(T)
      BY <1>2, <1>3, <1>4, <2>2, <3>1
    <3> HIDE DEF r, t, at
    <3>3. /\ Len(r \o t) = Len(r) + Len(t) /\ Len(r) \in Nat /\ Len(t) \in Nat
          /\ DOMAIN (r \o t) = 1..Len(r) + Len(t) /\ DOMAIN t = 1..Len(t) /\ DOMAIN r = 1..Len(r)
          /\ \A a \in 1..Len(t) : (r \o t)[Len(r) + a] = t[a]
          /\ \A n \in 1..Len(r) : (r \o t)[n] = r[n]
      BY <3>2
    <3>4. \A n \in 1..Len(r) + Len(t) : n \in 1..Len(r) \/ (n - Len(r) \in 1..Len(t) /\ n = Len(r) + (n - Len(r)))
      BY <3>3
    <3>5. \A a \in 1..Len(t) : Len(r) + a \in 1..Len(r) + Len(t)
      BY <3>3
    <3>6. \A n \in 1..Len(r) : n \in 1..Len(r) + Len(t)
      BY <3>3
    <3>7. \A n \in DOMAIN (r \o t) : \/ n - Len(r) \in DOMAIN t /\ (r \o t)[n] = t[n - Len(r)]
                                     \/ n \in DOMAIN r /\ (r \o t)[n] = r[n]
      <4> SUFFICES ASSUME NEW n \in 1..Len(r) + Len(t)
                   PROVE  \/ n - Len(r) \in DOMAIN t /\ (r \o t)[n] = t[n - Len(r)]
                          \/ n \in DOMAIN r /\ (r \o t)[n] = r[n]
        BY <3>3
      <4>1. CASE n \in 1..Len(r)
        BY <3>3, <4>1
      <4>2. CASE n - Len(r) \in 1..Len(t)
        <5> DEFINE m == n - Len(r)
        <5>1. (r \o t)[Len(r) + m] = t[m] /\ Len(r) + m = n
          BY <3>3, <4>2
        <5> QED
          BY <3>3, <4>2, <5>1
      <4> QED
        BY <3>4, <4>1, <4>2
    <3>8. /\ at(i) \in Nat /\ Len(g[i]) = at(i) + Len(t) /\ Len(g[i]) \in Nat /\ Len(t) \in Nat
          /\ DOMAIN g[i] = 1..Len(g[i]) /\ DOMAIN t = 1..Len(t)
      BY <3>2, <3>3
    <3>9. \A a \in DOMAIN t : at(i) + a \in DOMAIN g[i] /\ g[i][at(i) + a] = t[a]
      BY <3>2, <3>3, <3>5
    <3>10. \A n \in DOMAIN g[i] : \/ n - at(i) \in DOMAIN t /\ g[i][n] = t[n - at(i)]
                                  \/ i # 1 /\ n \in DOMAIN r /\ g[i][n] = r[n]
      BY <2>2, <3>2, <3>7
    <3>11. \A n \in DOMAIN r : n \in DOMAIN g[i] /\ g[i][n] = r[n]
      BY <3>2, <3>3, <3>6
    <3> QED
      BY <3>8, <3>9, <3>10, <3>11 DEF r, t
  <2> QED
    BY <2>1, <2>2
<1>6. \A i \in 2..N : i - 1 \in 1..N /\ i \in 1..N /\ i # 1 /\ at(i) = Len(g[i - 1])
  BY <1>2
<1> HIDE DEF at
\* Each run holds the pages up to it, where they stand.
<1> DEFINE Upto(n) ==
      /\ \A j \in 1..n : Len(g[j]) <= Len(g[n])
      /\ \A j \in 1..n : \A a \in DOMAIN s[j] : at(j) + a \in DOMAIN g[n] /\ g[n][at(j) + a] = s[j][a]
      /\ \A k \in DOMAIN g[n] : \E j \in 1..n : \E a \in DOMAIN s[j] : g[n][k] = s[j][a]
    R == {n \in Nat : n \in 1..N => Upto(n)}
<1>7. 0 \in R
  OBVIOUS
<1>8. ASSUME NEW n \in Nat, n \in R PROVE n + 1 \in R
  <2> SUFFICES ASSUME n + 1 \in 1..N PROVE Upto(n + 1)
    OBVIOUS
  <2> DEFINE m == n + 1
  <2>m. m \in 1..N /\ m - 1 = n /\ (m # 1 => n \in 1..N /\ m \in 2..N)
    BY <1>2
  <2>0. m # 1 => Upto(n)
    BY <1>8, <2>m
  <2>1. ASSUME NEW j \in 1..m PROVE j = m \/ (m # 1 /\ j \in 1..n)
    BY <2>m
  <2>i. \A j \in 1..n : j \in 1..m
    OBVIOUS
  <2>j. m \in 1..m
    OBVIOUS
  <2> HIDE DEF R, m
  <2>2. ASSUME NEW j \in 1..m PROVE Len(g[j]) <= Len(g[m])
    <3>1. CASE j = m
      BY <1>5, <2>m, <3>1
    <3>2. CASE m # 1 /\ j \in 1..n
      <4>1. Len(g[j]) <= Len(g[n]) /\ at(m) = Len(g[n])
        BY <1>6, <2>0, <2>m, <3>2
      <4>2. at(m) \in Nat /\ Len(g[m]) = at(m) + Len(s[m]) /\ Len(s[m]) \in Nat
        BY <1>5, <2>m
      <4>3. j \in 1..N
        BY <2>m, <3>2, <1>2
      <4>4. Len(g[j]) \in Nat
        BY <1>5, <4>3
      <4> DEFINE x == Len(g[j])
                 y == Len(g[n])
                 z == Len(s[m])
                 w == Len(g[m])
      <4>5. x <= y /\ x \in Nat /\ y \in Nat /\ z \in Nat /\ w = y + z
        BY <4>1, <4>2, <4>4
      <4> HIDE DEF x, y, z, w
      <4>6. x <= w
        BY <4>5
      <4> QED
        BY <4>6 DEF x, w
    <3> QED
      BY <2>1, <3>1, <3>2
  <2>3. ASSUME NEW j \in 1..m, NEW a \in DOMAIN s[j]
        PROVE  at(j) + a \in DOMAIN g[m] /\ g[m][at(j) + a] = s[j][a]
    <3>1. CASE j = m
      BY <1>5, <2>m, <3>1
    <3>2. CASE m # 1 /\ j \in 1..n
      <4>1. at(j) + a \in DOMAIN g[n] /\ g[n][at(j) + a] = s[j][a]
        BY <2>0, <3>2
      <4>2. \A k \in DOMAIN g[m - 1] : k \in DOMAIN g[m] /\ g[m][k] = g[m - 1][k]
        BY <1>5, <2>m, <3>2
      <4> QED
        BY <2>m, <4>1, <4>2
    <3> QED
      BY <2>1, <3>1, <3>2
  <2>4. ASSUME NEW k \in DOMAIN g[m] PROVE \E j \in 1..m : \E a \in DOMAIN s[j] : g[m][k] = s[j][a]
    <3>1. CASE k - at(m) \in DOMAIN s[m] /\ g[m][k] = s[m][k - at(m)]
      BY <2>j, <3>1
    <3>2. CASE m # 1 /\ k \in DOMAIN g[m - 1] /\ g[m][k] = g[m - 1][k]
      <4>1. PICK j \in 1..n : \E a \in DOMAIN s[j] : g[n][k] = s[j][a]
        BY <2>0, <2>m, <3>2
      <4> QED
        BY <2>i, <2>m, <3>2, <4>1
    <3> QED
      BY <1>5, <2>m, <3>1, <3>2
  <2> QED
    BY <2>2, <2>3, <2>4 DEF m
<1>9. \A n \in Nat : n \in R
  <2> HIDE DEF R
  <2> QED
    BY <1>7, <1>8, Inductive
<1>10. \A n \in 1..N : Upto(n)
  <2> HIDE DEF Upto
  <2>1. ASSUME NEW n \in 1..N PROVE n \in Nat
    BY <1>2
  <2> QED
    BY <1>9, <2>1
<1> HIDE DEF R, Upto
<1> DEFINE P == [p \in Nat \X Nat |-> at(p[1]) + p[2]]
           us == Units(f)
<1>11. us = IF N = 0 THEN <<>> ELSE g[N]
  BY <1>1, <1>2, <1>3
<1>12. ASSUME NEW i \in DOMAIN s, NEW a \in DOMAIN s[i] PROVE P[<<i, a>>] = at(i) + a /\ a \in Nat /\ a >= 1
  <2>1. i \in 1..N
    BY <1>2
  <2>2. s[i] \in Seq(T) /\ DOMAIN s[i] = 1..Len(s[i]) /\ Len(s[i]) \in Nat
    BY <1>2, <2>1
  <2>3. i \in Nat /\ a \in Nat /\ a >= 1
    BY <1>2, <2>1, <2>2
  <2> QED
    BY <2>3
<1> HIDE DEF P, us
<1>13. N # 0 => Upto(N) /\ us = g[N]
  BY <1>2, <1>10, <1>11
<1>14. ASSUME NEW i \in DOMAIN s, NEW a \in DOMAIN s[i]
       PROVE  P[<<i, a>>] \in DOMAIN us /\ us[P[<<i, a>>]] = s[i][a]
  <2>1. N # 0 /\ i \in 1..N
    BY <1>2
  <2> QED
    BY <1>12, <1>13, <2>1 DEF Upto
<1>15. ASSUME NEW i \in DOMAIN s, NEW j \in DOMAIN s, NEW a \in DOMAIN s[i], NEW b \in DOMAIN s[j],
              i < j \/ (i = j /\ a < b)
       PROVE  P[<<i, a>>] < P[<<j, b>>]
  <2>0. /\ P[<<i, a>>] = at(i) + a /\ P[<<j, b>>] = at(j) + b /\ a \in Nat /\ b \in Nat /\ b >= 1
        /\ i \in 1..N /\ j \in 1..N
    BY <1>2, <1>12
  <2>1. CASE i < j
    <3>1. j - 1 \in 1..N /\ i \in 1..(j - 1) /\ at(j) = Len(g[j - 1])
      <4>1. j \in 2..N /\ i \in 1..(j - 1)
        BY <1>2, <2>0, <2>1
      <4> QED
        BY <1>6, <4>1
    <3>2. Len(g[i]) <= Len(g[j - 1])
      BY <1>10, <3>1 DEF Upto
    <3>3. Len(g[i]) = at(i) + Len(s[i]) /\ a <= Len(s[i]) /\ at(i) \in Nat /\ Len(s[i]) \in Nat /\ Len(g[i]) \in Nat
      <4>1. Len(g[i]) = at(i) + Len(s[i]) /\ at(i) \in Nat /\ Len(s[i]) \in Nat /\ Len(g[i]) \in Nat
            /\ DOMAIN s[i] = 1..Len(s[i])
        BY <1>5, <2>0
      <4> QED
        BY <4>1
    <3>4. at(j) \in Nat
      BY <1>5, <2>0
    <3> DEFINE x == at(i)
               y == at(j)
               to == Len(g[i])
               l == Len(s[i])
    <3>5. x + a <= y
      <4>1. to <= y /\ to = x + l /\ a <= l
        BY <3>1, <3>2, <3>3
      <4>2. x \in Nat /\ y \in Nat /\ to \in Nat /\ l \in Nat /\ a \in Nat
        BY <2>0, <3>3, <3>4
      <4> HIDE DEF x, y, to, l
      <4> QED
        BY <4>1, <4>2
    <3>6. x \in Nat /\ y \in Nat /\ P[<<i, a>>] = x + a /\ P[<<j, b>>] = y + b
      BY <2>0, <3>3, <3>4
    <3> HIDE DEF x, y, to, l
    <3>7. x + a < y + b
      BY <2>0, <3>5, <3>6
    <3> QED
      BY <3>6, <3>7
  <2>2. CASE i = j /\ a < b
    <3>1. at(i) \in Nat
      BY <1>5, <2>0
    <3> QED
      BY <2>0, <2>2, <3>1
  <2> QED
    BY <1>15, <2>1, <2>2
<1>16. ASSUME NEW n \in DOMAIN us PROVE \E i \in DOMAIN s : \E a \in DOMAIN s[i] : us[n] = s[i][a]
  <2>1. N # 0
    BY <1>11
  <2>2. PICK j \in 1..N : \E a \in DOMAIN s[j] : g[N][n] = s[j][a]
    <3>1. Upto(N) /\ us = g[N]
      BY <1>13, <2>1
    <3>2. n \in DOMAIN g[N]
      BY <3>1
    <3> QED
      BY <3>1, <3>2 DEF Upto
  <2>3. j \in DOMAIN s /\ us = g[N]
    BY <1>2, <1>13, <2>1
  <2> QED
    BY <2>2, <2>3
<1> QED
  BY <1>14, <1>15, <1>16 DEF IsPaged, us, s

\* What the pages of a quiet file hold: the image, each document at one place of
\* its page, and a retired name after the document it was of.
IsAt(f, i, a, p, id) == f.pages[i][a].phase = p /\ f.pages[i][a].id = id
PagesTell(f) ==
  /\ \A i \in DOMAIN f.pages : \A a \in DOMAIN f.pages[i] : FromImage(f.image, f.pages[i][a])
  /\ \A p \in Phases : \A id \in DOMAIN f.image.store[p] :
       \E i \in DOMAIN f.pages : \E a \in DOMAIN f.pages[i] : IsAt(f, i, a, p, id)
  /\ \A i \in DOMAIN f.pages : \A a, b \in DOMAIN f.pages[i] : \A id :
       IsAt(f, i, a, "documents", id) /\ IsAt(f, i, b, "documents", id) => a = b
  /\ \A i \in DOMAIN f.pages : \A a \in DOMAIN f.pages[i] :
       f.pages[i][a].phase = "slug_tombstones" /\ f.pages[i][a].row.doc # 0 =>
         \E j \in DOMAIN f.pages : \E b \in DOMAIN f.pages[j] :
           j <= i /\ IsAt(f, j, b, "documents", f.pages[i][a].row.doc)

\* The pages of a quiet file tell of its image.
LEMMA QuietPages ==
  ASSUME NEW own, World(own), Walk, Quiet, NEW f \in ToSet(shelf), f.quiet
  PROVE  /\ IsFile(f, own) /\ f.pages \in Seq(Seq(UnitsOf(own)))
         /\ Sound(f.image.store) /\ TombsFit(f.image.store)
         /\ PagesTell(f)
<1> DEFINE us == Units(f)
<1>1. /\ f.pages # <<>> /\ Sound(f.image.store) /\ TombsFit(f.image.store)
      /\ \A p \in Phases : \A i \in DOMAIN f.image.store[p] : <<p, i>> \in f.owed
      /\ \A u \in ToSet(us) : FromImage(f.image, u)
  BY DEF Quiet, IsQuiet
<1>2. IsFile(f, own) /\ f.pages \in Seq(Seq(UnitsOf(own)))
  <2>1. PICK T : shelf \in Seq(T) /\ \A g \in T : IsFile(g, own)
    BY DEF World, IsShelf
  <2>2. f \in T
    BY <2>1 DEF ToSet
  <2> QED
    BY <2>1, <2>2 DEF IsFile
<1>3. us \in Seq(UnitsOf(own))
  BY <1>2, UnitsAre
<1>4. Complete(f) /\ InWalkOrder(us)
  BY DEF Walk, WholeFiles, WalkIsComplete, Complete
<1>5. PICK P : IsPaged(P, f.pages, us)
  BY <1>2, PagePlaces
<1> HIDE DEF us
<1> DEFINE s == f.pages
<1>6. /\ \A i \in DOMAIN s : \A a \in DOMAIN s[i] :
           P[<<i, a>>] \in DOMAIN us /\ us[P[<<i, a>>]] = s[i][a]
      /\ \A i, j \in DOMAIN s : \A a \in DOMAIN s[i], b \in DOMAIN s[j] :
           i < j \/ (i = j /\ a < b) => P[<<i, a>>] < P[<<j, b>>]
      /\ \A n \in DOMAIN us : \E i \in DOMAIN s : \E a \in DOMAIN s[i] : us[n] = s[i][a]
  BY <1>5 DEF IsPaged
<1>7. /\ DOMAIN s \subseteq Nat /\ \A i \in DOMAIN s : DOMAIN s[i] \subseteq Nat /\ s[i] \in Seq(UnitsOf(own))
      /\ \A i \in DOMAIN s : \A a \in DOMAIN s[i] : s[i][a] \in UnitsOf(own)
  BY <1>2
<1> HIDE DEF s
<1>8. ASSUME NEW i \in DOMAIN s, NEW j \in DOMAIN s, NEW a \in DOMAIN s[i], NEW b \in DOMAIN s[j],
             i < j \/ (i = j /\ a < b)
      PROVE  Sooner(s[i][a], s[j][b])
  <2> DEFINE m == P[<<i, a>>]
             n == P[<<j, b>>]
  <2>1. m \in DOMAIN us /\ n \in DOMAIN us /\ us[m] = s[i][a] /\ us[n] = s[j][b]
    BY <1>6
  <2>2. m < n
    BY <1>6, <1>8
  <2> HIDE DEF m, n
  <2>3. Sooner(us[m], us[n])
    BY <1>4, <2>1, <2>2 DEF InWalkOrder
  <2> QED
    BY <2>1, <2>3
<1>9. ASSUME NEW i \in DOMAIN s, NEW a \in DOMAIN s[i] PROVE FromImage(f.image, s[i][a])
  <2>1. us[P[<<i, a>>]] \in ToSet(us)
    BY <1>6 DEF ToSet
  <2> QED
    BY <1>1, <1>6, <2>1 DEF us
<1>10. ASSUME NEW p \in Phases, NEW id \in DOMAIN f.image.store[p]
       PROVE  \E i \in DOMAIN s : \E a \in DOMAIN s[i] : s[i][a].phase = p /\ s[i][a].id = id
  <2> DEFINE A == {n \in DOMAIN us : us[n].phase = p /\ us[n].id = id}
             o == <<p, id>>
  <2>1. o \in f.owed /\ o[1] = p /\ o[2] = id
    BY <1>1
  <2>2. Cardinality(A) = 1
    <3>1. \A x \in f.owed : Cardinality({n \in DOMAIN us : us[n].phase = x[1] /\ us[n].id = x[2]}) = 1
      BY <1>4 DEF Complete, us
    <3> HIDE DEF us, o
    <3>2. Cardinality({n \in DOMAIN us : us[n].phase = o[1] /\ us[n].id = o[2]}) = 1
      BY <2>1, <3>1
    <3> QED
      BY <2>1, <3>2
  <2>3. A # {}
    <3> HIDE DEF A
    <3> QED
      BY <2>2, FS_EmptySet
  <2>4. PICK n \in DOMAIN us : us[n].phase = p /\ us[n].id = id
    BY <2>3
  <2> HIDE DEF A, o
  <2>5. PICK i \in DOMAIN s : \E a \in DOMAIN s[i] : us[n] = s[i][a]
    BY <1>6
  <2> QED
    BY <2>4, <2>5
<1>11. ASSUME NEW i \in DOMAIN s, NEW a \in DOMAIN s[i], NEW b \in DOMAIN s[i],
              s[i][a].phase = "documents", s[i][b].phase = "documents", s[i][a].id = s[i][b].id
       PROVE  a = b
  <2>1. SpotOf(s[i][a]) = SpotOf(s[i][b])
    <3>1. s[i][a].row = s[i][b].row
      BY <1>9, <1>11 DEF FromImage, FromRow
    <3> QED
      BY <1>11, <3>1 DEF SpotOf
  <2>2. SpotOf(s[i][a]) \in Spots /\ PhaseAt("documents") \in 1..5
    <3>1. s[i][a] \in UnitsOf(own)
      BY <1>7
    <3>2. SpotOf(s[i][a]) \in Spots /\ s[i][a].phase \in Phases
      BY <3>1, UnitSpot
    <3> QED
      BY <1>11, <3>2, PhaseOfPlace
  <2>3. ~Sooner(s[i][a], s[i][b]) /\ ~Sooner(s[i][b], s[i][a])
    BY <1>11, <2>1, <2>2, EarlierIs DEF Sooner
  <2>4. a \in Nat /\ b \in Nat
    BY <1>7
  <2>5. ~(a < b) /\ ~(b < a)
    BY <1>8, <2>3
  <2> QED
    BY <2>4, <2>5
<1>12. ASSUME NEW i \in DOMAIN s, NEW a \in DOMAIN s[i],
              s[i][a].phase = "slug_tombstones", s[i][a].row.doc # 0
       PROVE  \E j \in DOMAIN s : \E b \in DOMAIN s[j] :
                j <= i /\ s[j][b].phase = "documents" /\ s[j][b].id = s[i][a].row.doc
  <2> DEFINE u == s[i][a]
             d == u.row.doc
  <2>1. d \in DOMAIN f.image.store.documents
    <3>1. u.id \in DOMAIN f.image.store.slug_tombstones /\ u.row = f.image.store.slug_tombstones[u.id]
      BY <1>9, <1>12 DEF FromImage, FromRow
    <3> QED
      BY <1>1, <1>12, <3>1 DEF TombsFit
  <2>2. PICK j \in DOMAIN s : \E b \in DOMAIN s[j] : s[j][b].phase = "documents" /\ s[j][b].id = d
    BY <1>10, <2>1, PhasesAre
  <2>3. PICK b \in DOMAIN s[j] : s[j][b].phase = "documents" /\ s[j][b].id = d
    BY <2>2
  <2>4. ~Sooner(s[i][a], s[j][b])
    <3>1. PhaseAt("documents") = 4 /\ PhaseAt("slug_tombstones") = 5
      BY PhaseOfPlace
    <3> QED
      BY <1>12, <2>3, <3>1 DEF Sooner
  <2>5. ~(i < j)
    BY <1>8, <2>4
  <2>6. i \in Nat /\ j \in Nat
    BY <1>7
  <2> QED
    BY <2>3, <2>5, <2>6
<1>13. PagesTell(f)
  BY <1>9, <1>10, <1>11, <1>12 DEF PagesTell, IsAt, s
<1> QED
  BY <1>1, <1>2, <1>13

-----------------------------------------------------------------------------
(* A quiet walk.                                                           *)

\* The walk is making a file, and what a quiet one has so far.
Walker(own) ==
  /\ export # Idle /\ file.cursor # Done
  /\ DOMAIN file = {"pages", "cursor", "image", "quiet", "owed"}
  /\ file.pages \in Seq(Seq(UnitsOf(own))) /\ Units(file) \in Seq(UnitsOf(own))
  /\ IsExport(export, own)
\* A walk under way is such a walker.
LEMMA WalkerIs ==
  ASSUME NEW own, World(own), Walk, Quiet, export # Idle
  PROVE  /\ Walker(own)
         /\ file.quiet => /\ IsQuiet(file) /\ file.image.store = store /\ file.image.bucket = bucket
                          /\ QuietExport(file.image, export)
<1>1. file.cursor # Done /\ Exporting
  BY IdleIs DEF Walk
<1>2. /\ DOMAIN file = {"pages", "cursor", "image", "quiet", "owed"}
      /\ file.pages \in Seq(Seq(UnitsOf(own))) /\ IsExport(export, own)
  BY DEF World, IsFile
<1>3. Units(file) \in Seq(UnitsOf(own))
  BY <1>2, UnitsAre
<1> QED
  BY <1>1, <1>2, <1>3 DEF Walker, Quiet

\* What was emitted joins the file, and the file the shelf.
LEMMA FinishIsQuiet ==
  ASSUME NEW own, World(own), Walk, Quiet, export # Idle, UNCHANGED <<store, bucket>>,
         NEW units \in Seq(UnitsOf(own)), file.quiet => \A u \in ToSet(units) : FromImage(file.image, u),
         NEW to, FinishPage(units, to)
  PROVE  Quiet'
<1> DEFINE f == [file EXCEPT !.pages = Append(@, units), !.cursor = to]
<1>1. /\ export' = Idle
      /\ IF to = Done THEN file' = NoFile /\ shelf' = Append(shelf, f)
         ELSE file' = f /\ shelf' = shelf
  BY DEF FinishPage
<1>2. Walker(own) /\ (file.quiet => IsQuiet(file) /\ file.image.store = store /\ file.image.bucket = bucket)
  BY WalkerIs
<1>3. f.pages = Append(file.pages, units) /\ f.cursor = to /\ f.owed = file.owed /\ f.image = file.image
      /\ f.quiet = file.quiet
  BY <1>2 DEF Walker
<1> HIDE DEF f
<1>4. Units(f) = Units(file) \o units /\ f.pages # <<>>
  <2>0. file.pages \in Seq(Seq(UnitsOf(own)))
    BY <1>2 DEF Walker
  <2>1. Units(f) = Units(file) \o units
    <3>1. f.pages = Append(file.pages, units)
      BY <1>3
    <3> QED
      BY <2>0, <3>1, UnitsMore, ZenonT(60)
  <2>2. \A T : \A s \in Seq(T), x \in T : Append(s, x) # <<>>
    OBVIOUS
  <2>3. units \in Seq(UnitsOf(own)) /\ file.pages \in Seq(Seq(UnitsOf(own)))
    BY <1>2 DEF Walker
  <2> DEFINE B == Seq(UnitsOf(own))
  <2> HIDE DEF B
  <2>4. Append(file.pages, units) # <<>>
    BY <2>2, <2>3 DEF B
  <2> QED
    BY <1>3, <2>1, <2>4
<1>5. f.quiet => IsQuiet(f)
  <2> SUFFICES ASSUME f.quiet PROVE IsQuiet(f)
    OBVIOUS
  <2>1. \A u \in ToSet(Units(f)) : u \in ToSet(Units(file)) \/ u \in ToSet(units)
    BY <1>2, <1>4, JoinSet DEF Walker
  <2> QED
    BY <1>2, <1>3, <2>1 DEF IsQuiet
<1>6. ~Exporting' /\ TombsFit(store')
  BY <1>1 DEF Idle, Exporting, Quiet
<1>7. CASE to = Done
  <2>1. ToSet(shelf') = ToSet(shelf) \union {f}
    <3>1. PICK T : shelf \in Seq(T)
      BY DEF World, IsShelf
    <3>2. shelf \in Seq(T \union {f}) /\ shelf' = Append(shelf, f)
      BY <1>1, <1>7, <3>1
    <3>3. /\ DOMAIN shelf' = 1..Len(shelf) + 1 /\ Len(shelf) \in Nat /\ DOMAIN shelf = 1..Len(shelf)
          /\ shelf'[Len(shelf) + 1] = f /\ \A i \in 1..Len(shelf) : shelf'[i] = shelf[i]
      BY <3>2
    <3> QED
      BY <3>3 DEF ToSet
  <2>2. file'.cursor = Done
    BY <1>1, <1>7 DEF NoFile
  <2>3. \A g \in ToSet(shelf) : g.pages # <<>> /\ (g.quiet => IsQuiet(g))
    BY DEF Quiet
  <2>4. \A g \in ToSet(shelf') : g.pages # <<>> /\ (g.quiet => IsQuiet(g))
    BY <1>4, <1>5, <2>1, <2>3
  <2> QED
    BY <1>6, <2>2, <2>4 DEF Quiet, IsQuiet, Units
<1>8. CASE to # Done
  <2>1. file' = f /\ shelf' = shelf
    BY <1>1, <1>8
  <2>2. \A g \in ToSet(shelf') : g.pages # <<>> /\ (g.quiet => IsQuiet(g))
    BY <2>1 DEF Quiet
  <2>3. file'.quiet => IsQuiet(file') /\ file'.image.store = store' /\ file'.image.bucket = bucket'
    BY <1>2, <1>3, <1>5, <2>1
  <2> QED
    BY <1>6, <2>2, <2>3 DEF Quiet, IsQuiet, Units
<1> QED
  BY <1>7, <1>8

\* What the end of a phase's rows does.
LEMMA EndOfRowsIs ==
  ASSUME NEW own, World(own), export # Idle, NEW units, NEW taken \in Nat, NEW last \in BOOLEAN,
         last => taken <= export.remaining, EndOfRows(units, taken, last)
  PROVE  \/ \E to : FinishPage(units, to)
         \/ /\ export'.at = "fetch" /\ export'.units = units /\ export'.rows = export.rows
            /\ UNCHANGED <<file, shelf>>
<1> DEFINE phase == export.cursor.phase
           next == [phase |-> nextBackupPhase[PhaseAt(phase)], after |-> Start]
           left == export.remaining - taken
<1>1. PhaseAt(phase) \in 1..5 /\ export.remaining \in Nat
      /\ DOMAIN export = {"at", "cursor", "remaining", "rows", "last", "unread", "read", "units"}
  <2>1. phase \in Phases
    BY DEF World, IsExport
  <2> HIDE DEF phase
  <2> QED
    BY <2>1, PhaseOfPlace DEF World, IsExport
<1>2. CASE ~last
  BY <1>2 DEF EndOfRows
<1>3. CASE last /\ PhaseAt(phase) = 5
  BY <1>3 DEF EndOfRows
<1>4. CASE last /\ PhaseAt(phase) < 5 /\ left = 0
  <2>1. PhaseAt(export.cursor.phase) # 5 /\ PhaseAt(export.cursor.phase) < 5
        /\ export.remaining - taken = 0 /\ ~(export.remaining - taken > 0) /\ last
    BY <1>1, <1>4
  <2>2. FinishPage(units, next)
    BY <2>1, Zenon DEF EndOfRows
  <2> QED
    BY <2>2
<1>5. CASE last /\ PhaseAt(phase) < 5 /\ left > 0
  <2>1. PhaseAt(export.cursor.phase) # 5 /\ PhaseAt(export.cursor.phase) < 5
        /\ export.remaining - taken # 0 /\ export.remaining - taken > 0 /\ last
    BY <1>1, <1>5
  <2>2. /\ export' = [export EXCEPT !.at = "fetch", !.cursor = next, !.remaining = left,
                                    !.units = units]
        /\ UNCHANGED <<file, shelf>>
    BY <2>1, Zenon DEF EndOfRows
  <2> HIDE DEF next, left
  <2>3. export'.at = "fetch" /\ export'.units = units /\ export'.rows = export.rows
    BY <1>1, <2>2
  <2> QED
    BY <2>2, <2>3
<1>6. last => left \in Nat
  BY <1>1
<1> QED
  BY <1>1, <1>2, <1>3, <1>4, <1>5, <1>6

\* A run of rows that ends leaves the file quiet, whether or not the page goes on.
LEMMA EndIsQuiet ==
  ASSUME NEW own, World(own), Walk, Quiet, export # Idle, UNCHANGED <<store, bucket>>,
         NEW units \in Seq(UnitsOf(own)), file.quiet => \A u \in ToSet(units) : FromImage(file.image, u),
         NEW taken \in Nat, NEW last \in BOOLEAN,
         last => taken <= export.remaining, EndOfRows(units, taken, last)
  PROVE  Quiet'
<1>1. CASE \E to : FinishPage(units, to)
  BY <1>1, FinishIsQuiet
<1>2. CASE /\ export'.at = "fetch" /\ export'.units = units /\ export'.rows = export.rows
           /\ UNCHANGED <<file, shelf>>
  <2>1. file.quiet => /\ IsQuiet(file) /\ file.image.store = store /\ file.image.bucket = bucket
                      /\ QuietExport(file.image, export)
    BY WalkerIs
  <2>2. file.quiet => QuietExport(file.image, export')
    BY <1>2, <2>1 DEF QuietExport
  <2> QED
    BY <1>2, <2>1, <2>2 DEF Quiet, IsQuiet, Units, QuietExport
<1> QED
  BY <1>1, <1>2, EndOfRowsIs

\* A walk that starts has its image before it.
LEMMA StartIsQuiet ==
  ASSUME NEW own, World(own), Walk, Quiet, StartWalk
  PROVE  Quiet'
<1>1. /\ ~Exporting
      /\ file' = [pages |-> <<>>, cursor |-> FirstPage, quiet |-> TRUE,
                  image |-> [store |-> store, bucket |-> bucket],
                  owed |-> UNION {{<<p, i>> : i \in DOMAIN store[p]} : p \in Phases}]
      /\ UNCHANGED <<store, bucket, export, shelf, restore>>
  BY DEF StartWalk, world
<1>2. Units(file') = <<>>
  BY <1>1 DEF Units, FlattenSeq
<1>3. IsQuiet(file')
  <2>1. Sound(store) /\ TombsFit(store)
    BY DEF World, World0, Quiet
  <2>2. ToSet(Units(file')) = {}
    BY <1>2 DEF ToSet
  <2> QED
    BY <1>1, <2>1, <2>2 DEF IsQuiet
<1>4. file'.image.store = store' /\ file'.image.bucket = bucket' /\ ~Exporting'
  BY <1>1 DEF Exporting
<1>5. \A g \in ToSet(shelf) : g.pages # <<>> /\ (g.quiet => IsQuiet(g))
  BY DEF Quiet
<1> QED
  BY <1>1, <1>3, <1>4, <1>5 DEF Quiet, IsQuiet, Units

\* What a phase fetches is from the image.
LEMMA FetchIsQuiet ==
  ASSUME NEW own, World(own), Walk, Quiet, FetchPhase
  PROVE  Quiet'
<1> DEFINE phase == export.cursor.phase
           peeked == fetchPhase(phase, export.cursor.after, export.remaining + 1)
           last == Len(peeked) <= export.remaining
           rows == IF last THEN peeked ELSE Front(peeked)
           us == [n \in DOMAIN rows |-> Unit(phase, rows[n], Empty)]
           I == file.image
<1>1. export # Idle /\ phase \in Phases /\ export.remaining \in Nat /\ export.at = "fetch"
      /\ export.units \in Seq(UnitsOf(own))
  BY DEF FetchPhase, World, IsExport, Idle
<1>2. peeked \in Seq(DOMAIN store[phase]) /\ Len(peeked) <= export.remaining + 1
  <2> HIDE DEF phase
  <2> QED
    BY <1>1, FetchIsOfTable DEF World, World0
<1> HIDE DEF peeked
<1>3. rows \in Seq(DOMAIN store[phase]) /\ (last => Len(rows) <= export.remaining)
  <2>1. CASE last
    BY <1>2, <2>1
  <2>2. CASE ~last
    <3>1. peeked # <<>>
      BY <1>1, <1>2, <2>2
    <3>2. Front(peeked) = [i \in 1..Len(peeked) - 1 |-> peeked[i]]
      BY <1>2, <3>1 DEF Front
    <3> DEFINE n == Len(peeked) - 1
    <3>3. n \in Nat /\ \A i \in 1..n : peeked[i] \in DOMAIN store[phase]
      BY <1>2, <3>1
    <3>4. Front(peeked) = [i \in 1..n |-> peeked[i]]
      BY <3>2
    <3> HIDE DEF n
    <3>5. Front(peeked) \in Seq(DOMAIN store[phase])
      BY <3>3, <3>4
    <3> QED
      BY <2>2, <3>5
  <2> QED
    BY <2>1, <2>2
<1>4. /\ \/ /\ phase = "documents" /\ rows # <<>>
            /\ export' = [export EXCEPT !.at = "versions", !.last = last, !.rows = us]
            /\ UNCHANGED <<file, shelf>>
         \/ EndOfRows(export.units \o us, Len(rows), last)
      /\ UNCHANGED <<store, bucket>>
  BY DEF FetchPhase, peeked, world
<1>5. last \in BOOLEAN /\ Len(rows) \in Nat
  BY <1>3
<1> HIDE DEF rows, last
<1>6. \A id : /\ Unit(phase, id, Empty).phase = phase /\ Unit(phase, id, Empty).id = id
              /\ Unit(phase, id, Empty).row = store[phase][id]
  BY DEF Unit
<1>7. us \in Seq(UnitsOf(own))
  <2>1. \A n \in DOMAIN rows : Unit(phase, rows[n], Empty) \in UnitsOf(own)
    <3>1. \A n \in DOMAIN rows : rows[n] \in DOMAIN store[phase]
      BY <1>3
    <3> HIDE DEF phase
    <3> QED
      BY <1>1, <3>1, RowIsUnit DEF World, World0
  <2>2. DOMAIN rows = 1..Len(rows) /\ Len(rows) \in Nat
    BY <1>3
  <2> HIDE DEF phase
  <2> QED
    BY <2>1, <2>2
<1>8. \A u \in ToSet(us) : /\ u.phase = phase /\ u.id \in DOMAIN store[phase] /\ u.row = store[phase][u.id]
  <2>1. \A n \in DOMAIN rows : rows[n] \in DOMAIN store[phase]
    BY <1>3
  <2> HIDE DEF phase
  <2>2. DOMAIN us = DOMAIN rows /\ \A n \in DOMAIN rows : us[n] = Unit(phase, rows[n], Empty)
    OBVIOUS
  <2> QED
    BY <1>6, <2>1, <2>2 DEF ToSet
<1> HIDE DEF us
<1>9. file.quiet => /\ IsQuiet(file) /\ I.store = store /\ I.bucket = bucket /\ QuietExport(I, export)
  BY <1>1, WalkerIs
<1>10. CASE /\ phase = "documents" /\ rows # <<>>
            /\ export' = [export EXCEPT !.at = "versions", !.last = last, !.rows = us]
            /\ UNCHANGED <<file, shelf>>
  <2>1. export'.at = "versions" /\ export'.rows = us /\ export'.units = export.units
    BY <1>1, <1>10 DEF World, IsExport
  <2>2. file.quiet => QuietExport(I, export')
    BY <1>8, <1>9, <1>10, <2>1 DEF QuietExport, FromRow
  <2> QED
    BY <1>4, <1>9, <1>10, <2>2 DEF Quiet, IsQuiet, Units, QuietExport
<1>11. CASE EndOfRows(export.units \o us, Len(rows), last) /\ ~(phase = "documents" /\ rows # <<>>)
  <2> DEFINE units == export.units \o us
  <2>1. units \in Seq(UnitsOf(own)) /\ \A u \in ToSet(units) : u \in ToSet(export.units) \/ u \in ToSet(us)
    BY <1>1, <1>7, JoinSet
  <2>2. file.quiet => \A u \in ToSet(us) : FromImage(I, u)
    <3>1. CASE phase # "documents"
      BY <1>8, <1>9, <3>1 DEF FromImage, FromRow
    <3>2. CASE rows = <<>>
      <4>1. DOMAIN us = {}
        BY <3>2 DEF us
      <4> QED
        BY <4>1 DEF ToSet
    <3> QED
      BY <1>11, <3>1, <3>2
  <2>3. file.quiet => \A u \in ToSet(units) : FromImage(I, u)
    BY <1>9, <2>1, <2>2 DEF QuietExport
  <2> HIDE DEF units
  <2>4. last => Len(rows) <= export.remaining
    BY <1>3
  <2> QED
    BY <1>1, <1>4, <1>5, <1>11, <2>1, <2>3, <2>4, EndIsQuiet DEF units
<1> QED
  <2>1. \/ phase = "documents" /\ rows # <<>>
        \/ ~(phase = "documents" /\ rows # <<>>)
    OBVIOUS
  <2>2. phase = "documents" /\ rows # <<>> =>
          /\ export' = [export EXCEPT !.at = "versions", !.last = last, !.rows = us]
          /\ UNCHANGED <<file, shelf>>
    BY DEF FetchPhase, rows, us, last, peeked
  <2> QED
    BY <1>4, <1>10, <1>11, <2>1, <2>2

\* So are the versions of a document,
LEMMA VersionsAreQuiet ==
  ASSUME NEW own, World(own), Walk, Quiet, SelectVersions
  PROVE  Quiet'
<1> DEFINE d == Head(export.rows).id
           unread == {<<x[2], store.versions[x]>> : x \in VersionsOf(store, d)}
           I == file.image
<1>1. export # Idle
  BY DEF SelectVersions, Idle
<1>2. export' = [export EXCEPT !.at = "blobs", !.read = Empty, !.unread = unread]
      /\ UNCHANGED <<store, bucket, file, shelf>>
  BY DEF SelectVersions, world
<1>3. file.quiet => /\ IsQuiet(file) /\ I.store = store /\ I.bucket = bucket /\ QuietExport(I, export)
  BY <1>1, WalkerIs
<1>4. export'.at = "blobs" /\ export'.rows = export.rows /\ export'.units = export.units
      /\ export'.unread = unread /\ export'.read = Empty
  BY <1>1, <1>2 DEF World, IsExport
<1>5. \A x \in VersionsOf(store, d) : x = <<d, x[2]>> /\ x \in DOMAIN store.versions
  BY DEF VersionsOf, World, World0, Sound, VersionsFit
<1>6. /\ \A v \in unread : <<d, v[1]>> \in DOMAIN store.versions /\ v[2] = store.versions[<<d, v[1]>>]
      /\ DOMAIN Empty \union {v[1] : v \in unread} = Numbers(store, d)
      /\ DOMAIN Empty = {}
  <2>1. ASSUME NEW v \in unread
        PROVE  <<d, v[1]>> \in DOMAIN store.versions /\ v[2] = store.versions[<<d, v[1]>>]
    <3>1. PICK x \in VersionsOf(store, d) : v = <<x[2], store.versions[x]>>
      OBVIOUS
    <3> QED
      BY <1>5, <3>1
  <2>2. {v[1] : v \in unread} = {x[2] : x \in VersionsOf(store, d)}
    <3>1. ASSUME NEW v \in unread PROVE v[1] \in {x[2] : x \in VersionsOf(store, d)}
      <4>1. PICK x \in VersionsOf(store, d) : v = <<x[2], store.versions[x]>>
        OBVIOUS
      <4> QED
        BY <4>1
    <3>2. ASSUME NEW x \in VersionsOf(store, d) PROVE x[2] \in {v[1] : v \in unread}
      <4> DEFINE w == <<x[2], store.versions[x]>>
      <4>1. w \in unread /\ w[1] = x[2]
        OBVIOUS
      <4> HIDE DEF unread, w
      <4> QED
        BY <4>1
    <3> HIDE DEF unread
    <3>3. \A n \in {v[1] : v \in unread} : n \in {x[2] : x \in VersionsOf(store, d)}
      BY <3>1
    <3>4. \A n \in {x[2] : x \in VersionsOf(store, d)} : n \in {v[1] : v \in unread}
      BY <3>2
    <3> QED
      BY <3>3, <3>4
  <2>3. DOMAIN Empty = {}
    BY DEF Empty
  <2> QED
    BY <2>1, <2>2, <2>3 DEF Numbers
<1> HIDE DEF unread
<1>7. file.quiet => QuietExport(I, export')
  BY <1>3, <1>4, <1>6 DEF QuietExport
<1> QED
  BY <1>2, <1>3, <1>7 DEF Quiet, IsQuiet, Units, QuietExport

\* and the bytes of each,
LEMMA BlobIsQuiet ==
  ASSUME NEW own, World(own), Walk, Quiet, ReadBlob
  PROVE  Quiet'
<1> DEFINE v == CHOOSE x \in export.unread : \A y \in export.unread : x[1] <= y[1]
           row == Head(export.rows).row
           d == Head(export.rows).id
           rec == [by |-> v[2].by, key |-> v[2].key, src |-> v[2].src, text |-> Source(row, v[2])]
           I == file.image
<1>1. export # Idle /\ export.at = "blobs" /\ export.unread # {}
      /\ export' = [export EXCEPT !.unread = @ \ {v}, !.read = Put(@, v[1], rec)]
      /\ UNCHANGED <<store, bucket, file, shelf>>
  BY DEF ReadBlob, Idle, world
<1>2. \A x \in export.unread : x \in (Nat \ {0}) \X Versions
  BY <1>1 DEF World, IsExport
<1>3. v \in export.unread
  <2> DEFINE N == {x[1] : x \in export.unread}
  <2>1. N \subseteq Nat /\ N # {}
    BY <1>1, <1>2
  <2>2. PICK n \in N : \A m \in N : n <= m
    <3> HIDE DEF N
    <3> QED
      BY <2>1, LeastOf
  <2> QED
    BY <2>2
<1> HIDE DEF v
<1>4. file.quiet => /\ IsQuiet(file) /\ I.store = store /\ I.bucket = bucket /\ QuietExport(I, export)
  BY <1>1, WalkerIs
<1>5. export'.at = "blobs" /\ export'.rows = export.rows /\ export'.units = export.units
      /\ export'.unread = export.unread \ {v} /\ export'.read = Put(export.read, v[1], rec)
  BY <1>1 DEF World, IsExport
<1>6. ASSUME file.quiet PROVE QuietExport(I, export')
  <2>1. /\ \A u \in export.unread : /\ <<d, u[1]>> \in DOMAIN I.store.versions
                                    /\ u[2] = I.store.versions[<<d, u[1]>>]
        /\ DOMAIN export.read \union {u[1] : u \in export.unread} = Numbers(I.store, d)
        /\ \A no \in DOMAIN export.read : FromVersion(I, d, no, export.read[no])
    BY <1>1, <1>4, <1>6 DEF QuietExport
  <2> DEFINE read == Put(export.read, v[1], rec)
  <2>2. /\ DOMAIN read = DOMAIN export.read \union {v[1]}
        /\ \A no \in DOMAIN read : read[no] = IF no = v[1] THEN rec ELSE export.read[no]
    <3> DEFINE F == export.read
    <3> HIDE DEF rec, F
    <3>1. Put(F, v[1], rec) = [z \in DOMAIN F \union {v[1]} |-> IF z = v[1] THEN rec ELSE F[z]]
      BY PutIs
    <3> QED
      BY <3>1 DEF F
  <2>3. FromVersion(I, d, v[1], rec)
    <3>1. <<d, v[1]>> \in DOMAIN I.store.versions /\ v[2] = I.store.versions[<<d, v[1]>>]
      BY <1>3, <2>1
    <3>2. rec.by = v[2].by /\ rec.text = Source(row, v[2])
      OBVIOUS
    <3>3. rec.text # 0 => rec.text = I.bucket[v[2].key]
      BY <1>4, <1>6, <3>2 DEF Source
    <3> HIDE DEF rec
    <3> QED
      BY <3>1, <3>2, <3>3 DEF FromVersion, TextIn
  <2> HIDE DEF rec, read
  <2>4. \A no \in DOMAIN read : FromVersion(I, d, no, read[no])
    BY <2>1, <2>2, <2>3
  <2>5. DOMAIN read \union {u[1] : u \in export.unread \ {v}} = Numbers(I.store, d)
    BY <1>3, <2>1, <2>2
  <2>6. export'.read = read
    BY <1>5 DEF read
  <2> QED
    BY <1>4, <1>5, <1>6, <2>1, <2>4, <2>5, <2>6 DEF QuietExport
<1> QED
  BY <1>1, <1>4, <1>6 DEF Quiet, IsQuiet, Units, QuietExport

\* and the document made of them.
LEMMA EmitIsQuiet ==
  ASSUME NEW own, World(own), Walk, Quiet, EmitDocument
  PROVE  Quiet'
<1> DEFINE unit == [Head(export.rows) EXCEPT !.versions = export.read]
           units == Append(export.units, unit)
           I == file.image
<1>1. export # Idle /\ export.at = "blobs"
  BY DEF EmitDocument, Idle
<1>2. /\ export.rows \in Seq(UnitsOf(own)) /\ export.units \in Seq(UnitsOf(own))
      /\ export.rows # <<>> /\ Len(export.rows) <= export.remaining /\ export.remaining \in Nat
      /\ \A i \in DOMAIN export.rows : export.rows[i].phase = "documents"
      /\ export.read \in Chapters
      /\ \A no \in DOMAIN export.read : export.read[no].key \in Keys(own, <<Head(export.rows).id, no>>)
  BY <1>1 DEF World, IsExport
<1>3. /\ unit \in UnitsOf(own) /\ unit.phase = "documents" /\ unit.versions = export.read
      /\ unit.id = Head(export.rows).id /\ unit.row = Head(export.rows).row
  <2>1. Head(export.rows) \in UnitsOf(own) /\ Head(export.rows).phase = "documents"
    <3>1. 1 \in DOMAIN export.rows /\ Head(export.rows) = export.rows[1]
      BY <1>2
    <3> QED
      BY <1>2, <3>1
  <2> DEFINE head == Head(export.rows)
  <2> HIDE DEF head
  <2>2. head \in UnitsOf(own) /\ unit = [head EXCEPT !.versions = export.read] /\ head.phase = "documents"
        /\ \A no \in DOMAIN export.read : export.read[no].key \in Keys(own, <<head.id, no>>)
    BY <1>2, <2>1 DEF head
  <2> HIDE DEF unit
  <2>3. unit \in FileUnits /\ unit.phase = head.phase /\ unit.row = head.row /\ unit.id = head.id
        /\ unit.versions = export.read
    BY <1>2, <2>2 DEF UnitsOf, FileUnits
  <2> QED
    BY <2>2, <2>3 DEF UnitsOf, IsUnit, head
<1> HIDE DEF unit
<1>4. units \in Seq(UnitsOf(own)) /\ \A u \in ToSet(units) : u \in ToSet(export.units) \/ u = unit
  <2> DEFINE s == export.units
             T == UnitsOf(own)
  <2>1. s \in Seq(T) /\ unit \in T
    BY <1>2, <1>3
  <2> HIDE DEF s, T
  <2>2. /\ Append(s, unit) \in Seq(T) /\ DOMAIN Append(s, unit) = 1..Len(s) + 1 /\ DOMAIN s = 1..Len(s)
        /\ Len(s) \in Nat
        /\ \A i \in 1..Len(s) : Append(s, unit)[i] = s[i]
        /\ Append(s, unit)[Len(s) + 1] = unit
    BY <2>1
  <2>3. \A i \in 1..Len(s) + 1 : i \in 1..Len(s) \/ i = Len(s) + 1
    BY <2>2
  <2> QED
    BY <2>2, <2>3 DEF ToSet, s, T
<1>5. UNCHANGED <<store, bucket>>
  BY DEF EmitDocument, world
<1>6. file.quiet => /\ IsQuiet(file) /\ I.store = store /\ I.bucket = bucket /\ QuietExport(I, export)
  BY <1>1, WalkerIs
<1>7. file.quiet => FromImage(I, unit)
  <2> SUFFICES ASSUME file.quiet PROVE FromImage(I, unit)
    OBVIOUS
  <2>1. Head(export.rows) \in ToSet(export.rows)
    <3>1. 1 \in DOMAIN export.rows /\ Head(export.rows) = export.rows[1]
      BY <1>2
    <3> QED
      BY <3>1 DEF ToSet
  <2>2. FromRow(I, "documents", unit.id, unit.row)
    BY <1>3, <1>6, <2>1 DEF QuietExport
  <2>4. /\ DOMAIN export.read \union {v[1] : v \in export.unread} = Numbers(I.store, unit.id)
        /\ \A no \in DOMAIN export.read : FromVersion(I, unit.id, no, export.read[no])
        /\ export.unread = {}
    BY <1>1, <1>3, <1>6 DEF QuietExport, EmitDocument
  <2>5. DOMAIN export.read = Numbers(I.store, unit.id)
    BY <2>4
  <2> QED
    BY <1>3, <2>2, <2>4, <2>5 DEF FromImage
<1>8. file.quiet => \A u \in ToSet(units) : FromImage(I, u)
  BY <1>4, <1>6, <1>7 DEF QuietExport
<1>9. CASE Len(export.rows) > 1
  <2>1. export' = [export EXCEPT !.at = "versions", !.rows = Tail(@), !.units = units,
                                 !.remaining = @ - 1]
        /\ UNCHANGED <<file, shelf>>
    BY <1>9 DEF EmitDocument, unit
  <2>2. export'.at = "versions" /\ export'.rows = Tail(export.rows) /\ export'.units = units
    BY <1>1, <2>1 DEF World, IsExport
  <2>3. \A u \in ToSet(Tail(export.rows)) : u \in ToSet(export.rows)
    BY <1>2, TailOf DEF ToSet
  <2> HIDE DEF units
  <2>4. file.quiet => QuietExport(I, export')
    BY <1>6, <1>8, <2>2, <2>3 DEF QuietExport
  <2> QED
    BY <1>5, <1>6, <2>1, <2>4 DEF Quiet, IsQuiet, Units, QuietExport
<1>10. CASE ~(Len(export.rows) > 1)
  <2>1. EndOfRows(units, 1, export.last)
    BY <1>10 DEF EmitDocument, unit
  <2>2. 1 <= export.remaining
    BY <1>2
  <2>3. export.last \in BOOLEAN
    BY <1>1 DEF World, IsExport
  <2> HIDE DEF units
  <2> QED
    BY <1>1, <1>4, <1>5, <1>8, <2>1, <2>2, <2>3, EndIsQuiet
<1> QED
  BY <1>9, <1>10

\* A request retires names of documents only.
LEMMA RequestsFitTombs ==
  ASSUME NEW own, World(own), TombsFit(store), Writing
  PROVE  TombsFit(store')
<1> DEFINE Kept0 == \A s \in DOMAIN store'.slug_tombstones :
             \/ s \in DOMAIN store.slug_tombstones /\ store'.slug_tombstones[s] = store.slug_tombstones[s]
             \/ store'.slug_tombstones[s].doc \in Docs
<1>1. Docs \subseteq DOMAIN store'.documents
  <2>1. \A x \in DOMAIN store.versions : store.versions[x].key \in 1..nonce
    BY DEF World, Stored, Keys, Owned
  <2> QED
    BY <2>1, WritingIs DEF World, Request, DocumentsGoOn
<1>2. "slug_tombstones" \in DOMAIN store
  BY TablesAre DEF World, World0, Sound
<1>3. ASSUME store'.slug_tombstones = store.slug_tombstones PROVE Kept0
  BY <1>3
<1>4. ASSUME NEW d \in Docs, NEW slug, store'.slug_tombstones = Retired(slug, d) PROVE Kept0
  <2>1. CASE slug = 0
    BY <1>4, <2>1 DEF Retired
  <2>2. CASE slug # 0
    <3>1. store'.slug_tombstones = Put(store.slug_tombstones, slug, [at |-> clock, doc |-> d])
      BY <1>4, <2>2 DEF Retired
    <3> DEFINE row == [at |-> clock, doc |-> d]
    <3>2. row.doc \in Docs
      OBVIOUS
    <3> HIDE DEF row
    <3>3. store'.slug_tombstones = [z \in DOMAIN store.slug_tombstones \union {slug} |->
                                      IF z = slug THEN row ELSE store.slug_tombstones[z]]
      BY <3>1, PutIs DEF row
    <3> QED
      BY <3>2, <3>3
  <2> QED
    BY <2>1, <2>2
<1>5. ASSUME \E a \in 1..2 : Enrol(a) PROVE Kept0
  BY <1>3, <1>5 DEF Enrol, Write
<1>6. ASSUME \E c \in DOMAIN store.oauth_clients : Rebind(c, c + 10) PROVE Kept0
  BY <1>3, <1>6 DEF Rebind, Write
<1>7. ASSUME \E a \in DOMAIN store.agents : Publish(Cardinality(Docs) + 1, a) PROVE Kept0
  BY <1>3, <1>7 DEF Publish, Write
<1>8. ASSUME \E d \in Docs : Update(d) \/ Promote(d) \/ Revoke(d) PROVE Kept0
  <2>1. PICK d \in Docs : Update(d) \/ Promote(d) \/ Revoke(d)
    BY <1>8
  <2>2. CASE Update(d) \/ Promote(d)
    <3>1. store'.slug_tombstones = store.slug_tombstones
      <4>1. CASE Update(d)
        BY <1>2, <4>1 DEF Update, Write
      <4>2. CASE Promote(d)
        BY <1>2, <4>2 DEF Promote, Write
      <4> QED
        BY <2>2, <4>1, <4>2
    <3> QED
      BY <1>3, <3>1
  <2>3. CASE Revoke(d)
    <3>1. store'.slug_tombstones = Retired(store.documents[d].slug, d)
      BY <1>2, <2>3 DEF Revoke, Write
    <3> QED
      BY <1>4, <2>1, <3>1
  <2> QED
    BY <2>1, <2>2, <2>3
<1>9. ASSUME \E d \in Docs, slug \in 1..3 : Rename(d, slug) PROVE Kept0
  <2>1. PICK d \in Docs, slug \in 1..3 : Rename(d, slug)
    BY <1>9
  <2>2. store'.slug_tombstones = Retired(store.documents[d].slug, d)
    BY <1>2, <2>1 DEF Rename, Write
  <2> QED
    BY <1>4, <2>1, <2>2
<1>10. ASSUME \E slug \in DOMAIN store.slug_tombstones : Release(slug) PROVE Kept0
  <2>1. PICK slug \in DOMAIN store.slug_tombstones : Release(slug)
    BY <1>10
  <2>2. store'.slug_tombstones = Without(store.slug_tombstones, {slug})
    BY <1>2, <2>1 DEF Release, Write
  <2>3. \A s \in DOMAIN store'.slug_tombstones :
          s \in DOMAIN store.slug_tombstones /\ store'.slug_tombstones[s] = store.slug_tombstones[s]
    BY <2>2 DEF Without
  <2> QED
    BY <2>3
<1>11. Kept0
  BY <1>5, <1>6, <1>7, <1>8, <1>9, <1>10 DEF Writing
<1> HIDE DEF Kept0
<1> QED
  BY <1>1, <1>11 DEF Kept0, TombsFit, Docs

\* A request ends the quiet.
LEMMA RequestsAreLoud ==
  ASSUME NEW own, World(own), Quiet, Writing
  PROVE  Quiet'
<1>1. file'.quiet = FALSE /\ shelf' = shelf
  <2>1. ASSUME NEW kind, NEW st, NEW lost, NEW minted, Write(kind, st, lost, minted)
        PROVE  file'.quiet = FALSE /\ shelf' = shelf
    BY <2>1 DEF Write, World, Remembered
  <2> QED
    BY <2>1 DEF Writing, Enrol, Rebind, Publish, Update, Promote, Revoke, Rename, Release
<1>2. TombsFit(store')
  BY RequestsFitTombs DEF Quiet
<1> QED
  BY <1>1, <1>2 DEF Quiet, IsQuiet, Units

\* What D1 takes of a restore keeps each tombstone's document.
LEMMA ApplyingFitsTombs ==
  ASSUME NEW own, World(own), TombsFit(store), Applying
  PROVE  TombsFit(store')
<1>1. CASE store'.slug_tombstones = store.slug_tombstones /\ Docs \subseteq DOMAIN store'.documents
  BY <1>1 DEF TombsFit, Docs
<1>2. CASE ApplyRow
  <2>1. CASE RowApplied
    <3>0. AtItem(Phases \ {"documents"})
      BY <1>2 DEF ApplyRow
    <3>1. store'.documents = store.documents
          /\ (Item.kind = "slug_tombstones" \/ store'.slug_tombstones = store.slug_tombstones)
      BY <2>1, <3>0, RowAppliedIs
    <3>2. CASE Item.kind = "slug_tombstones"
      <4>1. Item.row.doc \in Docs \union {0}
        BY <2>1, <3>2 DEF RowApplied, Fits
      <4>2. store'.slug_tombstones = Put(store.slug_tombstones, Item.id, Item.row)
        <5>1. "slug_tombstones" \in DOMAIN store
          BY TablesAre DEF World, World0, Sound
        <5> QED
          BY <2>1, <3>2, <5>1 DEF RowApplied
      <4>3. store'.slug_tombstones = [z \in DOMAIN store.slug_tombstones \union {Item.id} |->
                                        IF z = Item.id THEN Item.row ELSE store.slug_tombstones[z]]
        BY <4>2, PutIs
      <4> QED
        BY <3>1, <4>1, <4>3 DEF TombsFit, Docs
    <3> QED
      BY <1>1, <3>1, <3>2 DEF Docs
  <2>2. CASE UNCHANGED store
    BY <1>1, <2>2 DEF Docs
  <2> QED
    BY <1>2, <2>1, <2>2 DEF ApplyRow, RowApplied
<1>3. CASE CommitUnit
  <2>1. AtItem({"documents", "versions"}) /\ Unput = {}
    BY <1>3 DEF CommitUnit
  <2>2. CASE Fits(Item) /\ store' = UnitStore
    <3>1. /\ store'.slug_tombstones = store.slug_tombstones
          /\ Item.kind = "versions" => store'.documents = store.documents
          /\ Item.kind = "documents" => store'.documents = Put(store.documents, Item.id, Item.row)
      BY <2>1, <2>2, UnitStoreIs
    <3>2. DOMAIN Put(store.documents, Item.id, Item.row) = DOMAIN store.documents \union {Item.id}
      BY PutIs
    <3>3. Docs \subseteq DOMAIN store'.documents
      BY <2>1, <3>1, <3>2 DEF Docs, AtItem
    <3> QED
      BY <1>1, <3>1, <3>3
  <2>3. CASE UNCHANGED store
    BY <1>1, <2>3 DEF Docs
  <2> QED
    BY <1>3, <2>2, <2>3 DEF CommitUnit
<1>4. CASE PutBlobs \/ PurgeOld \/ DeriveRead \/ Report \/ Crash
  <2>1. UNCHANGED store
    BY <1>4 DEF PutBlobs, PurgeOld, DeriveRead, DeriveFails, Report, Crash, world
  <2> QED
    BY <1>1, <2>1 DEF Docs
<1>5. CASE DeriveWrite
  <2>1. store' = [store EXCEPT !.documents_fts = Put(@, Item.id, restore.text)] \/ UNCHANGED store
    BY <1>5 DEF DeriveWrite, DeriveFails
  <2>2. store'.slug_tombstones = store.slug_tombstones /\ store'.documents = store.documents
    BY <2>1, TablesAre DEF World, World0, Sound
  <2> QED
    BY <1>1, <2>2 DEF Docs
<1> QED
  BY <1>2, <1>3, <1>4, <1>5 DEF Applying

\* A body is submitted, for some file.
LEMMA SubmittedIs ==
  ASSUME Submitting
  PROVE  \E f \in ToSet(shelf), replace \in BOOLEAN :
           \E units \in IF budget.drill THEN ToSet(f.pages) ELSE Pieces(f) :
             \E refused : Submit(f, units, replace, refused)
<1>1. PICK f \in ToSet(shelf), replace \in BOOLEAN :
        \E units \in IF budget.drill THEN ToSet(f.pages) ELSE Pieces(f) :
          \E refused \in {{}} \union {{x} : x \in VersionsIn(units)} :
            Submit(f, units, replace, refused)
  BY DEF Submitting
<1>2. PICK units \in IF budget.drill THEN ToSet(f.pages) ELSE Pieces(f) :
        \E refused \in {{}} \union {{x} : x \in VersionsIn(units)} :
          Submit(f, units, replace, refused)
  BY <1>1
<1>3. \E refused : Submit(f, units, replace, refused)
  BY <1>2
<1> QED
  BY <1>3

\* A restore leaves the files alone, and runs beside no walk.
LEMMA FilesRest ==
  ASSUME NEW own, World(own), Walk, Lose \/ Submitting \/ Applying
  PROVE  UNCHANGED <<export, file, shelf>> /\ file.cursor = Done
<1>1. CASE Lose
  BY <1>1 DEF Lose
<1>2. CASE Submitting
  <2>1. PICK f, units, replace, refused : Submit(f, units, replace, refused)
    <3>1. PICK f \in ToSet(shelf), replace \in BOOLEAN :
            \E units \in IF budget.drill THEN ToSet(f.pages) ELSE Pieces(f) :
              \E refused : Submit(f, units, replace, refused)
      BY <1>2, SubmittedIs
    <3>2. PICK units : \E refused : Submit(f, units, replace, refused)
      BY <3>1
    <3> QED
      BY <3>2
  <2> QED
    BY <2>1 DEF Submit
<1>3. CASE Applying
  <2>1. UNCHANGED <<export, file, shelf>>
    BY <1>3 DEF Applying, ApplyRow, PutBlobs, CommitUnit, PurgeOld, DeriveRead, DeriveWrite, Report, Crash, world
  <2>2. restore.at # "idle"
    BY <1>3 DEF Applying, ApplyRow, PutBlobs, CommitUnit, PurgeOld, DeriveRead, DeriveWrite,
                Report, Crash, AtItem, Restoring
  <2> QED
    BY <2>1, <2>2 DEF Walk, Restoring
<1> QED
  BY <1>1, <1>2, <1>3

\* Every step keeps what a quiet file says.
LEMMA QuietGoesOn ==
  ASSUME NEW own, World(own), Walk, Quiet, [Next]_vars
  PROVE  Quiet'
<1>1. CASE Writing
  BY <1>1, RequestsAreLoud
<1>2. CASE StartWalk \/ FetchPhase \/ SelectVersions \/ ReadBlob \/ EmitDocument
  BY <1>2, StartIsQuiet, FetchIsQuiet, VersionsAreQuiet, BlobIsQuiet, EmitIsQuiet
<1>3. CASE \E raw \in budget.limits : RequestPage(raw)
  <2>1. PICK raw \in budget.limits : RequestPage(raw)
    BY <1>3
  <2>2. /\ export' = [at |-> "fetch", cursor |-> file.cursor, remaining |-> parseBackupLimit(raw),
                      rows |-> <<>>, last |-> FALSE, unread |-> {}, read |-> Empty, units |-> <<>>]
        /\ UNCHANGED <<store, bucket, file, shelf>>
    BY <2>1 DEF RequestPage, world
  <2>3. ToSet(<<>>) = {}
    BY DEF ToSet
  <2>4. QuietExport(file.image, export')
    BY <2>2, <2>3 DEF QuietExport
  <2> QED
    BY <2>2, <2>4 DEF Quiet, IsQuiet, Units, QuietExport
<1>4. CASE CutPage
  <2>1. export' = Idle /\ UNCHANGED <<store, bucket, file, shelf>>
    BY <1>4 DEF CutPage, world
  <2>2. ~Exporting'
    BY <2>1 DEF Idle, Exporting
  <2> QED
    BY <2>1, <2>2 DEF Quiet, IsQuiet, Units
<1>5. CASE Tick \/ UNCHANGED vars
  <2>1. UNCHANGED <<store, bucket, file, shelf, export>>
    BY <1>5 DEF Tick, vars
  <2> QED
    BY <2>1 DEF Quiet, IsQuiet, Units, QuietExport, Exporting
<1>6. CASE Lose \/ Submitting \/ Applying
  <2>1. UNCHANGED <<export, file, shelf>> /\ file.cursor = Done
    BY <1>6, FilesRest
  <2>2. TombsFit(store')
    <3>1. CASE Lose
      BY <3>1, TablesAre DEF Lose, EmptyStore, Empty, TombsFit
    <3>2. CASE Submitting
      <4>1. store' = store
        BY <3>2, SubmittingIs DEF world
      <4> QED
        BY <4>1 DEF Quiet
    <3> QED
      BY <1>6, <3>1, <3>2, ApplyingFitsTombs DEF Quiet
  <2> QED
    BY <2>1, <2>2 DEF Quiet, IsQuiet, Units
<1> QED
  BY <1>1, <1>2, <1>3, <1>4, <1>5, <1>6 DEF Next, Walking

\* At first there are no files.
LEMMA QuietAtFirst ==
  ASSUME Init
  PROVE  Quiet
<1>1. PICK b \in Budgets : store = b.start /\ file = NoFile /\ shelf = <<>>
  BY DEF Init
<1>2. TombsFit(store)
  BY <1>1, BackupAssumption DEF IsBudget, TombsFit
<1>3. ToSet(shelf) = {} /\ file.cursor = Done
  BY <1>1 DEF ToSet, NoFile
<1> QED
  BY <1>2, <1>3 DEF Quiet

-----------------------------------------------------------------------------
(* What a plan has, by kind.                                               *)

IsList(s) == \E T : s \in Seq(T)

\* A list joined to another has the elements of both.
LEMMA JoinLists ==
  ASSUME NEW s, NEW t, IsList(s), IsList(t)
  PROVE  IsList(s \o t) /\ \A x : x \in ToSet(s \o t) <=> x \in ToSet(s) \/ x \in ToSet(t)
<1>1. PICK S : s \in Seq(S)
  BY DEF IsList
<1>2. PICK T : t \in Seq(T)
  BY DEF IsList
<1> DEFINE U == S \union T
<1>3. s \in Seq(U) /\ t \in Seq(U)
  BY <1>1, <1>2
<1> HIDE DEF U
<1> QED
  BY <1>3, JoinSet DEF IsList

\* A list made from another, place by place.
LEMMA MappedList ==
  ASSUME NEW s, IsList(s), NEW m, DOMAIN m = DOMAIN s, m = [i \in DOMAIN s |-> m[i]]
  PROVE  IsList(m)
<1>1. PICK S : s \in Seq(S)
  BY DEF IsList
<1> DEFINE T == {m[i] : i \in DOMAIN s}
           n == Len(s)
<1>2. DOMAIN s = 1..n /\ n \in Nat
  BY <1>1
<1>3. m \in [1..n -> T]
  BY <1>2
<1> HIDE DEF T, n
<1>4. m \in Seq(T)
  BY <1>2, <1>3
<1> QED
  BY <1>4 DEF IsList

\* A filtered list has the elements of both its list and its set.
LEMMA SievedList ==
  ASSUME NEW s, IsList(s), NEW S
  PROVE  IsList(Kept(s, S)) /\ \A x : x \in ToSet(Kept(s, S)) <=> x \in ToSet(s) /\ x \in S
<1>1. PICK T : s \in Seq(T)
  BY DEF IsList
<1> QED
  BY <1>1, KeptSet DEF IsList

\* The tombstone a plan writes.
TombOf(q, u) ==
  [RowItem(u) EXCEPT !.row.doc = IF @ \in DOMAIN q.st.documents \union Ids(q, "documents") THEN @ ELSE 0]
IsItem(q, x) ==
  \/ \E u \in ToSet(q.units) : u.phase \in Plain /\ Writes(RowPlan(q, u)) /\ x = RowItem(u)
  \/ \E p \in ToSet(planDocuments(q)) : Writes(p.act) /\ x = DocumentItem(p)
  \/ \E p \in ToSet(planDocuments(q)) :
       /\ p.act = "skip" /\ WritesOf(p.versions) # Empty
       /\ x = VersionsItem(q, p.id, p.versions)
  \/ \E u \in ToSet(q.units) :
       u.phase = "slug_tombstones" /\ Writes(planTombstone(q, u)) /\ x = TombOf(q, u)

\* The items of a plan are the rows, documents, versions and tombstones it writes.
LEMMA ItemsByKind ==
  ASSUME NEW q, IsList(q.units), \A u \in ToSet(q.units) : u.phase \in Phases,
         IsList(planDocuments(q))
  PROVE  \A x : x \in ToSet(Items(q)) <=> IsItem(q, x)
<1> DEFINE docs == planDocuments(q)
           WrittenOf(phase) == LET of == Of(q, phase) IN Kept(of, {u \in ToSet(of) : Writes(RowPlan(q, u))})
           RowsOf(phase) == [i \in DOMAIN WrittenOf(phase) |-> RowItem(WrittenOf(phase)[i])]
           stones == Of(q, "slug_tombstones")
           units == Kept(docs, {p \in ToSet(docs) : Writes(p.act)})
           gaining == Kept(docs, {p \in ToSet(docs) : p.act = "skip" /\ WritesOf(p.versions) # Empty})
           lone == Kept(Of(q, "versions"), {u \in ToSet(q.units) : u.id \in DOMAIN q.st.documents})
           tombs == Kept(stones, {u \in ToSet(stones) : Writes(planTombstone(q, u))})
           A == [i \in DOMAIN units |-> DocumentItem(units[i])]
           B == [i \in DOMAIN lone |-> VersionsItem(q, lone[i].id, planLoose(q, lone[i]))]
           C == [i \in DOMAIN gaining |-> VersionsItem(q, gaining[i].id, gaining[i].versions)]
           D == [i \in DOMAIN tombs |-> TombOf(q, tombs[i])]
<1>1. Items(q) = RowsOf("agents") \o RowsOf("agent_keys") \o RowsOf("oauth_clients") \o A \o B \o C \o D
  BY DEF Items, TombOf
<1>2. ASSUME NEW phase
      PROVE  /\ IsList(Of(q, phase))
             /\ \A u : u \in ToSet(Of(q, phase)) <=> u \in ToSet(q.units) /\ u.phase = phase
  <2> DEFINE S == {u \in ToSet(q.units) : u.phase = phase}
  <2>1. Of(q, phase) = Kept(q.units, S)
    BY DEF Of
  <2>2. \A u : u \in S <=> u \in ToSet(q.units) /\ u.phase = phase
    OBVIOUS
  <2> HIDE DEF S
  <2>3. IsList(Kept(q.units, S)) /\ \A x : x \in ToSet(Kept(q.units, S)) <=> x \in ToSet(q.units) /\ x \in S
    BY SievedList
  <2> QED
    BY <2>1, <2>2, <2>3
<1>3. ASSUME NEW phase
      PROVE  /\ IsList(WrittenOf(phase))
             /\ \A u : u \in ToSet(WrittenOf(phase)) <=>
                         u \in ToSet(q.units) /\ u.phase = phase /\ Writes(RowPlan(q, u))
  <2> DEFINE of == Of(q, phase)
             S == {u \in ToSet(of) : Writes(RowPlan(q, u))}
  <2>1. WrittenOf(phase) = Kept(of, S)
    OBVIOUS
  <2>2. \A u : u \in S <=> u \in ToSet(of) /\ Writes(RowPlan(q, u))
    OBVIOUS
  <2>3. IsList(of) /\ \A u : u \in ToSet(of) <=> u \in ToSet(q.units) /\ u.phase = phase
    BY <1>2
  <2> HIDE DEF S, of, WrittenOf
  <2>4. IsList(Kept(of, S)) /\ \A x : x \in ToSet(Kept(of, S)) <=> x \in ToSet(of) /\ x \in S
    BY <2>3, SievedList
  <2> QED
    BY <2>1, <2>2, <2>3, <2>4
<1>4. IsList(units) /\ \A p : p \in ToSet(units) <=> p \in ToSet(docs) /\ Writes(p.act)
  <2> DEFINE S == {p \in ToSet(docs) : Writes(p.act)}
  <2>1. \A p : p \in S <=> p \in ToSet(docs) /\ Writes(p.act)
    OBVIOUS
  <2> HIDE DEF S
  <2>2. IsList(Kept(docs, S)) /\ \A x : x \in ToSet(Kept(docs, S)) <=> x \in ToSet(docs) /\ x \in S
    BY SievedList
  <2> QED
    BY <2>1, <2>2 DEF S
<1>5. IsList(gaining) /\ \A p : p \in ToSet(gaining) <=>
                                  p \in ToSet(docs) /\ p.act = "skip" /\ WritesOf(p.versions) # Empty
  <2> DEFINE S == {p \in ToSet(docs) : p.act = "skip" /\ WritesOf(p.versions) # Empty}
  <2>1. \A p : p \in S <=> p \in ToSet(docs) /\ p.act = "skip" /\ WritesOf(p.versions) # Empty
    OBVIOUS
  <2> HIDE DEF S
  <2>2. IsList(Kept(docs, S)) /\ \A x : x \in ToSet(Kept(docs, S)) <=> x \in ToSet(docs) /\ x \in S
    BY SievedList
  <2> QED
    BY <2>1, <2>2 DEF S
<1>6. IsList(lone) /\ ToSet(lone) = {}
  <2> DEFINE S == {u \in ToSet(q.units) : u.id \in DOMAIN q.st.documents}
             of == Of(q, "versions")
  <2>1. IsList(of) /\ \A u : u \in ToSet(of) <=> u \in ToSet(q.units) /\ u.phase = "versions"
    BY <1>2
  <2>2. "versions" \notin Phases
    BY PhasesAre
  <2> HIDE DEF S, of
  <2>3. IsList(Kept(of, S)) /\ \A x : x \in ToSet(Kept(of, S)) <=> x \in ToSet(of) /\ x \in S
    BY <2>1, SievedList
  <2>4. lone = Kept(of, S)
    BY DEF of, S
  <2> HIDE DEF lone
  <2>5. \A x : x \notin ToSet(lone)
    BY <2>1, <2>2, <2>3, <2>4
  <2> QED
    BY <2>3, <2>4, <2>5
<1>7. IsList(tombs) /\ \A u : u \in ToSet(tombs) <=> /\ u \in ToSet(q.units) /\ u.phase = "slug_tombstones"
                                                     /\ Writes(planTombstone(q, u))
  <2> DEFINE S == {u \in ToSet(stones) : Writes(planTombstone(q, u))}
  <2>1. \A u : u \in S <=> u \in ToSet(stones) /\ Writes(planTombstone(q, u))
    OBVIOUS
  <2>2. IsList(stones) /\ \A u : u \in ToSet(stones) <=> u \in ToSet(q.units) /\ u.phase = "slug_tombstones"
    BY <1>2
  <2> HIDE DEF S, stones
  <2>3. IsList(Kept(stones, S)) /\ \A x : x \in ToSet(Kept(stones, S)) <=> x \in ToSet(stones) /\ x \in S
    BY <2>2, SievedList
  <2>4. tombs = Kept(stones, S)
    BY DEF S
  <2> HIDE DEF tombs
  <2> QED
    BY <2>1, <2>2, <2>3, <2>4
<1> HIDE DEF docs, units, gaining, lone, tombs, stones, WrittenOf
<1>8. ASSUME NEW phase
      PROVE  IsList(RowsOf(phase)) /\ \A x : x \in ToSet(RowsOf(phase)) <=>
               \E u \in ToSet(WrittenOf(phase)) : x = RowItem(u)
  <2>1. IsList(RowsOf(phase))
    <3> DEFINE m == RowsOf(phase)
               s == WrittenOf(phase)
    <3>1. IsList(s) /\ DOMAIN m = DOMAIN s /\ m = [i \in DOMAIN s |-> m[i]]
      BY <1>3
    <3> HIDE DEF m, s
    <3>2. IsList(m)
      BY <3>1, MappedList
    <3> QED
      BY <3>2 DEF m
  <2> QED
    BY <2>1 DEF ToSet
<1>9. IsList(A) /\ \A x : x \in ToSet(A) <=> \E p \in ToSet(units) : x = DocumentItem(p)
  <2>1. DOMAIN A = DOMAIN units /\ A = [i \in DOMAIN units |-> A[i]]
    OBVIOUS
  <2>2. IsList(A)
    <3> HIDE DEF A
    <3> QED
      BY <1>4, <2>1, MappedList
  <2> QED
    BY <2>2 DEF ToSet
<1>10. IsList(B) /\ \A x : x \notin ToSet(B)
  <2>1. DOMAIN B = DOMAIN lone /\ B = [i \in DOMAIN lone |-> B[i]]
    OBVIOUS
  <2> HIDE DEF B
  <2>2. IsList(B)
    BY <1>6, <2>1, MappedList
  <2>3. DOMAIN lone = {}
    BY <1>6 DEF ToSet
  <2> QED
    BY <2>1, <2>2, <2>3 DEF ToSet
<1>11. IsList(C) /\ \A x : x \in ToSet(C) <=> \E p \in ToSet(gaining) : x = VersionsItem(q, p.id, p.versions)
  <2>1. DOMAIN C = DOMAIN gaining /\ C = [i \in DOMAIN gaining |-> C[i]]
    OBVIOUS
  <2>2. IsList(C)
    <3> HIDE DEF C
    <3> QED
      BY <1>5, <2>1, MappedList
  <2> QED
    BY <2>2 DEF ToSet
<1>12. IsList(D) /\ \A x : x \in ToSet(D) <=> \E u \in ToSet(tombs) : x = TombOf(q, u)
  <2>1. DOMAIN D = DOMAIN tombs /\ D = [i \in DOMAIN tombs |-> D[i]]
    OBVIOUS
  <2>2. IsList(D)
    <3> HIDE DEF D
    <3> QED
      BY <1>7, <2>1, MappedList
  <2> QED
    BY <2>2 DEF ToSet
<1> DEFINE R1 == RowsOf("agents")
           R2 == RowsOf("agent_keys")
           R3 == RowsOf("oauth_clients")
<1>13. IsList(R1) /\ IsList(R2) /\ IsList(R3)
  BY <1>8
<1>14. \A x : x \in ToSet(R1) \/ x \in ToSet(R2) \/ x \in ToSet(R3) <=>
              \E u \in ToSet(q.units) : u.phase \in Plain /\ Writes(RowPlan(q, u)) /\ x = RowItem(u)
  BY <1>3, <1>8 DEF Plain
<1> HIDE DEF R1, R2, R3, A, B, C, D, RowsOf
<1> DEFINE J2 == R1 \o R2
           J3 == J2 \o R3
           J4 == J3 \o A
           J5 == J4 \o B
           J6 == J5 \o C
           J7 == J6 \o D
<1>15. Items(q) = J7
  BY <1>1 DEF R1, R2, R3
<1> HIDE DEF J2, J3, J4, J5, J6, J7
<1>16. IsList(J2) /\ \A x : x \in ToSet(J2) <=> x \in ToSet(R1) \/ x \in ToSet(R2)
  BY <1>13, JoinLists DEF J2
<1>17. IsList(J3) /\ \A x : x \in ToSet(J3) <=> x \in ToSet(J2) \/ x \in ToSet(R3)
  BY <1>13, <1>16, JoinLists DEF J3
<1>18. IsList(J4) /\ \A x : x \in ToSet(J4) <=> x \in ToSet(J3) \/ x \in ToSet(A)
  BY <1>9, <1>17, JoinLists DEF J4
<1>19. IsList(J5) /\ \A x : x \in ToSet(J5) <=> x \in ToSet(J4) \/ x \in ToSet(B)
  BY <1>10, <1>18, JoinLists DEF J5
<1>20. IsList(J6) /\ \A x : x \in ToSet(J6) <=> x \in ToSet(J5) \/ x \in ToSet(C)
  BY <1>11, <1>19, JoinLists DEF J6
<1>21. IsList(J7) /\ \A x : x \in ToSet(J7) <=> x \in ToSet(J6) \/ x \in ToSet(D)
  BY <1>12, <1>20, JoinLists DEF J7
<1>22. \A x : x \in ToSet(J7) <=>
         \/ x \in ToSet(R1) \/ x \in ToSet(R2) \/ x \in ToSet(R3)
         \/ x \in ToSet(A) \/ x \in ToSet(C) \/ x \in ToSet(D)
  BY <1>10, <1>16, <1>17, <1>18, <1>19, <1>20, <1>21
<1>23. \A x : x \in ToSet(A) <=> \E p \in ToSet(planDocuments(q)) : Writes(p.act) /\ x = DocumentItem(p)
  BY <1>4, <1>9 DEF docs
<1>24. \A x : x \in ToSet(C) <=> \E p \in ToSet(planDocuments(q)) :
                 /\ p.act = "skip" /\ WritesOf(p.versions) # Empty
                 /\ x = VersionsItem(q, p.id, p.versions)
  BY <1>5, <1>11 DEF docs
<1>25. \A x : x \in ToSet(D) <=> \E u \in ToSet(q.units) :
                 u.phase = "slug_tombstones" /\ Writes(planTombstone(q, u)) /\ x = TombOf(q, u)
  BY <1>7, <1>12
<1> QED
  BY <1>14, <1>15, <1>22, <1>23, <1>24, <1>25 DEF IsItem

\* The plans of a page, in turn: each knows the names that earlier ones will hold.
InPlanOrder(docs, plans, q) ==
  /\ DOMAIN plans = DOMAIN docs
  /\ \A k \in DOMAIN docs : \E held :
       /\ plans[k] = planDocument(q, docs[k], held)
       /\ \A s \in held : \E j \in DOMAIN docs :
            j < k /\ Writes(plans[j].act) /\ plans[j].row.slug = s

\* The plans of a page are made in turn.
LEMMA PlansInTurn ==
  ASSUME NEW q, NEW U, q.units \in Seq(U)
  PROVE  IsList(planDocuments(q)) /\ InPlanOrder(Of(q, "documents"), planDocuments(q), q)
<1> DEFINE docs == Of(q, "documents")
           N == Len(docs)
           Step(f, k) == Append(f[k - 1], planDocument(q, docs[k], HeldBy(f[k - 1])))
           Is(f, n) == f = [k \in 0..n |-> IF k = 0 THEN <<>> ELSE Step(f, k)]
           S == {n \in Nat : \E f : Is(f, n)}
<1>1. docs \in Seq(U) /\ \A u \in ToSet(docs) : u \in U /\ u.phase = "documents"
  BY OfIsOfList
<1>2. N \in Nat
  BY <1>1
<1> HIDE DEF docs, N
<1>3. 0 \in S
  <2> DEFINE f == [k \in 0..0 |-> <<>>]
  <2>1. f = [k \in 0..0 |-> IF k = 0 THEN <<>> ELSE Step(f, k)]
    OBVIOUS
  <2> QED
    BY <2>1
<1>4. ASSUME NEW n \in Nat, n \in S PROVE n + 1 \in S
  <2>1. PICK f : Is(f, n)
    BY <1>4
  <2> DEFINE g == [k \in 0..n + 1 |-> IF k = n + 1 THEN Append(f[n], planDocument(q, docs[n + 1], HeldBy(f[n])))
                                      ELSE f[k]]
  <2>2. \A k \in 0..n : g[k] = f[k]
    OBVIOUS
  <2>3. ASSUME NEW k \in 0..n + 1 PROVE g[k] = IF k = 0 THEN <<>> ELSE Step(g, k)
    <3>1. CASE k = n + 1
      <4>1. g[k] = Append(f[n], planDocument(q, docs[n + 1], HeldBy(f[n])))
        BY <3>1
      <4>2. g[k - 1] = f[n] /\ k # 0
        BY <3>1, <2>2
      <4> HIDE DEF g
      <4> QED
        BY <3>1, <4>1, <4>2
    <3>2. CASE k \in 1..n
      <4>1. g[k] = f[k] /\ g[k - 1] = f[k - 1] /\ k # 0
        BY <2>2, <3>2
      <4>2. f[k] = Step(f, k)
        <5>1. k \in 0..n /\ k # 0
          BY <3>2
        <5>2. f[k] = IF k = 0 THEN <<>> ELSE Step(f, k)
          BY <2>1, <5>1, Zenon
        <5> QED
          BY <5>1, <5>2, Zenon
      <4> HIDE DEF g
      <4> QED
        BY <4>1, <4>2
    <3>3. CASE k = 0
      <4>1. g[0] = f[0] /\ f[0] = <<>>
        BY <2>1, <2>2
      <4> QED
        BY <3>3, <4>1
    <3> QED
      BY <3>1, <3>2, <3>3
  <2>4. g = [k \in 0..n + 1 |-> g[k]]
    OBVIOUS
  <2> HIDE DEF g
  <2>5. Is(g, n + 1)
    BY <2>3, <2>4
  <2> HIDE DEF Is
  <2> QED
    BY <2>5
<1>5. N \in S
  <2> HIDE DEF S
  <2> QED
    BY <1>2, <1>3, <1>4, Inductive
<1> DEFINE plans == CHOOSE f : Is(f, N)
<1>6. Is(plans, N)
  BY <1>5
<1>7. planDocuments(q) = plans[N]
  BY DEF planDocuments, docs, N
<1> HIDE DEF plans
<1> DEFINE T == {planDocument(q, docs[k], HeldBy(plans[k - 1])) : k \in 1..N}
           Good(n) == /\ plans[n] \in Seq(T) /\ Len(plans[n]) = n
                      /\ \A k \in 1..n : plans[n][k] = planDocument(q, docs[k], HeldBy(plans[k - 1]))
           R == {n \in Nat : n <= N => Good(n)}
<1>8. 0 \in R
  <2>1. plans[0] = <<>>
    <3>1. 0 \in 0..N
      BY <1>2
    <3>2. plans[0] = IF 0 = 0 THEN <<>> ELSE Step(plans, 0)
      BY <1>6, <3>1, Zenon
    <3> QED
      BY <3>2
  <2> HIDE DEF T
  <2>2. <<>> \in Seq(T) /\ Len(<<>>) = 0 /\ 1..0 = {}
    OBVIOUS
  <2>3. Good(0)
    BY <2>1, <2>2
  <2> HIDE DEF Good
  <2> QED
    BY <2>3
<1>9. ASSUME NEW n \in Nat, n \in R PROVE n + 1 \in R
  <2> SUFFICES ASSUME n + 1 <= N PROVE Good(n + 1)
    OBVIOUS
  <2>1. Good(n)
    BY <1>2, <1>9
  <2> DEFINE p == planDocument(q, docs[n + 1], HeldBy(plans[n]))
             old == plans[n]
             new == plans[n + 1]
  <2>2. new = Append(old, p)
    <3>1. n + 1 \in 0..N /\ n + 1 # 0 /\ n + 1 - 1 = n
      BY <1>2
    <3>2. plans[n + 1] = IF n + 1 = 0 THEN <<>> ELSE Step(plans, n + 1)
      BY <1>6, <3>1, Zenon
    <3>3. plans[n + 1] = Step(plans, n + 1)
      BY <3>1, <3>2, Zenon
    <3> QED
      BY <3>1, <3>3
  <2>3. p \in T /\ p = planDocument(q, docs[n + 1], HeldBy(plans[(n + 1) - 1]))
    <3>1. n + 1 \in 1..N /\ n = (n + 1) - 1
      BY <1>2
    <3> QED
      BY <3>1
  <2>4. old \in Seq(T) /\ Len(old) = n
        /\ \A k \in 1..n : old[k] = planDocument(q, docs[k], HeldBy(plans[k - 1]))
    BY <2>1
  <2> HIDE DEF T, p, old, new
  <2>5. new \in Seq(T) /\ Len(new) = n + 1 /\ new[n + 1] = p /\ \A k \in 1..n : new[k] = old[k]
    BY <2>2, <2>3, <2>4
  <2>6. \A k \in 1..n + 1 : k \in 1..n \/ k = n + 1
    OBVIOUS
  <2>7. \A k \in 1..n + 1 : new[k] = planDocument(q, docs[k], HeldBy(plans[k - 1]))
    BY <2>3, <2>4, <2>5, <2>6
  <2> QED
    BY <2>5, <2>7 DEF new
<1> HIDE DEF T
<1>10. \A n \in Nat : n \in R
  <2> HIDE DEF R
  <2> QED
    BY <1>8, <1>9, Inductive
<1>11. \A n \in 0..N : Good(n)
  BY <1>2, <1>10
<1> DEFINE last == planDocuments(q)
<1>12. last \in Seq(T) /\ Len(last) = N
       /\ \A k \in 1..N : last[k] = planDocument(q, docs[k], HeldBy(plans[k - 1]))
  BY <1>2, <1>7, <1>11
<1>13. DOMAIN last = 1..N /\ DOMAIN docs = 1..N
  BY <1>1, <1>12 DEF N
<1>14. ASSUME NEW k \in 1..N, NEW s \in HeldBy(plans[k - 1])
       PROVE  \E j \in 1..N : j < k /\ Writes(last[j].act) /\ last[j].row.slug = s
  <2> DEFINE m == k - 1
             some == plans[m]
  <2>1. m \in 0..N /\ k = m + 1
    BY <1>2
  <2>2. Good(m)
    BY <1>11, <2>1
  <2>3. PICK p \in ToSet(some) : Writes(p.act) /\ p.row.slug = s
    BY DEF HeldBy
  <2>4. some \in Seq(T) /\ Len(some) = m
        /\ \A j \in 1..m : some[j] = planDocument(q, docs[j], HeldBy(plans[j - 1]))
    BY <2>2
  <2> HIDE DEF some, m
  <2>5. DOMAIN some = 1..m
    BY <2>4
  <2>6. PICK j \in 1..m : p = some[j]
    BY <2>3, <2>5 DEF ToSet
  <2>7. j \in 1..N /\ j < k
    BY <1>2, <2>1, <2>6
  <2>8. last[j] = some[j]
    BY <1>12, <2>4, <2>7
  <2> QED
    BY <2>3, <2>6, <2>7, <2>8
<1>15. ASSUME NEW k \in DOMAIN docs
       PROVE  \E held : /\ last[k] = planDocument(q, docs[k], held)
                        /\ \A s \in held : \E j \in DOMAIN docs :
                             j < k /\ Writes(last[j].act) /\ last[j].row.slug = s
  <2> DEFINE held == HeldBy(plans[k - 1])
  <2>1. k \in 1..N /\ last[k] = planDocument(q, docs[k], held)
    BY <1>12, <1>13
  <2>2. \A s \in held : \E j \in DOMAIN docs : j < k /\ Writes(last[j].act) /\ last[j].row.slug = s
    BY <1>13, <1>14, <2>1
  <2> HIDE DEF held, last
  <2> QED
    BY <2>1, <2>2
<1>16. IsList(last)
  BY <1>12 DEF IsList
<1> HIDE DEF last, N, Good, R
<1> QED
  BY <1>13, <1>15, <1>16 DEF InPlanOrder, docs, last

-----------------------------------------------------------------------------
(* The plan of a page in the drill.                                        *)

\* A page of a quiet file is planned against what the pages before it brought back.
InDrill(own, f, k, q) ==
  /\ World(own) /\ Walk /\ Quiet
  /\ f \in ToSet(shelf) /\ f.quiet /\ k \in Nat /\ k + 1 \in DOMAIN f.pages
  /\ q.st = store /\ q.replace = FALSE /\ q.units = f.pages[k + 1]
  /\ Part(f.image, store, bucket, fate.blamed) /\ Back(f, k, store)

\* What the page has.
PageHas(own, I, q) ==
  /\ q.units \in Seq(UnitsOf(own)) /\ Sound(I.store) /\ TombsFit(I.store)
  /\ \A u \in ToSet(q.units) : u \in UnitsOf(own) /\ u.phase \in Phases /\ u.id \in Nat \ {0} /\ FromImage(I, u)
\* The page of a quiet file has that.
LEMMA PageIs ==
  ASSUME NEW own, NEW f, NEW k, NEW q, InDrill(own, f, k, q)
  PROVE  PageHas(own, f.image, q)
<1>1. /\ f.pages \in Seq(Seq(UnitsOf(own))) /\ Sound(f.image.store) /\ TombsFit(f.image.store)
      /\ PagesTell(f)
  BY QuietPages DEF InDrill
<1>2. q.units = f.pages[k + 1] /\ k + 1 \in DOMAIN f.pages
  BY DEF InDrill
<1>3. q.units \in Seq(UnitsOf(own))
  BY <1>1, <1>2
<1>4. ASSUME NEW u \in ToSet(q.units)
      PROVE  u \in UnitsOf(own) /\ u.phase \in Phases /\ u.id \in Nat \ {0} /\ FromImage(f.image, u)
  <2>1. PICK a \in DOMAIN f.pages[k + 1] : u = f.pages[k + 1][a]
    BY <1>2 DEF ToSet
  <2>2. FromImage(f.image, u)
    BY <1>1, <1>2, <2>1 DEF PagesTell
  <2>3. u \in UnitsOf(own)
    BY <1>2, <1>3, <2>1
  <2> QED
    BY <2>2, <2>3 DEF UnitsOf, FileUnits
<1> QED
  BY <1>1, <1>3, <1>4 DEF PageHas

\* A document is on the page once.
LEMMA DocumentsApart ==
  ASSUME NEW own, NEW f, NEW k, NEW q, InDrill(own, f, k, q)
  PROVE  LET docs == Of(q, "documents") IN
         /\ IsList(docs)
         /\ \A i \in DOMAIN docs : docs[i] \in ToSet(q.units) /\ docs[i].phase = "documents" /\ i \in Nat
         /\ \A i, j \in DOMAIN docs : docs[i].id = docs[j].id => i = j
         /\ \A u \in ToSet(q.units) : u.phase = "documents" => \E i \in DOMAIN docs : docs[i] = u
<1> DEFINE S == {u \in ToSet(q.units) : u.phase = "documents"}
           us == q.units
           docs == Of(q, "documents")
<1>1. docs = Kept(us, S)
  BY DEF Of
<1>2. us \in Seq(UnitsOf(own)) /\ us = f.pages[k + 1] /\ k + 1 \in DOMAIN f.pages
  BY PageIs DEF PageHas, InDrill
<1>3. \A u : u \in S <=> u \in ToSet(us) /\ u.phase = "documents"
  OBVIOUS
<1>4. PagesTell(f)
  BY QuietPages DEF InDrill
<1> HIDE DEF S, us, docs
<1>5. PICK g : IsSieved(g, us, S)
  BY <1>2, KeptPlaces
<1>6. /\ g \in [DOMAIN docs -> DOMAIN us]
      /\ \A i \in DOMAIN docs : docs[i] = us[g[i]] /\ us[g[i]] \in S
      /\ \A i, j \in DOMAIN docs : g[i] = g[j] => i = j
      /\ \A n \in DOMAIN us : us[n] \in S => \E i \in DOMAIN docs : g[i] = n
  BY <1>1, <1>5 DEF IsSieved
<1>7. ASSUME NEW i \in DOMAIN docs, NEW j \in DOMAIN docs, docs[i].id = docs[j].id PROVE i = j
  <2>1. g[i] \in DOMAIN f.pages[k + 1] /\ g[j] \in DOMAIN f.pages[k + 1]
    BY <1>2, <1>6
  <2>2. /\ IsAt(f, k + 1, g[i], "documents", docs[i].id) /\ IsAt(f, k + 1, g[j], "documents", docs[i].id)
    BY <1>2, <1>3, <1>6, <1>7 DEF IsAt
  <2>3. g[i] = g[j]
    BY <1>2, <1>4, <2>1, <2>2 DEF PagesTell
  <2> QED
    BY <1>6, <2>3
<1>8. ASSUME NEW u \in ToSet(us), u.phase = "documents" PROVE \E i \in DOMAIN docs : docs[i] = u
  <2>1. PICK n \in DOMAIN us : us[n] = u
    BY DEF ToSet
  <2> QED
    BY <1>3, <1>6, <1>8, <2>1
<1>9. docs \in Seq(UnitsOf(own))
  BY <1>1, <1>2, KeptSet
<1>10. \A i \in DOMAIN docs : docs[i] \in ToSet(us) /\ docs[i].phase = "documents" /\ i \in Nat
  BY <1>3, <1>6, <1>9
<1>11. IsList(docs)
  BY <1>9 DEF IsList
<1> QED
  BY <1>7, <1>8, <1>10, <1>11 DEF docs, us

\* A tombstone's document is back, or on the page.
LEMMA TombsAreKnown ==
  ASSUME NEW own, NEW f, NEW k, NEW q, InDrill(own, f, k, q),
         NEW u \in ToSet(q.units), u.phase = "slug_tombstones", u.row.doc # 0
  PROVE  u.row.doc \in DOMAIN q.st.documents \union Ids(q, "documents")
<1>1. q.units = f.pages[k + 1] /\ k + 1 \in DOMAIN f.pages /\ Back(f, k, store) /\ q.st = store /\ k \in Nat
  BY DEF InDrill
<1>2. PagesTell(f) /\ f.pages \in Seq(Seq(UnitsOf(own)))
  BY QuietPages DEF InDrill
<1>3. PICK a \in DOMAIN f.pages[k + 1] : u = f.pages[k + 1][a]
  BY <1>1 DEF ToSet
<1>4. PICK j \in DOMAIN f.pages : \E b \in DOMAIN f.pages[j] :
         j <= k + 1 /\ IsAt(f, j, b, "documents", u.row.doc)
  BY <1>1, <1>2, <1>3 DEF PagesTell
<1>5. PICK b \in DOMAIN f.pages[j] : j <= k + 1 /\ IsAt(f, j, b, "documents", u.row.doc)
  BY <1>4
<1> DEFINE w == f.pages[j][b]
<1>6. w \in ToSet(f.pages[j]) /\ w.phase = "documents" /\ w.id = u.row.doc /\ j \in Nat
  BY <1>2, <1>5 DEF IsAt, ToSet
<1> HIDE DEF w
<1>7. CASE j <= k
  <2>1. Coming(w, store, <<>>, f.image)
    BY <1>1, <1>6, <1>7 DEF Back
  <2> QED
    BY <1>1, <1>6, <2>1 DEF Coming, AnItem
<1>8. CASE j = k + 1
  <2>1. w \in ToSet(q.units)
    BY <1>1, <1>6, <1>8
  <2>2. PICK i \in DOMAIN Of(q, "documents") : Of(q, "documents")[i] = w
    BY <1>6, <2>1, DocumentsApart
  <2>3. w \in ToSet(Of(q, "documents"))
    BY <2>2 DEF ToSet
  <2> QED
    BY <1>6, <2>3 DEF Ids
<1> QED
  BY <1>1, <1>5, <1>6, <1>7, <1>8

\* What is planned for a version that may be there already.
IsVersionPlan(q, d, no, v, docLive, p) ==
  /\ Writes(p.act) => p.rec = v /\ p.old = {} /\ (docLive => p.prep /\ v.text # 0)
  /\ p.act \in CLEAN => Writes(p.act) \/ <<d, no>> \in DOMAIN q.st.versions
\* Every version is planned so.
LEMMA VersionIsPlanned ==
  ASSUME NEW q, q.replace = FALSE, NEW d, NEW no, NEW v, NEW docLive
  PROVE  IsVersionPlan(q, d, no, v, docLive, planVersion(q, d, no, v, docLive))
<1> DEFINE exists == <<d, no>> \in DOMAIN q.st.versions
           old == IF exists THEN {q.st.versions[<<d, no>>].key} ELSE {}
           act == Conflict(q, exists)
           Plan(a, prep) == [act |-> a, prep |-> prep, rec |-> v, old |-> old]
           p == planVersion(q, d, no, v, docLive)
<1>1. act = IF exists THEN "skip" ELSE "create"
  BY DEF Conflict
<1>2. /\ ~agentAvailable(q, v.by) => p = Plan("missing_dependency", FALSE)
      /\ agentAvailable(q, v.by) /\ (~docLive \/ act = "skip") => p = Plan(act, FALSE)
      /\ agentAvailable(q, v.by) /\ docLive /\ act # "skip" =>
           p = IF v.text = 0 THEN Plan("source_unavailable", FALSE)
               ELSE IF <<d, no>> \in q.refused THEN Plan("rejected", FALSE)
               ELSE Plan(act, TRUE)
  BY DEF planVersion
<1>3. old = {} \/ exists
  OBVIOUS
<1> HIDE DEF p, act, exists, old
<1> QED
  BY <1>1, <1>2, <1>3 DEF Writes, CLEAN, p, exists, IsVersionPlan

\* What is planned for a document when nothing is replaced.
Added(q, u, held, p) ==
  /\ u.id \notin DOMAIN q.st.documents
  /\ p.row = [u.row EXCEPT !.slug = SlugFor(q, u, held)]
  /\ p.versions = planVersions(q, u.id, u.versions, u.row.live)
  /\ p.extra = {x \in VersionsOf(q.st, u.id) : x[2] \notin DOMAIN u.versions}
  /\ p.extraKeys = {q.st.versions[x].key : x \in p.extra}
Skipped(q, u, p) ==
  /\ u.id \in DOMAIN q.st.documents
  /\ p.versions = planVersions(q, u.id, u.versions, q.st.documents[u.id].live)
IsPlanOf(q, u, held, p) ==
  p.id = u.id /\ (Writes(p.act) => Added(q, u, held, p)) /\ (p.act = "skip" => Skipped(q, u, p))
\* Every document is planned so.
LEMMA PlanDocumentCases ==
  ASSUME NEW q, q.replace = FALSE, NEW u, NEW held
  PROVE  IsPlanOf(q, u, held, planDocument(q, u, held))
<1> DEFINE d == u.id
           exists == d \in DOMAIN q.st.documents
           act == Conflict(q, exists)
           versions == planVersions(q, d, u.versions, u.row.live)
           later == planVersions(q, d, u.versions, q.st.documents[d].live)
           extra == {x \in VersionsOf(q.st, d) : x[2] \notin DOMAIN u.versions}
           keys == {q.st.versions[x].key : x \in extra}
           Row(slug) == [u.row EXCEPT !.slug = slug]
           Plan(a, slug, vs) == [act |-> a, id |-> d, row |-> Row(slug), versions |-> vs,
                                 extra |-> extra, extraKeys |-> keys]
           p == planDocument(q, u, held)
           bad == \/ exists /\ q.st.documents[d].pid # u.row.pid
                  \/ \E e \in DOMAIN q.st.documents \ {d} : q.st.documents[e].pid = u.row.pid
<1>1. \/ p = Plan("rejected", 0, Empty)
      \/ p = Plan("missing_dependency", 0, Empty)
      \/ p = Plan("skip", 0, later) /\ act = "skip"
      \/ p = Plan(act, SlugFor(q, u, held), versions) /\ act # "skip"
  <2>1. CASE bad
    BY <2>1 DEF planDocument
  <2>2. CASE ~bad
    <3>1. p = IF ~agentAvailable(q, u.row.by) THEN Plan("missing_dependency", 0, Empty)
              ELSE IF act = "skip" THEN Plan("skip", 0, later)
              ELSE IF u.row.live /\ \E n \in Needs(u.row) :
                        n \notin DOMAIN versions \/ ~versions[n].prep
              THEN Plan("rejected", 0, Empty)
              ELSE Plan(act, SlugFor(q, u, held), versions)
      BY <2>2 DEF planDocument
    <3> HIDE DEF p, Plan, later, versions, act
    <3> QED
      BY <3>1
  <2> QED
    BY <2>1, <2>2
<1>2. act = IF exists THEN "skip" ELSE "create"
  BY DEF Conflict
<1>3. ~Writes("rejected") /\ ~Writes("missing_dependency") /\ ~Writes("skip")
  BY DEF Writes
<1>4. \A a, slug, vs : LET r == Plan(a, slug, vs) IN
        /\ r.act = a /\ r.id = d /\ r.row = Row(slug) /\ r.versions = vs
        /\ r.extra = extra /\ r.extraKeys = keys
  OBVIOUS
<1> HIDE DEF p, Plan, act, Row, versions, later, extra, keys
<1>5. CASE p = Plan("rejected", 0, Empty) \/ p = Plan("missing_dependency", 0, Empty)
  <2>1. p.id = d /\ (p.act = "rejected" \/ p.act = "missing_dependency")
    BY <1>4, <1>5
  <2> QED
    BY <1>3, <2>1 DEF p, IsPlanOf
<1>6. CASE p = Plan("skip", 0, later) /\ act = "skip"
  <2>1. p.id = d /\ p.act = "skip" /\ p.versions = later /\ exists
    BY <1>2, <1>4, <1>6
  <2> QED
    BY <1>3, <2>1 DEF p, later, IsPlanOf, Skipped
<1>7. CASE p = Plan(act, SlugFor(q, u, held), versions) /\ act # "skip"
  <2>1. /\ p.id = d /\ p.act = "create" /\ p.row = Row(SlugFor(q, u, held)) /\ p.versions = versions
        /\ p.extra = extra /\ p.extraKeys = keys /\ ~exists
    BY <1>2, <1>4, <1>7
  <2> QED
    BY <1>3, <2>1 DEF p, Row, versions, extra, keys, IsPlanOf, Added
<1> QED
  BY <1>1, <1>5, <1>6, <1>7

\* A name that is back was that document's.
LEMMA HolderWas ==
  ASSUME NEW I, NEW st, Sound(I.store), DocsPart(I, st),
         NEW e \in DOMAIN st.documents, st.documents[e].slug # 0
  PROVE  e \in Holders(I.store, st.documents[e].slug)
<1>1. AsWas(I, e, st.documents[e])
  BY DEF DocsPart
<1> DEFINE was == I.store.documents[e]
<1>2. e \in DOMAIN I.store.documents /\ was \in Columns("documents")
  BY <1>1, CellOf DEF AsWas
<1>3. st.documents[e] = was \/ st.documents[e] = [was EXCEPT !.slug = 0]
  BY <1>1 DEF AsWas
<1>4. [was EXCEPT !.slug = 0].slug = 0
  BY <1>2 DEF Columns
<1>5. st.documents[e].slug = was.slug
  BY <1>3, <1>4
<1> QED
  BY <1>2, <1>5 DEF Holders

\* A name that is planned was that document's.
LEMMA PlannedNameWas ==
  ASSUME NEW own, NEW I, NEW q, q.replace = FALSE, NEW u \in UnitsOf(own), u.phase = "documents",
         FromImage(I, u), NEW held,
         Writes(planDocument(q, u, held).act), planDocument(q, u, held).row.slug # 0
  PROVE  /\ planDocument(q, u, held).row.slug = u.row.slug
         /\ u.id \in Holders(I.store, u.row.slug)
<1> DEFINE p == planDocument(q, u, held)
<1>0. IsPlanOf(q, u, held, p) /\ Writes(p.act) /\ p.row.slug # 0
  BY PlanDocumentCases
<1> HIDE DEF p
<1>1. p.row = [u.row EXCEPT !.slug = SlugFor(q, u, held)]
  BY <1>0, Zenon DEF IsPlanOf, Added
<1>2. u.row \in Columns("documents")
  BY DEF UnitsOf, IsUnit
<1>3. SlugFor(q, u, held) \in {0, u.row.slug}
  BY DEF SlugFor
<1>4. [u.row EXCEPT !.slug = SlugFor(q, u, held)].slug = SlugFor(q, u, held)
  BY <1>2 DEF Columns
<1>5. p.row.slug = u.row.slug
  BY <1>0, <1>1, <1>3, <1>4
<1>6. u.id \in DOMAIN I.store.documents /\ u.row = I.store.documents[u.id]
  BY DEF FromImage, FromRow
<1> QED
  BY <1>5, <1>6 DEF Holders, p

\* A document loses its name only when the name was also retired.
LEMMA NameIsKept ==
  ASSUME NEW own, NEW f, NEW k, NEW q, InDrill(own, f, k, q),
         NEW n \in DOMAIN Of(q, "documents"), NEW held,
         \A s \in held : \E j \in DOMAIN Of(q, "documents") :
           j < n /\ Writes(planDocuments(q)[j].act) /\ planDocuments(q)[j].row.slug = s
  PROVE  LET u == Of(q, "documents")[n] IN
         AsWas(f.image, u.id, [u.row EXCEPT !.slug = SlugFor(q, u, held)])
<1> DEFINE docs == Of(q, "documents")
           plans == planDocuments(q)
           u == docs[n]
           I == f.image
           s == u.row.slug
           d == u.id
           slug == SlugFor(q, u, held)
<1>1. PageHas(own, I, q) /\ q.replace = FALSE /\ q.st = store /\ Part(I, store, bucket, fate.blamed)
  BY PageIs DEF InDrill
<1>2. /\ \A i \in DOMAIN docs : docs[i] \in ToSet(q.units) /\ docs[i].phase = "documents" /\ i \in Nat
      /\ \A i, j \in DOMAIN docs : docs[i].id = docs[j].id => i = j
  BY DocumentsApart
<1>3. \A i \in DOMAIN docs : docs[i] \in UnitsOf(own) /\ FromImage(I, docs[i])
  BY <1>1, <1>2 DEF PageHas
<1>4. InPlanOrder(docs, plans, q)
  <2>1. q.units \in Seq(UnitsOf(own))
    BY <1>1 DEF PageHas
  <2> QED
    BY <2>1, PlansInTurn
<1> HIDE DEF docs, plans
<1>5. d \in DOMAIN I.store.documents /\ u.row = I.store.documents[d] /\ u.row \in Columns("documents")
  BY <1>2, <1>3 DEF FromImage, FromRow, UnitsOf, IsUnit, docs
<1>6. slug = s => [u.row EXCEPT !.slug = slug] = u.row
  BY <1>5 DEF Columns
<1>7. ASSUME slug # s PROVE slug = 0 /\ s \in Disputed(I.store)
  <2>1. slug = 0 /\ s # 0
    BY <1>7 DEF SlugFor
  <2>2. Holders(I.store, s) = {d}
    BY <1>1, <1>5, <2>1 DEF PageHas, Sound, DocumentFits
  <2>3. CASE Holders(q.st, s) \ {d} # {}
    <3>1. PICK e \in Holders(q.st, s) : e # d
      BY <2>3
    <3>2. e \in DOMAIN store.documents /\ store.documents[e].slug = s
      BY <1>1, <3>1 DEF Holders
    <3>3. e \in Holders(I.store, s)
      <4>1. Sound(I.store) /\ DocsPart(I, store)
        BY <1>1 DEF PageHas, Part
      <4> HIDE DEF s, I
      <4> QED
        BY <2>1, <3>2, <4>1, HolderWas
    <3> QED
      BY <2>2, <3>1, <3>3
  <2>4. CASE s \in DOMAIN q.st.slug_tombstones
    <3>1. s \in DOMAIN I.store.slug_tombstones
      BY <1>1, <2>4 DEF Part, RowsPart, FromRow
    <3> QED
      BY <2>1, <2>2, <3>1 DEF Disputed
  <2>5. CASE s \in held
    <3>1. PICK j \in DOMAIN docs : j < n /\ Writes(plans[j].act) /\ plans[j].row.slug = s
      BY <2>5 DEF docs, plans
    <3>2. PICK h : plans[j] = planDocument(q, docs[j], h)
      BY <1>4 DEF InPlanOrder
    <3>3. docs[j].row.slug = s /\ docs[j].id \in Holders(I.store, docs[j].row.slug)
      <4> DEFINE w == docs[j]
      <4>1. w \in UnitsOf(own) /\ w.phase = "documents" /\ FromImage(I, w)
        BY <1>2, <1>3
      <4>2. Writes(planDocument(q, w, h).act) /\ planDocument(q, w, h).row.slug = s
        BY <3>1, <3>2
      <4> HIDE DEF w, s, I
      <4>3. planDocument(q, w, h).row.slug = w.row.slug /\ w.id \in Holders(I.store, w.row.slug)
        BY <1>1, <2>1, <4>1, <4>2, PlannedNameWas
      <4> QED
        BY <4>2, <4>3 DEF w
    <3>4. docs[j].id = d
      BY <2>2, <3>3
    <3>5. j = n /\ n \in Nat
      BY <1>2, <3>4 DEF docs
    <3> QED
      BY <3>1, <3>5
  <2> QED
    BY <1>7, <2>1, <2>3, <2>4, <2>5 DEF SlugFor
<1>8. s = I.store.documents[d].slug
  BY <1>5
<1> HIDE DEF slug
<1> QED
  BY <1>5, <1>6, <1>7, <1>8 DEF AsWas, docs, slug

\* What is planned for the versions of a document.
LEMMA VersionsArePlanned ==
  ASSUME NEW I, NEW q, q.replace = FALSE, NEW u, u.phase = "documents", FromImage(I, u),
         NEW docLive, WasLive(I, u.id) => docLive
  PROVE  LET vs == planVersions(q, u.id, u.versions, docLive) IN
         /\ \A no \in DOMAIN WritesOf(vs) : VersionFrom(I, u.id, no, WritesOf(vs)[no])
         /\ \A no \in DOMAIN u.versions :
              /\ no \in DOMAIN vs
              /\ vs[no].act \in CLEAN => no \in DOMAIN WritesOf(vs) \/ <<u.id, no>> \in DOMAIN q.st.versions
<1> DEFINE vs == planVersions(q, u.id, u.versions, docLive)
           some == WritesOf(vs)
<1>1. DOMAIN vs = DOMAIN u.versions
      /\ \A no \in DOMAIN u.versions : vs[no] = planVersion(q, u.id, no, u.versions[no], docLive)
  BY DEF planVersions
<1>2. \A no \in DOMAIN u.versions :
        /\ Writes(vs[no].act) => vs[no].rec = u.versions[no] /\ vs[no].old = {}
                                 /\ (docLive => vs[no].prep /\ u.versions[no].text # 0)
        /\ vs[no].act \in CLEAN => Writes(vs[no].act) \/ <<u.id, no>> \in DOMAIN q.st.versions
  <2> SUFFICES ASSUME NEW no \in DOMAIN u.versions
      PROVE
        /\ Writes(vs[no].act) => vs[no].rec = u.versions[no] /\ vs[no].old = {}
                                 /\ (docLive => vs[no].prep /\ u.versions[no].text # 0)
        /\ vs[no].act \in CLEAN => Writes(vs[no].act) \/ <<u.id, no>> \in DOMAIN q.st.versions
    OBVIOUS
  <2> DEFINE v == u.versions[no]
             d == u.id
  <2>1. vs[no] = planVersion(q, d, no, v, docLive)
    BY <1>1
  <2> HIDE DEF vs, v, d
  <2>2. IsVersionPlan(q, d, no, v, docLive, vs[no])
    BY <2>1, VersionIsPlanned
  <2> QED
    BY <2>2 DEF v, d, IsVersionPlan
<1> HIDE DEF vs
<1>3. /\ DOMAIN some = {no \in DOMAIN u.versions : Writes(vs[no].act)}
      /\ \A no \in DOMAIN some : some[no] = vs[no]
  BY <1>1 DEF WritesOf
<1> HIDE DEF some
<1>4. \A no \in DOMAIN u.versions : FromVersion(I, u.id, no, u.versions[no])
  BY DEF FromImage
<1>5. \A no \in DOMAIN some : VersionFrom(I, u.id, no, some[no])
  BY <1>2, <1>3, <1>4 DEF VersionFrom, FromVersion
<1> QED
  BY <1>1, <1>2, <1>3, <1>5 DEF vs, some

\* What is planned for a document of the page.
LEMMA DocumentIsPlanned ==
  ASSUME NEW own, NEW f, NEW k, NEW q, InDrill(own, f, k, q), NEW n \in DOMAIN Of(q, "documents")
  PROVE  LET u == Of(q, "documents")[n]
             p == planDocuments(q)[n]
         IN /\ n \in DOMAIN planDocuments(q) /\ p.id = u.id
            /\ Writes(p.act) => ItemFrom(f.image, DocumentItem(p))
            /\ p.act = "skip" =>
                 /\ ItemFrom(f.image, VersionsItem(q, p.id, p.versions))
                 /\ p.id \in DOMAIN q.st.documents
            /\ p.act \in CLEAN => Writes(p.act) \/ p.act = "skip"
            /\ Writes(p.act) \/ p.act = "skip" =>
                 \A no \in DOMAIN u.versions :
                   /\ no \in DOMAIN p.versions
                   /\ p.versions[no].act \in CLEAN =>
                        no \in DOMAIN WritesOf(p.versions) \/ <<u.id, no>> \in DOMAIN q.st.versions
<1> DEFINE docs == Of(q, "documents")
           plans == planDocuments(q)
           u == docs[n]
           p == plans[n]
           I == f.image
           d == u.id
<1>1. PageHas(own, I, q) /\ q.replace = FALSE /\ q.st = store /\ Part(I, store, bucket, fate.blamed)
  BY PageIs DEF InDrill
<1>2. u \in UnitsOf(own) /\ u.phase = "documents" /\ FromImage(I, u)
  BY <1>1, DocumentsApart DEF PageHas
<1>3. InPlanOrder(docs, plans, q)
  <2>1. q.units \in Seq(UnitsOf(own))
    BY <1>1 DEF PageHas
  <2> QED
    BY <2>1, PlansInTurn
<1> HIDE DEF docs, plans
<1>4. PICK held : /\ p = planDocument(q, u, held)
                  /\ \A s \in held : \E j \in DOMAIN docs :
                       j < n /\ Writes(plans[j].act) /\ plans[j].row.slug = s
  BY <1>3 DEF InPlanOrder, docs
<1>5. n \in DOMAIN plans
  BY <1>3 DEF InPlanOrder, docs
<1>6. AsWas(I, d, [u.row EXCEPT !.slug = SlugFor(q, u, held)])
  BY <1>4, NameIsKept DEF docs, plans
<1>7. IsPlanOf(q, u, held, p)
  <2> HIDE DEF u, p
  <2> QED
    BY <1>1, <1>4, PlanDocumentCases
<1>8. u.row = I.store.documents[d] /\ d \in DOMAIN I.store.documents
  BY <1>2 DEF FromImage, FromRow
<1> HIDE DEF u, p, d, I
<1>9. p.id = d
  BY <1>7 DEF IsPlanOf, d
<1>10. ASSUME Writes(p.act)
       PROVE  /\ ItemFrom(I, DocumentItem(p))
              /\ \A no \in DOMAIN u.versions :
                   /\ no \in DOMAIN p.versions
                   /\ p.versions[no].act \in CLEAN =>
                        no \in DOMAIN WritesOf(p.versions) \/ <<d, no>> \in DOMAIN q.st.versions
  <2>1. Added(q, u, held, p)
    BY <1>7, <1>10 DEF IsPlanOf
  <2>2. p.versions = planVersions(q, d, u.versions, u.row.live) /\ d \notin DOMAIN q.st.documents
    BY <2>1 DEF Added, d
  <2>3. WasLive(I, d) => u.row.live
    BY <1>8 DEF WasLive
  <2>4. /\ \A no \in DOMAIN WritesOf(p.versions) : VersionFrom(I, d, no, WritesOf(p.versions)[no])
        /\ \A no \in DOMAIN u.versions :
              /\ no \in DOMAIN p.versions
              /\ p.versions[no].act \in CLEAN => no \in DOMAIN WritesOf(p.versions) \/ <<d, no>> \in DOMAIN q.st.versions
    BY <1>1, <1>2, <2>2, <2>3, VersionsArePlanned DEF d
  <2>5. p.extra = {} /\ p.extraKeys = {}
    <3>1. DOMAIN q.st.versions \subseteq (DOMAIN q.st.documents) \X (Nat \ {0})
      BY <1>1 DEF InDrill, World, World0, Sound, VersionsFit
    <3>2. VersionsOf(q.st, d) = {}
      BY <2>2, <3>1 DEF VersionsOf
    <3>3. p.extra = {}
      BY <2>1, <3>2 DEF Added, d
    <3> QED
      BY <2>1, <3>3 DEF Added
  <2>6. AsWas(I, d, p.row)
    BY <1>6, <2>1 DEF Added
  <2> DEFINE item == DocumentItem(p)
  <2>7. /\ item.kind = "documents" /\ item.id = d /\ item.row = p.row
        /\ item.versions = WritesOf(p.versions) /\ item.extra = {} /\ item.extraKeys = {}
    BY <1>9, <2>5 DEF DocumentItem
  <2> HIDE DEF item
  <2>8. ItemFrom(I, item)
    BY <2>4, <2>6, <2>7 DEF ItemFrom
  <2> QED
    BY <2>4, <2>8 DEF item
<1>11. ASSUME p.act = "skip"
       PROVE  /\ ItemFrom(I, VersionsItem(q, d, p.versions)) /\ d \in DOMAIN q.st.documents
              /\ \A no \in DOMAIN u.versions :
                   /\ no \in DOMAIN p.versions
                   /\ p.versions[no].act \in CLEAN =>
                        no \in DOMAIN WritesOf(p.versions) \/ <<d, no>> \in DOMAIN q.st.versions
  <2>1. Skipped(q, u, p)
    BY <1>7, <1>11 DEF IsPlanOf
  <2>2. p.versions = planVersions(q, d, u.versions, q.st.documents[d].live) /\ d \in DOMAIN q.st.documents
    BY <2>1 DEF Skipped, d
  <2>3. WasLive(I, d) => q.st.documents[d].live
    <3>1. AsWas(I, d, q.st.documents[d])
      BY <1>1, <2>2 DEF Part, DocsPart
    <3>2. I.store.documents[d] \in Columns("documents")
      BY <1>1, <1>8, CellOf DEF PageHas
    <3>3. [I.store.documents[d] EXCEPT !.slug = 0].live = I.store.documents[d].live
      BY <3>2 DEF Columns
    <3> QED
      BY <3>1, <3>3 DEF AsWas, WasLive
  <2>4. /\ \A no \in DOMAIN WritesOf(p.versions) : VersionFrom(I, d, no, WritesOf(p.versions)[no])
        /\ \A no \in DOMAIN u.versions :
              /\ no \in DOMAIN p.versions
              /\ p.versions[no].act \in CLEAN => no \in DOMAIN WritesOf(p.versions) \/ <<d, no>> \in DOMAIN q.st.versions
    BY <1>1, <1>2, <2>2, <2>3, VersionsArePlanned DEF d
  <2> DEFINE item == VersionsItem(q, d, p.versions)
  <2>5. item.kind = "versions" /\ item.id = d /\ item.versions = WritesOf(p.versions)
    BY DEF VersionsItem
  <2> HIDE DEF item
  <2>6. ItemFrom(I, item)
    BY <2>4, <2>5 DEF ItemFrom
  <2> QED
    BY <2>2, <2>4, <2>6 DEF item
<1>12. p.act \in CLEAN => Writes(p.act) \/ p.act = "skip"
  BY DEF CLEAN, Writes
<1> QED
  BY <1>5, <1>9, <1>10, <1>11, <1>12 DEF u, p, d, I, docs, plans

\* What is planned for a row of the page.
LEMMA RowIsPlanned ==
  ASSUME NEW own, NEW f, NEW k, NEW q, InDrill(own, f, k, q),
         NEW u \in ToSet(q.units), u.phase \in Plain
  PROVE  /\ ItemFrom(f.image, RowItem(u))
         /\ RowPlan(q, u) \in CLEAN => Writes(RowPlan(q, u)) \/ u.id \in DOMAIN q.st[u.phase]
<1> DEFINE I == f.image
           p == RowPlan(q, u)
<1>1. PageHas(own, I, q) /\ q.replace = FALSE /\ q.st = store /\ Part(I, store, bucket, fate.blamed)
  BY PageIs DEF InDrill
<1>2. u.id \in DOMAIN I.store[u.phase] /\ u.row = I.store[u.phase][u.id]
  BY <1>1 DEF PageHas, FromImage, FromRow
<1>3. ItemFrom(I, RowItem(u))
  <2> DEFINE item == RowItem(u)
  <2>1. item.kind = u.phase /\ item.id = u.id /\ item.row = u.row
    BY DEF RowItem
  <2> HIDE DEF item, I
  <2>2. item.kind \notin {"documents", "versions"}
    BY <2>1 DEF Plain
  <2>3. FromRow(I, item.kind, item.id, item.row)
    BY <1>2, <2>1 DEF FromRow
  <2>4. ItemFrom(I, item)
    BY <2>2, <2>3 DEF ItemFrom
  <2> QED
    BY <2>4 DEF item
<1>4. ASSUME u.phase = "oauth_clients", u.id \notin DOMAIN q.st.oauth_clients,
             NEW c \in DOMAIN q.st.oauth_clients, q.st.oauth_clients[c].agent = u.row.agent
      PROVE  FALSE
  <2>1. c \in DOMAIN I.store.oauth_clients /\ q.st.oauth_clients[c] = I.store.oauth_clients[c]
    BY <1>1, <1>4 DEF Part, RowsPart, FromRow, Plain
  <2>2. ClientFits(I.store, u.id)
    BY <1>1, <1>2, <1>4 DEF PageHas, Sound
  <2>3. c = u.id
    BY <1>2, <1>4, <2>1, <2>2 DEF ClientFits
  <2> QED
    BY <1>4, <2>3
<1>5. \/ p = "missing_dependency"
      \/ p = Conflict(q, u.id \in DOMAIN q.st[u.phase])
  BY <1>4 DEF RowPlan
<1>6. "missing_dependency" \notin CLEAN /\ Writes("create")
  BY DEF CLEAN, Writes
<1>7. Conflict(q, u.id \in DOMAIN q.st[u.phase]) = IF u.id \in DOMAIN q.st[u.phase] THEN "skip" ELSE "create"
  BY <1>1 DEF Conflict
<1> HIDE DEF p
<1> QED
  BY <1>3, <1>5, <1>6, <1>7 DEF p, I

\* What is planned for a tombstone of the page.
LEMMA TombIsPlanned ==
  ASSUME NEW own, NEW f, NEW k, NEW q, InDrill(own, f, k, q),
         NEW u \in ToSet(q.units), u.phase = "slug_tombstones"
  PROVE  /\ ItemFrom(f.image, TombOf(q, u)) /\ TombOf(q, u).id = u.id /\ TombOf(q, u).kind = u.phase
         /\ \/ Writes(planTombstone(q, u))
            \/ u.id \in DOMAIN q.st.slug_tombstones
            \/ u.id \in Disputed(f.image.store)
<1> DEFINE I == f.image
           docs == Of(q, "documents")
           plans == planDocuments(q)
           s == u.id
<1>1. PageHas(own, I, q) /\ q.replace = FALSE /\ q.st = store /\ Part(I, store, bucket, fate.blamed)
  BY PageIs DEF InDrill
<1>2. /\ u \in UnitsOf(own) /\ s \in Nat \ {0}
      /\ s \in DOMAIN I.store.slug_tombstones /\ u.row = I.store.slug_tombstones[s]
  BY <1>1 DEF PageHas, FromImage, FromRow
<1>3. TombOf(q, u) = RowItem(u)
  <2>1. u.row \in [at : Nat, doc : Nat]
    BY <1>2 DEF UnitsOf, IsUnit, Columns
  <2>2. u.row.doc # 0 => u.row.doc \in DOMAIN q.st.documents \union Ids(q, "documents")
    BY TombsAreKnown
  <2> DEFINE row == u.row
             doc == IF row.doc \in DOMAIN q.st.documents \union Ids(q, "documents") THEN row.doc ELSE 0
  <2>3. doc = row.doc
    BY <2>2
  <2>4. TombOf(q, u) = [kind |-> u.phase, id |-> u.id, row |-> [row EXCEPT !.doc = doc]]
    BY DEF TombOf, RowItem
  <2>5. [row EXCEPT !.doc = doc] = row
    <3> HIDE DEF doc, row
    <3>1. row \in [at : Nat, doc : Nat]
      BY <2>1 DEF row
    <3> QED
      BY <2>3, <3>1
  <2> HIDE DEF doc
  <2> QED
    BY <2>4, <2>5 DEF RowItem
<1>4. /\ ItemFrom(I, TombOf(q, u)) /\ TombOf(q, u).id = u.id /\ TombOf(q, u).kind = u.phase
  <2> DEFINE item == RowItem(u)
  <2>1. item.kind = u.phase /\ item.id = u.id /\ item.row = u.row
    BY DEF RowItem
  <2> HIDE DEF item, I
  <2>2. FromRow(I, item.kind, item.id, item.row) /\ item.kind \notin {"documents", "versions"}
    BY <1>2, <2>1 DEF FromRow
  <2>3. ItemFrom(I, item)
    BY <2>2 DEF ItemFrom
  <2> QED
    BY <1>3, <2>1, <2>3 DEF item
<1>5. ASSUME Holders(q.st, s) # {} PROVE s \in Disputed(I.store)
  <2>1. PICK e : e \in DOMAIN store.documents /\ store.documents[e].slug = s
    BY <1>1, <1>5 DEF Holders
  <2>2. Sound(I.store) /\ DocsPart(I, store)
    BY <1>1 DEF PageHas, Part
  <2>3. e \in Holders(I.store, s)
    <3> HIDE DEF s, I
    <3> QED
      BY <1>2, <2>1, <2>2, HolderWas
  <2> QED
    BY <1>2, <2>3 DEF Disputed
<1>6. ASSUME s \in HeldBy(plans) PROVE s \in Disputed(I.store)
  <2>1. PICK j \in DOMAIN plans : Writes(plans[j].act) /\ plans[j].row.slug = s
    BY <1>6 DEF HeldBy, ToSet
  <2>2. q.units \in Seq(UnitsOf(own))
    BY <1>1 DEF PageHas
  <2>3. InPlanOrder(docs, plans, q)
    BY <2>2, PlansInTurn
  <2> HIDE DEF plans
  <2>4. PICK h : plans[j] = planDocument(q, docs[j], h)
    BY <2>3 DEF InPlanOrder
  <2> DEFINE w == docs[j]
  <2>5. w \in UnitsOf(own) /\ w.phase = "documents" /\ FromImage(I, w)
    BY <1>1, <2>3, DocumentsApart DEF PageHas, InPlanOrder
  <2>6. Writes(planDocument(q, w, h).act) /\ planDocument(q, w, h).row.slug = s
    BY <2>1, <2>4
  <2> HIDE DEF w, s, I
  <2>7. planDocument(q, w, h).row.slug = w.row.slug /\ w.id \in Holders(I.store, w.row.slug)
    BY <1>1, <1>2, <2>5, <2>6, PlannedNameWas
  <2> QED
    BY <1>2, <2>6, <2>7 DEF Disputed
<1>7. Writes("create") /\ Conflict(q, s \in DOMAIN q.st.slug_tombstones) =
        IF s \in DOMAIN q.st.slug_tombstones THEN "skip" ELSE "create"
  BY <1>1 DEF Conflict, Writes
<1>8. \/ Writes(planTombstone(q, u))
      \/ u.id \in DOMAIN q.st.slug_tombstones
      \/ u.id \in Disputed(I.store)
  BY <1>5, <1>6, <1>7 DEF planTombstone
<1> QED
  BY <1>4, <1>8

\* What is planned for a page brings back what was there, and all of it when the
\* plan is clean.
LEMMA PageIsPlanned ==
  ASSUME NEW own, NEW f, NEW k, NEW q, InDrill(own, f, k, q)
  PROVE  /\ ItemsFrom(f.image, Items(q))
         /\ PlanIsClean(q) => \A u \in ToSet(q.units) : Coming(u, store, Items(q), f.image)
<1> DEFINE I == f.image
           items == Items(q)
           plans == planDocuments(q)
           docs == Of(q, "documents")
<1>1. PageHas(own, I, q) /\ q.st = store
  BY PageIs DEF InDrill
<1>2. IsList(plans) /\ InPlanOrder(docs, plans, q)
  <2>1. q.units \in Seq(UnitsOf(own))
    BY <1>1 DEF PageHas
  <2> QED
    BY <2>1, PlansInTurn
<1>3. \A x : x \in ToSet(items) <=> IsItem(q, x)
  <2>1. IsList(q.units) /\ \A u \in ToSet(q.units) : u.phase \in Phases
    BY <1>1 DEF PageHas, IsList
  <2> QED
    BY <1>2, <2>1, ItemsByKind
<1>4. ASSUME NEW p \in ToSet(plans) PROVE \E n \in DOMAIN docs : p = plans[n]
  BY <1>2 DEF InPlanOrder, ToSet
<1>5. \A n \in DOMAIN docs : plans[n] \in ToSet(plans)
  BY <1>2 DEF InPlanOrder, ToSet
<1> HIDE DEF items, plans, docs, I
<1>6. ASSUME NEW x \in ToSet(items) PROVE ItemFrom(I, x)
  <2>1. IsItem(q, x)
    BY <1>3
  <2>2. CASE \E u \in ToSet(q.units) : u.phase \in Plain /\ Writes(RowPlan(q, u)) /\ x = RowItem(u)
    BY <2>2, RowIsPlanned DEF I
  <2>3. CASE \E p \in ToSet(plans) : Writes(p.act) /\ x = DocumentItem(p)
    <3>1. PICK p \in ToSet(plans) : Writes(p.act) /\ x = DocumentItem(p)
      BY <2>3
    <3>2. PICK n \in DOMAIN docs : p = plans[n]
      BY <1>4
    <3> QED
      BY <3>1, <3>2, DocumentIsPlanned DEF I, plans, docs
  <2>4. CASE \E p \in ToSet(plans) : /\ p.act = "skip" /\ WritesOf(p.versions) # Empty
                                     /\ x = VersionsItem(q, p.id, p.versions)
    <3>1. PICK p \in ToSet(plans) : p.act = "skip" /\ x = VersionsItem(q, p.id, p.versions)
      BY <2>4
    <3>2. PICK n \in DOMAIN docs : p = plans[n]
      BY <1>4
    <3> QED
      BY <3>1, <3>2, DocumentIsPlanned DEF I, plans, docs
  <2>5. CASE \E u \in ToSet(q.units) :
               u.phase = "slug_tombstones" /\ Writes(planTombstone(q, u)) /\ x = TombOf(q, u)
    BY <2>5, TombIsPlanned DEF I
  <2> QED
    BY <2>1, <2>2, <2>3, <2>4, <2>5 DEF IsItem, plans
<1>7. \A x \in ToSet(items) : AnItem(items, {x.kind}, x.id)
  BY DEF AnItem, ToSet
<1>8. ASSUME PlanIsClean(q), NEW u \in ToSet(q.units) PROVE Coming(u, store, items, I)
  <2>1. u.phase \in Phases
    BY <1>1 DEF PageHas
  <2>2. CASE u.phase \in Plain
    <3>1. RowPlan(q, u) \in CLEAN
      BY <1>8, <2>2 DEF PlanIsClean, Plain
    <3>2. Writes(RowPlan(q, u)) \/ u.id \in DOMAIN store[u.phase]
      BY <1>1, <2>2, <3>1, RowIsPlanned
    <3>3. CASE Writes(RowPlan(q, u))
      <4> DEFINE x == RowItem(u)
      <4>1. x.kind = u.phase /\ x.id = u.id
        BY DEF RowItem
      <4>2. x \in ToSet(items)
        BY <1>3, <2>2, <3>3 DEF IsItem
      <4> HIDE DEF x
      <4>3. AnItem(items, {u.phase}, u.id)
        BY <1>7, <4>1, <4>2
      <4> QED
        BY <2>2, <4>3 DEF Coming, Plain
    <3>4. CASE u.id \in DOMAIN store[u.phase]
      BY <2>2, <3>4 DEF Coming, Plain
    <3> QED
      BY <3>2, <3>3, <3>4
  <2>3. CASE u.phase = "slug_tombstones"
    <3>1. CASE Writes(planTombstone(q, u))
      <4> DEFINE x == TombOf(q, u)
      <4>1. x.kind = u.phase /\ x.id = u.id
        BY <2>3, TombIsPlanned
      <4>2. x \in ToSet(items)
        BY <1>3, <2>3, <3>1 DEF IsItem
      <4> HIDE DEF x
      <4>3. AnItem(items, {u.phase}, u.id)
        BY <1>7, <4>1, <4>2
      <4> QED
        BY <2>3, <4>3 DEF Coming
    <3>2. CASE u.id \in DOMAIN q.st.slug_tombstones \/ u.id \in Disputed(I.store)
      BY <1>1, <2>3, <3>2 DEF Coming
    <3> QED
      BY <2>3, <3>1, <3>2, TombIsPlanned DEF I
  <2>4. CASE u.phase = "documents"
    <3>1. PICK n \in DOMAIN docs : docs[n] = u
      BY <2>4, DocumentsApart DEF docs
    <3> DEFINE p == plans[n]
    <3>2. p \in ToSet(plans) /\ p.act \in CLEAN /\ \A no \in DOMAIN p.versions : p.versions[no].act \in CLEAN
      BY <1>5, <1>8 DEF PlanIsClean, plans
    <3>3. /\ p.id = u.id
          /\ Writes(p.act) \/ p.act = "skip"
          /\ p.act = "skip" => u.id \in DOMAIN store.documents
          /\ \A no \in DOMAIN u.versions :
               no \in DOMAIN WritesOf(p.versions) \/ <<u.id, no>> \in DOMAIN store.versions
      BY <1>1, <3>1, <3>2, DocumentIsPlanned DEF plans, docs
    <3> HIDE DEF p
    <3>4. ASSUME Writes(p.act)
          PROVE  AnItem(items, {"documents"}, u.id)
                 /\ \A no \in DOMAIN WritesOf(p.versions) : AVersion(items, u.id, no)
      <4> DEFINE x == DocumentItem(p)
      <4>1. x.kind = "documents" /\ x.id = u.id /\ x.versions = WritesOf(p.versions)
        BY <3>3 DEF DocumentItem
      <4>2. x \in ToSet(items)
        BY <1>3, <3>2, <3>4 DEF IsItem, plans
      <4> HIDE DEF x
      <4>3. PICK i \in DOMAIN items : items[i] = x
        BY <4>2 DEF ToSet
      <4> QED
        BY <4>1, <4>3 DEF AnItem, AVersion
    <3>5. ASSUME p.act = "skip", NEW no \in DOMAIN WritesOf(p.versions)
          PROVE  AVersion(items, u.id, no)
      <4> DEFINE x == VersionsItem(q, p.id, p.versions)
      <4>1. x.kind = "versions" /\ x.id = u.id /\ x.versions = WritesOf(p.versions)
        BY <3>3 DEF VersionsItem
      <4>2. WritesOf(p.versions) # Empty
        BY <3>5 DEF Empty
      <4>3. x \in ToSet(items)
        BY <1>3, <3>2, <3>5, <4>2 DEF IsItem, plans
      <4> HIDE DEF x
      <4>4. PICK i \in DOMAIN items : items[i] = x
        BY <4>3 DEF ToSet
      <4> QED
        BY <3>5, <4>1, <4>4 DEF AVersion
    <3>6. u.id \in DOMAIN store[u.phase] \/ AnItem(items, {u.phase}, u.id)
      BY <2>4, <3>3, <3>4
    <3>7. \A no \in DOMAIN u.versions : <<u.id, no>> \in DOMAIN store.versions \/ AVersion(items, u.id, no)
      BY <3>3, <3>4, <3>5
    <3> QED
      BY <3>6, <3>7 DEF Coming
  <2> QED
    BY <2>1, <2>2, <2>3, <2>4, PhasesAre DEF Plain
<1>9. ItemsFrom(I, items)
  BY <1>6 DEF ItemsFrom, ToSet
<1> QED
  BY <1>8, <1>9 DEF I, items

-----------------------------------------------------------------------------
(* Applying in the drill.                                                  *)

\* Tables that only gained rows, and what an item that was applied leaves there.
Grows(st, new) == \A p \in Phases \union {"versions"} : DOMAIN st[p] \subseteq DOMAIN new[p]
Applied(x, st) ==
  /\ x.kind \in Phases => x.id \in DOMAIN st[x.kind]
  /\ x.kind \in {"documents", "versions"} =>
       \A no \in DOMAIN x.versions : <<x.id, no>> \in DOMAIN st.versions

\* What is coming comes as items are applied.
LEMMA ComingOn ==
  ASSUME NEW I, NEW u, u.phase \in Phases, NEW st, NEW items, Coming(u, st, items, I),
         NEW new, Grows(st, new), NEW less,
         \A i \in DOMAIN items : Applied(items[i], new) \/ \E j \in DOMAIN less : less[j] = items[i]
  PROVE  Coming(u, new, less, I)
<1>1. ASSUME AnItem(items, {u.phase}, u.id) PROVE u.id \in DOMAIN new[u.phase] \/ AnItem(less, {u.phase}, u.id)
  <2>1. PICK i \in DOMAIN items : items[i].kind = u.phase /\ items[i].id = u.id
    BY <1>1 DEF AnItem
  <2>2. CASE Applied(items[i], new)
    BY <2>1, <2>2 DEF Applied
  <2>3. CASE \E j \in DOMAIN less : less[j] = items[i]
    BY <2>1, <2>3 DEF AnItem
  <2> QED
    BY <2>2, <2>3
<1>2. ASSUME NEW no, AVersion(items, u.id, no)
      PROVE  <<u.id, no>> \in DOMAIN new.versions \/ AVersion(less, u.id, no)
  <2>1. PICK i \in DOMAIN items : /\ items[i].kind \in {"documents", "versions"} /\ items[i].id = u.id
                                  /\ no \in DOMAIN items[i].versions
    BY <1>2 DEF AVersion
  <2>2. CASE Applied(items[i], new)
    BY <2>1, <2>2 DEF Applied
  <2>3. CASE \E j \in DOMAIN less : less[j] = items[i]
    BY <2>1, <2>3 DEF AVersion
  <2> QED
    BY <2>2, <2>3
<1>3. DOMAIN st[u.phase] \subseteq DOMAIN new[u.phase] /\ DOMAIN st.versions \subseteq DOMAIN new.versions
  BY DEF Grows
<1> QED
  BY <1>1, <1>2, <1>3 DEF Coming

\* What is back stays.
LEMMA BackOn ==
  ASSUME NEW f, NEW k, NEW st, Back(f, k, st), NEW new, Grows(st, new),
         \A j \in DOMAIN f.pages : \A u \in ToSet(f.pages[j]) : u.phase \in Phases
  PROVE  Back(f, k, new)
<1> SUFFICES ASSUME NEW j \in DOMAIN f.pages, j <= k, NEW u \in ToSet(f.pages[j])
             PROVE  Coming(u, new, <<>>, f.image)
  BY DEF Back
<1>1. Coming(u, st, <<>>, f.image) /\ u.phase \in Phases
  BY DEF Back
<1>2. \A i \in DOMAIN <<>> : Applied(<<>>[i], new) \/ \E j2 \in DOMAIN <<>> : <<>>[j2] = <<>>[i]
  OBVIOUS
<1> QED
  BY <1>1, <1>2, ComingOn

\* The restore runs in a drill.
Drilling(own, f, k) ==
  /\ World(own) /\ Walk /\ Quiet /\ Serving
  /\ f \in ToSet(shelf) /\ f.quiet /\ k \in Nat
  /\ Drills(f, k, store, bucket, fate.blamed, restore)

\* The pages of its file.
LEMMA DrillPages ==
  ASSUME NEW own, NEW f, NEW k, Drilling(own, f, k)
  PROVE  /\ \A j \in DOMAIN f.pages : \A u \in ToSet(f.pages[j]) : u.phase \in Phases
         /\ Sound(f.image.store) /\ DOMAIN store = Tables
<1>1. f.pages \in Seq(Seq(UnitsOf(own))) /\ Sound(f.image.store)
  BY QuietPages DEF Drilling
<1>2. \A j \in DOMAIN f.pages : f.pages[j] \in Seq(UnitsOf(own))
  BY <1>1
<1>3. ASSUME NEW j \in DOMAIN f.pages, NEW u \in ToSet(f.pages[j]) PROVE u.phase \in Phases
  <2>1. f.pages[j] \in Seq(UnitsOf(own))
    BY <1>2
  <2>2. u \in UnitsOf(own)
    BY <2>1 DEF ToSet
  <2> QED
    BY <2>2 DEF UnitsOf
<1> QED
  BY <1>1, <1>3 DEF Drilling, World, World0, Sound

\* The next item is one of those that were to come.
LEMMA NextReplays ==
  ASSUME NEW own, NEW f, NEW k, Drilling(own, f, k),
         restore.at \in {"item", "purge", "derive", "search"}, restore.items # <<>>,
         NEW failed \in BOOLEAN, NextItem(failed), NEW st, NEW bk,
         ~failed => Grows(store, st) /\ (restore.at = "item" => Applied(Item, st))
  PROVE  Replayed(f, k, restore', st, bk)
<1>1. /\ DOMAIN restore = {"at", "items", "clean", "puts", "text"}
      /\ restore.items \in Seq(ItemsOf(own))
  BY RestoringIs DEF Drilling
<1>2. /\ restore'.at = "item" /\ restore'.puts = Empty /\ restore'.items = Tail(restore.items)
      /\ restore'.clean = (restore.clean /\ ~failed)
  BY <1>1 DEF NextItem
<1>3. /\ Item = restore.items[1]
      /\ \A i \in DOMAIN Tail(restore.items) :
           i + 1 \in DOMAIN restore.items /\ Tail(restore.items)[i] = restore.items[i + 1]
      /\ \A i \in DOMAIN restore.items : i = 1 \/ (i - 1 \in DOMAIN Tail(restore.items)
                                                  /\ Tail(restore.items)[i - 1] = restore.items[i])
  <2> DEFINE s == restore.items
             T == ItemsOf(own)
  <2>1. s \in Seq(T) /\ s # <<>>
    BY <1>1
  <2> HIDE DEF s, T
  <2>2. /\ Head(s) = s[1]
        /\ \A i \in DOMAIN Tail(s) : i + 1 \in DOMAIN s /\ Tail(s)[i] = s[i + 1]
    BY <2>1, TailOf
  <2>3. Len(s) \in Nat /\ DOMAIN s = 1..Len(s) /\ DOMAIN Tail(s) = 1..Len(s) - 1
    BY <2>1
  <2>4. ASSUME NEW i \in 1..Len(s), i # 1 PROVE i - 1 \in DOMAIN Tail(s) /\ Tail(s)[i - 1] = s[i]
    <3>1. i - 1 \in 1..Len(s) - 1 /\ (i - 1) + 1 = i
      BY <2>3, <2>4
    <3> QED
      BY <2>2, <2>3, <3>1
  <2> QED
    BY <2>2, <2>3, <2>4 DEF s, Item
<1>4. Replayed(f, k, restore, store, bucket)
  BY DEF Drilling, Drills
<1>5. ItemsFrom(f.image, restore'.items)
  BY <1>2, <1>3, <1>4 DEF ItemsFrom, Replayed
<1>6. ASSUME restore'.clean, NEW u \in ToSet(f.pages[k + 1]) PROVE Coming(u, st, Tail(restore.items), f.image)
  <2>1. Coming(u, store, LeftOf(restore), f.image) /\ ~failed
    BY <1>2, <1>4, <1>6 DEF Replayed
  <2>2. u.phase \in Phases
    BY <1>4, DrillPages DEF Replayed
  <2>3. \A i \in DOMAIN LeftOf(restore) : \/ Applied(LeftOf(restore)[i], st)
                                          \/ \E j \in DOMAIN Tail(restore.items) : Tail(restore.items)[j] = LeftOf(restore)[i]
    <3>1. CASE restore.at = "item"
      BY <1>3, <2>1, <3>1 DEF LeftOf
    <3>2. CASE restore.at # "item"
      BY <3>2 DEF LeftOf
    <3> QED
      BY <3>1, <3>2
  <2> QED
    BY <2>1, <2>2, <2>3, ComingOn
<1>7. restore'.clean => \A u \in ToSet(f.pages[k + 1]) : Coming(u, st, LeftOf(restore'), f.image)
  BY <1>2, <1>6 DEF LeftOf
<1>8. PutsAre(restore', bk)
  BY <1>2 DEF PutsAre, Empty
<1> QED
  BY <1>2, <1>4, <1>5, <1>7, <1>8 DEF Replayed

\* Versions keep their bytes while theirs are left alone.
LEMMA BytesStay ==
  ASSUME NEW I, NEW st, NEW bk, NEW bl, VersionsPart(I, st, bk, bl), NEW new, NEW more, bl \subseteq more,
         \A x \in DOMAIN st.versions : st.versions[x].key \in DOMAIN new =>
           st.versions[x].key \in DOMAIN bk /\ new[st.versions[x].key] = bk[st.versions[x].key],
         \A x \in DOMAIN st.versions : x[1] \notin more /\ st.versions[x].key \in DOMAIN bk =>
           st.versions[x].key \in DOMAIN new
  PROVE  VersionsPart(I, st, new, more)
BY DEF VersionsPart, VersionPart, BytesAre

\* The item is from the image.
LEMMA ItemIsFrom ==
  ASSUME NEW own, NEW f, NEW k, Drilling(own, f, k),
         restore.at \in {"item", "purge", "derive", "search"}, restore.items # <<>>
  PROVE  /\ ItemFrom(f.image, Item) /\ Item \in ItemsOf(own)
         /\ Replayed(f, k, restore, store, bucket)
         /\ Part(f.image, store, bucket, fate.blamed) /\ Back(f, k, store)
         /\ DOMAIN restore = {"at", "items", "clean", "puts", "text"}
<1>1. /\ restore.items \in Seq(ItemsOf(own)) /\ Item \in ItemsOf(own)
      /\ DOMAIN restore = {"at", "items", "clean", "puts", "text"}
  BY RestoringIs DEF Drilling
<1>2. Item = restore.items[1] /\ 1 \in DOMAIN restore.items
  BY <1>1, TailOf DEF Item
<1>3. /\ Replayed(f, k, restore, store, bucket)
      /\ Part(f.image, store, bucket, fate.blamed) /\ Back(f, k, store)
  BY DEF Drilling, Drills
<1> QED
  BY <1>1, <1>2, <1>3 DEF Replayed, ItemsFrom

\* A row applied, or refused, in the drill.
LEMMA RowsDrill ==
  ASSUME NEW own, NEW f, NEW k, Drilling(own, f, k), ApplyRow
  PROVE  Drills(f, k, store', bucket', fate'.blamed, restore')
<1>1. /\ restore.at = "item" /\ restore.items # <<>> /\ AtItem(Phases \ {"documents"})
      /\ Item.kind \in Phases \ {"documents"}
      /\ UNCHANGED <<bucket, nonce, clock, export, file, shelf, fate>>
  BY DEF ApplyRow, AtItem
<1>2. /\ ItemFrom(f.image, Item) /\ Part(f.image, store, bucket, fate.blamed) /\ Back(f, k, store)
  BY <1>1, ItemIsFrom
<1>3. DOMAIN store = Tables
  BY DrillPages
<1>4. CASE /\ store' = [store EXCEPT ![Item.kind] = Put(@, Item.id, Item.row)]
           /\ NextItem(FALSE)
  <2> DEFINE kind == Item.kind
             id == Item.id
             row == Item.row
             I == f.image
  <2>1. kind \in Plain \union {"slug_tombstones"} /\ kind \in Tables
    BY <1>1, PhasesAre, TablesAre DEF Plain
  <2>2. /\ store'[kind] = [z \in DOMAIN store[kind] \union {id} |-> IF z = id THEN row ELSE store[kind][z]]
        /\ \A p \in Tables \ {kind} : store'[p] = store[p]
    <3> HIDE DEF kind, id, row
    <3>1. store' = [store EXCEPT ![kind] = Put(store[kind], id, row)]
      BY <1>4 DEF kind, id, row
    <3>2. store'[kind] = Put(store[kind], id, row) /\ \A p \in Tables \ {kind} : store'[p] = store[p]
      BY <1>3, <2>1, <3>1
    <3> QED
      BY <3>2, PutIs
  <2>3. FromRow(I, kind, id, row)
    BY <1>2, <2>1 DEF ItemFrom, Plain
  <2> HIDE DEF kind, id, row, I
  <2>4. RowsPart(I, store')
    <3> SUFFICES ASSUME NEW p \in Plain \union {"slug_tombstones"}, NEW i \in DOMAIN store'[p]
                 PROVE  FromRow(I, p, i, store'[p][i])
      BY DEF RowsPart
    <3>1. p \in Tables
      BY TablesAre DEF Plain
    <3>2. \A j \in DOMAIN store[p] : FromRow(I, p, j, store[p][j])
      BY <1>2 DEF Part, RowsPart, I
    <3>3. CASE p = kind
      <4>1. i = id \/ (i # id /\ i \in DOMAIN store[p])
        BY <2>2, <3>3
      <4>2. CASE i = id
        BY <2>2, <2>3, <3>3, <4>2
      <4>3. CASE i # id /\ i \in DOMAIN store[p]
        BY <2>2, <3>2, <3>3, <4>3
      <4> QED
        BY <4>1, <4>2, <4>3
    <3>4. CASE p # kind
      BY <2>2, <3>1, <3>2, <3>4
    <3> QED
      BY <3>3, <3>4
  <2>5. /\ store'.documents = store.documents /\ store'.versions = store.versions
        /\ store'.documents_fts = store.documents_fts
    BY <2>1, <2>2, TablesAre DEF Plain
  <2>6. Part(I, store', bucket', fate'.blamed)
    BY <1>1, <1>2, <2>4, <2>5 DEF Part, DocsPart, VersionsPart, SearchPart, I
  <2>7. Grows(store, store')
    <3> SUFFICES ASSUME NEW p \in Phases \union {"versions"} PROVE DOMAIN store[p] \subseteq DOMAIN store'[p]
      BY DEF Grows
    <3>1. p \in Tables
      BY DEF Tables
    <3> QED
      BY <2>2, <3>1
  <2>8. Back(f, k, store')
    BY <1>2, <2>7, BackOn, DrillPages
  <2>9. Applied(Item, store')
    BY <2>1, <2>2 DEF Applied, Plain, kind, id
  <2>10. Replayed(f, k, restore', store', bucket')
    BY <1>1, <1>4, <2>7, <2>9, NextReplays
  <2> QED
    BY <2>6, <2>8, <2>10 DEF Drills, I
<1>5. CASE NextItem(TRUE) /\ UNCHANGED store
  <2>1. Replayed(f, k, restore', store', bucket')
    BY <1>1, <1>5, NextReplays
  <2> QED
    BY <1>1, <1>2, <1>5, <2>1 DEF Drills
<1> QED
  BY <1>4, <1>5 DEF ApplyRow

\* A blob written, or not, in the drill.
LEMMA PutsDrill ==
  ASSUME NEW own, NEW f, NEW k, Drilling(own, f, k), PutBlobs
  PROVE  Drills(f, k, store', bucket', fate'.blamed, restore')
<1>1. /\ restore.at = "item" /\ restore.items # <<>> /\ Item.kind \in {"documents", "versions"}
      /\ UNCHANGED <<store, clock, export, file, shelf, fate>>
  BY DEF PutBlobs, AtItem
<1>2. /\ Item \in ItemsOf(own) /\ Part(f.image, store, bucket, fate.blamed) /\ Back(f, k, store)
      /\ Replayed(f, k, restore, store, bucket)
      /\ DOMAIN restore = {"at", "items", "clean", "puts", "text"}
  BY <1>1, ItemIsFrom
<1>3. CASE NextItem(TRUE) /\ UNCHANGED bucket
  <2>1. Replayed(f, k, restore', store', bucket')
    BY <1>1, <1>3, NextReplays
  <2> QED
    BY <1>1, <1>2, <1>3, <2>1 DEF Drills
<1>4. ASSUME NEW no \in Unput,
             bucket' = Put(bucket, nonce + 1, Item.versions[no].rec.text),
             restore' = [restore EXCEPT !.puts = Put(@, no, nonce + 1)]
      PROVE  Drills(f, k, store', bucket', fate'.blamed, restore')
  <2> DEFINE key == nonce + 1
             text == Item.versions[no].rec.text
  <2>1. bucket' = [z \in DOMAIN bucket \union {key} |-> IF z = key THEN text ELSE bucket[z]]
    BY <1>4, PutIs
  <2>2. /\ restore'.at = "item" /\ restore'.items = restore.items /\ restore'.clean = restore.clean
        /\ restore'.puts = [n \in DOMAIN restore.puts \union {no} |-> IF n = no THEN key ELSE restore.puts[n]]
    <3>1. /\ restore'.at = "item" /\ restore'.items = restore.items /\ restore'.clean = restore.clean
          /\ restore'.puts = Put(restore.puts, no, key)
      BY <1>1, <1>2, <1>4
    <3> QED
      BY <3>1, PutIs
  <2>3. /\ key \notin 1..nonce
        /\ \A x \in DOMAIN store.versions : store.versions[x].key \in 1..nonce
        /\ \A n \in DOMAIN restore.puts : restore.puts[n] \in 1..nonce
    <3>1. World(own)
      BY DEF Drilling
    <3>2. \A n \in DOMAIN restore.puts : restore.puts[n] \in Keys(own, <<Item.id, n>>)
      BY <1>1, <3>1, RestoringIs
    <3>3. /\ \A x : Keys(own, x) \subseteq 1..nonce /\ key \notin 1..nonce
          /\ \A x \in DOMAIN store.versions : store.versions[x].key \in Keys(own, x)
      BY <3>1, KeysApart
    <3> HIDE DEF key
    <3> QED
      BY <3>2, <3>3
  <2> HIDE DEF key, text
  <2>4. \A z \in 1..nonce : /\ z \in DOMAIN bucket' => z \in DOMAIN bucket /\ bucket'[z] = bucket[z]
                            /\ z \in DOMAIN bucket => z \in DOMAIN bucket'
    BY <2>1, <2>3
  <2>5. VersionsPart(f.image, store', bucket', fate'.blamed)
    <3>1. VersionsPart(f.image, store, bucket, fate.blamed)
      BY <1>2 DEF Part
    <3>2. VersionsPart(f.image, store, bucket', fate.blamed)
      BY <2>3, <2>4, <3>1, BytesStay
    <3> QED
      BY <1>1, <3>2
  <2>6. Part(f.image, store', bucket', fate'.blamed) /\ Back(f, k, store')
    BY <1>1, <1>2, <2>5 DEF Part
  <2>7. PutsAre(restore', bucket')
    <3> SUFFICES ASSUME NEW n \in DOMAIN restore'.puts
                 PROVE  /\ restore'.puts[n] \in DOMAIN bucket'
                        /\ bucket'[restore'.puts[n]] = Head(restore'.items).versions[n].rec.text
      BY DEF PutsAre
    <3>1. CASE n = no
      <4>1. restore'.puts[n] = key /\ key \in DOMAIN bucket' /\ bucket'[key] = text
        BY <2>1, <2>2, <3>1
      <4> QED
        BY <2>2, <3>1, <4>1 DEF text, Item
    <3>2. CASE n # no
      <4>1. n \in DOMAIN restore.puts /\ restore'.puts[n] = restore.puts[n]
        BY <2>2, <3>2
      <4>2. restore.puts[n] \in DOMAIN bucket /\ bucket[restore.puts[n]] = Head(restore.items).versions[n].rec.text
        BY <1>1, <1>2, <4>1 DEF Replayed, PutsAre
      <4> QED
        BY <2>2, <2>3, <2>4, <4>1, <4>2
    <3> QED
      BY <3>1, <3>2
  <2>8. Replayed(f, k, restore', store', bucket')
    <3>1. LeftOf(restore') = LeftOf(restore)
      BY <1>1, <2>2 DEF LeftOf
    <3> QED
      BY <1>1, <1>2, <2>2, <2>7, <3>1 DEF Replayed
  <2> QED
    BY <2>6, <2>8 DEF Drills
<1> DEFINE least == CHOOSE n \in Unput : \A m \in Unput : n <= m
<1>5. least \in Unput
  <2>1. DOMAIN Item.versions \subseteq Nat \ {0}
    BY <1>1, <1>2, ItemKinds
  <2>2. Unput \subseteq Nat /\ Unput # {}
    BY <2>1 DEF Unput, PutBlobs
  <2>3. \A S : (S \subseteq Nat /\ S # {}) => (CHOOSE n \in S : \A m \in S : n <= m) \in S
    BY LeastOf
  <2> QED
    BY <2>2, <2>3
<1> QED
  BY <1>3, <1>4, <1>5 DEF PutBlobs

\* A list is its first and the others.
LEMMA TailHas ==
  ASSUME NEW S, NEW s \in Seq(S), s # <<>>
  PROVE  \A i \in DOMAIN s : s[i] = Head(s) \/ \E j \in DOMAIN Tail(s) : Tail(s)[j] = s[i]
<1>1. /\ Head(s) = s[1]
      /\ \A i \in DOMAIN Tail(s) : i + 1 \in DOMAIN s /\ Tail(s)[i] = s[i + 1]
  BY TailOf
<1>2. Len(s) \in Nat /\ DOMAIN s = 1..Len(s) /\ DOMAIN Tail(s) = 1..Len(s) - 1
  OBVIOUS
<1>3. ASSUME NEW i \in 1..Len(s), i # 1 PROVE i - 1 \in DOMAIN Tail(s) /\ Tail(s)[i - 1] = s[i]
  <2>1. i - 1 \in 1..Len(s) - 1 /\ (i - 1) + 1 = i
    BY <1>2, <1>3
  <2> QED
    BY <1>1, <1>2, <2>1
<1> QED
  BY <1>1, <1>2, <1>3

\* What a unit's versions are once it is written: as they were.
LEMMA UnitIsFrom ==
  ASSUME NEW own, NEW f, NEW k, Drilling(own, f, k), AtItem({"documents", "versions"}), Unput = {}
  PROVE  /\ VersionsPart(f.image, [store EXCEPT !.versions = UnitVersions], bucket, fate.blamed)
         /\ DOMAIN store.versions \subseteq DOMAIN UnitVersions
         /\ \A no \in DOMAIN Item.versions : <<Item.id, no>> \in DOMAIN UnitVersions
<1> DEFINE I == f.image
           d == Item.id
           new == [store EXCEPT !.versions = UnitVersions]
<1>1. /\ restore.at = "item" /\ restore.items # <<>> /\ Item.kind \in {"documents", "versions"}
  BY DEF AtItem
<1>2. /\ ItemFrom(I, Item) /\ Item \in ItemsOf(own) /\ Part(I, store, bucket, fate.blamed)
      /\ PutsAre(restore, bucket)
  BY <1>1, ItemIsFrom DEF Replayed
<1>3. Item.extra = {}
  BY <1>1, <1>2, ItemKinds DEF ItemFrom
<1>4. \A no \in DOMAIN Item.versions : VersionFrom(I, d, no, Item.versions[no])
  BY <1>1, <1>2 DEF ItemFrom
<1>5. /\ DOMAIN UnitVersions = DOMAIN store.versions \union Chosen
      /\ \A no \in DOMAIN Item.versions :
           <<d, no>> \in DOMAIN UnitVersions /\ UnitVersions[<<d, no>>] = RowOf(no)
      /\ \A x \in DOMAIN UnitVersions \ Chosen :
           x \in DOMAIN store.versions /\ UnitVersions[x] = store.versions[x]
  BY <1>3, UnitVersionsAre DEF Drilling
<1>6. new.versions = UnitVersions
  BY DrillPages, TablesAre
<1> HIDE DEF new, I
<1>7. ASSUME NEW no \in DOMAIN Item.versions
      PROVE  VersionPart(I, d, no, RowOf(no), bucket, fate.blamed)
  <2> DEFINE plan == Item.versions[no]
             row == RowOf(no)
  <2>1. row.by = plan.rec.by /\ row.key = IF plan.prep THEN restore.puts[no] ELSE plan.rec.key
    BY DEF RowOf
  <2>2. VersionFrom(I, d, no, plan)
    BY <1>4
  <2>3. ASSUME WasLive(I, d) PROVE BytesAre(I, d, no, row.key, bucket, fate.blamed)
    <3>1. plan.prep /\ plan.rec.text = TextIn(I, d, no)
      BY <2>2, <2>3 DEF VersionFrom
    <3>2. no \in DOMAIN restore.puts
      BY <3>1 DEF Unput
    <3>3. restore.puts[no] \in DOMAIN bucket /\ bucket[restore.puts[no]] = plan.rec.text
      BY <1>2, <3>2 DEF PutsAre, Item
    <3> HIDE DEF plan, row
    <3> QED
      BY <2>1, <3>1, <3>3 DEF BytesAre
  <2> HIDE DEF plan, row
  <2>4. VersionPart(I, d, no, row, bucket, fate.blamed)
    BY <2>1, <2>2, <2>3 DEF VersionPart, VersionFrom
  <2> QED
    BY <2>4 DEF row
<1>8. ASSUME NEW x \in DOMAIN UnitVersions
      PROVE  VersionPart(I, x[1], x[2], UnitVersions[x], bucket, fate.blamed)
  <2>1. CASE x \in Chosen
    <3>1. PICK no \in DOMAIN Item.versions : x = <<d, no>>
      BY <2>1 DEF Chosen
    <3>2. x[1] = d /\ x[2] = no /\ UnitVersions[x] = RowOf(no)
      BY <1>5, <3>1
    <3> HIDE DEF d
    <3> QED
      BY <1>7, <3>2 DEF d
  <2>2. CASE x \notin Chosen
    BY <1>2, <1>5, <2>2 DEF Part, VersionsPart
  <2> QED
    BY <2>1, <2>2
<1>9. VersionsPart(I, new, bucket, fate.blamed)
  BY <1>6, <1>8 DEF VersionsPart
<1> QED
  BY <1>5, <1>9 DEF new, I

\* A unit written brings its document back.
LEMMA UnitIsBack ==
  ASSUME NEW own, NEW f, NEW k, Drilling(own, f, k), AtItem({"documents", "versions"}), Unput = {},
         store' = UnitStore
  PROVE  /\ Part(f.image, store', bucket, fate.blamed)
         /\ Grows(store, store') /\ Applied(Item, store')
<1> DEFINE I == f.image
           d == Item.id
           row == Item.row
           text == Item.versions[row.cur].rec.text
<1>1. /\ restore.at = "item" /\ restore.items # <<>> /\ Item.kind \in {"documents", "versions"}
  BY DEF AtItem
<1>2. /\ ItemFrom(I, Item) /\ Item \in ItemsOf(own) /\ Part(I, store, bucket, fate.blamed)
  BY <1>1, ItemIsFrom
<1>3. DOMAIN store = Tables /\ Sound(I.store)
  BY DrillPages
<1>4. /\ store'.versions = UnitVersions
      /\ \A p \in Plain \union {"slug_tombstones"} : store'[p] = store[p]
      /\ Item.kind = "versions" => store'.documents = store.documents /\ store'.documents_fts = store.documents_fts
      /\ Item.kind = "documents" =>
           /\ store'.documents = Put(store.documents, d, row)
           /\ store'.documents_fts = IF row.live THEN Put(store.documents_fts, d, text)
                                     ELSE Without(store.documents_fts, {d})
  <2>1. CASE Item.kind = "versions"
    BY <1>3, <2>1, TablesAre DEF UnitStore, Plain
  <2>2. CASE Item.kind = "documents"
    BY <1>3, <2>2, TablesAre DEF UnitStore, Plain
  <2> QED
    BY <1>1, <2>1, <2>2
<1>5. /\ VersionsPart(I, [store EXCEPT !.versions = UnitVersions], bucket, fate.blamed)
      /\ DOMAIN store.versions \subseteq DOMAIN UnitVersions
      /\ \A no \in DOMAIN Item.versions : <<d, no>> \in DOMAIN UnitVersions
  BY UnitIsFrom
<1> HIDE DEF I, d, row, text
<1>6. VersionsPart(I, store', bucket, fate.blamed)
  <2>1. [store EXCEPT !.versions = UnitVersions].versions = UnitVersions
    BY <1>3, TablesAre
  <2> QED
    BY <1>4, <1>5, <2>1 DEF VersionsPart
<1>7. RowsPart(I, store')
  BY <1>2, <1>4 DEF Part, RowsPart
<1>8. CASE Item.kind = "versions"
  <2>1. DocsPart(I, store') /\ SearchPart(I, store')
    BY <1>2, <1>4, <1>8 DEF Part, DocsPart, SearchPart
  <2>2. Grows(store, store')
    BY <1>4, <1>5, <1>8, PhasesAre DEF Grows, Plain
  <2>3. Applied(Item, store')
    BY <1>4, <1>5, <1>8, PhasesAre DEF Applied, d
  <2> QED
    BY <1>6, <1>7, <2>1, <2>2, <2>3 DEF Part, I
<1>9. CASE Item.kind = "documents"
  <2>1. AsWas(I, d, row) /\ \A no \in DOMAIN Item.versions : VersionFrom(I, d, no, Item.versions[no])
    BY <1>2, <1>9 DEF ItemFrom, d, row
  <2>2. row \in Columns("documents") /\ Renderable(Item)
    BY <1>2, <1>9, ItemKinds DEF row
  <2>3. store'.documents = [z \in DOMAIN store.documents \union {d} |-> IF z = d THEN row ELSE store.documents[z]]
    BY <1>4, <1>9, PutIs
  <2>4. DocsPart(I, store')
    BY <1>2, <2>1, <2>3 DEF Part, DocsPart
  <2>5. row.live => text = TextIn(I, d, row.cur)
    <3> SUFFICES ASSUME row.live PROVE text = TextIn(I, d, row.cur)
      OBVIOUS
    <3>1. row.cur \in DOMAIN Item.versions
      BY <2>2 DEF Renderable, Needs, WholeRow, row
    <3>2. WasLive(I, d)
      <4>1. I.store.documents[d] \in Columns("documents")
        BY <1>3, <2>1, CellOf DEF AsWas, I
      <4>2. [I.store.documents[d] EXCEPT !.slug = 0].live = I.store.documents[d].live
        BY <4>1 DEF Columns
      <4> QED
        BY <2>1, <4>2 DEF AsWas, WasLive
    <3> QED
      BY <2>1, <3>1, <3>2 DEF VersionFrom, text
  <2>6. /\ DOMAIN store.documents_fts = {e \in DOMAIN store.documents : store.documents[e].live}
        /\ \A e \in DOMAIN store.documents_fts : store.documents_fts[e] = TextIn(I, e, store.documents[e].cur)
    BY <1>2 DEF Part, SearchPart
  <2>7. SearchPart(I, store')
    <3>1. CASE row.live
      <4>1. store'.documents_fts = [z \in DOMAIN store.documents_fts \union {d} |->
                                      IF z = d THEN text ELSE store.documents_fts[z]]
        BY <1>4, <1>9, <3>1, PutIs
      <4> QED
        BY <2>3, <2>5, <2>6, <3>1, <4>1 DEF SearchPart
    <3>2. CASE ~row.live
      <4>1. store'.documents_fts = [z \in DOMAIN store.documents_fts \ {d} |-> store.documents_fts[z]]
        BY <1>4, <1>9, <3>2 DEF Without
      <4> QED
        BY <2>3, <2>6, <3>2, <4>1 DEF SearchPart
    <3> QED
      BY <3>1, <3>2
  <2>8. Grows(store, store')
    BY <1>4, <1>5, <2>3, PhasesAre DEF Grows, Plain
  <2>9. Applied(Item, store')
    BY <1>4, <1>5, <1>9, <2>3 DEF Applied, d
  <2> QED
    BY <1>6, <1>7, <2>4, <2>7, <2>8, <2>9 DEF Part, I
<1> QED
  BY <1>1, <1>8, <1>9

\* A unit committed, or rolled back, in the drill.
LEMMA CommitsDrill ==
  ASSUME NEW own, NEW f, NEW k, Drilling(own, f, k), CommitUnit
  PROVE  Drills(f, k, store', bucket', fate'.blamed, restore')
<1>1. /\ restore.at = "item" /\ restore.items # <<>> /\ Item.kind \in {"documents", "versions"}
      /\ AtItem({"documents", "versions"}) /\ Unput = {}
      /\ UNCHANGED <<nonce, clock, export, file, shelf, fate>>
  BY DEF CommitUnit, AtItem
<1>2. /\ Item \in ItemsOf(own) /\ Part(f.image, store, bucket, fate.blamed) /\ Back(f, k, store)
      /\ Replayed(f, k, restore, store, bucket)
      /\ DOMAIN restore = {"at", "items", "clean", "puts", "text"}
  BY <1>1, ItemIsFrom
<1>3. CASE store' = UnitStore /\ At("purge") /\ UNCHANGED bucket
  <2>1. /\ Part(f.image, store', bucket', fate'.blamed)
        /\ Grows(store, store') /\ Applied(Item, store')
    BY <1>1, <1>3, UnitIsBack
  <2>2. Back(f, k, store')
    BY <1>2, <2>1, BackOn, DrillPages
  <2>3. restore'.at = "purge" /\ restore'.items = restore.items /\ restore'.clean = restore.clean
    BY <1>2, <1>3 DEF At
  <2>4. restore.items \in Seq(ItemsOf(own))
    BY <1>1, RestoringIs DEF Drilling
  <2>5. \A i \in DOMAIN restore.items : \/ Applied(restore.items[i], store')
                                        \/ \E j \in DOMAIN Tail(restore.items) : Tail(restore.items)[j] = restore.items[i]
    BY <1>1, <2>1, <2>4, TailHas DEF Item
  <2>6. ASSUME restore.clean, NEW u \in ToSet(f.pages[k + 1])
        PROVE  Coming(u, store', Tail(restore.items), f.image)
    <3>1. Coming(u, store, restore.items, f.image)
      BY <1>1, <1>2, <2>6 DEF Replayed, LeftOf
    <3>2. u.phase \in Phases
      BY <1>2, DrillPages DEF Replayed
    <3> QED
      BY <2>1, <2>5, <3>1, <3>2, ComingOn
  <2>7. Replayed(f, k, restore', store', bucket')
    BY <1>2, <2>3, <2>6 DEF Replayed, LeftOf
  <2> QED
    BY <2>1, <2>2, <2>7 DEF Drills
<1>4. CASE RollBack /\ UNCHANGED store
  <2>1. NextItem(TRUE) /\ bucket' \in {Without(bucket, Minted), bucket}
    BY <1>4 DEF RollBack
  <2>2. Replayed(f, k, restore', store', bucket')
    BY <1>1, <2>1, NextReplays
  <2>3. \A x \in DOMAIN store.versions : store.versions[x].key \notin Minted
    BY <1>1 DEF Drilling, Serving, PutsKept, Minted
  <2>4. /\ \A z \in DOMAIN bucket' : z \in DOMAIN bucket /\ bucket'[z] = bucket[z]
        /\ \A z \in DOMAIN bucket \ Minted : z \in DOMAIN bucket'
    BY <2>1 DEF Without
  <2>5. VersionsPart(f.image, store, bucket', fate.blamed)
    <3>1. VersionsPart(f.image, store, bucket, fate.blamed)
      BY <1>2 DEF Part
    <3> QED
      BY <2>3, <2>4, <3>1, BytesStay
  <2>6. Part(f.image, store', bucket', fate'.blamed)
    BY <1>1, <1>2, <1>4, <2>5 DEF Part
  <2> QED
    BY <1>2, <1>4, <2>2, <2>6 DEF Drills
<1> QED
  BY <1>3, <1>4 DEF CommitUnit

\* Nothing grows when nothing changes.
LEMMA StaysTheSame ==
  ASSUME UNCHANGED store
  PROVE  Grows(store, store')
BY DEF Grows

\* A unit's purge in the drill: there is nothing to purge.
LEMMA PurgesDrill ==
  ASSUME NEW own, NEW f, NEW k, Drilling(own, f, k), PurgeOld
  PROVE  Drills(f, k, store', bucket', fate'.blamed, restore')
<1>1. restore.at = "purge" /\ UNCHANGED <<store, nonce, clock, export, file, shelf, fate>>
  BY DEF PurgeOld
<1>2. restore.items # <<>> /\ Item.kind \in {"documents", "versions"}
  BY <1>1, RestoringIs DEF Drilling, AtUnit, Item
<1>3. /\ ItemFrom(f.image, Item) /\ Item \in ItemsOf(own) /\ Part(f.image, store, bucket, fate.blamed)
      /\ Back(f, k, store) /\ Replayed(f, k, restore, store, bucket)
      /\ DOMAIN restore = {"at", "items", "clean", "puts", "text"}
  BY <1>1, <1>2, ItemIsFrom
<1>4. OldKeys = {} /\ Item.extraKeys = {}
  <2>1. Item.extraKeys = {}
    BY <1>2, <1>3, ItemKinds DEF ItemFrom
  <2>2. \A no \in DOMAIN Item.versions : Item.versions[no].old = {}
    BY <1>2, <1>3 DEF ItemFrom, VersionFrom
  <2> QED
    BY <2>1, <2>2 DEF OldKeys
<1>5. DOMAIN bucket' = DOMAIN bucket /\ \A z \in DOMAIN bucket : bucket'[z] = bucket[z]
  <2>1. bucket' \in {Without(bucket, {}), bucket}
    BY <1>4 DEF PurgeOld
  <2> QED
    BY <2>1 DEF Without
<1>6. Part(f.image, store', bucket', fate'.blamed) /\ Back(f, k, store')
  <2>1. VersionsPart(f.image, store, bucket, fate.blamed)
    BY <1>3 DEF Part
  <2>2. VersionsPart(f.image, store, bucket', fate.blamed)
    BY <1>5, <2>1, BytesStay
  <2> QED
    BY <1>1, <1>3, <2>2 DEF Part
<1>7. CASE At("derive")
  <2>1. restore'.at = "derive" /\ restore'.items = restore.items /\ restore'.clean = restore.clean
    BY <1>3, <1>7 DEF At
  <2>2. LeftOf(restore') = LeftOf(restore)
    BY <1>1, <2>1 DEF LeftOf
  <2>3. Replayed(f, k, restore', store', bucket')
    BY <1>1, <1>3, <2>1, <2>2 DEF Replayed
  <2> QED
    BY <1>6, <2>3 DEF Drills
<1>8. CASE NextItem(FALSE)
  <2>1. Replayed(f, k, restore', store', bucket')
    BY <1>1, <1>2, <1>8, NextReplays, StaysTheSame
  <2> QED
    BY <1>6, <2>1 DEF Drills
<1> QED
  BY <1>7, <1>8 DEF PurgeOld

\* A derivation that fails in the drill: its document is blamed.
LEMMA FailsDrill ==
  ASSUME NEW own, NEW f, NEW k, Drilling(own, f, k), restore.at \in {"derive", "search"}, DeriveFails
  PROVE  Drills(f, k, store', bucket', fate'.blamed, restore')
<1>0. World(own)
  BY DEF Drilling
<1>1. AtUnit(restore) /\ restore.items # <<>>
  BY <1>0, RestoringIs DEF AtUnit
<1>2. /\ Part(f.image, store, bucket, fate.blamed) /\ Back(f, k, store)
  BY <1>1, ItemIsFrom
<1>3. fate'.blamed = fate.blamed \union {Item.id} /\ UNCHANGED store /\ NextItem(TRUE)
      /\ bucket' \in {Without(bucket, Minted), bucket}
  BY <1>0 DEF DeriveFails, RollBack, World, Remembered
<1>4. ASSUME NEW x \in DOMAIN store.versions, store.versions[x].key \in Minted
      PROVE  x[1] \in fate'.blamed
  <2>1. PICK no : store.versions[x].key \in Keys(own, <<Item.id, no>>)
    BY <1>0, <1>1, <1>4, UnitKeys
  <2>2. x = <<Item.id, no>>
    BY <1>0, <2>1, KeysApart
  <2> QED
    BY <1>3, <2>2
<1>5. /\ \A z \in DOMAIN bucket' : z \in DOMAIN bucket /\ bucket'[z] = bucket[z]
      /\ \A z \in DOMAIN bucket \ Minted : z \in DOMAIN bucket'
  BY <1>3 DEF Without
<1>6. VersionsPart(f.image, store, bucket', fate'.blamed)
  <2>1. VersionsPart(f.image, store, bucket, fate.blamed)
    BY <1>2 DEF Part
  <2> QED
    BY <1>3, <1>4, <1>5, <2>1, BytesStay
<1>7. Part(f.image, store', bucket', fate'.blamed) /\ Back(f, k, store')
  BY <1>2, <1>3, <1>6 DEF Part
<1>8. Replayed(f, k, restore', store', bucket')
  BY <1>1, <1>3, NextReplays
<1> QED
  BY <1>7, <1>8 DEF Drills

\* What is read back to derive from is the current text.
LEMMA ReadsDrill ==
  ASSUME NEW own, NEW f, NEW k, Drilling(own, f, k), DeriveRead
  PROVE  Drills(f, k, store', bucket', fate'.blamed, restore')
<1>1. restore.at = "derive"
  BY DEF DeriveRead
<1>2. restore.items # <<>>
  BY <1>1, RestoringIs DEF Drilling, AtUnit
<1>3. /\ Part(f.image, store, bucket, fate.blamed)
      /\ Back(f, k, store) /\ Replayed(f, k, restore, store, bucket)
      /\ DOMAIN restore = {"at", "items", "clean", "puts", "text"}
  BY <1>1, <1>2, ItemIsFrom
<1>4. CASE DeriveFails
  BY <1>1, <1>4, FailsDrill
<1>5. CASE NextItem(FALSE) /\ UNCHANGED <<store, bucket, fate>>
  <2>1. Replayed(f, k, restore', store', bucket')
    BY <1>1, <1>2, <1>5, NextReplays, StaysTheSame
  <2> QED
    BY <1>3, <1>5, <2>1 DEF Drills
<1> DEFINE d == Item.id
           cur == store.documents[d].cur
           key == store.versions[<<d, cur>>].key
           I == f.image
<1>6. CASE /\ Live(d) /\ <<d, cur>> \in DOMAIN store.versions /\ key \in DOMAIN bucket
           /\ restore' = [restore EXCEPT !.at = "search", !.text = bucket[key]]
           /\ UNCHANGED <<store, bucket, fate>>
  <2>1. /\ restore'.at = "search" /\ restore'.items = restore.items /\ restore'.clean = restore.clean
        /\ restore'.text = bucket[key]
    BY <1>3, <1>6
  <2>2. d \in DOMAIN store.documents /\ store.documents[d].live
    BY <1>6 DEF Live, Docs
  <2>3. WasLive(I, d)
    <3>1. AsWas(I, d, store.documents[d])
      BY <1>3, <2>2 DEF Part, DocsPart
    <3>2. I.store.documents[d] \in Columns("documents")
      BY <3>1, DrillPages, CellOf DEF AsWas
    <3>3. [I.store.documents[d] EXCEPT !.slug = 0].live = I.store.documents[d].live
      BY <3>2 DEF Columns
    <3> QED
      BY <2>2, <3>1, <3>3 DEF AsWas, WasLive
  <2> DEFINE x == <<d, cur>>
  <2>4. VersionPart(I, d, cur, store.versions[<<d, cur>>], bucket, fate.blamed)
    <3>1. x \in DOMAIN store.versions /\ x[1] = d /\ x[2] = cur
      BY <1>6
    <3>2. VersionPart(I, x[1], x[2], store.versions[x], bucket, fate.blamed)
      BY <1>3, <3>1 DEF Part, VersionsPart
    <3> QED
      BY <3>1, <3>2
  <2>5. bucket[key] = TextIn(I, d, cur)
    BY <1>6, <2>3, <2>4 DEF VersionPart, BytesAre
  <2>6. TextIs(I, restore', store')
    <3>1. Head(restore'.items) = Item
      BY <2>1 DEF Item
    <3> HIDE DEF I
    <3> QED
      BY <1>6, <2>1, <2>2, <2>5, <3>1 DEF TextIs
  <2>7. LeftOf(restore') = LeftOf(restore)
    BY <1>1, <2>1 DEF LeftOf
  <2>8. Replayed(f, k, restore', store', bucket')
    <3> HIDE DEF d, cur, key
    <3> QED
      BY <1>1, <1>3, <1>6, <2>1, <2>6, <2>7 DEF Replayed, I
  <2> QED
    BY <1>3, <1>6, <2>8 DEF Drills
<1> QED
  BY <1>4, <1>5, <1>6 DEF DeriveRead

\* What is derived is the current text.
LEMMA WritesDrill ==
  ASSUME NEW own, NEW f, NEW k, Drilling(own, f, k), DeriveWrite
  PROVE  Drills(f, k, store', bucket', fate'.blamed, restore')
<1>1. restore.at = "search"
  BY DEF DeriveWrite
<1>2. restore.items # <<>>
  BY <1>1, RestoringIs DEF Drilling, AtUnit
<1>3. /\ Part(f.image, store, bucket, fate.blamed)
      /\ Back(f, k, store) /\ Replayed(f, k, restore, store, bucket)
  BY <1>1, <1>2, ItemIsFrom
<1>4. CASE DeriveFails
  BY <1>1, <1>4, FailsDrill
<1> DEFINE d == Item.id
           text == restore.text
           I == f.image
<1>5. CASE /\ store' = [store EXCEPT !.documents_fts = Put(@, d, text)]
           /\ NextItem(FALSE) /\ UNCHANGED <<bucket, fate>>
  <2> HIDE DEF d, text, I
  <2>1. DOMAIN store = Tables
    BY DrillPages
  <2>2. /\ store'.documents_fts = Put(store.documents_fts, d, text)
        /\ \A p \in Phases \union {"versions"} : store'[p] = store[p]
    BY <1>5, <2>1, TablesAre, PhasesAre
  <2>3. store'.documents = store.documents /\ store'.versions = store.versions
        /\ \A p \in Plain \union {"slug_tombstones"} : store'[p] = store[p]
    BY <2>2, PhasesAre DEF Plain
  <2>4. store'.documents_fts = [z \in DOMAIN store.documents_fts \union {d} |->
                                  IF z = d THEN text ELSE store.documents_fts[z]]
    BY <2>2, PutIs
  <2>5. d \in DOMAIN store.documents /\ store.documents[d].live
        /\ text = TextIn(I, d, store.documents[d].cur)
    BY <1>1, <1>3 DEF Replayed, TextIs, d, text, I, Item
  <2>6. SearchPart(I, store')
    <3>1. /\ DOMAIN store.documents_fts = {e \in DOMAIN store.documents : store.documents[e].live}
          /\ \A e \in DOMAIN store.documents_fts : store.documents_fts[e] = TextIn(I, e, store.documents[e].cur)
      BY <1>3 DEF Part, SearchPart, I
    <3> QED
      BY <2>3, <2>4, <2>5, <3>1 DEF SearchPart
  <2>7. Part(I, store', bucket', fate'.blamed)
    BY <1>3, <1>5, <2>3, <2>6 DEF Part, RowsPart, DocsPart, VersionsPart, I
  <2>8. Grows(store, store')
    BY <2>2 DEF Grows
  <2>9. Back(f, k, store')
    BY <1>3, <2>8, BackOn, DrillPages
  <2>10. Replayed(f, k, restore', store', bucket')
    BY <1>1, <1>2, <1>5, <2>8, NextReplays
  <2> QED
    BY <2>7, <2>9, <2>10 DEF Drills, I
<1> QED
  BY <1>4, <1>5 DEF DeriveWrite

\* Who follows the drill follows it throughout.
LEMMA DrillIsKept ==
  ASSUME NEW own, World(own), [Next]_vars
  PROVE  budget'.drill = budget.drill
<1>1. Remembered
  BY DEF World
<1>2. ASSUME NEW field, field # "drill", Spend(field) PROVE budget'.drill = budget.drill
  BY <1>1, <1>2 DEF Spend, Remembered
<1>3. ASSUME NEW kind, NEW st, NEW lost, NEW minted, Write(kind, st, lost, minted)
      PROVE  budget'.drill = budget.drill
  BY <1>2, <1>3 DEF Write
<1>4. CASE Writing
  BY <1>3, <1>4 DEF Writing, Enrol, Rebind, Publish, Update, Promote, Revoke, Rename, Release
<1>5. CASE Tick \/ Lose
  BY <1>2, <1>5 DEF Tick, Lose
<1>6. CASE Walking
  BY <1>2, <1>6 DEF Walking, StartWalk, FetchPhase, SelectVersions, ReadBlob, EmitDocument, CutPage, RequestPage
<1>7. CASE Submitting
  <2>1. ASSUME NEW f, NEW units, NEW replace, NEW refused, Submit(f, units, replace, refused)
        PROVE  budget'.drill = budget.drill
    BY <1>1, <2>1 DEF Submit, Remembered
  <2> QED
    BY <1>7, <2>1, SubmittedIs
<1>8. CASE Applying
  BY <1>2, <1>8 DEF Applying, ApplyRow, PutBlobs, CommitUnit, PurgeOld, DeriveRead, DeriveWrite, DeriveFails,
       Report, Crash
<1>9. CASE UNCHANGED vars
  BY <1>9 DEF vars
<1> QED
  BY <1>4, <1>5, <1>6, <1>7, <1>8, <1>9 DEF Next

\* The newest file is one of those finished.
LEMMA NewestIs ==
  ASSUME NEW own, World(own), shelf # <<>>
  PROVE  Last(shelf) \in ToSet(shelf)
<1>1. PICK T : shelf \in Seq(T)
  BY DEF World, IsShelf
<1>2. Len(shelf) \in DOMAIN shelf
  BY <1>1
<1> QED
  BY <1>2 DEF Last, ToSet

\* Both stores are lost: nothing is back, and nothing is wrong.
LEMMA LossDrills ==
  ASSUME NEW own, World(own), Walk, Quiet, Lose
  PROVE  Drills(Last(shelf), 0, store', bucket', fate'.blamed, restore')
<1> DEFINE f == Last(shelf)
<1>1. store' = EmptyStore /\ shelf # <<>> /\ ~Restoring /\ restore' = restore
  BY DEF Lose
<1>2. \A t \in Tables : DOMAIN store'[t] = {}
  BY <1>1 DEF EmptyStore, Empty
<1>3. f \in ToSet(shelf)
  BY <1>1, NewestIs
<1>4. IsFile(f, own)
  BY <1>3 DEF World, IsShelf, ToSet
<1> HIDE DEF f
<1>5. Part(f.image, store', bucket', fate'.blamed)
  BY <1>2, TablesAre DEF Part, RowsPart, DocsPart, VersionsPart, SearchPart, Plain
<1>6. Back(f, 0, store')
  <2>1. \A j \in DOMAIN f.pages : j \in Nat \ {0}
    BY <1>4 DEF IsFile
  <2> QED
    BY <2>1 DEF Back
<1>7. restore'.at = "idle"
  BY <1>1 DEF Restoring
<1> QED
  BY <1>5, <1>6, <1>7 DEF Drills, f

\* A page is submitted in the drill.
LEMMA SubmitDrills ==
  ASSUME NEW own, NEW k, Drilling(own, Last(shelf), k), fate.restored = k, budget.drill, Submitting
  PROVE  Drills(Last(shelf), k, store', bucket', fate'.blamed, restore')
<1>1. PICK g \in ToSet(shelf), replace \in BOOLEAN :
        \E units \in IF budget.drill THEN ToSet(g.pages) ELSE Pieces(g) :
          \E refused : Submit(g, units, replace, refused)
  BY SubmittedIs
<1>2. PICK units : \E refused : Submit(g, units, replace, refused)
  BY <1>1
<1>3. PICK refused : Submit(g, units, replace, refused)
  BY <1>2
<1> DEFINE f == Last(shelf)
           q == [units |-> units, st |-> store, replace |-> replace, refused |-> refused]
<1>4. /\ f = g /\ k \in 0..(Len(f.pages) - 1) /\ units = f.pages[k + 1] /\ replace = FALSE
      /\ UNCHANGED <<store, bucket, fate>>
  BY <1>3 DEF Submit, Drilled, world
<1>5. restore' = [at |-> "item", items |-> Items(q), clean |-> PlanIsClean(q), puts |-> Empty,
                  text |-> 0]
  BY <1>3 DEF Submit
<1>6. q.units = f.pages[k + 1] /\ q.st = store /\ q.replace = FALSE
  BY <1>4
<1>7. k + 1 \in DOMAIN f.pages
  <2>1. IsFile(f, own)
    BY DEF Drilling, World, IsShelf, ToSet
  <2> QED
    BY <1>4, <2>1 DEF IsFile
<1> HIDE DEF q, f
<1>8. InDrill(own, f, k, q)
  BY <1>6, <1>7 DEF InDrill, Drilling, Drills, f
<1>9. /\ ItemsFrom(f.image, Items(q))
      /\ PlanIsClean(q) => \A u \in ToSet(q.units) : Coming(u, store, Items(q), f.image)
  BY <1>8, PageIsPlanned
<1>10. /\ restore'.at = "item" /\ restore'.items = Items(q) /\ restore'.clean = PlanIsClean(q)
       /\ restore'.puts = Empty
  BY <1>5
<1>11. Replayed(f, k, restore', store', bucket')
  BY <1>4, <1>6, <1>7, <1>9, <1>10 DEF Replayed, LeftOf, PutsAre, Empty
<1> QED
  BY <1>4, <1>11 DEF Drilling, Drills, f

\* A report, which counts the page when it is clean.
LEMMA ReportDrills ==
  ASSUME NEW own, NEW k, Drilling(own, Last(shelf), k), fate.restored = k, budget.drill, Report
  PROVE  /\ fate'.restored \in Nat
         /\ Drills(Last(shelf), fate'.restored, store', bucket', fate'.blamed, restore')
<1> DEFINE f == Last(shelf)
<1>1. /\ restore.at = "item" /\ restore.items = <<>> /\ restore' = Idle /\ UNCHANGED <<store, bucket>>
      /\ fate' = [fate EXCEPT !.restored = IF restore.clean THEN k + 1 ELSE k]
  BY DEF Report, Drilling, world
<1>2. DOMAIN fate = {"restored", "blamed", "contested"}
  BY DEF Drilling, World, Remembered
<1>3. fate'.restored = (IF restore.clean THEN k + 1 ELSE k) /\ fate'.blamed = fate.blamed
  BY <1>1, <1>2
<1>4. restore'.at = "idle"
  BY <1>1 DEF Idle
<1>5. k \in Nat /\ Part(f.image, store, bucket, fate.blamed) /\ Back(f, k, store)
      /\ Replayed(f, k, restore, store, bucket)
  BY <1>1 DEF Drilling, Drills
<1>6. \A j \in DOMAIN f.pages : j \in Nat
  <2>1. IsFile(f, own)
    BY DEF Drilling, World, IsShelf, ToSet
  <2> QED
    BY <2>1 DEF IsFile
<1> HIDE DEF f
<1>7. CASE restore.clean
  <2>1. \A u \in ToSet(f.pages[k + 1]) : Coming(u, store, <<>>, f.image)
    BY <1>1, <1>5, <1>7 DEF Replayed, LeftOf
  <2>2. Back(f, k + 1, store)
    <3> SUFFICES ASSUME NEW j \in DOMAIN f.pages, j <= k + 1, NEW u \in ToSet(f.pages[j])
                 PROVE  Coming(u, store, <<>>, f.image)
      BY DEF Back
    <3>1. j <= k \/ j = k + 1
      BY <1>5, <1>6
    <3> QED
      BY <1>5, <2>1, <3>1 DEF Back
  <2> QED
    BY <1>1, <1>3, <1>4, <1>5, <1>7, <2>2 DEF Drills, f
<1>8. CASE ~restore.clean
  BY <1>1, <1>3, <1>4, <1>5, <1>8 DEF Drills, f
<1> QED
  BY <1>7, <1>8

\* A step of the restore goes on with the drill.
LEMMA ApplyingDrills ==
  ASSUME NEW own, NEW k, Drilling(own, Last(shelf), k), fate.restored = k, budget.drill, Applying
  PROVE  /\ fate'.restored \in Nat
         /\ Drills(Last(shelf), fate'.restored, store', bucket', fate'.blamed, restore')
<1> DEFINE f == Last(shelf)
<1>1. CASE Report
  BY <1>1, ReportDrills
<1>2. CASE Crash
  <2>1. restore' = Idle /\ UNCHANGED <<store, bucket, fate>>
    BY <1>2 DEF Crash, world
  <2>2. restore'.at = "idle"
    BY <2>1 DEF Idle
  <2> QED
    BY <2>1, <2>2 DEF Drills, Drilling
<1>3. CASE ApplyRow \/ PutBlobs \/ CommitUnit \/ PurgeOld \/ DeriveRead \/ DeriveWrite
  <2>1. fate'.restored = fate.restored
    <3>1. DOMAIN fate = {"restored", "blamed", "contested"}
      BY DEF Drilling, World, Remembered
    <3> QED
      BY <1>3, <3>1 DEF ApplyRow, PutBlobs, CommitUnit, PurgeOld, DeriveRead, DeriveWrite, DeriveFails
  <2>2. Drills(f, k, store', bucket', fate'.blamed, restore')
    <3> HIDE DEF f
    <3>1. Drilling(own, f, k)
      BY DEF f
    <3> QED
      BY <1>3, <3>1, RowsDrill, PutsDrill, CommitsDrill, PurgesDrill, ReadsDrill, WritesDrill
  <2> QED
    BY <2>1, <2>2 DEF Drilling
<1> QED
  BY <1>1, <1>2, <1>3 DEF Applying

\* Every step goes on with the drill.
LEMMA DrillGoesOn ==
  ASSUME NEW own, World(own), Walk, Quiet, Serving, Drill, [Next]_vars
  PROVE  Drill'
<1>1. budget'.drill = budget.drill
  BY DrillIsKept
<1>2. ASSUME fate'.restored = -1 PROVE Drill'
  BY <1>2 DEF Drill
<1>3. CASE Writing
  <2>1. ASSUME NEW kind, NEW st, NEW lost, NEW minted, Write(kind, st, lost, minted)
        PROVE  fate'.restored = -1
    BY <2>1 DEF Write, World, Remembered
  <2>2. fate'.restored = -1
    BY <1>3, <2>1 DEF Writing, Enrol, Rebind, Publish, Update, Promote, Revoke, Rename, Release
  <2> QED
    BY <1>2, <2>2
<1>4. CASE StartWalk
  <2>1. fate'.restored = -1
    BY <1>4 DEF StartWalk, World, Remembered
  <2> QED
    BY <1>2, <2>1
<1>5. CASE fate.restored = -1 /\ UNCHANGED fate
  BY <1>2, <1>5
<1>6. CASE Walking /\ ~StartWalk
  <2>1. UNCHANGED fate
    BY <1>6 DEF Walking, FetchPhase, SelectVersions, ReadBlob, EmitDocument, CutPage, RequestPage
  <2>2. file.cursor # Done
    <3>1. export.at # "idle" \/ file.cursor # Done
      BY <1>6 DEF Walking, FetchPhase, SelectVersions, ReadBlob, EmitDocument, CutPage, RequestPage, Exporting
    <3> QED
      BY <3>1 DEF Walk, Idle
  <2> QED
    BY <1>5, <2>1, <2>2 DEF Drill
<1>7. CASE Tick \/ UNCHANGED vars
  <2>1. UNCHANGED <<store, bucket, file, shelf, restore, fate>>
    BY <1>7 DEF Tick, vars
  <2> QED
    BY <1>1, <2>1 DEF Drill
<1>8. CASE Lose
  <2>1. UNCHANGED <<file, shelf>> /\ file.cursor = Done /\ shelf # <<>>
    BY <1>8 DEF Lose
  <2>2. fate'.restored = 0
    BY <1>8 DEF Lose, World, Remembered
  <2>3. Drills(Last(shelf), 0, store', bucket', fate'.blamed, restore')
    BY <1>8, LossDrills
  <2> QED
    BY <2>1, <2>2, <2>3 DEF Drill
<1>9. CASE Submitting \/ Applying
  <2>1. UNCHANGED <<file, shelf>> /\ file.cursor = Done
    BY <1>9, FilesRest
  <2>2. CASE ~budget.drill
    <3>1. fate'.restored = fate.restored
      <4>1. CASE Submitting
        BY <4>1, SubmittingIs
      <4>2. CASE Applying
        <5>1. DOMAIN fate = {"restored", "blamed", "contested"}
          BY DEF World, Remembered
        <5> QED
          BY <2>2, <4>2, <5>1 DEF Applying, ApplyRow, PutBlobs, CommitUnit, PurgeOld, DeriveRead, DeriveWrite,
                                  DeriveFails, Report, Crash
      <4> QED
        BY <1>9, <4>1, <4>2
    <3> QED
      BY <1>1, <2>1, <2>2, <3>1 DEF Drill
  <2>3. CASE fate.restored = -1
    <3>1. fate'.restored = -1
      <4>1. CASE Submitting
        BY <2>3, <4>1, SubmittingIs
      <4>2. CASE Applying
        <5>1. DOMAIN fate = {"restored", "blamed", "contested"}
          BY DEF World, Remembered
        <5>2. CASE Report
          <6>1. ~(fate.restored >= 0)
            BY <2>3
          <6>2. fate' = [fate EXCEPT !.restored = fate.restored]
            BY <5>2, <6>1 DEF Report
          <6> QED
            BY <2>3, <5>1, <6>2
        <5> QED
          BY <2>3, <4>2, <5>1, <5>2 DEF Applying, ApplyRow, PutBlobs, CommitUnit, PurgeOld, DeriveRead, DeriveWrite,
                                        DeriveFails, Crash
      <4> QED
        BY <1>9, <4>1, <4>2
    <3> QED
      BY <1>2, <3>1
  <2>4. CASE budget.drill /\ fate.restored # -1 /\ ~Last(shelf).quiet
    <3>1. fate'.restored \in Nat
      <4>1. CASE Submitting
        BY <2>4, <4>1, SubmittingIs DEF Drill
      <4>2. CASE Applying
        <5>1. DOMAIN fate = {"restored", "blamed", "contested"} /\ fate.restored \in Nat
          BY <2>4 DEF World, Remembered, Drill
        <5>2. CASE Report
          BY <5>1, <5>2 DEF Report
        <5>3. CASE ~Report
          <6>1. fate'.restored = fate.restored
            BY <4>2, <5>1, <5>3 DEF Applying, ApplyRow, PutBlobs, CommitUnit, PurgeOld, DeriveRead, DeriveWrite,
                                    DeriveFails, Crash
          <6> QED
            BY <5>1, <6>1
        <5> QED
          BY <5>2, <5>3
      <4> QED
        BY <1>9, <4>1, <4>2
    <3> QED
      BY <1>1, <2>1, <2>4, <3>1 DEF Drill
  <2>5. CASE budget.drill /\ fate.restored # -1 /\ Last(shelf).quiet
    <3> DEFINE k == fate.restored
    <3>1. k \in Nat /\ shelf # <<>> /\ Drills(Last(shelf), k, store, bucket, fate.blamed, restore)
      BY <2>5 DEF Drill
    <3>2. Drilling(own, Last(shelf), k)
      BY <2>5, <3>1, NewestIs DEF Drilling
    <3>3. fate'.restored \in Nat
          /\ Drills(Last(shelf), fate'.restored, store', bucket', fate'.blamed, restore')
      <4>1. CASE Submitting
        <5>1. UNCHANGED fate
          BY <4>1, SubmittingIs
        <5>2. Drills(Last(shelf), k, store', bucket', fate'.blamed, restore')
          BY <2>5, <3>2, <4>1, SubmitDrills
        <5> QED
          BY <3>1, <5>1, <5>2
      <4>2. CASE Applying
        BY <2>5, <3>2, <4>2, ApplyingDrills
      <4> QED
        BY <1>9, <4>1, <4>2
    <3> QED
      BY <1>1, <2>1, <2>5, <3>1, <3>3 DEF Drill
  <2> QED
    BY <2>2, <2>3, <2>4, <2>5
<1> QED
  BY <1>3, <1>4, <1>6, <1>7, <1>8, <1>9 DEF Next

\* At first there is no drill.
LEMMA DrillAtFirst ==
  ASSUME Init
  PROVE  Drill
<1>1. fate.restored = -1
  BY DEF Init
<1> QED
  BY <1>1 DEF Drill

\* Once every page is back, every row and version of the image is.
LEMMA AllIsBack ==
  ASSUME NEW own, World(own), Walk, Quiet, NEW f \in ToSet(shelf), f.quiet, Back(f, Len(f.pages), store)
  PROVE  LET I == f.image IN
         /\ \A p \in Phases : \A id \in DOMAIN I.store[p] :
              id \in DOMAIN store[p] \/ (p = "slug_tombstones" /\ id \in Disputed(I.store))
         /\ DOMAIN I.store.versions \subseteq DOMAIN store.versions
<1> DEFINE I == f.image
<1>1. /\ f.pages \in Seq(Seq(UnitsOf(own))) /\ Sound(I.store) /\ PagesTell(f)
  BY QuietPages
<1>2. \A i \in DOMAIN f.pages : i <= Len(f.pages)
  BY <1>1
<1> HIDE DEF I
<1>3. ASSUME NEW p \in Phases, NEW id \in DOMAIN I.store[p]
      PROVE  /\ id \in DOMAIN store[p] \/ (p = "slug_tombstones" /\ id \in Disputed(I.store))
             /\ p = "documents" => \A no \in Numbers(I.store, id) : <<id, no>> \in DOMAIN store.versions
  <2>1. PICK i \in DOMAIN f.pages : \E a \in DOMAIN f.pages[i] : IsAt(f, i, a, p, id)
    BY <1>1 DEF PagesTell, I
  <2>2. PICK a \in DOMAIN f.pages[i] : IsAt(f, i, a, p, id)
    BY <2>1
  <2> DEFINE u == f.pages[i][a]
  <2>3. u.phase = p /\ u.id = id /\ u \in ToSet(f.pages[i]) /\ FromImage(I, u)
    BY <1>1, <2>2 DEF IsAt, ToSet, PagesTell, I
  <2> HIDE DEF u
  <2>4. Coming(u, store, <<>>, I)
    BY <1>2, <2>3 DEF Back, I
  <2>5. ~AnItem(<<>>, {u.phase}, u.id) /\ \A no : ~AVersion(<<>>, u.id, no)
    BY DEF AnItem, AVersion
  <2>6. p = "documents" => DOMAIN u.versions = Numbers(I.store, id)
    BY <2>3 DEF FromImage
  <2> QED
    BY <2>3, <2>4, <2>5, <2>6 DEF Coming
<1>4. ASSUME NEW x \in DOMAIN I.store.versions PROVE x \in DOMAIN store.versions
  <2>1. PICK d \in DOMAIN I.store.documents, no \in Nat \ {0} : x = <<d, no>>
    BY <1>1 DEF Sound, VersionsFit
  <2>2. x[1] = d /\ x[2] = no
    BY <2>1
  <2>3. no \in Numbers(I.store, d)
    BY <2>2 DEF Numbers, VersionsOf
  <2> QED
    BY <1>3, <2>1, <2>3, PhasesAre
<1> QED
  BY <1>3, <1>4 DEF I

\* A table with the rows it had is the table it was.
LEMMA TableIsBack ==
  ASSUME NEW st, NEW was, NEW p \in Phases, Shaped(st, p), Shaped(was, p),
         DOMAIN was[p] \subseteq DOMAIN st[p],
         \A i \in DOMAIN st[p] : i \in DOMAIN was[p] /\ st[p][i] = was[p][i]
  PROVE  st[p] = was[p]
<1>1. DOMAIN st[p] = DOMAIN was[p]
  OBVIOUS
<1>2. /\ st[p] \in [DOMAIN st[p] -> Columns(p)] /\ was[p] \in [DOMAIN was[p] -> Columns(p)]
  BY DEF Shaped
<1> QED
  BY <1>1, <1>2

\* Once every page is back, the database is as it was.
LEMMA AllIsAsItWas ==
  ASSUME NEW own, World(own), Walk, Quiet, NEW f \in ToSet(shelf), f.quiet,
         Back(f, Len(f.pages), store), Part(f.image, store, bucket, fate.blamed)
  PROVE  SameAs(f.image)
<1> DEFINE I == f.image
<1>1. /\ Sound(I.store) /\ Sound(store)
  BY QuietPages DEF World, World0
<1>2. /\ \A p \in Phases : \A id \in DOMAIN I.store[p] :
           id \in DOMAIN store[p] \/ (p = "slug_tombstones" /\ id \in Disputed(I.store))
      /\ DOMAIN I.store.versions \subseteq DOMAIN store.versions
  BY AllIsBack
<1>3. RowsPart(I, store) /\ DocsPart(I, store) /\ VersionsPart(I, store, bucket, fate.blamed) /\ SearchPart(I, store)
  BY DEF Part
<1> HIDE DEF I
<1>4. ASSUME NEW p \in Plain PROVE store[p] = I.store[p]
  <2>1. p \in Phases /\ p # "slug_tombstones"
    BY PhasesAre DEF Plain
  <2>2. Shaped(store, p) /\ Shaped(I.store, p)
    BY <1>1, <2>1 DEF Sound
  <2>3. \A i \in DOMAIN store[p] : i \in DOMAIN I.store[p] /\ store[p][i] = I.store[p][i]
    BY <1>3 DEF RowsPart, FromRow
  <2>4. DOMAIN I.store[p] \subseteq DOMAIN store[p]
    BY <1>2, <2>1
  <2> QED
    BY <2>1, <2>2, <2>3, <2>4, TableIsBack
<1>5. ASSUME NEW d \in Docs
      PROVE  /\ d \in DOMAIN I.store.documents
             /\ \/ store.documents[d] = I.store.documents[d]
                \/ /\ I.store.documents[d].slug \in Disputed(I.store)
                   /\ store.documents[d] = [I.store.documents[d] EXCEPT !.slug = 0]
             /\ store.documents[d].live => WasLive(I, d)
  <2>1. AsWas(I, d, store.documents[d])
    BY <1>3 DEF DocsPart, Docs
  <2>2. I.store.documents[d] \in Columns("documents")
    BY <1>1, <2>1, CellOf DEF AsWas
  <2>3. [I.store.documents[d] EXCEPT !.slug = 0].live = I.store.documents[d].live
    BY <2>2 DEF Columns
  <2> QED
    BY <2>1, <2>3 DEF AsWas, WasLive
<1>6. SameDocuments(I)
  <2>1. Docs = DOMAIN I.store.documents
    BY <1>2, <1>5, PhasesAre DEF Docs
  <2> QED
    BY <1>5, <2>1 DEF SameDocuments
<1>7. SameVersions(I)
  <2>1. \A x \in DOMAIN store.versions :
          \E d \in Docs, no \in Nat : x = <<d, no>> /\ x[1] = d /\ x[2] = no
    BY <1>1 DEF Sound, VersionsFit, Docs
  <2>2. ASSUME NEW x \in DOMAIN store.versions
        PROVE  /\ x \in DOMAIN I.store.versions /\ store.versions[x].by = I.store.versions[x].by
               /\ Live(x[1]) /\ x[1] \notin fate.blamed => bucket[store.versions[x].key] = TextIn(I, x[1], x[2])
    <3>1. PICK d \in Docs, no \in Nat : x = <<d, no>> /\ x[1] = d /\ x[2] = no
      BY <2>1
    <3>2. VersionPart(I, x[1], x[2], store.versions[x], bucket, fate.blamed)
      BY <1>3 DEF VersionsPart
    <3>3. VersionPart(I, d, no, store.versions[x], bucket, fate.blamed)
      BY <3>1, <3>2
    <3>4. x \in DOMAIN I.store.versions /\ store.versions[x].by = I.store.versions[x].by
      BY <3>1, <3>3 DEF VersionPart
    <3>5. ASSUME Live(d), d \notin fate.blamed PROVE bucket[store.versions[x].key] = TextIn(I, d, no)
      <4>1. WasLive(I, d)
        BY <1>5, <3>5 DEF Live
      <4> QED
        BY <3>3, <3>5, <4>1 DEF VersionPart, BytesAre
    <3> QED
      BY <3>1, <3>4, <3>5
  <2>3. DOMAIN store.versions = DOMAIN I.store.versions
    BY <1>2, <2>2
  <2> QED
    BY <2>2, <2>3 DEF SameVersions
<1>8. Without(store.slug_tombstones, Disputed(I.store)) = Without(I.store.slug_tombstones, Disputed(I.store))
  <2> DEFINE D == Disputed(I.store)
             now == store.slug_tombstones
             was == I.store.slug_tombstones
  <2>1. \A i \in DOMAIN now : i \in DOMAIN was /\ now[i] = was[i]
    BY <1>3 DEF RowsPart, FromRow
  <2>2. \A i \in DOMAIN was : i \in DOMAIN now \/ i \in D
    BY <1>2, PhasesAre
  <2> HIDE DEF D, now, was
  <2>3. DOMAIN now \ D = DOMAIN was \ D /\ \A i \in DOMAIN now \ D : now[i] = was[i]
    BY <2>1, <2>2
  <2>4. [x \in DOMAIN now \ D |-> now[x]] = [x \in DOMAIN was \ D |-> was[x]]
    BY <2>3
  <2> QED
    BY <2>4 DEF Without, D, now, was
<1>9. /\ DOMAIN store.documents_fts = {d \in Docs : Live(d)}
      /\ \A d \in Docs : Live(d) => store.documents_fts[d] = TextIn(I, d, store.documents[d].cur)
  BY <1>3 DEF SearchPart, Live, Docs
<1>10. SameAs(I)
  BY <1>4, <1>6, <1>7, <1>8, <1>9 DEF SameAs, Plain
<1> QED
  BY <1>10 DEF I

\* The drill ends with everything back.
LEMMA DrillEnds ==
  ASSUME NEW own, World(own), Walk, Quiet, Drill
  PROVE  RoundTrip
<1> SUFFICES ASSUME fate.restored # -1, shelf # <<>>, Last(shelf).quiet,
                    fate.restored = Len(Last(shelf).pages)
             PROVE  SameAs(Last(shelf).image)
  BY DEF RoundTrip
<1> DEFINE f == Last(shelf)
<1>1. f \in ToSet(shelf)
  BY NewestIs
<1>2. f.pages # <<>> /\ IsFile(f, own)
  BY <1>1 DEF Quiet, World, IsShelf, ToSet
<1>3. Len(f.pages) \notin {-1, 0}
  BY <1>2 DEF IsFile
<1>4. Drills(f, fate.restored, store, bucket, fate.blamed, restore)
  BY <1>3 DEF Drill
<1>5. Back(f, Len(f.pages), store) /\ Part(f.image, store, bucket, fate.blamed)
  BY <1>4 DEF Drills
<1>6. f.quiet
  OBVIOUS
<1> HIDE DEF f
<1>7. SameAs(f.image)
  BY <1>1, <1>5, <1>6, AllIsAsItWas
<1> QED
  BY <1>7 DEF f

\* After both stores are lost, the drill brings back what a quiet walk saw: once
\* every page of the file has been answered with a clean report, the rows, names,
\* tombstones, texts and search rows are there, however many attempts failed or
\* died half-way (docs/operating.md, "Full disaster recovery").
THEOREM DrillsBringItBack == Spec => []RoundTrip
<1> DEFINE Inv == \E own : World(own) /\ Serving /\ Walk /\ Quiet /\ Drill
<1>1. Init => Inv
  <2> SUFFICES ASSUME Init PROVE Inv
    OBVIOUS
  <2>1. PICK own : World(own)
    BY StartingIs
  <2> QED
    BY <2>1, ServingAtFirst, WalkAtFirst, QuietAtFirst, DrillAtFirst
<1>2. Inv /\ [Next]_vars => Inv'
  <2> SUFFICES ASSUME Inv, [Next]_vars PROVE Inv'
    OBVIOUS
  <2>1. PICK own : World(own) /\ Serving /\ Walk /\ Quiet /\ Drill
    OBVIOUS
  <2>2. Serving' /\ Walk' /\ Quiet' /\ Drill'
    BY <2>1, ServingGoesOn, WalkGoesOn, QuietGoesOn, DrillGoesOn
  <2>3. \E new : World(new)'
    BY <2>1, WorldGoesOn
  <2> QED
    BY <2>2, <2>3
<1>3. Inv => RoundTrip
  BY DrillEnds
<1> HIDE DEF Inv
<1> QED
  BY <1>1, <1>2, <1>3, PTL DEF Spec

=============================================================================
