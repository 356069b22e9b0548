------------------------------- MODULE MCBackup -------------------------------
(* Instances of Backup for TLC: four kinds of behaviour, each with what it is *)
(* about and little else.                                                     *)
EXTENDS Backup

Agent1 == [EmptyStore EXCEPT !.agents = 1 :> [at |-> 1],
                             !.agent_keys = 1 :> [at |-> 1, agent |-> 1],
                             !.oauth_clients = 1 :> [at |-> 1, agent |-> 1]]
Doc(cur, pub, live, slug, d) ==
  [at |-> 1, pid |-> d, by |-> 1, cur |-> cur, pub |-> pub, live |-> live, slug |-> slug]
Ver(k) == [by |-> 1, key |-> k, src |-> TRUE]

\* Two documents of one millisecond; the second is public, with a history.
TwoDocs ==
  [Agent1 EXCEPT
     !.documents = (1 :> Doc(1, 0, TRUE, 0, 1)) @@ (2 :> Doc(2, 1, TRUE, 1, 2)),
     !.versions = (<<1, 1>> :> Ver(1)) @@ (<<2, 1>> :> Ver(2)) @@ (<<2, 2>> :> Ver(3)),
     !.documents_fts = (1 :> 1) @@ (2 :> 3),
     !.slug_tombstones = 2 :> [at |-> 1, doc |-> 1]]
\* One of them is dead.
OneDead ==
  [TwoDocs EXCEPT !.documents[1] = Doc(0, 0, FALSE, 0, 1), !.documents_fts = 2 :> 3]
OneDoc ==
  [Agent1 EXCEPT !.documents = 1 :> Doc(1, 1, TRUE, 1, 1), !.versions = <<1, 1>> :> Ver(1),
                 !.documents_fts = 1 :> 1]

AllWriters == {"enrol", "rebind", "publish", "update", "promote", "rename", "revoke", "release"}

\* A walk by small pages while requests write.
Walks == [start |-> TwoDocs, limits |-> {2}, writers |-> AllWriters \ {"rebind", "promote", "update"},
          writes |-> 2, ticks |-> 1, trouble |-> 1, walks |-> 1, losses |-> 0, restores |-> 0,
          racing |-> FALSE, drill |-> FALSE]
\* A walk unit by unit.
Crawls == [Walks EXCEPT !.limits = {1}, !.writers = {"publish", "update", "revoke", "enrol"},
                        !.writes = 1]
\* A walk, the loss of everything, and the drill with failures.
Recovers == [start |-> OneDead, limits |-> {0, 1, 3}, writers |-> AllWriters, writes |-> 1,
             ticks |-> 0, trouble |-> 2, walks |-> 1, losses |-> 1, restores |-> 12,
             racing |-> FALSE, drill |-> TRUE]
\* Files of two ages restored in pieces.
Rewinds == [start |-> OneDoc, limits |-> {0}, writers |-> {"update", "rename", "revoke"},
            writes |-> 1, ticks |-> 0, trouble |-> 1, walks |-> 2, losses |-> 0, restores |-> 2,
            racing |-> FALSE, drill |-> FALSE]
\* A file restored in pieces over a database that has moved on.
Returns == [Rewinds EXCEPT !.writers = AllWriters, !.writes = 2, !.walks = 1, !.restores = 1,
                           !.losses = 1]
\* Writers overtake a restore of one document and of a retired name.
Races == [start |-> [OneDoc EXCEPT !.slug_tombstones = 2 :> [at |-> 1, doc |-> 1]],
          limits |-> {0}, writers |-> {"update", "promote", "revoke", "rename", "release"},
          writes |-> 2, ticks |-> 0, trouble |-> 1, walks |-> 1, losses |-> 0, restores |-> 1,
          racing |-> TRUE, drill |-> FALSE]

Behaviours == {Walks, Crawls, Recovers, Rewinds, Returns, Races}
=============================================================================
