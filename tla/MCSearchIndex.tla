---------------------------- MODULE MCSearchIndex ----------------------------
(* Instances of SearchIndex for TLC: five kinds of behaviour, each with what  *)
(* it is about and little else.                                               *)
EXTENDS SearchIndex

\* Up to three blocks, some over the target.
ShortTexts == UNION {[1..n -> 1..7] : n \in 0..3}

Nobody == [d \in {} |-> 0]
NoTrial == [kind |-> "none", of |-> <<>>]

\* Three documents, two of them published in one millisecond, walked by pages
\* of one and two while two writes and a tick of the clock happen.
Listing == [born |-> (1 :> 1) @@ (2 :> 2) @@ (3 :> 1), docs |-> 1..3, writes |-> 2,
            ticks |-> 1, trouble |-> 0, reads |-> {"created", "updated"}, chunks |-> {1}, syncs |-> FALSE, trial |-> NoTrial]
\* A consumer that polls, and gives up, while documents are touched and revoked.
Polling == [born |-> (1 :> 1) @@ (2 :> 1), docs |-> 1..2, writes |-> 2, ticks |-> 1,
            trouble |-> 1, reads |-> {"feed"}, chunks |-> {1}, syncs |-> FALSE, trial |-> NoTrial]
\* A document's two syncs race with each other and with the sweeps.
Sweeping == [born |-> Nobody, docs |-> {1}, writes |-> 2, ticks |-> 0, trouble |-> 1,
             reads |-> {"rebuild", "links"}, chunks |-> 1..MAX_CHUNKS, syncs |-> TRUE, trial |-> NoTrial]
\* The sweeps over two documents, page by page, with one writer in between.
Resuming == [born |-> (1 :> 1) @@ (2 :> 1), docs |-> 1..2, writes |-> 1, ticks |-> 0,
             trouble |-> 0, reads |-> Sweeps, chunks |-> 0..MAX_CHUNKS, syncs |-> TRUE, trial |-> NoTrial]
\* Queries over documents whose vectors are stale, missing or orphaned.
Searching == [born |-> (2 :> 1), docs |-> 1..2, writes |-> 2, ticks |-> 0, trouble |-> 1,
              reads |-> Modes, chunks |-> {1}, syncs |-> TRUE, trial |-> NoTrial]

\* One leg to fuse with every other, or one text to cut, and nothing else.
Trials ==
  {[Searching EXCEPT !.born = Nobody, !.docs = {}, !.reads = {}, !.trial = t] :
     t \in [kind : {"fusion"}, of : Legs] \union [kind : {"windows"}, of : ShortTexts]}

Behaviours == {Listing, Polling, Sweeping, Resuming, Searching} \union Trials
=============================================================================
