-------------------------------- MODULE Packs --------------------------------
(***************************************************************************)
(* Context packs (pack.ts, pack-core.ts): a root document's manifest, or   *)
(* its links, read together with as many of their targets as a budget      *)
(* holds, and the rest named with the reason.  A library maps each id to   *)
(* its row; the members are resolved against one moment of it, their       *)
(* successors and their bodies are read at a later one.                    *)
(***************************************************************************)
EXTENDS Integers, FiniteSets, FiniteSetsExt, SequencesExt

CONSTANTS
  Nothing,          \* null
  MaxMemberRefs     \* PACK_MAX_MEMBER_REFS, 200 in the code

ASSUME PacksAssumption == MaxMemberRefs \in Nat \ {0}

Collect(Op(_, _), start, items) == FoldLeft(Op, start, items)
Holds(xs, Test(_)) == \E i \in DOMAIN xs : Test(xs[i])

\* A number that is absent, or is not whole, is the default.
Clamp(v, default, low, high) ==
  CASE v = Nothing -> default
    [] v # Nothing /\ v < low -> low
    [] v # Nothing /\ v > high -> high
    [] OTHER -> v
ClampPackKnobs(budget_bytes, max_documents) ==
  [budgetBytes |-> Clamp(budget_bytes, 64 * 1024, 1024, 256 * 1024),
   maxDocuments |-> Clamp(max_documents, 8, 1, 25)]

----------------------------------------------------------------------------
\* The manifest.  A line is [kind, ticks, ref, hint]: "pack" is a fence with
\* that word, "fence" one without; a fence that neither opens nor closes the
\* manifest is a member like any other line of it.
Unlisted == {"blank", "comment", "optional"}

ParsePackManifest(source) ==
  LET open == SelectInSeq(source, LAMBDA l : l.kind = "pack")
      rest == SubSeq(source, open + 1, Len(source))
      close == SelectInSeq(rest, LAMBDA l : l.kind = "fence" /\ l.ticks >= source[open].ticks)
      body == IF close = 0 THEN rest ELSE SubSeq(rest, 1, close - 1)
      Names(i) == body[i].kind \notin Unlisted
      Anew(i) == Names(i) /\ \A j \in 1..(i - 1) : ~(Names(j) /\ body[j].ref = body[i].ref)
      Tier(i) == IF \E j \in 1..i : body[j].kind = "optional" THEN "optional" ELSE "required"
      kept == SelectSeq([i \in DOMAIN body |-> i], Anew)
  IN IF open = 0
       THEN [found |-> FALSE, members |-> <<>>]
       ELSE [found |-> TRUE,
             members |-> [k \in DOMAIN kept |->
               [ref |-> body[kept[k]].ref, tier |-> Tier(kept[k]), hint |-> body[kept[k]].hint]]]

\* The links of the page: [host, door, value], the host Nothing when relative.
ExtractOutboundLinks(hrefs, host) ==
  LET Ours(h) == h.host \in {Nothing, host} /\ h.door \in {"d", "s"}
      ours == SelectSeq(hrefs, Ours)
      First(i) == \A j \in 1..(i - 1) : <<ours[j].door, ours[j].value>> # <<ours[i].door, ours[i].value>>
      kept == SelectSeq([i \in DOMAIN ours |-> i], First)
  IN [k \in DOMAIN kept |-> [ref |-> ours[kept[k]].value, tier |-> Nothing, hint |-> Nothing]]

----------------------------------------------------------------------------
\* The budget, over [.., size]: whole or not at all, and a smaller document
\* may still go in after one that did not.

SelectWithinBudget(candidates, budgetBytes, maxDocuments) ==
  Collect(LAMBDA acc, c :
      CASE Len(acc.included) >= maxDocuments ->
             [acc EXCEPT !.omitted = Append(@, [item |-> c, reason |-> "max_documents"])]
        [] Len(acc.included) < maxDocuments /\ acc.used_bytes + c.size > budgetBytes ->
             [acc EXCEPT !.omitted = Append(@, [item |-> c, reason |-> "budget"])]
        [] OTHER -> [acc EXCEPT !.included = Append(@, c), !.used_bytes = @ + c.size],
    [included |-> <<>>, omitted |-> <<>>, used_bytes |-> 0], candidates)

PackOmitEntry(c, reason) == [ref |-> c.ref, public_id |-> c.public_id, reason |-> reason]

Entries(cs, reason) == [i \in DOMAIN cs |-> PackOmitEntry(cs[i], reason)]

\* The bodies of what was selected; one that has gone meanwhile gives its
\* bytes back.
ReadBodies(sel, deprecated, later) ==
  LET ReadsText(c) == later[c.public_id].life = "live"
      gone == SelectSeq(sel.included, LAMBDA c : ~ReadsText(c))
  IN [documents |-> SelectSeq(sel.included, ReadsText),
      omitted |-> Entries(deprecated, "deprecated")
                    \o [i \in DOMAIN sel.omitted |->
                          PackOmitEntry(sel.omitted[i].item, sel.omitted[i].reason)]
                    \o Entries(gone, "unavailable"),
      used_bytes |-> Collect(LAMBDA used, c : used - c.size, sel.used_bytes, gone)]

\* Deprecated documents first leave, then the budget is spent.
FillPack(candidates, later, opts) ==
  LET Eligible(c) == c.status = "active" \/ opts.includeDeprecated
  IN ReadBodies(
       SelectWithinBudget(SelectSeq(candidates, Eligible), opts.budgetBytes, opts.maxDocuments),
       SelectSeq(candidates, LAMBDA c : ~Eligible(c)), later)

----------------------------------------------------------------------------
\* A listing of any row there ever was.
FindDocumentByPublicIdCore(library, ref) ==
  IF ref \in DOMAIN library /\ library[ref].life # "none" THEN ref ELSE Nothing

\* A live name before an id: a word may have the shape of both.
ResolvePackRef(library, ref) ==
  LET named == {d \in DOMAIN library : library[d].life = "live" /\ library[d].slug = ref}
  IN IF named # {} THEN CHOOSE d \in named : TRUE ELSE FindDocumentByPublicIdCore(library, ref)

Candidate(library, d, m, ref) ==
  [public_id |-> d, ref |-> ref, tier |-> m.tier, size |-> library[d].size,
   status |-> library[d].status]

\* Fault: a document two members lead to is packed twice.
PushAgain(acc, c) ==
  IF c.public_id = acc.root THEN acc ELSE [acc EXCEPT !.candidates = Append(@, c)]
PushCandidate(acc, c) ==
  IF c.public_id = acc.root \/ Holds(acc.candidates, LAMBDA e : e.public_id = c.public_id)
    THEN acc ELSE [acc EXCEPT !.candidates = Append(@, c)]

\* One member: unresolved, revoked, replaced by its successor, or a candidate.
ResolveMember(acc, m, library, later, opts) ==
  LET d == ResolvePackRef(library, m.ref)
      row == library[d]
      Omit(reason) ==
        [acc EXCEPT !.omitted = Append(@, [ref |-> m.ref, public_id |-> d, reason |-> reason])]
      Redirects == /\ opts.followRedirects /\ ~opts.includeDeprecated
                   /\ row.status # "active" /\ row.superseded_by # Nothing
      target == FindDocumentByPublicIdCore(later, row.superseded_by)
  IN CASE d = Nothing -> IF m.ref = acc.root THEN acc ELSE Omit("unavailable")
       [] d # Nothing /\ row.life = "revoked" -> Omit("revoked")
       [] d # Nothing /\ row.life = "live" /\ Redirects ->
            IF target = Nothing \/ later[target].life = "revoked"
              THEN Omit("deprecated")
              ELSE PushCandidate(Omit("deprecated"), Candidate(later, target, m, target))
       [] OTHER -> PushCandidate(acc, Candidate(library, d, m, m.ref))

MemberRefs(p) ==
  LET manifest == ParsePackManifest(p.source)
      named == IF manifest.found THEN manifest.members ELSE ExtractOutboundLinks(p.hrefs, p.host)
  IN SubSeq(named, 1, Min({MaxMemberRefs, Len(named)}))

RequiredFirst(candidates) ==
  SelectSeq(candidates, LAMBDA c : c.tier # "optional")
    \o SelectSeq(candidates, LAMBDA c : c.tier = "optional")

\* The root: a live name, or an id; a word that is only a retired name is gone.
ResolvePackRoot(p) ==
  LET d == ResolvePackRef(p.library, p.from)
  IN CASE d = Nothing -> IF p.from \in p.retired \ DOMAIN p.library THEN "gone" ELSE "not_found"
       [] d # Nothing /\ p.library[d].life # "live" -> "not_found"
       [] OTHER -> d

PackFillOptions(p, knobs) ==
  [budgetBytes |-> knobs.budgetBytes, maxDocuments |-> knobs.maxDocuments,
   includeDeprecated |-> p.includeDeprecated, followRedirects |-> p.followRedirects]

ResolveMembers(p, root, refs, opts) ==
  Collect(LAMBDA acc, m : ResolveMember(acc, m, p.library, p.later, opts),
          [root |-> root, omitted |-> <<>>, candidates |-> <<>>], refs)

Pack(p, members, opts) ==
  LET Answer(fill) ==
        [ok |-> TRUE, root |-> members.root, documents |-> fill.documents,
         omitted |-> members.omitted \o fill.omitted, used_bytes |-> fill.used_bytes, opts |-> opts]
  IN Answer(FillPack(RequiredFirst(members.candidates), p.later, opts))

PackFrom(p, root, opts) ==
  IF root \in {"gone", "not_found"}
    THEN [ok |-> FALSE, code |-> root]
    ELSE Pack(p, ResolveMembers(p, root, MemberRefs(p), opts), opts)

LoadContextPackCore(p) ==
  PackFrom(p, ResolvePackRoot(p),
           PackFillOptions(p, ClampPackKnobs(p.budget_bytes, p.max_documents)))
----------------------------------------------------------------------------
SumSizes(cs) == Collect(LAMBDA n, c : n + c.size, 0, cs)

\* What a member leads to: its document, and the successor that stands for it.
Leads(m, p) ==
  LET d == ResolvePackRef(p.library, m.ref)
  IN {d} \union (IF d # Nothing /\ p.followRedirects /\ p.library[d].status # "active"
                   THEN {p.library[d].superseded_by} ELSE {})

\* What is true of the pack r that a request p is given.
AccountsFor(p, r, refs) ==
  LET members == {refs[i] : i \in DOMAIN refs}
      packed == {r.documents[i].public_id : i \in DOMAIN r.documents}
      omitted == {r.omitted[i] : i \in DOMAIN r.omitted}
      Row(d) == p.later[d]
      required == UNION {Leads(m, p) : m \in {m \in members : m.tier = "required"}}
      gone == {o.public_id : o \in {o \in omitted : o.reason = "unavailable"}}
      taken == packed \union (gone \ {Nothing})
      Beside(d) == IF d \in required THEN taken \intersect required ELSE taken
      Size(d) == p.library[d].size
  IN r.ok =>
       /\ Len(r.documents) = Cardinality(packed)
       /\ packed \subseteq (UNION {Leads(m, p) : m \in members}) \ {r.root}
       /\ \A d \in packed : /\ Row(d).life = "live"
                            /\ p.library[d].status = "active" \/ p.includeDeprecated
       /\ \A m \in members :
            LET d == ResolvePackRef(p.library, m.ref) IN
            \/ d \in packed \union {r.root}
            \/ \E o \in omitted : o.ref = m.ref \/ (d # Nothing /\ o.public_id = d)
       /\ r.used_bytes = SumSizes(r.documents) /\ r.used_bytes <= r.opts.budgetBytes
       /\ Cardinality(taken) <= r.opts.maxDocuments
       /\ \A o \in omitted :
            LET d == o.public_id IN
            /\ o.reason = "budget" =>
                 Size(d) + MapThenSumSet(Size, Beside(d)) > r.opts.budgetBytes
            /\ o.reason = "max_documents" => Cardinality(Beside(d)) = r.opts.maxDocuments

Accounts(p) == AccountsFor(p, LoadContextPackCore(p), MemberRefs(p))
=============================================================================
