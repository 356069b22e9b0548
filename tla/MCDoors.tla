------------------------------ MODULE MCDoors ------------------------------
EXTENDS Site, Packs

\* Every path of the dispatcher with an id in the place of each segment that
\* takes any, and every way to put one word of its vocabulary after another.
Words == UNION {{r[2][i] : i \in DOMAIN r[2]} : r \in {Rules[i] : i \in DOMAIN Rules}} \ {Id, Rest}
Heads == {"d", "s", "docs", "admin"}
Middles == {"id", "console", "documents", "agents", "slugs", "v"}
SomePaths ==
  {<<>>} \union {<<a>> : a \in Words} \union (Heads \X (Words \union {"id"}))
    \union {<<"d", "id", "v", "1", "raw">>} \union {<<".well-known", b>> : b \in Words}
    \union (Heads \X Middles \X (Words \union {"id"}))
    \union (Heads \X Middles \X Middles \X (Words \union {"id"}))
SomeOrigins == [host : {"a", "b"}, rest : {"", "/", "/x"}]

\* Manifests of up to three lines, or four, that name a document, a name, an
\* id no document has, the root, or nothing; their documents in every state
\* a member may be in, gone by the time they are read or not.
Line(kind, ref) == [kind |-> kind, ticks |-> 3, ref |-> ref, hint |-> None]
Opening == {<<Line("pack", "opening fence")>>, <<[Line("pack", "longer fence") EXCEPT !.ticks = 4]>>}
Lines == {Line("member", w) : w \in {"a", "n", "c"}} \union {Line("optional", ""), Line("fence", "fence")}
LongLines == Lines \union {Line("member", w) : w \in {"b", "r"}}
Rowed(life, status, by, slug, size) ==
  [life |-> life, status |-> status, superseded_by |-> by, slug |-> slug, size |-> size]
Library(status, by, life) ==
  [d \in {"r", "a", "b", "c"} |->
     CASE d = "r" -> Rowed("live", "active", None, "root", 10)
       [] d = "a" -> Rowed("live", "active", None, "c", 600)
       [] d = "b" -> Rowed("live", status, by, "n", 500)
       [] d = "c" -> Rowed(life, "active", None, None, 900)]
Without(library, d) == [library EXCEPT ![d].life = IF @ = "live" THEN "revoked" ELSE @]
Packing(source, library, later) ==
  [from |-> "root", retired |-> {"c"}, source |-> source, host |-> "us",
   hrefs |-> <<[host |-> None, door |-> "d", value |-> "a"], [host |-> "them", door |-> "d", value |-> "b"],
               [host |-> "us", door |-> "s", value |-> "n"], [host |-> "us", door |-> "d", value |-> "a"],
               [host |-> "us", door |-> "d", value |-> "c"]>>,
   library |-> library, later |-> later, budget_bytes |-> None, max_documents |-> None,
   includeDeprecated |-> FALSE, followRedirects |-> FALSE]
Libraries ==
  {Library("active", None, "live"), Library("deprecated", None, "revoked"),
   Library("deprecated", "a", "live"), Library("deprecated", "c", "live"), Library("deprecated", "c", "none")}
SomePackings ==
  UNION {
    {[Packing(o \o s, l, l) EXCEPT !.includeDeprecated = i, !.followRedirects = f, !.budget_bytes = b] :
       o \in {<<Line("pack", "opening fence")>>}, s \in UNION {[1..n -> Lines] : n \in 0..2}, l \in Libraries,
       i \in BOOLEAN, f \in BOOLEAN, b \in {1500}},
    {[Packing(o \o s, Library("deprecated", "c", "live"), Library("deprecated", "c", "live"))
        EXCEPT !.followRedirects = TRUE, !.budget_bytes = b, !.max_documents = n] :
       o \in {<<Line("pack", "opening fence")>>}, s \in [1..3 -> LongLines],
       b \in {1500}, n \in {1, None}},
    {[Packing(s, l, Without(l, d)) EXCEPT !.followRedirects = f, !.max_documents = n, !.budget_bytes = 1, !.from = w] :
       s \in {<<>>} \union {o \o <<Line("member", "a"), Line("fence", "fence"), Line("optional", ""),
                                  Line("member", "b"), Line("member", "other")>> : o \in Opening},
       l \in Libraries, d \in {"a", "b", "c"}, f \in BOOLEAN, n \in {1, 2}, w \in {"root", "r", "c", "other"}}}

\* One private document with a name of its own, one public and ahead of what
\* it publishes, a retired name that redirects to the private one.
Rows ==
  [d \in Docs |-> CASE d = "d1" -> [Vacant EXCEPT !.life = "live", !.current_ver = 1, !.slug = "s1"]
                    [] d = "d2" -> [Vacant EXCEPT !.life = "live", !.current_ver = 2,
                                                  !.published_ver = 1, !.visibility = "public"]
                    [] OTHER -> Vacant]
Idle == [reads |-> 0, writes |-> 0, logins |-> 0, deploys |-> 0, ticks |-> 0]
Base ==
  [documents |-> Rows, slug_tombstones |-> [s \in {"s2"} |-> "d1"], keys |-> {"k1"},
   homepage |-> None, default_visibility |-> "private", anyone |-> FALSE, doors |-> {},
   tools |-> {}, toolset |-> None, asked |-> {"d1"}, tags |-> {{}}, follow |-> {FALSE},
   calls |-> {}, left |-> Idle, trial |-> [kind |-> "none"]]

\* A page or a body, while the store changes under it.
Reading ==
  [Base EXCEPT !.doors = {"raw", "doc", "home", "text", "source", "links", "version_shell"}, !.tags = {{}, {0}, {1}}, !.homepage = "d1", !.asked = {"d1", "d2"},
               !.calls = {"visibility", "promote", "replace", "revoke", "revoke agent"},
               !.left = [Idle EXCEPT !.reads = 1, !.writes = 2]]
\* A name, while it is given, taken, retired, redirected and released.
Naming ==
  [Base EXCEPT !.doors = {"slug", "text_slug"}, !.follow = BOOLEAN,
               !.calls = {"slug", "visibility", "revoke", "redirect", "unredirect", "release", "create", "revoke agent"},
               !.left = [Idle EXCEPT !.reads = 1, !.writes = 2]]
\* Sessions that lapse, are minted under an older token or epoch, or whose
\* pages are out of date.
Signing ==
  [Base EXCEPT !.anyone = TRUE, !.calls = {"visibility", "visibility form", "revoke form"},
               !.left = [Idle EXCEPT !.writes = 1, !.logins = 2, !.deploys = 1, !.ticks = 1]]
\* A session or a key that ends while it reads what only it may.
Ending ==
  [Base EXCEPT !.doors = {"raw", "version", "record"}, !.tags = {{1}},
               !.calls = {"mint key", "revoke key", "revoke agent", "visibility"},
               !.left = [Idle EXCEPT !.reads = 1, !.writes = 1, !.logins = 1, !.deploys = 1, !.ticks = 1]]
\* A record or a history, while its document is born, or is revoked and
\* revoked again.
Recording ==
  [Base EXCEPT !.doors = RecordDoors, !.asked = {"d1", "d3"}, !.calls = {"create", "replace", "revoke"},
               !.left = [Idle EXCEPT !.reads = 1, !.writes = 2]]
\* Every other door of a change.
Changing ==
  [Base EXCEPT !.anyone = TRUE, !.calls = {"promote form", "slug form", "status", "status form", "restore", "restore form",
                          "publish", "update", "mint key form", "revoke key form", "revoke agent form", "curate", "visibility"},
               !.left = [Idle EXCEPT !.writes = 2, !.logins = 1]]

\* A tool, while what it has already read changes.
Tooling ==
  [Base EXCEPT !.asked = {"d1", "d2"}, !.calls = {"slug", "visibility", "promote", "replace", "revoke", "release"},
               !.left = [Idle EXCEPT !.reads = 1, !.writes = 1]]
ByTools == [Tooling EXCEPT !.tools = {"read_document", "view_document"}]
ByWriters == [Tooling EXCEPT !.tools = WriteTools, !.calls = {"slug", "visibility", "replace", "revoke"}]
ByName == [Tooling EXCEPT !.toolset = "author", !.tools = None, !.asked = {}, !.calls = {"release", "slug"}, !.left.writes = 2]

\* One pack to fill, or one method to ask every path by, and nothing else.
Trials ==
  {[Base EXCEPT !.trial = [kind |-> "pack", of |-> p]] : p \in SomePackings}
    \union {[Base EXCEPT !.trial = [kind |-> "method", of |-> m]] : m \in Methods}

Instances == {Reading, Naming, Signing, Ending, Recording, Changing, ByTools, ByWriters, ByName} \union Trials

\* A pack is the budget's best honest reading of its manifest: every member is
\* packed once, or named with its reason (unless it is the root); nothing else
\* is packed, nothing revoked by the time it is read, nothing deprecated unasked;
\* used_bytes is what was packed and within the budget; and a member was left
\* out for the budget or the count only if it did not fit beside what was
\* taken: beside the required ones alone if it is required itself
\* (loadContextPackCore with parsePackManifest, selectWithinBudget and fillPack).
PacksAccountForEveryMember == scene.trial.kind = "pack" => Accounts(scene.trial.of)

=============================================================================
