------------------------------- MODULE Routes -------------------------------
(***************************************************************************)
(* Which handler a request comes to (index.ts), and which of them another  *)
(* site's program may call and read (cors.ts): two lists kept by hand,     *)
(* one a cascade of path tests, the other a predicate over paths.          *)
(*                                                                         *)
(* A path is the sequence of its segments, none of them empty.  A handler  *)
(* is what it asks of its caller:                                          *)
(*   open      nothing: a description, a published page of the platform    *)
(*   public    what the document's visibility asks                         *)
(*   reader, agent, operator   the header, or a session with its nonce     *)
(*   page      the browser the operator signed in with                     *)
(*   mcp       the provider's token, checked before this dispatcher runs   *)
(***************************************************************************)
EXTENDS Integers, Sequences, SequencesExt

CONSTANTS Paths, Origins     \* The requests the two lists are compared on

Id == "*"       \* any one segment
Rest == "..."    \* no segment, or some

Matches(pattern, path) ==
  LET n == Len(pattern)
      Fits(p, q) == Len(p) = Len(q) /\ \A i \in DOMAIN p : p[i] \in {Id, q[i]}
  IN IF \E i \in 1..n : pattern[i] = Rest
       THEN LET i == CHOOSE i \in 1..n : pattern[i] = Rest
                after == n - i
            IN /\ Len(path) >= n - 1
               /\ Fits(SubSeq(pattern, 1, i - 1), SubSeq(path, 1, i - 1))
               /\ Fits(SubSeq(pattern, i + 1, n), SubSeq(path, Len(path) - after + 1, Len(path)))
       ELSE Fits(pattern, path)

Methods == {"GET", "HEAD", "POST", "PUT", "DELETE"}

\* The cascade, in its order: the first test that a request passes.
\* The homepage, the descriptions and the platform's own pages.
DescriptionRules == <<
  <<{"GET"}, <<>>, "page">>,
  <<{"GET"}, <<"healthz">>, "open">>,
  <<{"GET"}, <<"openapi.json">>, "open">>,
  <<{"GET"}, <<"shell.js">>, "page">>,
  <<{"GET"}, <<".well-known", "assetlinks.json">>, "open">>,
  <<{"GET"}, <<".well-known", "apple-app-site-association">>, "open">>,
  <<{"GET"}, <<"docs">>, "open">>,
  <<{"GET"}, <<"docs", Id, Rest, "raw">>, "open">>,
  <<{"GET"}, <<"docs", Id>>, "open">> >>
\* The fleet's doors, the consent screen and the operator's way in.
ApiRules == <<
  <<{"POST"}, <<"d">>, "agent">>,
  <<{"GET"}, <<"d">>, "reader">>,
  <<{"GET"}, <<"d", "search">>, "reader">>,
  <<{"GET"}, <<"d", "pack">>, "reader">>,
  <<Methods, <<"mcp">>, "mcp">>,
  <<Methods, <<"authorize">>, "page">>,
  <<Methods, <<"login">>, "page">>,
  <<Methods, <<"logout">>, "page">> >>
\* The operator's API.
AdminRules == <<
  <<{"GET", "POST"}, <<"admin", "agents">>, "operator">>,
  <<{"GET", "POST"}, <<"admin", "documents">>, "operator">>,
  <<{"GET"}, <<"admin", "audit">>, "operator">>,
  <<{"GET"}, <<"admin", "documents", "search">>, "operator">>,
  <<{"POST"}, <<"admin", "docs", "seed">>, "operator">>,
  <<{"POST"}, <<"admin", "vectors", "backfill">>, "operator">>,
  <<{"POST"}, <<"admin", "links", "backfill">>, "operator">>,
  <<{"GET"}, <<"admin", "backup">>, "operator">>,
  <<{"POST"}, <<"admin", "restore">>, "operator">>,
  <<{"GET"}, <<"admin", "links", "orphans">>, "operator">>,
  <<{"GET", "PUT"}, <<"admin", "documents", Id>>, "operator">>,
  <<{"POST"}, <<"admin", "documents", Rest, "visibility">>, "operator">>,
  <<{"POST"}, <<"admin", "documents", Rest, "promote">>, "operator">>,
  <<{"POST"}, <<"admin", "documents", Rest, "slug">>, "operator">>,
  <<{"POST"}, <<"admin", "documents", Rest, "tags">>, "operator">>,
  <<{"POST"}, <<"admin", "documents", Rest, "status">>, "operator">>,
  <<{"GET"}, <<"admin", "documents", Rest, "versions">>, "operator">>,
  <<{"POST"}, <<"admin", "documents", Rest, "restore">>, "operator">>,
  <<{"DELETE"}, <<"admin", "agents", Id>>, "operator">>,
  <<{"GET", "POST"}, <<"admin", "agents", Id, "keys">>, "operator">>,
  <<{"POST"}, <<"admin", "agents", Id, "oauth-clients">>, "operator">>,
  <<{"DELETE"}, <<"admin", "keys", Id>>, "operator">>,
  <<{"POST"}, <<"admin", "keys", "prune">>, "operator">>,
  <<{"POST"}, <<"admin", "oauth-clients">>, "operator">>,
  <<{"DELETE"}, <<"admin", "oauth-clients", Id>>, "operator">> >>
\* The operator's pages.
ConsoleRules == <<
  <<{"GET"}, <<"admin">>, "page">>,
  <<{"GET"}, <<"admin", "console">>, "page">>,
  <<{"GET", "POST"}, <<"admin", "console", "agents">>, "page">>,
  <<{"POST"}, <<"admin", "console", "agents", "revoke">>, "page">>,
  <<{"POST"}, <<"admin", "console", "keys", "revoke">>, "page">>,
  <<{"POST"}, <<"admin", "console", "oauth-clients">>, "page">>,
  <<{"POST"}, <<"admin", "console", "oauth-clients", "delete">>, "page">>,
  <<{"GET"}, <<"admin", "console", "documents">>, "page">>,
  <<{"GET"}, <<"admin", "console", "audit">>, "page">>,
  <<{"GET"}, <<"admin", "console", "maintenance">>, "page">>,
  <<{"POST"}, <<"admin", "console", "vectors", "backfill">>, "page">>,
  <<{"POST"}, <<"admin", "console", "links", "backfill">>, "page">>,
  <<{"POST"}, <<"admin", "console", "keys", "prune">>, "page">>,
  <<{"POST"}, <<"admin", "console", "restore">>, "page">>,
  <<{"GET"}, <<"admin", "console", "agents", Id>>, "page">>,
  <<{"POST"}, <<"admin", "console", "agents", Id, "keys">>, "page">>,
  <<{"POST"}, <<"admin", "console", "agents", Id, "oauth-clients">>, "page">> >>
\* Retired names.
SlugRules == <<
  <<{"POST", "DELETE"}, <<"admin", "slugs", Id, Rest, "redirect">>, "operator">>,
  <<{"DELETE"}, <<"admin", "slugs", Id>>, "operator">> >>
\* A name, a document and what hangs below it.
DocumentRules == <<
  <<{"GET"}, <<"s", Id>>, "public">>,
  <<{"GET"}, <<"s", Id, "text">>, "reader">>,
  <<{"GET"}, <<"d", Id>>, "public">>,
  <<{"PUT"}, <<"d", Id>>, "agent">>,
  <<{"DELETE"}, <<"d", Id>>, "operator">>,
  <<{"GET"}, <<"d", Id, "raw">>, "public">>,
  <<{"GET"}, <<"d", Id, "v", "1", "raw">>, "operator">>,
  <<{"GET"}, <<"d", Id, "v", "1">>, "page">>,
  <<{"GET"}, <<"d", Id, "text">>, "reader">>,
  <<{"GET"}, <<"d", Id, "source">>, "reader">>,
  <<{"GET"}, <<"d", Id, "links">>, "reader">>,
  <<{"PUT"}, <<"d", Id, "tags">>, "reader">>,
  <<{"PUT"}, <<"d", Id, "status">>, "reader">>,
  <<{"GET"}, <<"d", Id, "manage">>, "page">>,
  <<{"POST"}, <<"d", Id, "visibility">>, "page">>,
  <<{"POST"}, <<"d", Id, "slug">>, "page">>,
  <<{"POST"}, <<"d", Id, "tags">>, "page">>,
  <<{"POST"}, <<"d", Id, "status">>, "page">>,
  <<{"POST"}, <<"d", Id, "promote">>, "page">>,
  <<{"POST"}, <<"d", Id, "restore">>, "page">>,
  <<{"GET", "POST"}, <<"d", Id, "revoke">>, "page">> >>
Rules == DescriptionRules \o ApiRules \o AdminRules
           \o ConsoleRules \o SlugRules \o DocumentRules

\* HEAD is answered as GET, without the body.
WithHeadSupport(method) == IF method = "HEAD" THEN "GET" ELSE method

\* "none" is the 404 of no such route.
Gate(method, path) ==
  LET i == SelectInSeq(Rules, LAMBDA r : WithHeadSupport(method) \in r[1] /\ Matches(r[2], path))
  IN IF i = 0 THEN "none" ELSE Rules[i][3]

----------------------------------------------------------------------------
ReadMethods == {"GET", "HEAD"}
Begins(path, prefix) == IsPrefix(prefix, path)
Under(path, prefix) == IsPrefix(prefix, path) /\ path # prefix

\* Fault: the console is told from the API after the API is.
ConsoleAfterAdmin(path) == path = <<"admin">>
\* Order matters: the console's pages lie under the API's prefix.
IsConsole(path) == path = <<"admin">> \/ Begins(path, <<"admin", "console">>)

IsCorsEligible(method, path) ==
  CASE path \in {<<"healthz">>, <<"openapi.json">>} -> method \in ReadMethods
    [] path \in {<<".well-known", "assetlinks.json">>, <<".well-known", "apple-app-site-association">>} ->
         method \in ReadMethods
    [] Begins(path, <<"docs">>) -> method \in ReadMethods
    [] path = <<"d">> -> method \in ReadMethods \union {"POST"}
    [] path \in {<<"d", "search">>, <<"d", "pack">>} -> method \in ReadMethods
    [] Under(path, <<"d">>) /\ path \notin {<<"d", "search">>, <<"d", "pack">>} ->
         CASE Len(path) = 2 -> method \in ReadMethods \union {"PUT", "DELETE"}
           [] Len(path) > 3 /\ path[3] = "v" -> method \in ReadMethods /\ Last(path) = "raw"
           [] Len(path) = 3 /\ path[3] \in {"raw", "text", "source", "links"} -> method \in ReadMethods
           [] Len(path) = 3 /\ path[3] \in {"tags", "status"} -> method = "PUT"
           [] OTHER -> FALSE
    [] Under(path, <<"s">>) ->
         method \in ReadMethods /\ (Len(path) = 2 \/ (Len(path) = 3 /\ path[3] = "text"))
    [] IsConsole(path) -> FALSE
    [] Under(path, <<"admin">>) /\ ~IsConsole(path) -> method \in Methods
    [] OTHER -> FALSE

\* An origin as it is written: a host, alone, or followed by a path, or none.
NormalizeOrigin(written) == IF written.rest \in {"", "/"} THEN written.host ELSE "bad"
CorsAllowedOrigins(configured) == {NormalizeOrigin(o) : o \in configured} \ {"bad"}
ResolveAllowedOrigin(origin, allowed) == NormalizeOrigin(origin) \in allowed

\* Whether a program of that origin may make the call and read its answer:
\* by the headers on the answer, and for a method that is not simple by the
\* preflight, which is asked about that method first.
WithCors(origin, configured, method, path) ==
  /\ CorsAllowedOrigins(configured) # {}
  /\ ResolveAllowedOrigin(origin, CorsAllowedOrigins(configured))
  /\ IsCorsEligible(method, path)

----------------------------------------------------------------------------
TokenDoors == {"open", "public", "reader", "agent", "operator"}
\* The path tests let a search or a pack be a document's id; none has one.
Misnamed == {<<"d", "search">>, <<"d", "pack">>}

\* What the two lists owe each other for one method.
Agree(method) ==
  /\ \A path \in Paths :
       /\ IsCorsEligible(method, path) => Gate(method, path) \in TokenDoors \union {"none"}
       /\ Gate(method, path) \in TokenDoors /\ path \notin Misnamed => IsCorsEligible(method, path)
  /\ \A origin \in Origins, configured \in SUBSET Origins, path \in {<<"d">>, <<"admin">>} :
       WithCors(origin, configured, method, path) =>
         /\ Gate(method, path) # "page"
         /\ \E o \in configured : o.host = origin.host /\ {o.rest, origin.rest} \subseteq {"", "/"}
=============================================================================
