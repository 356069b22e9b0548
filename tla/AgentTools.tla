----------------------------- MODULE AgentTools -----------------------------
(***************************************************************************)
(* The tools agents call over MCP (mcp.ts, mcp-toolset.ts,                 *)
(* mcp-document-target.ts, mcp-tools/), composed with the doors.           *)
(*                                                                         *)
(* A call is let in once, by its token, and then makes several reads and   *)
(* at most one write, an action each, while OperatorDoors changes what it  *)
(* has already read: the name it was given, the target of its redirect,    *)
(* the history, the body, and the row it echoes beside them.               *)
(*                                                                         *)
(* A key stands for a grant too: the tools see the agent only.  The lists, *)
(* the search, the packs and the credential are Pagination's,              *)
(* SearchIndex's, Packs' and AgentAccess'.                                 *)
(***************************************************************************)
EXTENDS OperatorDoors

ReadTools == {"read_document", "view_document"}
WriteTools == {"publish_document", "update_document", "edit_document", "set_document_status"}
DocumentTools == ReadTools \union WriteTools

\* Which tools a connection has: exactly those it names, or a preset.
McpToolNames ==
  DocumentTools \union {"set_document_tags", "list_documents", "search_documents",
                        "load_context_pack", "create_publish_credential"}
DefaultMcpTools == McpToolNames \ {"view_document"}
Reader == {"read_document", "list_documents", "search_documents", "load_context_pack"}
McpToolsets ==
  [reader |-> Reader,
   author |-> Reader \union WriteTools \union {"set_document_tags"},
   full |-> McpToolNames]

Rejected == {}     \* the connection is refused: 400
ParseToolsetParam(tools) ==
  CASE tools = None -> DefaultMcpTools
    [] tools # None /\ tools # {} /\ tools \subseteq McpToolNames -> tools
    [] OTHER -> Rejected
ParseToolSelection(tools, toolset) ==
  CASE toolset = None -> ParseToolsetParam(tools)
    [] toolset # None /\ tools = None /\ toolset \in DOMAIN McpToolsets -> McpToolsets[toolset]
    [] OTHER -> Rejected

----------------------------------------------------------------------------
\* What each tool is called with; an argument it does not take has one value.
ArgsOf(tool) ==
  LET Flag == IF tool = "read_document" THEN BOOLEAN ELSE {FALSE}
      Replaces == tool \in {"update_document", "edit_document"}
      Marks == tool = "set_document_status"
  IN [follow : Flag, history : Flag, source : Flag,
      pinned : IF tool \in ReadTools THEN {0, AskedVersion} ELSE {0},
      expected : IF Replaces THEN {0, AskedVersion} ELSE {0},
      slug : (IF tool = "publish_document" \/ Replaces THEN Slugs \union {None} ELSE {})
               \union (IF tool = "publish_document" THEN {} ELSE {Keep}),
      status : IF Marks THEN {"active", "deprecated"} ELSE {"active"},
      superseded_by : IF Marks THEN Docs \union {None} ELSE {None}]

Identities(tool) == IF tool = "publish_document" THEN {None} ELSE Slugs \union scene.asked

CallTool(tool, target, c, args) ==
  /\ req = None /\ left.reads > 0
  /\ tool \in ParseToolSelection(scene.tools, scene.toolset)
  /\ left' = [left EXCEPT !.reads = @ - 1]
  /\ req' = [door |-> tool, target |-> target, c |-> c, args |-> args, step |-> "token",
             let_in |-> env, doc |-> IF target \in Docs THEN target ELSE None,
             version |-> None, current |-> None, echo |-> None, how |-> None]
  /\ answer' = None /\ acted' = None
  /\ UNCHANGED <<store, browser, scene>>

Tell(status, r) ==
  /\ answer' = [door |-> r.door, target |-> r.target, c |-> r.c, args |-> r.args, doc |-> r.doc,
                version |-> r.version, current |-> r.current, echo |-> r.echo, how |-> r.how,
                status |-> status]
  /\ req' = None
TellError(status) == Tell(status, [req EXCEPT !.how = "refused"])

\* What a tool does once it knows its document.
Identified(r) ==
  CASE r.door = "read_document" -> IF r.args.history THEN "history" ELSE "echo"
    [] r.door = "view_document" -> "body"
    [] r.door = "edit_document" -> "base"
    [] r.door = "set_document_status" -> "successor"
    [] OTHER -> "write"

\* The provider checks the token before the dispatcher runs.
CheckToken ==
  /\ At("token")
  /\ IF AuthenticateAgent(env, req.c.bearer)
       THEN Continue([req EXCEPT !.let_in = env,
                        !.step = IF req.target \in Slugs THEN "resolve" ELSE Identified(req)])
       ELSE TellError(401)

\* Fault: a write goes where a read would be forwarded to.
IsForwardedAlways(r) == r.door # "view_document"
IsForwarded(r) == r.door = "read_document" /\ r.args.follow

\* resolveWriteTarget, and the same lookups in the reading tools.
ResolveTarget ==
  /\ At("resolve")
  /\ \/ Named(req.target) = {} /\ Go("retired")
     \/ \E d \in Named(req.target) : Continue([req EXCEPT !.doc = d, !.step = Identified(req)])

FindRetired ==
  /\ At("retired")
  /\ IF req.target \notin DOMAIN slug_tombstones
       THEN TellError(404)
       ELSE LET to == slug_tombstones[req.target] IN
            IF to = None \/ (req.door \in WriteTools /\ ~IsForwarded(req))
              THEN TellError(410)
              ELSE Continue([req EXCEPT !.doc = to, !.step = "forwarded"])

\* Only a read that asks to be is forwarded; the others are told where to.
ForwardedTo ==
  /\ At("forwarded")
  /\ LET row == documents[req.doc] IN
     CASE ~Live(row) -> Tell(410, [req EXCEPT !.doc = None, !.how = "refused"])
       [] Live(row) /\ IsForwarded(req) -> Go(Identified(req))
       [] OTHER -> Tell(IF req.door = "read_document" THEN 200 ELSE 410,
                        [req EXCEPT !.how = "redirected",
                           !.version = IF req.door = "read_document" THEN ServedVersion(row) ELSE None])

\* listVersionsCore beside a read; a document it does not find adds nothing.
ListHistory ==
  /\ At("history")
  /\ LET row == documents[req.doc] IN
     Continue([req EXCEPT !.step = "echo", !.current = IF Live(row) THEN row.current_ver ELSE None])

EchoOf(row) == [visibility |-> row.visibility, published |-> row.published_ver]

\* One row, whatever its state: before the body of a read, after all else.
CurrentEcho ==
  /\ At("echo")
  /\ LET echoed == [req EXCEPT !.step = "body",
                      !.echo = IF documents[req.doc].life = "none" THEN None
                               ELSE EchoOf(documents[req.doc])] IN
     IF req.door = "read_document" THEN Continue(echoed) ELSE Tell(200, echoed)

\* readDocumentCore, readDocumentTextCore, readDocumentSourceCore.
BodyRow ==
  /\ At("body")
  /\ LET row == documents[req.doc]
         n == IF req.args.pinned = 0 THEN row.current_ver ELSE req.args.pinned
     IN IF Live(row) /\ n <= row.current_ver
          THEN Continue([req EXCEPT !.version = n, !.step = "body_bytes"]) ELSE TellError(404)
BodyBytes ==
  /\ At("body_bytes")
  /\ IF <<req.doc, req.version>> \notin blobs
       THEN TellError(IF req.args.source THEN 409 ELSE 404)
       ELSE LET shown == [req EXCEPT !.how = "shown", !.step = "echo"] IN
            IF req.door = "view_document" THEN Continue(shown) ELSE Tell(200, shown)

\* editDocumentCore: the source it matches against, and the version it guards.
EditBase ==
  /\ At("base")
  /\ LET row == documents[req.doc] IN
     IF Live(row) THEN Continue([req EXCEPT !.version = row.current_ver, !.step = "base_bytes"])
     ELSE TellError(404)
EditBytes ==
  /\ At("base_bytes")
  /\ CASE <<req.doc, req.version>> \notin blobs -> TellError(409)
       [] <<req.doc, req.version>> \in blobs /\ req.args.expected \notin {0, req.version} -> TellError(412)
       [] OTHER -> Continue([req EXCEPT !.args.expected = req.version, !.step = "write"])

\* setDocumentStatusCore: the successor, then the row.
StatusSuccessor ==
  /\ At("successor")
  /\ IF SetDocumentStatusCore(req.doc, req.args.status, req.args.superseded_by).status = Pending
       THEN Go("mark") ELSE TellError(422)

ReadingStep ==
  \/ CheckToken \/ ResolveTarget \/ FindRetired \/ ForwardedTo \/ ListHistory \/ CurrentEcho
  \/ BodyRow \/ BodyBytes \/ EditBase \/ EditBytes \/ StatusSuccessor

----------------------------------------------------------------------------
\* The batch of a write.
Perform(step, d, core) ==
  /\ req # None /\ req.step = step
  /\ documents' = core.documents /\ slug_tombstones' = core.slug_tombstones /\ blobs' = core.blobs
  /\ IF core.status < 300
       THEN /\ req' = [req EXCEPT !.doc = d, !.step = "echo",
                         !.how = IF step = "mark" THEN "marked" ELSE "written",
                         !.version = IF step = "mark" THEN None ELSE core.documents[d].current_ver]
            /\ acted' = [c |-> req.c, env |-> req.let_in]
            /\ answer' = None
       ELSE TellError(core.status) /\ acted' = None
  /\ UNCHANGED <<env, job, browser, scene, left>>

Publish(d) ==
  /\ req # None /\ req.door = "publish_document" /\ documents[d].life = "none"
  /\ Perform("write", d, PublishDocumentCore(d, scene.default_visibility, req.args.slug))
Update ==
  /\ req # None /\ req.door \in {"update_document", "edit_document"}
  /\ Perform("write", req.doc, UpdateDocumentCore(req.doc, req.args.expected, req.args.slug, "agent"))
Mark ==
  /\ req # None /\ req.door = "set_document_status"
  /\ Perform("mark", req.doc,
       IF ~Live(documents[req.doc]) THEN Fails(404)
       ELSE Writes([documents EXCEPT ![req.doc].status = req.args.status,
              ![req.doc].superseded_by =
                 IF req.args.status = "deprecated" THEN req.args.superseded_by ELSE None]))

Call ==
  \E tool \in DocumentTools \intersect ParseToolSelection(scene.tools, scene.toolset) :
    \E target \in Identities(tool), c \in {c \in Callers : c.bearer # None}, args \in ArgsOf(tool) :
      CallTool(tool, target, c, args)

NextWithTools ==
  /\ \/ Act
     \/ Call \/ ReadingStep
     \/ \E d \in Docs : Publish(d)
     \/ Update \/ Mark
  /\ Watch

SpecWithTools == Init /\ [][NextWithTools]_vars

----------------------------------------------------------------------------
Env == [token : Nat, epoch : Nat, now : Nat, keys : SUBSET Keys, issued : SUBSET Keys]
Credentials ==
  [bearer : {None} \union ({"operator"} \X Nat) \union ({"agent"} \X Keys),
   cookie : {None} \union Session, csrf : Int, operator_token : Nat]
Authority == [c : Credentials, env : Env]
HttpSteps ==
  {"reader", "raw", "raw_principal", "raw_bytes", "shell", "shell_principal", "slug", "home",
   "page_operator", "version_row", "version_bytes", "operator", "record_row", "versions_row",
   "current", "current_bytes", "name", "tomb", "target", "target_principal", "target_row"}
ToolSteps ==
  {"token", "resolve", "retired", "forwarded", "history", "echo", "body", "body_bytes",
   "base", "base_bytes", "successor", "write", "mark"}
HttpRequest ==
  [door : HttpDoors, target : Docs \union Slugs, c : Credentials, inm : SUBSET Nat, follow : BOOLEAN,
   step : HttpSteps, next : {"raw", "name", "current", "target"}, doc : Docs \union {None},
   row : DocumentRow, who : {"anonymous", "agent", "operator"}]
ToolArgs ==
  [follow : BOOLEAN, history : BOOLEAN, source : BOOLEAN, pinned : Nat, expected : Nat,
   slug : Slugs \union {None, Keep}, status : {"active", "deprecated"}, superseded_by : Docs \union {None}]
Echoes == [visibility : {"public", "private"}, published : Nat]
ToolRequest ==
  [door : DocumentTools, target : Docs \union Slugs \union {None}, c : Credentials, args : ToolArgs,
   step : ToolSteps, let_in : Env, doc : Docs \union {None}, version : Nat \union {None},
   current : Nat \union {None},
   echo : Echoes \union {None},
   how : {None, "refused", "redirected", "shown", "written", "marked"}]
Job ==
  [kind : {"status", "redirect", "purge"}, slug : Slugs \union {None}, doc : Docs,
   status : {"active", "deprecated", None}, target : Docs \union {None}, by : Authority]

\* The absent value is none of these.  A tool is called with a document's id or
\* with a name, in fields of their own.
ASSUME ToolsAssumption == None \notin Authority \union Echoes /\ Docs \intersect Slugs = {}

\* Types, and what makes the tables sound: a public document has a published
\* version, a live one its bytes, a name one holder, and a retired name none.
SoundStore ==
  /\ documents \in [Docs -> DocumentRow] /\ \A d \in Docs : SoundRow(documents[d])
  /\ SoundNames(documents, slug_tombstones)
  /\ blobs \subseteq Docs \X Nat
  /\ \A d \in Docs : Live(documents[d]) => \A n \in 1..documents[d].current_ver : <<d, n>> \in blobs
  /\ env \in Env
  /\ jar \in Session \union {None} /\ page \in Int
  /\ job \in Job \union {None}
TypeOK == SoundStore /\ req \in {None} \union HttpRequest \union ToolRequest

----------------------------------------------------------------------------
\* What a tool says, and the moments it may be true of.

ToolTells(a, moments) ==
  LET Once(P(_)) == \E m \in moments : P(m)
      Row(m) == m.documents[a.doc]
      Asks(m) == AuthenticateAgent(m.env, a.c.bearer)
      Addressed(m) ==
        \/ a.target \in {a.doc, None, Row(m).slug}
        \/ /\ a.how = "redirected" \/ (a.door = "read_document" /\ a.args.follow)
           /\ Forwards(m, a.target, a.doc)
      Reached(m) == Live(Row(m)) /\ a.version <= Row(m).current_ver
      Newest(m) == Live(Row(m)) /\ a.version = Row(m).current_ver
      Before(m) == a.version = Row(m).current_ver + 1
      Marked(m) == Live(Row(m)) /\ Row(m).status = a.args.status
      Titled(m) == Live(Row(m)) /\ a.version \in {None, Shown(Row(m))}
      Echoed(m) == a.echo = IF Row(m).life = "none" THEN None ELSE EchoOf(Row(m))
      Open(m) == Reads(m, Anonymous, a.doc) /\ a.version = Shown(Row(m))
      Current(m) == Live(Row(m)) /\ a.current = Row(m).current_ver
  IN /\ Once(Asks) /\ Once(Addressed)
     /\ CASE a.how = "shown" -> IF a.args.pinned = 0 THEN Once(Newest)
                                ELSE a.version = a.args.pinned /\ Once(Reached)
          [] a.how = "written" -> /\ Once(Before) /\ Once(Newest)
                                  /\ a.args.expected \in {0, a.version - 1}
          [] a.how = "marked" -> Once(Marked)
          [] a.how = "redirected" -> Once(Titled)
     /\ a.how # "redirected" => Once(Echoed)
     /\ a.how \in {"shown", "written"} /\ a.echo = [visibility |-> "public", published |-> a.version] =>
          Once(Open)
     /\ a.current # None => Once(Current)

ToolRefuses(a, moments) ==
  LET Once(P(_)) == \E m \in moments : P(m)
      Unknown(m) == ~AuthenticateAgent(m.env, a.c.bearer)
      Unspent(m) == ~Retired(m, a.target)
      Unheld(m) == \A d \in Docs : m.documents[d].slug # a.target
      Missing(m) == ~Live(m.documents[a.doc]) \/ a.args.pinned > m.documents[a.doc].current_ver
      Lost(m) == /\ Retired(m, a.target)
                 /\ a.door \notin WriteTools /\ m.slug_tombstones[a.target] # None =>
                      \E later \in moments : ~Live(later.documents[m.slug_tombstones[a.target]])
      Stale(m) == a.args.expected \notin {0, m.documents[a.doc].current_ver}
      Locked(m) == /\ m.documents[a.doc].visibility = "public"
                   /\ a.args.slug \notin {Keep, m.documents[a.doc].slug}
      Taken(m) == /\ a.args.slug \in Slugs
                  /\ Retired(m, a.args.slug) \/ \E d \in Docs : m.documents[d].slug = a.args.slug
      Unfit(m) == a.args.superseded_by = a.doc \/ ~Live(m.documents[a.args.superseded_by])
  IN CASE a.status = 401 -> Once(Unknown)
       [] a.status = 403 -> Once(Locked)
       [] a.status = 404 -> IF a.doc = None THEN Once(Unspent) /\ Once(Unheld) ELSE Once(Missing)
       [] a.status = 409 -> Once(Taken) \/ Once(Missing)
       [] a.status = 410 -> Once(Lost)
       [] a.status = 412 -> Once(Stale)
       [] a.status = 422 -> Once(Unfit)

\* However names, documents and keys change between the reads of one call, a
\* tool tells its agent what was so: a call by name reached a document that had
\* that name (only a read that asked for it went through a redirect, a write
\* never), the version written is the next one and under the expected one, the
\* echo is one row's, and an echo that says the public page shows this version
\* says so of a moment when it did; a refusal was the right one.
ToolsTellTheTruth ==
  answer # None /\ answer.door \in DocumentTools =>
    IF answer.how = "refused" THEN ToolRefuses(answer, seen) ELSE ToolTells(answer, seen)
=============================================================================
