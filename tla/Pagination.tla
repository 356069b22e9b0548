------------------------------ MODULE Pagination ------------------------------
(***************************************************************************)
(* The lists of the documents: how a request's parameters are refused, what *)
(* a filter keeps, and how a keyset cursor cuts a list into pages.  Pure    *)
(* operators over a set of rows; a timestamp and an id are numbers, and the *)
(* text order the code compares them by is their order.                     *)
(***************************************************************************)
EXTENDS Ordering, FiniteSetsExt, SequencesExt

CONSTANTS MAX_LIMIT, DEFAULT_LIMIT, MCP_DEFAULT_LIMIT

ASSUME PaginationAssumption ==
  /\ MAX_LIMIT \in Nat \ {0}
  /\ {DEFAULT_LIMIT, MCP_DEFAULT_LIMIT} \subseteq 1..MAX_LIMIT

\* "" is an absent parameter, and an absent value of a nullable column.
LIST_ORDERS == {"created", "updated"}
DEFAULT_ORDER == "created"
NoCursor == [ts |-> 0, id |-> 0, order |-> ""]

-----------------------------------------------------------------------------
(* Parsing: the first parameter that is wrong names the refusal.  A value   *)
(* outside what the parameter may be stands for every malformed one; tags,  *)
(* slug and visibility are column tests like status, and left out.          *)

\* An order no decoder knows fails the decode of the whole cursor.
Decodes(cursor) == cursor.ts # 0 /\ cursor.order \in LIST_ORDERS \union {""}

\* A cursor with no order was minted by a list that has only the default one.
CursorOrderMismatch(cursor, order) ==
  (IF cursor.order = "" THEN DEFAULT_ORDER ELSE cursor.order) # order

OrderOf(q) == IF q.order = "" THEN DEFAULT_ORDER ELSE q.order

Refusal(q) ==
  IF q.limit \notin 0..MAX_LIMIT THEN "bad_limit"
  ELSE IF OrderOf(q) \notin LIST_ORDERS THEN "bad_request"
  ELSE IF /\ q.cursor # NoCursor
          /\ ~Decodes(q.cursor) \/ CursorOrderMismatch(q.cursor, OrderOf(q)) THEN "bad_cursor"
  ELSE IF q.since \notin Nat THEN "bad_request"
  ELSE IF q.status \notin {"", "active", "deprecated"} THEN "bad_status"
  ELSE IF q.publication \notin {"", "pending", "current"} THEN "bad_request"
  ELSE ""

\* A limit of 0 is an absent one; the two doors have their own default.
LimitOf(q, door) ==
  IF q.limit # 0 THEN q.limit
  ELSE IF door = "mcp" THEN MCP_DEFAULT_LIMIT ELSE DEFAULT_LIMIT

-----------------------------------------------------------------------------
(* Filtering.                                                               *)

\* documentPublicationClause: null-safe, and a revoked row has no publication.
Publication(row, filter) ==
  /\ row.life = "live"
  /\ IF filter = "pending" THEN row.published # row.ver
     ELSE row.published # 0 /\ row.published = row.ver

\* Fault: a strict bound.
ChangedAfter(row, since) == row.updated > since
\* The change feed's window; rows that share its millisecond are delivered.
ChangedSince(row, since) == row.updated >= since

\* A filter that is "" (or 0) is off.  Revoked rows stay in.
Matches(row, f) ==
  /\ f.since # 0 => ChangedSince(row, f.since)
  /\ f.status # "" => row.status = f.status
  /\ f.publication # "" => Publication(row, f.publication)

-----------------------------------------------------------------------------
(* Paging.                                                                  *)

\* The position of a row in the list walked by order: (time column, id).
Key(row, order) ==
  [ts |-> IF order = "updated" THEN row.updated ELSE row.created, id |-> row.id]

\* Both columns descending: a is listed ahead of b.
Ahead(a, b) == a.ts > b.ts \/ (a.ts = b.ts /\ a.id > b.id)

\* Fault: rows of one timestamp are not told apart.
PastByTime(cursor, key) == cursor.ts > key.ts
\* The cursor predicate: the timestamp, then the id.
Past(cursor, key) == Ahead(cursor, key)

Beyond(rows, cursor, order) ==
  {r \in rows : cursor = NoCursor \/ Past(cursor, Key(r, order))}

Listed(rows, order) ==
  InOrder(rows, LAMBDA a, b : Ahead(Key(a, order), Key(b, order)))

\* The next page starts after the last row of this one.
CursorAfter(listed, limit, order) == Key(listed[limit], order)

\* One page: limit + 1 rows are read, limit returned, and a cursor stamped
\* with mint (an order, or "" for a list that has only one) if one is left.
Paginate(rows, cursor, order, limit, mint) ==
  LET listed == Listed(Beyond(rows, cursor, order), order)
      more == Len(listed) > limit
      at == CursorAfter(listed, limit, order)
  IN  [items |-> SubSeq(listed, 1, Min({limit, Len(listed)})),
       next |-> IF more THEN [ts |-> at.ts, id |-> at.id, order |-> mint]
                ELSE NoCursor]
=============================================================================
