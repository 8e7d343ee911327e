-------------------------- MODULE PageContinuation --------------------------
(***************************************************************************)
(* Which page a paginated scan asks for next                               *)
(* (src/src/runtime/pagination/).  Runtime never follows a URL a server    *)
(* names: it checks that the URL means the next page of the operation and  *)
(* then asks for that page itself.  A URL is                               *)
(*   [valid, origin, port, path, query, fragment]                          *)
(* whether it is a URI reference, its scheme and host, the port it spells  *)
(* (0 for none), the segments of its path as they are spelled, and its     *)
(* query as a sequence of [name, equals, number]: a field's name, how many *)
(* equals signs it has and the positive decimal its value spells (0 for    *)
(* none).  A Link value is [target, rel, anchored, wellFormed], rel the    *)
(* relation types of its first rel parameter.                              *)
(***************************************************************************)
EXTENDS PackageText

NoNext == [hasNext |-> FALSE, page |-> 0]

\* The page of an acceptable URL as a set of at most one.
ValidateNextTarget(url, current, pagination, origin, path) ==
    LET pages == SelectSeq(url.query, LAMBDA f : f.name = pagination.pageNumberParameter)
        next == current + pagination.pageIncrement
    IN  IF /\ url.origin = [scheme |-> origin.scheme, host |-> origin.host]
           /\ url.port = origin.port \/ (url.port = 0 /\ origin.scheme = "https" /\ origin.port = 443)
           /\ url.path = path /\ ~url.fragment
           /\ url.query # <<>>
           /\ \A i \in DOMAIN url.query : url.query[i].name # "" /\ url.query[i].equals = 1
           /\ \A i, j \in DOMAIN url.query : url.query[i].name = url.query[j].name => i = j
           /\ Len(pages) = 1 /\ pages[1].number = next
        THEN {next} ELSE {}

\* A value that is not well formed, or without rel, fails the whole field.
ParseLinkValue(link) == link.wellFormed /\ link.target.valid /\ link.rel # <<>>

\* An anchored link is about another resource.
IsNext(link) == "next" \in ToSet(link.rel) /\ ~link.anchored

ParseLinkHeaderFields(links) ==
    IF \A i \in DOMAIN links : ParseLinkValue(links[i]) THEN {SelectSeq(links, IsNext)} ELSE {}

Continue(pages) == {[hasNext |-> TRUE, page |-> page] : page \in pages}

\* link_next: two next links are as bad as a wrong one.
Advance(links, current, pagination, origin, path) ==
    UNION {CASE nexts = <<>> -> {NoNext}
             [] Len(nexts) = 1 -> Continue(ValidateNextTarget(nexts[1].target, current, pagination, origin, path))
             [] OTHER -> {} : nexts \in ParseLinkHeaderFields(links)}

\* response_next: a continuation that is null, empty or not there ends the scan.
AdvanceBody(next, current, pagination, origin, path) ==
    IF next.kind = "null" \/ next.token = "" THEN {NoNext}
    ELSE Continue(ValidateNextTarget(next.url, current, pagination, origin, path))

\* Fault: only an empty page is taken for the last one.
AdvanceByCountUntilEmpty(rows, current, pagination) ==
    IF rows = 0 THEN {NoNext} ELSE Continue({current + pagination.pageIncrement})

\* short_page: nothing but the number of rows says whether there is more.
AdvanceByCount(rows, current, pagination) ==
    IF rows = 0 \/ rows < pagination.pageSize THEN {NoNext} ELSE Continue({current + pagination.pageIncrement})

----------------------------------------------------------------------------
\* Relay cursors (graphql_cursor_pagination.cpp).  The state is the number of
\* pages requested and the cursors seen so far, the last of them the next request's.

GraphqlCursorState == [requested |-> 0, seen |-> <<>>]

CurrentCursor(cursor) == IF cursor.seen = <<>> THEN "" ELSE cursor.seen[Len(cursor.seen)]

MarkRequestStarted(cursor, maxPages) ==
    IF cursor.requested >= maxPages THEN {} ELSE {[cursor EXCEPT !.requested = @ + 1]}

\* The next request's cursor was never one before.
AdvanceCursor(cursor, endCursor, maxBytes) ==
    IF endCursor = "" \/ Size(endCursor) > maxBytes \/ endCursor \in ToSet(cursor.seen) THEN {}
    ELSE {[cursor EXCEPT !.seen = Append(@, endCursor)]}
=============================================================================
