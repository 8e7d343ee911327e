--------------------------- MODULE RemoteService ---------------------------
(***************************************************************************)
(* The two neighbours of a scan that are not part of the repository, as    *)
(* its code uses them: the HTTP service a package describes and DuckDB's   *)
(* evaluation of the filters it retains.                                   *)
(*                                                                         *)
(* A service holds rows [values, record, attrs]: the typed values of the   *)
(* relation's columns, the JSON object it answers with and, by attribute,  *)
(* the text its parameters compare with.  params names the attribute of    *)
(* every query parameter it filters by, except those in loose, which it    *)
(* accepts and ignores.  The rows whose id is in withheld have a place in  *)
(* a page and are not shown, so that a page in the middle can be short or  *)
(* empty.  A response is [ok, links, body].  A service may also misbehave  *)
(* in the ways of its set faults, once per response.                       *)
(***************************************************************************)
EXTENDS ScanPlanner, ResponseDecoder

Space == [c |-> " ", class |-> "space"]

\* The characters a server reads in a form-encoded value, and in a path segment.
FormDecode(encoded) ==
    Map(encoded, LAMBDA s : IF ~s.escaped /\ s.c = "+" THEN Space ELSE [c |-> s.c, class |-> s.class])

PercentDecode(encoded) == Map(encoded, LAMBDA s : [c |-> s.c, class |-> s.class])

\* The value of a numeric field of the query, or a default.
NumberOf(query, name, default) ==
    LET fields == SelectSeq(query, LAMBDA f : f.name = name) IN
    IF fields = <<>> THEN default
    ELSE CHOOSE n \in 0..200 : Symbols(ToString(n)) = FormDecode(fields[1].encoded)

RowsServed(service, request) ==
    LET query == SelectSeq(request.query, LAMBDA f : f.name \in DOMAIN service.params \ service.loose)
        Selected(row) ==
            /\ \A i \in DOMAIN query : FormDecode(query[i].encoded) = Symbols(row.attrs[service.params[query[i].name]])
            /\ \A i \in DOMAIN service.path : service.path[i].attr # "" =>
                  PercentDecode(request.path[i]) = Symbols(row.attrs[service.path[i].attr])
    IN SelectSeq(service.rows, Selected)

\* The rows of a page, or of the whole service, that it shows.
Shown(service, rows) == SelectSeq(rows, LAMBDA row : row.attrs.id \notin service.withheld)

Answers(service, request) ==
    /\ request.origin = service.origin /\ Len(request.path) = Len(service.path)
    /\ \A i \in DOMAIN service.path :
          service.path[i].attr = "" => PercentDecode(request.path[i]) = Symbols(service.path[i].text)

----------------------------------------------------------------------------
\* JSON

Object(members) == [kind |-> "object", members |-> members]

Array(items) == [kind |-> "array", items |-> items]

Field(key, value) == [key |-> key, value |-> value]

Scalar(kind, token, reads) == [kind |-> kind, token |-> token, reads |-> reads]

\* The object that has a value at a path.
Nest(path, value) == FoldRight(LAMBDA key, inner : Object(<<Field(key, inner)>>), path, value)

Deep(depth) == FoldLeftDomain(LAMBDA inner, i : Array(<<inner>>), JsonNull, [i \in 1..depth |-> i])

\* One member of the first record is not what the relation declares.
Damaged(record, fault) ==
    LET members == record.members
        First(value) == Object(<<Field(members[1].key, value)>> \o Tail(members))
    IN CASE fault = "missing" -> Object(Tail(members))
         [] fault = "duplicate" -> Object(members \o <<members[1]>>)
         [] fault = "null" -> First(JsonNull)
         [] fault = "fraction" -> First(Scalar("number", "1.5", [t \in {"DOUBLE"} |-> "1.5"]))
         [] fault = "deep" -> Object(Append(members, Field("extra", Deep(20))))
         [] OTHER -> record

Records(rows, fault) == [i \in DOMAIN rows |-> IF i = 1 THEN Damaged(rows[i].record, fault) ELSE rows[i].record]

----------------------------------------------------------------------------
\* REST

\* The URL of a page of the operation that was asked for.
PageUrl(service, request, number) ==
    [valid |-> TRUE, origin |-> [scheme |-> service.origin.scheme, host |-> service.origin.host],
     port |-> service.origin.port, path |-> request.path, fragment |-> FALSE,
     query |-> Map(request.query, LAMBDA f :
                   [name |-> f.name, equals |-> 1, number |-> IF f.name = service.pageParam THEN number ELSE 0])]

NextLink(url) == [target |-> url, rel |-> <<"next">>, anchored |-> FALSE, wellFormed |-> TRUE]

\* The continuation as the service means it, or as a fault distorts it or leaves it out.
NextUrls(service, request, number, more, fault) ==
    LET next == PageUrl(service, request, number + service.increment) IN
    CASE fault = "skip" -> <<PageUrl(service, request, number + 2 * service.increment)>>
      [] fault = "again" -> <<PageUrl(service, request, number)>>
      [] fault = "foreign" -> <<[next EXCEPT !.origin.host = <<"elsewhere", "org">>]>>
      [] fault = "twice" -> <<next, next>>
      [] fault = "dropped" -> <<>>
      [] OTHER -> IF more THEN <<next>> ELSE <<>>

RestResponse(service, request, fault) ==
    LET number == NumberOf(request.query, service.pageParam, service.first)
        size == NumberOf(request.query, service.sizeParam, service.size)
        from == ((number - service.first) \div service.increment) * size
        served == RowsServed(service, request)
        more == from + size < Len(served)
        rows == IF Answers(service, request) THEN SubSeq(served, from + 1, Min({from + size, Len(served)})) ELSE <<>>
        records == Records(Shown(service, rows), fault)
        urls == NextUrls(service, request, number, more, fault)
        links == Map(urls, NextLink)
        unrelated == IF fault = "anchored" THEN <<[NextLink(PageUrl(service, request, number)) EXCEPT !.anchored = TRUE]>>
                     ELSE <<>>
        url == IF urls = <<>> THEN JsonNull
               ELSE Scalar("string", "next_url", [t \in {"VARCHAR"} |-> "next_url"]) @@ [url |-> urls[1]]
        continuation == CASE service.continuation # "body" -> <<>>
                          [] service.continuation = "body" /\ fault = "twice" ->
                               LET nested == Nest(service.next, url).members IN nested \o nested
                          [] OTHER -> Nest(service.next, url).members
    IN [ok |-> Answers(service, request) /\ fault # "status",
        links |-> IF service.continuation = "link" THEN unrelated \o links ELSE <<>>,
        body |-> CASE fault = "malformed" -> [kind |-> "malformed"]
                   [] service.shape = "root_array" -> Array(records)
                   [] service.shape = "root_object" -> IF records = <<>> THEN JsonNull ELSE records[1]
                   [] OTHER -> Object(Nest(service.records, Array(records)).members \o continuation)]

----------------------------------------------------------------------------
\* GraphQL

HasTokens(document, tokens) ==
    \E i \in 1..(Len(document) + 1 - Len(tokens)) : SubSeq(document, i, i + Len(tokens) - 1) = tokens

GraphqlResponse(service, request, fault) ==
    LET Selected(row) == \A name \in DOMAIN service.arguments :
                             HasTokens(request.document, <<name, ":", row.attrs[service.arguments[name]]>>)
        served == SelectSeq(service.rows, Selected)
        k == IF request.cursor = "" THEN 0 ELSE CHOOSE i \in DOMAIN service.cursors : service.cursors[i] = request.cursor
        from == k * request.pageSize
        more == from + request.pageSize < Len(served)
        rows == SubSeq(served, from + 1, Min({from + request.pageSize, Len(served)}))
        cursor == IF fault = "again" THEN service.cursors[1] ELSE service.cursors[k + 1]
        flag == IF fault # "dropped" /\ (more \/ fault \in {"again", "uncursored"}) THEN "true" ELSE "false"
        pageInfo == Object(<<Field(service.hasNext, Scalar("boolean", flag, [t \in {"BOOLEAN"} |-> flag])),
                             Field(service.endCursor, IF fault = "uncursored" THEN JsonNull
                                                      ELSE Scalar("string", cursor, [t \in {"VARCHAR"} |-> cursor]))>>)
        connection == Object(<<Field("nodes", Array(Records(Shown(service, rows), fault))), Field(service.pageInfo, pageInfo)>>)
        errors == IF fault = "errors" THEN <<Field("errors", Array(<<Object(<<>>)>>))>> ELSE <<>>
    IN [ok |-> request.origin = service.origin /\ request.path = service.path /\ fault # "status",
        links |-> <<>>,
        body |-> IF fault = "malformed" THEN [kind |-> "malformed"]
                 ELSE Object(Nest(<<"data">> \o service.root, connection).members \o errors)]

\* Every response the service can give.
Respond(service, request) ==
    {IF service.protocol = "rest" THEN RestResponse(service, request, fault)
     ELSE GraphqlResponse(service, request, fault) : fault \in service.faults \cup {"none"}}

----------------------------------------------------------------------------
\* DuckDB

\* An expression over a row of typed values has three truth values: "T", "F" and "N".
RECURSIVE Evaluate(_, _)
Evaluate(expression, values) ==
    LET Value(operand) == IF operand.kind = "COLUMN" THEN values[operand.index] ELSE operand
        Truth(value) == IF value THEN "T" ELSE "F"
        inner == {Evaluate(expression.children[i], values) : i \in DOMAIN expression.children}
    IN CASE expression.kind = "EQUAL" ->
              LET left == Value(expression.operands[1])
                  right == Value(expression.operands[2])
              IN IF left.null \/ right.null THEN "N" ELSE Truth(left.v = right.v)
         [] expression.kind = "IN" ->
              IF values[expression.index].null THEN "N" ELSE Truth(values[expression.index].v \in expression.texts)
         [] expression.kind = "AND" -> IF "F" \in inner THEN "F" ELSE IF "N" \in inner THEN "N" ELSE "T"
         [] expression.kind = "OR" -> IF "T" \in inner THEN "T" ELSE IF "N" \in inner THEN "N" ELSE "F"
         [] OTHER -> IF "N" \in inner THEN "N" ELSE Truth("F" \in inner)

\* A row is in the result when every filter is true of it.
Passes(filters, values) == \A i \in DOMAIN filters : Evaluate(filters[i], values) = "T"
=============================================================================
