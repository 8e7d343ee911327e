-------------------------- MODULE ResponseDecoder --------------------------
(***************************************************************************)
(* What Runtime reads out of a response body                               *)
(* (src/src/runtime/decoding/).  A body is a JSON value:                   *)
(*   [kind |-> "null"]                                                     *)
(*   [kind |-> "string" | "number" | "boolean", token, reads]              *)
(*   [kind |-> "array", items]                                             *)
(*   [kind |-> "object", members]   a sequence of [key, value]             *)
(* where token is the text a string or number spells and reads gives the   *)
(* value it has as each type it can be read as.  The body the parser finds *)
(* malformed is [kind |-> "malformed"].  A decoder gives the set of the    *)
(* one page it reads, or the empty set when the scan fails.                *)
(***************************************************************************)
EXTENDS PackageText

JsonNull == [kind |-> "null"]

RECURSIVE Nesting(_)
Nesting(value) ==
    LET inner == CASE value.kind = "array" -> ToSet(value.items)
                   [] value.kind = "object" -> {m.value : m \in ToSet(value.members)}
                   [] OTHER -> {}
    IN  IF inner = {} THEN 0 ELSE 1 + Max({Nesting(v) : v \in inner})

\* The parser reads the whole body before it extracts anything from it.
ValidateDocument(body, nesting) == body.kind # "malformed" /\ Nesting(body) <= nesting

Members(value, key) == SelectSeq(value.members, LAMBDA m : m.key = key)

\* A member of an object that must be there once.
Member(value, key) ==
    IF value.kind = "object" /\ Len(Members(value, key)) = 1 THEN {Members(value, key)[1].value} ELSE {}

Descend(value, path) == FoldLeft(LAMBDA found, key : UNION {Member(v, key) : v \in found}, {value}, path)

\* One value of each option, in order, or nothing.
Every(options) ==
    IF \E i \in DOMAIN options : options[i] = {} THEN {}
    ELSE {[i \in DOMAIN options |-> CHOOSE v \in options[i] : TRUE]}

NullOf(type) == [type |-> type, null |-> TRUE, v |-> ""]

\* Strings are bounded, numbers have to be of the declared type and in its range.
ParseScalarElement(type, value, limits) ==
    IF /\ value.kind \in {"string", "number", "boolean"}
       /\ type \in DOMAIN value.reads
       /\ value.kind = "string" => Size(value.token) <= limits.string
       /\ value.kind = "number" => Size(value.token) <= (IF type = "BIGINT" THEN limits.integer ELSE limits.double)
    THEN {[type |-> type, null |-> FALSE, v |-> value.reads[type]]}
    ELSE {}

ParseArray(column, value, limits) ==
    IF value.kind # "array" THEN {}
    ELSE {[type |-> column.type, null |-> FALSE, elements |-> e] :
            e \in Every([i \in DOMAIN value.items |->
                     IF value.items[i].kind # "null" THEN ParseScalarElement(column.type, value.items[i], limits)
                     ELSE IF column.elementNullable THEN {NullOf(column.type)} ELSE {}])}

\* A null where the column allows one; the value of the column's type elsewhere.
ParseColumnValue(column, value, limits) ==
    CASE value.kind = "null" -> IF column.nullable THEN {NullOf(column.type)} ELSE {}
      [] value.kind # "null" /\ column.shape = "ARRAY" -> ParseArray(column, value, limits)
      [] OTHER -> ParseScalarElement(column.type, value, limits)

----------------------------------------------------------------------------
\* REST (json_decoder.cpp)

\* Tokens of a REST body are bounded by the response alone.
JsonDecodePlan(plan, records) ==
    [source |-> plan.operation.response, path |-> plan.operation.records, columns |-> plan.columns,
     next |-> plan.pagination.nextUrlPath, records |-> records, nesting |-> plan.budgets.nesting,
     string |-> plan.budgets.stringBytes, integer |-> plan.budgets.responseBytes, double |-> plan.budgets.responseBytes]

\* Every object on the way to a column is there once, and is an object.
ParseRecord(decode, record) ==
    IF record.kind # "object" THEN {}
    ELSE Every([i \in DOMAIN decode.columns |->
             UNION {ParseColumnValue(decode.columns[i], v, decode) : v \in Descend(record, decode.columns[i].path)}])

RecordsOf(decode, body) ==
    CASE decode.source = "root_object" -> IF body.kind = "object" THEN {<<body>>} ELSE {}
      [] decode.source = "root_array" -> IF body.kind = "array" THEN {body.items} ELSE {}
      [] OTHER -> {v.items : v \in {w \in Descend(body, decode.path) : w.kind = "array"}}

\* The continuation is optional: a level that is not there ends the scan, a level that is there twice fails it.
ExtractContinuation(decode, body) ==
    LET Step(found, key) ==
            UNION {CASE v.kind # "object" \/ Members(v, key) = <<>> -> {JsonNull}
                     [] OTHER -> Member(v, key) : v \in found}
        leaf == FoldLeft(Step, {body}, decode.next)
    IN  UNION {CASE v.kind = "null" -> {JsonNull}
                 [] v.kind = "string" /\ Size(v.token) <= decode.string -> {v}
                 [] OTHER -> {} : v \in leaf}

DecodeJsonPage(decode, body) ==
    IF ~ValidateDocument(body, decode.nesting) THEN {}
    ELSE {[rows |-> rows, next |-> next] :
            rows \in UNION {IF Len(records) > decode.records THEN {}
                            ELSE Every([i \in DOMAIN records |-> ParseRecord(decode, records[i])])
                            : records \in RecordsOf(decode, body)},
            next \in IF decode.source = "terminal_collection" /\ decode.next # <<>>
                     THEN ExtractContinuation(decode, body) ELSE {JsonNull}}

----------------------------------------------------------------------------
\* GraphQL (graphql_response_decoder.cpp)

GraphqlDecodeLimits(plan, records) ==
    [records |-> records, nesting |-> plan.budgets.nesting, string |-> plan.budgets.stringBytes,
     integer |-> 32, double |-> 64]

\* A null on the way to a nullable column is the column's value.
ParseColumn(column, node, limits) ==
    LET Step(found, key) == UNION {IF v.kind = "null" THEN {v} ELSE Member(v, key) : v \in found}
    IN  UNION {ParseColumnValue(column, v, limits) : v \in FoldLeft(Step, {node}, column.path)}

ParseNode(columns, node, limits) ==
    IF node.kind # "object" THEN {}
    ELSE Every([i \in DOMAIN columns |-> ParseColumn(columns[i], node, limits)])

\* An "errors" member is an empty array or not there.
CheckErrors(body) ==
    body.kind = "object" =>
        LET errors == Members(body, "errors") IN
        \/ errors = <<>>
        \/ Len(errors) = 1 /\ errors[1].value.kind = "array" /\ errors[1].value.items = <<>>

ParseRows(columns, nodes, limits) ==
    IF nodes.kind # "array" \/ Len(nodes.items) > limits.records THEN {}
    ELSE Every([i \in DOMAIN nodes.items |-> ParseNode(columns, nodes.items[i], limits)])

ParseHasNext(value, limits) == {r.v = "true" : r \in ParseScalarElement("BOOLEAN", value, limits)}

ParseEndCursor(value, limits) ==
    CASE value.kind = "null" -> {""}
      [] value.kind = "string" -> {r.v : r \in ParseScalarElement("VARCHAR", value, limits)}
      [] OTHER -> {}

\* The whole response: a page that has a successor names it.
DecodeGraphqlResponse(plan, limits, body) ==
    LET operation == plan.operation
    IN  IF ~ValidateDocument(body, limits.nesting) \/ ~CheckErrors(body) THEN {}
        ELSE {page \in
                {[rows |-> rows, hasNext |-> more, endCursor |-> cursor] :
                   rows \in UNION {ParseRows(plan.columns, v, limits) : v \in Descend(body, operation.nodes)},
                   more \in UNION {ParseHasNext(v, limits) : v \in Descend(body, operation.cursor.hasNext)},
                   cursor \in UNION {ParseEndCursor(v, limits) : v \in Descend(body, operation.cursor.endCursor)}}
              : page.hasNext => page.endCursor # ""}
=============================================================================
