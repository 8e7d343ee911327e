-------------------------- MODULE MCScanPipeline --------------------------
(***************************************************************************)
(* The packages, queries, services and operator profiles of the pipeline   *)
(* runs.  Every family starts from one package that works and varies a few *)
(* of its fields together.                                                 *)
(***************************************************************************)
EXTENDS ScanPipeline

----------------------------------------------------------------------------
\* Texts

Word(t, len) == [len |-> len, first |-> "lower", last |-> "lower", has |-> {"lower"}, folded |-> t,
                 dunder |-> FALSE, hint |-> FALSE, number |-> FALSE]

Words == {"api", "acme", "com", "elsewhere", "org", "items", "item", "id", "kind", "bug", "task", "owner", "ann", "state",
          "open", "page", "next", "meta", "tags", "data", "nodes", "red", "extra", "errors", "true", "false", "null",
          "first", "after", "viewer", "list", "detail", "kind_is", "owner_is", "matching", "none", "twice", "core",
          "retry_after", "next_url", "accept", "json", "content", "query", "token", "key", "per_page", "x-key", "reset"}

Numbers == 0..40

MCShape ==
    [t \in Words |-> Word(t, 5)]
      @@ [t \in {"kind_is", "owner_is", "per_page", "next_url", "retry_after"} |->
            [Word(t, 7) EXCEPT !.has = {"lower", "underscore"}]]
      @@ [t \in {"pageInfo", "hasNextPage", "endCursor", "Items", "Int!", "String", "Accept", "OPEN"} |->
            [Word(t, 8) EXCEPT !.has = {"lower", "upper"}, !.folded = IF t = "Accept" THEN "accept" ELSE t]]
      @@ [t \in {"Content-Type", "X-Key", "x-key"} |->
            [Word(t, 9) EXCEPT !.first = IF t = "x-key" THEN "lower" ELSE "upper", !.has = {"upper", "lower", "dash"},
                               !.folded = IF t = "Content-Type" THEN "content-type" ELSE "x-key"]]
      @@ ("application/json" :> [Word("application/json", 16) EXCEPT !.has = {"lower", "slash"}])
      @@ ("" :> [Word("", 0) EXCEPT !.first = "none", !.last = "none", !.has = {}])
      @@ ("a b" :> [Word("a b", 3) EXCEPT !.has = {"lower", "space"}])
      @@ ("a+b" :> [Word("a+b", 3) EXCEPT !.has = {"lower", "token"}])
      @@ ("a/b" :> [Word("a/b", 3) EXCEPT !.has = {"lower", "slash"}])
      @@ ("a^b" :> [Word("a^b", 3) EXCEPT !.has = {"lower", "control"}])
      @@ ("1.5" :> [Word("1.5", 3) EXCEPT !.first = "digit", !.last = "digit", !.has = {"digit", "dot"}])
      @@ [t \in {"c1", "c2", "c3", "c4", "c5"} |-> [Word(t, 2) EXCEPT !.last = "digit", !.has = {"lower", "digit"}]]
      @@ [t \in {ToString(n) : n \in Numbers} |->
            [Word(t, IF t \in {ToString(n) : n \in 0..9} THEN 1 ELSE 2) EXCEPT
               !.first = "digit", !.last = "digit", !.has = {"digit"}, !.number = TRUE]]

Lower(c) == [c |-> c, class |-> "lower"]

MCSpell ==
    ("" :> <<>>)
      @@ ("a b" :> <<Lower("a"), Space, Lower("b")>>)
      @@ ("a+b" :> <<Lower("a"), Plus, Lower("b")>>)
      @@ ("a/b" :> <<Lower("a"), [c |-> "/", class |-> "slash"], Lower("b")>>)
      @@ ("a^b" :> <<Lower("a"), [c |-> "^", class |-> "control"], Lower("b")>>)

----------------------------------------------------------------------------
\* Declarations

Put(record, key, value) == (key :> value) @@ record

\* A field that is left out when its value is the empty text or 0.
PutText(record, key, value) == IF value = "" THEN record ELSE Put(record, key, value)
PutNumber(record, key, value) == IF value = 0 THEN record ELSE Put(record, key, value)

Acme == [scheme |-> "https", host |-> <<"api", "acme", "com">>, port |-> 443]
Other == [scheme |-> "https", host |-> <<"elsewhere", "org">>, port |-> 443]

Literal(type, text, num) == [quoted |-> TRUE, num |-> num, value |-> (type :> text)]

Fields(path) == [fields |-> path, collection |-> FALSE]
Collection(path) == [fields |-> path, collection |-> TRUE]

Manifest ==
    [api_version |-> "cuac/v1", kind |-> "connector", id |-> "acme", version |-> <<1, 0, 0>>,
     extractor_dialect |-> "cuac/json_path_v1", relations |-> <<"items">>,
     network_policy |-> [origins |-> <<Acme, Other>>, max_response_bytes |-> 4096, redirects |-> "deny",
                         private_addresses |-> "deny", link_local_addresses |-> "deny", loopback_addresses |-> "deny"]]

Columns ==
    <<[id |-> "id", type |-> "BIGINT", nullable |-> "false", extract |-> Fields(<<"id">>)],
      [id |-> "kind", type |-> "VARCHAR", nullable |-> "true", extract |-> Fields(<<"kind">>)],
      [id |-> "tags", type |-> "ARRAY", element_type |-> "VARCHAR", element_nullable |-> "true", nullable |-> "true",
       extract |-> Fields(<<"meta", "tags">>)]>>

Resources(pageRecords, scanRecords, pageBytes, scanBytes) ==
    [max_response_bytes_per_page |-> pageBytes, max_response_bytes_per_scan |-> scanBytes,
     max_records_per_page |-> pageRecords, max_records_per_scan |-> scanRecords, max_extracted_string_bytes |-> 64]

Relation(operations, resources) ==
    [api_version |-> "cuac/v1", kind |-> "relation", id |-> "items", schema |-> "static", columns |-> Columns,
     auth |-> [mode |-> "anonymous"], resources |-> resources, operations |-> operations]

PackageOf(relation) == [manifest |-> Manifest, relations |-> <<relation>>]

\* REST operations
FixedField(name, type, text, num) ==
    [name |-> name, encoding |-> "form_urlencoded", literal |-> [type |-> type, value |-> Literal(type, text, num)]]
InputField(name, input) ==
    [name |-> name, encoding |-> "form_urlencoded", input |-> input, omit_when_unbound |-> "true", omit_when_null |-> "true"]
ConditionalField(name, input) ==
    [name |-> name, encoding |-> "form_urlencoded", conditional_input |-> input, omit_when_unbound |-> "true"]

Paging(strategy, sizeParam, size, pages) ==
    IF strategy = "disabled" THEN [strategy |-> strategy]
    ELSE LET base == [strategy |-> strategy, page_number_parameter |-> "page", first_page |-> 1, page_increment |-> 1,
                      max_pages_per_scan |-> pages, dependency |-> "sequential", consistency |-> "mutable",
                      target_scope |-> "exact_operation_origin_and_path"]
             sized == PutNumber(PutText(base, "page_size_parameter", sizeParam), "page_size", size)
         IN IF strategy = "response_next" THEN Put(sized, "next_url_path", Fields(<<"meta", "next">>)) ELSE sized

PageField == FixedField("page", "BIGINT", "1", 1)
SizeField(size) == FixedField("per_page", "BIGINT", ToString(size), size)

Response(source) == IF source = "terminal_collection" THEN [source |-> source, records |-> Collection(<<"items">>)]
                    ELSE [source |-> source]

RestPath(trailing) == [rooted |-> TRUE, segments |-> <<"items">>, trailing |-> trailing]

RestOperation(source, pagination, query) ==
    [id |-> "list", cardinality |-> IF source = "root_object" THEN "one" ELSE "many", replay_safety |-> "safe",
     fallback |-> "true", response |-> Response(source), pagination |-> pagination,
     request |-> [protocol |-> "rest", method |-> "GET", origin |-> Acme, path |-> RestPath(FALSE), query |-> query,
                  headers |-> <<[name |-> "Accept", value |-> "json"]>>]]

Paged(strategy, size, pages, records, more) ==
    PackageOf(Relation(<<RestOperation("terminal_collection", Paging(strategy, "per_page", size, pages),
                                       <<PageField, SizeField(size)>> \o more)>>,
                       Resources(size, records, 1024, 1024 * pages)))

----------------------------------------------------------------------------
\* Services

Number(text) == [type |-> "BIGINT", null |-> FALSE, v |-> text]
String(text) == [type |-> "VARCHAR", null |-> text = "", v |-> text]

JsonNumber(text) == Scalar("number", text, "BIGINT" :> text)
JsonString(text) == IF text = "" THEN JsonNull ELSE Scalar("string", text, "VARCHAR" :> text)

Row(id, kind, owner, state) ==
    [values |-> <<Number(id), String(kind), [type |-> "VARCHAR", null |-> FALSE, elements |-> <<String("red"), String("")>>]>>,
     record |-> Object(<<Field("id", JsonNumber(id)), Field("kind", JsonString(kind)),
                         Field("meta", Object(<<Field("tags", Array(<<JsonString("red"), JsonNull>>))>>))>>),
     attrs |-> [id |-> id, kind |-> kind, owner |-> owner, state |-> state]]

Rows == <<Row("1", "bug", "ann", "open"), Row("2", "task", "a+b", "open"), Row("3", "bug", "a b", "open"),
          Row("4", "", "ann", "open"), Row("5", "bug", "a+b", "open"), Row("6", "bug", "ann", "none")>>

RestService(strategy, source, rows, faults) ==
    [protocol |-> "rest", origin |-> Acme, path |-> <<[attr |-> "", text |-> "items"]>>,
     params |-> [state |-> "state", owner |-> "owner", kind |-> "kind"], loose |-> {}, pageParam |-> "page",
     sizeParam |-> "per_page", size |-> 2, first |-> 1, increment |-> 1,
     continuation |-> IF strategy = "link_next" THEN "link" ELSE IF strategy = "response_next" THEN "body" ELSE "none",
     shape |-> source, records |-> <<"items">>, next |-> <<"meta", "next">>, rows |-> rows,
     withheld |-> {}, faults |-> faults]

----------------------------------------------------------------------------
\* Queries

NoInputs == [name \in {} |-> [null |-> FALSE, v |-> ""]]

Ask(inputs, secret, filters) == [inputs |-> inputs, secret |-> secret, filters |-> filters]

Everything == Ask(NoInputs, {}, <<>>)

Scenario(package, query, service, profile) ==
    [package |-> package, query |-> query, service |-> service, profile |-> profile]

----------------------------------------------------------------------------
\* How pages are declared: the strategy, its parameters, the response and the ceilings

\* An operation whose cardinality is declared apart from its response.
Shaped(source, cardinality, trailing, strategy, sizeParam, size, sizeField, pages) ==
    LET query == (IF strategy = "disabled" THEN <<>> ELSE <<PageField>>) \o (IF sizeField THEN <<SizeField(2)>> ELSE <<>>)
        operation == RestOperation(source, Paging(strategy, sizeParam, size, pages), query)
    IN [operation EXCEPT !.cardinality = cardinality, !.request.path = RestPath(trailing)]

\* Each with as many rows as its ceilings allow, or, where there are pages, with rows for two of them.
PagingScenarios ==
    UNION {{Scenario(PackageOf(Relation(<<Shaped(source, cardinality, trailing, strategy, sizeParam, size, sizeField, pages)>>,
                                        sized[1])),
                     Everything, RestService(strategy, source, SubSeq(Rows, 1, IF source = "root_object" THEN 1 ELSE sized[2]), {}),
                     InstalledProfile) :
              strategy \in {"disabled", "link_next", "response_next", "short_page"}, sizeParam \in {"", "per_page"},
              size \in {0, 2}, sizeField \in BOOLEAN, trailing \in BOOLEAN, pages \in {3, 33}, cardinality \in {"one", "many"}} :
           source \in {"terminal_collection", "root_array", "root_object"},
           sized \in {<<Resources(2, 6, 1024, 3072), 3>>, <<Resources(2, 2, 1024, 1024), 2>>, <<Resources(1, 1, 1024, 1024), 1>>}}

\* How many rows there are and how many the package allows.
LimitScenarios ==
    {Scenario(Paged(strategy, size, pages, records, <<>>), Everything,
              RestService(strategy, "terminal_collection", SubSeq(Rows, 1, n), {}), InstalledProfile) :
        strategy \in {"link_next", "response_next", "short_page"}, size \in {1, 2}, pages \in 1..3,
        records \in {2, 3, 4, 6}, n \in 0..6}

\* The rows that leave a page short or empty: the first, one in the middle, the last or several.
Withheld == {{}, {"2"}, {"3"}, {"6"}, {"1", "2"}, {"3", "4"}, {"5", "6"}, {"2", "3", "6"}}

\* What a service can get wrong.
FaultScenarios ==
    {Scenario(Paged(strategy, 2, 3, 6, <<>>), Everything,
              RestService(strategy, "terminal_collection", SubSeq(Rows, 1, 5),
                          {"missing", "duplicate", "null", "fraction", "deep", "skip", "again", "foreign", "twice",
                           "anchored", "malformed", "status"} \cup lost), InstalledProfile) :
        strategy \in {"link_next", "response_next", "short_page"}, lost \in {{}, {"dropped"}}}

\* Pages in the middle that are short or empty.
SparseScenarios ==
    {Scenario(PackageOf(Relation(<<Shaped(source, "many", FALSE, strategy, "per_page", 2, TRUE, 4)>>, Resources(2, 8, 1024, 4096))),
              Everything, [RestService(strategy, source, Rows, {}) EXCEPT !.withheld = withheld], InstalledProfile) :
        source \in {"terminal_collection", "root_array"}, strategy \in {"link_next", "response_next", "short_page"},
        withheld \in Withheld}

----------------------------------------------------------------------------
\* Inputs and predicates

Owner(nullable, default) ==
    LET base == [id |-> "owner", type |-> "VARCHAR", nullable |-> nullable] IN
    CASE default = "none" -> base
      [] default = "null" -> Put(base, "default", [kind |-> "null"])
      [] OTHER -> Put(base, "default", [kind |-> "value", value |-> Literal("VARCHAR", default, 0)])

Predicate(id, text, accuracy) ==
    [id |-> id, column |-> "kind", operator |-> "eq", literal |-> [type |-> "VARCHAR", value |-> Literal("VARCHAR", text, 0)],
     conditional_input |-> "kind_is", operations |-> <<"list">>, accuracy |-> accuracy,
     occurrence_fixtures |-> [matching |-> "matching", false_or_null |-> "none", duplicates |-> "twice"]]

Filterable(nullable, default, accuracy) ==
    LET base == Paged("link_next", 2, 3, 6,
                      <<FixedField("state", "VARCHAR", "open", 0), InputField("owner", "owner"),
                        ConditionalField("kind", "kind_is")>>)
    IN [base EXCEPT !.relations[1] =
          Put(Put(@, "inputs", <<Owner(nullable, default)>>), "predicates",
              <<Predicate("bug", "bug", accuracy), Predicate("task", "task", accuracy)>>)]

Column(index, type) == [kind |-> "COLUMN", index |-> index, type |-> type]
Constant(type, text) == [kind |-> "CONSTANT", type |-> type, null |-> text = "", v |-> text]
Equal(left, right) == [kind |-> "EQUAL", operands |-> <<left, right>>, children |-> <<>>]
Logical(kind, children) == [kind |-> kind, children |-> children]

KindIs(text) == Equal(Column(2, "VARCHAR"), Constant("VARCHAR", text))
IdIs(text) == Equal(Constant("BIGINT", text), Column(1, "BIGINT"))
KindIn(texts) == [kind |-> "IN", index |-> 2, texts |-> texts, children |-> <<>>]

\* The WHERE clauses, as the lists of filters DuckDB offers.
Clauses ==
    {<<>>, <<KindIs("bug")>>, <<KindIs("task")>>, <<KindIs("")>>, <<KindIs("none")>>, <<IdIs("3")>>, <<KindIs("bug"), KindIs("bug")>>,
     <<KindIs("bug"), KindIs("task")>>, <<KindIs("bug"), IdIs("3")>>, <<KindIn({"bug", "task"})>>,
     <<Logical("NOT", <<KindIs("bug")>>)>>, <<Logical("OR", <<KindIs("bug"), KindIs("task")>>)>>,
     <<IdIs("2"), Logical("OR", <<KindIs("bug"), IdIs("2")>>)>>, <<KindIs("bug"), Logical("NOT", <<KindIn({"task"})>>)>>,
     <<KindIs("bug"), Logical("AND", <<IdIs("5"), Logical("AND", <<KindIs("bug"), IdIs("5")>>)>>)>>}

Owners == {NoInputs} \cup {("owner" :> [null |-> text = "", v |-> text]) : text \in {"", "ann", "a b", "a+b", "a/b", "a^b"}}

\* Whether the input is nullable, and its default.
Defaults == {<<"true", "none">>, <<"true", "null">>, <<"false", "a b">>, <<"false", "null">>}

\* Every clause with and without an input, and every input with and without a clause.
FilterScenarios ==
    {Scenario(Filterable(declared[1], declared[2], accuracy), Ask(asked[1], {}, asked[2]),
              [RestService("link_next", "terminal_collection", Rows, {}) EXCEPT !.loose = loose], InstalledProfile) :
        declared \in Defaults, accuracy \in {"exact", "superset"}, loose \in {{}, {"kind"}},
        asked \in ({NoInputs, "owner" :> [null |-> FALSE, v |-> "a b"]} \X Clauses)
                    \cup (Owners \X {<<>>, <<KindIs("bug")>>, <<KindIs("bug"), IdIs("3")>>})}

----------------------------------------------------------------------------
\* Selectors and path inputs

\* list serves everyone, detail those who name an owner, which is part of its path.
ByOwner(fallback, nullable, default) ==
    LET query == <<PageField, SizeField(2)>>
        list == RestOperation("root_array", Paging("link_next", "per_page", 2, 3), query)
        when == [required_inputs |-> <<<<"input", "owner">>>>]
        segments == <<[literal |-> "item"], [input |-> "owner", encoding |-> "rfc3986_percent_encoded"]>>
        asking == [protocol |-> "rest", method |-> "GET", origin |-> Acme, query |-> query, path_segments |-> segments,
                    headers |-> <<>>]
        detail == [id |-> "detail", cardinality |-> "many", replay_safety |-> "safe", when |-> when, request |-> asking,
                   response |-> list.response, pagination |-> list.pagination]
        relation == Relation(IF fallback THEN <<list, detail>> ELSE <<detail>>, Resources(2, 6, 1024, 3072))
    IN PackageOf(Put(relation, "inputs", <<Owner(nullable, default)>>))

OwnerPath(named) ==
    IF named THEN <<[attr |-> "", text |-> "item"], [attr |-> "owner", text |-> ""]>> ELSE <<[attr |-> "", text |-> "items"]>>

SelectorScenarios ==
    {Scenario(ByOwner(fallback, declared[1], declared[2]), Ask(owner, {}, <<>>),
              [RestService("link_next", "root_array", Rows, {}) EXCEPT
                 !.path = OwnerPath(IF owner = NoInputs THEN declared[2] = "a b" ELSE ~owner["owner"].null)], InstalledProfile) :
        fallback \in BOOLEAN, declared \in Defaults, owner \in Owners}

\* list serves everyone, detail those who ask for a kind.
ByKind(accuracy) ==
    LET common == <<PageField, SizeField(2), FixedField("state", "VARCHAR", "open", 0)>>
        list == RestOperation("terminal_collection", Paging("short_page", "per_page", 2, 3), common)
        detail == RestOperation("terminal_collection", Paging("short_page", "per_page", 2, 3),
                                Append(common, ConditionalField("kind", "kind_is")))
        selective == Put([key \in DOMAIN detail \ {"fallback"} |-> IF key = "id" THEN "detail" ELSE detail[key]],
                         "when", [required_inputs |-> <<<<"conditional", "kind_is">>>>])
        predicates == [i \in 1..2 |-> [Predicate(<<"bug", "task">>[i], <<"bug", "task">>[i], accuracy) EXCEPT
                                          !.operations = <<"detail">>]]
    IN PackageOf(Put(Relation(<<list, selective>>, Resources(2, 6, 1024, 3072)), "predicates", predicates))

KindScenarios ==
    {Scenario(ByKind(accuracy), Ask(NoInputs, {}, clause),
              [RestService("short_page", "terminal_collection", Rows, {}) EXCEPT !.loose = loose], InstalledProfile) :
        accuracy \in {"exact", "superset"}, clause \in Clauses, loose \in {{}, {"kind"}}}

----------------------------------------------------------------------------
\* Retries, rate limits and the operator's profile

Waits(attempts, delay, waiting) ==
    [max_attempts_per_step |-> attempts, max_delay_milliseconds |-> delay,
     max_cumulative_waiting_milliseconds_per_scan |-> waiting]

RateLimit(mode) ==
    LET base == [statuses |-> <<503, 429>>, mode |-> mode, operation_family |-> "core", principal_scope |-> "shared"] IN
    IF mode = "fail" THEN base
    ELSE base @@ Waits(3, 30000, 30000) @@ [guidance |-> <<[header |-> "reset", format |-> "unix_seconds"]>>]

Profiles ==
    {InstalledProfile, [InstalledProfile EXCEPT !.host = Acme.host, !.port = 443],
     [InstalledProfile EXCEPT !.host = Other.host, !.port = 443], [InstalledProfile EXCEPT !.records = 1],
     [InstalledProfile EXCEPT !.retry.attempts = 2], [InstalledProfile EXCEPT !.retry.scanAttempts = 2],
     [InstalledProfile EXCEPT !.retry.delay = 0], [InstalledProfile EXCEPT !.combined = 100],
     [InstalledProfile EXCEPT !.combined = 0], [InstalledProfile EXCEPT !.rateLimit.attempts = 0],
     [InstalledProfile EXCEPT !.rateLimit.scanAttempts = 2], [InstalledProfile EXCEPT !.rateLimit.waiting = 50]}

\* The package with policies on its first operation.
WithPolicies(package, retry, mode) ==
    LET operation == package.relations[1].operations[1]
        retried == IF retry = <<>> THEN operation ELSE Put(operation, "retry", Waits(retry[1], retry[2], retry[3]))
        limited == IF mode = "none" THEN retried ELSE Put(retried, "rate_limit", RateLimit(mode))
    IN [package EXCEPT !.relations[1].operations[1] = limited]

Unpaged == PackageOf(Relation(<<RestOperation("terminal_collection", Paging("disabled", "", 0, 0), <<>>)>>,
                              Resources(2, 2, 1024, 1024)))

PolicyScenarios ==
    {Scenario(WithPolicies(served[1], retry, mode), Everything,
              RestService("link_next", "terminal_collection", SubSeq(Rows, 1, served[2]), {}), profile) :
        served \in {<<Paged("link_next", 2, 3, 6, <<>>), 6>>, <<Unpaged, 2>>},
        retry \in {<<>>, <<2, 50, 100>>, <<3, 100, 250>>}, mode \in {"none", "fail", "wait"}, profile \in Profiles}

----------------------------------------------------------------------------
\* Credentials, and what only Runtime looks at

Credential(placement, destinations) ==
    LET base == [id |-> "key", kind |-> IF placement = "authorization_header" THEN "bearer" ELSE "api_key",
                 secret_field |-> "token", placement |-> placement, destinations |-> destinations]
    IN CASE placement = "header" -> Put(base, "header_name", "X-Key")
         [] placement = "query" -> Put(base, "query_param", "key")
         [] OTHER -> base

Secured(package, placement, destinations) ==
    IF placement = "none" THEN package
    ELSE [package EXCEPT !.manifest = Put(@, "credentials", <<Credential(placement, destinations)>>),
                         !.relations[1].auth = [mode |-> "credential", credential |-> "key"]]

\* The package with one more header and one more fixed query field.
Carrying(package, header, name) ==
    [package EXCEPT !.relations[1].operations[1].request.headers = @ \o IF header = "" THEN <<>> ELSE <<[name |-> header, value |-> "json"]>>,
                    !.relations[1].operations[1].request.query = @ \o IF name = "" THEN <<>> ELSE <<FixedField(name, "VARCHAR", "open", 0)>>]

SecretScenarios ==
    {Scenario(Secured(Carrying(Unpaged, header, name), placement, destinations), Ask(NoInputs, secret, <<>>),
              RestService("disabled", "terminal_collection", SubSeq(Rows, 1, 2), {}), InstalledProfile) :
        header \in {"", "x-key"}, name \in {"", "key"}, placement \in {"none", "authorization_header", "header", "query"},
        destinations \in {<<Acme>>, <<Acme, Other>>, <<Other, Acme>>, <<Other>>}, secret \in {{}, {""}, {"token"}}}

\* A relation of two columns whose extractors may overlap, on a host that may look like an address.
Reading(first, second, host) ==
    LET origin == [Acme EXCEPT !.host = host]
        relation == [Unpaged.relations[1] EXCEPT !.columns[1].extract = Fields(first), !.columns[2].extract = Fields(second),
                                                 !.operations[1].request.origin = origin]
    IN [manifest |-> [Manifest EXCEPT !.network_policy.origins = <<origin>>], relations |-> <<relation>>]

ReadingScenarios ==
    {Scenario(Reading(first, second, host), Everything,
              [RestService("disabled", "terminal_collection", SubSeq(Rows, 1, n), {}) EXCEPT !.origin.host = host], InstalledProfile) :
        first \in {<<"id">>}, second \in {<<"kind">>, <<"id">>, <<"meta">>, <<"id", "kind">>}, n \in {0, 1},
        host \in {Acme.host, <<"10", "1">>, <<"10", "acme">>, <<"1", "2", "3", "4", "5">>}}

----------------------------------------------------------------------------
\* GraphQL

CursorPaging(size, pages) ==
    [strategy |-> "relay_forward", dependency |-> "sequential", consistency |-> "mutable", page_size |-> size,
     max_pages_per_scan |-> pages, max_concurrent_pages |-> 1, page_size_argument |-> "first", page_size_variable |-> "first",
     cursor_argument |-> "after", cursor_variable |-> "after", page_info_field |-> "pageInfo",
     has_next_page_field |-> "hasNextPage", end_cursor_field |-> "endCursor"]

Selections(kind) ==
    <<[column |-> "id", field_path |-> <<"id">>], [column |-> "kind", field_path |-> kind],
      [column |-> "tags", field_path |-> <<"meta", "tags">>]>>

GraphqlOperation(kind, trailing, size, pages, body, scanBody) ==
    [id |-> "list", cardinality |-> "many", replay_safety |-> "safe", fallback |-> "true",
     request |-> [protocol |-> "graphql", endpoint |-> [origin |-> Acme, path |-> [RestPath(trailing) EXCEPT !.segments = <<"query">>]],
                  headers |-> <<[name |-> "Accept", value |-> "json"]>>, partial_data |-> "fail_on_any_error",
                  query |-> [operation_name |-> "Items", root |-> <<"viewer", "items">>, selection |-> Selections(kind),
                             fixed_arguments |-> <<[name |-> "state", value |-> [enum |-> "OPEN"]]>>],
                  pagination |-> CursorPaging(size, pages), max_document_bytes |-> 1024,
                  max_serialized_body_bytes_per_request |-> body, max_serialized_body_bytes_per_scan |-> scanBody]]

Graphql(kind, trailing, size, pages, records, body, scanBody) ==
    PackageOf(Relation(<<GraphqlOperation(kind, trailing, size, pages, body, scanBody)>>,
                       Resources(size, records, 1024, 1024 * pages)))

GraphqlService(n, faults) ==
    [protocol |-> "graphql", origin |-> Acme, path |-> [RestPath(FALSE) EXCEPT !.segments = <<"query">>],
     root |-> <<"viewer", "items">>, pageInfo |-> "pageInfo", hasNext |-> "hasNextPage", endCursor |-> "endCursor",
     cursors |-> <<"c1", "c2", "c3", "c4", "c5">>, arguments |-> [state |-> "state"],
     withheld |-> {}, faults |-> faults,
     rows |-> [i \in 1..n |-> [Rows[i] EXCEPT !.attrs.state = "OPEN"]]]

GraphqlScenarios ==
    {Scenario(Graphql(<<"kind">>, FALSE, size, pages, records, 512, 512 * pages), Ask(NoInputs, {}, clause),
              GraphqlService(n, {}), InstalledProfile) :
        size \in {1, 2}, pages \in {1, 3, 33}, records \in {2, 4}, n \in 0..5, clause \in {<<>>, <<KindIs("bug")>>}}
    \cup {Scenario(Graphql(kind, trailing, 2, 3, 6, body[1], body[2]), Everything, GraphqlService(5, {}), InstalledProfile) :
        kind \in {<<"kind">>, <<"meta", "kind">>, <<"state">>}, trailing \in BOOLEAN,
        body \in {<<512, 1536>>, <<512, 512>>, <<100, 300>>, <<512, 1537>>}}
    \cup {Scenario(Secured(WithPolicies(Graphql(<<"kind">>, FALSE, 2, 3, 6, 512, 1536), retry, mode), placement, <<Acme>>),
                   Ask(NoInputs, IF placement = "none" THEN {} ELSE {"token"}, <<>>), GraphqlService(5, {}), profile) :
        retry \in {<<>>, <<2, 50, 100>>}, mode \in {"none", "wait"}, placement \in {"none", "authorization_header", "header"},
        profile \in Profiles}
    \cup {Scenario(Graphql(<<"kind">>, FALSE, 2, 3, 6, 512, 1536), Everything,
                   GraphqlService(5, {"missing", "duplicate", "null", "fraction", "deep", "errors", "again", "uncursored",
                                      "malformed", "status"} \cup lost), InstalledProfile) : lost \in {{}, {"dropped"}}}
    \cup {Scenario(Graphql(<<"kind">>, FALSE, 2, 4, 8, 512, 2048), Everything,
                   [GraphqlService(6, {}) EXCEPT !.withheld = withheld], InstalledProfile) : withheld \in Withheld}

MCScenarios == PagingScenarios \cup LimitScenarios \cup FaultScenarios \cup SparseScenarios \cup FilterScenarios \cup SelectorScenarios
                 \cup KindScenarios \cup PolicyScenarios \cup SecretScenarios \cup ReadingScenarios \cup GraphqlScenarios

\* One relation scanned with two owners.
OwnerScenarios ==
    {Scenario(Filterable("true", "none", "exact"), Ask(owner, {}, <<>>),
              RestService("link_next", "terminal_collection", Rows, {}), InstalledProfile) :
        owner \in {"owner" :> [null |-> FALSE, v |-> text] : text \in {"ann", "a b"}}}

\* One mapped filter beside one that is not mapped.
ConjunctionScenarios ==
    {Scenario(Filterable("true", "none", accuracy), Ask(NoInputs, {}, <<KindIs("bug"), IdIs("3")>>),
              RestService("link_next", "terminal_collection", Rows, {}), InstalledProfile) :
        accuracy \in {"exact", "superset"}}

=============================================================================
