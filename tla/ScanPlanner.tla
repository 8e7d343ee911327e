---------------------------- MODULE ScanPlanner ----------------------------
(***************************************************************************)
(* Planning one scan of a compiled connector (src/src/semantics/planner/   *)
(* and src/src/semantics/plan/).  Semantics checks again everything it     *)
(* takes from the connector model; a check that fails, and a constructor   *)
(* of the plan that refuses its arguments, is a planning error.            *)
(*                                                                         *)
(* A text that goes on the wire is spelled: Spell gives its characters,    *)
(* each with its class, when one of them is not unreserved.                *)
(***************************************************************************)
EXTENDS GraphqlRecipe, PredicateClassifier, TLC

CONSTANTS MaxBigint,        \* numeric_limits<int64_t>::max(), scaled
          MaxUnsigned,      \* numeric_limits<uint64_t>::max(), scaled
          Spell

ASSUME NumericAssumption == MaxBigint \in Nat /\ MaxUnsigned \in Nat /\ MaxBigint < MaxUnsigned

Fits(a, b) == a <= MaxUnsigned \div b

Unique(sequence, Key(_)) == \A i, j \in DOMAIN sequence : Key(sequence[i]) = Key(sequence[j]) => i = j

All(sequence, P(_)) == \A i \in DOMAIN sequence : P(sequence[i])

Map(sequence, Op(_)) == [i \in DOMAIN sequence |-> Op(sequence[i])]

The(set) == CHOOSE x \in set : TRUE

\* A product that does not fit is a planning error of its own: no page count the validation admits
\* reaches it.
BoundedProduct(left, right, ceiling) == Min({left * right, ceiling})

BoundedSum(left, right, ceiling) == Min({left + right, ceiling})

----------------------------------------------------------------------------
\* Texts on the wire

Symbols(t) == IF t \in DOMAIN Spell THEN Spell[t] ELSE <<[c |-> t, class |-> "lower"]>>

\* One character of an encoded text: as it stands, or as %XX.
Plain(s) == [escaped |-> FALSE, c |-> s.c, class |-> s.class]

Escaped(s) == [escaped |-> TRUE, c |-> s.c, class |-> s.class]

Plus == [c |-> "+", class |-> "token"]

\* Fault: a plus is taken for unreserved.
FormUrlEncodeKeepsPlus(t) ==
    Map(Symbols(t), LAMBDA s : IF s.class \in Unreserved \/ s = Plus THEN Plain(s)
                               ELSE IF s.class = "space" THEN Plain(Plus) ELSE Escaped(s))

FormUrlEncode(t) ==
    Map(Symbols(t), LAMBDA s : IF s.class \in Unreserved THEN Plain(s)
                               ELSE IF s.class = "space" THEN Plain(Plus) ELSE Escaped(s))

\* The bytes of a query value as Semantics and Runtime compute them: a double is its %.17g
\* text as it stands.
Encode(type, v) == IF type = "DOUBLE" THEN Map(Symbols(v), Plain) ELSE FormUrlEncode(v)

\* The bytes of a declared query literal as the connector computed them.
EncodeCompiledQueryScalar(scalar) == FormUrlEncode(scalar.v)

PercentEncodePathSegment(t) ==
    Map(Symbols(t), LAMBDA s : IF s.class \in Unreserved THEN Plain(s) ELSE Escaped(s))

\* The bytes of a text or of its encoding.
EncodedSize(t, encoded) == FoldSeq(LAMBDA s, n : n + (IF s.escaped THEN 2 ELSE 0), Size(t), encoded)

Controls == {"control", "delete", "c1", "invalid"}

ValidateVarchar(t) == Shape[t].has \cap Controls = {}

\* A path value stays one segment: "slash" is any of the characters / \ ? # %.
ValidatePathValue(t) ==
    /\ Size(t) \in 1..1024
    /\ t \notin {".", ".."}
    /\ Shape[t].has \cap (Controls \cup {"slash"}) = {}

----------------------------------------------------------------------------
\* Validation of the selected relation (scan_planner_validation.cpp)

FitsPageSequence(page, scan, maxPages) ==
    page > 0 /\ scan >= page /\ maxPages > 0 /\ Fits(page, maxPages) /\ scan <= page * maxPages

FitsBigintPageSequence(firstPage, pageIncrement, maxPages) ==
    firstPage <= MaxBigint /\ maxPages - 1 <= (MaxBigint - firstPage) \div pageIncrement

\* Unlike the compiler's, a path with a trailing slash is not fixed.
IsFixedPackagePath(p) ==
    /\ p.rooted
    /\ p.segments # <<>> => ~p.trailing
    /\ JoinedSize(p.segments) <= 2048
    /\ All(p.segments, LAMBDA s : Size(s) > 0 /\ s \notin {".", ".."} /\ Made(s, Unreserved))

IsPackageRestPath(operation) ==
    LET inputs == SelectSeq(operation.segments, LAMBDA s : s.source = "RELATION_INPUT") IN
    /\ Len(operation.segments) <= 64
    /\ All(operation.segments, LAMBDA s : IF s.source = "LITERAL" THEN IsLiteralPathSegment(s.value) /\ s.type = "VARCHAR"
                                          ELSE IsIdentifier(s.value))
    /\ Unique(inputs, LAMBDA s : s.value)
    /\ operation.path.segments = operation.segments /\ ~operation.path.trailing
    /\ inputs = <<>> => IsFixedPackagePath([rooted |-> TRUE, trailing |-> operation.path.trailing,
                                            segments |-> Map(operation.segments, LAMBDA s : s.value)])

ValidateRetryContract(retry) ==
    IF retry.attempts = 0 THEN retry.delay = 0 /\ retry.waiting = 0
    ELSE retry.attempts \in 2..3 /\ retry.delay \in 1..100 /\ retry.waiting \in 1..250

ValidateRateLimitContract(policy) ==
    LET none == [attempts |-> 0, delay |-> 0, waiting |-> 0]
        fields == Map(policy.guidance, LAMBDA g : g.header)
                    \o SelectSeq(<<policy.remaining, policy.bucket>>, LAMBDA header : header # "")
        silent == fields = <<>> /\ policy.limits = none
    IN IF ~policy.declared THEN policy.statuses = <<>> /\ policy.family = "" /\ silent
       ELSE /\ Len(policy.statuses) \in 1..8 /\ IsRateLimitOperationFamily(policy.family)
            /\ \A i \in DOMAIN policy.statuses :
                  /\ policy.statuses[i] \in (400..599) \ {401, 403, 407}
                  /\ i > 1 => policy.statuses[i - 1] < policy.statuses[i]
            /\ All(fields, IsRateLimitHeaderName) /\ IsInjective(fields)
            /\ IF policy.mode = "fail" THEN silent
               ELSE /\ Len(policy.guidance) \in 1..4 /\ policy.limits.attempts \in 2..3
                    /\ policy.limits.delay \in 1..30000 /\ policy.limits.waiting \in 1..30000

ValidateSchema(relation) ==
    /\ relation.columns # <<>>
    /\ All(relation.columns, LAMBDA column :
           column.path # <<>> /\ (column.shape = "SCALAR" => ~column.elementNullable))
    /\ Unique(relation.columns, LAMBDA column : column.name)

ValidateSourceShape(operation, ceilings) ==
    /\ (operation.records # <<>>) = (operation.response = "terminal_collection")
    /\ (operation.cardinality = "one") = (operation.response = "root_object")
    /\ operation.response = "root_object" => {ceilings.pageRecords, ceilings.scanRecords} = {1}

\* The page parameters agree with the typed query fields of the first request.
ValidatePagination(operation, ceilings, maxResponseBytes) ==
    LET pagination == operation.pagination
        sized == pagination.pageSizeParameter # ""
        Fields(source) == SelectSeq(operation.query, LAMBDA field : field.source = source)
        Agrees(source, name, value) ==
            LET fields == Fields(source) IN
            Len(fields) = 1 /\ fields[1].name = name /\ fields[1].value.v = ToString(value)
                /\ fields[1].value.type = "BIGINT"
    IN IF pagination.strategy = "disabled"
       THEN ceilings.pageRecords = ceilings.scanRecords /\ ceilings.pageBytes = ceilings.scanBytes
       ELSE /\ operation.cardinality = "many" /\ operation.response # "root_object"
            /\ pagination.strategy = "response_next" => pagination.nextUrlPath # <<>>
            /\ pagination.strategy = "short_page" => sized
            /\ pagination.pageNumberParameter # "" /\ pagination.firstPage > 0 /\ pagination.pageIncrement > 0
            /\ pagination.maxPages \in 1..32
            /\ FitsBigintPageSequence(pagination.firstPage, pagination.pageIncrement, pagination.maxPages)
            /\ sized => /\ pagination.pageSizeParameter # pagination.pageNumberParameter
                        /\ pagination.pageSize \in 1..MaxBigint
                        /\ Agrees("PAGE_SIZE", pagination.pageSizeParameter, pagination.pageSize)
            /\ ~sized => Fields("PAGE_SIZE") = <<>>
            /\ Agrees("PAGE_NUMBER", pagination.pageNumberParameter, pagination.firstPage)
            /\ ceilings.pageBytes <= maxResponseBytes
            /\ pagination.pageSize <= ceilings.pageRecords
            /\ ceilings.stringBytes > 0
            /\ FitsPageSequence(ceilings.pageBytes, ceilings.scanBytes, pagination.maxPages)
            /\ FitsPageSequence(ceilings.pageRecords, ceilings.scanRecords, pagination.maxPages)

ValidateExecutableOrigin(origin, connector) ==
    origin.port > 0 /\ origin.scheme = "https" /\ Contains(connector.origins, origin)

----------------------------------------------------------------------------
\* GraphQL operations (graphql_operation_planner.cpp and graphql_generator_recipe_planner.cpp)

\* Semantics copies the recipe and validates and renders it by rules of its own, which
\* are, one for one, those of the connector model.
ValidateRecipe(recipe) == ValidateCompiledGraphqlQueryRecipe(recipe)

RenderRecipe(recipe) == RenderCompiledGraphqlQueryRecipe(recipe)

IsReservedPackageHeaderName(t) ==
    Shape[t].folded \in ReservedHeaders \/ ContainsCredentialHint(t)

HasSafePackageHeaders(headers) ==
    /\ Len(headers) <= 32
    /\ All(headers, LAMBDA h : IsHeaderName(h.name) /\ IsHeaderValue(h.value) /\ ~IsReservedPackageHeaderName(h.name))
    /\ Unique(headers, LAMBDA h : Shape[h.name].folded)
    /\ FoldSeq(LAMBDA h, n : n + Size(h.name) + Size(h.value), 0, headers) <= 16384
    /\ \E i \in DOMAIN headers : Shape[headers[i].name].folded = "content-type"
    /\ All(headers, LAMBDA h : Shape[h.name].folded = "content-type" => h.value = "application/json")

DerivedPath(recipe, leaf) == <<"data">> \o recipe.root \o <<leaf>>

AttemptsPerStep(operation) ==
    Max({1, operation.retry.attempts} \cup (IF operation.rateLimit.mode = "fail" THEN {} ELSE {operation.rateLimit.limits.attempts}))

ValidateGraphqlOperationProfile(relation, operation, connector) ==
    LET recipe == operation.recipe
        cursor == operation.cursor
        ceilings == relation.ceilings
        pageInfo == DerivedPath(recipe, recipe.pageInfo)
        body == operation.maxBodyPerRequest
        attempts == AttemptsPerStep(operation)
    IN
    /\ operation.cardinality = "many"
    /\ Mappings(relation, operation) = <<>>
    /\ operation.maxDocument \in 1..65536 /\ DocumentBytes(operation.document) <= operation.maxDocument
    /\ ValidateRecipe(recipe) /\ RenderRecipe(recipe) = operation.document
    /\ operation.origin.scheme = "https" /\ operation.origin.port > 0
    /\ IsFixedPackagePath(operation.path) /\ HasSafePackageHeaders(operation.headers)
    /\ Contains(connector.origins, operation.origin)
    /\ Map(operation.variables, LAMBDA v : v.name) = Map(recipe.variables, LAMBDA v : v.name)
    /\ operation.variables[1].source = "FIXED_PAGE_SIZE" /\ operation.variables[1].value > 0
    /\ operation.variables[2].source = "RUNTIME_CURSOR" /\ operation.variables[2].value = 0
    /\ operation.nodes = DerivedPath(recipe, "nodes") /\ operation.pageInfo = pageInfo
    /\ cursor.hasNext = Append(pageInfo, recipe.hasNext) /\ cursor.endCursor = Append(pageInfo, recipe.endCursor)
    /\ relation.columns = operation.results
    /\ Map(operation.results, LAMBDA c : [column |-> c.name, path |-> c.path]) = recipe.selections
    /\ cursor.pageSize = operation.variables[1].value /\ cursor.maxPages > 0
    /\ body > 0 /\ Fits(body, cursor.maxPages) /\ Fits(body * cursor.maxPages, attempts)
    /\ operation.maxBodyPerScan \in body..(body * cursor.maxPages * attempts)
    /\ ceilings.pageBytes <= connector.maxResponseBytes
    /\ FitsPageSequence(ceilings.pageBytes, ceilings.scanBytes, cursor.maxPages)
    /\ ceilings.pageRecords >= cursor.pageSize
    /\ FitsPageSequence(ceilings.pageRecords, ceilings.scanRecords, cursor.maxPages)

----------------------------------------------------------------------------
\* The request and the operation that serves it

ValidateOperation(relation, operation, connector) ==
    /\ relation.ceilings.pageRecords > 0 /\ relation.ceilings.scanRecords > 0 /\ relation.ceilings.stringBytes > 0
    /\ ValidateRetryContract(operation.retry)
    /\ ValidateRateLimitContract(operation.rateLimit)
    /\ IF operation.protocol = "graphql" THEN ValidateGraphqlOperationProfile(relation, operation, connector)
       ELSE /\ IsPackageRestPath(operation)
            /\ ValidateSourceShape(operation, relation.ceilings)
            /\ ValidateExecutableOrigin(operation.origin, connector)
            /\ ValidatePagination(operation, relation.ceilings, connector.maxResponseBytes)

\* What Query retained and what it could represent fit together.
ValidateRequest(connector, relation, request) ==
    LET unrestricted == request.predicate.kind = "UNRESTRICTED" IN
    /\ request.connector = connector.name /\ request.relation = relation.name
    /\ unrestricted => request.scope # "REQUESTED_PREDICATE"
    /\ ~unrestricted => /\ request.scope # "UNRESTRICTED"
                        /\ request.scope = "COMPLETE_DUCKDB_FILTER" => ContainsOpaqueUnsupportedPosition(request.predicate)

\* Only the first declared destination is compared with the operation's origin.
ValidateAuthentication(relation, operation, request) ==
    IF ~relation.auth.required THEN request.secret = ""
    ELSE relation.auth.destinations[1] = operation.origin /\ request.secret # ""

\* The relation with its operation and the resolved inputs, as a set of at most one.
ValidateAndSelectOperation(connector, request) ==
    LET relations == {connector.relations[i] : i \in {j \in DOMAIN connector.relations :
                                                       connector.relations[j].name = request.relation}}
        Valid(relation) ==
            /\ ValidateSchema(relation)
            /\ ValidateRequest(connector, relation, request)
            /\ All(relation.operations, LAMBDA operation : ValidateOperation(relation, operation, connector))
            /\ ValidExplicitInputs(relation, request.inputs)
            /\ ValidateCandidateContract(relation, request)
        Selected(relation) ==
            LET resolved == ResolveRelationInputs(relation, request.inputs) IN
            {[relation |-> relation, operation |-> operation, inputs |-> resolved] :
                operation \in {o \in SelectOperation(relation, request, resolved) :
                                  ValidateAuthentication(relation, o, request)}}
    IN UNION {Selected(relation) : relation \in {r \in relations : Valid(r)}}

----------------------------------------------------------------------------
\* The planned operation (rest_operation_planner.cpp and planned_protocol_operation.cpp)

PlannedRestPathSegment(segment, inputs) ==
    IF segment.source = "LITERAL"
    THEN [source |-> "LITERAL", id |-> "", v |-> segment.value,
          type |-> segment.type, encoded |-> Map(Symbols(segment.value), Plain)]
    ELSE [source |-> "RELATION_INPUT", id |-> segment.value, v |-> inputs[segment.value].v,
          type |-> segment.type, encoded |-> PercentEncodePathSegment(inputs[segment.value].v)]

PlannedRestQueryBinding(field, type, v, encoded) ==
    [name |-> field.name, source |-> field.source, id |-> field.id, type |-> type, v |-> v, encoded |-> encoded]

\* The query fields that have a value: an input that is unbound or NULL, and a
\* conditional input the predicate does not bind, leave theirs out.
PlannedQueryBindings(relation, operation, inputs, decision) ==
    LET Emitted(field) ==
            CASE field.source = "RELATION_INPUT" -> inputs[field.id].state = "BOUND_VALUE"
              [] field.source = "CONDITIONAL_INPUT" -> decision.conditional = "REST_QUERY_BINDING"
              [] OTHER -> TRUE
        TypeOf(id) == The({relation.inputs[i].type : i \in {j \in DOMAIN relation.inputs : relation.inputs[j].name = id}})
        Dynamic(field, type, v) == PlannedRestQueryBinding(field, type, v, Encode(type, v))
        Binding(field) ==
            CASE field.source = "RELATION_INPUT" -> Dynamic(field, TypeOf(field.id), inputs[field.id].v)
              [] field.source = "CONDITIONAL_INPUT" ->
                   Dynamic(field, The(decision.equality).type, The(decision.equality).v)
              [] OTHER -> PlannedRestQueryBinding(field, field.value.type, field.value.v,
                                                  EncodeCompiledQueryScalar(field.value))
    IN Map(SelectSeq(operation.query, Emitted), Binding)

BuildRestOperation(relation, operation, inputs, decision) ==
    [protocol |-> "rest", name |-> operation.name, cardinality |-> operation.cardinality, origin |-> operation.origin,
     path |-> Map(operation.segments, LAMBDA segment : PlannedRestPathSegment(segment, inputs)),
     headers |-> operation.headers, response |-> operation.response, records |-> operation.records,
     columns |-> relation.columns, contract |-> operation.segments,
     query |-> PlannedQueryBindings(relation, operation, inputs, decision)]

PathBytes(path) == FoldSeq(LAMBDA s, n : n + 1 + EncodedSize(s.v, s.encoded), 0, path)

\* What the constructors and the byte budgets of a planned REST operation refuse.
CanBuildRestOperation(operation, inputs, decision, planned) ==
    /\ All(operation.segments, LAMBDA s : s.source = "RELATION_INPUT" =>
            inputs[s.value].state = "BOUND_VALUE" /\ ValidatePathValue(inputs[s.value].v))
    /\ All(operation.query, LAMBDA field :
            field.source = "CONDITIONAL_INPUT" /\ decision.conditional = "REST_QUERY_BINDING"
                => \E equality \in decision.equality : equality.input = field.id)
    /\ All(planned.query, LAMBDA b : b.encoded = Encode(b.type, b.v) /\ (b.type = "VARCHAR" => ValidateVarchar(b.v)))
    /\ PathBytes(planned.path) <= 2048
    /\ PathBytes(planned.path) + FoldSeq(LAMBDA b, n : n + 2 + Size(b.name) + EncodedSize(b.v, b.encoded), 0, planned.query)
         <= 8192

PlanGraphqlOperation(operation) ==
    [protocol |-> "graphql", name |-> operation.name, cardinality |-> operation.cardinality,
     document |-> operation.document, origin |-> operation.origin, path |-> operation.path,
     headers |-> operation.headers, variables |-> operation.variables, columns |-> operation.results,
     nodes |-> operation.nodes, pageInfo |-> operation.pageInfo, cursor |-> operation.cursor,
     maxDocument |-> operation.maxDocument, maxBodyPerRequest |-> operation.maxBodyPerRequest,
     maxBodyPerScan |-> operation.maxBodyPerScan, recipe |-> operation.recipe]

----------------------------------------------------------------------------
\* Budgets (scan_planner.cpp, with the hard limits of scan_plan.hpp)

KiB == 1024
MiB == 1024 * KiB

\* The limits of the two execution profiles; what a package declares only narrows them.
SingleResponseLimits ==
    [attempts |-> 3, responseBytes |-> 64 * KiB, headerBytes |-> 16 * KiB, decompressedBytes |-> 64 * KiB,
     records |-> 32, stringBytes |-> 256, nesting |-> 16, memoryBytes |-> 128 * KiB, batchRows |-> 2,
     milliseconds |-> 5000, concurrency |-> 1, bodyBytes |-> 0]

PageLimits ==
    [attempts |-> 3, responseBytes |-> 8 * MiB, headerBytes |-> 16 * KiB, decompressedBytes |-> 8 * MiB,
     records |-> 100, stringBytes |-> 512, nesting |-> 16, memoryBytes |-> 2 * MiB, batchRows |-> 64,
     milliseconds |-> 30000, concurrency |-> 1, bodyBytes |-> 16 * KiB]

ScanLimits ==
    [PageLimits EXCEPT !.attempts = 96, !.responseBytes = 64 * MiB, !.headerBytes = 512 * KiB,
                       !.decompressedBytes = 64 * MiB, !.records = 3200, !.bodyBytes = 256 * KiB] @@ [pages |-> 32]

\* Every budget but that of the request body is positive and within its limit.
IsWithinBounds(budgets, limits) ==
    \A field \in DOMAIN limits :
        /\ budgets[field] <= limits[field]
        /\ field # "bodyBytes" => budgets[field] > 0

IsWithinPaginatedScanBounds(budgets) ==
    IsWithinBounds(budgets, ScanLimits) /\ budgets.attempts \in budgets.pages..(3 * budgets.pages)

\* The budgets of one response: the smallest of what the relation, the connector and
\* the profile allow.
PageBudgets(connector, ceilings, attempts, body, limits) ==
    [limits EXCEPT !.attempts = attempts, !.responseBytes = Min({@, ceilings.pageBytes, connector.maxResponseBytes}),
                   !.records = Min({@, ceilings.pageRecords}), !.stringBytes = Min({@, ceilings.stringBytes}),
                   !.bodyBytes = Min({@, body})]

ScanBudgets(ceilings, page, pages, attempts, scanBody) ==
    [ScanLimits EXCEPT
       !.attempts = attempts, !.pages = pages,
       !.responseBytes = Min({@, ceilings.scanBytes}),
       !.headerBytes = BoundedProduct(PageLimits.headerBytes, pages, @),
       !.decompressedBytes = BoundedProduct(PageLimits.decompressedBytes, pages, @),
       !.records = Min({@, ceilings.scanRecords}), !.stringBytes = Min({@, ceilings.stringBytes}),
       !.bodyBytes = Min({scanBody, BoundedProduct(page.bodyBytes, attempts, @)})]

RetryPlan(retry, pages) ==
    LET attempts == Max({1, retry.attempts}) IN
    [attempts |-> attempts, scanAttempts |-> BoundedProduct(pages, attempts, 96),
     delay |-> retry.delay, waiting |-> retry.waiting]

ResiliencePlan(operation, pages) ==
    LET attempts == AttemptsPerStep(operation) IN
    [attempts |-> attempts, scanAttempts |-> BoundedProduct(pages, attempts, 96),
     waiting |-> BoundedSum(operation.retry.waiting, operation.rateLimit.limits.waiting, 30000)]

ResilienceWithinHardBounds(plan) ==
    /\ IF plan.retry.attempts > 1
       THEN /\ plan.retry.attempts <= 3 /\ plan.retry.scanAttempts \in 1..96
            /\ plan.retry.delay \in 1..100 /\ plan.retry.waiting \in 1..250
       ELSE plan.retry.scanAttempts > 0 /\ plan.retry.delay = 0 /\ plan.retry.waiting = 0
    /\ ValidateRateLimitContract(plan.rateLimit)
    /\ plan.resilience.attempts \in 1..3
    /\ plan.resilience.scanAttempts \in plan.resilience.attempts..96
    /\ plan.resilience.waiting <= 30000
    /\ plan.resilience.attempts = plan.budgets.attempts
    /\ plan.pagination.strategy # "disabled" => plan.resilience.scanAttempts = plan.scanBudgets.attempts

----------------------------------------------------------------------------
\* The plan

\* A typed equality is carried by one query field, or by none when DuckDB alone owns it.
ValidatePredicateMaterialization(plan) ==
    LET remote == plan.remote = "TYPED_EQUALITY"
        conditional == plan.conditional = "REST_QUERY_BINDING"
        fields == SelectSeq(plan.operation.query, LAMBDA b : b.source = "CONDITIONAL_INPUT")
        Carried(equality) == \E i \in DOMAIN fields : /\ fields[i].id = equality.input
                                                     /\ fields[i].type = equality.type /\ fields[i].v = equality.v
        Columns(equality) == SelectSeq(plan.operation.columns, LAMBDA c : c.name = equality.column)
    IN IF plan.equality = {} THEN ~remote /\ plan.residual # "TYPED_EQUALITY" /\ ~conditional
       ELSE /\ remote \/ plan.residual = "TYPED_EQUALITY"
            /\ plan.operation.protocol = "rest"
            /\ \A equality \in plan.equality :
                  Len(Columns(equality)) = 1 /\ Columns(equality)[1].type = equality.type
            /\ remote => /\ conditional /\ plan.residual \in {"TYPED_EQUALITY", "COMPLETE_DUCKDB_FILTER"}
                         /\ plan.accuracy \in {"EXACT", "SUPERSET"} /\ plan.category = plan.accuracy
                         /\ plan.accuracy = "EXACT" => \A e \in plan.equality : e.occurrence = "PRESERVES_EXACT"
                         /\ Len(fields) = 1 /\ \A equality \in plan.equality : Carried(equality)
            /\ ~remote => /\ ~conditional /\ plan.residual = "TYPED_EQUALITY"
                          /\ plan.remote = "TRUE_FOR_BASE_DOMAIN" /\ plan.accuracy = "UNSUPPORTED"
                          /\ plan.category \in {"UNSUPPORTED", "AMBIGUOUS"} /\ fields = <<>>

BaseDomain(operation) ==
    CASE operation.protocol = "graphql" -> "gql_relay"
      [] operation.response = "root_object" -> "root_object"
      [] operation.pagination.strategy = "disabled" -> operation.response
      [] OTHER -> "paginated_" \o operation.response

\* What the plan's identity in the result cache is computed from.
BuildCanonicalRepresentation(plan, request) ==
    <<[generation |-> request.generation, connector |-> plan.connector, version |-> plan.version,
       relation |-> plan.relation, domain |-> plan.domain, protocol |-> plan.operation.protocol,
       origin |-> plan.operation.origin, auth |-> plan.auth.required, pagination |-> plan.pagination.strategy],
      [remote |-> plan.remote, accuracy |-> plan.accuracy,
       residual |-> IF plan.residual = "TYPED_EQUALITY" THEN "other" ELSE plan.residual,
       conditional |-> plan.conditional, equality |-> {[column |-> e.column, proof |-> e.proof] : e \in plan.equality}],
      Map(plan.columns, LAMBDA c : [name |-> c.name, path |-> c.path, shape |-> c.shape, nullable |-> c.nullable]),
      IF plan.operation.protocol = "rest" THEN Map(plan.operation.path, LAMBDA s : s.encoded)
      ELSE <<plan.operation.path, plan.operation.document>> >>

\* A relation's pagination as the plan states it: page one is the operation's first request.
PlanPagination(operation) ==
    IF operation.protocol = "rest" THEN operation.pagination
    ELSE [strategy |-> "graphql_cursor", maxPages |-> operation.cursor.maxPages]

Build(connector, request, selected) ==
    LET relation == selected.relation
        operation == selected.operation
        graphql == operation.protocol = "graphql"
        decision == Classify(relation, operation, request)
        pagination == PlanPagination(operation)
        paginated == pagination.strategy # "disabled"
        pages == IF paginated THEN pagination.maxPages ELSE 1
        resilience == ResiliencePlan(operation, pages)
        page == PageBudgets(connector, relation.ceilings, resilience.attempts,
                            IF graphql THEN operation.maxBodyPerRequest ELSE 0,
                            IF paginated THEN PageLimits ELSE SingleResponseLimits)
    IN [connector |-> connector.name, version |-> connector.version, relation |-> relation.name,
        domain |-> BaseDomain(operation),
        operation |-> IF graphql THEN PlanGraphqlOperation(operation)
                      ELSE BuildRestOperation(relation, operation, selected.inputs, decision),
        columns |-> relation.columns] @@ decision
       @@ [retry |-> RetryPlan(operation.retry, pages), rateLimit |-> operation.rateLimit, resilience |-> resilience,
           secret |-> request.secret, auth |-> relation.auth, origin |-> operation.origin, pagination |-> pagination,
           budgets |-> page,
           scanBudgets |-> ScanBudgets(relation.ceilings, page, pages, resilience.scanAttempts,
                                       IF graphql THEN operation.maxBodyPerScan ELSE 0)]

\* The checks at the end of the construction.
CanBuild(selected, plan) ==
    LET scan == plan.scanBudgets
        decision == [conditional |-> plan.conditional, equality |-> plan.equality]
    IN
    /\ plan.operation.protocol = "rest" =>
         CanBuildRestOperation(selected.operation, selected.inputs, decision, plan.operation)
    /\ IF plan.pagination.strategy = "disabled" THEN IsWithinBounds(plan.budgets, SingleResponseLimits)
       ELSE /\ IsWithinBounds(plan.budgets, PageLimits)
            /\ IsWithinPaginatedScanBounds(scan)
            /\ plan.operation.protocol = "rest" =>
                 \A field \in {"responseBytes", "headerBytes", "decompressedBytes"} : scan[field] >= plan.budgets[field]
            /\ scan.records >= plan.budgets.records /\ scan.bodyBytes >= plan.budgets.bodyBytes
    /\ ResilienceWithinHardBounds(plan)
    /\ ValidatePredicateMaterialization(plan)

\* The plan of a request as a set of at most one: every failure is a planning error.
BuildConservativeScanPlan(connector, request) ==
    {plan @@ [identity |-> BuildCanonicalRepresentation(plan, request)] :
        plan \in UNION {{p \in {Build(connector, request, selected)} : CanBuild(selected, p)} :
                          selected \in ValidateAndSelectOperation(connector, request)}}
=============================================================================
