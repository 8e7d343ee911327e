---------------------------- MODULE CatalogModel ----------------------------
(***************************************************************************)
(* What the constructors of the compiled catalog accept                    *)
(* (src/src/connector/model/).  A constructor that does not accept its     *)
(* arguments throws std::invalid_argument.                                 *)
(***************************************************************************)
EXTENDS GraphqlRecipe, TLC

CONSTANTS MaxBigint, MaxUnsigned

\* Fits(a, b): the product of two positive numbers is a uint64.
Fits(a, b) == a <= MaxUnsigned \div b

Unique(sequence, Key(_)) == \A i, j \in DOMAIN sequence : Key(sequence[i]) = Key(sequence[j]) => i = j

All(sequence, P(_)) == \A i \in DOMAIN sequence : P(sequence[i])

Some(sequence, P(_)) == \E i \in DOMAIN sequence : P(sequence[i])

----------------------------------------------------------------------------
\* Operations (protocol_operation_declaration.cpp, pagination_declaration.cpp)

FitsBigintPageSequence(firstPage, pageIncrement, maxPages) ==
    firstPage <= MaxBigint /\ maxPages - 1 <= (MaxBigint - firstPage) \div pageIncrement

\* The constructors of the three strategies: only short_page must declare a size.
CompiledPagination(pagination) ==
    LET sized == pagination.pageSizeParameter # "" IN
    pagination.strategy # "disabled" =>
        /\ IsQueryName(pagination.pageNumberParameter)
        /\ 0 \notin {pagination.firstPage, pagination.pageIncrement, pagination.maxPages}
        /\ FitsBigintPageSequence(pagination.firstPage, pagination.pageIncrement, pagination.maxPages)
        /\ sized => /\ IsQueryName(pagination.pageSizeParameter)
                    /\ pagination.pageSizeParameter # pagination.pageNumberParameter
                    /\ pagination.pageSize > 0
        /\ ~sized => pagination.pageSize = 0
        /\ pagination.strategy = "short_page" => sized /\ pagination.pageSize <= MaxBigint
        /\ pagination.strategy = "response_next" => pagination.nextUrlPath # <<>>

\* The page-number literal, and the page-size literal when a size is declared,
\* are in the query; only a many-row response has pages.
ValidatePagination(operation) ==
    LET pagination == operation.pagination
        Bound(source, name, value) ==
            Some(operation.query, LAMBDA field :
                field.source = source /\ field.name = name /\ field.value.v = ToString(value))
        Count(source) == Cardinality({i \in DOMAIN operation.query : operation.query[i].source = source})
    IN IF pagination.strategy = "disabled" THEN Count("PAGE_SIZE") = 0 /\ Count("PAGE_NUMBER") = 0
       ELSE /\ CompiledPagination(pagination)
            /\ pagination.pageSize <= MaxBigint
            /\ operation.cardinality = "many"
            /\ operation.response \in {"terminal_collection", "root_array"}
            /\ Count("PAGE_SIZE") <= 1 /\ Count("PAGE_NUMBER") <= 1
            /\ Bound("PAGE_NUMBER", pagination.pageNumberParameter, pagination.firstPage)
            /\ pagination.pageSizeParameter # ""
                 => Bound("PAGE_SIZE", pagination.pageSizeParameter, pagination.pageSize)

\* The snapshot is exactly what the structural segments spell.
ValidateRestPath(operation) ==
    /\ Len(operation.segments) <= 64
    /\ operation.path.segments = operation.segments
    /\ ~operation.path.trailing
    /\ All(operation.segments, LAMBDA segment :
           IF segment.source = "LITERAL" THEN IsLiteralPathSegment(segment.value) /\ segment.type = "VARCHAR"
           ELSE IsIdentifier(segment.value))
    /\ Unique(SelectSeq(operation.segments, LAMBDA segment : segment.source = "RELATION_INPUT"),
              LAMBDA segment : segment.value)

ValidateQueryParameters(query) ==
    /\ Len(query) <= 64
    /\ Unique(query, LAMBDA field : field.name)
    /\ All(query, LAMBDA field :
           /\ IsQueryName(field.name)
           /\ CASE field.source \in {"RELATION_INPUT", "CONDITIONAL_INPUT"} -> field.id # "" /\ field.value.null
                [] field.source \in {"PAGE_SIZE", "PAGE_NUMBER"} ->
                     field.id = "" /\ ~field.value.null /\ field.value.type = "BIGINT" /\ field.value.v # "0"
                [] OTHER -> field.id = "" /\ ~field.value.null)

ValidateHeaders(headers) ==
    /\ All(headers, LAMBDA header :
           /\ Size(header.name) > 0 /\ Made(header.name, Alphanumeric \cup {"dash"})
           /\ IsHeaderValue(header.value)
           /\ Shape[header.name].folded # "authorization")
    /\ Unique(headers, LAMBDA header : Shape[header.name].folded)

ValidateRetryRecommendation(retry) ==
    IF retry.attempts = 0 THEN retry.delay = 0 /\ retry.waiting = 0
    ELSE retry.attempts \in 2..3 /\ retry.delay \in 1..100 /\ retry.waiting \in 1..250

ValidateRateLimitPolicy(policy) ==
    LET none == [attempts |-> 0, delay |-> 0, waiting |-> 0]
        roles == [i \in DOMAIN policy.guidance |-> policy.guidance[i].header]
                   \o SelectSeq(<<policy.remaining, policy.bucket>>, LAMBDA header : header # "")
        silent == roles = <<>> /\ policy.limits = none
    IN IF ~policy.declared
       THEN policy.mode = "fail" /\ policy.statuses = <<>> /\ policy.family = "" /\ silent
       ELSE /\ Len(policy.statuses) \in 1..8
            /\ IsRateLimitOperationFamily(policy.family)
            /\ \A i \in DOMAIN policy.statuses :
                  /\ policy.statuses[i] \in (400..599) \ {401, 403, 407}
                  /\ i > 1 => policy.statuses[i - 1] < policy.statuses[i]
            /\ All(roles, IsRateLimitHeaderName)
            /\ IsInjective(roles)
            /\ IF policy.mode = "fail" THEN silent
               ELSE /\ Len(policy.guidance) \in 1..4
                    /\ policy.limits.attempts \in 2..3
                    /\ policy.limits.delay \in 1..30000
                    /\ policy.limits.waiting \in 1..30000

ValidateRestOperation(operation) ==
    /\ ValidateRetryRecommendation(operation.retry)
    /\ ValidateRateLimitPolicy(operation.rateLimit)
    /\ operation.origin.port > 0
    /\ ValidateRestPath(operation)
    /\ ValidateQueryParameters(operation.query)
    /\ ValidateHeaders(operation.headers)
    /\ (operation.cardinality = "one") = (operation.response = "root_object")
    /\ (operation.records = <<>>) = (operation.response # "terminal_collection")
    /\ ValidatePagination(operation)

\* A generated operation is its recipe, rendered again and compared.
ValidateGraphqlOperationValue(operation) ==
    LET recipe == operation.recipe
        base == <<"data">> \o recipe.root
    IN
    /\ operation.maxDocument \in 1..65536
    /\ DocumentBytes(operation.document) <= operation.maxDocument
    /\ ValidateCompiledGraphqlQueryRecipe(recipe)
    /\ RenderCompiledGraphqlQueryRecipe(recipe) = operation.document
    /\ operation.origin.port > 0
    /\ operation.path.rooted
    /\ Len(operation.variables) = 2
    /\ \A i \in 1..2 : operation.variables[i].name = recipe.variables[i].name
    /\ operation.variables[1].value > 0 /\ operation.variables[2].value = 0
    /\ Len(operation.results) \in 1..256 /\ Len(operation.results) = Len(recipe.selections)
    /\ \A i \in DOMAIN operation.results :
          /\ operation.results[i].name = recipe.selections[i].column
          /\ operation.results[i].path = recipe.selections[i].path
    /\ operation.nodes = base \o <<"nodes">>
    /\ operation.pageInfo = base \o <<recipe.pageInfo>>
    /\ operation.cursor.hasNext = operation.pageInfo \o <<recipe.hasNext>>
    /\ operation.cursor.endCursor = operation.pageInfo \o <<recipe.endCursor>>
    /\ operation.cursor.pageSize = operation.variables[1].value
    /\ operation.cursor.maxPages > 0
    /\ operation.maxBodyPerRequest \in 1..operation.maxBodyPerScan
    /\ Fits(operation.maxBodyPerRequest, operation.cursor.maxPages)

ValidateProtocolOperation(operation) ==
    LET retries == IF operation.retry.attempts > 0 THEN operation.retry.attempts ELSE 1
        waits == IF operation.rateLimit.limits.attempts > 0 THEN operation.rateLimit.limits.attempts ELSE 1
        attempts == IF retries > waits THEN retries ELSE waits
        bodies == operation.maxBodyPerRequest * operation.cursor.maxPages
    IN IF operation.protocol = "rest" THEN ValidateRestOperation(operation)
       ELSE /\ operation.cardinality = "many"
            /\ ValidateHeaders(operation.headers)
            /\ ValidateRetryRecommendation(operation.retry)
            /\ ValidateRateLimitPolicy(operation.rateLimit)
            /\ ValidateGraphqlOperationValue(operation)
            /\ Fits(bodies, attempts)
            /\ operation.maxBodyPerScan <= bodies * attempts

----------------------------------------------------------------------------
\* Relations (catalog_model.cpp, operation_selector.cpp, predicate_declaration.cpp)

ValidateColumn(column) ==
    /\ IsIdentifier(column.name)
    /\ IsExtractor([fields |-> column.path, collection |-> FALSE], FALSE)
    /\ column.shape = "SCALAR" => ~column.elementNullable

CompiledRelationInput(input) ==
    /\ IsIdentifier(input.name) /\ input.name # "secret"
    /\ \A default \in input.default : default.type = input.type /\ (default.null => input.nullable)

ValidateResourceCeilingsValue(ceilings) ==
    /\ 0 \notin {ceilings.pageRecords, ceilings.scanRecords, ceilings.stringBytes, ceilings.pageBytes}
    /\ ceilings.pageRecords <= ceilings.scanRecords /\ ceilings.pageBytes <= ceilings.scanBytes

ValidateResourceCeilings(operation, ceilings) ==
    LET paging == IF operation.protocol = "rest" THEN operation.pagination ELSE operation.cursor IN
    /\ ValidateResourceCeilingsValue(ceilings)
    /\ IF operation.protocol = "rest" /\ operation.pagination.strategy = "disabled"
       THEN ceilings.scanRecords = ceilings.pageRecords /\ ceilings.scanBytes = ceilings.pageBytes
       ELSE /\ paging.pageSize <= ceilings.pageRecords
            /\ Fits(ceilings.pageRecords, paging.maxPages) /\ Fits(ceilings.pageBytes, paging.maxPages)
            /\ ceilings.scanRecords <= ceilings.pageRecords * paging.maxPages
            /\ ceilings.scanBytes <= ceilings.pageBytes * paging.maxPages

\* Every mapping names a scalar column of its literal's type and a query field of
\* its operation that nothing else sets; one operation has one conditional input.
ValidatePredicateMappings(relation) ==
    \A i \in DOMAIN relation.predicates :
        LET mapping == relation.predicates[i] IN
        /\ Some(relation.columns, LAMBDA column :
               column.name = mapping.column /\ column.shape = "SCALAR" /\ column.type = mapping.literal.type)
        /\ ~mapping.literal.null
        /\ Some(relation.operations, LAMBDA operation :
               /\ operation.name = mapping.operation
               /\ operation.protocol = "rest"
               /\ Some(operation.query, LAMBDA field :
                      /\ field.source = "CONDITIONAL_INPUT" /\ field.id = mapping.input
                      /\ ~Some(operation.query, LAMBDA other : other.source = "FIXED" /\ other.name = field.name)
                      /\ field.name \notin {operation.pagination.pageSizeParameter,
                                            operation.pagination.pageNumberParameter}))
        /\ \A j \in (i + 1)..Len(relation.predicates) :
              LET other == relation.predicates[j] IN
              other.operation = mapping.operation =>
                  other.input = mapping.input /\ other.literal # mapping.literal
                    /\ other.literal.v # mapping.literal.v

ValidateOperationSelectorReferences(operation, relation) ==
    /\ Cardinality(operation.selector) <= 128
    /\ operation.fallback = (operation.selector = {})
    /\ \A reference \in operation.selector :
          IF reference[1] = "input"
          THEN Some(relation.inputs, LAMBDA input : input.name = reference[2])
          ELSE Some(relation.predicates, LAMBDA mapping :
                   mapping.operation = operation.name /\ mapping.input = reference[2])

ValidateRestPathReferences(operation, relation) ==
    operation.protocol = "rest" =>
        All(operation.segments, LAMBDA segment :
            segment.source = "RELATION_INPUT" =>
                /\ <<"input", segment.value>> \in operation.selector
                /\ Some(relation.inputs, LAMBDA input : input.name = segment.value /\ input.type = segment.type))

\* Every column is extracted from the response path its selection gives.
ValidateCanonicalGraphqlRelation(operation, relation) ==
    operation.protocol = "graphql" => operation.results = relation.columns

CompiledAuthenticationPolicy(auth) ==
    IF ~auth.required THEN auth.destinations = <<>> /\ auth.placementName = ""
    ELSE /\ auth.field = "token"
         /\ auth.destinations # <<>>
         /\ \/ auth.authenticator = "bearer" /\ auth.placement = "authorization_header" /\ auth.placementName = ""
            \/ auth.authenticator = "api_key" /\ auth.placement \in {"header", "query"} /\ auth.placementName # ""
         /\ IsInjective(auth.destinations)

CompiledRelation(relation) ==
    /\ IsIdentifier(relation.name)
    /\ relation.columns # <<>> /\ relation.operations # <<>>
    /\ All(relation.columns, ValidateColumn)
    /\ Unique(relation.columns, LAMBDA column : column.name)
    /\ All(relation.inputs, CompiledRelationInput)
    /\ Unique(relation.inputs, LAMBDA input : input.name)
    /\ Unique(relation.operations, LAMBDA operation : operation.name)
    /\ All(relation.operations, LAMBDA operation :
           /\ IsIdentifier(operation.name)
           /\ ValidateProtocolOperation(operation)
           /\ ValidateResourceCeilings(operation, relation.ceilings)
           /\ operation.cardinality = "one"
                => {relation.ceilings.pageRecords, relation.ceilings.scanRecords} = {1}
           /\ ValidateOperationSelectorReferences(operation, relation)
           /\ ValidateRestPathReferences(operation, relation)
           /\ ValidateCanonicalGraphqlRelation(operation, relation))
    /\ Len(SelectSeq(relation.operations, LAMBDA operation : operation.fallback)) <= 1
    /\ ValidatePredicateMappings(relation)
    /\ CompiledAuthenticationPolicy(relation.auth)
    /\ relation.auth.required =>
          All(relation.operations, LAMBDA operation : Contains(relation.auth.destinations, operation.origin))

CompiledConnector(connector) ==
    /\ IsIdentifier(connector.name)
    /\ connector.relations # <<>>
    /\ connector.origins # <<>> /\ IsInjective(connector.origins) /\ connector.maxResponseBytes > 0
    /\ Unique(connector.relations, LAMBDA relation : relation.name)
    /\ All(connector.relations, LAMBDA relation :
           /\ All(relation.operations, LAMBDA operation : Contains(connector.origins, operation.origin))
           /\ All(relation.auth.destinations, LAMBDA origin : Contains(connector.origins, origin))
           /\ relation.ceilings.pageBytes <= connector.maxResponseBytes)
=============================================================================
