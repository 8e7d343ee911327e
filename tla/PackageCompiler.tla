-------------------------- MODULE PackageCompiler --------------------------
(***************************************************************************)
(* The compile phase of a package whose schema is valid                    *)
(* (src/src/connector/compiler/package_*_compiler.cpp and                  *)
(* package_graphql_renderer.cpp).  Every compiler has two results: the     *)
(* diagnostic codes it adds (X_Codes) and the compiled value (X).  The     *)
(* constructors of the compiled values check them again: what they accept  *)
(* is in CatalogModel.                                                     *)
(***************************************************************************)
EXTENDS PackageSchema, GraphqlRecipe, TLC

CONSTANTS MaxBigint,        \* numeric_limits<int64_t>::max(), scaled
          MaxUnsigned       \* numeric_limits<uint64_t>::max(), scaled

Paginated == {"link_next", "response_next", "short_page"}

Map(sequence, Op(_)) == [i \in DOMAIN sequence |-> Op(sequence[i])]

\* The members of a sequence that satisfy Op, turned into values.
Found(sequence, Op(_)) == {sequence[i] : i \in {j \in DOMAIN sequence : Op(sequence[j])}}

FindInput(relation, id) == Found(Children(relation, "inputs"), LAMBDA input : input.id = id)

FindColumn(relation, id) == Found(relation.columns, LAMBDA column : column.id = id)

FindCredential(manifest, id) ==
    Found(Children(manifest, "credentials"), LAMBDA credential : credential.id = id)

The(set) == CHOOSE x \in set : TRUE

Origin(operation) == IF IsGraphql(operation) THEN operation.request.endpoint.origin ELSE operation.request.origin

----------------------------------------------------------------------------
\* Scalars

\* A text that a query can carry: valid UTF-8 without control characters.
Encodable(scalar) ==
    scalar.type = "VARCHAR" => Shape[scalar.v].has \cap {"control", "delete", "c1", "invalid"} = {}

\* A timestamp and a default text are double-quoted; a text has no C0 control.
CompileConcreteScalar_Codes(type, literal) ==
    Unless(/\ type \in DOMAIN literal.value
           /\ type = "TIMESTAMPTZ" => literal.quoted
           /\ type = "VARCHAR" => "control" \notin Shape[literal.value[type]].has, "INVALID_TYPE")

CompileConcreteScalar(type, literal) ==
    [type |-> type, null |-> FALSE, v |-> IF type \in DOMAIN literal.value THEN literal.value[type] ELSE ""]

CompileDefault_Codes(input) ==
    CASE ~Has(input, "default") -> {}
      [] Has(input, "default") /\ input.default.kind = "null" -> Unless(input.nullable = "true", "INVALID_TYPE")
      [] OTHER -> Unless(input.type = "VARCHAR" => input.default.value.quoted, "INVALID_TYPE")
                    \cup CompileConcreteScalar_Codes(input.type, input.default.value)

\* The default of an input as a set: empty when it has none.
CompileDefault(input) ==
    CASE ~Has(input, "default") -> {}
      [] Has(input, "default") /\ input.default.kind = "null" ->
           {[type |-> input.type, null |-> TRUE, v |-> ""]}
      [] OTHER -> {CompileConcreteScalar(input.type, input.default.value)}

----------------------------------------------------------------------------
\* Columns and inputs

CompileColumn(column) ==
    LET array == column.type = "ARRAY" IN
    [name |-> column.id, shape |-> IF array THEN "ARRAY" ELSE "SCALAR",
     type |-> IF array THEN column.element_type ELSE column.type,
     nullable |-> column.nullable = "true",
     elementNullable |-> array /\ column.element_nullable = "true",
     path |-> column.extract.fields]

CompileColumns(relation) == Map(relation.columns, CompileColumn)

CompileInputs_Codes(relation) == Each(Children(relation, "inputs"), CompileDefault_Codes)

CompileInputs(relation) ==
    Map(Children(relation, "inputs"), LAMBDA input :
        [name |-> input.id, type |-> input.type, nullable |-> input.nullable = "true",
         default |-> CompileDefault(input)])

----------------------------------------------------------------------------
\* Operations: selector, pagination, policies

RequiredInputs(operation) == Children(Children(operation, "when"), "required_inputs")

SelectorRequiresInput(operation, id) == Contains(RequiredInputs(operation), <<"input", id>>)

PredicateTargets(relation, operation, conditional) ==
    Found(Children(relation, "predicates"), LAMBDA predicate :
        /\ predicate.conditional_input = conditional
        /\ Contains(predicate.operations, operation.id)) # {}

CompileSelector_Codes(relation, operation) ==
    LET references == RequiredInputs(operation)
        Reference(i) ==
            LET kind == references[i][1]
                id == references[i][2]
            IN CASE (\E j \in 1..(i - 1) : references[j] = references[i]) \/ ~IsIdentifier(id) ->
                      {"INVALID_SELECTOR"}
                 [] kind = "input" -> Unless(FindInput(relation, id) # {}, "INVALID_REFERENCE")
                 [] kind = "conditional" ->
                      Unless(PredicateTargets(relation, operation, id), "INVALID_REFERENCE")
                 [] OTHER -> {"INVALID_SELECTOR"}
    IN UNION {Reference(i) : i \in DOMAIN references}

CompileSelector(operation) == ToSet(RequiredInputs(operation))

\* The last page number of the sequence is an int64.
FitsBigintPageSequence(pagination) ==
    pagination.strategy \in Paginated =>
        /\ Text(pagination, "page_size_parameter") # pagination.page_number_parameter
        /\ Number(pagination, "page_size") <= MaxBigint
        /\ pagination.first_page <= MaxBigint
        /\ pagination.max_pages_per_scan - 1
             <= (MaxBigint - pagination.first_page) \div pagination.page_increment

\* page_size is read only when a parameter carries it.
CompilePagination(pagination) ==
    LET parameter == Text(pagination, "page_size_parameter") IN
    IF pagination.strategy \notin Paginated
    THEN [strategy |-> "disabled", pageSizeParameter |-> "", pageSize |-> 0, pageNumberParameter |-> "",
          firstPage |-> 0, pageIncrement |-> 0, maxPages |-> 0, nextUrlPath |-> <<>>]
    ELSE [strategy |-> pagination.strategy, pageSizeParameter |-> parameter,
          pageSize |-> IF parameter = "" THEN 0 ELSE Number(pagination, "page_size"),
          pageNumberParameter |-> pagination.page_number_parameter, firstPage |-> pagination.first_page,
          pageIncrement |-> pagination.page_increment, maxPages |-> pagination.max_pages_per_scan,
          nextUrlPath |-> IF pagination.strategy = "response_next" THEN pagination.next_url_path.fields ELSE <<>>]

NoWaiting == [attempts |-> 0, delay |-> 0, waiting |-> 0]

Waiting(policy) ==
    [attempts |-> policy.max_attempts_per_step, delay |-> policy.max_delay_milliseconds,
     waiting |-> policy.max_cumulative_waiting_milliseconds_per_scan]

CompileRetry(operation) == IF Has(operation, "retry") THEN Waiting(operation.retry) ELSE NoWaiting

NoRateLimit ==
    [declared |-> FALSE, mode |-> "fail", statuses |-> <<>>, family |-> "", scope |-> "credential_authority",
     guidance |-> <<>>, remaining |-> "", bucket |-> "", limits |-> NoWaiting]

CompileRateLimit(operation) ==
    LET source == operation.rate_limit
        Role(key) == IF Has(source, key) THEN source[key].header ELSE ""
    IN IF ~Has(operation, "rate_limit") THEN NoRateLimit
       ELSE [declared |-> TRUE, mode |-> source.mode, statuses |-> SortSeq(source.statuses, <),
             family |-> source.operation_family, scope |-> source.principal_scope,
             guidance |-> Children(source, "guidance"), remaining |-> Role("remaining"),
             bucket |-> Role("remote_bucket"),
             limits |-> IF source.mode = "fail" THEN NoWaiting ELSE Waiting(source)]

----------------------------------------------------------------------------
\* REST requests

CompileHeaders_Codes(headers, graphql) ==
    LET bytes == FoldSeq(LAMBDA header, n : n + Size(header.name) + Size(header.value), 0, headers)
        Repeats(i) == \E j \in 1..(i - 1) : Shape[headers[j].name].folded = Shape[headers[i].name].folded
    IN UNION {Unless(~Repeats(i) /\ ~ReservedHeader(headers[i].name, graphql), "UNSUPPORTED_DECLARATION") :
                i \in DOMAIN headers}
         \cup Unless(bytes <= 16384, "RESOURCE_EXHAUSTED")

\* GraphQL adds its content type after Accept, or in front when there is none.
CompileHeaders(headers, graphql) ==
    LET content == [name |-> "Content-Type", value |-> "application/json"]
        accept == SelectInSeq(headers, LAMBDA header : Shape[header.name].folded = "accept")
    IN IF graphql THEN InsertAt(headers, accept + 1, content) ELSE headers

Segments(request) == IF Has(request, "path") THEN <<>> ELSE request.path_segments

CompileRestPath_Codes(relation, operation) ==
    LET segments == Segments(operation.request)
        inputs == {i \in DOMAIN segments : Has(segments[i], "input")}
        Known(i) == FindInput(relation, segments[i].input) # {}
        Repeats(i) == \E j \in inputs : j < i /\ Known(j) /\ segments[j].input = segments[i].input
        Input(i) ==
            CASE ~Known(i) -> {"INVALID_REFERENCE"}
              [] Known(i) /\ Repeats(i) -> {"DUPLICATE_ID"}
              [] OTHER -> Unless(/\ ~Has(operation, "fallback")
                                 /\ SelectorRequiresInput(operation, segments[i].input), "INVALID_SELECTOR")
    IN IF Has(operation.request, "path") THEN {}
       ELSE UNION {Input(i) : i \in inputs}
              \cup Unless(\E i \in inputs : Known(i), "UNSUPPORTED_DECLARATION")

\* The structural segments; the empty one after a trailing slash is not one of them.
CompileRestPath(relation, operation) ==
    LET Literal(text) == [source |-> "LITERAL", value |-> text, type |-> "VARCHAR"]
        Segment(segment) ==
            IF Has(segment, "literal") THEN Literal(segment.literal)
            ELSE [source |-> "RELATION_INPUT", value |-> segment.input,
                  type |-> The(FindInput(relation, segment.input)).type]
    IN IF Has(operation.request, "path") THEN Map(operation.request.path.segments, Literal)
       ELSE Map(operation.request.path_segments, Segment)

\* The snapshot is the declared text of a fixed path, or is put together from the segments.
CompileRestPathSnapshot(relation, operation) ==
    [segments |-> CompileRestPath(relation, operation),
     trailing |-> Has(operation.request, "path") /\ operation.request.path.trailing]

\* A literal that carries a page number or size spells exactly that number.
PageLiteral(pagination, field) ==
    /\ pagination.strategy \in Paginated
    /\ Has(field, "literal")
    /\ field.name \in {Text(pagination, "page_size_parameter"), pagination.page_number_parameter}

PageValue(pagination, field) ==
    IF field.name = Text(pagination, "page_size_parameter")
    THEN Number(pagination, "page_size") ELSE pagination.first_page

CompileQuery_Codes(relation, operation) ==
    LET query == operation.request.query
        pagination == operation.pagination
        conditionals == {i \in DOMAIN query : Has(query[i], "conditional_input")}
        Field(i) ==
            LET field == query[i] IN
            CASE PageLiteral(pagination, field) ->
                   Unless(/\ field.literal.type \in {"VARCHAR", "BIGINT"}
                          /\ field.literal.value.num = PageValue(pagination, field)
                          /\ PageValue(pagination, field) <= MaxBigint, "UNSUPPORTED_DECLARATION")
              [] Has(field, "literal") /\ ~PageLiteral(pagination, field) ->
                   CompileConcreteScalar_Codes(field.literal.type, field.literal.value)
                     \cup Unless(Encodable(CompileConcreteScalar(field.literal.type, field.literal.value)),
                                 "INVALID_TYPE")
              [] Has(field, "input") -> Unless(FindInput(relation, field.input) # {}, "INVALID_REFERENCE")
              [] OTHER -> Unless(/\ \A j \in conditionals : i <= j
                                 /\ PredicateTargets(relation, operation, field.conditional_input),
                                 "INVALID_PREDICATE")
    IN UNION {Field(i) : i \in DOMAIN query}
         \cup NoDuplicates([i \in DOMAIN query |-> query[i].name], "DUPLICATE_ID")
         \cup Unless(pagination.strategy \in Paginated =>
                       \E i \in DOMAIN query : /\ PageLiteral(pagination, query[i])
                                               /\ query[i].name = pagination.page_number_parameter,
                     "UNSUPPORTED_DECLARATION")

CompileQueryField(pagination, field) ==
    LET none == [type |-> "VARCHAR", null |-> TRUE, v |-> ""]
        Page(source) == [name |-> field.name, source |-> source, id |-> "",
                         value |-> [type |-> "BIGINT", null |-> FALSE, v |-> ToString(PageValue(pagination, field))]]
    IN CASE PageLiteral(pagination, field) ->
              Page(IF field.name = pagination.page_number_parameter THEN "PAGE_NUMBER" ELSE "PAGE_SIZE")
         [] Has(field, "literal") /\ ~PageLiteral(pagination, field) ->
              [name |-> field.name, source |-> "FIXED", id |-> "",
               value |-> CompileConcreteScalar(field.literal.type, field.literal.value)]
         [] Has(field, "input") ->
              [name |-> field.name, source |-> "RELATION_INPUT", id |-> field.input, value |-> none]
         [] OTHER ->
              [name |-> field.name, source |-> "CONDITIONAL_INPUT", id |-> field.conditional_input, value |-> none]

CompileQuery(operation) ==
    Map(operation.request.query, LAMBDA field : CompileQueryField(operation.pagination, field))

\* Fault: any cardinality goes with any response.
CompileRestOperation_CodesAnyCardinality(relation, operation) ==
    IF ~FitsBigintPageSequence(operation.pagination) THEN {"UNSUPPORTED_DECLARATION"}
    ELSE CompileRestPath_Codes(relation, operation)
           \cup CompileQuery_Codes(relation, operation)
           \cup CompileHeaders_Codes(operation.request.headers, FALSE)

\* A page sequence that overflows, or one row that is not the root object, ends
\* the compilation of the operation; the other faults are all reported.
CompileRestOperation_Codes(relation, operation) ==
    CASE ~FitsBigintPageSequence(operation.pagination) -> {"UNSUPPORTED_DECLARATION"}
      [] FitsBigintPageSequence(operation.pagination)
         /\ (operation.cardinality = "one") # (operation.response.source = "root_object") ->
           {"UNSUPPORTED_DECLARATION"}
      [] OTHER -> CompileRestPath_Codes(relation, operation)
                    \cup CompileQuery_Codes(relation, operation)
                    \cup CompileHeaders_Codes(operation.request.headers, FALSE)

CompileRestOperation(relation, operation) ==
    [protocol |-> "rest", name |-> operation.id, fallback |-> Has(operation, "fallback"),
     cardinality |-> operation.cardinality, selector |-> CompileSelector(operation),
     pagination |-> CompilePagination(operation.pagination), origin |-> operation.request.origin,
     path |-> CompileRestPathSnapshot(relation, operation), segments |-> CompileRestPath(relation, operation),
     query |-> CompileQuery(operation), headers |-> CompileHeaders(operation.request.headers, FALSE),
     response |-> operation.response.source,
     records |-> IF Has(operation.response, "records") THEN operation.response.records.fields ELSE <<>>,
     retry |-> CompileRetry(operation), rateLimit |-> CompileRateLimit(operation)]

----------------------------------------------------------------------------
\* GraphQL requests

RECURSIVE CompileLiteral(_)
CompileLiteral(literal) ==
    LET kind == The(DOMAIN literal) IN
    CASE kind = "null" -> GraphqlLiteral("NULL_VALUE", "", <<>>, <<>>)
      [] kind = "boolean" -> GraphqlLiteral("BOOLEAN", literal.boolean, <<>>, <<>>)
      [] kind = "integer" -> GraphqlLiteral("INTEGER", literal.integer.value["BIGINT"], <<>>, <<>>)
      [] kind = "string" -> GraphqlLiteral("STRING", literal.string.value["VARCHAR"], <<>>, <<>>)
      [] kind = "enum" -> GraphqlLiteral("ENUM_VALUE", literal.enum, <<>>, <<>>)
      [] kind = "list" -> GraphqlLiteral("LIST", "", [i \in DOMAIN literal.list |-> CompileLiteral(literal.list[i])], <<>>)
      [] kind = "object" ->
           GraphqlLiteral("OBJECT", "", <<>>,
               [i \in DOMAIN literal.object |->
                  [name |-> literal.object[i].name, value |-> CompileLiteral(literal.object[i].value)]])

\* No object of a literal names a field twice.
RECURSIVE Renderable(_)
Renderable(literal) ==
    LET kind == The(DOMAIN literal) IN
    CASE kind = "list" -> \A i \in DOMAIN literal.list : Renderable(literal.list[i])
      [] kind = "object" -> /\ IsInjective([i \in DOMAIN literal.object |-> literal.object[i].name])
                            /\ \A i \in DOMAIN literal.object : Renderable(literal.object[i].value)
      [] OTHER -> TRUE

ValidateNamesAndRoles(request) ==
    LET pagination == request.pagination
        reserved == {"data", "errors", "nodes", pagination.page_info_field, pagination.has_next_page_field,
                     pagination.end_cursor_field}
        fixed == request.query.fixed_arguments
    IN
    /\ pagination.page_size_variable # pagination.cursor_variable
    /\ pagination.page_info_field # "nodes"
    /\ pagination.has_next_page_field # pagination.end_cursor_field
    /\ IsInjective(request.query.root)
    /\ ToSet(request.query.root) \cap reserved = {}
    /\ IsInjective(<<pagination.page_size_argument, pagination.cursor_argument>>
                     \o [i \in DOMAIN fixed |-> fixed[i].name])
    /\ \A i \in DOMAIN fixed : Renderable(fixed[i].value)

\* The selection lists the columns in order; it says nothing of their extractors.
ValidateSelection(relation, request) ==
    LET selection == request.query.selection IN
    /\ Len(selection) = Len(relation.columns)
    /\ \A i \in DOMAIN selection :
          /\ selection[i].column = relation.columns[i].id
          /\ \A j \in 1..(i - 1) : ~Overlap(selection[j].field_path, selection[i].field_path)

CompileRecipe(request) ==
    LET pagination == request.pagination IN
    [operationName |-> request.query.operation_name,
     variables |-> <<[name |-> pagination.page_size_variable, argument |-> pagination.page_size_argument],
                     [name |-> pagination.cursor_variable, argument |-> pagination.cursor_argument]>>,
     root |-> request.query.root,
     arguments |-> Map(request.query.fixed_arguments, LAMBDA argument :
                         [name |-> argument.name, value |-> CompileLiteral(argument.value)]),
     selections |-> Map(request.query.selection, LAMBDA selection :
                          [column |-> selection.column, path |-> selection.field_path]),
     pageInfo |-> pagination.page_info_field, hasNext |-> pagination.has_next_page_field,
     endCursor |-> pagination.end_cursor_field]

RenderGraphqlOperation_Codes(relation, operation) ==
    LET request == operation.request
        recipe == CompileRecipe(request)
    IN Unless(/\ ValidateNamesAndRoles(request)
              /\ ValidateSelection(relation, request)
              /\ ValidateCompiledGraphqlQueryRecipe(recipe)
              /\ request.max_document_bytes <= 65536
              /\ DocumentBytes(RenderCompiledGraphqlQueryRecipe(recipe)) <= request.max_document_bytes
              /\ \A i \in DOMAIN relation.columns : CompileColumn(relation.columns[i]).type # "DOUBLE",
              "INVALID_GRAPHQL_PROFILE")

\* The result columns keep the field path of the selection as their response path.
RenderResultColumns(relation, operation) ==
    [i \in DOMAIN relation.columns |->
       [CompileColumn(relation.columns[i]) EXCEPT !.path = operation.request.query.selection[i].field_path]]

CompileGraphqlOperation_Codes(relation, operation) ==
    LET rendering == RenderGraphqlOperation_Codes(relation, operation) IN
    IF rendering # {} THEN rendering ELSE CompileHeaders_Codes(operation.request.headers, TRUE)

CompileGraphqlOperation(relation, operation) ==
    LET request == operation.request
        recipe == CompileRecipe(request)
        base == <<"data">> \o request.query.root
        pageInfo == base \o <<request.pagination.page_info_field>>
    IN [protocol |-> "graphql", name |-> operation.id, fallback |-> Has(operation, "fallback"),
        cardinality |-> "many", selector |-> CompileSelector(operation), origin |-> request.endpoint.origin,
        path |-> request.endpoint.path, headers |-> CompileHeaders(request.headers, TRUE), recipe |-> recipe,
        document |-> RenderCompiledGraphqlQueryRecipe(recipe),
        variables |-> <<[name |-> request.pagination.page_size_variable, source |-> "FIXED_PAGE_SIZE",
                         value |-> request.pagination.page_size],
                        [name |-> request.pagination.cursor_variable, source |-> "RUNTIME_CURSOR", value |-> 0]>>,
        results |-> RenderResultColumns(relation, operation),
        nodes |-> base \o <<"nodes">>, pageInfo |-> pageInfo,
        cursor |-> [pageSize |-> request.pagination.page_size, maxPages |-> request.pagination.max_pages_per_scan,
                    hasNext |-> pageInfo \o <<request.pagination.has_next_page_field>>,
                    endCursor |-> pageInfo \o <<request.pagination.end_cursor_field>>],
        maxDocument |-> request.max_document_bytes,
        maxBodyPerRequest |-> request.max_serialized_body_bytes_per_request,
        maxBodyPerScan |-> request.max_serialized_body_bytes_per_scan,
        retry |-> CompileRetry(operation), rateLimit |-> CompileRateLimit(operation)]

----------------------------------------------------------------------------
\* Relations

\* An operation is compiled once its selector is.
CompileOperation_Codes(relation, operation) ==
    LET selector == CompileSelector_Codes(relation, operation) IN
    IF selector # {} THEN selector
    ELSE IF IsGraphql(operation) THEN CompileGraphqlOperation_Codes(relation, operation)
    ELSE CompileRestOperation_Codes(relation, operation)

CompileOperations_Codes(relation) ==
    Each(relation.operations, LAMBDA operation : CompileOperation_Codes(relation, operation))
      \cup Unless(Len(SelectSeq(relation.operations, LAMBDA operation : Has(operation, "fallback"))) <= 1,
                  "INVALID_SELECTOR")

\* The operations that compiled without a diagnostic of their own.
CompileOperations(relation) ==
    Map(SelectSeq(relation.operations, LAMBDA operation : CompileOperation_Codes(relation, operation) = {}),
        LAMBDA operation : IF IsGraphql(operation) THEN CompileGraphqlOperation(relation, operation)
                           ELSE CompileRestOperation(relation, operation))

HasConditionalBinding(operation, id) ==
    /\ operation.protocol = "rest"
    /\ Found(operation.query, LAMBDA field : field.source = "CONDITIONAL_INPUT" /\ field.id = id) # {}

\* An operation takes one conditional input, and every value of it means one literal.
AmbiguousPredicate(mappings, operation, predicate, literal) ==
    Found(mappings, LAMBDA mapping :
        /\ mapping.operation = operation
        /\ \/ mapping.input # predicate.conditional_input
           \/ mapping.literal = literal
           \/ mapping.literal.v = literal.v) # {}

CompilePredicateMapping(predicate, target) ==
    [name |-> predicate.id, column |-> predicate.column, operation |-> target,
     literal |-> CompileConcreteScalar(predicate.literal.type, predicate.literal.value),
     input |-> predicate.conditional_input, accuracy |-> predicate.accuracy]

\* One target of a predicate, after the targets compiled so far.
CompilePredicateTarget(operations, predicate, compiled, i) ==
    LET target == predicate.operations[i]
        operation == Found(operations, LAMBDA candidate : candidate.name = target)
        literal == CompileConcreteScalar(predicate.literal.type, predicate.literal.value)
        fault == CASE \E j \in 1..(i - 1) : predicate.operations[j] = target -> {"DUPLICATE_ID"}
                   [] \A candidate \in operation : candidate.protocol # "rest" -> {"INVALID_REFERENCE"}
                   [] ~HasConditionalBinding(The(operation), predicate.conditional_input) -> {"INVALID_PREDICATE"}
                   [] AmbiguousPredicate(compiled.mappings, target, predicate, literal) -> {"INVALID_PREDICATE"}
                   [] OTHER -> {}
    IN [codes |-> compiled.codes \cup fault,
        mappings |-> IF fault = {} THEN Append(compiled.mappings, CompilePredicateMapping(predicate, target))
                     ELSE compiled.mappings]

CompilePredicate(relation, operations, compiled, predicate) ==
    LET column == FindColumn(relation, predicate.column)
        fixtures == predicate.occurrence_fixtures
        scalar == CompileConcreteScalar_Codes(predicate.literal.type, predicate.literal.value)
        Failing(codes) == [compiled EXCEPT !.codes = @ \cup codes]
    IN CASE column = {} -> Failing({"INVALID_REFERENCE"})
         [] \E c \in column : c.type # predicate.literal.type -> Failing({"INVALID_PREDICATE"})
         [] ~Encodable(CompileConcreteScalar(predicate.literal.type, predicate.literal.value)) ->
              Failing(scalar \cup {"INVALID_TYPE"})
         [] OTHER ->
              FoldLeftDomain(LAMBDA done, i : CompilePredicateTarget(operations, predicate, done, i),
                  Failing(scalar \cup Unless(Cardinality({fixtures.matching, fixtures.false_or_null,
                                                          fixtures.duplicates}) = 3, "INVALID_PREDICATE")),
                  predicate.operations)

\* A predicate is about the operations that compiled.
CompilePredicateMappings(relation, operations) ==
    FoldLeft(LAMBDA compiled, predicate : CompilePredicate(relation, operations, compiled, predicate),
             [codes |-> {}, mappings |-> <<>>], Children(relation, "predicates"))

CompileAuthentication_Codes(manifest, relation) ==
    LET credential == FindCredential(manifest, Text(relation.auth, "credential"))
        Operation(operation) ==
            Unless(Contains(The(credential).destinations, Origin(operation)), "POLICY_WIDENING")
              \cup Unless(~(The(credential).kind = "api_key" /\ IsGraphql(operation)), "UNSUPPORTED_DECLARATION")
    IN CASE relation.auth.mode = "anonymous" -> {}
         [] relation.auth.mode # "anonymous" /\ credential = {} -> {"INVALID_REFERENCE"}
         [] OTHER -> Each(relation.operations, Operation)

CompileAuthentication(manifest, relation) ==
    LET credential == The(FindCredential(manifest, Text(relation.auth, "credential"))) IN
    IF relation.auth.mode = "anonymous"
    THEN [required |-> FALSE, field |-> "", authenticator |-> "none", placement |-> "none",
          placementName |-> "", destinations |-> <<>>]
    ELSE [required |-> TRUE, field |-> credential.secret_field, authenticator |-> credential.kind,
          placement |-> credential.placement,
          placementName |-> Text(credential, "header_name") \o Text(credential, "query_param"),
          destinations |-> credential.destinations]

CompileResources(relation) ==
    [pageBytes |-> relation.resources.max_response_bytes_per_page,
     scanBytes |-> relation.resources.max_response_bytes_per_scan,
     pageRecords |-> relation.resources.max_records_per_page,
     scanRecords |-> relation.resources.max_records_per_scan,
     stringBytes |-> relation.resources.max_extracted_string_bytes]

\* Whether the product of two numbers is a uint64.
Fits(a, b) == a <= MaxUnsigned \div b

\* How often one page can be asked for.
AttemptsPerPage(retry, rateLimit) ==
    IF retry.attempts > rateLimit.limits.attempts THEN retry.attempts
    ELSE IF rateLimit.limits.attempts > 0 THEN rateLimit.limits.attempts ELSE 1

CompileResources_Codes(relation) ==
    LET ceilings == CompileResources(relation)
        Disabled(operation) == ~IsGraphql(operation) /\ operation.pagination.strategy = "disabled"
        Pagination(operation) == IF IsGraphql(operation) THEN operation.request.pagination ELSE operation.pagination
        Pages(operation) == Pagination(operation).max_pages_per_scan
        Paged(operation) ==
            /\ Number(Pagination(operation), "page_size") <= ceilings.pageRecords
            /\ Fits(ceilings.pageRecords, Pages(operation)) /\ Fits(ceilings.pageBytes, Pages(operation))
            /\ ceilings.scanRecords <= ceilings.pageRecords * Pages(operation)
            /\ ceilings.scanBytes <= ceilings.pageBytes * Pages(operation)
        Bodies(operation) ==
            LET attempts == AttemptsPerPage(CompileRetry(operation), CompileRateLimit(operation))
                request == operation.request.max_serialized_body_bytes_per_request
                scan == operation.request.max_serialized_body_bytes_per_scan
            IN /\ Fits(Pages(operation), attempts) /\ Fits(request, Pages(operation) * attempts)
               /\ scan \in request..(request * Pages(operation) * attempts)
        Operation(operation) ==
            Unless(/\ operation.cardinality = "one" => {ceilings.pageRecords, ceilings.scanRecords} = {1}
                   /\ IF Disabled(operation)
                      THEN ceilings.scanBytes = ceilings.pageBytes /\ ceilings.scanRecords = ceilings.pageRecords
                      ELSE Paged(operation) /\ (IsGraphql(operation) => Bodies(operation)),
                   "POLICY_WIDENING")
    IN Unless(ceilings.scanBytes >= ceilings.pageBytes /\ ceilings.scanRecords >= ceilings.pageRecords,
              "POLICY_WIDENING")
         \cup Each(relation.operations, Operation)

CompileRelation_Codes(manifest, relation, predicates) ==
    CompileInputs_Codes(relation)
      \cup CompileOperations_Codes(relation)
      \cup predicates.codes
      \cup CompileAuthentication_Codes(manifest, relation)
      \cup CompileResources_Codes(relation)

CompileRelation(manifest, relation, operations, predicates) ==
    [name |-> relation.id, columns |-> CompileColumns(relation), inputs |-> CompileInputs(relation),
     operations |-> operations, predicates |-> predicates.mappings,
     auth |-> CompileAuthentication(manifest, relation), ceilings |-> CompileResources(relation)]

----------------------------------------------------------------------------
\* The package

ValidateManifestPolicy(package) ==
    LET allowed == package.manifest.network_policy.origins
        Within(origin) == Unless(Contains(allowed, origin), "POLICY_WIDENING")
        Relation(relation) ==
            Unless(relation.resources.max_response_bytes_per_page
                     <= package.manifest.network_policy.max_response_bytes, "POLICY_WIDENING")
              \cup Each(relation.operations, LAMBDA operation : Within(Origin(operation)))
    IN Each(Children(package.manifest, "credentials"), LAMBDA credential : Each(credential.destinations, Within))
         \cup Each(package.relations, Relation)

CompileConnector(package, relations) ==
    [name |-> package.manifest.id, version |-> package.manifest.version,
     relations |-> relations, origins |-> package.manifest.network_policy.origins,
     maxResponseBytes |-> package.manifest.network_policy.max_response_bytes]
=============================================================================
