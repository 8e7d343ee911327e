--------------------------- MODULE PackageSchema ---------------------------
(***************************************************************************)
(* The schema phase of the package compiler: what the decoders of          *)
(* src/src/connector/compiler/package_*_schema.cpp report about the YAML   *)
(* documents of a package.  A YAML mapping is a record whose domain is the *)
(* set of keys it has, a sequence is a sequence, a scalar a text, a number *)
(* or a literal.  Every decoder returns the set of diagnostic codes it     *)
(* adds; the declaration it builds is the mapping itself.                  *)
(***************************************************************************)
EXTENDS PackageText

Unless(condition, code) == IF condition THEN {} ELSE {code}

Has(node, key) == key \in DOMAIN node

Text(node, key) == IF Has(node, key) THEN node[key] ELSE ""

Number(node, key) == IF Has(node, key) THEN node[key] ELSE 0

Children(node, key) == IF Has(node, key) THEN node[key] ELSE <<>>

\* The codes one decoder adds over all the members of a sequence.
Each(sequence, Decode(_)) == UNION {Decode(sequence[i]) : i \in DOMAIN sequence}

RequireMapping(node, allowed, required) ==
    Unless(DOMAIN node \subseteq allowed, "UNKNOWN_FIELD")
      \cup Unless(required \subseteq DOMAIN node, "MISSING_FIELD")

Sequence(node, key, minimum, maximum) ==
    LET size == Len(Children(node, key)) IN
    IF ~Has(node, key) THEN {}
    ELSE Unless(size <= maximum, "RESOURCE_EXHAUSTED") \cup Unless(size >= minimum, "INVALID_TYPE")

RequireValue(node, key, expected, code) == Unless(Text(node, key) = expected, code)

RequireIdentifier(t) == Unless(IsIdentifier(t), "INVALID_IDENTIFIER")

RequireGraphqlName(t) == Unless(IsGraphqlName(t), "INVALID_GRAPHQL_PROFILE")

Absent(node, keys) == Unless(DOMAIN node \cap keys = {}, "UNKNOWN_FIELD")

Present(node, keys) == Unless(keys \subseteq DOMAIN node, "MISSING_FIELD")

NoDuplicates(sequence, code) == Unless(IsInjective(sequence), code)

Ids(sequence) == [i \in DOMAIN sequence |-> Text(sequence[i], "id")]

ScalarTypes == {"BOOLEAN", "BIGINT", "VARCHAR", "DOUBLE", "TIMESTAMPTZ"}

----------------------------------------------------------------------------
\* connector.yaml

DecodeOrigin(origin) ==
    RequireMapping(origin, {"scheme", "host", "port"}, {"scheme", "host", "port"})
      \cup RequireValue(origin, "scheme", "https", "UNSUPPORTED_DECLARATION")
      \cup Unless(IsCanonicalHost(Children(origin, "host")), "INVALID_TYPE")
      \cup Unless(Number(origin, "port") \in 1..65535, "INVALID_TYPE")

DecodeOrigins(node, key) ==
    Sequence(node, key, 1, 64)
      \cup Each(Children(node, key), DecodeOrigin)
      \cup NoDuplicates(Children(node, key), "DUPLICATE_ID")

DecodeCredential(credential) ==
    LET kind == Text(credential, "kind")
        placement == Text(credential, "placement")
        NamedBy(key, other, IsName(_)) ==
            Present(credential, {key}) \cup Absent(credential, {other})
              \cup Unless(Has(credential, key) => IsName(credential[key]), "UNSUPPORTED_DECLARATION")
    IN
    RequireMapping(credential,
        {"id", "kind", "secret_field", "placement", "header_name", "query_param", "destinations"},
        {"id", "kind", "secret_field", "placement", "destinations"})
      \cup DecodeOrigins(credential, "destinations")
      \cup RequireIdentifier(Text(credential, "id"))
      \cup RequireValue(credential, "secret_field", "token", "UNSUPPORTED_DECLARATION")
      \cup CASE kind = "bearer" ->
                  RequireValue(credential, "placement", "authorization_header", "UNSUPPORTED_DECLARATION")
                    \cup Absent(credential, {"header_name", "query_param"})
             [] kind = "api_key" /\ placement = "header" ->
                  NamedBy("header_name", "query_param", IsHeaderName)
             [] kind = "api_key" /\ placement = "query" ->
                  NamedBy("query_param", "header_name", IsQueryName)
             [] OTHER -> {"UNSUPPORTED_DECLARATION"}

AddressPolicies == {"redirects", "private_addresses", "link_local_addresses", "loopback_addresses"}

DecodeNetworkPolicy(policy) ==
    LET fields == AddressPolicies \cup {"origins", "max_response_bytes"} IN
    RequireMapping(policy, fields, fields)
      \cup DecodeOrigins(policy, "origins")
      \cup UNION {RequireValue(policy, key, "deny", "POLICY_WIDENING") : key \in AddressPolicies}
      \cup Unless(IsCanonicalUnsigned(Number(policy, "max_response_bytes")), "INVALID_TYPE")

DecodeManifestSchema(manifest) ==
    LET required == {"api_version", "kind", "id", "version", "extractor_dialect",
                     "network_policy", "relations"} IN
    RequireMapping(manifest, required \cup {"credentials"}, required)
      \cup DecodeNetworkPolicy(Children(manifest, "network_policy"))
      \cup Sequence(manifest, "relations", 1, 64)
      \cup RequireValue(manifest, "api_version", "cuac/v1", "UNSUPPORTED_SPEC")
      \cup RequireValue(manifest, "kind", "connector", "UNSUPPORTED_DECLARATION")
      \cup RequireIdentifier(Text(manifest, "id"))
      \cup Unless(Len(Children(manifest, "version")) = 3, "INVALID_TYPE")
      \cup RequireValue(manifest, "extractor_dialect", "cuac/json_path_v1", "UNSUPPORTED_DIALECT")
      \cup Each(Children(manifest, "relations"), RequireIdentifier)
      \cup NoDuplicates(Children(manifest, "relations"), "DUPLICATE_ID")
      \cup Sequence(manifest, "credentials", 0, 64)
      \cup Each(Children(manifest, "credentials"), DecodeCredential)
      \cup NoDuplicates(Ids(Children(manifest, "credentials")), "DUPLICATE_ID")

----------------------------------------------------------------------------
\* relations/<id>.yaml: columns, inputs, authentication and resources

DecodeColumn(column) ==
    LET array == Text(column, "type") = "ARRAY" IN
    RequireMapping(column,
        {"id", "type", "element_type", "element_nullable", "nullable", "extract"},
        {"id", "type", "nullable", "extract"})
      \cup RequireIdentifier(Text(column, "id"))
      \cup (IF array
            THEN Present(column, {"element_type", "element_nullable"})
                   \cup Unless(Text(column, "element_type") \in ScalarTypes, "INVALID_TYPE")
                   \cup Unless(IsPlainBoolean(Text(column, "element_nullable")), "INVALID_TYPE")
            ELSE Unless(Text(column, "type") \in ScalarTypes, "INVALID_TYPE")
                   \cup Absent(column, {"element_type", "element_nullable"}))
      \cup Unless(IsPlainBoolean(Text(column, "nullable")), "INVALID_TYPE")
      \cup Unless(Has(column, "extract") => IsExtractor(column.extract, FALSE), "INVALID_EXTRACTOR")

DecodeDefault(default) ==
    RequireMapping(default, {"kind", "value"}, {"kind"})
      \cup CASE Text(default, "kind") = "null" -> Absent(default, {"value"})
             [] Text(default, "kind") = "value" -> Present(default, {"value"})
             [] OTHER -> {"INVALID_TYPE"}

DecodeInput(input) ==
    RequireMapping(input, {"id", "type", "nullable", "default"}, {"id", "type", "nullable"})
      \cup (IF Has(input, "default") THEN DecodeDefault(input.default) ELSE {})
      \cup RequireIdentifier(Text(input, "id"))
      \cup Unless(Text(input, "id") # "secret", "RESERVED_INPUT")
      \cup Unless(Text(input, "type") \in ScalarTypes, "INVALID_TYPE")
      \cup Unless(IsPlainBoolean(Text(input, "nullable")), "INVALID_TYPE")

DecodeAuth(auth) ==
    RequireMapping(auth, {"mode", "credential"}, {"mode"})
      \cup CASE Text(auth, "mode") = "anonymous" -> Absent(auth, {"credential"})
             [] Text(auth, "mode") = "credential" ->
                  Present(auth, {"credential"}) \cup RequireIdentifier(Text(auth, "credential"))
             [] OTHER -> {"UNSUPPORTED_DECLARATION"}

Ceilings == {"max_response_bytes_per_page", "max_response_bytes_per_scan",
             "max_records_per_page", "max_records_per_scan", "max_extracted_string_bytes"}

DecodeResources(resources) ==
    RequireMapping(resources, Ceilings, Ceilings)
      \cup UNION {Unless(IsCanonicalUnsigned(Number(resources, key)), "INVALID_TYPE") : key \in Ceilings}

DecodePredicateSchema(predicate) ==
    LET fields == {"id", "column", "operator", "literal", "conditional_input", "operations",
                   "accuracy", "occurrence_fixtures"}
        fixtures == Children(predicate, "occurrence_fixtures")
        literal == Children(predicate, "literal")
        roles == {"matching", "false_or_null", "duplicates"}
    IN
    RequireMapping(predicate, fields, fields)
      \cup RequireMapping(literal, {"type", "value"}, {"type", "value"})
      \cup RequireMapping(fixtures, roles, roles)
      \cup UNION {RequireIdentifier(Text(predicate, key)) : key \in {"id", "column", "conditional_input"}}
      \cup UNION {RequireIdentifier(Text(fixtures, key)) : key \in roles}
      \cup Sequence(predicate, "operations", 1, 64)
      \cup Each(Children(predicate, "operations"), RequireIdentifier)
      \cup RequireValue(predicate, "operator", "eq", "UNSUPPORTED_DECLARATION")
      \cup Unless(Text(literal, "type") \in ScalarTypes, "INVALID_TYPE")
      \cup Unless(Text(predicate, "accuracy") \in {"exact", "superset"}, "INVALID_PREDICATE")

----------------------------------------------------------------------------
\* relations/<id>.yaml: operations

DecodeSelector(operation) ==
    LET when == Children(operation, "when") IN
    CASE Has(operation, "fallback") ->
           Unless(operation.fallback = "true" /\ ~Has(operation, "when"), "INVALID_SELECTOR")
      [] ~Has(operation, "fallback") /\ ~Has(operation, "when") -> {"INVALID_SELECTOR"}
      [] OTHER -> RequireMapping(when, {"required_inputs"}, {"required_inputs"})
                    \cup Sequence(when, "required_inputs", 1, 128)

WaitLimits == {"max_attempts_per_step", "max_delay_milliseconds",
               "max_cumulative_waiting_milliseconds_per_scan"}

DecodeRetry(retry) ==
    RequireMapping(retry, WaitLimits, WaitLimits)
      \cup Unless(/\ Number(retry, "max_attempts_per_step") \in 2..3
                  /\ Number(retry, "max_delay_milliseconds") \in 1..100
                  /\ Number(retry, "max_cumulative_waiting_milliseconds_per_scan") \in 1..250,
                  "UNSUPPORTED_DECLARATION")

DecodeRateLimitGuidance(guidance) ==
    RequireMapping(guidance, {"header", "format"}, {"header", "format"})
      \cup Unless(IsRateLimitHeaderName(Text(guidance, "header")), "UNSUPPORTED_DECLARATION")
      \cup Unless(Text(guidance, "format") \in {"retry_after", "delta_seconds", "unix_seconds"},
                  "UNSUPPORTED_DECLARATION")

DecodeRateLimitHeaderRole(role) ==
    RequireMapping(role, {"header"}, {"header"})
      \cup Unless(IsRateLimitHeaderName(Text(role, "header")), "UNSUPPORTED_DECLARATION")

\* The headers a policy reads, one per role.
RateLimitHeaders(rateLimit) ==
    LET guidance == Children(rateLimit, "guidance")
        Role(key) == IF Has(rateLimit, key) THEN <<Text(rateLimit[key], "header")>> ELSE <<>>
    IN [i \in DOMAIN guidance |-> Text(guidance[i], "header")] \o Role("remaining") \o Role("remote_bucket")

DecodeRateLimit(rateLimit) ==
    LET required == {"statuses", "mode", "operation_family", "principal_scope"}
        waiting == WaitLimits \cup {"guidance"}
        roles == {"remaining", "remote_bucket"}
        mode == Text(rateLimit, "mode")
        Status(status) == Unless(status \in (400..599) \ {401, 403, 407}, "UNSUPPORTED_DECLARATION")
    IN
    RequireMapping(rateLimit, required \cup waiting \cup roles, required)
      \cup Sequence(rateLimit, "statuses", 1, 8)
      \cup Each(Children(rateLimit, "statuses"), Status)
      \cup NoDuplicates(Children(rateLimit, "statuses"), "DUPLICATE_ID")
      \cup Unless(mode \in {"fail", "wait", "wait_if_deadline_allows"}, "UNSUPPORTED_DECLARATION")
      \cup Unless(IsRateLimitOperationFamily(Text(rateLimit, "operation_family")), "INVALID_IDENTIFIER")
      \cup Unless(Text(rateLimit, "principal_scope") \in {"credential_authority", "shared"},
                  "UNSUPPORTED_DECLARATION")
      \cup Sequence(rateLimit, "guidance", 1, 4)
      \cup Each(Children(rateLimit, "guidance"), DecodeRateLimitGuidance)
      \cup UNION {DecodeRateLimitHeaderRole(rateLimit[key]) : key \in roles \cap DOMAIN rateLimit}
      \cup NoDuplicates(RateLimitHeaders(rateLimit), "DUPLICATE_ID")
      \cup CASE mode = "fail" ->
                  Unless(DOMAIN rateLimit \cap (waiting \cup roles) = {}, "UNSUPPORTED_DECLARATION")
             [] mode \in {"wait", "wait_if_deadline_allows"} ->
                  Present(rateLimit, waiting)
                    \cup Unless(/\ Number(rateLimit, "max_attempts_per_step") \in 2..3
                                /\ Number(rateLimit, "max_delay_milliseconds") \in 1..30000
                                /\ Number(rateLimit, "max_cumulative_waiting_milliseconds_per_scan")
                                      \in 1..30000,
                                "UNSUPPORTED_DECLARATION")
             [] OTHER -> {}

----------------------------------------------------------------------------
\* relations/<id>.yaml: requests

DecodeHeader(header) ==
    RequireMapping(header, {"name", "value"}, {"name", "value"})
      \cup Unless(IsHeaderName(Text(header, "name")) /\ IsHeaderValue(Text(header, "value")),
                  "UNSUPPORTED_DECLARATION")

DecodeHttpHeaders(request) ==
    Sequence(request, "headers", 0, 32) \cup Each(Children(request, "headers"), DecodeHeader)

DecodePathSegment(segment) ==
    RequireMapping(segment, {"literal", "input", "encoding"}, {})
      \cup Unless(Has(segment, "literal") # Has(segment, "input"), "INVALID_TYPE")
      \cup (IF Has(segment, "literal")
            THEN Absent(segment, {"encoding"})
                   \cup Unless(IsLiteralPathSegment(segment.literal), "POLICY_WIDENING")
            ELSE RequireIdentifier(Text(segment, "input"))
                   \cup RequireValue(segment, "encoding", "rfc3986_percent_encoded",
                                     "UNSUPPORTED_DECLARATION"))

\* A query field has exactly one source; only a field fed by an input may be omitted.
DecodeQueryField(field) ==
    LET sources == {"literal", "input", "conditional_input"} \cap DOMAIN field
        omits == {"omit_when_unbound", "omit_when_null"}
        Omits(key) == RequireValue(field, key, "true", "UNSUPPORTED_DECLARATION")
    IN
    RequireMapping(field, {"name", "literal", "input", "conditional_input", "encoding"} \cup omits,
                   {"name", "encoding"})
      \cup Unless(Cardinality(sources) = 1, "INVALID_TYPE")
      \cup (CASE Has(field, "literal") ->
                   RequireMapping(field.literal, {"type", "value"}, {"type", "value"}) \cup Absent(field, omits)
              [] ~Has(field, "literal") /\ Has(field, "input") ->
                   RequireIdentifier(field.input) \cup Omits("omit_when_unbound") \cup Omits("omit_when_null")
              [] OTHER ->
                   RequireIdentifier(Text(field, "conditional_input"))
                     \cup Omits("omit_when_unbound") \cup Absent(field, {"omit_when_null"}))
      \cup Unless(IsQueryName(Text(field, "name")), "UNSUPPORTED_DECLARATION")
      \cup RequireValue(field, "encoding", "form_urlencoded", "UNSUPPORTED_DECLARATION")

DecodeRestRequestSchema(request) ==
    LET required == {"protocol", "method", "origin", "query", "headers"} IN
    RequireMapping(request, required \cup {"path", "path_segments"}, required)
      \cup DecodeOrigin(Children(request, "origin"))
      \cup DecodeHttpHeaders(request)
      \cup RequireValue(request, "protocol", "rest", "UNSUPPORTED_DECLARATION")
      \cup RequireValue(request, "method", "GET", "UNSUPPORTED_DECLARATION")
      \cup Unless(Has(request, "path") # Has(request, "path_segments"), "INVALID_TYPE")
      \cup Unless(Has(request, "path") /\ ~Has(request, "path_segments") => IsFixedPath(request.path),
                  "POLICY_WIDENING")
      \cup Sequence(request, "path_segments", 1, 64)
      \cup Each(Children(request, "path_segments"), DecodePathSegment)
      \cup Sequence(request, "query", 0, 64)
      \cup Each(Children(request, "query"), DecodeQueryField)

DecodeRestResponseSchema(response) ==
    RequireMapping(response, {"source", "records"}, {"source"})
      \cup CASE Text(response, "source") = "terminal_collection" ->
                  Present(response, {"records"})
                    \cup Unless(Has(response, "records") => IsExtractor(response.records, TRUE),
                                "INVALID_EXTRACTOR")
             [] Text(response, "source") \in {"root_object", "root_array"} -> Absent(response, {"records"})
             [] OTHER -> {"UNSUPPORTED_DECLARATION"}

PageSizeFields == {"page_size_parameter", "page_size"}
PageNumberFields == {"page_number_parameter", "first_page", "page_increment", "max_pages_per_scan"}
SequenceFields == {"dependency", "consistency", "target_scope"}

\* page_size_parameter and page_size are optional and independent of each other,
\* except under short_page.
DecodeRestPaginationSchema(pagination) ==
    LET strategy == Text(pagination, "strategy")
        fields == PageSizeFields \cup PageNumberFields \cup SequenceFields \cup {"next_url_path"}
    IN
    RequireMapping(pagination, fields \cup {"strategy"}, {"strategy"})
      \cup IF strategy = "disabled" THEN Absent(pagination, fields)
           ELSE (CASE strategy = "response_next" ->
                        Present(pagination, {"next_url_path"})
                          \cup Unless(Has(pagination, "next_url_path")
                                        => IsExtractor(pagination.next_url_path, FALSE), "INVALID_TYPE")
                   [] strategy \in {"short_page", "link_next"} -> Absent(pagination, {"next_url_path"})
                   [] OTHER -> {"UNSUPPORTED_DECLARATION"} \cup Absent(pagination, {"next_url_path"}))
                \cup Present(pagination, PageNumberFields \cup SequenceFields)
                \cup (IF strategy = "short_page" THEN Present(pagination, PageSizeFields) ELSE {})
                \cup RequireValue(pagination, "dependency", "sequential", "UNSUPPORTED_DECLARATION")
                \cup RequireValue(pagination, "consistency", "mutable", "UNSUPPORTED_DECLARATION")
                \cup RequireValue(pagination, "target_scope", "exact_operation_origin_and_path",
                                  "POLICY_WIDENING")
                \cup Unless(Has(pagination, "page_size_parameter")
                              => IsQueryName(pagination.page_size_parameter), "INVALID_TYPE")
                \cup Unless(IsQueryName(Text(pagination, "page_number_parameter")), "INVALID_TYPE")
                \cup Unless(Has(pagination, "page_size") => IsCanonicalUnsigned(pagination.page_size),
                            "INVALID_TYPE")
                \cup UNION {Unless(IsCanonicalUnsigned(Number(pagination, key)), "INVALID_TYPE") :
                              key \in PageNumberFields \ {"page_number_parameter"}}

\* A literal argument: one of seven kinds, to a depth of 32.
RECURSIVE DecodeLiteral(_, _)
DecodeLiteral(literal, depth) ==
    LET kinds == {"null", "boolean", "integer", "string", "enum", "list", "object"} \cap DOMAIN literal
        Item(item) == DecodeLiteral(item, depth + 1)
        Field(field) == RequireMapping(field, {"name", "value"}, {"name", "value"})
                          \cup RequireGraphqlName(Text(field, "name"))
                          \cup IF Has(field, "value") THEN DecodeLiteral(field.value, depth + 1) ELSE {}
    IN
    IF depth > 32 THEN {"INVALID_GRAPHQL_PROFILE"}
    ELSE IF Cardinality(kinds) # 1 \/ DOMAIN literal # kinds THEN {"INVALID_TYPE"}
    ELSE CASE kinds = {"list"} -> Sequence(literal, "list", 0, 4096) \cup Each(literal.list, Item)
           [] kinds = {"object"} -> Sequence(literal, "object", 0, 4096) \cup Each(literal.object, Field)
           [] kinds = {"null"} -> RequireValue(literal, "null", "true", "INVALID_TYPE")
           [] kinds = {"boolean"} -> Unless(IsPlainBoolean(literal.boolean), "INVALID_TYPE")
           [] kinds = {"integer"} -> Unless("BIGINT" \in DOMAIN literal.integer.value, "INVALID_TYPE")
           [] kinds = {"string"} -> Unless(literal.string.quoted, "INVALID_TYPE")
           [] OTHER -> RequireGraphqlName(literal.enum)

DecodeQuery(query) ==
    LET fields == {"operation_name", "root", "fixed_arguments", "selection"}
        Argument(argument) ==
            RequireMapping(argument, {"name", "value"}, {"name", "value"})
              \cup RequireGraphqlName(Text(argument, "name"))
              \cup IF Has(argument, "value") THEN DecodeLiteral(argument.value, 1) ELSE {}
        Selection(selection) ==
            RequireMapping(selection, {"column", "field_path"}, {"column", "field_path"})
              \cup RequireIdentifier(Text(selection, "column"))
              \cup Sequence(selection, "field_path", 1, 2)
              \cup Each(Children(selection, "field_path"), RequireGraphqlName)
    IN
    RequireMapping(query, fields, fields)
      \cup RequireGraphqlName(Text(query, "operation_name"))
      \cup Sequence(query, "root", 1, 16) \cup Each(Children(query, "root"), RequireGraphqlName)
      \cup Sequence(query, "fixed_arguments", 0, 64) \cup Each(Children(query, "fixed_arguments"), Argument)
      \cup Sequence(query, "selection", 1, 256) \cup Each(Children(query, "selection"), Selection)

CursorNames == {"page_size_argument", "page_size_variable", "cursor_argument", "cursor_variable",
                "page_info_field", "has_next_page_field", "end_cursor_field"}

DecodeCursorPagination(pagination) ==
    LET fields == CursorNames \cup {"strategy", "dependency", "consistency", "page_size",
                                    "max_pages_per_scan", "max_concurrent_pages"} IN
    RequireMapping(pagination, fields, fields)
      \cup RequireValue(pagination, "strategy", "relay_forward", "UNSUPPORTED_DECLARATION")
      \cup RequireValue(pagination, "dependency", "sequential", "UNSUPPORTED_DECLARATION")
      \cup RequireValue(pagination, "consistency", "mutable", "UNSUPPORTED_DECLARATION")
      \cup Unless(Number(pagination, "max_concurrent_pages") = 1, "POLICY_WIDENING")
      \cup UNION {RequireGraphqlName(Text(pagination, key)) : key \in CursorNames}
      \cup Unless(/\ IsCanonicalUnsigned(Number(pagination, "page_size"))
                  /\ IsCanonicalUnsigned(Number(pagination, "max_pages_per_scan")), "INVALID_TYPE")

GraphqlLimits == {"max_document_bytes", "max_serialized_body_bytes_per_request",
                  "max_serialized_body_bytes_per_scan"}

DecodeGraphqlRequestSchema(request) ==
    LET fields == GraphqlLimits \cup {"protocol", "endpoint", "headers", "query", "pagination", "partial_data"}
        endpoint == Children(request, "endpoint")
    IN
    RequireMapping(request, fields, fields)
      \cup RequireMapping(endpoint, {"origin", "path"}, {"origin", "path"})
      \cup DecodeOrigin(Children(endpoint, "origin"))
      \cup DecodeHttpHeaders(request)
      \cup DecodeQuery(Children(request, "query"))
      \cup DecodeCursorPagination(Children(request, "pagination"))
      \cup RequireValue(request, "protocol", "graphql", "UNSUPPORTED_DECLARATION")
      \cup RequireValue(request, "partial_data", "fail_on_any_error", "UNSUPPORTED_DECLARATION")
      \cup Unless(Has(endpoint, "path") => IsFixedPath(endpoint.path), "POLICY_WIDENING")
      \cup UNION {Unless(IsCanonicalUnsigned(Number(request, key)), "INVALID_TYPE") : key \in GraphqlLimits}

IsGraphql(operation) == Text(Children(operation, "request"), "protocol") = "graphql"

DecodeOperationSchema(operation) ==
    LET required == {"id", "cardinality", "replay_safety", "request"} IN
    RequireMapping(operation,
        required \cup {"fallback", "when", "retry", "rate_limit", "response", "pagination"}, required)
      \cup (IF Has(operation, "retry") THEN DecodeRetry(operation.retry) ELSE {})
      \cup (IF Has(operation, "rate_limit") THEN DecodeRateLimit(operation.rate_limit) ELSE {})
      \cup DecodeSelector(operation)
      \cup RequireIdentifier(Text(operation, "id"))
      \cup RequireValue(operation, "replay_safety", "safe", "UNSUPPORTED_DECLARATION")
      \cup IF IsGraphql(operation)
           THEN Absent(operation, {"response", "pagination"})
                  \cup RequireValue(operation, "cardinality", "many", "UNSUPPORTED_DECLARATION")
                  \cup DecodeGraphqlRequestSchema(operation.request)
           ELSE Present(operation, {"response", "pagination"})
                  \cup Unless(Text(operation, "cardinality") \in {"one", "many"}, "UNSUPPORTED_DECLARATION")
                  \cup DecodeRestRequestSchema(Children(operation, "request"))
                  \cup DecodeRestResponseSchema(Children(operation, "response"))
                  \cup DecodeRestPaginationSchema(Children(operation, "pagination"))

\* The members' own codes are those of Each with the decoder of the sequence.
DecodeUniqueSequence(node, key, minimum, maximum) ==
    Sequence(node, key, minimum, maximum) \cup NoDuplicates(Ids(Children(node, key)), "DUPLICATE_ID")

DecodeRelationSchema(relation, specIdentifier) ==
    LET required == {"api_version", "kind", "id", "schema", "columns", "auth", "resources", "operations"} IN
    RequireMapping(relation, required \cup {"inputs", "predicates"}, required)
      \cup DecodeAuth(Children(relation, "auth"))
      \cup DecodeResources(Children(relation, "resources"))
      \cup Unless({Text(relation, "api_version"), specIdentifier} = {"cuac/v1"}, "UNSUPPORTED_SPEC")
      \cup RequireValue(relation, "kind", "relation", "UNSUPPORTED_DECLARATION")
      \cup RequireIdentifier(Text(relation, "id"))
      \cup RequireValue(relation, "schema", "static", "UNSUPPORTED_DECLARATION")
      \cup DecodeUniqueSequence(relation, "columns", 1, 256) \cup Each(Children(relation, "columns"), DecodeColumn)
      \cup DecodeUniqueSequence(relation, "inputs", 0, 128) \cup Each(Children(relation, "inputs"), DecodeInput)
      \cup DecodeUniqueSequence(relation, "operations", 1, 64) \cup Each(Children(relation, "operations"), DecodeOperationSchema)
      \cup DecodeUniqueSequence(relation, "predicates", 0, 64) \cup Each(Children(relation, "predicates"), DecodePredicateSchema)

\* The manifest lists the relation documents that the snapshot holds, in order.
DecodePackageSchema(package) ==
    DecodeManifestSchema(package.manifest)
      \cup Unless(Len(Children(package.manifest, "relations")) = Len(package.relations), "PACKAGE_IDENTITY")
      \cup UNION {DecodeRelationSchema(package.relations[i], Text(package.manifest, "api_version"))
                    \cup Unless(Text(package.relations[i], "id") = package.manifest.relations[i],
                                "INVALID_REFERENCE") :
                    i \in DOMAIN package.relations \cap DOMAIN Children(package.manifest, "relations")}
=============================================================================
