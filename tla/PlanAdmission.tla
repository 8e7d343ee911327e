--------------------------- MODULE PlanAdmission ---------------------------
(***************************************************************************)
(* What Runtime admits and the request it makes of it                      *)
(* (src/src/runtime/admission/, src/src/runtime/policy/ and                *)
(* src/src/runtime/executor/rest_request_materialization.cpp).  Runtime    *)
(* takes nothing in a plan on trust: every text, budget and identity is    *)
(* checked again, and a plan that fails one check is refused.              *)
(***************************************************************************)
EXTENDS ScanPlanner

\* The profile of the installed executor; an operator's may only be narrower.
InstalledProfile ==
    [host |-> <<>>, port |-> 0, records |-> 100,
     retry |-> [attempts |-> 3, scanAttempts |-> 96, delay |-> 100, waiting |-> 250],
     rateLimit |-> [attempts |-> 3, scanAttempts |-> 96, delay |-> 30000, waiting |-> 30000],
     combined |-> 30000]

----------------------------------------------------------------------------
\* Texts (request_validation.cpp)

\* One to four numeric labels: what a resolver would take for an address.
IsIpv4Literal(host) == Len(host) <= 4 /\ All(host, LAMBDA label : Shape[label].number)

IsSafeDnsHost(host) == IsCanonicalHost(host) /\ ~IsIpv4Literal(host)

IsSafeRequestPath(path) ==
    /\ JoinedSize(path.segments) <= 2048
    /\ path.rooted
    /\ path.segments # <<>> => ~path.trailing
    /\ All(path.segments, LAMBDA s : Size(s) > 0 /\ s \notin {".", ".."} /\ Made(s, Unreserved))

\* The same for a path of encoded segments.
IsSafeEncodedPath(path) ==
    /\ PathBytes(path) <= 2048
    /\ All(path, LAMBDA segment :
           /\ segment.encoded # <<>> /\ segment.v \notin {".", ".."}
           /\ All(segment.encoded, LAMBDA s :
                  IF s.escaped THEN s.class \notin Unreserved \cup Controls \cup {"slash"} ELSE s.class \in Unreserved))

IsSafeEncodedQueryName(t) == Size(t) \in 1..63 /\ Made(t, Unreserved)

IsSafeEncodedQueryValue(t, encoded) ==
    /\ EncodedSize(t, encoded) <= 8192
    /\ All(encoded, LAMBDA s :
           IF s.escaped THEN s.class \notin Unreserved \cup Controls \cup {"space"}
           ELSE s.class \in Unreserved \/ s.c = "+")

IsSafeLogicalId(t) == IsIdentifier(t)

IsRestPathSegment(t) ==
    Size(t) > 0 /\ Shape[t].first \in Letter \cup {"underscore"} /\ Made(t, Alphanumeric \cup {"underscore"})

\* The path of a column, and of a collection, whose spelling is three characters longer.
IsSafeRestExtractPath(path) == path # <<>> /\ All(path, IsRestPathSegment) /\ 1 + JoinedSize(path) <= 1024

IsSafeRestCollectionPath(path) == path # <<>> /\ All(path, IsRestPathSegment) /\ 4 + JoinedSize(path) <= 1027

IsSafeGraphqlPath(path, shortest, longest) == Len(path) \in shortest..longest /\ All(path, IsGraphqlName)

IsSignedBigintPageSequence(firstPage, pageIncrement, pages) ==
    pages > 0 /\ pageIncrement > 0 /\ FitsBigintPageSequence(firstPage, pageIncrement, pages)

\* Only GraphQL declares a content type.  Every field has four bytes of framing.
TryCopyFixedHeaders(headers, graphql, limit) ==
    LET content == SelectSeq(headers, LAMBDA h : Shape[h.name].folded = "content-type") IN
    /\ Len(headers) <= 32
    /\ All(headers, LAMBDA h : IsHeaderName(h.name) /\ IsHeaderValue(h.value))
    /\ Unique(headers, LAMBDA h : Shape[h.name].folded)
    /\ (content # <<>>) = graphql /\ All(content, LAMBDA h : h.value = "application/json")
    /\ All(headers, LAMBDA h : ~ReservedHeader(h.name, FALSE))
    /\ FoldSeq(LAMBDA h, n : n + Size(h.name) + Size(h.value) + 4, 0, headers) <= limit

IsOriginAllowedByExecutionProfile(origin, profile) ==
    /\ origin.scheme = "https" /\ IsSafeDnsHost(origin.host) /\ origin.port > 0
    /\ profile.host # <<>> => origin.host = profile.host /\ origin.port = profile.port

\* The plan's only destination is that of its operation.
HasExactNetworkCapability(plan, profile) ==
    IsOriginAllowedByExecutionProfile(plan.operation.origin, profile) /\ plan.origin = plan.operation.origin

----------------------------------------------------------------------------
\* Retries and waiting (retry_policy_admission.hpp and rate_limit_policy_admission.hpp)

PagesOf(plan) == IF plan.pagination.strategy = "disabled" THEN 1 ELSE plan.scanBudgets.pages

NoWait == [attempts |-> 1, delay |-> 0, waiting |-> 0]

\* Waits that are too narrow to be of use are none.
Narrowed(planned, limits) ==
    LET least == [field \in {"attempts", "delay", "waiting"} |-> Min({planned[field], limits[field]})] IN
    IF least.attempts <= 1 \/ least.delay = 0 \/ least.waiting = 0 THEN NoWait ELSE least

\* The admitted retries as a set of at most one.
TryAdmitRetryPolicy(plan, profile) ==
    LET planned == plan.retry
        pages == PagesOf(plan)
        least == IF planned.attempts > 1 THEN Narrowed(planned, profile.retry) ELSE NoWait
        shape == IF plan.pagination.strategy # "disabled" /\ pages <= 96 \div least.attempts
                 THEN pages * least.attempts ELSE least.attempts
        scan == Min({planned.scanAttempts, profile.retry.scanAttempts}
                    \cup (IF planned.attempts > 1 THEN {shape} ELSE {}))
    IN IF scan >= pages THEN {least @@ [scanAttempts |-> scan]} ELSE {}

TryAdmitRateLimitPolicy(plan, profile) ==
    LET planned == plan.rateLimit
        pages == PagesOf(plan)
        silent == \/ planned.mode = "fail" \/ profile.combined = 0
                  \/ \E field \in DOMAIN profile.rateLimit : profile.rateLimit[field] = 0
        least == IF silent THEN NoWait ELSE Narrowed(planned.limits, profile.rateLimit)
        scan == IF least = NoWait THEN 1 ELSE Min({profile.rateLimit.scanAttempts, pages * least.attempts})
    IN IF least # NoWait /\ pages > 96 \div least.attempts THEN {}
       ELSE {least @@ [scanAttempts |-> scan, enabled |-> least # NoWait /\ scan >= pages]}

\* Fault: the operator's cap on all waiting is forgotten.
TryAdmitResiliencePoliciesUncapped(plan, profile) ==
    UNION {{[retry |-> retry, rateLimit |-> rate,
             attempts |-> Max({retry.attempts, rate.attempts}),
             scanAttempts |-> Max({retry.scanAttempts, rate.scanAttempts}),
             waiting |-> retry.waiting + rate.waiting] : rate \in TryAdmitRateLimitPolicy(plan, profile)} :
                 retry \in TryAdmitRetryPolicy(plan, profile)}

\* The two policies share the attempts and the waiting time the plan gives the scan.
TryAdmitResiliencePolicies(plan, profile) ==
    LET planned == plan.resilience
        pages == PagesOf(plan)
        Combined(retry, rate) ==
            Min({retry.waiting + rate.waiting, IF profile.combined = 0 THEN retry.waiting ELSE profile.combined})
        Policy(retry, rate) ==
            [retry |-> retry, rateLimit |-> rate,
             attempts |-> Max({retry.attempts, rate.attempts}),
             scanAttempts |-> Max({retry.scanAttempts, rate.scanAttempts}),
             waiting |-> Combined(retry, rate)]
        policies == UNION {{Policy(retry, rate) : rate \in TryAdmitRateLimitPolicy(plan, profile)} :
                              retry \in TryAdmitRetryPolicy(plan, profile)}
    IN {p \in policies :
          /\ ResilienceWithinHardBounds(plan)
          /\ p.scanAttempts \in pages..planned.scanAttempts
          /\ profile.combined # 0 => p.retry.waiting <= profile.combined
          /\ p.waiting <= planned.waiting}

----------------------------------------------------------------------------
\* The REST request (rest_request_materialization.cpp)

\* Runtime spells a value again and compares; its encoder is its own.
RuntimeFormUrlEncode(t) ==
    Map(Symbols(t), LAMBDA s : CASE s.class \in Unreserved -> Plain(s)
                                 [] s.class = "space" -> Plain(Plus)
                                 [] OTHER -> Escaped(s))

IsSafeRawPathValue(t) == ValidatePathValue(t)

TryCopyPermanentPath(operation) ==
    LET inputs == SelectSeq(operation.path, LAMBDA s : s.source = "RELATION_INPUT") IN
    /\ Len(operation.path) <= 64 /\ Len(operation.contract) = Len(operation.path)
    /\ \A i \in DOMAIN operation.path :
          LET contract == operation.contract[i]
              segment == operation.path[i]
          IN /\ contract.source = segment.source /\ contract.type = segment.type
             /\ IF segment.source = "LITERAL"
                THEN segment.id = "" /\ IsLiteralPathSegment(segment.v) /\ contract.value = segment.v
                       /\ segment.encoded = Map(Symbols(segment.v), Plain)
                ELSE contract.value = segment.id /\ IsSafeLogicalId(segment.id) /\ IsSafeRawPathValue(segment.v)
                       /\ segment.encoded = PercentEncodePathSegment(segment.v)
    /\ Unique(inputs, LAMBDA s : s.id)
    /\ IsSafeEncodedPath(operation.path)

\* The conditional field carries the admitted equality; authority is a set of at most one.
MatchesConditionalAuthority(binding, authority) ==
    \E equality \in authority :
        equality.input = binding.id /\ equality.type = binding.type /\ equality.v = binding.v

HasCanonicalBinding(binding, authority) ==
    /\ IsSafeEncodedQueryName(binding.name) /\ IsSafeEncodedQueryValue(binding.v, binding.encoded)
    /\ CASE binding.source = "RELATION_INPUT" -> binding.id # ""
         [] binding.source = "CONDITIONAL_INPUT" -> MatchesConditionalAuthority(binding, authority)
         [] OTHER -> binding.id = ""
    /\ binding.encoded = IF binding.type = "DOUBLE" THEN Map(Symbols(binding.v), Plain)
                         ELSE RuntimeFormUrlEncode(binding.v)

QueryBytes(query) == FoldSeq(LAMBDA b, n : n + 2 + Size(b.name) + EncodedSize(b.v, b.encoded), 0, query)

TryCopyPermanentQuery(query, authority) ==
    /\ Len(query) <= 64
    /\ All(query, LAMBDA b : HasCanonicalBinding(b, authority))
    /\ Unique(query, LAMBDA b : b.name)
    /\ QueryBytes(query) <= 8192
    /\ Len(SelectSeq(query, LAMBDA b : b.source = "CONDITIONAL_INPUT")) = Cardinality(authority)

\* No column is read from inside the value of another.
TryCopyPermanentColumns(columns) ==
    /\ Len(columns) \in 1..256
    /\ All(columns, LAMBDA c : /\ IsSafeLogicalId(c.name) /\ IsSafeRestExtractPath(c.path)
                               /\ c.shape = "SCALAR" => ~c.elementNullable)
    /\ Unique(columns, LAMBDA c : c.name)
    /\ \A i, j \in DOMAIN columns : i # j => ~IsPrefix(columns[i].path, columns[j].path)

TryCopyPermanentRecordsPath(operation) ==
    IF operation.response = "terminal_collection" THEN IsSafeRestCollectionPath(operation.records)
    ELSE operation.records = <<>>

FitsRestRequestTarget(operation, more) == PathBytes(operation.path) + more + QueryBytes(operation.query) <= 8192

TryMaterializeRestRequest(plan, authority) ==
    LET operation == plan.operation
        auth == plan.auth
    IN
    /\ TryCopyPermanentPath(operation)
    /\ TryCopyPermanentQuery(operation.query, authority)
    /\ TryCopyPermanentColumns(operation.columns) /\ operation.columns = plan.columns
    /\ TryCopyPermanentRecordsPath(operation)
    /\ FitsRestRequestTarget(operation, 0)
    /\ TryCopyFixedHeaders(operation.headers, FALSE, plan.budgets.headerBytes)
    /\ auth.required /\ auth.placement = "header" =>
         ~\E i \in DOMAIN operation.headers : Shape[operation.headers[i].name].folded = Shape[auth.placementName].folded
    /\ auth.required /\ auth.placement = "query" =>
         ~\E i \in DOMAIN operation.query : operation.query[i].name = auth.placementName

----------------------------------------------------------------------------
\* REST plans (rest_relational_admission.cpp, rest_authority_admission.cpp,
\* rest_pagination_admission.cpp and http_plan_admission.cpp)

HasMatchingResultColumn(plan, equality) ==
    LET named == SelectSeq(plan.operation.columns, LAMBDA c : c.name = equality.column) IN
    Len(named) = 1 /\ named[1].shape = "SCALAR" /\ ~named[1].elementNullable /\ named[1].type = equality.type

\* The proof of occurrence that goes with each accuracy.
TryAdmitSelectedEquality(plan) ==
    /\ plan.remote = "TYPED_EQUALITY"
    /\ plan.residual \in {"TYPED_EQUALITY", "COMPLETE_DUCKDB_FILTER"}
    /\ \E equality \in plan.equality :
          /\ equality.input # "" /\ HasMatchingResultColumn(plan, equality)
          /\ \/ plan.accuracy = "EXACT" /\ equality.occurrence = "PRESERVES_EXACT"
             \/ plan.accuracy = "SUPERSET" /\ equality.occurrence = "PRESERVES_ALL"

HasResidualOnlyEquality(plan) ==
    /\ (plan.equality # {}) = (plan.residual = "TYPED_EQUALITY")
    /\ \A equality \in plan.equality : HasMatchingResultColumn(plan, equality)

TryAdmitRestRelationalEnvelope(plan) ==
    IF plan.conditional = "NONE"
    THEN plan.remote = "TRUE_FOR_BASE_DOMAIN" /\ plan.accuracy = "UNSUPPORTED" /\ HasResidualOnlyEquality(plan)
    ELSE TryAdmitSelectedEquality(plan)

HasAuthentication(plan) ==
    LET auth == plan.auth IN
    IF ~auth.required THEN plan.secret = "" /\ auth.destinations = <<>>
    ELSE /\ plan.secret # "" /\ auth.field = "token" /\ auth.destinations[1] = plan.operation.origin
         /\ \/ auth.authenticator = "bearer" /\ auth.placement = "authorization_header"
            \/ auth.authenticator = "api_key" /\ auth.placement \in {"header", "query"} /\ auth.placementName # ""

HasSupportedRestAuthority(plan, profile) == HasExactNetworkCapability(plan, profile) /\ HasAuthentication(plan)

ExpectedRestDomain(plan) ==
    IF plan.pagination.strategy # "disabled" THEN "paginated_" \o plan.operation.response ELSE plan.operation.response

\* The admitted policies of a plan whose request can be made, as a set of at most one.
HasCommonRestPlan(plan, profile) ==
    IF /\ plan.operation.protocol = "rest"
       /\ HasExactNetworkCapability(plan, profile)
       /\ plan.domain = ExpectedRestDomain(plan)
       /\ IsSafeEncodedPath(plan.operation.path)
       /\ TryAdmitRestRelationalEnvelope(plan)
       /\ TryMaterializeRestRequest(plan, IF plan.conditional = "NONE" THEN {} ELSE plan.equality)
       /\ HasSupportedRestAuthority(plan, profile)
    THEN TryAdmitResiliencePolicies(plan, profile)
    ELSE {}

HasSingleResponseShape(plan, profile) ==
    /\ plan.pagination.strategy = "disabled"
    /\ IsWithinBounds(plan.budgets, SingleResponseLimits) /\ plan.budgets.records <= profile.records
    /\ IF plan.operation.cardinality = "one" THEN plan.operation.response = "root_object" /\ plan.budgets.records = 1
       ELSE plan.operation.response \in {"root_array", "terminal_collection"}

\* The first request carries the first page number, once.
HasPageBindings(plan) ==
    LET First(b) == /\ b.name = plan.pagination.pageNumberParameter /\ b.type = "BIGINT"
                    /\ b.v = ToString(plan.pagination.firstPage)
    IN FoldLeft(LAMBDA found, b : ~found /\ First(b), FALSE,
                SelectSeq(plan.operation.query, LAMBDA b : b.source = "PAGE_NUMBER"))

LastPage(pagination, pages) == pagination.firstPage + (pages - 1) * pagination.pageIncrement

FitsEveryPageTarget(plan) ==
    LET last == Size(ToString(LastPage(plan.pagination, plan.scanBudgets.pages)))
        first == Size(ToString(plan.pagination.firstPage))
    IN FitsRestRequestTarget(plan.operation, IF last > first THEN last - first ELSE 0)

ScanCoversPage(plan) ==
    \A field \in {"responseBytes", "headerBytes", "decompressedBytes", "records", "memoryBytes"} :
        plan.scanBudgets[field] >= plan.budgets[field]

CoherentAttempts(plan) ==
    plan.scanBudgets.attempts \in plan.scanBudgets.pages..(plan.scanBudgets.pages * plan.budgets.attempts)

HasSupportedRestPagination(plan, profile) ==
    LET pagination == plan.pagination
        sized == pagination.pageSizeParameter # ""
    IN
    /\ plan.operation.cardinality = "many"
    /\ plan.operation.response \in {"root_array", "terminal_collection"}
    /\ pagination.strategy \in {"link_next", "response_next", "short_page"}
    /\ IsWithinBounds(plan.budgets, PageLimits) /\ IsWithinPaginatedScanBounds(plan.scanBudgets)
    /\ plan.budgets.bodyBytes = 0 /\ plan.scanBudgets.bodyBytes = 0
    /\ plan.budgets.records <= profile.records
    /\ pagination.strategy = "short_page" => sized
    /\ IsSafeEncodedQueryName(pagination.pageNumberParameter) /\ pagination.firstPage > 0
    /\ IsSignedBigintPageSequence(pagination.firstPage, pagination.pageIncrement, plan.scanBudgets.pages)
    /\ sized => /\ IsSafeEncodedQueryName(pagination.pageSizeParameter)
                /\ pagination.pageSizeParameter # pagination.pageNumberParameter
                /\ pagination.pageSize \in 1..MaxBigint
    /\ HasPageBindings(plan) /\ FitsEveryPageTarget(plan) /\ CoherentAttempts(plan) /\ ScanCoversPage(plan)

TryAdmitSingleResponseHttpPlan(plan, profile) ==
    IF HasSingleResponseShape(plan, profile) THEN HasCommonRestPlan(plan, profile) ELSE {}

TryAdmitPaginatedRestPlan(plan, profile) ==
    IF HasSupportedRestPagination(plan, profile) THEN HasCommonRestPlan(plan, profile) ELSE {}

----------------------------------------------------------------------------
\* GraphQL plans (graphql_plan_admission.cpp and graphql_recipe_admission.cpp)

\* Runtime renders the recipe by rules of its own, one for one those of the other layers.
TryRenderPackageGraphqlRecipe(recipe, limit) ==
    {document \in {RenderRecipe(recipe)} : ValidateRecipe(recipe) /\ DocumentBytes(document) <= limit}

HasPackageRecipeCorrelation(operation) ==
    LET recipe == operation.recipe
        pageInfo == DerivedPath(recipe, recipe.pageInfo)
    IN
    /\ operation.document \in TryRenderPackageGraphqlRecipe(recipe, operation.maxDocument)
    /\ Map(recipe.variables, LAMBDA v : v.name) = Map(operation.variables, LAMBDA v : v.name)
    /\ operation.nodes = DerivedPath(recipe, "nodes") /\ operation.pageInfo = pageInfo
    /\ operation.cursor.hasNext = Append(pageInfo, recipe.hasNext)
    /\ operation.cursor.endCursor = Append(pageInfo, recipe.endCursor)
    /\ Map(operation.columns, LAMBDA c : [column |-> c.name, path |-> c.path]) = recipe.selections

HasVariables(operation) ==
    LET page == operation.variables[1]
        cursor == operation.variables[2]
    IN /\ Len(operation.variables) = 2 /\ IsGraphqlName(page.name) /\ IsGraphqlName(cursor.name)
       /\ page.name # cursor.name
       /\ page.source = "FIXED_PAGE_SIZE" /\ page.value > 0 /\ page.value = operation.cursor.pageSize
       /\ cursor.source = "RUNTIME_CURSOR" /\ cursor.value = 0

HasColumns(plan) ==
    LET columns == plan.operation.columns IN
    /\ Len(columns) \in 1..256 /\ columns = plan.columns
    /\ All(columns, LAMBDA c : IsSafeLogicalId(c.name) /\ IsSafeGraphqlPath(c.path, 1, 2))
    /\ Unique(columns, LAMBDA c : c.name) /\ Unique(columns, LAMBDA c : c.path)

HasResponseShape(operation) ==
    LET nodes == operation.nodes
        pageInfo == operation.pageInfo
    IN /\ IsSafeGraphqlPath(nodes, 3, 18) /\ IsSafeGraphqlPath(pageInfo, 3, 18)
       /\ nodes[1] = "data" /\ Last(nodes) = "nodes" /\ Last(pageInfo) # "nodes" /\ Front(nodes) = Front(pageInfo)
       /\ Front(operation.cursor.hasNext) = pageInfo /\ Front(operation.cursor.endCursor) = pageInfo

HasCursor(cursor) ==
    /\ cursor.maxPages \in 1..32
    /\ IsSafeGraphqlPath(cursor.hasNext, 4, 19) /\ IsSafeGraphqlPath(cursor.endCursor, 4, 19)
    /\ cursor.hasNext # cursor.endCursor

\* The body budgets are computed again from the operation, not taken from the plan.
HasBudgets(plan, profile) ==
    LET operation == plan.operation
        page == Min({operation.maxBodyPerRequest, PageLimits.bodyBytes})
        attempts == operation.cursor.maxPages * plan.resilience.attempts
    IN /\ IsWithinBounds(plan.budgets, PageLimits) /\ IsWithinPaginatedScanBounds(plan.scanBudgets)
       /\ plan.budgets.records <= profile.records
       /\ plan.budgets.bodyBytes = page /\ page > 0
       /\ plan.scanBudgets.bodyBytes = Min({operation.maxBodyPerScan, ScanLimits.bodyBytes, page * attempts})
       /\ plan.scanBudgets.pages = operation.cursor.maxPages
       /\ CoherentAttempts(plan) /\ ScanCoversPage(plan)

HasRelationalEnvelope(plan) ==
    plan.remote = "TRUE_FOR_BASE_DOMAIN" /\ plan.accuracy = "UNSUPPORTED" /\ plan.conditional = "NONE"

\* A GraphQL request is anonymous or carries a bearer token.
HasAuthority(plan, profile) ==
    /\ HasAuthentication(plan)
    /\ plan.auth.required => plan.auth.authenticator = "bearer"
    /\ HasExactNetworkCapability(plan, profile)

IsAdmissible(plan, profile) ==
    LET operation == plan.operation IN
    /\ plan.pagination.strategy = "graphql_cursor" /\ operation.cardinality = "many"
    /\ operation.maxDocument \in 1..(64 * KiB) /\ DocumentBytes(operation.document) <= operation.maxDocument
    /\ IsSafeDnsHost(operation.origin.host) /\ operation.origin.port > 0 /\ IsSafeRequestPath(operation.path)
    /\ plan.domain = "gql_relay" /\ HasPackageRecipeCorrelation(operation)
    /\ TryCopyFixedHeaders(operation.headers, TRUE, plan.budgets.headerBytes)
    /\ HasVariables(operation) /\ HasColumns(plan) /\ HasCursor(operation.cursor)
    /\ plan.pagination.maxPages = operation.cursor.maxPages
    /\ HasResponseShape(operation) /\ operation.nodes # operation.pageInfo
    /\ HasBudgets(plan, profile) /\ HasRelationalEnvelope(plan) /\ HasAuthority(plan, profile)

TryAdmitGraphqlPlan(plan, profile) == IF IsAdmissible(plan, profile) THEN TryAdmitResiliencePolicies(plan, profile) ELSE {}

----------------------------------------------------------------------------
\* The admitted request

\* A plan is tried as the only kind its protocol and pagination make it.
Admit(plan, profile) ==
    CASE plan.operation.protocol = "graphql" -> TryAdmitGraphqlPlan(plan, profile)
      [] plan.operation.protocol = "rest" /\ plan.pagination.strategy = "disabled" ->
           TryAdmitSingleResponseHttpPlan(plan, profile)
      [] OTHER -> TryAdmitPaginatedRestPlan(plan, profile)

\* The query of one request: the page number takes the place of the first page's.
BuildRestTarget(plan, page) ==
    Map(plan.operation.query, LAMBDA b :
        [name |-> b.name,
         encoded |-> IF plan.pagination.strategy # "disabled" /\ b.name = plan.pagination.pageNumberParameter
                     THEN Map(Symbols(ToString(page)), Plain) ELSE b.encoded])
=============================================================================
