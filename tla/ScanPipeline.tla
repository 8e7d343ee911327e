---------------------------- MODULE ScanPipeline ----------------------------
(***************************************************************************)
(* One query over one package, from the YAML documents to the rows: the    *)
(* package is compiled, DuckDB binds a generated relation and offers its   *)
(* filters, the plan is admitted by Runtime and the pages are fetched,     *)
(* decoded and counted.  The package, the query, the service that answers  *)
(* and the operator's profile are given by the scenario.                   *)
(*                                                                         *)
(* A query is [inputs, secret, filters]: the named arguments of the table  *)
(* function (a function from names to [null, v]), the secret argument (a   *)
(* set of at most one, "" for NULL or an empty name) and the expressions   *)
(* of its WHERE clause.                                                    *)
(***************************************************************************)
EXTENDS PlanAdmission, PageContinuation, RemoteService

CONSTANT Scenarios          \* records [package, query, service, profile]

VARIABLES scenario,
          phase,
          compiled,         \* what the compiler returned
          request,          \* the baseline request, a set of at most one
          plan,             \* the selected plan, a set of at most one
          policies,         \* the admitted resilience policies, a set of at most one
          scan              \* the open scan: where it is, its counters and its rows

vars == <<scenario, phase, compiled, request, plan, policies, scan>>

Compiler == INSTANCE PackageCompilation

Package == scenario.package
Query == scenario.query
Service == scenario.service
Profile == scenario.profile

Unopened == [page |-> 0, cursor |-> GraphqlCursorState, pages |-> 0, records |-> 0, body |-> 0, rows |-> <<>>]

Init ==
    /\ scenario \in Scenarios
    /\ phase = "declared"
    /\ compiled = [kind |-> "none"]
    /\ request = {} /\ plan = {} /\ policies = {}
    /\ scan = Unopened

----------------------------------------------------------------------------
\* Compilation and binding

Compile ==
    /\ phase = "declared"
    /\ compiled' = Compiler!CompilePackage(Package)
    /\ phase' = compiled'.kind
    /\ UNCHANGED <<scenario, request, plan, policies, scan>>

\* DuckDB has checked that every argument has the declared type.
ExplicitInputValue(input, value) == [name |-> input.name, type |-> input.type, null |-> value.null, v |-> value.v]

\* An anonymous relation takes no secret, any other one a name.
BindGeneratedSecret(relation, secret) ==
    IF relation.auth.required THEN secret \ {""} ELSE IF secret = {} THEN {""} ELSE {}

BuildPackageScanRequest(relation, inputs, secret) ==
    [connector |-> compiled.connector.name, relation |-> relation.name, generation |-> Package,
     predicate |-> Unrestricted, scope |-> "UNRESTRICTED", inputs |-> inputs, secret |-> secret,
     selective |-> FALSE, retains |-> FALSE]

BaselineRequest(query) ==
    LET relation == compiled.connector.relations[1]
        given == SelectSeq(relation.inputs, LAMBDA input : input.name \in DOMAIN query.inputs)
        inputs == Map(given, LAMBDA input : ExplicitInputValue(input, query.inputs[input.name]))
    IN {BuildPackageScanRequest(relation, inputs, secret) : secret \in BindGeneratedSecret(relation, query.secret)}

\* The plan of the bind call is the baseline: no filter has been offered yet.
BindGeneratedRelation ==
    /\ phase = "published"
    /\ request' = BaselineRequest(Query)
    /\ plan' = UNION {BuildConservativeScanPlan(compiled.connector, r) : r \in request'}
    /\ phase' = IF plan' = {} THEN "unbound" ELSE "bound"
    /\ UNCHANGED <<scenario, compiled, policies, scan>>

\* The filters are only offered: DuckDB keeps and evaluates every one of them.
SelectedPlan(query, requests) ==
    LET translated == TranslateComplexFilters(compiled.connector.relations[1].columns, query.filters)
        Candidate(r) == [r EXCEPT !.selective = TRUE, !.retains = TRUE,
                                  !.predicate = translated.candidate, !.scope = translated.scope]
    IN UNION {BuildConservativeScanPlan(compiled.connector, Candidate(r)) : r \in requests}

GeneratedRelationPushdown ==
    /\ phase = "bound"
    /\ plan' = SelectedPlan(Query, request)
    /\ phase' = IF plan' = {} THEN "unplanned" ELSE "planned"
    /\ UNCHANGED <<scenario, compiled, request, policies, scan>>

Open ==
    /\ phase = "planned"
    /\ policies' = UNION {Admit(p, Profile) : p \in plan}
    /\ scan' = [Unopened EXCEPT !.page = IF "firstPage" \in DOMAIN The(plan).pagination
                                         THEN The(plan).pagination.firstPage ELSE 0]
    /\ phase' = IF policies' = {} THEN "refused" ELSE "scanning"
    /\ UNCHANGED <<scenario, compiled, request, plan>>

----------------------------------------------------------------------------
\* Fetching

\* The budgets of the whole scan; those of a scan of one response are the response's.
ScanBudgetsOf(p) == IF p.pagination.strategy = "disabled" THEN p.budgets ELSE p.scanBudgets

Allowance(p) == Min({p.budgets.records, ScanBudgetsOf(p).records - scan.records})

\* A page and its rows are committed together; a continuation at a limit fails the scan.
Commit(p, rows, page, cursor, body, hasNext) ==
    LET next == [page |-> page, cursor |-> cursor, pages |-> scan.pages + 1, records |-> scan.records + Len(rows),
                 body |-> scan.body + body, rows |-> scan.rows \o rows]
        spent == \/ next.pages >= PagesOf(p) \/ next.records >= ScanBudgetsOf(p).records
                 \/ ScanBudgetsOf(p).bodyBytes # 0 /\ next.body >= ScanBudgetsOf(p).bodyBytes
    IN /\ scan' = next
       /\ phase' = IF ~hasNext THEN "finished" ELSE IF spent THEN "failed" ELSE "scanning"

Fail == phase' = "failed" /\ UNCHANGED scan

RestRequest(p, page) ==
    [origin |-> p.operation.origin, path |-> Map(p.operation.path, LAMBDA s : s.encoded),
     query |-> BuildRestTarget(p, page)]

\* The continuation by the strategy of the plan, as a set of at most one.
Transition(p, decoded, response) ==
    LET path == Map(p.operation.path, LAMBDA s : s.encoded)
        pagination == p.pagination
    IN CASE pagination.strategy = "disabled" -> {NoNext}
         [] pagination.strategy = "response_next" -> AdvanceBody(decoded.next, scan.page, pagination, p.operation.origin, path)
         [] pagination.strategy = "short_page" -> AdvanceByCount(Len(decoded.rows), scan.page, pagination)
         [] OTHER -> Advance(response.links, scan.page, pagination, p.operation.origin, path)

\* One response of a REST operation, paginated or not.
FetchRestPage(p) ==
    \E response \in Respond(Service, RestRequest(p, scan.page)) :
        LET pages == {decoded \in DecodeJsonPage(JsonDecodePlan(p, p.budgets.records), response.body) :
                         Len(decoded.rows) <= Allowance(p)}
            steps == UNION {{<<decoded, next>> : next \in Transition(p, decoded, response)} : decoded \in pages}
        IN IF ~response.ok \/ steps = {} THEN Fail
           ELSE \E step \in steps : Commit(p, step[1].rows, step[2].page, scan.cursor, 0, step[2].hasNext)

\* The serialized request: the document, the two variables and the punctuation of the JSON around them.
TryGraphqlBodyBytes(operation, cursor) ==
    DocumentBytes(operation.document) + Size(operation.variables[1].name) + Size(operation.variables[2].name)
      + Size(ToString(operation.cursor.pageSize)) + (IF cursor = "" THEN 4 ELSE Size(cursor) + 2) + 36

\* The cursor's own bound and what is left of the body budgets.
BuildAdmittedGraphqlRequest(p, cursor) ==
    LET allowance == Min({p.budgets.bodyBytes, p.scanBudgets.bodyBytes - scan.body}) IN
    IF /\ cursor # "" => Size(cursor) <= 512 /\ "invalid" \notin Shape[cursor].has
       /\ TryGraphqlBodyBytes(p.operation, cursor) <= allowance
    THEN {[origin |-> p.operation.origin, path |-> p.operation.path, document |-> p.operation.document,
           pageSize |-> p.operation.cursor.pageSize, cursor |-> cursor]}
    ELSE {}

\* One response of a GraphQL operation; the cursor state counts the requests too.
FetchGraphqlPage(p) ==
    LET requests == BuildAdmittedGraphqlRequest(p, CurrentCursor(scan.cursor))
        body == TryGraphqlBodyBytes(p.operation, CurrentCursor(scan.cursor))
        Cursors(decoded, cursor) == IF decoded.hasNext THEN AdvanceCursor(cursor, decoded.endCursor, 512) ELSE {cursor}
    IN IF requests = {} THEN Fail
       ELSE \E response \in UNION {Respond(Service, r) : r \in requests} :
              LET pages == DecodeGraphqlResponse(p, GraphqlDecodeLimits(p, Allowance(p)), response.body)
                  started == MarkRequestStarted(scan.cursor, p.operation.cursor.maxPages)
                  steps == UNION {UNION {{<<decoded, cursor>> : cursor \in Cursors(decoded, start)} : start \in started} :
                                    decoded \in pages}
              IN IF ~response.ok \/ steps = {} THEN Fail
                 ELSE \E step \in steps : Commit(p, step[1].rows, 0, step[2], body, step[1].hasNext)

FetchPage ==
    /\ phase = "scanning"
    /\ \E p \in plan : IF p.operation.protocol = "rest" THEN FetchRestPage(p) ELSE FetchGraphqlPage(p)
    /\ UNCHANGED <<scenario, compiled, request, plan, policies>>

Ended == {"rejected", "thrown", "unbound", "unplanned", "refused", "finished", "failed"}

Done == phase \in Ended /\ UNCHANGED vars

Next == Compile \/ BindGeneratedRelation \/ GeneratedRelationPushdown \/ Open \/ FetchPage \/ Done

Spec == Init /\ [][Next]_vars

----------------------------------------------------------------------------
\* What the declaration means, independently of how it is compiled

DeclaredRelation == Package.relations[1]

\* The declared operation that a plan is of.
DeclaredOperation(p) == The(Range(SelectSeq(DeclaredRelation.operations, LAMBDA o : o.id = p.operation.name)))

Declared(node, key, none) == IF key \in DOMAIN node THEN node[key] ELSE none

DeclaredInputs == Range(Declared(DeclaredRelation, "inputs", <<>>))

\* The text an input is given, by the query or by default, as a set of at most one: NULL gives none.
Given(input) ==
    CASE input.id \in DOMAIN Query.inputs -> IF Query.inputs[input.id].null THEN {} ELSE {Query.inputs[input.id].v}
      [] input.id \notin DOMAIN Query.inputs /\ "default" \in DOMAIN input ->
           IF input.default.kind = "null" THEN {} ELSE {input.default.value.value[input.type]}
      [] OTHER -> {}

\* The fixed parameters of an operation other than the two of the pagination.
FixedParameters(operation) ==
    IF operation.request.protocol = "graphql"
    THEN {<<argument.name, argument.value.enum>> : argument \in Range(operation.request.query.fixed_arguments)}
    ELSE {<<field.name, field.literal.value.value[field.literal.type]>> :
            field \in {f \in Range(operation.request.query) :
                         /\ "literal" \in DOMAIN f
                         /\ f.name \notin {Declared(operation.pagination, "page_number_parameter", ""),
                                           Declared(operation.pagination, "page_size_parameter", "")}}}

\* The rows the query is about: those the service shows for its inputs and the fixed
\* parameters, without those its WHERE clause is not true of.
Asked(p) ==
    LET Meant(row) ==
            /\ \A input \in DeclaredInputs : \A text \in Given(input) : row.attrs[input.id] = text
            /\ \A parameter \in FixedParameters(DeclaredOperation(p)) :
                  parameter[1] \in DOMAIN row.attrs => row.attrs[parameter[1]] = parameter[2]
            /\ Passes(Query.filters, row.values)
    IN SelectSeq(Shown(Service, Service.rows), Meant)

\* The rows the service has for the requests of a plan and how many of them it puts on a page.
RowsFor(p) == IF p.operation.protocol = "graphql" THEN Service.rows ELSE RowsServed(Service, RestRequest(p, scan.page))

RowsPerPage(p) ==
    IF p.operation.protocol = "graphql" THEN p.operation.cursor.pageSize
    ELSE NumberOf(BuildRestTarget(p, scan.page), Service.sizeParam, Service.size)

----------------------------------------------------------------------------
\* Properties

\* The scans whose end no response tells from a truncation: one page is declared of a
\* service that has several; response_next reads its continuation from a root array,
\* which has no place for one (DecodeJsonPage); short_page meets a page that is short
\* though more follow (AdvanceByCount); or the service drops a continuation, which
\* Advance, AdvanceBody and DecodeGraphqlResponse take for the last page.
EndsUnseen(p) ==
    LET strategy == p.pagination.strategy
        rows == RowsFor(p)
        size == RowsPerPage(p)
        OnLastPage(i) == ((i - 1) \div size + 1) * size >= Len(rows)
    IN \/ strategy = "disabled" /\ Len(rows) > size
       \/ strategy = "response_next" /\ p.operation.response = "root_array" /\ Len(rows) > size
       \/ strategy = "short_page" /\ \E i \in DOMAIN rows : Shown(Service, <<rows[i]>>) = <<>> /\ ~OnLastPage(i)
       \/ strategy # "short_page" /\ "dropped" \in Service.faults

\* A scan that ends without an error gave DuckDB exactly the rows the query asks for,
\* in the order of the service and as often as it has them, with the values of the
\* declared columns, whatever was pushed to the service and however the inputs were
\* encoded: pages that are short or empty in the middle, continuations that are wrong,
\* repeated or doubled and records that are damaged lose, add or repeat none of them.
\* Where the end cannot be told from a truncation (EndsUnseen) the rows are an initial
\* part of those, without a gap (FetchPage, DecodeJsonPage, AdvanceByCount, Classify and
\* FormUrlEncode together).
RowsExact ==
    LET given == SelectSeq(scan.rows, LAMBDA values : Passes(Query.filters, values))
        asked == Map(Asked(The(plan)), LAMBDA row : row.values)
    IN phase = "finished" => IF EndsUnseen(The(plan)) THEN IsPrefix(given, asked) ELSE given = asked

Operations == Range(DeclaredRelation.operations)

PagingOf(operation) ==
    IF operation.request.protocol = "graphql" THEN operation.request.pagination ELSE operation.pagination

OriginOf(operation) ==
    IF operation.request.protocol = "graphql" THEN operation.request.endpoint.origin ELSE operation.request.origin

\* The declarations that no compiler diagnoses and a constructor of the model refuses.
RefusedByModel(operation) ==
    LET paging == PagingOf(operation) IN
    IF operation.request.protocol = "graphql"
    THEN \E i \in DOMAIN DeclaredRelation.columns :
            DeclaredRelation.columns[i].extract.fields # operation.request.query.selection[i].field_path
    ELSE \/ "path" \in DOMAIN operation.request /\ operation.request.path.trailing
         \/ /\ "page_size_parameter" \in DOMAIN paging
            /\ \/ "page_size" \notin DOMAIN paging
               \/ \A field \in Range(operation.request.query) : field.name # paging.page_size_parameter
         \/ operation.cardinality = "one" /\ paging.strategy # "disabled"

\* Compiling a package ends with a generation or with diagnostics; the exceptions of
\* CompilePackageDeclaration are those of five declarations and no others: a REST path
\* with a trailing slash, a page size parameter without a page size or without a query
\* field, one row with pages, and a GraphQL column whose extractor is not its field path.
CompileTotal == phase = "thrown" => \E operation \in Operations : RefusedByModel(operation)

\* What only the planner checks of a declaration: the number of pages, the trailing slash of
\* an endpoint and that the first destination of the credential is the operation's.
BeyondPlanner(operation) ==
    LET credentials == {c \in Range(Declared(Package.manifest, "credentials", <<>>)) :
                            c.id = Declared(DeclaredRelation.auth, "credential", "")}
    IN \/ Declared(PagingOf(operation), "max_pages_per_scan", 0) > 32
       \/ operation.request.protocol = "graphql" /\ operation.request.endpoint.path.trailing
       \/ \E credential \in credentials : credential.destinations[1] # OriginOf(operation)

\* Arguments that the relation does not take, or that a request cannot carry.
WrongArguments ==
    LET inPath == {segment.input : segment \in {s \in UNION {Range(Declared(o.request, "path_segments", <<>>)) : o \in Operations} :
                                                   "input" \in DOMAIN s}}
    IN \/ IF DeclaredRelation.auth.mode = "anonymous" THEN Query.secret # {} ELSE Query.secret \subseteq {""}
       \/ \E input \in DeclaredInputs :
            \/ input.nullable = "false" /\ input.id \in DOMAIN Query.inputs /\ Query.inputs[input.id].null
            \/ \E text \in Given(input) :
                  \/ Shape[text].has \cap Controls # {}
                  \/ input.id \in inPath /\ (text = "" \/ "slash" \in Shape[text].has)

\* An operation that needs nothing, or whose inputs all have a value.
Serves(operation) ==
    "fallback" \in DOMAIN operation
      \/ \A reference \in Range(operation.when.required_inputs) :
            /\ reference[1] = "input"
            /\ \E input \in DeclaredInputs : input.id = reference[2] /\ Given(input) # {}

NoOperationServes == \A operation \in Operations : ~Serves(operation)

\* Two conjuncts ask one column for two mapped literals.
Contradictory ==
    LET literals == {predicate.literal.value.value[predicate.literal.type] :
                        predicate \in Range(Declared(DeclaredRelation, "predicates", <<>>))}
        Asks(filter, text) == filter.kind = "EQUAL" /\ \E i \in 1..2 : /\ filter.operands[i].kind = "CONSTANT"
                                                                     /\ filter.operands[i].v = text
    IN \E i, j \in DOMAIN Query.filters : \E text, other \in literals :
          text # other /\ Asks(Query.filters[i], text) /\ Asks(Query.filters[j], other)

\* A package that compiles can be scanned: BuildConservativeScanPlan refuses a request only
\* for its arguments, for want of an operation, for a contradiction between its filters, or
\* for one of the three declarations the compiler lets through.
CompiledIsPlannable ==
    /\ phase = "unbound" => WrongArguments \/ NoOperationServes \/ \E operation \in Operations : BeyondPlanner(operation)
    /\ phase = "unplanned" => Contradictory

\* What only Runtime checks: the proof that goes with an accuracy, columns read from inside
\* each other, hosts that look like addresses, and a credential placed where a field already is.
BeyondRuntime(p) ==
    LET columns == DeclaredRelation.columns IN
    \/ p.accuracy = "SUPERSET" /\ \E equality \in p.equality : equality.occurrence = "PRESERVES_EXACT"
    \/ \E i, j \in DOMAIN columns : i # j /\ IsPrefix(columns[i].extract.fields, columns[j].extract.fields)
    \/ \A i \in DOMAIN p.origin.host : Shape[p.origin.host[i]].number
    \/ \E header \in Range(p.operation.headers) : Shape[header.name].folded = Shape[p.auth.placementName].folded
    \/ p.operation.protocol = "rest" /\ \E field \in Range(p.operation.query) : field.name = p.auth.placementName

\* An operator's profile too narrow for the declaration.
TooNarrow(p) ==
    \/ Profile.host # <<>> /\ <<Profile.host, Profile.port>> # <<p.origin.host, p.origin.port>>
    \/ Profile.records < DeclaredRelation.resources.max_records_per_page
    \/ Profile.retry.scanAttempts < PagesOf(p)
    \/ Profile.combined > 0 /\ Profile.combined < p.retry.waiting

\* Runtime admits what Semantics plans: a plan is refused only for one of the differences
\* between ValidatePredicateMaterialization and the admission checks that BeyondRuntime
\* names, or because the operator's profile is too narrow for it.
PlannedIsAdmitted == phase = "refused" => \E p \in plan : BeyondRuntime(p) \/ TooNarrow(p)

\* The rows and pages a scan needs are more than the package allows.  A last page that is
\* full has to be followed by another one when only its length says whether there is more.
OutgrowsDeclaration(p) ==
    LET graphql == p.operation.protocol = "graphql"
        operation == DeclaredOperation(p)
        rows == RowsFor(p)
        size == RowsPerPage(p)
        short == p.pagination.strategy = "short_page"
        needed == IF short THEN Len(rows) \div size + 1 ELSE (Len(rows) + size - 1) \div size
        body == Max({TryGraphqlBodyBytes(p.operation, cursor) : cursor \in {""} \cup Range(Service.cursors)})
        resources == DeclaredRelation.resources
    IN \/ Min({size, Len(rows)}) > resources.max_records_per_page
       \/ Len(rows) > resources.max_records_per_scan
       \/ short /\ Len(rows) = resources.max_records_per_scan /\ Len(rows) % size = 0
       \/ needed > PagesOf(p)
       \/ p.operation.cardinality = "one" /\ rows = <<>>
       \/ graphql /\ \/ body > operation.request.max_serialized_body_bytes_per_request
                     \/ body * needed > operation.request.max_serialized_body_bytes_per_scan

\* An admitted scan of a service that makes no mistake reaches its end, unless there are
\* more rows or pages, or longer requests, than the package declares: no page the planner
\* allows is cut short by a counter of FetchPage, and no answer is taken for a wrong one.
AdmittedScansFinish ==
    phase = "failed" /\ Service.faults = {} => \E p \in plan : OutgrowsDeclaration(p)

\* What the scan spends and the policies it got never exceed what the package declares, the
\* limits of scan_plan.hpp or the operator's profile (PageBudgets, ScanBudgets,
\* TryAdmitResiliencePolicies and the counters of FetchPage together).
WithinDeclared ==
    \A p \in plan :
        LET operation == DeclaredOperation(p)
            resources == DeclaredRelation.resources
            pages == Declared(PagingOf(operation), "max_pages_per_scan", 1)
            Limit(policy, key) == Declared(Declared(operation, policy, <<>>), key, 0)
            attempts == Max({1, Limit("retry", "max_attempts_per_step"), Limit("rate_limit", "max_attempts_per_step")})
            waiting == Limit("retry", "max_cumulative_waiting_milliseconds_per_scan")
                         + Limit("rate_limit", "max_cumulative_waiting_milliseconds_per_scan")
        IN /\ p.budgets.responseBytes <= Min({resources.max_response_bytes_per_page,
                                              Package.manifest.network_policy.max_response_bytes})
           /\ scan.pages <= Min({pages, 32})
           /\ scan.records <= Min({resources.max_records_per_scan, 3200})
           /\ \A policy \in policies :
                 /\ policy.attempts <= Min({3, attempts})
                 /\ policy.scanAttempts <= Min({96, pages * attempts})
                 /\ policy.waiting <= Min({30000, waiting} \cup (IF Profile.combined = 0 THEN {} ELSE {Profile.combined}))
           /\ p.operation.protocol = "graphql" => scan.body <= operation.request.max_serialized_body_bytes_per_scan

----------------------------------------------------------------------------
\* What the documents say and the code does otherwise

\* Two scans of one package with one identity in the result cache send the same
\* request: BuildCanonicalRepresentation takes everything in that sets them apart.
IdentityTellsRequests ==
    phase = "planned" =>
        \A other \in Scenarios : other.package = Package /\ other.query.secret = Query.secret =>
            \A p \in plan : \A q \in SelectedPlan(other.query, BaselineRequest(other.query)) :
                p.identity = q.identity => RestRequest(p, 1) = RestRequest(q, 1)

\* A plan whose remote predicate is a superset of the filter is opened by Runtime:
\* TryAdmitSelectedEquality takes the occurrence proof that Classify gives it.
SupersetIsAdmitted == phase = "refused" => \A p \in plan : p.accuracy # "SUPERSET"
=============================================================================
