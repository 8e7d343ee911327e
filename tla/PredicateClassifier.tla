------------------------ MODULE PredicateClassifier ------------------------
(***************************************************************************)
(* How a candidate is split between the remote operation and DuckDB, and   *)
(* which operation serves a request                                        *)
(* (src/src/semantics/predicate/predicate_classifier.cpp,                  *)
(* src/src/semantics/planner/operation_selection.cpp and                   *)
(* input_resolution.cpp).  A relation and its operations are the compiled  *)
(* ones; a request is [connector, relation, generation, predicate, scope,  *)
(* inputs, secret, selective, retains].                                    *)
(***************************************************************************)
EXTENDS RelationalPredicate, FiniteSets, FiniteSetsExt

Mappings(relation, operation) == SelectSeq(relation.predicates, LAMBDA mapping : mapping.operation = operation.name)

\* The mapping of a column and its literal; a list column has no equality.
MappingMatches(relation, mapping, candidate) ==
    LET column == relation.columns[candidate.column] IN
    /\ column.shape = "SCALAR"
    /\ column.name = mapping.column
    /\ column.type = candidate.type
    /\ mapping.literal.type = candidate.type /\ mapping.literal.v = candidate.v

RECURSIVE ValidateCandidateBindings(_, _)
ValidateCandidateBindings(relation, candidate) ==
    CASE candidate.kind = "COMPARISON" ->
           /\ candidate.column \in DOMAIN relation.columns
           /\ relation.columns[candidate.column].shape = "SCALAR"
           /\ relation.columns[candidate.column].type = candidate.type
      [] HasChildren(candidate) ->
           \A i \in DOMAIN candidate.children : ValidateCandidateBindings(relation, candidate.children[i])
      [] OTHER -> TRUE

ValidateCandidateContract(relation, request) ==
    /\ Depth(request.predicate) <= MaxDepth
    /\ NodeCount(request.predicate) <= MaxNodes
    /\ ValidateCandidateBindings(relation, request.predicate)

\* Fault: a disjunction is searched like a conjunction.
RECURSIVE CollectConjunctiveMatchesEverywhere(_, _, _)
CollectConjunctiveMatchesEverywhere(relation, operation, candidate) ==
    CASE candidate.kind = "UNRESTRICTED" -> [matches |-> <<>>, unmapped |-> FALSE]
      [] candidate.kind = "COMPARISON" ->
           LET found == SelectSeq(Mappings(relation, operation),
                                  LAMBDA mapping : MappingMatches(relation, mapping, candidate))
           IN [matches |-> [i \in DOMAIN found |-> [mapping |-> found[i], candidate |-> candidate]],
               unmapped |-> found = <<>>]
      [] candidate.kind \in {"CONJUNCTION", "DISJUNCTION"} ->
           FoldLeft(LAMBDA done, child :
                        LET more == CollectConjunctiveMatchesEverywhere(relation, operation, child) IN
                        [matches |-> done.matches \o more.matches, unmapped |-> done.unmapped \/ more.unmapped],
                    [matches |-> <<>>, unmapped |-> FALSE], candidate.children)
      [] OTHER -> [matches |-> <<>>, unmapped |-> TRUE]

\* The mapped comparisons every row of the result satisfies, and whether the
\* candidate asks for more than them.
RECURSIVE CollectConjunctiveMatches(_, _, _)
CollectConjunctiveMatches(relation, operation, candidate) ==
    CASE candidate.kind = "UNRESTRICTED" -> [matches |-> <<>>, unmapped |-> FALSE]
      [] candidate.kind = "COMPARISON" ->
           LET found == SelectSeq(Mappings(relation, operation),
                                  LAMBDA mapping : MappingMatches(relation, mapping, candidate))
           IN [matches |-> [i \in DOMAIN found |-> [mapping |-> found[i], candidate |-> candidate]],
               unmapped |-> found = <<>>]
      [] candidate.kind = "CONJUNCTION" ->
           FoldLeft(LAMBDA done, child :
                        LET more == CollectConjunctiveMatches(relation, operation, child) IN
                        [matches |-> done.matches \o more.matches, unmapped |-> done.unmapped \/ more.unmapped],
                    [matches |-> <<>>, unmapped |-> FALSE], candidate.children)
      [] OTHER -> [matches |-> <<>>, unmapped |-> TRUE]

\* What DuckDB evaluates again: always the whole filter it retained.
ResidualPredicate(relation, operation, request) ==
    CASE request.scope = "UNRESTRICTED" -> "TRUE_FOR_BASE_DOMAIN"
      [] /\ request.scope = "REQUESTED_PREDICATE"
         /\ request.predicate.kind = "COMPARISON"
         /\ CollectConjunctiveMatches(relation, operation, request.predicate).matches # <<>> -> "TYPED_EQUALITY"
      [] OTHER -> "COMPLETE_DUCKDB_FILTER"

\* The mapping's literal, not the candidate's, is what the request will carry.
PlanTypedEquality(mapping) ==
    [column |-> mapping.column, type |-> mapping.literal.type, v |-> mapping.literal.v, input |-> mapping.input,
     proof |-> mapping.name,
     occurrence |-> IF mapping.accuracy = "exact" THEN "PRESERVES_EXACT" ELSE "PRESERVES_ALL"]

\* The decision that leaves the filter to DuckDB.  A typed equality is a set of at most one.
Fallback(relation, operation, request, category) ==
    LET residual == ResidualPredicate(relation, operation, request)
        found == CollectConjunctiveMatches(relation, operation, request.predicate).matches
    IN [remote |-> "TRUE_FOR_BASE_DOMAIN", accuracy |-> "UNSUPPORTED", residual |-> residual,
        conditional |-> "NONE", category |-> category,
        equality |-> IF residual = "TYPED_EQUALITY" THEN {PlanTypedEquality(found[1].mapping)} ELSE {}]

AllMatchesEquivalent(matches) == \A i \in DOMAIN matches : matches[i] = matches[1]

IsEquivalentRepeatedConjunction(candidate, found) ==
    /\ candidate.kind = "CONJUNCTION"
    /\ ~found.unmapped
    /\ Len(candidate.children) = Len(found.matches)
    /\ AllMatchesEquivalent(found.matches)

Selective(request) == request.selective /\ request.retains

Classify(relation, operation, request) ==
    LET candidate == request.predicate
        found == CollectConjunctiveMatches(relation, operation, candidate)
        mapping == found.matches[1].mapping
        exact == /\ mapping.accuracy = "exact"
                 /\ ~found.unmapped
                 /\ candidate.kind = "COMPARISON" \/ IsEquivalentRepeatedConjunction(candidate, found)
    IN CASE \/ ~Selective(request)
            \/ candidate.kind \notin {"COMPARISON", "CONJUNCTION"}
            \/ found.matches = <<>> -> Fallback(relation, operation, request, "UNSUPPORTED")
         [] ~AllMatchesEquivalent(found.matches) -> Fallback(relation, operation, request, "AMBIGUOUS")
         [] OTHER ->
              [remote |-> "TYPED_EQUALITY", accuracy |-> IF exact THEN "EXACT" ELSE "SUPERSET",
               residual |-> ResidualPredicate(relation, operation, request),
               conditional |-> "REST_QUERY_BINDING", category |-> IF exact THEN "EXACT" ELSE "SUPERSET",
               equality |-> {PlanTypedEquality(mapping)}]

----------------------------------------------------------------------------
\* Inputs and the operation that serves them

\* An explicit value wins over the default, an explicit NULL included.
ValidExplicitInputs(relation, inputs) ==
    /\ IsInjective([i \in DOMAIN inputs |-> inputs[i].name])
    /\ \A i \in DOMAIN inputs : \E j \in DOMAIN relation.inputs :
          /\ relation.inputs[j].name = inputs[i].name
          /\ relation.inputs[j].type = inputs[i].type
          /\ inputs[i].null => relation.inputs[j].nullable

ResolvedRelationInput(state, v) == [state |-> state, v |-> v]

\* Fault: an input that is not given has no value, whatever its default.
ResolveRelationInputsWithoutDefaults(relation, inputs) ==
    LET Given(name) == {inputs[i] : i \in {j \in DOMAIN inputs : inputs[j].name = name}}
        Resolve(value) == ResolvedRelationInput(IF value.null THEN "BOUND_NULL" ELSE "BOUND_VALUE", value.v)
    IN [name \in {relation.inputs[i].name : i \in DOMAIN relation.inputs} |->
          IF Given(name) = {} THEN ResolvedRelationInput("UNBOUND", "")
          ELSE Resolve(CHOOSE value \in Given(name) : TRUE)]

ResolveRelationInputs(relation, inputs) ==
    LET Value(scalar) == ResolvedRelationInput(IF scalar.null THEN "BOUND_NULL" ELSE "BOUND_VALUE", scalar.v)
        Resolve(input) ==
            LET given == {inputs[i] : i \in {j \in DOMAIN inputs : inputs[j].name = input.name}}
            IN CASE given # {} -> Value(CHOOSE value \in given : TRUE)
                 [] given = {} /\ input.default # {} -> Value(CHOOSE value \in input.default : TRUE)
                 [] OTHER -> ResolvedRelationInput("UNBOUND", "")
        names == {relation.inputs[i].name : i \in DOMAIN relation.inputs}
    IN [name \in names |-> Resolve(CHOOSE input \in Range(relation.inputs) : input.name = name)]

\* The conditional inputs a candidate binds for an operation, or the conflict of two values for one.
ResolveCandidateInputBindings(relation, operation, request) ==
    LET found == CollectConjunctiveMatches(relation, operation, request.predicate)
        bound == {<<found.matches[i].mapping.input, found.matches[i].mapping.literal.v>> :
                      i \in DOMAIN found.matches}
    IN IF ~Selective(request) \/ request.predicate.kind \notin {"COMPARISON", "CONJUNCTION"}
       THEN [names |-> {}, conflicting |-> FALSE]
       ELSE [names |-> {pair[1] : pair \in bound},
             conflicting |-> \E p, q \in bound : p[1] = q[1] /\ p[2] # q[2]]

RequiredInputIsSatisfied(reference, resolved, bindings) ==
    IF reference[1] = "input" THEN resolved[reference[2]].state = "BOUND_VALUE" ELSE reference[2] \in bindings.names

Eligible(relation, operation, request, resolved) ==
    LET bindings == ResolveCandidateInputBindings(relation, operation, request) IN
    /\ ~bindings.conflicting
    /\ \A reference \in operation.selector : RequiredInputIsSatisfied(reference, resolved, bindings)

\* The most specific eligible operation, or the fallback when there is none, as a set;
\* two equally specific ones are no choice.
MostSpecific(eligible) ==
    LET Specificity(operation) == Cardinality(operation.selector)
        selective == {operation \in eligible : ~operation.fallback}
        best == {operation \in selective : \A other \in selective : Specificity(other) <= Specificity(operation)}
    IN IF selective = {} THEN eligible ELSE IF Cardinality(best) = 1 THEN best ELSE {}

SelectOperation(relation, request, resolved) ==
    MostSpecific({operation \in Range(relation.operations) : Eligible(relation, operation, request, resolved)})
=============================================================================
