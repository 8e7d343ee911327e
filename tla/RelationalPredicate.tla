------------------------ MODULE RelationalPredicate ------------------------
(***************************************************************************)
(* The filters DuckDB offers a generated relation and the candidate that   *)
(* the request carries for them                                            *)
(* (src/src/query/duckdb/adapter/complex_filter_adapter.cpp and            *)
(* src/src/semantics/predicate/relational_predicate.cpp).                  *)
(*                                                                         *)
(* An expression of DuckDB is [kind, children] with an operand pair for a  *)
(* comparison; an operand is [kind |-> "COLUMN", index, type] or           *)
(* [kind |-> "CONSTANT", type, null, v].  Every other expression, a        *)
(* comparison with another operator included, is opaque to the adapter.    *)
(***************************************************************************)
EXTENDS Naturals, Sequences, SequencesExt

CONSTANTS MaxDepth,         \* MAX_REQUESTED_PREDICATE_DEPTH, scaled
          MaxNodes          \* MAX_REQUESTED_PREDICATE_NODES, scaled

ASSUME PredicateAssumption == MaxDepth \in Nat \ {0} /\ MaxNodes \in Nat \ {0}

----------------------------------------------------------------------------
\* Candidates

Unrestricted == [kind |-> "UNRESTRICTED"]

Comparison(column, type, v) == [kind |-> "COMPARISON", column |-> column, type |-> type, v |-> v]

BooleanNode(kind, children) == [kind |-> kind, children |-> children]

Unsupported(position) == [kind |-> "UNSUPPORTED", position |-> position]

HasChildren(candidate) == candidate.kind \in {"CONJUNCTION", "DISJUNCTION", "NEGATION"}

RECURSIVE Depth(_)
Depth(candidate) ==
    IF HasChildren(candidate)
    THEN 1 + FoldSeq(LAMBDA child, d : IF Depth(child) > d THEN Depth(child) ELSE d, 0, candidate.children)
    ELSE 1

RECURSIVE NodeCount(_)
NodeCount(candidate) ==
    IF HasChildren(candidate) THEN FoldSeq(LAMBDA child, n : n + NodeCount(child), 1, candidate.children) ELSE 1

RECURSIVE ContainsOpaqueUnsupportedPosition(_)
ContainsOpaqueUnsupportedPosition(candidate) ==
    \/ candidate.kind = "UNSUPPORTED"
    \/ HasChildren(candidate) /\ \E i \in DOMAIN candidate.children :
                                    ContainsOpaqueUnsupportedPosition(candidate.children[i])

----------------------------------------------------------------------------
\* Translation

\* A column of the scan whose type a predicate can carry; a list is not one.
ResolveBoundColumn(columns, operand) ==
    /\ operand.kind = "COLUMN"
    /\ operand.index \in DOMAIN columns
    /\ columns[operand.index].shape = "SCALAR"
    /\ columns[operand.index].type = operand.type

RequestedLiteral(operand, type) == operand.kind = "CONSTANT" /\ ~operand.null /\ operand.type = type

\* The comparison an expression stands for, as a set: the column may be on either side.
TranslateComparison(columns, expression) ==
    IF expression.kind # "EQUAL" THEN {}
    ELSE {Comparison(expression.operands[i].index, expression.operands[i].type, expression.operands[3 - i].v) :
             i \in {j \in 1..2 : /\ ResolveBoundColumn(columns, expression.operands[j])
                                 /\ RequestedLiteral(expression.operands[3 - j], expression.operands[j].type)}}

BooleanKind == [AND |-> "CONJUNCTION", OR |-> "DISJUNCTION", NOT |-> "NEGATION"]

IsBoolean(expression) ==
    \/ expression.kind \in {"AND", "OR"} /\ Len(expression.children) >= 2
    \/ expression.kind = "NOT" /\ Len(expression.children) = 1

Translated(candidate, complete, state) == [candidate |-> candidate, complete |-> complete, state |-> state]

\* What is translated so far, with one more expression after it.
Joined(done, next) ==
    Translated(Append(done.candidate, next.candidate), done.complete /\ next.complete, next.state)

\* The node over the children translated so far, unless one of them exceeded the budgets.
TranslatedNode(expression, position, children) ==
    IF children.state.exceeded THEN Translated(Unsupported(position), FALSE, children.state)
    ELSE Translated(BooleanNode(BooleanKind[expression.kind], children.candidate), children.complete,
                    children.state)

\* The state is [nodes, next, exceeded]; the result also says whether the candidate
\* is the whole expression.
RECURSIVE TranslateExpression(_, _, _, _)
TranslateExpression(columns, expression, depth, state) ==
    LET position == state.next
        entered == [nodes |-> state.nodes + 1, next |-> position + 1, exceeded |-> FALSE]
        Child(done, child) ==
            IF done.state.exceeded THEN done
            ELSE Joined(done, TranslateExpression(columns, child, depth + 1, done.state))
    IN CASE depth > MaxDepth \/ state.nodes >= MaxNodes ->
              Translated(Unsupported(position), FALSE, [state EXCEPT !.next = position + 1, !.exceeded = TRUE])
         [] TranslateComparison(columns, expression) # {} ->
              Translated(CHOOSE c \in TranslateComparison(columns, expression) : TRUE, TRUE, entered)
         [] IsBoolean(expression) ->
              TranslatedNode(expression, position,
                             FoldLeft(Child, Translated(<<>>, TRUE, entered), expression.children))
         [] OTHER -> Translated(Unsupported(position), FALSE, entered)

\* Several filters are one conjunction; a filter that does not fit the budgets makes
\* the whole candidate opaque.
CombinedFilters(filters, translated) ==
    CASE filters = <<>> -> [candidate |-> Unrestricted, scope |-> "UNRESTRICTED"]
      [] filters # <<>> /\ translated.state.exceeded ->
           [candidate |-> Unsupported(0), scope |-> "COMPLETE_DUCKDB_FILTER"]
      [] OTHER ->
           [candidate |-> IF Len(filters) > 1 THEN BooleanNode("CONJUNCTION", translated.candidate)
                          ELSE translated.candidate[1],
            scope |-> IF translated.complete THEN "REQUESTED_PREDICATE" ELSE "COMPLETE_DUCKDB_FILTER"]

TranslateComplexFilters(columns, filters) ==
    LET several == Len(filters) > 1
        start == [nodes |-> IF several THEN 1 ELSE 0, next |-> 0, exceeded |-> FALSE]
        Filter(done, filter) ==
            IF done.state.exceeded THEN done
            ELSE Joined(done, TranslateExpression(columns, filter, IF several THEN 2 ELSE 1, done.state))
    IN CombinedFilters(filters, FoldLeft(Filter, Translated(<<>>, TRUE, start), filters))
=============================================================================
