--------------------------- MODULE GraphqlRecipe ---------------------------
(***************************************************************************)
(* The recipe of a generated GraphQL query and the document it renders to  *)
(* (src/src/connector/model/graphql_query_recipe.cpp).  A document is a    *)
(* sequence of tokens: white space is left out, a string literal is one    *)
(* token between two quotes.                                               *)
(***************************************************************************)
EXTENDS PackageText

\* A literal is [kind, scalar, items, fields]: at most one of the last three is used.
GraphqlLiteral(kind, scalar, items, fields) ==
    [kind |-> kind, scalar |-> scalar, items |-> items, fields |-> fields]

IsName(t) == IsGraphqlName(t)

IsColumnName(t) == IsIdentifier(t)

RECURSIVE ValidateLiteral(_, _)
ValidateLiteral(literal, depth) ==
    /\ depth <= 32
    /\ literal.kind # "LIST" => literal.items = <<>>
    /\ literal.kind # "OBJECT" => literal.fields = <<>>
    /\ literal.kind \in {"NULL_VALUE", "LIST", "OBJECT"} => literal.scalar = ""
    /\ CASE literal.kind = "BOOLEAN" -> literal.scalar \in {"true", "false"}
         [] literal.kind = "INTEGER" -> Made(literal.scalar, {"digit", "dash"})
         [] literal.kind = "STRING" -> "invalid" \notin Shape[literal.scalar].has
         [] literal.kind = "ENUM_VALUE" -> IsName(literal.scalar) /\ literal.scalar \notin {"true", "false", "null"}
         [] literal.kind = "LIST" ->
              /\ Len(literal.items) <= 4096
              /\ \A i \in DOMAIN literal.items : ValidateLiteral(literal.items[i], depth + 1)
         [] literal.kind = "OBJECT" ->
              /\ Len(literal.fields) <= 4096
              /\ \A i \in DOMAIN literal.fields :
                    /\ IsName(literal.fields[i].name)
                    /\ \A j \in 1..(i - 1) : literal.fields[j].name # literal.fields[i].name
                    /\ ValidateLiteral(literal.fields[i].value, depth + 1)
         [] OTHER -> literal.kind = "NULL_VALUE"

\* Two selections overlap when one selects what the other does, or an object the
\* other selects a field of; an object is opened for one selection only.
Overlap(p, q) == p[1] = q[1]

ValidateCompiledGraphqlQueryRecipe(recipe) ==
    LET page == recipe.variables[1]
        cursor == recipe.variables[2]
        reserved == {"data", "errors", "nodes", recipe.pageInfo, recipe.hasNext, recipe.endCursor}
        arguments == <<page.argument, cursor.argument>>
                       \o [i \in DOMAIN recipe.arguments |-> recipe.arguments[i].name]
    IN
    /\ IsName(recipe.operationName)
    /\ Len(recipe.root) \in 1..16
    /\ Len(recipe.arguments) <= 64
    /\ Len(recipe.selections) \in 1..256
    /\ \A name \in {recipe.pageInfo, recipe.hasNext, recipe.endCursor, page.name, cursor.name} : IsName(name)
    /\ recipe.pageInfo # "nodes"
    /\ recipe.hasNext # recipe.endCursor
    /\ page.name # cursor.name
    /\ IsInjective(recipe.root)
    /\ \A i \in DOMAIN recipe.root : IsName(recipe.root[i]) /\ recipe.root[i] \notin reserved
    /\ IsInjective(arguments)
    /\ \A i \in DOMAIN arguments : IsName(arguments[i])
    /\ \A i \in DOMAIN recipe.arguments : ValidateLiteral(recipe.arguments[i].value, 1)
    /\ \A i \in DOMAIN recipe.selections :
          LET selection == recipe.selections[i] IN
          /\ IsColumnName(selection.column)
          /\ Len(selection.path) \in 1..2
          /\ \A k \in DOMAIN selection.path : IsName(selection.path[k])
          /\ \A j \in 1..(i - 1) :
                /\ recipe.selections[j].column # selection.column
                /\ ~Overlap(recipe.selections[j].path, selection.path)

----------------------------------------------------------------------------
\* Rendering

\* Sequences of tokens put one after the other, separated by commas.
Listed(sequences) ==
    FlattenSeq([i \in DOMAIN sequences |-> IF i = 1 THEN sequences[i] ELSE <<",">> \o sequences[i]])

RECURSIVE RenderLiteral(_)
RenderLiteral(literal) ==
    CASE literal.kind = "NULL_VALUE" -> <<"null">>
      [] literal.kind = "STRING" -> <<"quote", literal.scalar, "quote">>
      [] literal.kind = "LIST" ->
           <<"[">> \o Listed([i \in DOMAIN literal.items |-> RenderLiteral(literal.items[i])]) \o <<"]">>
      [] literal.kind = "OBJECT" ->
           <<"{">>
             \o Listed([i \in DOMAIN literal.fields |->
                          <<literal.fields[i].name, ":">> \o RenderLiteral(literal.fields[i].value)])
             \o <<"}">>
      [] OTHER -> <<literal.scalar>>

RenderCompiledGraphqlQueryRecipe(recipe) ==
    LET page == recipe.variables[1]
        cursor == recipe.variables[2]
        Joined(sequence, Tokens(_)) == FlattenSeq([i \in DOMAIN sequence |-> Tokens(sequence[i])])
        Selection(selection) ==
            IF Len(selection.path) = 1 THEN selection.path
            ELSE <<selection.path[1], "{", selection.path[2], "}">>
    IN <<"query", recipe.operationName, "(", "$", page.name, ":", "Int!", "$", cursor.name, ":", "String", ")", "{">>
         \o Joined(Front(recipe.root), LAMBDA name : <<name, "{">>)
         \o <<Last(recipe.root), "(", page.argument, ":", "$", page.name, cursor.argument, ":", "$", cursor.name>>
         \o Joined(recipe.arguments, LAMBDA argument : <<argument.name, ":">> \o RenderLiteral(argument.value))
         \o <<")", "{", "nodes", "{">>
         \o Joined(recipe.selections, Selection)
         \o <<"}", recipe.pageInfo, "{", recipe.hasNext, recipe.endCursor, "}">>
         \o Joined(recipe.root, LAMBDA name : <<"}">>)
         \o <<"}">>

\* The bytes of a document, up to white space.
DocumentBytes(document) ==
    FoldSeq(LAMBDA token, n : n + (IF token \in DOMAIN Shape THEN Size(token) ELSE 1), 0, document)
=============================================================================
