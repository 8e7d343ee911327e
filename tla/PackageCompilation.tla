------------------------- MODULE PackageCompilation -------------------------
(***************************************************************************)
(* The result of compiling one package snapshot                            *)
(* (src/src/connector/compiler/package_compiler.cpp and                    *)
(* package_model_compiler.cpp): the schema phase, the compile phase and    *)
(* the constructors of the compiled catalog, in the order the code runs    *)
(* them.  A constructor that refuses its arguments ends the compilation    *)
(* with an exception instead of a diagnostic.                              *)
(***************************************************************************)
EXTENDS PackageCompiler

Model == INSTANCE CatalogModel

\* A pagination is constructed as soon as its page numbers fit, before the rest of
\* the operation is looked at.
ThrowsInOperation(relation, operation) ==
    /\ ~IsGraphql(operation)
    /\ CompileSelector_Codes(relation, operation) = {}
    /\ FitsBigintPageSequence(operation.pagination)
    /\ ~Model!CompiledPagination(CompilePagination(operation.pagination))

\* A relation without a diagnostic is constructed whatever the other relations report.
RelationResult(manifest, relation, operations, predicates, codes) ==
    LET constructed == IF codes = {} THEN {CompileRelation(manifest, relation, operations, predicates)} ELSE {}
    IN [codes |-> codes, constructed |-> constructed,
        throws |-> \/ \E i \in DOMAIN relation.operations : ThrowsInOperation(relation, relation.operations[i])
                   \/ \E model \in constructed : ~Model!CompiledRelation(model)]

CompileDeclaredRelation(manifest, relation, operations) ==
    LET predicates == CompilePredicateMappings(relation, operations)
    IN RelationResult(manifest, relation, operations, predicates,
                      CompileRelation_Codes(manifest, relation, predicates))

Rejected(codes) == [kind |-> "rejected", codes |-> codes]

Thrown == [kind |-> "thrown"]

Published(connector) == [kind |-> "published", connector |-> connector]

\* The package is constructed when no relation reports anything, and the manifest neither.
CompilePackageDeclaration(package, results) ==
    LET codes == ValidateManifestPolicy(package) \cup Each(results, LAMBDA result : result.codes)
        connector == CompileConnector(package, Map(results, LAMBDA result : The(result.constructed)))
    IN IF \E i \in DOMAIN results : results[i].throws THEN Thrown
       ELSE IF codes # {} THEN Rejected(codes)
       ELSE IF ~Model!CompiledConnector(connector) THEN Thrown
       ELSE Published(connector)

\* The compile phase only sees a package without schema diagnostics.
CompilePackage(package) ==
    LET codes == DecodePackageSchema(package)
        Result(relation) == CompileDeclaredRelation(package.manifest, relation, CompileOperations(relation))
    IN IF codes # {} THEN Rejected(codes)
       ELSE CompilePackageDeclaration(package, Map(package.relations, Result))
=============================================================================
