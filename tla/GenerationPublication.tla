----------------------- MODULE GenerationPublication ------------------------
(***************************************************************************)
(* Loading and reloading connector packages: the Query catalog coordinator *)
(* and the Runtime generation registry, published together by the DuckDB   *)
(* transaction of the statement that asks for it.                          *)
(*                                                                         *)
(* A snapshot, of the catalog or of the registry, is the generation that   *)
(* each connector has (0: none).  Generations are never published twice,   *)
(* so two snapshots are the same object just when they are equal.          *)
(*                                                                         *)
(* A statement holds the registry's publication mutex from staging (inside *)
(* its lease) and the coordinator's publication mutex from publication, in *)
(* that order, until its transaction ends.  The catalog commits first, the *)
(* lease after it: in between the two disagree.                            *)
(***************************************************************************)
EXTENDS Naturals, FiniteSets

CONSTANTS
    Contexts,        \* client contexts that load or reload
    Connectors,
    MaxGenerations,  \* bound on the generations ever compiled
    Nobody, Null

ASSUME PublicationAssumption ==
    /\ MaxGenerations \in Nat /\ Connectors # {}
    /\ Nobody \notin Contexts /\ Null \notin [Connectors -> Nat]

VARIABLES
    catalog,       \* the committed catalog of DuckDB
    active,        \* RuntimeGenerationRegistryState::active
    queryClosing,  \* CatalogGenerationCoordinator::closing
    closing,       \* RuntimeGenerationRegistryState::closing
    stageLock,     \* holder of the registry's publication mutex
    guard,         \* holder of the coordinator's publication mutex
    compiled,      \* generations compiled so far
    stmt,          \* the statement each context runs
    interrupted,
    result         \* how the last statement of each context ended

vars == <<catalog, active, queryClosing, closing, stageLock, guard, compiled, stmt,
          interrupted, result>>

NoGenerations == [k \in Connectors |-> 0]

\* base: the catalog snapshot bound; seen: the registry snapshot staged on;
\* candidate: the generation compiled, the active one when nothing changed.
NoStatement ==
    [phase |-> "idle", intent |-> "LOAD", connector |-> CHOOSE k \in Connectors : TRUE,
     base |-> NoGenerations, seen |-> NoGenerations, candidate |-> 0, compatible |-> TRUE]

Init ==
    /\ catalog = NoGenerations /\ active = NoGenerations
    /\ queryClosing = FALSE /\ closing = FALSE
    /\ stageLock = Nobody /\ guard = Nobody
    /\ compiled = 0
    /\ stmt = [c \in Contexts |-> NoStatement]
    /\ interrupted = [c \in Contexts |-> FALSE]
    /\ result = [c \in Contexts |-> "NONE"]

At(c, phase) == stmt[c].phase = phase

Goto(c, phase) == stmt' = [stmt EXCEPT ![c].phase = phase]

\* A reload that found the package as it was; it gets no lease.
Changed(c) == stmt[c].candidate # stmt[c].base[stmt[c].connector]

Target(c) == [stmt[c].seen EXCEPT ![stmt[c].connector] = stmt[c].candidate]

Free(lock, c) == IF lock = c THEN Nobody ELSE lock

\* Fault: a lease that is dropped keeps the registry's mutex.
EndKeepsLease(c, r) ==
    /\ stmt' = [stmt EXCEPT ![c] = NoStatement]
    /\ result' = [result EXCEPT ![c] = r]
    /\ guard' = Free(guard, c)
    /\ UNCHANGED stageLock

\* The statement ends; with it the lease (Discard, unless it was committed)
\* and the guard, whether it throws, is rolled back or returns its row.
End(c, r) ==
    /\ stmt' = [stmt EXCEPT ![c] = NoStatement]
    /\ result' = [result EXCEPT ![c] = r]
    /\ stageLock' = Free(stageLock, c)
    /\ guard' = Free(guard, c)

Fails(c) == End(c, "ERROR") /\ UNCHANGED <<catalog, active, queryClosing, closing, compiled,
                                           interrupted>>

-----------------------------------------------------------------------------
(* Binding and staging.                                                    *)

\* BindLoad and BindReload, in a transaction of their own.
Bind(c, intent, k) ==
    /\ At(c, "idle")
    /\ intent = "RELOAD" => catalog[k] # 0
    /\ stmt' = [stmt EXCEPT ![c] = [NoStatement EXCEPT !.phase = "bound", !.intent = intent,
                                                       !.connector = k, !.base = catalog]]
    /\ interrupted' = [interrupted EXCEPT ![c] = FALSE]
    /\ result' = [result EXCEPT ![c] = "NONE"]
    /\ UNCHANGED <<catalog, active, queryClosing, closing, stageLock, guard, compiled>>

\* The package does not compile, or the registry is closing already.
CompileFails(c) == At(c, "bound") /\ Fails(c)

\* A reload recompiles the package of the generation it was bound to; the
\* classifier compares the two generations.
Compile(c, same, compatible) ==
    /\ At(c, "bound")
    /\ ~closing
    /\ same => stmt[c].intent = "RELOAD" /\ compatible
    /\ stmt[c].intent = "LOAD" => compatible
    /\ ~same => compiled < MaxGenerations
    /\ compiled' = IF same THEN compiled ELSE compiled + 1
    /\ stmt' = [stmt EXCEPT ![c].phase = "compiled", ![c].compatible = compatible,
                            ![c].candidate = IF same THEN stmt[c].base[stmt[c].connector]
                                             ELSE compiled + 1]
    /\ UNCHANGED <<catalog, active, queryClosing, closing, stageLock, guard, interrupted, result>>

MaySnapshot(c) == ~interrupted[c] /\ ~closing

\* Snapshot() and the checks before the wait of AcquireStage.
ReadSnapshot(c) ==
    /\ At(c, "compiled")
    /\ IF ~MaySnapshot(c) THEN Fails(c)
       ELSE /\ stmt' = [stmt EXCEPT ![c].phase = "staging", ![c].seen = active]
            /\ UNCHANGED <<catalog, active, queryClosing, closing, stageLock, guard, compiled,
                           interrupted, result>>

\* A try of 10 milliseconds that did not get the mutex.
StageGivesUp(c) ==
    /\ At(c, "staging") /\ stageLock # Nobody
    /\ interrupted[c] \/ closing
    /\ Fails(c)

\* Fault: the snapshot read before the wait is not compared after it.
CurrentBaseUnchecked(c) == TRUE

\* RequireCurrentBase.
CurrentBase(c) == active = stmt[c].seen

\* The decision is about the generation that is active and about this candidate.
Stageable(c) ==
    LET s == stmt[c]
    IN  /\ CurrentBase(c)
        /\ IF s.intent = "LOAD" THEN s.seen[s.connector] = 0
           ELSE /\ s.seen[s.connector] # 0
                /\ s.seen[s.connector] = s.base[s.connector]
                /\ s.compatible

\* The mutex is taken; a change keeps it inside the lease.
Stage(c) ==
    /\ At(c, "staging") /\ stageLock = Nobody
    /\ IF interrupted[c] \/ closing \/ ~Stageable(c) THEN Fails(c)
       ELSE /\ stageLock' = IF Changed(c) THEN c ELSE Nobody
            /\ Goto(c, "staged")
            /\ UNCHANGED <<catalog, active, queryClosing, closing, guard, compiled, interrupted,
                           result>>

-----------------------------------------------------------------------------
(* Publication.                                                            *)

EnterPublish(c) ==
    /\ At(c, "staged")
    /\ IF interrupted[c] \/ queryClosing THEN Fails(c)
       ELSE Goto(c, "publishing") /\ UNCHANGED <<catalog, active, queryClosing, closing, stageLock,
                                                 guard, compiled, interrupted, result>>

PublishGivesUp(c) ==
    /\ At(c, "publishing") /\ guard # Nobody
    /\ interrupted[c] \/ queryClosing
    /\ Fails(c)

\* An unchanged reload returns its row; a change holds guard and lease from
\* here to the end of the transaction.
Publish(c) ==
    /\ At(c, "publishing") /\ guard = Nobody
    /\ IF \/ interrupted[c] \/ queryClosing
          \/ (stmt[c].intent = "LOAD") # (stmt[c].base[stmt[c].connector] = 0)
       THEN Fails(c)
       ELSE IF ~Changed(c)
       THEN End(c, "UNCHANGED") /\ UNCHANGED <<catalog, active, queryClosing, closing, compiled,
                                               interrupted>>
       ELSE /\ guard' = c
            /\ Goto(c, "held")
            /\ UNCHANGED <<catalog, active, queryClosing, closing, stageLock, compiled,
                           interrupted, result>>

\* A function or macro of the user has the name of a generated one.
NameConflict(c) == At(c, "publishing") /\ guard = Nobody /\ Changed(c) /\ Fails(c)

\* DuckDB: a transaction may replace a function only if nobody has replaced it
\* since the transaction began.
Replaceable(c) == catalog = stmt[c].base

WriteCatalog(c) ==
    /\ At(c, "held")
    /\ IF Replaceable(c)
       THEN Goto(c, "written") /\ UNCHANGED <<catalog, active, queryClosing, closing, stageLock,
                                              guard, compiled, interrupted, result>>
       ELSE Fails(c)

\* DuckDB commits the catalog before it calls TransactionCommit.
CommitCatalog(c) ==
    /\ At(c, "written")
    /\ catalog' = [stmt[c].base EXCEPT ![stmt[c].connector] = stmt[c].candidate]
    /\ Goto(c, "committed")
    /\ UNCHANGED <<active, queryClosing, closing, stageLock, guard, compiled, interrupted, result>>

\* The statement is interrupted, or the commit fails: TransactionRollback.
Rollback(c) == stmt[c].phase \in {"held", "written"} /\ Fails(c)

\* Fault: the lease is given back without publishing its target.
LeaseCommitDiscards(c) ==
    /\ At(c, "committed")
    /\ stageLock' = Nobody
    /\ Goto(c, "leased")
    /\ UNCHANGED <<catalog, active, queryClosing, closing, guard, compiled, interrupted, result>>

\* TransactionCommit: the lease first,
LeaseCommit(c) ==
    /\ At(c, "committed")
    /\ active' = Target(c)
    /\ stageLock' = Nobody
    /\ Goto(c, "leased")
    /\ UNCHANGED <<catalog, queryClosing, closing, guard, compiled, interrupted, result>>

\* the guard after it.
ReleaseGuard(c) ==
    /\ At(c, "leased")
    /\ End(c, "CHANGED")
    /\ UNCHANGED <<catalog, active, queryClosing, closing, compiled, interrupted>>

Interrupt(c) ==
    /\ ~At(c, "idle")
    /\ interrupted' = [interrupted EXCEPT ![c] = TRUE]
    /\ UNCHANGED <<catalog, active, queryClosing, closing, stageLock, guard, compiled, stmt, result>>

-----------------------------------------------------------------------------
(* Closing: the coordinator refuses first, then the registry.              *)

BeginClose ==
    /\ ~queryClosing
    /\ queryClosing' = TRUE
    /\ UNCHANGED <<catalog, active, closing, stageLock, guard, compiled, stmt, interrupted, result>>

RegistryRefuses ==
    /\ queryClosing /\ ~closing
    /\ closing' = TRUE
    /\ UNCHANGED <<catalog, active, queryClosing, stageLock, guard, compiled, stmt, interrupted,
                   result>>

\* Fault: the registry drops its snapshot under a pending lease.
MayDropAnyTime == closing

\* Close waits for the lease that is out.
MayDrop == closing /\ stageLock = Nobody

RegistryDrops ==
    /\ MayDrop /\ active # Null
    /\ active' = Null
    /\ UNCHANGED <<catalog, queryClosing, closing, stageLock, guard, compiled, stmt, interrupted,
                   result>>

Work(c) ==
    \/ CompileFails(c)
    \/ \E same \in BOOLEAN, compatible \in BOOLEAN : Compile(c, same, compatible)
    \/ ReadSnapshot(c) \/ StageGivesUp(c) \/ EnterPublish(c) \/ PublishGivesUp(c)
    \/ NameConflict(c) \/ WriteCatalog(c) \/ CommitCatalog(c) \/ Rollback(c)
    \/ LeaseCommit(c) \/ ReleaseGuard(c)

Next ==
    \/ \E c \in Contexts :
          \/ \E intent \in {"LOAD", "RELOAD"}, k \in Connectors : Bind(c, intent, k)
          \/ Work(c) \/ Stage(c) \/ Publish(c) \/ Interrupt(c)
    \/ BeginClose \/ RegistryRefuses \/ RegistryDrops

Spec == Init /\ [][Next]_vars

\* Statements run to their end, and a thread that keeps trying a timed mutex
\* that is free again and again gets it.
Fairness ==
    /\ \A c \in Contexts : WF_vars(Work(c)) /\ SF_vars(Stage(c)) /\ SF_vars(Publish(c))
    /\ WF_vars(RegistryRefuses) /\ SF_vars(RegistryDrops)

FairSpec == Spec /\ Fairness

-----------------------------------------------------------------------------
(* Properties.                                                             *)

\* Query and Runtime publish the same generations: the registry differs from
\* the committed catalog only between the commit of the catalog and that of
\* the lease, and then by exactly the target of that lease.
CatalogMatchesRegistry ==
    \/ active = Null
    \/ active = catalog
    \/ \E c \in Contexts : At(c, "committed") /\ stageLock = c /\ Target(c) = catalog

Advances(old, new) ==
    \E k \in Connectors : new = [old EXCEPT ![k] = new[k]] /\ new[k] > old[k]

\* No statement undoes what another published (RequireCurrentBase, the lease,
\* catalog conflicts): each change of the catalog and of the registry moves
\* one connector to a newer generation and keeps the others, and a registry
\* that was dropped stays dropped.
NoLostUpdate ==
    [][/\ catalog' # catalog => Advances(catalog, catalog')
       /\ active' # active => active' = Null \/ (active # Null /\ Advances(active, active'))]_vars

LeasePending(c) ==
    \/ stmt[c].phase \in {"held", "written", "committed"}
    \/ stmt[c].phase \in {"staged", "publishing"} /\ Changed(c)

\* A mutex is held exactly by the statement that has the lease or the guard:
\* no way out of a statement leaks one, and nobody holds the coordinator's
\* mutex while waiting for the registry's.
LocksFollowStatements ==
    \A c \in Contexts :
        /\ stageLock = c <=> LeasePending(c)
        /\ guard = c <=> stmt[c].phase \in {"held", "written", "committed", "leased"}

\* A statement that reports a change has published it: its generation is the
\* active one in the catalog and, unless the database closes, in the registry.
ReportedChangeIsActive ==
    [][\A c \in Contexts :
         result[c] # "CHANGED" /\ result'[c] = "CHANGED" =>
             /\ catalog[stmt[c].connector] = stmt[c].candidate
             /\ active = Null \/ active[stmt[c].connector] = stmt[c].candidate]_vars

\* What a statement has read and whether it has published.
Outline(s) ==
    IF s.phase = "idle" THEN [running |-> FALSE, base |-> NoGenerations, published |-> FALSE]
    ELSE [running |-> TRUE, base |-> s.base, published |-> s.phase \in {"committed", "leased"}]

Publication ==
    INSTANCE PublishedGenerations WITH registry <- active, statement <- [c \in Contexts |-> Outline(stmt[c])]

\* The two mutexes, the lease, the check of the base and the order of the two commits
\* make a publication one step on top of what the statement was bound to.
ImplementsPublication == Publication!Spec

\* Every statement ends: nobody waits for a mutex forever, whoever failed, was
\* interrupted or rolled back while holding it; and Close completes.
EveryStatementEnds ==
    /\ \A c \in Contexts : ~At(c, "idle") ~> At(c, "idle")
    /\ queryClosing ~> active = Null

=============================================================================
