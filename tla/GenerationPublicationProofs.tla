-------------------- MODULE GenerationPublicationProofs ---------------------
(***************************************************************************)
(* The safety of package publication, for every number of contexts,        *)
(* connectors and generations.                                             *)
(*                                                                         *)
(* None of the properties is inductive alone.  The catalog and the registry*)
(* agree at a commit because the statement's base is the catalog           *)
(* (BaseCurrent) and its snapshot the registry (SeenCurrent); both follow  *)
(* from the locks the statement holds (LocksFollowStatements); and that a  *)
(* change is an advance follows from the order in which generations are    *)
(* compiled (Numbered).  Together they make a publication one step of the  *)
(* abstract specification (PublishedGenerations).                          *)
(***************************************************************************)
EXTENDS GenerationPublication, TLAPS

Snapshots == [Connectors -> Nat]

Phases == {"idle", "bound", "compiled", "staging", "staged", "publishing", "held", "written",
           "committed", "leased"}

Statements ==
    [phase : Phases, intent : {"LOAD", "RELOAD"}, connector : Connectors, base : Snapshots,
     seen : Snapshots, candidate : Nat, compatible : BOOLEAN]

StateOK ==
    /\ catalog \in Snapshots /\ active \in Snapshots \cup {Null}
    /\ compiled \in Nat /\ stmt \in [Contexts -> Statements]
    /\ active = Null => closing

\* Every generation anybody has seen was compiled, and a candidate that is not
\* the generation of the base is newer than all of the base.
Numbered ==
    /\ \A k \in Connectors : catalog[k] <= compiled
    /\ \A c \in Contexts :
          /\ \A k \in Connectors : stmt[c].base[k] <= compiled
          /\ stmt[c].candidate <= compiled
          /\ stmt[c].phase \notin {"idle", "bound"} /\ Changed(c) =>
                \A k \in Connectors : stmt[c].base[k] < stmt[c].candidate

\* What a statement with a guard publishes is a change.
GuardedChange ==
    \A c \in Contexts :
        stmt[c].phase \in {"held", "written", "committed", "leased"} => Changed(c)

\* A lease keeps the registry at the snapshot it was staged on, and its candidate
\* is newer than what the snapshot has.
SeenCurrent ==
    \A c \in Contexts : LeasePending(c) =>
        /\ active = stmt[c].seen
        /\ stmt[c].seen[stmt[c].connector] < stmt[c].candidate

\* The guard keeps the catalog where its holder found it, or put it.
BaseCurrent ==
    \A c \in Contexts :
        /\ At(c, "written") => catalog = stmt[c].base
        /\ At(c, "committed") => Target(c) = catalog
        /\ At(c, "leased") => catalog[stmt[c].connector] = stmt[c].candidate

IInv ==
    /\ StateOK /\ Numbered /\ GuardedChange /\ LocksFollowStatements
    /\ SeenCurrent /\ BaseCurrent /\ CatalogMatchesRegistry

-----------------------------------------------------------------------------

\* The statement nobody runs is one.
LEMMA NoStatementType == NoStatement \in Statements /\ NoGenerations \in Snapshots
BY PublicationAssumption DEF NoStatement, NoGenerations, Statements, Snapshots, Phases

\* Nothing is published and nobody runs a statement.
LEMMA InitHolds == Init => IInv
<1> SUFFICES ASSUME Init PROVE IInv
  OBVIOUS
<1> USE PublicationAssumption DEF Init
<1>1. \A c \in Contexts : stmt[c] = NoStatement
  OBVIOUS
<1>2. \A c \in Contexts : stmt[c].phase = "idle" /\ stmt[c].candidate = 0 /\ stmt[c].base = NoGenerations
  BY <1>1 DEF NoStatement
<1>3. StateOK
  BY NoStatementType DEF StateOK, Snapshots
<1>4. Numbered
  BY <1>2 DEF Numbered, NoGenerations
<1>5. GuardedChange /\ SeenCurrent /\ BaseCurrent /\ CatalogMatchesRegistry
  BY <1>2 DEF GuardedChange, SeenCurrent, BaseCurrent, CatalogMatchesRegistry, LeasePending, At
<1>6. LocksFollowStatements
  BY <1>2 DEF LocksFollowStatements, LeasePending
<1> QED  BY <1>3, <1>4, <1>5, <1>6 DEF IInv

\* A statement that ends, except between the two commits, disturbs nothing.
LEMMA EndHolds ==
    ASSUME IInv, NEW c \in Contexts, NEW r, End(c, r), ~At(c, "committed"),
           UNCHANGED <<catalog, active, closing, compiled>>
    PROVE  IInv'
<1> USE PublicationAssumption DEF IInv
<1>1. stmt' = [stmt EXCEPT ![c] = NoStatement] /\ stmt'[c] = NoStatement /\ \A d \in Contexts \ {c} : stmt'[d] = stmt[d]
  BY DEF End, StateOK
<1>2. stmt'[c].phase = "idle" /\ stmt'[c].candidate = 0 /\ stmt'[c].base = NoGenerations
  BY <1>1 DEF NoStatement
<1>3. StateOK'
  BY <1>1, NoStatementType DEF StateOK
<1>4. Numbered'
  BY <1>1, <1>2 DEF Numbered, NoGenerations, Changed, StateOK
<1>5. GuardedChange' /\ SeenCurrent' /\ BaseCurrent'
  BY <1>1, <1>2 DEF GuardedChange, SeenCurrent, BaseCurrent, LeasePending, At, Changed, Target
<1>6. LocksFollowStatements'
  <2>1. \A d \in Contexts \ {c} : (LeasePending(d)' <=> LeasePending(d)) /\ stmt'[d].phase = stmt[d].phase
    BY <1>1 DEF LeasePending, Changed
  <2>2. ~LeasePending(c)' /\ stmt'[c].phase = "idle"
    BY <1>2 DEF LeasePending
  <2>3. stageLock' = Free(stageLock, c) /\ guard' = Free(guard, c)
    BY DEF End
  <2> QED  BY <2>1, <2>2, <2>3 DEF LocksFollowStatements, Free
<1>7. CatalogMatchesRegistry'
  <2>1. CASE active = Null \/ active = catalog
    BY <2>1 DEF CatalogMatchesRegistry
  <2>2. ASSUME NEW d \in Contexts, At(d, "committed"), stageLock = d, Target(d) = catalog
        PROVE  CatalogMatchesRegistry'
    <3>1. d # c /\ stmt'[d] = stmt[d]
      BY <1>1, <2>2
    <3>2. stageLock' = d
      BY <2>2, <3>1 DEF End, Free
    <3> QED  BY <2>2, <3>1, <3>2 DEF CatalogMatchesRegistry, At, Target
  <2> QED  BY <2>1, <2>2 DEF CatalogMatchesRegistry
<1> QED  BY <1>3, <1>4, <1>5, <1>6, <1>7

\* No error path between the bind and the commit disturbs anything.
LEMMA FailsHolds ==
    ASSUME IInv, NEW c \in Contexts, Fails(c), ~At(c, "committed")
    PROVE  IInv'
BY EndHolds DEF Fails

\* A step of a statement that holds neither mutex before or after it, and that
\* publishes nothing, disturbs only the numbering.
LEMMA UnlockedHolds ==
    ASSUME IInv, NEW c \in Contexts, NEW s \in Statements,
           stmt' = [stmt EXCEPT ![c] = s],
           stmt[c].phase \in {"idle", "bound", "compiled"},
           s.phase \in {"bound", "compiled", "staging"},
           compiled' \in Nat, compiled <= compiled', s.candidate <= compiled',
           \A k \in Connectors : s.base[k] <= compiled',
           s.phase # "bound" /\ s.candidate # s.base[s.connector] =>
               \A k \in Connectors : s.base[k] < s.candidate,
           UNCHANGED <<catalog, active, closing, stageLock, guard>>
    PROVE  IInv'
<1> USE PublicationAssumption DEF IInv
<1>1. stmt'[c] = s /\ \A d \in Contexts \ {c} : stmt'[d] = stmt[d]
  BY DEF StateOK
<1>2. StateOK'
  BY DEF StateOK
<1>3. Numbered'
  <2>1. \A k \in Connectors : catalog'[k] <= compiled'
    BY DEF Numbered, StateOK, Snapshots
  <2>2. ASSUME NEW d \in Contexts \ {c}
        PROVE  /\ \A k \in Connectors : stmt'[d].base[k] <= compiled'
               /\ stmt'[d].candidate <= compiled'
               /\ stmt'[d].phase \notin {"idle", "bound"} /\ Changed(d)' =>
                     \A k \in Connectors : stmt'[d].base[k] < stmt'[d].candidate
    <3>1. stmt[d] \in Statements /\ stmt'[d] = stmt[d]
      BY <1>1 DEF StateOK
    <3>2. stmt[d].candidate \in Nat /\ \A k \in Connectors : stmt[d].base[k] \in Nat
      BY <3>1 DEF Statements, Snapshots
    <3> QED  BY <3>1, <3>2 DEF Numbered, StateOK, Changed
  <2> QED  BY <1>1, <2>1, <2>2 DEF Numbered, Changed
<1>4. GuardedChange' /\ SeenCurrent' /\ BaseCurrent'
  BY <1>1 DEF GuardedChange, SeenCurrent, BaseCurrent, LeasePending, At, Changed, Target
<1>5. LocksFollowStatements'
  <2>1. \A d \in Contexts \ {c} : (LeasePending(d)' <=> LeasePending(d)) /\ stmt'[d].phase = stmt[d].phase
    BY <1>1 DEF LeasePending, Changed
  <2>2. ~LeasePending(c)' /\ ~LeasePending(c)
    BY <1>1 DEF LeasePending
  <2> QED  BY <1>1, <2>1, <2>2 DEF LocksFollowStatements
<1>6. CatalogMatchesRegistry'
  BY <1>1 DEF CatalogMatchesRegistry, At, Target
<1> QED  BY <1>2, <1>3, <1>4, <1>5, <1>6

\* A statement is bound to the committed catalog.
LEMMA BindHolds ==
    ASSUME IInv, NEW c \in Contexts, NEW intent \in {"LOAD", "RELOAD"}, NEW k \in Connectors,
           Bind(c, intent, k)
    PROVE  IInv'
<1> DEFINE s == [NoStatement EXCEPT !.phase = "bound", !.intent = intent, !.connector = k, !.base = catalog]
<1>1. s \in Statements /\ s.phase = "bound" /\ s.candidate = 0 /\ s.base = catalog
  BY NoStatementType, Zenon DEF IInv, StateOK, NoStatement, Statements, Phases
<1>2. compiled \in Nat /\ compiled' = compiled /\ \A j \in Connectors : catalog[j] <= compiled
  BY DEF IInv, StateOK, Numbered, Bind
<1>3. stmt' = [stmt EXCEPT ![c] = s] /\ stmt[c].phase = "idle"
  BY DEF Bind, At
<1>4. PICK t : t = s
  OBVIOUS
<1>5. /\ t \in Statements /\ t.phase = "bound" /\ t.candidate <= compiled'
      /\ \A j \in Connectors : t.base[j] <= compiled'
      /\ stmt' = [stmt EXCEPT ![c] = t] /\ compiled' \in Nat /\ compiled <= compiled'
  BY <1>1, <1>2, <1>3, <1>4
<1> HIDE DEF s
<1> QED  BY <1>3, <1>5, UnlockedHolds, Zenon DEF Bind

\* A generation that is compiled is newer than everything before it.
LEMMA CompileHolds ==
    ASSUME IInv, NEW c \in Contexts, NEW same \in BOOLEAN, NEW compatible \in BOOLEAN,
           Compile(c, same, compatible)
    PROVE  IInv'
<1> DEFINE candidate == IF same THEN stmt[c].base[stmt[c].connector] ELSE compiled + 1
           s == [stmt[c] EXCEPT !.phase = "compiled", !.compatible = compatible, !.candidate = candidate]
<1>1. /\ stmt[c] \in Statements /\ compiled \in Nat
      /\ stmt[c].base \in Snapshots /\ stmt[c].connector \in Connectors
      /\ \A k \in Connectors : stmt[c].base[k] \in Nat /\ stmt[c].base[k] <= compiled
  BY DEF IInv, StateOK, Statements, Snapshots, Numbered
<1>2. compiled' \in Nat /\ compiled <= compiled' /\ candidate \in Nat /\ candidate <= compiled'
      /\ (~same => candidate = compiled + 1)
  BY <1>1 DEF Compile
<1>3. stmt' = [stmt EXCEPT ![c] = s] /\ stmt[c].phase = "bound"
  BY Zenon DEF Compile, At, IInv, StateOK
<1>4. s \in Statements /\ s.phase = "compiled" /\ s.candidate = candidate /\ s.base = stmt[c].base
      /\ s.connector = stmt[c].connector
  BY <1>1, <1>2, Zenon DEF Statements, Phases
<1>5. candidate # stmt[c].base[stmt[c].connector] => \A k \in Connectors : stmt[c].base[k] < candidate
  BY <1>1, <1>2
<1>6. \A k \in Connectors : stmt[c].base[k] <= compiled'
  BY <1>1, <1>2
<1>7. PICK t : t = s
  OBVIOUS
<1> HIDE DEF s, candidate
<1>8. /\ t \in Statements /\ t.phase = "compiled" /\ t.candidate <= compiled'
      /\ \A k \in Connectors : t.base[k] <= compiled'
      /\ t.candidate # t.base[t.connector] => \A k \in Connectors : t.base[k] < t.candidate
      /\ stmt' = [stmt EXCEPT ![c] = t]
  BY <1>2, <1>3, <1>4, <1>5, <1>6, <1>7
<1> QED  BY <1>2, <1>3, <1>8, UnlockedHolds, Zenon DEF Compile

\* The snapshot of the registry is read, or the statement fails.
LEMMA ReadSnapshotHolds ==
    ASSUME IInv, NEW c \in Contexts, ReadSnapshot(c)
    PROVE  IInv'
<1> DEFINE s == [stmt[c] EXCEPT !.phase = "staging", !.seen = active]
<1>1. CASE ~MaySnapshot(c)
  BY <1>1, FailsHolds DEF ReadSnapshot, At
<1>2. CASE MaySnapshot(c)
  <2>1. stmt[c] \in Statements /\ compiled \in Nat /\ active \in Snapshots
    BY <1>2 DEF IInv, StateOK, MaySnapshot
  <2>2. stmt' = [stmt EXCEPT ![c] = s] /\ stmt[c].phase = "compiled"
        /\ UNCHANGED <<catalog, active, closing, stageLock, guard, compiled>>
    BY <1>2, Zenon DEF ReadSnapshot, At, IInv, StateOK
  <2>3. s \in Statements /\ s.phase = "staging" /\ s.candidate = stmt[c].candidate /\ s.base = stmt[c].base
        /\ s.connector = stmt[c].connector
    BY <2>1, Zenon DEF Statements, Phases
  <2>4. /\ \A k \in Connectors : s.base[k] <= compiled
        /\ s.candidate <= compiled
        /\ s.candidate # s.base[s.connector] => \A k \in Connectors : s.base[k] < s.candidate
    BY <2>2, <2>3 DEF IInv, Numbered, Changed
  <2>5. PICK t : t = s
    OBVIOUS
  <2> HIDE DEF s
  <2>6. /\ t \in Statements /\ t.phase = "staging" /\ t.candidate <= compiled'
        /\ \A k \in Connectors : t.base[k] <= compiled'
        /\ t.candidate # t.base[t.connector] => \A k \in Connectors : t.base[k] < t.candidate
        /\ stmt' = [stmt EXCEPT ![c] = t] /\ compiled' \in Nat /\ compiled <= compiled'
    BY <2>1, <2>2, <2>3, <2>4, <2>5
  <2> QED  BY <2>2, <2>6, UnlockedHolds, Zenon
<1> QED  BY <1>1, <1>2

-----------------------------------------------------------------------------
\* A statement that changes its phase keeps the rest of its record, the other
\* statements keep theirs, and so does what is said of them apart from the phase.
Moved(c, p) ==
    /\ stmt' \in [Contexts -> Statements]
    /\ stmt'[c].phase = p
    /\ stmt'[c].base = stmt[c].base /\ stmt'[c].seen = stmt[c].seen
    /\ stmt'[c].candidate = stmt[c].candidate /\ stmt'[c].connector = stmt[c].connector
    /\ \A d \in Contexts \ {c} : stmt'[d] = stmt[d]
    /\ Changed(c)' <=> Changed(c)
    /\ Target(c)' = Target(c)
    /\ \A d \in Contexts \ {c} : /\ Changed(d)' <=> Changed(d)
                                 /\ LeasePending(d)' <=> LeasePending(d)
                                 /\ Target(d)' = Target(d)

\* Every change of phase is of that kind.
LEMMA GotoMoves ==
    ASSUME IInv, NEW c \in Contexts, NEW p \in Phases, Goto(c, p)
    PROVE  Moved(c, p)
<1>1. stmt \in [Contexts -> Statements] /\ stmt[c] \in Statements
  BY DEF IInv, StateOK
<1>2. stmt' = [stmt EXCEPT ![c] = [stmt[c] EXCEPT !.phase = p]]
  BY <1>1 DEF Goto
<1>3. [stmt[c] EXCEPT !.phase = p] \in Statements
  BY <1>1 DEF Statements
<1>4. /\ stmt' \in [Contexts -> Statements]
      /\ stmt'[c].phase = p
      /\ stmt'[c].base = stmt[c].base /\ stmt'[c].seen = stmt[c].seen
      /\ stmt'[c].candidate = stmt[c].candidate /\ stmt'[c].connector = stmt[c].connector
      /\ \A d \in Contexts \ {c} : stmt'[d] = stmt[d]
  BY <1>1, <1>2, <1>3 DEF Statements
<1> QED  BY <1>4 DEF Moved, Changed, LeasePending, Target

\* The numbering does not depend on the phase.
LEMMA GotoNumbered ==
    ASSUME IInv, NEW c \in Contexts, NEW p \in Phases, Goto(c, p),
           stmt[c].phase \notin {"idle", "bound"}, UNCHANGED compiled,
           \A k \in Connectors : catalog'[k] <= compiled
    PROVE  Numbered'
<1>m. Moved(c, p)
  BY GotoMoves
<1>1. ASSUME NEW d \in Contexts
      PROVE  /\ \A k \in Connectors : stmt'[d].base[k] <= compiled'
             /\ stmt'[d].candidate <= compiled'
             /\ stmt'[d].phase \notin {"idle", "bound"} /\ Changed(d)' =>
                   \A k \in Connectors : stmt'[d].base[k] < stmt'[d].candidate
  <2>1. CASE d = c
    BY <1>m, <2>1 DEF Moved, IInv, Numbered
  <2>2. CASE d # c
    BY <1>m, <2>2 DEF Moved, IInv, Numbered
  <2> QED  BY <2>1, <2>2
<1> QED  BY <1>1 DEF Numbered

\* Steps between phases that hold the same locks and publish nothing.
LEMMA SameLocksHolds ==
    ASSUME IInv, NEW c \in Contexts, NEW p \in Phases, Goto(c, p),
           \/ stmt[c].phase = "staged" /\ p = "publishing"
           \/ stmt[c].phase = "held" /\ p = "written" /\ catalog = stmt[c].base,
           UNCHANGED <<catalog, active, closing, stageLock, guard, compiled>>
    PROVE  IInv'
<1>m. Moved(c, p)
  BY GotoMoves
<1>1. StateOK'
  BY <1>m DEF Moved, StateOK, IInv
<1>2. Numbered'
  BY GotoNumbered DEF Numbered, IInv
<1>3. GuardedChange'
  BY <1>m DEF Moved, GuardedChange, IInv
<1>4. LeasePending(c)' <=> LeasePending(c)
  BY <1>m DEF Moved, LeasePending
<1>5. LocksFollowStatements'
  BY <1>m, <1>4 DEF Moved, LocksFollowStatements, IInv
<1>6. SeenCurrent'
  BY <1>m, <1>4 DEF Moved, SeenCurrent, IInv
<1>7. BaseCurrent'
  BY <1>m DEF Moved, BaseCurrent, At, IInv
<1>8. CatalogMatchesRegistry'
  BY <1>m DEF Moved, CatalogMatchesRegistry, At, IInv
<1> QED  BY <1>1, <1>2, <1>3, <1>5, <1>6, <1>7, <1>8 DEF IInv

\* Under the mutex the snapshot is compared with the registry: it is the base of the lease.
LEMMA StageHolds ==
    ASSUME IInv, NEW c \in Contexts, Stage(c)
    PROVE  IInv'
<1>1. CASE interrupted[c] \/ closing \/ ~Stageable(c)
  BY <1>1, FailsHolds DEF Stage, At
<1>2. CASE ~(interrupted[c] \/ closing \/ ~Stageable(c))
  <2>1. /\ stmt[c].phase = "staging" /\ stageLock = Nobody /\ Stageable(c) /\ Goto(c, "staged")
        /\ stageLock' = IF Changed(c) THEN c ELSE Nobody
        /\ UNCHANGED <<catalog, active, closing, guard, compiled>>
    BY <1>2 DEF Stage, At
  <2>2. "staged" \in Phases
    BY DEF Phases
  <2>m. Moved(c, "staged")
    BY <2>1, <2>2, GotoMoves
  <2>3. StateOK'
    BY <2>1, <2>m DEF Moved, StateOK, IInv
  <2>4. Numbered'
    BY <2>2, <2>1, GotoNumbered, Zenon DEF Numbered, IInv
  <2>5. GuardedChange'
    BY <2>1, <2>m, Zenon DEF Moved, GuardedChange, IInv
  <2>6. /\ LeasePending(c)' <=> Changed(c)
        /\ \A d \in Contexts : ~LeasePending(d)
    BY <2>1, <2>m, PublicationAssumption DEF Moved, LeasePending, LocksFollowStatements,
       IInv
  <2>7. LocksFollowStatements'
    BY <2>1, <2>m, <2>6, PublicationAssumption DEF Moved, LocksFollowStatements, IInv
  <2>8. SeenCurrent'
    <3>1. SUFFICES ASSUME Changed(c)
                   PROVE  active = stmt[c].seen /\ stmt[c].seen[stmt[c].connector] < stmt[c].candidate
      BY <2>1, <2>m, <2>6, Zenon DEF Moved, SeenCurrent
    <3>2. stmt[c] \in Statements
      BY DEF StateOK, IInv
    <3>3. stmt[c].connector \in Connectors /\ stmt[c].base[stmt[c].connector] \in Nat /\ stmt[c].candidate \in Nat
      BY <3>2 DEF Statements, Snapshots
    <3>4. stmt[c].base[stmt[c].connector] < stmt[c].candidate
      BY <2>1, <3>1, <3>3 DEF Numbered, IInv
    <3>5. stmt[c].seen[stmt[c].connector] \in {0, stmt[c].base[stmt[c].connector]}
      BY <2>1 DEF Stageable
    <3> QED  BY <2>1, <3>3, <3>4, <3>5 DEF Stageable, CurrentBase
  <2>9. BaseCurrent'
    BY <2>1, <2>m DEF Moved, BaseCurrent, At, IInv
  <2>10. CatalogMatchesRegistry'
    BY <2>1, <2>6 DEF CatalogMatchesRegistry, At, LeasePending, IInv
  <2> QED  BY <2>3, <2>4, <2>5, <2>7, <2>8, <2>9, <2>10 DEF IInv
<1> QED  BY <1>1, <1>2

\* The guard is taken by a statement that changes something.
LEMMA PublishHolds ==
    ASSUME IInv, NEW c \in Contexts, Publish(c)
    PROVE  IInv'
<1>1. CASE Fails(c)
  BY <1>1, FailsHolds DEF Publish, At
<1>2. CASE End(c, "UNCHANGED") /\ UNCHANGED <<catalog, active, queryClosing, closing, compiled, interrupted>>
  BY <1>2, EndHolds DEF Publish, At
<1>3. CASE ~Fails(c) /\ ~(End(c, "UNCHANGED") /\ UNCHANGED <<catalog, active, queryClosing, closing, compiled,
                                                           interrupted>>)
  <2>1. /\ stmt[c].phase = "publishing" /\ guard = Nobody /\ guard' = c /\ Changed(c) /\ Goto(c, "held")
        /\ UNCHANGED <<catalog, active, closing, stageLock, compiled>>
    BY <1>3 DEF Publish, At
  <2>2. "held" \in Phases
    BY DEF Phases
  <2>m. Moved(c, "held")
    BY <2>1, <2>2, GotoMoves
  <2>3. StateOK'
    BY <2>1, <2>m DEF Moved, StateOK, IInv
  <2>4. Numbered'
    BY <2>2, <2>1, GotoNumbered, Zenon DEF Numbered, IInv
  <2>5. GuardedChange'
    BY <2>1, <2>m, Zenon DEF Moved, GuardedChange, IInv
  <2>6. LeasePending(c)' /\ LeasePending(c)
    BY <2>1, <2>m DEF Moved, LeasePending
  <2>7. LocksFollowStatements'
    BY <2>1, <2>m, <2>6, PublicationAssumption, Zenon DEF Moved, LocksFollowStatements, IInv
  <2>8. SeenCurrent'
    BY <2>1, <2>m, <2>6, Zenon DEF Moved, SeenCurrent, IInv
  <2>9. BaseCurrent'
    BY <2>1, <2>m, Zenon DEF Moved, BaseCurrent, At, IInv
  <2>10. CatalogMatchesRegistry'
    BY <2>1, <2>m, Zenon DEF Moved, CatalogMatchesRegistry, At, IInv
  <2> QED  BY <2>3, <2>4, <2>5, <2>7, <2>8, <2>9, <2>10 DEF IInv
<1> QED  BY <1>1, <1>2, <1>3

\* The base is the catalog and the snapshot the registry, so that both commits
\* move the same connector of the same generations.
LEMMA CommitCatalogHolds ==
    ASSUME IInv, NEW c \in Contexts, CommitCatalog(c)
    PROVE  /\ IInv'
           /\ Advances(catalog, catalog')
<1>1. /\ stmt[c].phase = "written" /\ Goto(c, "committed")
      /\ catalog' = [stmt[c].base EXCEPT ![stmt[c].connector] = stmt[c].candidate]
      /\ UNCHANGED <<active, closing, stageLock, guard, compiled>>
  BY DEF CommitCatalog, At
<1>2. "committed" \in Phases
  BY DEF Phases
<1>3. /\ stmt[c] \in Statements /\ stmt[c].candidate \in Nat /\ stmt[c].connector \in Connectors
      /\ stmt[c].base \in Snapshots /\ compiled \in Nat
  BY DEF IInv, StateOK, Statements
<1>4. /\ LeasePending(c) /\ stageLock = c /\ guard = c /\ catalog = stmt[c].base /\ active = stmt[c].seen
      /\ Changed(c)
  BY <1>1 DEF IInv, LeasePending, LocksFollowStatements, BaseCurrent, SeenCurrent, GuardedChange, At
<1>5. active = catalog
  <2>1. active # Null
    BY <1>3, <1>4, PublicationAssumption DEF IInv, StateOK, Statements, Snapshots
  <2> QED  BY <1>1, <1>4, <2>1 DEF IInv, CatalogMatchesRegistry, At
<1>6. Target(c) = catalog' /\ catalog' \in Snapshots
  BY <1>1, <1>3, <1>4, <1>5 DEF Target, Snapshots
<1>7. stmt[c].candidate <= compiled /\ stmt[c].base[stmt[c].connector] < stmt[c].candidate
      /\ \A k \in Connectors : stmt[c].base[k] <= compiled
  BY <1>1, <1>3, <1>4 DEF IInv, Numbered
<1>8. \A k \in Connectors : catalog'[k] <= compiled
  BY <1>1, <1>3, <1>7 DEF Snapshots
<1>9. Advances(catalog, catalog')
  <2>1. catalog' = [catalog EXCEPT ![stmt[c].connector] = catalog'[stmt[c].connector]]
    BY <1>1, <1>3, <1>4 DEF Snapshots
  <2>2. catalog'[stmt[c].connector] = stmt[c].candidate /\ catalog[stmt[c].connector] \in Nat
    BY <1>1, <1>3, <1>4 DEF Snapshots
  <2> QED  BY <1>3, <1>4, <1>7, <2>1, <2>2 DEF Advances
<1>10. IInv'
  <2>m. Moved(c, "committed")
    BY <1>1, <1>2, GotoMoves
  <2>1. StateOK'
    BY <1>1, <2>m, <1>6, Zenon DEF Moved, StateOK, IInv
  <2>2. Numbered'
    BY <1>2, <1>1, <1>8, GotoNumbered
  <2>3. GuardedChange'
    BY <1>1, <2>m, Zenon DEF Moved, GuardedChange, IInv
  <2>4. LeasePending(c)'
    BY <1>1, <2>m, Zenon DEF Moved, LeasePending
  <2>5. LocksFollowStatements'
    BY <1>1, <2>m, <1>4, <2>4, Zenon DEF Moved, LocksFollowStatements, IInv
  <2>6. SeenCurrent'
    BY <1>1, <2>m, <1>4, <2>4, Zenon DEF Moved, SeenCurrent, IInv
  <2>7. \A d \in Contexts \ {c} : stmt[d].phase \notin {"held", "written", "committed", "leased"}
    BY <1>4 DEF LocksFollowStatements, IInv
  <2>8. BaseCurrent'
    BY <1>1, <2>m, <1>6, <2>7 DEF Moved, BaseCurrent, At
  <2>9. CatalogMatchesRegistry'
    BY <1>1, <2>m, <1>4, <1>6, Zenon DEF Moved, CatalogMatchesRegistry, At
  <2> QED  BY <2>1, <2>2, <2>3, <2>5, <2>6, <2>8, <2>9 DEF IInv
<1> QED  BY <1>9, <1>10

\* The registry moves from the snapshot to the target, which the catalog already is.
LEMMA LeaseCommitHolds ==
    ASSUME IInv, NEW c \in Contexts, LeaseCommit(c)
    PROVE  /\ IInv'
           /\ active # Null /\ Advances(active, active')
<1>1. /\ stmt[c].phase = "committed" /\ Goto(c, "leased") /\ active' = Target(c) /\ stageLock' = Nobody
      /\ UNCHANGED <<catalog, closing, guard, compiled>>
  BY DEF LeaseCommit, At
<1>2. "leased" \in Phases
  BY DEF Phases
<1>3. /\ stmt[c] \in Statements /\ stmt[c].candidate \in Nat /\ stmt[c].connector \in Connectors
      /\ stmt[c].seen \in Snapshots
  BY DEF IInv, StateOK, Statements
<1>4. /\ LeasePending(c) /\ stageLock = c /\ guard = c /\ Target(c) = catalog /\ active = stmt[c].seen
      /\ stmt[c].seen[stmt[c].connector] < stmt[c].candidate
  BY <1>1, Zenon DEF IInv, LeasePending, LocksFollowStatements, BaseCurrent, SeenCurrent, At
<1>5. active # Null
  BY <1>3, <1>4, PublicationAssumption DEF Snapshots
<1>6. Advances(active, active')
  <2>1. active' = [active EXCEPT ![stmt[c].connector] = active'[stmt[c].connector]]
        /\ active'[stmt[c].connector] = stmt[c].candidate /\ active[stmt[c].connector] \in Nat
    BY <1>1, <1>3, <1>4, Zenon DEF Target, Snapshots
  <2> QED  BY <1>3, <1>4, <2>1, Zenon DEF Advances
<1>7. IInv'
  <2>m. Moved(c, "leased")
    BY <1>1, <1>2, GotoMoves, Zenon
  <2>1. active' = catalog' /\ catalog' \in Snapshots /\ active' # Null
    BY <1>1, <1>4, PublicationAssumption DEF StateOK, Snapshots, IInv
  <2>2. StateOK'
    BY <1>1, <2>m, <2>1 DEF Moved, StateOK, IInv
  <2>3. Numbered'
    BY <1>2, <1>1, GotoNumbered, Zenon DEF Numbered, IInv
  <2>4. GuardedChange'
    BY <1>1, <2>m, Zenon DEF Moved, GuardedChange, IInv
  <2>5. ~LeasePending(c)' /\ \A d \in Contexts \ {c} : ~LeasePending(d)
    BY <1>1, <2>m, <1>4, Zenon DEF Moved, LeasePending, LocksFollowStatements, IInv
  <2>6. LocksFollowStatements'
    BY <1>1, <2>m, <1>4, <2>5, PublicationAssumption, Zenon DEF Moved, LocksFollowStatements,
       IInv
  <2>7. SeenCurrent'
    BY <1>1, <2>m, <2>5, Zenon DEF Moved, SeenCurrent
  <2>8. catalog[stmt[c].connector] = stmt[c].candidate
    BY <1>3, <1>4 DEF Target, Snapshots
  <2>9. BaseCurrent'
    BY <1>1, <2>m, <2>8 DEF Moved, BaseCurrent, At, IInv
  <2>10. CatalogMatchesRegistry'
    BY <2>1 DEF CatalogMatchesRegistry
  <2> QED  BY <2>2, <2>3, <2>4, <2>6, <2>7, <2>9, <2>10 DEF IInv
<1> QED  BY <1>5, <1>6, <1>7

\* Close drops the registry when no lease is out.
LEMMA RegistryDropsHolds == ASSUME IInv, RegistryDrops PROVE IInv'
<1>1. closing /\ stageLock = Nobody /\ active' = Null
      /\ UNCHANGED <<catalog, closing, stageLock, guard, compiled, stmt>>
  BY DEF RegistryDrops, MayDrop
<1>2. \A c \in Contexts : ~LeasePending(c)
  BY <1>1, PublicationAssumption DEF IInv, LocksFollowStatements
<1> USE <1>1 DEF IInv
<1>3. StateOK' /\ CatalogMatchesRegistry'
  BY DEF StateOK, CatalogMatchesRegistry
<1>4. Numbered' /\ GuardedChange' /\ BaseCurrent'
  BY Zenon DEF Numbered, GuardedChange, BaseCurrent, Changed, At, Target
<1>5. LocksFollowStatements' /\ SeenCurrent'
  BY <1>2 DEF LocksFollowStatements, SeenCurrent, LeasePending, Changed
<1> QED  BY <1>3, <1>4, <1>5

\* Interrupts and the first two steps of Close, like stuttering, touch no statement.
LEMMA QuietHolds ==
    ASSUME IInv, UNCHANGED <<catalog, active, stageLock, guard, compiled, stmt>>, closing => closing'
    PROVE  IInv'
<1> USE DEF IInv
<1>1. StateOK' /\ CatalogMatchesRegistry'
  BY DEF StateOK, CatalogMatchesRegistry, At, Target
<1>2. Numbered' /\ GuardedChange' /\ BaseCurrent'
  BY Zenon DEF Numbered, GuardedChange, BaseCurrent, Changed, At, Target
<1>3. LocksFollowStatements' /\ SeenCurrent'
  BY Zenon DEF LocksFollowStatements, SeenCurrent, LeasePending, Changed
<1> QED  BY <1>1, <1>2, <1>3

\* Every step of a statement that is not a wait for a mutex keeps the invariant.
LEMMA WorkHolds ==
    ASSUME IInv, NEW c \in Contexts, Work(c)
    PROVE  IInv'
<1>1. CASE CompileFails(c) \/ StageGivesUp(c) \/ PublishGivesUp(c) \/ NameConflict(c) \/ Rollback(c)
  BY <1>1, FailsHolds DEF CompileFails, StageGivesUp, PublishGivesUp, NameConflict, Rollback, At
<1>2. CASE \E same \in BOOLEAN, compatible \in BOOLEAN : Compile(c, same, compatible)
  BY <1>2, CompileHolds
<1>3. CASE ReadSnapshot(c)
  BY <1>3, ReadSnapshotHolds
<1>4. CASE EnterPublish(c)
  BY <1>4, FailsHolds, SameLocksHolds, Zenon DEF EnterPublish, At, Phases
<1>5. CASE WriteCatalog(c)
  BY <1>5, FailsHolds, SameLocksHolds DEF WriteCatalog, Replaceable, At, Phases
<1>6. CASE CommitCatalog(c)
  BY <1>6, CommitCatalogHolds
<1>7. CASE LeaseCommit(c)
  BY <1>7, LeaseCommitHolds
<1>8. CASE ReleaseGuard(c)
  BY <1>8, EndHolds DEF ReleaseGuard, At
<1> QED  BY <1>1, <1>2, <1>3, <1>4, <1>5, <1>6, <1>7, <1>8 DEF Work

\* Every step keeps the invariant.
LEMMA StepHolds == IInv /\ [Next]_vars => IInv'
<1> SUFFICES ASSUME IInv, [Next]_vars PROVE IInv'
  OBVIOUS
<1>1. ASSUME NEW c \in Contexts, NEW intent \in {"LOAD", "RELOAD"}, NEW k \in Connectors, Bind(c, intent, k)
      PROVE  IInv'
  BY <1>1, BindHolds
<1>2. ASSUME NEW c \in Contexts, Work(c) \/ Stage(c) \/ Publish(c)
      PROVE  IInv'
  BY <1>2, WorkHolds, StageHolds, PublishHolds
<1>3. ASSUME NEW c \in Contexts, Interrupt(c)
      PROVE  IInv'
  BY <1>3, QuietHolds DEF Interrupt
<1>4. CASE BeginClose \/ RegistryRefuses
  BY <1>4, QuietHolds DEF BeginClose, RegistryRefuses
<1>5. CASE RegistryDrops
  BY <1>5, RegistryDropsHolds
<1>6. CASE UNCHANGED vars
  BY <1>6, QuietHolds DEF vars
<1> QED  BY <1>1, <1>2, <1>3, <1>4, <1>5, <1>6 DEF Next

\* The inductive invariant above holds in every state of every publication.
THEOREM PublicationInvariant == Spec => []IInv
BY InitHolds, StepHolds, PTL DEF Spec

-----------------------------------------------------------------------------
(* The properties.                                                         *)

\* However many contexts load and reload, fail, are interrupted or rolled back, the
\* registry's mutex is held exactly by the statement with the lease and the
\* coordinator's by the one with the guard (Stage, Publish and every way out of them).
THEOREM LocksHeld == Spec => []LocksFollowStatements
<1>1. IInv => LocksFollowStatements
  BY DEF IInv
<1> QED  BY <1>1, PublicationInvariant, PTL

\* The registry and the committed catalog publish the same generations, but between
\* the commit of the catalog and the one of the lease (TransactionCommit).
THEOREM CatalogFollowed == Spec => []CatalogMatchesRegistry
<1>1. IInv => CatalogMatchesRegistry
  BY DEF IInv
<1> QED  BY <1>1, PublicationInvariant, PTL

\* The catalog changes when DuckDB commits it, the registry with the lease or Close.
LEMMA WhoPublishes ==
    ASSUME Next
    PROVE  /\ catalog' # catalog => \E c \in Contexts : CommitCatalog(c)
           /\ active' # active => RegistryDrops \/ \E c \in Contexts : LeaseCommit(c)
<1>1. ASSUME NEW c \in Contexts, Fails(c)
      PROVE  UNCHANGED <<catalog, active>>
  BY <1>1 DEF Fails
<1>2. ASSUME NEW c \in Contexts, Work(c), ~CommitCatalog(c), ~LeaseCommit(c)
      PROVE  UNCHANGED <<catalog, active>>
  BY <1>1, <1>2, Zenon DEF Work, CompileFails, Compile, ReadSnapshot, StageGivesUp, EnterPublish,
     PublishGivesUp,
                    NameConflict, WriteCatalog, Rollback, ReleaseGuard
<1>3. ASSUME NEW c \in Contexts, Work(c)
      PROVE  /\ catalog' # catalog => CommitCatalog(c)
             /\ active' # active => LeaseCommit(c)
  BY <1>2, <1>3, Zenon DEF CommitCatalog, LeaseCommit
<1>4. ASSUME NEW c \in Contexts, Stage(c) \/ Publish(c) \/ Interrupt(c)
      PROVE  UNCHANGED <<catalog, active>>
  BY <1>1, <1>4, Zenon DEF Stage, Publish, Interrupt
<1>5. ASSUME NEW c \in Contexts, NEW intent, NEW k, Bind(c, intent, k)
      PROVE  UNCHANGED <<catalog, active>>
  BY <1>5 DEF Bind
<1>6. CASE BeginClose \/ RegistryRefuses
  BY <1>6 DEF BeginClose, RegistryRefuses
<1>7. CASE RegistryDrops
  BY <1>7 DEF RegistryDrops
<1> QED  BY <1>3, <1>4, <1>5, <1>6, <1>7 DEF Next

\* No statement undoes what another one published: every change of the catalog and of
\* the registry moves one connector to a newer generation and keeps all the others,
\* whatever was published between the bind, the snapshot and the commit.
THEOREM UpdatesKept == Spec => NoLostUpdate
<1>1. IInv /\ [Next]_vars =>
        [/\ catalog' # catalog => Advances(catalog, catalog')
         /\ active' # active => active' = Null \/ (active # Null /\ Advances(active, active'))]_vars
  BY WhoPublishes, CommitCatalogHolds, LeaseCommitHolds DEF RegistryDrops
<1> QED  BY <1>1, PublicationInvariant, PTL DEF Spec, NoLostUpdate

Results == {"NONE", "ERROR", "UNCHANGED", "CHANGED"}

ResultOK == result \in [Contexts -> Results]

\* A statement that reports a change does so when it gives the guard back.
LEMMA WhoReports ==
    ASSUME ResultOK, [Next]_vars
    PROVE  /\ ResultOK'
           /\ \A c \in Contexts : result[c] # "CHANGED" /\ result'[c] = "CHANGED" => ReleaseGuard(c)
<1> DEFINE Silent == /\ ResultOK'
                     /\ \A c \in Contexts : ~(result[c] # "CHANGED" /\ result'[c] = "CHANGED")
<1> USE DEF ResultOK, Results
<1>1. ASSUME NEW c \in Contexts, NEW r \in {"ERROR", "UNCHANGED", "NONE"}, result' = [result EXCEPT ![c] = r]
      PROVE  Silent
  BY <1>1
<1>2. ASSUME UNCHANGED result
      PROVE  Silent
  BY <1>2
<1>3. ASSUME NEW c \in Contexts, Fails(c)
      PROVE  Silent
  BY <1>1, <1>3 DEF Fails, End
<1>4. ASSUME NEW c \in Contexts, ReleaseGuard(c)
      PROVE  /\ ResultOK'
             /\ \A d \in Contexts : result[d] # "CHANGED" /\ result'[d] = "CHANGED" => ReleaseGuard(d)
  BY <1>4, Zenon DEF ReleaseGuard, End
<1> HIDE DEF Silent
<1>5. ASSUME NEW c \in Contexts, Work(c), ~ReleaseGuard(c)
      PROVE  Silent
  BY <1>2, <1>3, <1>5, Zenon DEF Work, CompileFails, Compile, ReadSnapshot, StageGivesUp, EnterPublish,
     PublishGivesUp,
                          NameConflict, WriteCatalog, Rollback, CommitCatalog, LeaseCommit
<1>6. ASSUME NEW c \in Contexts, Stage(c) \/ Interrupt(c)
      PROVE  Silent
  BY <1>2, <1>3, <1>6 DEF Stage, Interrupt
<1>7. ASSUME NEW c \in Contexts, Publish(c)
      PROVE  Silent
  <2>1. Fails(c) \/ End(c, "UNCHANGED") \/ UNCHANGED result
    BY <1>7 DEF Publish
  <2> QED  BY <1>1, <1>2, <1>3, <2>1 DEF End
<1>8. ASSUME NEW c \in Contexts, NEW intent, NEW k, Bind(c, intent, k)
      PROVE  Silent
  BY <1>1, <1>8, Zenon DEF Bind
<1>9. CASE BeginClose \/ RegistryRefuses \/ RegistryDrops \/ UNCHANGED vars
  BY <1>2, <1>9 DEF BeginClose, RegistryRefuses, RegistryDrops, vars
<1> QED  BY <1>4, <1>5, <1>6, <1>7, <1>8, <1>9 DEF Next, Silent

\* A statement that reports a change has published it: when its row is returned, its
\* generation is the active one in the catalog and, unless the database closes, in the
\* registry, whoever else is staging by then (ReleaseGuard after LeaseCommit).
THEOREM ChangesReported == Spec => ReportedChangeIsActive
<1>1. Init => ResultOK
  BY DEF Init, ResultOK, Results
<1>2. ResultOK /\ [Next]_vars => ResultOK'
  BY WhoReports
<1>3. ASSUME IInv, NEW c \in Contexts, ReleaseGuard(c)
      PROVE  /\ catalog[stmt[c].connector] = stmt[c].candidate
             /\ active = Null \/ active[stmt[c].connector] = stmt[c].candidate
  <2>1. stmt[c].phase = "leased" /\ guard = c /\ catalog[stmt[c].connector] = stmt[c].candidate
    BY <1>3, Zenon DEF ReleaseGuard, At, IInv, LocksFollowStatements, BaseCurrent
  <2>2. \A d \in Contexts : ~At(d, "committed")
    BY <2>1, <1>3 DEF IInv, LocksFollowStatements, At
  <2> QED  BY <2>1, <2>2, <1>3 DEF IInv, CatalogMatchesRegistry
<1>4. IInv /\ ResultOK /\ [Next]_vars =>
        [\A c \in Contexts :
           result[c] # "CHANGED" /\ result'[c] = "CHANGED" =>
               /\ catalog[stmt[c].connector] = stmt[c].candidate
               /\ active = Null \/ active[stmt[c].connector] = stmt[c].candidate]_vars
  BY <1>3, WhoReports
<1> QED  BY <1>1, <1>2, <1>4, PublicationInvariant, PTL DEF Spec, ReportedChangeIsActive

-----------------------------------------------------------------------------
(* Publication is one step on top of what the statement was bound to.      *)

Outlines == [c \in Contexts |-> Outline(stmt[c])]

\* What is seen of a statement: whether it runs, what it has read, whether it has published.
LEMMA OutlineFacts ==
    ASSUME NEW s
    PROVE  /\ s.phase = "idle" => Outline(s) = Publication!Idle /\ ~Outline(s).running
           /\ s.phase \notin {"idle", "committed", "leased"} =>
                /\ Outline(s) = [running |-> TRUE, base |-> s.base, published |-> FALSE]
                /\ Outline(s).running /\ ~Outline(s).published /\ Outline(s).base = s.base
           /\ s.phase \in {"committed", "leased"} =>
                /\ Outline(s) = [running |-> TRUE, base |-> s.base, published |-> TRUE]
                /\ Outline(s).running /\ Outline(s).published
<1>1. s.phase = "idle" => Outline(s) = Publication!Idle /\ ~Publication!Idle.running
  BY Zenon DEF Outline, Publication!Idle, Publication!NoGenerations, NoGenerations
<1>2. CASE s.phase \notin {"idle", "committed", "leased"}
  <2>1. (s.phase \in {"committed", "leased"}) = FALSE
    BY <1>2
  <2>2. Outline(s) = [running |-> TRUE, base |-> s.base, published |-> FALSE]
    BY <1>2, <2>1, Zenon DEF Outline
  <2> QED  BY <1>2, <2>2
<1>3. CASE s.phase \in {"committed", "leased"}
  <2>1. (s.phase \in {"committed", "leased"}) = TRUE /\ s.phase # "idle"
    BY <1>3
  <2>2. Outline(s) = [running |-> TRUE, base |-> s.base, published |-> TRUE]
    BY <2>1, Zenon DEF Outline
  <2> QED  BY <1>3, <2>2
<1> QED  BY <1>1, <1>2, <1>3

PublicationStep == [Publication!Next]_(Publication!publicationVars)

\* A step inside a statement, away from its commit, is not seen.
LEMMA OutlinesKept ==
    ASSUME IInv, NEW c \in Contexts, \A d \in Contexts \ {c} : stmt'[d] = stmt[d],
           stmt[c].phase # "idle", stmt'[c].phase # "idle", stmt'[c].base = stmt[c].base,
           stmt[c].phase \in {"committed", "leased"} <=> stmt'[c].phase \in {"committed", "leased"}
    PROVE  Outlines' = Outlines
<1>1. Outline(stmt'[c]) = Outline(stmt[c])
  BY OutlineFacts, Zenon
<1>2. ASSUME NEW d \in Contexts \ {c} PROVE Outline(stmt'[d]) = Outline(stmt[d])
  OBVIOUS
<1> QED  BY <1>1, <1>2, Zenon DEF Outlines

\* What is seen of a step of one statement.
LEMMA OutlinesChange ==
    ASSUME IInv, NEW c \in Contexts, NEW s, stmt' = [stmt EXCEPT ![c] = s]
    PROVE  /\ Outlines' = [Outlines EXCEPT ![c] = Outline(s)]
           /\ Outlines[c] = Outline(stmt[c])
           /\ stmt'[c] = s
<1>1. stmt'[c] = s /\ \A d \in Contexts \ {c} : stmt'[d] = stmt[d]
  BY DEF IInv, StateOK
<1>2. \A d \in Contexts : Outline(stmt'[d]) = IF d = c THEN Outline(s) ELSE Outline(stmt[d])
  BY <1>1
<1>3. Outlines' = [Outlines EXCEPT ![c] = Outline(s)]
  BY <1>2, Zenon DEF Outlines
<1> QED  BY <1>1, <1>3 DEF Outlines

\* A step that publishes nothing and is inside a statement.
LEMMA InsideRefines ==
    ASSUME Outlines' = Outlines, UNCHANGED <<catalog, active, result>>
    PROVE  PublicationStep
BY DEF Outlines, PublicationStep, Publication!publicationVars

\* A statement that ends says whether it has published.
LEMMA EndRefines ==
    ASSUME IInv, NEW c \in Contexts, NEW r \in {"ERROR", "UNCHANGED", "CHANGED"}, End(c, r),
           UNCHANGED <<catalog, active>>, ~At(c, "idle"), ~At(c, "committed"), r = "CHANGED" <=> At(c, "leased")
    PROVE  PublicationStep
<1>1. stmt' = [stmt EXCEPT ![c] = NoStatement] /\ result' = [result EXCEPT ![c] = r]
  BY DEF End
<1>2. Outlines' = [Outlines EXCEPT ![c] = Outline(NoStatement)] /\ Outlines[c] = Outline(stmt[c])
  BY <1>1, OutlinesChange, Zenon
<1>3. Outline(NoStatement) = Publication!Idle
  BY OutlineFacts DEF NoStatement
<1>4. Outlines[c].running /\ (Outlines[c].published <=> At(c, "leased"))
  BY <1>2, OutlineFacts DEF At
<1>5. At(c, "leased") => active \in {catalog, Null}
  <2> SUFFICES ASSUME At(c, "leased") PROVE active \in {catalog, Null}
    OBVIOUS
  <2>1. guard = c
    BY DEF At, IInv, LocksFollowStatements
  <2>2. \A d \in Contexts : ~At(d, "committed")
    BY <2>1 DEF At, IInv, LocksFollowStatements
  <2> QED  BY <2>2 DEF IInv, CatalogMatchesRegistry
<1>6. Publication!End(c, r)
  BY <1>1, <1>2, <1>3, <1>4, <1>5, Zenon DEF Publication!End, Outlines
<1> QED  BY <1>6 DEF PublicationStep, Publication!Next

\* The errors before the commit.
LEMMA FailsRefines ==
    ASSUME IInv, NEW c \in Contexts, Fails(c), stmt[c].phase \notin {"idle", "committed", "leased"}
    PROVE  PublicationStep
BY EndRefines, Zenon DEF Fails, At

\* A step to another phase before the commit.
LEMMA GotoRefines ==
    ASSUME IInv, NEW c \in Contexts, NEW phase, Goto(c, phase), UNCHANGED <<catalog, active, result>>,
           stmt[c].phase \notin {"idle", "committed", "leased"}, phase \notin {"idle", "committed", "leased"}
    PROVE  PublicationStep
<1>1. /\ \A d \in Contexts \ {c} : stmt'[d] = stmt[d]
      /\ stmt'[c].phase = phase /\ stmt'[c].base = stmt[c].base
  BY DEF Goto, IInv, StateOK, Statements
<1> QED  BY <1>1, OutlinesKept, InsideRefines

\* A statement reads the catalog when it is bound.
LEMMA BindRefines ==
    ASSUME IInv, NEW c \in Contexts, NEW intent \in {"LOAD", "RELOAD"}, NEW k \in Connectors, Bind(c, intent, k)
    PROVE  PublicationStep
<1> DEFINE s == [NoStatement EXCEPT !.phase = "bound", !.intent = intent, !.connector = k, !.base = catalog]
<1>1. /\ At(c, "idle") /\ UNCHANGED <<catalog, active>> /\ result' = [result EXCEPT ![c] = "NONE"]
      /\ stmt' = [stmt EXCEPT ![c] = s]
  BY Zenon DEF Bind
<1>2. s.phase = "bound" /\ s.base = catalog
  BY DEF NoStatement
<1> HIDE DEF s
<1>3. Outlines' = [Outlines EXCEPT ![c] = Outline(s)] /\ Outlines[c] = Outline(stmt[c])
  BY <1>1, OutlinesChange, Zenon
<1>4. Outline(s) = [running |-> TRUE, base |-> catalog, published |-> FALSE]
  BY <1>2, OutlineFacts
<1>5. ~Outlines[c].running
  BY <1>1, <1>3, OutlineFacts DEF At
<1>6. Publication!Bind(c)
  BY <1>1, <1>3, <1>4, <1>5, Zenon DEF Publication!Bind, Outlines
<1> QED  BY <1>6 DEF PublicationStep, Publication!Next

\* The catalog is what the statement has read, and the registry agrees with it.
LEMMA CommitRefines ==
    ASSUME IInv, NEW c \in Contexts, CommitCatalog(c)
    PROVE  PublicationStep
<1> DEFINE s == stmt[c]
<1>1. /\ s.phase = "written" /\ Goto(c, "committed") /\ UNCHANGED <<active, result>>
      /\ catalog' = [s.base EXCEPT ![s.connector] = s.candidate]
  BY DEF CommitCatalog, At
<1>2. /\ s \in Statements /\ s.candidate \in Nat /\ s.connector \in Connectors /\ s.base \in Snapshots
      /\ s.seen \in Snapshots
  BY DEF IInv, StateOK, Statements
<1>3. /\ stageLock = c /\ catalog = s.base /\ active = s.seen
      /\ \A k \in Connectors : s.base[k] < s.candidate
  BY <1>1, Zenon DEF IInv, LeasePending, LocksFollowStatements, BaseCurrent, SeenCurrent, GuardedChange,
     Numbered, At
<1>4. active = catalog
  <2>1. active # Null
    BY <1>2, <1>3, PublicationAssumption DEF Snapshots
  <2> QED  BY <1>1, <1>3, <2>1 DEF IInv, CatalogMatchesRegistry, At
<1>5. stmt' = [stmt EXCEPT ![c] = [s EXCEPT !.phase = "committed"]]
  BY <1>1 DEF Goto, IInv, StateOK
<1>6. Outlines' = [Outlines EXCEPT ![c] = Outline([s EXCEPT !.phase = "committed"])] /\ Outlines[c] = Outline(s)
  BY <1>5, OutlinesChange, Zenon
<1>7. [s EXCEPT !.phase = "committed"].phase = "committed" /\ [s EXCEPT !.phase = "committed"].base = s.base
  BY <1>2 DEF Statements
<1>8. Outline([s EXCEPT !.phase = "committed"]) = [running |-> TRUE, base |-> s.base, published |-> TRUE]
  BY <1>7, OutlineFacts, Zenon
<1>9. Outlines[c].running /\ ~Outlines[c].published /\ Outlines[c].base = s.base
  BY <1>1, <1>6, OutlineFacts
<1>10. catalog'[s.connector] = s.candidate
  BY <1>1, <1>2 DEF Snapshots
<1>11. /\ s.connector \in Connectors /\ catalog' = [s.base EXCEPT ![s.connector] = catalog'[s.connector]]
       /\ \A other \in Connectors : s.base[other] < catalog'[s.connector]
  BY <1>1, <1>2, <1>3, <1>10, Zenon
<1> HIDE DEF s
<1>12. Publication!Publish(c)
  BY <1>1, <1>3, <1>4, <1>6, <1>8, <1>9, <1>11, Zenon DEF Publication!Publish, Outlines
<1> QED  BY <1>12 DEF PublicationStep, Publication!Next

\* The registry follows the catalog.
LEMMA LeaseRefines ==
    ASSUME IInv, NEW c \in Contexts, LeaseCommit(c)
    PROVE  PublicationStep
<1>1. /\ stmt[c].phase = "committed" /\ Goto(c, "leased") /\ UNCHANGED <<catalog, result>>
      /\ active' = Target(c)
  BY DEF LeaseCommit, At
<1>2. active' = catalog /\ active # Null
  <2>1. Target(c) = catalog /\ active = stmt[c].seen
    BY <1>1, Zenon DEF IInv, BaseCurrent, SeenCurrent, LeasePending, At
  <2>2. stmt[c].seen \in Snapshots
    BY DEF IInv, StateOK, Statements
  <2> QED  BY <1>1, <2>1, <2>2, PublicationAssumption DEF Snapshots
<1>3. /\ \A d \in Contexts \ {c} : stmt'[d] = stmt[d]
      /\ stmt'[c].phase = "leased" /\ stmt'[c].base = stmt[c].base
  BY <1>1 DEF Goto, IInv, StateOK, Statements
<1>4. Outlines' = Outlines
  BY <1>1, <1>3, OutlinesKept, Zenon
<1>5. Publication!Follow
  BY <1>1, <1>2, <1>4, Zenon DEF Publication!Follow, Outlines
<1> QED  BY <1>5 DEF PublicationStep, Publication!Next

\* The registry is dropped with nobody between the two commits.
LEMMA DropRefines ==
    ASSUME IInv, RegistryDrops
    PROVE  PublicationStep
<1>1. active # Null /\ active' = Null /\ stageLock = Nobody /\ UNCHANGED <<catalog, stmt, result>>
  BY DEF RegistryDrops, MayDrop
<1>2. active = catalog
  BY <1>1, PublicationAssumption DEF IInv, CatalogMatchesRegistry
<1>3. Outlines' = Outlines
  BY <1>1 DEF Outlines
<1>4. Publication!Drop
  BY <1>1, <1>2, <1>3, Zenon DEF Publication!Drop, Outlines
<1> QED  BY <1>4 DEF PublicationStep, Publication!Next

\* The steps of a statement other than its bind.
LEMMA StatementRefines ==
    ASSUME IInv, NEW c \in Contexts, Work(c) \/ Stage(c) \/ Publish(c)
    PROVE  PublicationStep
<1>1. CASE CompileFails(c) \/ StageGivesUp(c) \/ PublishGivesUp(c) \/ NameConflict(c) \/ Rollback(c)
  BY <1>1, FailsRefines, Zenon DEF CompileFails, StageGivesUp, PublishGivesUp, NameConflict, Rollback, At
<1>2. ASSUME NEW same \in BOOLEAN, NEW compatible \in BOOLEAN, Compile(c, same, compatible)
      PROVE  PublicationStep
  <2>1. /\ \A d \in Contexts \ {c} : stmt'[d] = stmt[d]
        /\ stmt'[c].phase = "compiled" /\ stmt'[c].base = stmt[c].base
    BY <1>2 DEF Compile, IInv, StateOK, Statements
  <2>2. stmt[c].phase = "bound" /\ UNCHANGED <<catalog, active, result>>
    BY <1>2 DEF Compile, At
  <2> QED  BY <2>1, <2>2, OutlinesKept, InsideRefines
<1>3. CASE ReadSnapshot(c)
  <2>1. CASE ~MaySnapshot(c)
    BY <1>3, <2>1, FailsRefines DEF ReadSnapshot, At
  <2>2. CASE MaySnapshot(c)
    <3>1. stmt[c].phase = "compiled" /\ UNCHANGED <<catalog, active, result>>
      BY <1>3, <2>2 DEF ReadSnapshot, At
    <3>2. /\ \A d \in Contexts \ {c} : stmt'[d] = stmt[d]
          /\ stmt'[c].phase = "staging" /\ stmt'[c].base = stmt[c].base
      BY <1>3, <2>2 DEF ReadSnapshot, IInv, StateOK, Statements
    <3> QED  BY <3>1, <3>2, OutlinesKept, InsideRefines
  <2> QED  BY <2>1, <2>2
<1>4. CASE EnterPublish(c)
  BY <1>4, FailsRefines, GotoRefines DEF EnterPublish, At
<1>5. CASE WriteCatalog(c)
  BY <1>5, FailsRefines, GotoRefines DEF WriteCatalog, At
<1>6. CASE ReleaseGuard(c)
  BY <1>6, EndRefines DEF ReleaseGuard, At
<1>7. CASE Stage(c)
  BY <1>7, FailsRefines, GotoRefines, Zenon DEF Stage, At
<1>8. CASE Publish(c)
  BY <1>8, FailsRefines, EndRefines, GotoRefines, Zenon DEF Publish, At
<1> QED  BY <1>1, <1>2, <1>3, <1>4, <1>5, <1>6, <1>7, <1>8, CommitRefines, LeaseRefines DEF Work

\* Every step of publication is a step of the abstract one, or is not seen.
LEMMA NextRefines == IInv /\ [Next]_vars => PublicationStep
<1> SUFFICES ASSUME IInv, [Next]_vars PROVE PublicationStep
  OBVIOUS
<1>1. ASSUME UNCHANGED <<stmt, catalog, active, result>> PROVE PublicationStep
  BY <1>1, InsideRefines DEF Outlines
<1>2. CASE BeginClose \/ RegistryRefuses \/ UNCHANGED vars \/ \E c \in Contexts : Interrupt(c)
  BY <1>1, <1>2 DEF BeginClose, RegistryRefuses, Interrupt, vars
<1> QED  BY <1>2, BindRefines, StatementRefines, DropRefines DEF Next

\* Loading and reloading, with two mutexes, a lease, failures, interrupts and Close,
\* implements statements that publish in one step on top of exactly the catalog they
\* were bound to, with the registry following (CommitCatalog, LeaseCommit, RegistryDrops).
THEOREM PublicationImplemented == Spec => ImplementsPublication
<1>1. Init => Publication!Init
  <2> SUFFICES ASSUME Init PROVE Publication!Init
    OBVIOUS
  <2>1. Outline(NoStatement) = Publication!Idle
    BY OutlineFacts DEF NoStatement
  <2>2. Outlines = [c \in Contexts |-> Publication!Idle]
    BY <2>1 DEF Outlines, Init
  <2> QED  BY <2>2, Zenon DEF Init, Publication!Init, Outlines, NoGenerations, Publication!NoGenerations
<1>2. IInv /\ [Next]_vars => [Publication!Next]_(Publication!publicationVars)
  BY NextRefines DEF PublicationStep
<1> QED  BY <1>1, <1>2, PublicationInvariant, PTL DEF Spec, ImplementsPublication, Publication!Spec
=============================================================================
