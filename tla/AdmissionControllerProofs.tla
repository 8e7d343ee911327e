---------------------- MODULE AdmissionControllerProofs ----------------------
(***************************************************************************)
(* For every set of callers, profile, identity assignment and wait policy: *)
(* the controller's counters are exact and stay within the profile.        *)
(***************************************************************************)
EXTENDS AdmissionController, FiniteSetTheorems, TLAPS

-----------------------------------------------------------------------------
(* Counting units.                                                         *)

Column(c, n) == {c} \X (1..n)

UnitsOf(f, S) == UNION {Column(c, f[c]) : c \in S}

\* One caller's column of n units has n elements.
LEMMA ColumnCardinality ==
    ASSUME NEW c, NEW n \in Nat
    PROVE  IsFiniteSet(Column(c, n)) /\ Cardinality(Column(c, n)) = n
<1>1. IsFiniteSet({c}) /\ Cardinality({c}) = 1
    BY FS_Singleton, Zenon
<1>2. IsFiniteSet(1..n) /\ Cardinality(1..n) = n
    BY FS_Interval
<1>3. /\ IsFiniteSet(Column(c, n))
      /\ Cardinality(Column(c, n)) = Cardinality({c}) * Cardinality(1..n)
    BY <1>1, <1>2, FS_Product, Zenon DEF Column
<1>. QED
    BY <1>1, <1>2, <1>3

\* Finitely many callers hold finitely many units.
LEMMA UnitsFinite ==
    ASSUME NEW S, IsFiniteSet(S), NEW f, \A c \in S : f[c] \in Nat
    PROVE  IsFiniteSet(UnitsOf(f, S))
<1>. DEFINE T == {Column(c, f[c]) : c \in S}
            g == [c \in S |-> Column(c, f[c])]
<1>1. g \in Surjection(S, T)
    BY DEF Surjection
<1>2. IsFiniteSet(T)
    BY <1>1, FS_Surjection
<1>3. \A t \in T : IsFiniteSet(t)
    BY ColumnCardinality
<1>. QED
    BY <1>2, <1>3, FS_UNION DEF UnitsOf

\* When one caller's holding changes, the number of units counted over a set
\* of callers changes by the difference if the set contains that caller.
LEMMA UnitsChange ==
    ASSUME NEW S, IsFiniteSet(S), NEW c,
           NEW f, \A e \in S : f[e] \in Nat,
           NEW g, \A e \in S : g[e] \in Nat,
           \A e \in S \ {c} : g[e] = f[e]
    PROVE  /\ Cardinality(UnitsOf(g, S)) \in Nat
           /\ Cardinality(UnitsOf(f, S)) \in Nat
           /\ Cardinality(UnitsOf(g, S)) =
                 Cardinality(UnitsOf(f, S)) + (IF c \in S THEN g[c] - f[c] ELSE 0)
<1>. DEFINE R == UnitsOf(f, S \ {c})
<1>1. IsFiniteSet(S \ {c})
    BY FS_RemoveElement
<1>2. IsFiniteSet(R) /\ Cardinality(R) \in Nat
    BY <1>1, UnitsFinite, FS_CardinalityType
<1>3. UnitsOf(g, S \ {c}) = R
    BY DEF UnitsOf
<1>4. CASE c \in S
  <2>1. ASSUME NEW h, h[c] \in Nat, UnitsOf(h, S \ {c}) = R
        PROVE  Cardinality(UnitsOf(h, S)) = Cardinality(R) + h[c]
    <3>1. UnitsOf(h, S) = R \cup Column(c, h[c])
        BY <1>4, <2>1 DEF UnitsOf
    <3>2. R \cap Column(c, h[c]) = {}
        BY DEF UnitsOf, Column
    <3>3. IsFiniteSet(Column(c, h[c])) /\ Cardinality(Column(c, h[c])) = h[c]
        BY <2>1, ColumnCardinality
    <3>. HIDE DEF R
    <3>4. Cardinality(UnitsOf(h, S)) =
             Cardinality(R) + Cardinality(Column(c, h[c])) - Cardinality({})
        BY <1>2, <3>1, <3>2, <3>3, FS_Union, ZenonT(30)
    <3>. QED
        BY <1>2, <2>1, <3>3, <3>4, FS_EmptySet
  <2>2. Cardinality(UnitsOf(f, S)) = Cardinality(R) + f[c]
    BY <1>4, <2>1
  <2>3. Cardinality(UnitsOf(g, S)) = Cardinality(R) + g[c]
    BY <1>3, <1>4, <2>1
  <2>. HIDE DEF R
  <2>. QED
    BY <1>2, <1>4, <2>2, <2>3
<1>5. CASE c \notin S
  <2>1. UnitsOf(g, S) = R /\ UnitsOf(f, S) = R
    BY <1>3, <1>5 DEF UnitsOf
  <2>. QED
    BY <1>2, <1>5, <2>1
<1>. QED
    BY <1>4, <1>5

-----------------------------------------------------------------------------
(* The inductive invariant: exact, bounded counters, and what the phase of *)
(* a call says about its permit and about the pass in progress.            *)

RestOK ==
    /\ now \in Nat
    /\ terminal \in {"NONE", "RUNTIME_CLOSED", "TICKET_EXHAUSTED"}
    /\ nextTicket \in [QueuedKinds -> Nat]
    /\ call \in [Callers -> Calls]
    /\ permit \in [Callers -> [Kinds -> Nat]]
    /\ cancelled \subseteq Callers
    /\ result \in [caller : Callers \cup {"none"}, status : Results]
    /\ scan \in [then : {"none", "release", "wait", "unwind"}, kind : Kinds \cup {"none"},
                 owner : Callers \cup {"none"}]
    /\ missed \subseteq Kinds

ResourcesOK ==
    /\ resources \in [Kinds -> [ChargeKeys -> Nat]]
    /\ \A k \in Kinds : \A d \in ChargeKeys : resources[k][d] = Cardinality(Units(k, d))
    /\ \A k \in Kinds : \A d \in ChargeKeys : resources[k][d] <= Limits[k][d[1]]

QueuesOK ==
    /\ queues \in [QueuedKinds -> [ChargeKeys -> Nat]]
    /\ \A k \in QueuedKinds : \A d \in ChargeKeys : queues[k][d] = Cardinality(Waiters(k, d))
    /\ \A k \in QueuedKinds : \A d \in ChargeKeys : queues[k][d] <= QueueLimits[k][d[1]]

PhaseOK ==
    /\ \A c \in Callers :
          /\ call[c].phase # "idle" => call[c].kind \in QueuedKinds
          /\ call[c].phase = "recheck" => permit[c][call[c].kind] = 1
          /\ call[c].phase \in {"queued", "granted"} => permit[c][call[c].kind] = 0
    /\ scan.then # "none" => scan.kind \in Kinds /\ scan.owner \in Callers
    /\ scan.then = "wait" => /\ call[scan.owner].phase \in {"queued", "granted"}
                             /\ call[scan.owner].kind = scan.kind

IInv == RestOK /\ ResourcesOK /\ QueuesOK /\ PhaseOK

-----------------------------------------------------------------------------
(* Lemmas about the dimension vectors.                                     *)

\* Every dimension a caller is charged in names one of the five scopes.
LEMMA ChargeScopes == \A d \in ChargeKeys : d[1] \in Scopes
BY DEF ChargeKeys, Charges, Scopes

\* A caller is only charged in dimensions some counter is kept for.
LEMMA ChargesAreKeys ==
    ASSUME NEW c \in Callers, NEW k \in Kinds
    PROVE  Charges(c, k) \subseteq ChargeKeys
BY DEF ChargeKeys

\* Subtracting is adding the negated amount.
LEMMA SubtractIsAdd ==
    ASSUME NEW k \in Kinds, NEW u \in [ChargeKeys -> Nat], NEW c, NEW n \in Int
    PROVE  SubtractUsage(u, c, k, n) = AddUsage(u, c, k, -n)
BY DEF SubtractUsage, AddUsage

\* Returning a difference is adding it the other way round.
LEMMA SubtractDifference ==
    ASSUME NEW k \in Kinds, NEW u \in [ChargeKeys -> Nat], NEW c, NEW m \in Nat, NEW n \in Nat
    PROVE  SubtractUsage(u, c, k, m - n) = AddUsage(u, c, k, n - m)
<1>1. m - n \in Int /\ -(m - n) = n - m
    OBVIOUS
<1>. QED
    BY <1>1, SubtractIsAdd, Zenon

-----------------------------------------------------------------------------
(* Lemmas about one step of the counters.                                  *)

\* If a step changes the holding of one caller in one kind by n, adds n to
\* that caller's vector, and n is a return or was checked by CheckFits, the
\* usage counters stay exact and within the limits.
LEMMA ResourceStep ==
    ASSUME ResourcesOK, NEW c \in Callers, NEW k \in Kinds, NEW n \in Int,
           \A e \in Callers : \A j \in Kinds : Held(e, j) \in Nat /\ Held(e, j)' \in Nat,
           \A e \in Callers : \A j \in Kinds : (e # c \/ j # k) => Held(e, j)' = Held(e, j),
           Held(c, k)' = Held(c, k) + n,
           resources' = [resources EXCEPT ![k] = AddUsage(resources[k], c, k, n)],
           n <= 0 \/ Fits(resources[k], Limits[k], c, k, n)
    PROVE  ResourcesOK'
<1>1. ASSUME NEW j \in Kinds, NEW d \in ChargeKeys
      PROVE  /\ Cardinality(Units(j, d)') \in Nat
             /\ Cardinality(Units(j, d)') = Cardinality(Units(j, d))
                   + (IF j = k /\ d \in Charges(c, k) THEN n ELSE 0)
  <2>. DEFINE S == Charged(j, d)
              f == [e \in Callers |-> Held(e, j)]
              g == [e \in Callers |-> Held(e, j)']
  <2>1. IsFiniteSet(S) /\ S \subseteq Callers
    BY CallersAssumption, FS_Subset DEF Charged
  <2>2. Units(j, d) = UnitsOf(f, S)
    BY <2>1, Zenon DEF Units, UnitsOf, Column
  <2>3. Units(j, d)' = UnitsOf(g, S)
    BY <2>1 DEF Units, UnitsOf, Column, Charged
  <2>4. \A e \in S : f[e] \in Nat /\ g[e] \in Nat
    BY <2>1
  <2>5. \A e \in S \ {c} : g[e] = f[e]
    BY <2>1
  <2>6. c \in S <=> d \in Charges(c, j)
    BY DEF Charged
  <2>7. g[c] - f[c] = IF j = k THEN n ELSE 0
    OBVIOUS
  <2>. HIDE DEF S, f, g
  <2>8. /\ Cardinality(UnitsOf(g, S)) \in Nat
        /\ Cardinality(UnitsOf(f, S)) \in Nat
        /\ Cardinality(UnitsOf(g, S)) =
             Cardinality(UnitsOf(f, S)) + (IF c \in S THEN g[c] - f[c] ELSE 0)
    BY <2>1, <2>4, <2>5, UnitsChange
  <2>. QED
    BY <2>2, <2>3, <2>6, <2>7, <2>8
<1>2. ASSUME NEW j \in Kinds, NEW d \in ChargeKeys
      PROVE  /\ resources[j][d] \in Nat
             /\ resources'[j][d] = resources[j][d]
                   + (IF j = k /\ d \in Charges(c, k) THEN n ELSE 0)
    BY DEF ResourcesOK, AddUsage
<1>3. resources' \in [Kinds -> [ChargeKeys -> Int]]
    BY DEF ResourcesOK, AddUsage
<1>4. ASSUME NEW j \in Kinds, NEW d \in ChargeKeys
      PROVE  /\ resources'[j][d] \in Nat
             /\ resources'[j][d] = Cardinality(Units(j, d)')
    BY <1>1, <1>2 DEF ResourcesOK
<1>5. ASSUME NEW j \in Kinds, NEW d \in ChargeKeys
      PROVE  resources'[j][d] <= Limits[j][d[1]]
  <2>1. Limits[j][d[1]] \in Nat
    BY ChargeScopes, LimitsAssumption
  <2>2. j = k /\ d \in Charges(c, k) /\ ~(n <= 0) => resources[j][d] + n <= Limits[j][d[1]]
    BY <1>2, <2>1 DEF Fits, Blocking
  <2>. QED
    BY <1>2, <2>1, <2>2 DEF ResourcesOK
<1>6. resources' \in [Kinds -> [ChargeKeys -> Nat]]
    BY <1>3, <1>4
<1>. QED
    BY <1>4, <1>5, <1>6 DEF ResourcesOK

\* A step that moves no unit keeps the usage counters right.
LEMMA ResourceStutter ==
    ASSUME ResourcesOK, resources' = resources,
           \A e \in Callers : \A j \in Kinds : Held(e, j)' = Held(e, j)
    PROVE  ResourcesOK'
<1>1. ASSUME NEW j \in Kinds, NEW d \in ChargeKeys
      PROVE  Units(j, d)' = Units(j, d)
    BY DEF Units, Charged
<1>. QED
    BY <1>1 DEF ResourcesOK

\* A ticket that joins a queue it fits keeps the queue counters right.
LEMMA QueueJoin ==
    ASSUME QueuesOK, NEW c \in Callers, NEW k \in QueuedKinds,
           ~Queued(c, k), Queued(c, k)',
           \A e \in Callers : \A j \in QueuedKinds :
                (e # c \/ j # k) => (Queued(e, j)' <=> Queued(e, j)),
           queues' = [queues EXCEPT ![k] = AddUsage(queues[k], c, k, 1)],
           Fits(queues[k], QueueLimits[k], c, k, 1)
    PROVE  QueuesOK'
<1>1. ASSUME NEW j \in QueuedKinds, NEW d \in ChargeKeys
      PROVE  /\ Waiters(j, d)' = IF j = k /\ d \in Charges(c, k)
                                 THEN Waiters(j, d) \cup {c} ELSE Waiters(j, d)
             /\ IsFiniteSet(Waiters(j, d))
             /\ j = k => c \notin Waiters(j, d)
    BY CallersAssumption, FS_Subset, Zenon DEF Waiters, Charged
<1>2. ASSUME NEW j \in QueuedKinds, NEW d \in ChargeKeys
      PROVE  Cardinality(Waiters(j, d)') = Cardinality(Waiters(j, d))
                + (IF j = k /\ d \in Charges(c, k) THEN 1 ELSE 0)
    BY <1>1, FS_AddElement, FS_CardinalityType
<1>3. ASSUME NEW j \in QueuedKinds, NEW d \in ChargeKeys
      PROVE  /\ queues[j][d] \in Nat
             /\ queues'[j][d] = queues[j][d]
                   + (IF j = k /\ d \in Charges(c, k) THEN 1 ELSE 0)
    BY DEF QueuesOK, AddUsage
<1>4. queues' \in [QueuedKinds -> [ChargeKeys -> Nat]]
    BY DEF QueuesOK, AddUsage
<1>5. ASSUME NEW j \in QueuedKinds, NEW d \in ChargeKeys
      PROVE  queues'[j][d] <= QueueLimits[j][d[1]]
  <2>1. QueueLimits[j][d[1]] \in Nat
    BY ChargeScopes, LimitsAssumption
  <2>2. j = k /\ d \in Charges(c, k) => queues[j][d] + 1 <= QueueLimits[j][d[1]]
    BY <1>3, <2>1 DEF Fits, Blocking
  <2>. QED
    BY <1>3, <2>1, <2>2 DEF QueuesOK
<1>. QED
    BY <1>2, <1>3, <1>4, <1>5 DEF QueuesOK

\* A ticket that leaves a queue, granted or not, keeps the queue counters right.
LEMMA QueueLeave ==
    ASSUME QueuesOK, NEW c \in Callers, NEW k \in QueuedKinds,
           Queued(c, k), ~Queued(c, k)',
           \A e \in Callers : \A j \in QueuedKinds :
                (e # c \/ j # k) => (Queued(e, j)' <=> Queued(e, j)),
           queues' = [queues EXCEPT ![k] = SubtractUsage(queues[k], c, k, 1)]
    PROVE  QueuesOK'
<1>1. ASSUME NEW j \in QueuedKinds, NEW d \in ChargeKeys
      PROVE  /\ Waiters(j, d)' = IF j = k /\ d \in Charges(c, k)
                                 THEN Waiters(j, d) \ {c} ELSE Waiters(j, d)
             /\ IsFiniteSet(Waiters(j, d))
             /\ IsFiniteSet(Waiters(j, d)')
             /\ j = k /\ d \in Charges(c, k) => c \in Waiters(j, d)
    BY CallersAssumption, FS_Subset DEF Waiters, Charged
<1>2. ASSUME NEW j \in QueuedKinds, NEW d \in ChargeKeys
      PROVE  /\ Cardinality(Waiters(j, d)') \in Nat
             /\ Cardinality(Waiters(j, d)') = Cardinality(Waiters(j, d))
                - (IF j = k /\ d \in Charges(c, k) THEN 1 ELSE 0)
    BY <1>1, FS_RemoveElement, FS_CardinalityType
<1>3. ASSUME NEW j \in QueuedKinds, NEW d \in ChargeKeys
      PROVE  /\ queues[j][d] \in Nat
             /\ queues'[j][d] = queues[j][d]
                   - (IF j = k /\ d \in Charges(c, k) THEN 1 ELSE 0)
    BY DEF QueuesOK, SubtractUsage
<1>4. queues' \in [QueuedKinds -> [ChargeKeys -> Int]]
    BY DEF QueuesOK, SubtractUsage
<1>5. ASSUME NEW j \in QueuedKinds, NEW d \in ChargeKeys
      PROVE  /\ queues'[j][d] \in Nat
             /\ queues'[j][d] = Cardinality(Waiters(j, d)')
             /\ queues'[j][d] <= QueueLimits[j][d[1]]
  <2>1. QueueLimits[j][d[1]] \in Nat
    BY ChargeScopes, LimitsAssumption
  <2>. QED
    BY <1>2, <1>3, <2>1 DEF QueuesOK
<1>6. queues' \in [QueuedKinds -> [ChargeKeys -> Nat]]
    BY <1>4, <1>5
<1>. QED
    BY <1>5, <1>6, Zenon DEF QueuesOK

\* A step that moves no ticket keeps the queue counters right.
LEMMA QueueStutter ==
    ASSUME QueuesOK, queues' = queues,
           \A e \in Callers : \A j \in QueuedKinds : Queued(e, j)' <=> Queued(e, j)
    PROVE  QueuesOK'
<1>1. ASSUME NEW j \in QueuedKinds, NEW d \in ChargeKeys
      PROVE  Waiters(j, d)' = Waiters(j, d)
    BY DEF Waiters, Charged
<1>. QED
    BY <1>1 DEF QueuesOK

-----------------------------------------------------------------------------
(* Every action preserves the invariant.                                   *)

\* What a caller holds is a number of units, before and after a step.
LEMMA HeldIsNat ==
    ASSUME RestOK, RestOK'
    PROVE  \A e \in Callers : \A j \in Kinds : Held(e, j) \in Nat /\ Held(e, j)' \in Nat
BY DEF RestOK, Held

\* A call that is refused at the door changes only what was reported.
LEMMA AcquireRefusedSafe ==
    ASSUME IInv, NEW c \in Callers, NEW k \in QueuedKinds, NEW w \in Waits,
           AcquireRefused(c, k, w)
    PROVE  IInv'
<1>1. Refusal(c, k, w) \in Results
    BY DEF IInv, RestOK, Refusal, Timeout, Results
<1>2. RestOK'
    BY <1>1, Zenon DEF IInv, RestOK, AcquireRefused
<1>3. ResourcesOK'
    BY ResourceStutter DEF IInv, AcquireRefused, Held, Granted
<1>4. QueuesOK'
    BY QueueStutter, Zenon DEF IInv, AcquireRefused, Queued
<1>5. PhaseOK'
    BY Zenon DEF IInv, PhaseOK, AcquireRefused
<1>. QED
    BY <1>2, <1>3, <1>4, <1>5 DEF IInv

\* Taking free capacity directly: the permit and its usage appear together.
LEMMA AcquireDirectSafe ==
    ASSUME IInv, NEW c \in Callers, NEW k \in QueuedKinds, NEW w \in Waits,
           AcquireDirect(c, k, w)
    PROVE  IInv'
<1>1. k \in Kinds /\ call[c] \in Calls /\ call[c].phase = "idle" /\ permit[c][k] = 0
    BY DEF IInv, RestOK, Kinds, AcquireDirect, Proceed, Enter
<1>2. call'[c] = [NoCall EXCEPT !.phase = "recheck", !.kind = k]
    BY DEF IInv, RestOK, AcquireDirect
<1>3. RestOK'
    BY <1>1, Zenon DEF IInv, RestOK, Calls, NoCall, AcquireDirect, Proceed, Enter
<1>4. ResourcesOK'
  <2>1. Held(c, k)' = Held(c, k) + 1
    BY <1>1, <1>2 DEF IInv, RestOK, Held, Granted, AcquireDirect
  <2>2. \A e \in Callers : \A j \in Kinds : (e # c \/ j # k) => Held(e, j)' = Held(e, j)
    BY <1>1, <1>2 DEF Held, Granted, AcquireDirect
  <2>3. resources' = [resources EXCEPT ![k] = AddUsage(resources[k], c, k, 1)]
    BY DEF AcquireDirect
  <2>4. Fits(resources[k], Limits[k], c, k, 1)
    BY DEF AcquireDirect
  <2>5. \A e \in Callers : \A j \in Kinds : Held(e, j) \in Nat /\ Held(e, j)' \in Nat
    BY <1>3, HeldIsNat DEF IInv
  <2>6. 1 \in Int
    OBVIOUS
  <2>. QED
    BY <1>1, <2>1, <2>2, <2>3, <2>4, <2>5, <2>6, ResourceStep, Zenon DEF IInv
<1>5. QueuesOK'
  <2>1. \A e \in Callers : \A j \in QueuedKinds : Queued(e, j)' <=> Queued(e, j)
    BY <1>1, <1>2 DEF Queued, AcquireDirect
  <2>. QED
    BY <2>1, QueueStutter DEF IInv, AcquireDirect
<1>6. PhaseOK'
    BY <1>1, <1>2 DEF IInv, RestOK, PhaseOK, AcquireDirect
<1>. QED
    BY <1>3, <1>4, <1>5, <1>6 DEF IInv

\* Running out of ordinals closes the controller and moves no unit.
LEMMA ExhaustTicketsSafe ==
    ASSUME IInv, NEW c \in Callers, NEW k \in QueuedKinds, NEW w \in Waits,
           ExhaustTickets(c, k, w)
    PROVE  IInv'
<1>1. RestOK'
    BY DEF IInv, RestOK, ExhaustTickets, Results
<1>2. ResourcesOK'
    BY ResourceStutter DEF IInv, ExhaustTickets, Held, Granted
<1>3. QueuesOK'
    BY QueueStutter DEF IInv, ExhaustTickets, Queued
<1>4. PhaseOK'
    BY Zenon DEF IInv, PhaseOK, ExhaustTickets
<1>. QED
    BY <1>1, <1>2, <1>3, <1>4 DEF IInv

\* A ticket joins the queue it fits and its owner starts a pass.
LEMMA EnqueueSafe ==
    ASSUME IInv, NEW c \in Callers, NEW k \in QueuedKinds, NEW w \in Waits,
           Enqueue(c, k, w)
    PROVE  IInv'
<1>1. /\ k \in Kinds /\ call[c] \in Calls /\ call[c].phase = "idle" /\ permit[c][k] = 0
      /\ nextTicket[k] \in Nat
    BY Zenon DEF IInv, RestOK, Kinds, Enqueue, MustQueue, Proceed, Enter
<1>2. /\ call'[c] = [phase |-> "queued", kind |-> k,
                     ordinal |-> nextTicket[k], wait |-> Deadlines(w)]
      /\ \A e \in Callers : e # c => call'[e] = call[e]
    BY DEF IInv, RestOK, Enqueue
<1>3. Deadlines(w) \in [queue : Nat, aggregate : Nat, scan : Nat]
    BY WaitsAssumption DEF IInv, RestOK, Deadlines
<1>4. RestOK'
    BY <1>1, <1>3 DEF IInv, RestOK, Calls, Enqueue, StartScan
<1>5. ResourcesOK'
  <2>1. \A e \in Callers : \A j \in Kinds : Held(e, j)' = Held(e, j)
    BY <1>1, <1>2 DEF Held, Granted, Enqueue
  <2>. QED
    BY <2>1, ResourceStutter DEF IInv, Enqueue
<1>6. QueuesOK'
  <2>1. ~Queued(c, k) /\ Queued(c, k)'
    BY <1>1, <1>2 DEF Queued
  <2>2. \A e \in Callers : \A j \in QueuedKinds :
            (e # c \/ j # k) => (Queued(e, j)' <=> Queued(e, j))
    BY <1>1, <1>2 DEF Queued
  <2>. QED
    BY <2>1, <2>2, QueueJoin, Zenon DEF IInv, Enqueue, MustQueue
<1>7. PhaseOK'
    BY <1>1, <1>2 DEF IInv, PhaseOK, Enqueue, StartScan
<1>. QED
    BY <1>4, <1>5, <1>6, <1>7 DEF IInv

\* Looking at cancellation again: the permit is kept, or given back whole.
LEMMA RecheckSafe ==
    ASSUME IInv, NEW c \in Callers, Recheck(c)
    PROVE  IInv'
<1>k. PICK k \in QueuedKinds : k = call[c].kind
    BY Zenon DEF IInv, PhaseOK, Recheck
<1>1. /\ call[c] \in Calls /\ call[c].phase = "recheck" /\ call[c].kind = k
      /\ k \in Kinds /\ permit[c][k] = 1
    BY <1>k DEF IInv, RestOK, PhaseOK, Kinds, Recheck
<1>2. call'[c] = NoCall /\ \A e \in Callers : e # c => call'[e] = call[e]
    BY DEF IInv, RestOK, Recheck, Return
<1>3. RestOK'
  <2>1. NoCall \in Calls /\ {"CANCELLED", "ACQUIRED"} \subseteq Results
    BY DEF NoCall, Calls, Results
  <2>2. CASE c \in cancelled
    <3>1. /\ permit' = [permit EXCEPT ![c][k] = 0]
          /\ scan' = [then |-> "release", kind |-> k, owner |-> c]
        BY <1>1, <2>2, Zenon DEF Recheck, StartScan
    <3>2. permit' \in [Callers -> [Kinds -> Nat]]
        BY <1>1, <3>1 DEF IInv, RestOK
    <3>. QED
        BY <1>1, <2>1, <2>2, <3>1, <3>2 DEF IInv, RestOK, Recheck, Return, StartScan
  <2>3. CASE c \notin cancelled
    BY <1>1, <2>1, <2>3 DEF IInv, RestOK, Recheck, Return
  <2>. QED
    BY <2>2, <2>3
<1>4. QueuesOK'
  <2>1. \A e \in Callers : \A j \in QueuedKinds : Queued(e, j)' <=> Queued(e, j)
    BY <1>1, <1>2 DEF Queued, NoCall
  <2>. QED
    BY <2>1, QueueStutter, Zenon DEF IInv, Recheck
<1>5. PhaseOK'
  <2>1. NoCall.phase = "idle" /\ scan.then = "none"
    BY Zenon DEF NoCall, Unlocked, Recheck
  <2>2. \A e \in Callers : e # c => permit'[e] = permit[e]
    BY DEF IInv, RestOK, Recheck
  <2>3. scan' = scan \/ scan' = [then |-> "release", kind |-> k, owner |-> c]
    BY <1>1 DEF Recheck, StartScan
  <2>4. ASSUME NEW e \in Callers
        PROVE  /\ call'[e].phase # "idle" => call'[e].kind \in QueuedKinds
               /\ call'[e].phase = "recheck" => permit'[e][call'[e].kind] = 1
               /\ call'[e].phase \in {"queued", "granted"} => permit'[e][call'[e].kind] = 0
    <3>1. CASE e = c
        BY <1>2, <2>1, <3>1
    <3>2. CASE e # c
        BY <1>2, <2>2, <3>2, Zenon DEF IInv, PhaseOK
    <3>. QED
        BY <3>1, <3>2, Zenon
  <2>5. /\ scan'.then # "none" => scan'.kind \in Kinds /\ scan'.owner \in Callers
        /\ scan'.then # "wait"
    BY <1>1, <2>1, <2>3
  <2>. QED
    BY <2>4, <2>5, Zenon DEF PhaseOK
<1>6. ResourcesOK'
  <2>1. CASE c \in cancelled
    <3>1. Held(c, k)' = Held(c, k) + (-1)
      <4>1. permit'[c][k] = 0
        BY <1>1, <2>1 DEF IInv, RestOK, Recheck
      <4>. QED
        BY <1>1, <1>2, <4>1 DEF Held, Granted, NoCall
    <3>2. \A e \in Callers : \A j \in Kinds : (e # c \/ j # k) => Held(e, j)' = Held(e, j)
        BY <1>1, <1>2, <2>1 DEF IInv, RestOK, Held, Granted, NoCall, Recheck
    <3>3. resources' = [resources EXCEPT ![k] = AddUsage(resources[k], c, k, -1)]
      <4>1. resources[k] \in [ChargeKeys -> Nat]
        BY <1>1, Zenon DEF IInv, ResourcesOK
      <4>. QED
        BY <1>1, <2>1, <4>1, SubtractIsAdd DEF Recheck
    <3>4. \A e \in Callers : \A j \in Kinds : Held(e, j) \in Nat /\ Held(e, j)' \in Nat
        BY <1>3, HeldIsNat DEF IInv
    <3>5. -1 \in Int /\ -1 <= 0
        OBVIOUS
    <3>. QED
        BY <1>1, <3>1, <3>2, <3>3, <3>4, <3>5, ResourceStep, Zenon DEF IInv
  <2>2. CASE c \notin cancelled
    <3>1. \A e \in Callers : \A j \in Kinds : Held(e, j)' = Held(e, j)
        BY <1>1, <1>2, <2>2 DEF Held, Granted, NoCall, Recheck
    <3>. QED
        BY <2>2, <3>1, ResourceStutter DEF IInv, Recheck
  <2>. QED
    BY <2>1, <2>2
<1>. QED
    BY <1>3, <1>4, <1>5, <1>6 DEF IInv

\* A grant picked up: the unit moves from the ticket to the permit.
LEMMA MaterializeSafe ==
    ASSUME IInv, NEW c \in Callers, call[c].phase = "granted", Materialize(c),
           missed' \subseteq Kinds
    PROVE  IInv'
<1>k. PICK k \in QueuedKinds : k = call[c].kind
    BY Zenon DEF IInv, PhaseOK
<1>1. call[c] \in Calls /\ call[c].kind = k /\ k \in Kinds /\ permit[c][k] = 0
    BY <1>k DEF IInv, RestOK, PhaseOK, Kinds
<1>2. /\ permit' = [permit EXCEPT ![c][k] = 1]
      /\ call' = [call EXCEPT ![c] = [NoCall EXCEPT !.phase = "recheck", !.kind = k]]
      /\ scan' = NoScan
      /\ UNCHANGED <<now, terminal, resources, queues, nextTicket, cancelled, result>>
    BY <1>1 DEF Materialize
<1>3. /\ call'[c].phase = "recheck" /\ call'[c].kind = k
      /\ \A e \in Callers : e # c => call'[e] = call[e]
      /\ \A e \in Callers : e # c => permit'[e] = permit[e]
      /\ permit'[c][k] = 1
      /\ \A j \in Kinds : j # k => permit'[c][j] = permit[c][j]
    BY <1>1, <1>2 DEF IInv, RestOK, NoCall
<1>4. RestOK'
  <2>1. call' \in [Callers -> Calls]
    BY <1>2, Zenon DEF IInv, RestOK, Calls, NoCall
  <2>2. permit' \in [Callers -> [Kinds -> Nat]]
    BY <1>1, <1>2 DEF IInv, RestOK
  <2>. QED
    BY <1>2, <2>1, <2>2 DEF IInv, RestOK, NoScan
<1>5. ResourcesOK'
  <2>1. \A e \in Callers : \A j \in Kinds : Held(e, j)' = Held(e, j)
    BY <1>1, <1>3 DEF Held, Granted
  <2>. QED
    BY <1>2, <2>1, ResourceStutter DEF IInv
<1>6. QueuesOK'
  <2>1. \A e \in Callers : \A j \in QueuedKinds : Queued(e, j)' <=> Queued(e, j)
    BY <1>1, <1>3, Zenon DEF Queued
  <2>. QED
    BY <1>2, <2>1, QueueStutter DEF IInv
<1>7. PhaseOK'
    BY <1>1, <1>2, <1>3 DEF IInv, PhaseOK, NoScan
<1>. QED
    BY <1>4, <1>5, <1>6, <1>7, Zenon DEF IInv

\* The handler of a failed pick-up gives the granted unit back.
LEMMA UnwindSafe ==
    ASSUME IInv, NEW c \in Callers, call[c].phase = "granted", Unwind(c),
           missed' \subseteq Kinds
    PROVE  IInv'
<1>k. PICK k \in QueuedKinds : k = call[c].kind
    BY DEF IInv, PhaseOK
<1>1. call[c] \in Calls /\ call[c].kind = k /\ k \in Kinds /\ permit[c][k] = 0
    BY <1>k DEF IInv, RestOK, PhaseOK, Kinds
<1>2. /\ resources' = [resources EXCEPT ![k] = SubtractUsage(resources[k], c, k, 1)]
      /\ call' = [call EXCEPT ![c] = NoCall]
      /\ result' = [caller |-> c, status |-> "THREW"]
      /\ scan' = [then |-> "unwind", kind |-> k, owner |-> c]
      /\ UNCHANGED <<now, terminal, queues, nextTicket, permit, cancelled>>
    BY <1>1, Zenon DEF Unwind, Return, StartScan
<1>3. /\ call'[c].phase = "idle"
      /\ \A e \in Callers : e # c => call'[e] = call[e]
    BY <1>1, <1>2, Zenon DEF IInv, RestOK, NoCall
<1>4. RestOK'
  <2>1. call' \in [Callers -> Calls]
    BY <1>2, Zenon DEF IInv, RestOK, Calls, NoCall
  <2>. QED
    BY <1>1, <1>2, <2>1, Zenon DEF IInv, RestOK, Results
<1>5. ResourcesOK'
  <2>1. Held(c, k)' = Held(c, k) + (-1)
    BY <1>1, <1>2, <1>3 DEF Held, Granted
  <2>2. \A e \in Callers : \A j \in Kinds : (e # c \/ j # k) => Held(e, j)' = Held(e, j)
    BY <1>1, <1>2, <1>3, Zenon DEF Held, Granted
  <2>3. resources' = [resources EXCEPT ![k] = AddUsage(resources[k], c, k, -1)]
    <3>1. resources[k] \in [ChargeKeys -> Nat]
        BY <1>1, Zenon DEF IInv, ResourcesOK
    <3>2. SubtractUsage(resources[k], c, k, 1) = AddUsage(resources[k], c, k, -1)
        BY <1>1, <3>1, SubtractIsAdd
    <3>. QED
        BY <1>2, <3>2, Zenon
  <2>4. \A e \in Callers : \A j \in Kinds : Held(e, j) \in Nat /\ Held(e, j)' \in Nat
    BY <1>4, HeldIsNat DEF IInv
  <2>5. -1 \in Int /\ -1 <= 0
    OBVIOUS
  <2>. QED
    BY <1>1, <2>1, <2>2, <2>3, <2>4, <2>5, ResourceStep, Zenon DEF IInv
<1>6. QueuesOK'
  <2>1. \A e \in Callers : \A j \in QueuedKinds : Queued(e, j)' <=> Queued(e, j)
    BY <1>1, <1>3, Zenon DEF Queued
  <2>. QED
    BY <1>2, <2>1, QueueStutter DEF IInv
<1>7. PhaseOK'
    BY <1>1, <1>2, <1>3 DEF IInv, PhaseOK
<1>. QED
    BY <1>4, <1>5, <1>6, <1>7 DEF IInv

\* A ticket leaves its queue ungranted, and a pass may follow it.
LEMMA RemoveTicketSafe ==
    ASSUME IInv, NEW c \in Callers, call[c].phase = "queued",
           NEW r \in Results, RemoveTicket(c, r),
           \/ scan' = scan /\ scan.then = "none"
           \/ scan' = [then |-> "unwind", kind |-> scan.kind, owner |-> c] /\ scan.kind \in Kinds
    PROVE  IInv'
<1>k. PICK k \in QueuedKinds : k = call[c].kind
    BY Zenon DEF IInv, PhaseOK
<1>1. call[c] \in Calls /\ call[c].kind = k /\ k \in Kinds /\ permit[c][k] = 0
    BY <1>k DEF IInv, RestOK, PhaseOK, Kinds
<1>2. /\ queues' = [queues EXCEPT ![k] = SubtractUsage(queues[k], c, k, 1)]
      /\ call' = [call EXCEPT ![c] = NoCall]
      /\ result' = [caller |-> c, status |-> r]
      /\ UNCHANGED <<now, terminal, resources, nextTicket, permit, cancelled, missed>>
    BY <1>1 DEF RemoveTicket, Return
<1>3. /\ call'[c].phase = "idle"
      /\ \A e \in Callers : e # c => call'[e] = call[e]
    BY <1>1, <1>2, Zenon DEF IInv, RestOK, NoCall
<1>4. RestOK'
  <2>1. call' \in [Callers -> Calls]
    BY <1>2, Zenon DEF IInv, RestOK, Calls, NoCall
  <2>2. scan' \in [then : {"none", "release", "wait", "unwind"}, kind : Kinds \cup {"none"},
                   owner : Callers \cup {"none"}]
    BY DEF IInv, RestOK
  <2>. QED
    BY <1>1, <1>2, <2>1, <2>2, Zenon DEF IInv, RestOK
<1>5. ResourcesOK'
  <2>1. \A e \in Callers : \A j \in Kinds : Held(e, j)' = Held(e, j)
    BY <1>1, <1>2, <1>3, Zenon DEF Held, Granted
  <2>. QED
    BY <1>2, <2>1, ResourceStutter DEF IInv
<1>6. QueuesOK'
  <2>1. Queued(c, k) /\ ~Queued(c, k)'
    BY <1>1, <1>3, Zenon DEF Queued
  <2>2. \A e \in Callers : \A j \in QueuedKinds :
            (e # c \/ j # k) => (Queued(e, j)' <=> Queued(e, j))
    BY <1>1, <1>3 DEF Queued
  <2>. QED
    BY <1>2, <2>1, <2>2, QueueLeave, Zenon DEF IInv
<1>7. PhaseOK'
    BY <1>1, <1>2, <1>3 DEF IInv, PhaseOK
<1>. QED
    BY <1>4, <1>5, <1>6, <1>7 DEF IInv

\* A waiter's turn: it picks its grant up, leaves, or runs a pass.
LEMMA WakeSafe ==
    ASSUME IInv, NEW c \in Callers, Wake(c)
    PROVE  IInv'
<1>1. CASE WakeGranted(c)
    BY <1>1, MaterializeSafe, UnwindSafe, Zenon DEF WakeGranted, IInv, RestOK
<1>2. CASE WakeLeave(c)
  <2>1. Timeout(call[c].wait) \in Results
    BY DEF Timeout, Results
  <2>2. terminal \in Results /\ "CANCELLED" \in Results
    BY DEF IInv, RestOK, Results
  <2>3. PICK r \in Results : RemoveTicket(c, r)
    BY <1>2, <2>1, <2>2 DEF WakeLeave
  <2>. QED
    BY <1>2, <2>3, RemoveTicketSafe DEF WakeLeave, Unlocked
<1>3. CASE WakeRescan(c)
  <2>1. call[c].kind \in QueuedKinds /\ call[c].kind \in Kinds
    BY <1>3, Zenon DEF IInv, PhaseOK, Kinds, WakeRescan
  <2>2. RestOK'
    BY <1>3, <2>1, Zenon DEF IInv, RestOK, WakeRescan, StartScan
  <2>3. ResourcesOK'
    BY <1>3, ResourceStutter DEF IInv, Held, Granted, WakeRescan
  <2>4. QueuesOK'
    BY <1>3, QueueStutter, Zenon DEF IInv, Queued, WakeRescan
  <2>5. PhaseOK'
    BY <1>3, <2>1, Zenon DEF IInv, PhaseOK, WakeRescan, StartScan
  <2>. QED
    BY <2>2, <2>3, <2>4, <2>5 DEF IInv
<1>. QED
    BY <1>1, <1>2, <1>3 DEF Wake

\* One grant of a pass: a unit that fits moves a ticket out of its queue.
LEMMA ScanGrantSafe ==
    ASSUME IInv, NEW c \in Callers, ScanGrant(c)
    PROVE  IInv'
<1>k. PICK k \in QueuedKinds : k = scan.kind
    BY DEF IInv, PhaseOK, Queued, ScanGrant, Eligible
<1>1. /\ k \in Kinds /\ call[c] \in Calls /\ call[c].phase = "queued" /\ call[c].kind = k
      /\ permit[c][k] = 0
      /\ Fits(resources[k], Limits[k], c, k, 1)
      /\ scan.then # "none"
    BY <1>k DEF IInv, RestOK, PhaseOK, Queued, Granting, Unlocked, ScanGrant, Eligible
<1>2. /\ resources' = [resources EXCEPT ![k] = AddUsage(resources[k], c, k, 1)]
      /\ queues' = [queues EXCEPT ![k] = SubtractUsage(queues[k], c, k, 1)]
      /\ call' = [call EXCEPT ![c].phase = "granted"]
      /\ UNCHANGED <<now, terminal, nextTicket, permit, cancelled, result, scan, missed>>
    BY <1>k DEF ScanGrant
<1>3. /\ call'[c].phase = "granted" /\ call'[c].kind = k
      /\ \A e \in Callers : e # c => call'[e] = call[e]
    BY <1>1, <1>2 DEF IInv, RestOK, Calls
<1>4. RestOK'
  <2>1. call' \in [Callers -> Calls]
    <3>1. [call[c] EXCEPT !.phase = "granted"] \in Calls
        BY <1>1 DEF Calls
    <3>2. call' = [call EXCEPT ![c] = [call[c] EXCEPT !.phase = "granted"]]
        BY <1>2 DEF IInv, RestOK
    <3>. QED
        BY <3>1, <3>2 DEF IInv, RestOK
  <2>. QED
    BY <1>2, <2>1 DEF IInv, RestOK
<1>5. ResourcesOK'
  <2>1. Held(c, k)' = Held(c, k) + 1
    BY <1>1, <1>2, <1>3 DEF Held, Granted
  <2>2. \A e \in Callers : \A j \in Kinds : (e # c \/ j # k) => Held(e, j)' = Held(e, j)
    BY <1>1, <1>2, <1>3 DEF Held, Granted
  <2>3. \A e \in Callers : \A j \in Kinds : Held(e, j) \in Nat /\ Held(e, j)' \in Nat
    BY <1>4, HeldIsNat DEF IInv
  <2>4. 1 \in Int
    OBVIOUS
  <2>. QED
    BY <1>1, <1>2, <2>1, <2>2, <2>3, <2>4, ResourceStep, Zenon DEF IInv
<1>6. QueuesOK'
  <2>1. Queued(c, k) /\ ~Queued(c, k)'
    BY <1>1, <1>3, Zenon DEF Queued
  <2>2. \A e \in Callers : \A j \in QueuedKinds :
            (e # c \/ j # k) => (Queued(e, j)' <=> Queued(e, j))
    BY <1>1, <1>3, Zenon DEF Queued
  <2>. QED
    BY <1>2, <2>1, <2>2, QueueLeave, Zenon DEF IInv
<1>7. PhaseOK'
    BY <1>1, <1>2, <1>3 DEF IInv, PhaseOK
<1>. QED
    BY <1>4, <1>5, <1>6, <1>7 DEF IInv

\* The end of a pass, with or without the owner's own grant.
LEMMA ScanDoneSafe ==
    ASSUME IInv, ScanDone
    PROVE  IInv'
<1>1. missed' \subseteq Kinds
    BY DEF ScanDone, IInv, RestOK
<1>2. CASE scan.then = "wait" /\ call[scan.owner].phase = "granted"
  <2>1. scan.owner \in Callers
    BY <1>2, Zenon DEF IInv, PhaseOK
  <2>2. Materialize(scan.owner) \/ Unwind(scan.owner)
    BY <1>2, Zenon DEF ScanDone
  <2>. QED
    BY <1>1, <1>2, <2>1, <2>2, MaterializeSafe, UnwindSafe
<1>3. CASE ~(scan.then = "wait" /\ call[scan.owner].phase = "granted")
  <2>1. /\ scan' = NoScan
        /\ UNCHANGED <<now, terminal, resources, queues, nextTicket, call, permit,
                       cancelled, result>>
    BY <1>3, Zenon DEF ScanDone
  <2>2. RestOK'
    BY <1>1, <2>1 DEF IInv, RestOK, NoScan
  <2>3. ResourcesOK'
    BY <2>1, ResourceStutter DEF IInv, Held, Granted
  <2>4. QueuesOK'
    BY <2>1, QueueStutter DEF IInv, Queued
  <2>5. PhaseOK'
    BY <2>1, Zenon DEF IInv, PhaseOK, NoScan
  <2>. QED
    BY <2>2, <2>3, <2>4, <2>5 DEF IInv
<1>. QED
    BY <1>2, <1>3

\* A pass that fails: nothing is granted, and a waiter unwinds its own ticket.
LEMMA ScanThrowsSafe ==
    ASSUME IInv, ScanThrows
    PROVE  IInv'
<1>1. scan.then # "none" /\ scan.kind \in Kinds /\ scan.owner \in Callers
    BY Zenon DEF IInv, PhaseOK, ScanThrows, Granting, Unlocked
<1>2. CASE scan.then # "wait"
  <2>1. /\ scan' = NoScan /\ missed' = missed \cup {scan.kind}
        /\ UNCHANGED <<now, terminal, resources, queues, nextTicket, call, permit,
                       cancelled, result>>
    BY <1>2, Zenon DEF ScanThrows
  <2>2. RestOK'
    BY <1>1, <2>1 DEF IInv, RestOK, NoScan
  <2>3. ResourcesOK'
    BY <2>1, ResourceStutter DEF IInv, Held, Granted
  <2>4. QueuesOK'
    BY <2>1, QueueStutter DEF IInv, Queued
  <2>5. PhaseOK'
    BY <2>1, Zenon DEF IInv, PhaseOK, NoScan
  <2>. QED
    BY <2>2, <2>3, <2>4, <2>5 DEF IInv
<1>3. CASE scan.then = "wait" /\ call[scan.owner].phase = "granted"
  <2>1. Unwind(scan.owner) /\ missed' = missed
    BY <1>3 DEF ScanThrows
  <2>2. missed' \subseteq Kinds
    BY <2>1 DEF IInv, RestOK
  <2>. QED
    BY <1>1, <1>3, <2>1, <2>2, UnwindSafe
<1>4. CASE scan.then = "wait" /\ call[scan.owner].phase = "queued"
  <2>1. /\ RemoveTicket(scan.owner, "THREW")
        /\ scan' = [then |-> "unwind", kind |-> scan.kind, owner |-> scan.owner]
    BY <1>4 DEF ScanThrows, StartScan
  <2>2. "THREW" \in Results
    BY DEF Results
  <2>. QED
    BY <1>1, <1>4, <2>1, <2>2, RemoveTicketSafe
<1>5. scan.then = "wait" => call[scan.owner].phase \in {"queued", "granted"}
    BY DEF IInv, PhaseOK
<1>. QED
    BY <1>2, <1>3, <1>4, <1>5, Zenon

\* A reservation of another size: the counter follows the permit, and the
\* difference is a return or was checked.
LEMMA ResizeTo ==
    ASSUME IInv, NEW c \in Callers, NEW k \in Kinds, NEW n \in Nat, NEW st \in Results,
           call[c].phase = "idle",
           resources' = [resources EXCEPT ![k] = AddUsage(resources[k], c, k, n - permit[c][k])],
           permit' = [permit EXCEPT ![c][k] = n],
           n <= permit[c][k] \/ Fits(resources[k], Limits[k], c, k, n - permit[c][k]),
           result' = [caller |-> c, status |-> st] \/ result' = result,
           \/ scan' = scan /\ scan.then = "none"
           \/ scan' = [then |-> "release", kind |-> k, owner |-> c],
           UNCHANGED <<now, terminal, queues, nextTicket, call, cancelled, missed>>
    PROVE  IInv'
<1>1. /\ permit[c][k] \in Nat /\ permit'[c][k] = n
      /\ \A j \in Kinds : j # k => permit'[c][j] = permit[c][j]
      /\ \A e \in Callers : e # c => permit'[e] = permit[e]
    BY Zenon DEF IInv, RestOK
<1>2. RestOK'
  <2>1. permit' \in [Callers -> [Kinds -> Nat]]
    BY Zenon DEF IInv, RestOK
  <2>2. scan' \in [then : {"none", "release", "wait", "unwind"}, kind : Kinds \cup {"none"},
                   owner : Callers \cup {"none"}]
    BY DEF IInv, RestOK
  <2>3. result' \in [caller : Callers \cup {"none"}, status : Results]
    BY DEF IInv, RestOK
  <2>. QED
    BY <2>1, <2>2, <2>3, Zenon DEF IInv, RestOK
<1>3. ResourcesOK'
  <2>1. Held(c, k)' = Held(c, k) + (n - permit[c][k])
    BY <1>1 DEF Held, Granted
  <2>2. \A e \in Callers : \A j \in Kinds : (e # c \/ j # k) => Held(e, j)' = Held(e, j)
    BY <1>1 DEF Held, Granted
  <2>3. \A e \in Callers : \A j \in Kinds : Held(e, j) \in Nat /\ Held(e, j)' \in Nat
    BY <1>2, HeldIsNat, Zenon DEF IInv
  <2>4. PICK i \in Int : i = n - permit[c][k]
    BY <1>1
  <2>5. i <= 0 \/ Fits(resources[k], Limits[k], c, k, i)
    BY <1>1, <2>4
  <2>6. resources' = [resources EXCEPT ![k] = AddUsage(resources[k], c, k, i)]
    BY <2>4, Zenon
  <2>7. Held(c, k)' = Held(c, k) + i
    BY <2>1, <2>4, Zenon
  <2>. QED
    BY <2>2, <2>3, <2>5, <2>6, <2>7, ResourceStep, Zenon DEF IInv
<1>4. QueuesOK'
    BY QueueStutter, Zenon DEF IInv, Queued
<1>5. PhaseOK'
  <2>1. \A e \in Callers : call[e].phase # "idle" => permit'[e] = permit[e]
    BY <1>1, Zenon
  <2>. QED
    BY <2>1 DEF IInv, PhaseOK
<1>. QED
    BY <1>2, <1>3, <1>4, <1>5 DEF IInv

\* Steps that touch neither counters nor calls, permits or passes.
LEMMA QuietStep ==
    ASSUME IInv, UNCHANGED <<resources, queues, nextTicket, call, permit, scan, missed>>,
           now' \in Nat, cancelled' \subseteq Callers,
           terminal' \in {"NONE", "RUNTIME_CLOSED", "TICKET_EXHAUSTED"},
           result' \in [caller : Callers \cup {"none"}, status : Results]
    PROVE  IInv'
<1>1. RestOK'
    BY Zenon DEF IInv, RestOK
<1>2. ResourcesOK'
    BY ResourceStutter DEF IInv, Held, Granted
<1>3. QueuesOK'
    BY QueueStutter DEF IInv, Queued
<1>4. PhaseOK'
    BY Zenon DEF IInv, PhaseOK
<1>. QED
    BY <1>1, <1>2, <1>3, <1>4 DEF IInv

\* An immediate reservation is taken whole or refused.
LEMMA AcquireImmediateSafe ==
    ASSUME IInv, NEW c \in Callers, NEW k \in ImmediateKinds, NEW n \in Amounts,
           AcquireImmediate(c, k, n)
    PROVE  IInv'
<1>1. k \in Kinds /\ n \in Nat /\ permit[c][k] = 0 /\ n - permit[c][k] = n
    BY WaitsAssumption DEF Kinds, AcquireImmediate
<1>2. "ACQUIRED" \in Results /\ "SATURATED" \in Results /\ terminal \in Results
    BY DEF Results, IInv, RestOK
<1>3. CASE terminal = "NONE" /\ Fits(resources[k], Limits[k], c, k, n)
    BY <1>1, <1>2, <1>3, ResizeTo DEF Unlocked, AcquireImmediate
<1>4. CASE ~(terminal = "NONE" /\ Fits(resources[k], Limits[k], c, k, n))
  <2>1. PICK st \in Results : result' = [caller |-> c, status |-> st]
    BY <1>2, <1>4, Zenon DEF AcquireImmediate
  <2>. QED
    BY <1>4, <2>1, QuietStep, Zenon DEF IInv, RestOK, AcquireImmediate
<1>. QED
    BY <1>3, <1>4

\* A resize is a reservation of the new size, or keeps the old one.
LEMMA ResizeSafe ==
    ASSUME IInv, NEW c \in Callers, NEW k \in ImmediateKinds, NEW n \in Amounts,
           Resize(c, k, n)
    PROVE  IInv'
<1>. DEFINE grows == n > permit[c][k]
            granted == ~grows \/ (terminal = "NONE"
                                  /\ Fits(resources[k], Limits[k], c, k, n - permit[c][k]))
<1>1. k \in Kinds /\ n \in Nat /\ permit[c][k] \in Nat /\ resources[k] \in [ChargeKeys -> Nat]
    BY WaitsAssumption DEF Kinds, IInv, RestOK, ResourcesOK
<1>2. "ACQUIRED" \in Results /\ "SATURATED" \in Results /\ terminal \in Results
    BY DEF Results, IInv, RestOK
<1>3. PICK st \in Results : result' = [caller |-> c, status |-> st]
    BY <1>2, Zenon DEF Resize
<1>4. CASE granted
  <2>1. resources' = [resources EXCEPT ![k] = AddUsage(resources[k], c, k, n - permit[c][k])]
    <3>1. SubtractUsage(resources[k], c, k, permit[c][k] - n)
             = AddUsage(resources[k], c, k, n - permit[c][k])
        BY <1>1, SubtractDifference, Zenon
    <3>. QED
        BY <1>4, <3>1, Zenon DEF Resize
  <2>2. n <= permit[c][k] \/ Fits(resources[k], Limits[k], c, k, n - permit[c][k])
    BY <1>1, <1>4
  <2>3. /\ permit' = [permit EXCEPT ![c][k] = n]
        /\ call[c].phase = "idle" /\ scan' = scan /\ scan.then = "none"
        /\ UNCHANGED <<now, terminal, queues, nextTicket, call, cancelled, missed>>
    BY <1>4, Zenon DEF Resize, Unlocked
  <2>. QED
    BY <1>1, <1>3, <2>1, <2>2, <2>3, ResizeTo, Zenon
<1>5. CASE ~granted
  <2>1. UNCHANGED <<now, terminal, resources, queues, nextTicket, call, permit, cancelled,
                    scan, missed>>
    BY <1>5, Zenon DEF Resize
  <2>. QED
    BY <1>3, <2>1, QuietStep, Zenon DEF IInv, RestOK
<1>. QED
    BY <1>4, <1>5, Zenon

\* Releasing a permit returns all of its units and starts a pass.
LEMMA ReleaseSafe ==
    ASSUME IInv, NEW c \in Callers, NEW k \in Kinds, Release(c, k)
    PROVE  IInv'
<1>1. permit[c][k] \in Nat /\ resources[k] \in [ChargeKeys -> Nat]
    BY DEF IInv, RestOK, ResourcesOK
<1>2. SubtractUsage(resources[k], c, k, permit[c][k])
         = AddUsage(resources[k], c, k, -permit[c][k])
    BY <1>1, SubtractIsAdd
<1>3. -permit[c][k] = 0 - permit[c][k]
    BY <1>1
<1>4. /\ resources' = [resources EXCEPT ![k] = AddUsage(resources[k], c, k, 0 - permit[c][k])]
      /\ permit' = [permit EXCEPT ![c][k] = 0]
      /\ call[c].phase = "idle" /\ scan' = [then |-> "release", kind |-> k, owner |-> c]
      /\ UNCHANGED <<now, terminal, queues, nextTicket, call, cancelled, result, missed>>
    BY <1>2, <1>3, Zenon DEF Release, StartScan
<1>5. 0 \in Nat /\ 0 <= permit[c][k] /\ "NONE" \in Results
    BY <1>1 DEF Results
<1>. QED
    BY <1>4, <1>5, ResizeTo, Zenon

-----------------------------------------------------------------------------
(* The invariant holds throughout.                                         *)

\* A fresh controller counts nothing.
LEMMA InitSafe == Init => IInv
<1>. SUFFICES ASSUME Init PROVE IInv
    OBVIOUS
<1>. USE DEF Init
<1>1. RestOK
    BY Zenon DEF RestOK, Calls, NoCall, NoScan, Results
<1>2. ResourcesOK
  <2>1. ASSUME NEW k \in Kinds, NEW d \in ChargeKeys
        PROVE  Cardinality(Units(k, d)) = 0
    <3>1. \A c \in Callers : Held(c, k) = 0
        BY Zenon DEF Held, Granted, NoCall
    <3>2. \A c \in Callers : {c} \X (1..Held(c, k)) = {}
        BY <3>1
    <3>3. Units(k, d) = {}
        BY <3>2, Zenon DEF Units, Charged
    <3>. QED
        BY <3>3, FS_EmptySet, Zenon
  <2>2. \A k \in Kinds : \A d \in ChargeKeys : Limits[k][d[1]] \in Nat
    BY ChargeScopes, LimitsAssumption, Zenon
  <2>. QED
    BY <2>1, <2>2 DEF ResourcesOK
<1>3. QueuesOK
  <2>1. ASSUME NEW k \in QueuedKinds, NEW d \in ChargeKeys
        PROVE  Cardinality(Waiters(k, d)) = 0
    <3>1. Waiters(k, d) = {}
        BY Zenon DEF Waiters, Charged, Queued, NoCall
    <3>. QED
        BY <3>1, FS_EmptySet, Zenon
  <2>2. \A k \in QueuedKinds : \A d \in ChargeKeys : QueueLimits[k][d[1]] \in Nat
    BY ChargeScopes, LimitsAssumption
  <2>. QED
    BY <2>1, <2>2 DEF QueuesOK
<1>4. PhaseOK
    BY Zenon DEF PhaseOK, NoCall, NoScan
<1>. QED
    BY <1>1, <1>2, <1>3, <1>4 DEF IInv

\* Every step of every thread preserves the invariant.
LEMMA NextSafe == IInv /\ [Next]_vars => IInv'
<1>. SUFFICES ASSUME IInv, [Next]_vars PROVE IInv'
    BY Zenon
<1>1. CASE \E c \in Callers, k \in QueuedKinds, w \in Waits : AcquireQueued(c, k, w)
    BY <1>1, AcquireRefusedSafe, AcquireDirectSafe, ExhaustTicketsSafe, EnqueueSafe
       DEF AcquireQueued
<1>2. CASE \E c \in Callers : Recheck(c) \/ Wake(c)
    BY <1>2, RecheckSafe, WakeSafe, Zenon
<1>3. CASE \E c \in Callers : RequestCancellation(c)
    BY <1>3, QuietStep, Zenon DEF RequestCancellation, IInv, RestOK
<1>4. CASE \E c \in Callers, k \in ImmediateKinds, n \in Amounts :
              AcquireImmediate(c, k, n) \/ Resize(c, k, n)
    BY <1>4, AcquireImmediateSafe, ResizeSafe
<1>5. CASE \E c \in Callers, k \in Kinds : Release(c, k)
    BY <1>5, ReleaseSafe
<1>6. CASE ScanStep
    BY <1>6, ScanGrantSafe, ScanDoneSafe, ScanThrowsSafe DEF ScanStep
<1>7. CASE Close
    BY <1>7, QuietStep, Zenon DEF Close, IInv, RestOK
<1>8. CASE Tick
    BY <1>8, QuietStep DEF Tick, IInv, RestOK
<1>9. CASE UNCHANGED vars
    BY <1>9, QuietStep, Zenon DEF vars, IInv, RestOK
<1>. QED
    BY <1>1, <1>2, <1>3, <1>4, <1>5, <1>6, <1>7, <1>8, <1>9 DEF Next

\* The invariant holds in every reachable state.
THEOREM Invariance == Spec => []IInv
BY InitSafe, NextSafe, PTL DEF Spec

\* The controller's state keeps its shape; no counter ever wraps below zero.
THEOREM TypeCorrect == Spec => []TypeOK
<1>1. IInv => TypeOK
    BY Zenon DEF IInv, RestOK, ResourcesOK, QueuesOK, TypeOK
<1>. QED
    BY <1>1, Invariance, PTL

\* Usage counters are exact: each unit is a live permit, a grant in flight or
\* a waiting ticket, whichever way calls end.
THEOREM UsageConserved == Spec => []UsageExact
<1>1. IInv => UsageExact
    BY Zenon DEF IInv, ResourcesOK, QueuesOK, UsageExact
<1>. QED
    BY <1>1, Invariance, PTL

\* No kind and no queue exceeds its limit in any dimension.
THEOREM LimitsRespected == Spec => []WithinLimits
<1>1. IInv => WithinLimits
    BY Zenon DEF IInv, ResourcesOK, QueuesOK, WithinLimits
<1>. QED
    BY <1>1, Invariance, PTL

=============================================================================
