----------------------- MODULE AdmissionServiceProofs -----------------------
(***************************************************************************)
(* What the exact counters of AdmissionControllerProofs buy: no ticket is  *)
(* stranded beside capacity it fits, service within a key is first come    *)
(* first served, a terminal controller hands out nothing, a call returns   *)
(* with its permit exactly when it says so, and the whole implements pools *)
(* of capacity (CapacityPools).                                            *)
(***************************************************************************)
EXTENDS AdmissionControllerProofs

-----------------------------------------------------------------------------
(* No capacity beside a ticket it fits.                                    *)

\* While a pass runs, the kinds it does not look at have nothing to grant.
OthersServed ==
    terminal = "NONE" =>
        \A k \in QueuedKinds \ missed :
            scan.then = "none" \/ scan.kind # k => Eligible(k) = {}

\* No ticket becomes eligible as time passes, usage grows and tickets leave.
LEMMA EligibleShrinks ==
    ASSUME IInv, IInv', NEW k \in QueuedKinds,
           \A c \in Callers : Queued(c, k)' => Queued(c, k) /\ call'[c].wait = call[c].wait,
           now <= now',
           \A d \in ChargeKeys : resources[k][d] <= resources'[k][d]
    PROVE  Eligible(k)' \subseteq Eligible(k)
<1>1. SUFFICES ASSUME NEW c \in Eligible(k)' PROVE c \in Eligible(k)
    OBVIOUS
<1>2. c \in Callers /\ Queued(c, k) /\ call'[c].wait = call[c].wait /\ ~Expired(call[c].wait)'
    BY <1>1 DEF Eligible
<1>3. ~Expired(call[c].wait)
    BY <1>2 DEF Expired, IInv, RestOK, Calls
<1>4. Fits(resources[k], Limits[k], c, k, 1)
  <2>1. Charges(c, k) \subseteq ChargeKeys /\ k \in Kinds
    BY <1>2, ChargesAreKeys DEF Kinds
  <2>2. \A d \in ChargeKeys : /\ Limits[k][d[1]] \in Nat
                              /\ resources[k][d] \in Nat /\ resources'[k][d] \in Nat
    BY <2>1, ChargeScopes, LimitsAssumption DEF IInv, ResourcesOK
  <2>3. Fits(resources'[k], Limits[k], c, k, 1)
    BY <1>1 DEF Eligible
  <2>. QED
    BY <2>1, <2>2, <2>3 DEF Fits, Blocking
<1>. QED
    BY <1>2, <1>3, <1>4 DEF Eligible

\* Every step that frees capacity or queues a ticket starts a pass over its
\* kind, and a pass only ends when nothing is left to grant or it failed.
LEMMA OthersServedStep == IInv /\ IInv' /\ OthersServed /\ [Next]_vars => OthersServed'
<1>. SUFFICES ASSUME IInv, IInv', OthersServed, [Next]_vars,
                     terminal' = "NONE",
                     NEW k \in QueuedKinds, k \notin missed',
                     scan'.then = "none" \/ scan'.kind # k
              PROVE  Eligible(k)' = {}
    BY Zenon DEF OthersServed
<1>k. k \in Kinds
    BY DEF Kinds
<1>t. resources \in [Kinds -> [ChargeKeys -> Nat]] /\ resources' \in [Kinds -> [ChargeKeys -> Nat]]
    BY DEF IInv, ResourcesOK
<1>w. ASSUME terminal = "NONE", k \notin missed, scan.then = "none" \/ scan.kind # k,
             \A c \in Callers : Queued(c, k)' => Queued(c, k) /\ call'[c].wait = call[c].wait,
             now <= now',
             \A d \in ChargeKeys : resources[k][d] <= resources'[k][d]
      PROVE  Eligible(k)' = {}
    BY <1>w, EligibleShrinks DEF OthersServed
<1>s. ASSUME terminal = "NONE", k \notin missed, scan.then = "none" \/ scan.kind # k,
             UNCHANGED call, now <= now', resources'[k] = resources[k]
      PROVE  Eligible(k)' = {}
    BY <1>s, <1>w, <1>k, <1>t DEF Queued
<1>n. now \in Nat
    BY Zenon DEF IInv, RestOK
<1>1. CASE \E c \in Callers, j \in QueuedKinds, w \in Waits : AcquireQueued(c, j, w)
  <2>. PICK c \in Callers, j \in QueuedKinds, w \in Waits : AcquireQueued(c, j, w)
    BY <1>1
  <2>1. CASE AcquireRefused(c, j, w)
    BY <2>1, <1>s, <1>n DEF AcquireRefused, Enter, Unlocked
  <2>2. CASE AcquireDirect(c, j, w)
    <3>1. \A d \in ChargeKeys : resources[k][d] <= resources'[k][d]
        BY <2>2, <1>k, <1>t DEF AcquireDirect, AddUsage
    <3>2. \A e \in Callers : Queued(e, k)' => Queued(e, k) /\ call'[e].wait = call[e].wait
        BY <2>2, Zenon DEF AcquireDirect, Queued, IInv, RestOK, NoCall
    <3>. QED
        BY <2>2, <3>1, <3>2, <1>w, <1>n DEF AcquireDirect, Proceed, Enter, Unlocked
  <2>3. CASE ExhaustTickets(c, j, w)
    BY <2>3 DEF ExhaustTickets
  <2>4. CASE Enqueue(c, j, w)
    <3>1. j # k /\ scan.then = "none" /\ terminal = "NONE"
        BY <2>4, Zenon DEF Enqueue, MustQueue, Proceed, Enter, Unlocked, StartScan
    <3>2. \A e \in Callers : Queued(e, k)' => Queued(e, k) /\ call'[e].wait = call[e].wait
        BY <2>4, <3>1 DEF Enqueue, Queued, IInv, RestOK
    <3>. QED
        BY <2>4, <3>1, <3>2, <1>w, <1>n, <1>k, <1>t DEF Enqueue
  <2>. QED
    BY <2>1, <2>2, <2>3, <2>4 DEF AcquireQueued
<1>2. CASE \E c \in Callers : Recheck(c)
  <2>. PICK c \in Callers : Recheck(c)
    BY <1>2, Zenon
  <2>1. \A e \in Callers : Queued(e, k)' => Queued(e, k) /\ call'[e].wait = call[e].wait
    BY DEF Recheck, Return, Queued, IInv, RestOK, NoCall
  <2>2. resources'[k] = resources[k]
    <3>1. c \in cancelled => call[c].kind # k
        BY DEF Recheck, StartScan
    <3>. QED
        BY <3>1, <1>k, <1>t DEF Recheck
  <2>. QED
    BY <2>1, <2>2, <1>w, <1>n, <1>k, <1>t DEF Recheck, Unlocked
<1>3. CASE \E c \in Callers : Wake(c)
  <2>. PICK c \in Callers : Wake(c)
    BY <1>3
  <2>1. CASE WakeGranted(c)
    <3>1. \A e \in Callers : Queued(e, k)' => Queued(e, k) /\ call'[e].wait = call[e].wait
      <4>1. CASE Materialize(c)
        BY <4>1 DEF Materialize, Queued, IInv, RestOK, NoCall
      <4>2. CASE Unwind(c)
        BY <4>2 DEF Unwind, Return, Queued, NoCall
      <4>. QED
        BY <2>1, <4>1, <4>2, Zenon DEF WakeGranted
    <3>2. resources'[k] = resources[k]
      <4>1. CASE Materialize(c)
        BY <4>1 DEF Materialize
      <4>2. CASE Unwind(c)
        <5>1. call[c].kind # k
            BY <4>2, Zenon DEF Unwind, StartScan
        <5>. QED
            BY <4>2, <5>1, <1>k, <1>t, Zenon DEF Unwind
      <4>. QED
        BY <2>1, <4>1, <4>2 DEF WakeGranted
    <3>3. terminal' = terminal /\ now' = now /\ missed' = missed /\ scan.then = "none"
        BY <2>1 DEF WakeGranted, Materialize, Unwind, Unlocked
    <3>. QED
        BY <3>1, <3>2, <3>3, <1>w, <1>n, <1>k, <1>t
  <2>2. CASE WakeLeave(c)
    <3>1. \A e \in Callers : Queued(e, k)' => Queued(e, k) /\ call'[e].wait = call[e].wait
        BY <2>2 DEF WakeLeave, RemoveTicket, Return, Queued, NoCall
    <3>2. /\ terminal' = terminal /\ now' = now /\ missed' = missed /\ scan.then = "none"
          /\ resources' = resources
        BY <2>2 DEF WakeLeave, RemoveTicket, Unlocked
    <3>. QED
        BY <3>1, <3>2, <1>w, <1>n, <1>k, <1>t
  <2>3. CASE WakeRescan(c)
    BY <2>3, <1>s, <1>n DEF WakeRescan, Unlocked
  <2>. QED
    BY <2>1, <2>2, <2>3 DEF Wake
<1>4. CASE \E c \in Callers : RequestCancellation(c)
    BY <1>4, <1>s, <1>n DEF RequestCancellation
<1>5. CASE \E c \in Callers, j \in ImmediateKinds, n \in Amounts :
              AcquireImmediate(c, j, n) \/ Resize(c, j, n)
  <2>. PICK c \in Callers, j \in ImmediateKinds, n \in Amounts :
              AcquireImmediate(c, j, n) \/ Resize(c, j, n)
    BY <1>5, Zenon
  <2>1. j # k /\ j \in Kinds
    BY KindsAssumption DEF Kinds
  <2>2. resources'[k] = resources[k]
    BY <2>1, <1>k, <1>t, Zenon DEF AcquireImmediate, Resize
  <2>. QED
    BY <2>2, <1>s, <1>n DEF AcquireImmediate, Resize
<1>6. CASE \E c \in Callers, j \in Kinds : Release(c, j)
  <2>. PICK c \in Callers, j \in Kinds : Release(c, j)
    BY <1>6, Zenon
  <2>1. j # k
    BY DEF Release, StartScan
  <2>2. resources'[k] = resources[k]
    BY <2>1, <1>k, <1>t DEF Release
  <2>. QED
    BY <2>2, <1>s, <1>n DEF Release, Unlocked
<1>7. CASE \E c \in Callers : ScanGrant(c)
  <2>. PICK c \in Callers : ScanGrant(c)
    BY <1>7, Zenon
  <2>1. scan.kind # k /\ scan.then # "none" /\ scan.kind \in Kinds
    BY Zenon DEF ScanGrant, Granting, Unlocked, IInv, PhaseOK
  <2>2. resources'[k] = resources[k]
    BY <2>1, <1>k, <1>t DEF ScanGrant
  <2>3. \A e \in Callers : Queued(e, k)' => Queued(e, k) /\ call'[e].wait = call[e].wait
    BY DEF ScanGrant, Queued
  <2>. QED
    BY <2>1, <2>2, <2>3, <1>w, <1>n, <1>k, <1>t DEF ScanGrant
<1>8. CASE ScanDone
  <2>1. scan.then # "none" /\ terminal = "NONE" /\ Eligible(scan.kind) = {}
    BY <1>8, Zenon DEF ScanDone, Unlocked, Materialize, Unwind
  <2>2. Eligible(k) = {} /\ (scan.kind = k \/ k \notin missed)
    BY <1>8, <2>1, Zenon DEF ScanDone, OthersServed
  <2>3. \A e \in Callers : Queued(e, k)' => Queued(e, k) /\ call'[e].wait = call[e].wait
    <3>1. CASE Materialize(scan.owner)
        BY <3>1 DEF Materialize, Queued
    <3>2. CASE Unwind(scan.owner)
        BY <3>2 DEF Unwind, Return, Queued, NoCall
    <3>3. CASE UNCHANGED call
        BY <3>3 DEF Queued
    <3>. QED
        BY <1>8, <3>1, <3>2, <3>3, Zenon DEF ScanDone
  <2>4. resources'[k] = resources[k] /\ now' = now
    <3>1. CASE Unwind(scan.owner)
      <4>1. call[scan.owner].kind # k
        BY <3>1, Zenon DEF Unwind, StartScan
      <4>. QED
        BY <3>1, <4>1, <1>k, <1>t, Zenon DEF Unwind
    <3>2. CASE ~Unwind(scan.owner)
        BY <1>8, <3>2 DEF ScanDone, Materialize
    <3>. QED
        BY <3>1, <3>2
  <2>. QED
    BY <2>2, <2>3, <2>4, <1>n, <1>k, <1>t, EligibleShrinks
<1>9. CASE ScanThrows
  <2>1. scan.then # "none" /\ terminal = "NONE" /\ scan.kind \in Kinds
    BY <1>9, Zenon DEF ScanThrows, Granting, Unlocked, IInv, PhaseOK
  <2>2. CASE scan.then # "wait"
    <3>1. /\ scan' = NoScan /\ missed' = missed \cup {scan.kind}
          /\ UNCHANGED <<now, resources, call>>
        BY <1>9, <2>2, Zenon DEF ScanThrows
    <3>2. scan.kind # k /\ k \notin missed
        BY <3>1, Zenon
    <3>. QED
        BY <2>1, <3>1, <3>2, <1>s, <1>n
  <2>3. CASE scan.then = "wait" /\ call[scan.owner].phase = "granted"
    <3>1. Unwind(scan.owner) /\ missed' = missed /\ call[scan.owner].kind = scan.kind
        BY <1>9, <2>3, Zenon DEF ScanThrows, IInv, PhaseOK
    <3>2. scan.kind # k
        BY <3>1, Zenon DEF Unwind, StartScan
    <3>3. \A e \in Callers : Queued(e, k)' => Queued(e, k) /\ call'[e].wait = call[e].wait
        BY <3>1 DEF Unwind, Return, Queued, NoCall
    <3>4. resources'[k] = resources[k] /\ now' = now
        BY <3>1, <3>2, <1>k, <1>t, Zenon DEF Unwind
    <3>. QED
        BY <2>1, <3>1, <3>2, <3>3, <3>4, <1>w, <1>n, <1>k, <1>t
  <2>4. CASE scan.then = "wait" /\ call[scan.owner].phase = "queued"
    <3>1. RemoveTicket(scan.owner, "THREW") /\ StartScan("unwind", scan.kind, scan.owner)
        BY <1>9, <2>4, Zenon DEF ScanThrows
    <3>2. scan.kind # k
        BY <3>1, Zenon DEF StartScan
    <3>3. \A e \in Callers : Queued(e, k)' => Queued(e, k) /\ call'[e].wait = call[e].wait
        BY <3>1 DEF RemoveTicket, Return, Queued, NoCall
    <3>. QED
        BY <2>1, <3>1, <3>2, <3>3, <1>w, <1>n, <1>k, <1>t DEF RemoveTicket
  <2>5. scan.then = "wait" => call[scan.owner].phase \in {"queued", "granted"}
    BY Zenon DEF IInv, PhaseOK
  <2>. QED
    BY <2>2, <2>3, <2>4, <2>5, Zenon
<1>10. CASE Close
    BY <1>10, <1>s, <1>n DEF Close, Unlocked
<1>11. CASE Tick
    BY <1>11, <1>s, <1>n DEF Tick, Unlocked
<1>12. CASE UNCHANGED vars
    BY <1>12, <1>s, <1>n DEF vars
<1>. QED
    BY <1>1, <1>2, <1>3, <1>4, <1>5, <1>6, <1>7, <1>8, <1>9, <1>10, <1>11, <1>12
       DEF Next, ScanStep

\* Whenever the mutex is free, every live ticket that fits has been granted,
\* unless the last pass over its kind failed.
THEOREM NoTicketStranded == Spec => []NoStrandedTicket
<1>1. Init => OthersServed
    BY DEF Init, OthersServed, Eligible, Queued, NoCall
<1>2. OthersServed => NoStrandedTicket
    BY DEF OthersServed, NoStrandedTicket, Unlocked
<1>. QED
    BY <1>1, <1>2, Invariance, OthersServedStep, PTL DEF Spec

-----------------------------------------------------------------------------
(* What a step may do.                                                     *)

Has(c, k) == permit[c][k] > 0 \/ Granted(c, k)

\* A caller comes to hold a queued kind in two ways only: it takes capacity
\* nobody waits for, or a pass grants its ticket.
LEMMA Obtaining ==
    ASSUME IInv, [Next]_vars, NEW c \in Callers, NEW k \in QueuedKinds,
           ~Has(c, k), Has(c, k)'
    PROVE  (\E w \in Waits : AcquireDirect(c, k, w)) \/ (ScanGrant(c) /\ scan.kind = k)
<1>. SUFFICES ASSUME ~(\E w \in Waits : AcquireDirect(c, k, w)),
                     ~(ScanGrant(c) /\ scan.kind = k)
              PROVE  FALSE
    BY Zenon
<1>t. /\ k \in Kinds /\ permit \in [Callers -> [Kinds -> Nat]] /\ call \in [Callers -> Calls]
      /\ permit[c][k] = 0 /\ ~Granted(c, k)
  <2>1. k \in Kinds /\ permit \in [Callers -> [Kinds -> Nat]] /\ call \in [Callers -> Calls]
    BY Zenon DEF IInv, RestOK, Kinds
  <2>2. permit[c][k] \in Nat
    BY <2>1
  <2>. QED
    BY <2>1, <2>2 DEF Has
<1>s. ~(UNCHANGED <<permit, call>>)
    BY DEF Has, Granted
<1>m. ASSUME NEW x \in Callers, call[x].phase = "granted", Materialize(x) PROVE FALSE
    BY <1>m, <1>t DEF Materialize, Has, Granted, NoCall
<1>u. ASSUME NEW x \in Callers, Unwind(x) PROVE FALSE
    BY <1>u, <1>t, Zenon DEF Unwind, Return, Has, Granted, NoCall
<1>r. ASSUME NEW x \in Callers, NEW r, RemoveTicket(x, r) PROVE FALSE
    BY <1>r, <1>t, Zenon DEF RemoveTicket, Return, Has, Granted, NoCall
<1>1. ASSUME NEW x \in Callers, NEW j \in QueuedKinds, NEW w \in Waits, AcquireQueued(x, j, w)
      PROVE  FALSE
  <2>1. CASE AcquireRefused(x, j, w)
    BY <2>1, <1>s, Zenon DEF AcquireRefused
  <2>2. CASE AcquireDirect(x, j, w)
    <3>1. x # c \/ j # k
        BY <2>2
    <3>. QED
        BY <2>2, <3>1, <1>t DEF AcquireDirect, Has, Granted, NoCall, Kinds
  <2>3. CASE ExhaustTickets(x, j, w)
    BY <2>3, <1>s, Zenon DEF ExhaustTickets
  <2>4. CASE Enqueue(x, j, w)
    BY <2>4, <1>t, Zenon DEF Enqueue, Has, Granted
  <2>. QED
    BY <1>1, <2>1, <2>2, <2>3, <2>4 DEF AcquireQueued
<1>2. ASSUME NEW x \in Callers, Recheck(x) PROVE FALSE
  <2>1. call'[c].phase # "granted" \/ call'[c] = call[c]
    BY <1>2, <1>t DEF Recheck, Return, NoCall
  <2>2. permit'[c][k] = permit[c][k] \/ permit'[c][k] = 0
    BY <1>2, <1>t DEF Recheck
  <2>. QED
    BY <2>1, <2>2, <1>t, Zenon DEF Has, Granted
<1>3. ASSUME NEW x \in Callers, Wake(x) PROVE FALSE
    BY <1>3, <1>m, <1>u, <1>r, <1>s, Zenon DEF Wake, WakeGranted, WakeLeave, WakeRescan
<1>4. ASSUME NEW x \in Callers, RequestCancellation(x) PROVE FALSE
    BY <1>4, <1>s, Zenon DEF RequestCancellation
<1>5. ASSUME NEW x \in Callers, NEW j \in ImmediateKinds, NEW n \in Amounts,
             AcquireImmediate(x, j, n) \/ Resize(x, j, n)
      PROVE  FALSE
  <2>1. j # k /\ j \in Kinds
    BY KindsAssumption DEF Kinds
  <2>2. permit'[c][k] = permit[c][k] /\ call' = call
    <3>1. /\ permit' = permit \/ permit' = [permit EXCEPT ![x][j] = n]
          /\ call' = call
        BY <1>5, Zenon DEF AcquireImmediate, Resize
    <3>. QED
        BY <2>1, <3>1, <1>t
  <2>. QED
    BY <2>2, <1>t, Zenon DEF Has, Granted
<1>6. ASSUME NEW x \in Callers, NEW j \in Kinds, Release(x, j) PROVE FALSE
    BY <1>6, <1>t, Zenon DEF Release, Has, Granted
<1>7. ASSUME NEW x \in Callers, ScanGrant(x) PROVE FALSE
  <2>1. call[x].kind = scan.kind /\ call[x].phase = "queued" /\ call[x] \in Calls
    BY <1>7, <1>t, Zenon DEF ScanGrant, Eligible, Queued
  <2>2. Granted(c, k)' => x = c /\ scan.kind = k
    BY <1>7, <2>1, <1>t DEF ScanGrant, Granted
  <2>3. permit' = permit
    BY <1>7, Zenon DEF ScanGrant
  <2>. QED
    BY <1>7, <2>2, <2>3, <1>t DEF Has
<1>8. ASSUME ScanDone PROVE FALSE
  <2>1. scan.owner \in Callers
    BY <1>8, Zenon DEF ScanDone, Unlocked, IInv, PhaseOK
  <2>. QED
    BY <1>8, <2>1, <1>m, <1>u, <1>s, Zenon DEF ScanDone
<1>9. ASSUME ScanThrows PROVE FALSE
  <2>1. scan.owner \in Callers /\ (scan.then = "wait" => call[scan.owner].phase \in {"queued", "granted"})
    BY <1>9, Zenon DEF ScanThrows, Granting, Unlocked, IInv, PhaseOK
  <2>. QED
    BY <1>9, <2>1, <1>r, <1>u, <1>s, Zenon DEF ScanThrows
<1>10. ASSUME Close \/ Tick \/ UNCHANGED vars PROVE FALSE
    BY <1>10, <1>s DEF Close, Tick, vars
<1>. QED
    BY <1>1, <1>2, <1>3, <1>4, <1>5, <1>6, <1>7, <1>8, <1>9, <1>10 DEF Next, ScanStep

\* Nobody obtains a queued kind past an older live ticket of the same key.
THEOREM FirstComeFirstServed == Spec => FifoWithinKey
<1>1. ASSUME IInv, [Next]_vars, NEW c \in Callers, NEW e \in Callers, NEW k \in QueuedKinds,
             c # e, ~Has(c, k), Has(c, k)', Queued(e, k), Identity[e] = Identity[c],
             Queued(c, k) => call[e].ordinal < call[c].ordinal
      PROVE  Expired(call[e].wait)
  <2>1. CASE \E w \in Waits : AcquireDirect(c, k, w)
    BY <1>1, <2>1, Zenon DEF AcquireDirect, SameKindQueued
  <2>2. CASE ScanGrant(c) /\ scan.kind = k
    <3>. SUFFICES ASSUME ~Expired(call[e].wait) PROVE FALSE
        BY Zenon
    <3>1. Charges(e, k) = Charges(c, k)
        BY <1>1, Zenon DEF Charges
    <3>2. Queued(c, k) /\ Fits(resources[k], Limits[k], c, k, 1) /\ Oldest(c, Eligible(k))
        BY <2>2 DEF ScanGrant, Eligible
    <3>3. e \in Eligible(k)
        BY <1>1, <3>1, <3>2, Zenon DEF Eligible, Fits, Blocking
    <3>4. call[c].ordinal <= call[e].ordinal
        BY <3>2, <3>3, Zenon DEF Oldest
    <3>5. call[c].ordinal \in Nat /\ call[e].ordinal \in Nat
        BY <1>1, Zenon DEF IInv, RestOK, Calls
    <3>. QED
        BY <1>1, <3>2, <3>4, <3>5
  <2>. QED
    BY <1>1, <2>1, <2>2, Obtaining, Zenon
<1>2. IInv /\ [Next]_vars =>
        [\A c, e \in Callers, k \in QueuedKinds :
         LET obtains == /\ ~(permit[c][k] > 0 \/ Granted(c, k))
                        /\ permit'[c][k] > 0 \/ Granted(c, k)'
             older == /\ Queued(e, k)
                      /\ Identity[e] = Identity[c]
                      /\ Queued(c, k) => call[e].ordinal < call[c].ordinal
         IN  c # e /\ obtains /\ older => Expired(call[e].wait)]_vars
    BY <1>1, Zenon DEF Has
<1>. QED
    BY <1>2, Invariance, PTL DEF Spec, FifoWithinKey

\* Subtracting a natural amount raises no counter.
LEMMA SubtractLowers ==
    ASSUME IInv, NEW c, NEW k \in Kinds, NEW n \in Nat,
           resources' = [resources EXCEPT ![k] = SubtractUsage(resources[k], c, k, n)]
    PROVE  \A j \in Kinds : \A d \in ChargeKeys : resources'[j][d] <= resources[j][d]
BY DEF IInv, ResourcesOK, SubtractUsage

\* After close or ticket exhaustion no counter rises and the reason stays.
THEOREM TerminalIsFinal == Spec => NothingGrantedAfterTerminal
<1>. DEFINE Lower == /\ \A k \in Kinds : \A d \in ChargeKeys : resources'[k][d] <= resources[k][d]
                     /\ \A k \in QueuedKinds : \A d \in ChargeKeys : queues'[k][d] <= queues[k][d]
<1>1. ASSUME IInv, [Next]_vars, terminal # "NONE"
      PROVE  terminal' = terminal /\ Lower
  <2>t. /\ resources \in [Kinds -> [ChargeKeys -> Nat]]
        /\ queues \in [QueuedKinds -> [ChargeKeys -> Nat]]
        /\ permit \in [Callers -> [Kinds -> Nat]]
    BY <1>1, Zenon DEF IInv, RestOK, ResourcesOK, QueuesOK
  <2>s. ASSUME UNCHANGED <<resources, queues>> PROVE Lower
    BY <2>s, <2>t
  <2>m. ASSUME NEW x \in Callers, Materialize(x) PROVE terminal' = terminal /\ Lower
    BY <2>m, <2>s DEF Materialize
  <2>u. ASSUME NEW x \in Callers, call[x].phase # "idle", Unwind(x)
        PROVE terminal' = terminal /\ Lower
    <3>1. call[x].kind \in Kinds /\ 1 \in Nat
        BY <1>1, <2>u, Zenon DEF IInv, PhaseOK, Kinds
    <3>2. \A k \in Kinds : \A d \in ChargeKeys : resources'[k][d] <= resources[k][d]
        BY <1>1, <2>u, <3>1, SubtractLowers, Zenon DEF Unwind
    <3>3. queues' = queues /\ terminal' = terminal
        BY <2>u, Zenon DEF Unwind
    <3>. QED
        BY <3>2, <3>3, <2>t
  <2>r. ASSUME NEW x \in Callers, NEW r, RemoveTicket(x, r) PROVE terminal' = terminal /\ Lower
    BY <2>r, <2>t DEF RemoveTicket, SubtractUsage
  <2>1. ASSUME NEW x \in Callers, NEW j \in QueuedKinds, NEW w \in Waits, AcquireQueued(x, j, w)
        PROVE  terminal' = terminal /\ Lower
    BY <1>1, <2>1, <2>s, Zenon DEF AcquireQueued, AcquireRefused, AcquireDirect, ExhaustTickets,
                            Enqueue, MustQueue, Proceed
  <2>2. ASSUME NEW x \in Callers, Recheck(x) PROVE terminal' = terminal /\ Lower
    <3>1. call[x].kind \in Kinds /\ 1 \in Nat
        BY <1>1, <2>2, Zenon DEF Recheck, IInv, PhaseOK, Kinds
    <3>2. CASE x \in cancelled
      <4>1. \A k \in Kinds : \A d \in ChargeKeys : resources'[k][d] <= resources[k][d]
        BY <1>1, <2>2, <3>1, <3>2, SubtractLowers, Zenon DEF Recheck
      <4>2. queues' = queues /\ terminal' = terminal
        BY <2>2, Zenon DEF Recheck
      <4>. QED
        BY <4>1, <4>2, <2>t
    <3>3. CASE x \notin cancelled
        BY <2>2, <3>3, <2>s, Zenon DEF Recheck
    <3>. QED
        BY <3>2, <3>3, Zenon
  <2>3. ASSUME NEW x \in Callers, Wake(x) PROVE terminal' = terminal /\ Lower
    BY <2>3, <2>m, <2>u, <2>r, <2>s, Zenon DEF Wake, WakeGranted, WakeLeave, WakeRescan
  <2>4. ASSUME NEW x \in Callers, NEW j \in ImmediateKinds, NEW n \in Amounts,
               AcquireImmediate(x, j, n)
        PROVE  terminal' = terminal /\ Lower
    BY <1>1, <2>4, <2>s, Zenon DEF AcquireImmediate
  <2>5. ASSUME NEW x \in Callers, NEW j \in ImmediateKinds, NEW n \in Amounts, Resize(x, j, n)
        PROVE  terminal' = terminal /\ Lower
    <3>1. j \in Kinds /\ n \in Nat /\ permit[x][j] \in Nat
        BY <2>t, WaitsAssumption, Zenon DEF Kinds
    <3>2. queues' = queues /\ terminal' = terminal
        BY <2>5, Zenon DEF Resize
    <3>3. CASE n > permit[x][j]
        BY <1>1, <2>5, <3>2, <3>3, <2>s, Zenon DEF Resize
    <3>4. CASE ~(n > permit[x][j])
      <4>1. permit[x][j] - n \in Nat
        BY <3>1, <3>4
      <4>2. \A k \in Kinds : \A d \in ChargeKeys : resources'[k][d] <= resources[k][d]
        BY <1>1, <2>5, <3>1, <3>4, <4>1, SubtractLowers, Zenon DEF Resize
      <4>. QED
        BY <3>2, <4>2, <2>t
    <3>. QED
        BY <3>3, <3>4, Zenon
  <2>6. ASSUME NEW x \in Callers, NEW j \in Kinds, Release(x, j)
        PROVE  terminal' = terminal /\ Lower
    <3>1. \A k \in Kinds : \A d \in ChargeKeys : resources'[k][d] <= resources[k][d]
        BY <1>1, <2>6, <2>t, SubtractLowers, ZenonT(30) DEF Release
    <3>2. queues' = queues /\ terminal' = terminal
        BY <2>6, Zenon DEF Release
    <3>. QED
        BY <3>1, <3>2, <2>t
  <2>7. ASSUME ScanStep PROVE terminal' = terminal /\ Lower
    <3>1. ScanDone
        BY <1>1, <2>7, Zenon DEF ScanStep, ScanGrant, ScanThrows, Granting
    <3>2. scan.owner \in Callers
        BY <1>1, <3>1, Zenon DEF ScanDone, Unlocked, IInv, PhaseOK
    <3>. QED
        BY <3>1, <3>2, <2>m, <2>u, <2>s, Zenon DEF ScanDone
  <2>8. ASSUME \/ \E x \in Callers : RequestCancellation(x)
               \/ Close \/ Tick \/ UNCHANGED vars
        PROVE  terminal' = terminal /\ Lower
    BY <1>1, <2>8, <2>s, Zenon DEF RequestCancellation, Close, Tick, vars
  <2>. HIDE DEF Lower
  <2>. QED
    BY <1>1, <2>1, <2>2, <2>3, <2>4, <2>5, <2>6, <2>7, <2>8, Zenon DEF Next
<1>2. IInv /\ [Next]_vars =>
        [terminal # "NONE" =>
         /\ terminal' = terminal
         /\ \A k \in Kinds, d \in ChargeKeys : resources'[k][d] <= resources[k][d]
         /\ \A k \in QueuedKinds, d \in ChargeKeys : queues'[k][d] <= queues[k][d]]_vars
    BY <1>1, Zenon
<1>. QED
    BY <1>2, Invariance, PTL DEF Spec, NothingGrantedAfterTerminal

\* A call returns holding the permit exactly when it reports success.
THEOREM ReturnsTruthful == Spec => ReturnIsTruthful
<1>1. ASSUME IInv, [Next]_vars, NEW c \in Callers,
             call[c].phase # "idle", call'[c].phase = "idle"
      PROVE  result' = [caller |-> c, status |-> "ACQUIRED"] <=> permit'[c][call[c].kind] > 0
  <2>. DEFINE Truthful == result' = [caller |-> c, status |-> "ACQUIRED"]
                             <=> permit'[c][call[c].kind] > 0
  <2>t. /\ call \in [Callers -> Calls] /\ permit \in [Callers -> [Kinds -> Nat]]
        /\ call[c].kind \in QueuedKinds /\ call[c].kind \in Kinds
    BY <1>1, Zenon DEF IInv, RestOK, PhaseOK, Kinds
  <2>s. ~(UNCHANGED call)
    BY <1>1, Zenon
  <2>m. ASSUME NEW x \in Callers, Materialize(x) PROVE Truthful
    BY <1>1, <2>m, <2>t DEF Materialize, NoCall
  <2>u. ASSUME NEW x \in Callers, call[x].phase = "granted", Unwind(x) PROVE Truthful
    <3>1. x = c
        BY <1>1, <2>u, <2>t, Zenon DEF Unwind, Return
    <3>2. permit[c][call[c].kind] = 0
        BY <1>1, <2>u, <3>1, Zenon DEF IInv, PhaseOK
    <3>. QED
        BY <2>u, <3>1, <3>2 DEF Unwind, Return
  <2>r. ASSUME NEW x \in Callers, call[x].phase = "queued", NEW r, r # "ACQUIRED",
               RemoveTicket(x, r)
        PROVE  Truthful
    <3>1. x = c
        BY <1>1, <2>r, <2>t, Zenon DEF RemoveTicket, Return
    <3>2. permit[c][call[c].kind] = 0
        BY <1>1, <2>r, <3>1, Zenon DEF IInv, PhaseOK
    <3>. QED
        BY <2>r, <3>1, <3>2 DEF RemoveTicket, Return
  <2>1. ASSUME NEW x \in Callers, NEW j \in QueuedKinds, NEW w \in Waits, AcquireQueued(x, j, w)
        PROVE  Truthful
    <3>1. CASE AcquireRefused(x, j, w) \/ ExhaustTickets(x, j, w)
        BY <3>1, <2>s, Zenon DEF AcquireRefused, ExhaustTickets
    <3>2. CASE AcquireDirect(x, j, w)
        BY <1>1, <3>2, <2>t, Zenon DEF AcquireDirect, NoCall
    <3>3. CASE Enqueue(x, j, w)
        BY <1>1, <3>3, <2>t, Zenon DEF Enqueue
    <3>. QED
        BY <2>1, <3>1, <3>2, <3>3, Zenon DEF AcquireQueued
  <2>2. ASSUME NEW x \in Callers, Recheck(x) PROVE Truthful
    <3>1. x = c /\ permit[c][call[c].kind] = 1
        BY <1>1, <2>2, <2>t, Zenon DEF Recheck, Return, IInv, PhaseOK
    <3>. QED
        BY <2>2, <3>1, <2>t DEF Recheck, Return
  <2>3. ASSUME NEW x \in Callers, Wake(x) PROVE Truthful
    <3>1. terminal # "ACQUIRED" /\ Timeout(call[x].wait) # "ACQUIRED"
        BY <1>1, Zenon DEF IInv, RestOK, Timeout
    <3>. QED
        BY <2>3, <3>1, <2>m, <2>u, <2>r, <2>s, Zenon DEF Wake, WakeGranted, WakeLeave, WakeRescan
  <2>4. ASSUME NEW x \in Callers, NEW j \in ImmediateKinds, NEW n \in Amounts,
               AcquireImmediate(x, j, n) \/ Resize(x, j, n)
        PROVE  Truthful
    BY <2>4, <2>s, Zenon DEF AcquireImmediate, Resize
  <2>5. ASSUME NEW x \in Callers, NEW j \in Kinds, Release(x, j) PROVE Truthful
    BY <2>5, <2>s, Zenon DEF Release
  <2>6. ASSUME ScanStep PROVE Truthful
    <3>1. scan.owner \in Callers
        BY <1>1, <2>6, Zenon DEF ScanStep, ScanGrant, ScanDone, ScanThrows, Granting, Unlocked,
                          IInv, PhaseOK
    <3>2. ASSUME NEW x \in Callers, ScanGrant(x) PROVE Truthful
        BY <1>1, <3>2, <2>t, Zenon DEF ScanGrant, Calls
    <3>3. ASSUME ScanDone PROVE Truthful
        BY <3>1, <3>3, <2>m, <2>u, <2>s, Zenon DEF ScanDone
    <3>4. ASSUME ScanThrows PROVE Truthful
      <4>1. scan.then = "wait" => call[scan.owner].phase \in {"queued", "granted"}
        BY <1>1, Zenon DEF IInv, PhaseOK
      <4>. QED
        BY <3>1, <3>4, <4>1, <2>r, <2>u, <2>s, ZenonT(30) DEF ScanThrows
    <3>. QED
        BY <2>6, <3>2, <3>3, <3>4, Zenon DEF ScanStep
  <2>7. ASSUME \/ \E x \in Callers : RequestCancellation(x)
               \/ Close \/ Tick \/ UNCHANGED vars
        PROVE  Truthful
    BY <2>7, <2>s, Zenon DEF RequestCancellation, Close, Tick, vars
  <2>. HIDE DEF Truthful
  <2>8. Truthful
    BY <1>1, <2>1, <2>2, <2>3, <2>4, <2>5, <2>6, <2>7, ZenonT(30) DEF Next
  <2>. QED
    BY <2>8, Zenon DEF Truthful
<1>2. IInv /\ [Next]_vars =>
        [\A c \in Callers :
         call[c].phase # "idle" /\ call'[c].phase = "idle" =>
            (result' = [caller |-> c, status |-> "ACQUIRED"]
                <=> permit'[c][call[c].kind] > 0)]_vars
    BY <1>1, Zenon
<1>. QED
    BY <1>2, Invariance, PTL DEF Spec, ReturnIsTruthful

-----------------------------------------------------------------------------
(* The controller implements pools of capacity.                            *)

Holdings == [c \in Callers |-> [k \in Kinds |-> Held(c, k)]]

PoolStep == [Pools!Next]_(Pools!poolVars)

\* Nothing but the holding of one caller in one kind moves.
OnlyMoves(c, k) ==
    \A e \in Callers : \A j \in Kinds : (e # c \/ j # k) => Held(e, j)' = Held(e, j)

\* What is out of a pool is what its counter says.
LEMMA UsedIsCounted ==
    ASSUME IInv', NEW k \in Kinds, NEW d \in ChargeKeys
    PROVE  Pools!Used(Holdings', k, d) <= Limits[k][d[1]]
<1>1. Charged(k, d) \subseteq Callers
  BY DEF Charged
<1>2. \A c \in Callers : Holdings'[c][k] = Held(c, k)'
  BY DEF Holdings
<1>3. {{c} \X (1..Holdings'[c][k]) : c \in Charged(k, d)} = {{c} \X (1..Held(c, k)') : c \in Charged(k, d)}
  BY <1>1, <1>2
<1>4. Pools!Used(Holdings', k, d) = Cardinality(Units(k, d)')
  <2>1. [j \in Kinds |-> [e \in ChargeKeys |-> Charged(j, e)]][k][d] = Charged(k, d)
    BY Zenon
  <2>2. Units(k, d)' = UNION {{c} \X (1..Held(c, k)') : c \in Charged(k, d)}
    BY DEF Units, Charged
  <2>3. Pools!Used(Holdings', k, d) = Cardinality(UNION {{c} \X (1..Holdings'[c][k]) : c \in Charged(k, d)})
    <3>1. \A S : Pools!Cardinality(S) = Cardinality(S)
      BY Zenon DEF Pools!Cardinality, Cardinality
    <3> QED  BY <2>1, <3>1, Zenon DEF Pools!Used
  <2> QED  BY <1>3, <2>2, <2>3, Zenon
<1> QED  BY <1>4, Zenon DEF IInv, ResourcesOK

\* A step that moves no holding is not seen.
LEMMA KeptRefines ==
    ASSUME \A e \in Callers : \A j \in Kinds : Held(e, j)' = Held(e, j), terminal' = terminal
    PROVE  PoolStep
<1>1. Holdings' = Holdings
  BY Zenon DEF Holdings
<1>2. (terminal = "NONE")' = (terminal = "NONE")
  OBVIOUS
<1> QED  BY <1>1, <1>2, Zenon DEF PoolStep, Pools!poolVars, Holdings

\* A step that moves one holding takes from the pools or gives back to them.
LEMMA MoveRefines ==
    ASSUME IInv, IInv', NEW c \in Callers, NEW k \in Kinds, OnlyMoves(c, k), terminal' = terminal,
           Held(c, k) < Held(c, k)' => terminal = "NONE"
    PROVE  PoolStep
<1>1. Held(c, k) \in Nat /\ Held(c, k)' \in Nat
  BY HeldIsNat, Zenon DEF IInv
<1>2. Holdings[c][k] = Held(c, k) /\ Holdings'[c][k] = Held(c, k)'
  BY DEF Holdings
<1>3. Holdings' = [Holdings EXCEPT ![c][k] = Holdings'[c][k]]
  <2>1. ASSUME NEW e \in Callers PROVE Holdings'[e] = [Holdings EXCEPT ![c][k] = Holdings'[c][k]][e]
    BY <1>2 DEF Holdings, OnlyMoves
  <2> QED  BY <2>1, Zenon DEF Holdings
<1>4. (terminal = "NONE")' = (terminal = "NONE")
  OBVIOUS
<1>5. CASE Held(c, k) = Held(c, k)'
  BY <1>5, KeptRefines DEF OnlyMoves
<1>6. CASE Held(c, k) < Held(c, k)'
  <2>1. \A d \in ChargeKeys :
          Pools!Used(Holdings', k, d) <= [j \in Kinds |-> [e \in ChargeKeys |-> Limits[j][e[1]]]][k][d]
    BY UsedIsCounted, Zenon
  <2>2. Holdings[c][k] < Holdings'[c][k] /\ terminal = "NONE"
    BY <1>2, <1>6, Zenon
  <2>3. Pools!Take(c, k)
    BY <1>3, <1>4, <2>1, <2>2, Zenon DEF Pools!Take, Holdings
  <2> QED  BY <2>3, Zenon DEF PoolStep, Pools!Next
<1>7. CASE Held(c, k)' < Held(c, k)
  <2>1. Holdings'[c][k] < Holdings[c][k]
    BY <1>2, <1>7, Zenon
  <2>2. Pools!GiveBack(c, k)
    BY <1>3, <1>4, <2>1, Zenon DEF Pools!GiveBack, Holdings
  <2> QED  BY <2>2, Zenon DEF PoolStep, Pools!Next
<1> QED  BY <1>1, <1>5, <1>6, <1>7

\* A terminal reason that was not there closes the pools.
LEMMA CloseRefines ==
    ASSUME UNCHANGED <<call, permit>>, terminal' = terminal \/ terminal = "NONE"
    PROVE  PoolStep
<1>1. \A e \in Callers : \A j \in Kinds : Held(e, j)' = Held(e, j)
  BY Zenon DEF Held, Granted
<1>2. CASE (terminal = "NONE")' = (terminal = "NONE")
  <2>1. Holdings' = Holdings
    BY <1>1, Zenon DEF Holdings
  <2> QED  BY <1>2, <2>1, Zenon DEF PoolStep, Pools!poolVars, Holdings
<1>3. CASE terminal = "NONE" /\ terminal' # "NONE"
  <2>1. Holdings' = Holdings /\ (terminal = "NONE")' = FALSE
    BY <1>1, <1>3 DEF Holdings
  <2>2. Pools!Close
    BY <1>3, <2>1, Zenon DEF Pools!Close, Holdings
  <2> QED  BY <2>2 DEF PoolStep, Pools!Next
<1> QED  BY <1>2, <1>3, Zenon

\* Calls that change without a grant, and permits that stay, move nothing.
LEMMA CallRefines ==
    ASSUME NEW c \in Callers, \A e \in Callers \ {c} : call'[e] = call[e], UNCHANGED <<permit, terminal>>,
           call[c].phase # "granted", call'[c].phase # "granted"
    PROVE  PoolStep
<1>1. \A e \in Callers : \A j \in Kinds : Held(e, j)' = Held(e, j)
  BY Zenon DEF Held, Granted
<1> QED  BY <1>1, KeptRefines, Zenon

\* Acquisition through a queue: only the direct one takes.
LEMMA AcquireRefines ==
    ASSUME IInv, IInv', NEW c \in Callers, NEW k \in QueuedKinds, NEW w \in Waits, AcquireQueued(c, k, w)
    PROVE  PoolStep
<1>1. CASE AcquireRefused(c, k, w) \/ ExhaustTickets(c, k, w)
  BY <1>1, CloseRefines, Zenon DEF AcquireRefused, ExhaustTickets, MustQueue, Proceed
<1>2. CASE AcquireDirect(c, k, w)
  <2>1. k \in Kinds /\ call[c].phase = "idle" /\ permit[c][k] = 0 /\ terminal = "NONE" /\ terminal' = terminal
    BY <1>2 DEF AcquireDirect, Proceed, Enter, Kinds
  <2>2. /\ \A e \in Callers \ {c} : call'[e] = call[e] /\ permit'[e] = permit[e]
        /\ \A j \in Kinds \ {k} : permit'[c][j] = permit[c][j]
        /\ call'[c].phase = "recheck"
    BY <1>2, <2>1 DEF AcquireDirect, IInv, RestOK, NoCall
  <2>3. OnlyMoves(c, k)
    BY <2>1, <2>2, Zenon DEF OnlyMoves, Held, Granted
  <2> QED  BY <2>1, <2>3, MoveRefines, Zenon
<1>3. CASE Enqueue(c, k, w)
  <2>1. call[c].phase = "idle" /\ UNCHANGED <<permit, terminal>>
    BY <1>3, Zenon DEF Enqueue, MustQueue, Proceed, Enter
  <2>2. call'[c].phase = "queued" /\ \A e \in Callers \ {c} : call'[e] = call[e]
    BY <1>3, Zenon DEF Enqueue, IInv, RestOK
  <2> QED  BY <2>1, <2>2, CallRefines, Zenon
<1> QED  BY <1>1, <1>2, <1>3 DEF AcquireQueued

\* A call that ends.
LEMMA ReturnFacts ==
    ASSUME IInv, NEW c \in Callers, NEW r, Return(c, r)
    PROVE  call'[c].phase = "idle" /\ \A e \in Callers \ {c} : call'[e] = call[e]
BY Zenon DEF Return, IInv, RestOK, NoCall

\* A cancellation found after the mutex was dropped gives the permit back.
LEMMA RecheckRefines ==
    ASSUME IInv, IInv', NEW c \in Callers, Recheck(c)
    PROVE  PoolStep
<1>1. PICK k \in Kinds : k = call[c].kind /\ permit[c][k] = 1
  BY Zenon DEF Recheck, IInv, PhaseOK, Kinds
<1>2. call[c].phase = "recheck" /\ terminal' = terminal
  BY Zenon DEF Recheck
<1>3. CASE c \in cancelled
  <2>1. Return(c, "CANCELLED") /\ permit' = [permit EXCEPT ![c][k] = 0]
    BY <1>1, <1>3, Zenon DEF Recheck
  <2>2. call'[c].phase = "idle" /\ \A e \in Callers \ {c} : call'[e] = call[e]
    BY <2>1, ReturnFacts, Zenon
  <2>3. /\ \A e \in Callers \ {c} : permit'[e] = permit[e]
        /\ \A j \in Kinds \ {k} : permit'[c][j] = permit[c][j]
        /\ permit'[c][k] = 0
    BY <2>1, Zenon DEF IInv, RestOK
  <2>4. OnlyMoves(c, k) /\ Held(c, k) = 1 /\ Held(c, k)' = 0
    BY <1>1, <1>2, <2>2, <2>3 DEF OnlyMoves, Held, Granted
  <2> QED  BY <1>2, <2>4, MoveRefines
<1>4. CASE c \notin cancelled
  <2>1. Return(c, "ACQUIRED") /\ permit' = permit
    BY <1>4, Zenon DEF Recheck
  <2>2. call'[c].phase = "idle" /\ \A e \in Callers \ {c} : call'[e] = call[e]
    BY <2>1, ReturnFacts, Zenon
  <2> QED  BY <1>2, <2>1, <2>2, CallRefines, Zenon
<1> QED  BY <1>3, <1>4

\* A grant picked up was held already; one that cannot be is given back.
LEMMA PickUpRefines ==
    ASSUME IInv, IInv', NEW c \in Callers, call[c].phase = "granted", Materialize(c) \/ Unwind(c)
    PROVE  PoolStep
<1>1. PICK k \in Kinds : k = call[c].kind /\ permit[c][k] = 0
  BY Zenon DEF IInv, PhaseOK, Kinds
<1>2. CASE Materialize(c)
  <2>1. /\ terminal' = terminal /\ permit' = [permit EXCEPT ![c][k] = 1]
        /\ call' = [call EXCEPT ![c] = [NoCall EXCEPT !.phase = "recheck", !.kind = k]]
    BY <1>1, <1>2, Zenon DEF Materialize
  <2>2. /\ \A e \in Callers \ {c} : call'[e] = call[e] /\ permit'[e] = permit[e]
        /\ \A j \in Kinds \ {k} : permit'[c][j] = permit[c][j]
        /\ permit'[c][k] = 1 /\ call'[c].phase = "recheck"
    BY <2>1 DEF IInv, RestOK, NoCall
  <2>3. \A e \in Callers : \A j \in Kinds : Held(e, j)' = Held(e, j)
    BY <1>1, <2>2, Zenon DEF Held, Granted
  <2> QED  BY <2>1, <2>3, KeptRefines
<1>3. CASE Unwind(c)
  <2>1. Return(c, "THREW") /\ UNCHANGED <<terminal, permit>>
    BY <1>3, Zenon DEF Unwind
  <2>2. call'[c].phase = "idle" /\ \A e \in Callers \ {c} : call'[e] = call[e]
    BY <2>1, ReturnFacts, Zenon
  <2>3. OnlyMoves(c, k) /\ Held(c, k) = 1 /\ Held(c, k)' = 0
    BY <1>1, <2>1, <2>2, Zenon DEF OnlyMoves, Held, Granted
  <2> QED  BY <2>1, <2>3, MoveRefines
<1> QED  BY <1>2, <1>3, Zenon

\* A ticket that leaves had nothing.
LEMMA RemoveRefines ==
    ASSUME IInv, NEW c \in Callers, NEW r, call[c].phase = "queued", RemoveTicket(c, r)
    PROVE  PoolStep
<1>1. Return(c, r) /\ UNCHANGED <<terminal, permit>>
  BY Zenon DEF RemoveTicket
<1>2. call'[c].phase = "idle" /\ \A e \in Callers \ {c} : call'[e] = call[e]
  BY <1>1, ReturnFacts, Zenon
<1> QED  BY <1>1, <1>2, CallRefines, Zenon

\* A turn of a waiting call.
LEMMA WakeRefines ==
    ASSUME IInv, IInv', NEW c \in Callers, Wake(c)
    PROVE  PoolStep
<1>1. CASE WakeGranted(c)
  BY <1>1, PickUpRefines, Zenon DEF WakeGranted
<1>2. CASE WakeLeave(c)
  BY <1>2, RemoveRefines, Zenon DEF WakeLeave
<1>3. CASE WakeRescan(c)
  BY <1>3, CloseRefines, Zenon DEF WakeRescan
<1> QED  BY <1>1, <1>2, <1>3, Zenon DEF Wake

\* A pass takes for the ticket it grants.
LEMMA ScanRefines ==
    ASSUME IInv, IInv', ScanStep
    PROVE  PoolStep
<1>1. ASSUME NEW c \in Callers, ScanGrant(c) PROVE PoolStep
  <2>1. PICK k \in Kinds : k = scan.kind
    BY <1>1, Zenon DEF ScanGrant, Granting, Unlocked, IInv, PhaseOK
  <2>2. /\ terminal = "NONE" /\ terminal' = terminal /\ permit' = permit
        /\ call[c].phase = "queued" /\ call[c].kind = k
    BY <1>1, <2>1 DEF ScanGrant, Granting, Eligible, Queued
  <2>3. call'[c].phase = "granted" /\ call'[c].kind = k /\ \A e \in Callers \ {c} : call'[e] = call[e]
    BY <1>1, <2>2 DEF ScanGrant, IInv, RestOK, Calls
  <2>4. OnlyMoves(c, k)
    BY <2>2, <2>3, Zenon DEF OnlyMoves, Held, Granted
  <2> QED  BY <2>2, <2>4, MoveRefines, Zenon
<1>2. CASE ScanDone
  <2>1. CASE scan.then = "wait" /\ call[scan.owner].phase = "granted"
    BY <1>2, <2>1, PickUpRefines, Zenon DEF ScanDone, IInv, PhaseOK
  <2>2. CASE ~(scan.then = "wait" /\ call[scan.owner].phase = "granted")
    BY <1>2, <2>2, CloseRefines, Zenon DEF ScanDone
  <2> QED  BY <2>1, <2>2, Zenon
<1>3. CASE ScanThrows
  <2>1. scan.owner \in Callers /\ (scan.then = "wait" => call[scan.owner].phase \in {"queued", "granted"})
    BY <1>3, Zenon DEF ScanThrows, Granting, Unlocked, IInv, PhaseOK
  <2>2. CASE scan.then # "wait"
    <3>1. UNCHANGED <<call, permit, terminal>>
      BY <1>3, <2>2, Zenon DEF ScanThrows
    <3> QED  BY <3>1, CloseRefines
  <2>3. CASE scan.then = "wait" /\ call[scan.owner].phase = "granted"
    <3>1. Unwind(scan.owner)
      BY <1>3, <2>3 DEF ScanThrows
    <3> QED  BY <2>1, <2>3, <3>1, PickUpRefines, Zenon
  <2>4. CASE scan.then = "wait" /\ call[scan.owner].phase = "queued"
    <3>1. RemoveTicket(scan.owner, "THREW")
      BY <1>3, <2>4, Zenon DEF ScanThrows
    <3> QED  BY <2>1, <2>4, <3>1, RemoveRefines, Zenon
  <2> QED  BY <2>1, <2>2, <2>3, <2>4, Zenon
<1> QED  BY <1>1, <1>2, <1>3 DEF ScanStep

\* A permit that changes its size while its caller is between calls.
LEMMA PermitRefines ==
    ASSUME IInv, IInv', NEW c \in Callers, NEW k \in Kinds, NEW n \in Nat, call[c].phase = "idle",
           permit' = [permit EXCEPT ![c][k] = n], UNCHANGED <<call, terminal>>,
           n <= permit[c][k] \/ terminal = "NONE"
    PROVE  PoolStep
<1>1. /\ \A e \in Callers \ {c} : permit'[e] = permit[e]
      /\ \A j \in Kinds \ {k} : permit'[c][j] = permit[c][j]
      /\ permit'[c][k] = n /\ permit[c][k] \in Nat
  BY DEF IInv, RestOK
<1>2. OnlyMoves(c, k) /\ Held(c, k) = permit[c][k] /\ Held(c, k)' = n
  BY <1>1 DEF OnlyMoves, Held, Granted
<1>3. Held(c, k) < Held(c, k)' => terminal = "NONE"
  BY <1>1, <1>2
<1> QED  BY <1>2, <1>3, MoveRefines, Zenon

\* Immediate reservations, their growth and their shrinking.
LEMMA ImmediateRefines ==
    ASSUME IInv, IInv', NEW c \in Callers, NEW k \in ImmediateKinds, NEW n \in Amounts,
           AcquireImmediate(c, k, n) \/ Resize(c, k, n)
    PROVE  PoolStep
<1>1. k \in Kinds /\ n \in Nat /\ permit[c][k] \in Nat
  BY WaitsAssumption DEF Kinds, IInv, RestOK
<1>2. call[c].phase = "idle" /\ UNCHANGED <<call, terminal>>
  BY Zenon DEF AcquireImmediate, Resize
<1>3. permit' = permit \/ (permit' = [permit EXCEPT ![c][k] = n] /\ (n <= permit[c][k] \/ terminal = "NONE"))
  <2>1. CASE AcquireImmediate(c, k, n)
    BY <2>1, Zenon DEF AcquireImmediate
  <2>2. CASE Resize(c, k, n)
    <3>1. n > permit[c][k] \/ n <= permit[c][k]
      BY <1>1
    <3> QED  BY <2>2, <3>1, Zenon DEF Resize
  <2> QED  BY <2>1, <2>2
<1>4. CASE permit' = permit
  BY <1>2, <1>4, CloseRefines, Zenon
<1>5. CASE permit' = [permit EXCEPT ![c][k] = n] /\ (n <= permit[c][k] \/ terminal = "NONE")
  BY <1>1, <1>2, <1>5, PermitRefines, Zenon
<1> QED  BY <1>3, <1>4, <1>5, Zenon

\* Every step of the controller is a step of the pools, or is not seen.
LEMMA NextRefines == IInv /\ IInv' /\ [Next]_vars => PoolStep
<1> SUFFICES ASSUME IInv, IInv', [Next]_vars PROVE PoolStep
  BY Zenon
<1>1. ASSUME NEW c \in Callers, NEW k \in Kinds, Release(c, k) PROVE PoolStep
  <2>1. call[c].phase = "idle" /\ permit' = [permit EXCEPT ![c][k] = 0] /\ UNCHANGED <<call, terminal>>
    BY <1>1, Zenon DEF Release
  <2>2. 0 <= permit[c][k]
    BY DEF IInv, RestOK
  <2> QED  BY <2>1, <2>2, PermitRefines, Zenon
<1>2. CASE Close \/ Tick \/ UNCHANGED vars \/ \E c \in Callers : RequestCancellation(c)
  BY <1>2, CloseRefines, Zenon DEF Close, Tick, vars, RequestCancellation
<1> QED  BY <1>1, <1>2, AcquireRefines, RecheckRefines, WakeRefines, ScanRefines, ImmediateRefines,
            Zenon DEF Next

\* The controller with its counters, tickets, grants in flight and permits implements
\* pools of capacity: one step moves what one caller has of one kind, never beyond a
\* pool, and once closed only back (AcquireQueued, GrantEligibleLocked, Permit::Release).
THEOREM ControllerImplementsPools == Spec => ImplementsPools
<1>1. Init => Pools!Init
  <2> SUFFICES ASSUME Init PROVE Pools!Init
    OBVIOUS
  <2>1. \A c \in Callers : \A k \in Kinds : Held(c, k) = 0
    BY Zenon DEF Init, Held, Granted, NoCall
  <2>2. Holdings = [c \in Callers |-> [k \in Kinds |-> 0]]
    BY <2>1 DEF Holdings
  <2>3. (terminal = "NONE") = TRUE
    BY Zenon DEF Init
  <2> QED  BY <2>2, <2>3, Zenon DEF Pools!Init, Holdings
<1>2. IInv /\ IInv' /\ [Next]_vars => [Pools!Next]_(Pools!poolVars)
  BY NextRefines DEF PoolStep
<1> QED  BY <1>1, <1>2, Invariance, PTL DEF Spec, ImplementsPools, Pools!Spec
=============================================================================
