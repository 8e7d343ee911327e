------------------------- MODULE AdmissionController -------------------------
(***************************************************************************)
(* The executor-local admission controller: one mutex over a vector of     *)
(* usage counters per resource kind (global, connector, destination,       *)
(* principal, bulkhead), FIFO ticket queues for the kinds that wait, and   *)
(* move-only permits as the only authority to give capacity back.          *)
(*                                                                         *)
(* Every action runs under the mutex, except where the code unlocks first. *)
(* GrantEligibleLocked is a loop: it is modelled one grant per step while  *)
(* `scan` holds the mutex, so no other action interleaves with it.         *)
(*                                                                         *)
(* The ticket deque is represented by the ordinals in `call`: tickets are  *)
(* appended with the next ordinal of their queue and a pass only looks at  *)
(* one kind, so the order of a kind's tickets is the order of ordinals.    *)
(***************************************************************************)
EXTENDS Integers, FiniteSets

CONSTANTS
    Callers,         \* threads calling the controller, one call each at a time
    Identity,        \* [Callers -> [connector, destination, principal, operation]]
    Anonymous,       \* the principal token that is not an opaque authority
    QueuedKinds,     \* resource kinds acquired through a ticket queue
    ImmediateKinds,  \* resource kinds acquired or refused at once
    Limits,          \* [kind -> [scope -> Nat]], the profile's resource limits
    QueueLimits,     \* [queued kind -> [scope -> Nat]], its queue limits
    Waits,           \* wait policies: durations [queue, aggregate, scan]
    Amounts,         \* sizes an immediate reservation may ask for
    MaxTicket,       \* the last ticket ordinal (UINT64_MAX)
    MaxTime          \* bound on the clock

Kinds == QueuedKinds \cup ImmediateKinds

Scopes == {"GLOBAL", "CONNECTOR", "DESTINATION", "PRINCIPAL", "BULKHEAD"}

ASSUME CallersAssumption == IsFiniteSet(Callers)

ASSUME KindsAssumption == QueuedKinds \cap ImmediateKinds = {}

ASSUME LimitsAssumption ==
    /\ Limits \in [Kinds -> [Scopes -> Nat]]
    /\ QueueLimits \in [QueuedKinds -> [Scopes -> Nat]]

ASSUME WaitsAssumption ==
    /\ Waits \subseteq [queue : Nat, aggregate : Nat, scan : Nat]
    /\ Amounts \subseteq Nat \ {0}

ASSUME BoundsAssumption == MaxTicket \in Nat /\ MaxTime \in Nat

VARIABLES
    now,         \* the steady clock
    terminal,    \* terminal_reason
    resources,   \* usage counters of each kind
    queues,      \* queue counters of each queued kind
    nextTicket,  \* next ordinal of each queue
    call,        \* the AcquireQueued call each caller is in
    permit,      \* amount of the permit each caller holds of each kind, 0: none
    cancelled,   \* the callers whose cancellation was requested
    result,      \* what the last acquisition to return reported, and to whom
    scan,        \* the GrantEligibleLocked pass in progress
    missed       \* history: kinds whose last pass ended in an exception

vars == <<now, terminal, resources, queues, nextTicket, call, permit,
          cancelled, result, scan, missed>>

-----------------------------------------------------------------------------
(* Dimension vectors.                                                      *)

\* Credential resolution runs before the principal and the operation are
\* known: its identity is preliminary and charges neither.
Preliminary(k) == k = "CREDENTIAL_RESOLUTION"

Charges(c, k) ==
    LET id == Identity[c]
    IN  {<<"GLOBAL", "all">>, <<"CONNECTOR", id.connector>>,
         <<"DESTINATION", id.destination>>}
        \cup {p \in {<<"PRINCIPAL", id.principal>>} :
                ~Preliminary(k) /\ id.principal # Anonymous}
        \cup {b \in {<<"BULKHEAD", id>>} : ~Preliminary(k)}

ChargeKeys == UNION {Charges(c, k) : c \in Callers, k \in Kinds}

Rank == [s \in Scopes |->
    CASE s = "GLOBAL" -> 1 [] s = "CONNECTOR" -> 2 [] s = "DESTINATION" -> 3
      [] s = "PRINCIPAL" -> 4 [] s = "BULKHEAD" -> 5]

\* Fault: the limit is compared before the request is added.
BlockingOffByOne(counts, limits, c, k, amount) ==
    {d \in Charges(c, k) : counts[d] > limits[d[1]]}

\* The dimensions in which `amount` more does not fit.
Blocking(counts, limits, c, k, amount) ==
    {d \in Charges(c, k) : counts[d] + amount > limits[d[1]]}

Fits(counts, limits, c, k, amount) ==
    Blocking(counts, limits, c, k, amount) = {}

AddUsage(counts, c, k, amount) ==
    [d \in ChargeKeys |-> IF d \in Charges(c, k) THEN counts[d] + amount ELSE counts[d]]

SubtractUsage(counts, c, k, amount) ==
    [d \in ChargeKeys |-> IF d \in Charges(c, k) THEN counts[d] - amount ELSE counts[d]]

\* A request the profile can never satisfy is refused at once, but only when
\* the first blocking dimension in CheckFits order is the disabled one.
NeverFits(c, k) ==
    LET blocking == Blocking(resources[k], Limits[k], c, k, 1)
    IN  \E d \in blocking :
            /\ Limits[k][d[1]] < 1
            /\ \A e \in blocking : Rank[d[1]] <= Rank[e[1]]

-----------------------------------------------------------------------------
(* Calls and tickets.                                                      *)

NoCall == [phase |-> "idle", kind |-> "none", ordinal |-> 0,
           wait |-> [queue |-> 0, aggregate |-> 0, scan |-> 0]]

NoScan == [then |-> "none", kind |-> "none", owner |-> "none"]

Unlocked == scan.then = "none"

Deadlines(w) ==
    [queue |-> now + w.queue, aggregate |-> now + w.aggregate, scan |-> now + w.scan]

Queued(c, k) == call[c].phase = "queued" /\ call[c].kind = k

Expired(w) == now >= w.queue \/ now >= w.aggregate \/ now >= w.scan

\* The answer a wait policy gives once one of its deadlines passed, in the
\* order in which AcquireQueued looks at them.
Timeout(w) ==
    CASE now >= w.scan -> "SCAN_DEADLINE_REACHED"
      [] now < w.scan /\ now >= w.aggregate -> "ADMISSION_WAITING_EXHAUSTED"
      [] OTHER -> "QUEUE_TIMEOUT"

\* Tickets a pass over kind k grants: live, and their whole vector fits.
Eligible(k) ==
    {c \in Callers : /\ Queued(c, k)
                     /\ ~Expired(call[c].wait)
                     /\ Fits(resources[k], Limits[k], c, k, 1)}

Oldest(c, S) == \A d \in S : call[c].ordinal <= call[d].ordinal

StartScan(then, k, c) == scan' = [then |-> then, kind |-> k, owner |-> c]

Return(c, r) ==
    /\ call' = [call EXCEPT ![c] = NoCall]
    /\ result' = [caller |-> c, status |-> r]

-----------------------------------------------------------------------------
Init ==
    /\ now = 0
    /\ terminal = "NONE"
    /\ resources = [k \in Kinds |-> [d \in ChargeKeys |-> 0]]
    /\ queues = [k \in QueuedKinds |-> [d \in ChargeKeys |-> 0]]
    /\ nextTicket = [k \in QueuedKinds |-> 1]
    /\ call = [c \in Callers |-> NoCall]
    /\ permit = [c \in Callers |-> [k \in Kinds |-> 0]]
    /\ cancelled = {}
    /\ result = [caller |-> "none", status |-> "NONE"]
    /\ scan = NoScan
    /\ missed = {}

-----------------------------------------------------------------------------
(* Acquisition through a queue.  One call has one of five outcomes.        *)

\* The caller is between calls and its permit of this kind is not valid.
Enter(c, k, w) ==
    /\ Unlocked
    /\ call[c].phase = "idle"
    /\ permit[c][k] = 0
    /\ now + w.queue <= MaxTime

SameKindQueued(k) == \E c \in Callers : Queued(c, k)

Refusal(c, k, w) ==
    CASE terminal # "NONE" -> terminal
      [] terminal = "NONE" /\ c \in cancelled -> "CANCELLED"
      [] OTHER -> IF Expired(Deadlines(w)) THEN Timeout(Deadlines(w))
                  ELSE "SATURATED"

\* Terminal, cancelled, out of time, unsatisfiable or no room in the queue.
AcquireRefused(c, k, w) ==
    /\ Enter(c, k, w)
    /\ \/ terminal # "NONE"
       \/ c \in cancelled
       \/ Expired(Deadlines(w))
       \/ NeverFits(c, k)
       \/ /\ ~Fits(resources[k], Limits[k], c, k, 1) \/ SameKindQueued(k)
          /\ ~Fits(queues[k], QueueLimits[k], c, k, 1)
    /\ result' = [caller |-> c, status |-> Refusal(c, k, w)]
    /\ UNCHANGED <<now, terminal, resources, queues, nextTicket, call, permit,
                   cancelled, scan, missed>>

Proceed(c, k, w) ==
    /\ Enter(c, k, w)
    /\ terminal = "NONE"
    /\ c \notin cancelled
    /\ ~Expired(Deadlines(w))
    /\ ~NeverFits(c, k)

\* Capacity is free and nobody of this kind is waiting.  The mutex is dropped
\* before cancellation is looked at again.
AcquireDirect(c, k, w) ==
    /\ Proceed(c, k, w)
    /\ Fits(resources[k], Limits[k], c, k, 1)
    /\ ~SameKindQueued(k)
    /\ resources' = [resources EXCEPT ![k] = AddUsage(resources[k], c, k, 1)]
    /\ permit' = [permit EXCEPT ![c][k] = 1]
    /\ call' = [call EXCEPT ![c] = [NoCall EXCEPT !.phase = "recheck", !.kind = k]]
    /\ UNCHANGED <<now, terminal, queues, nextTicket, cancelled, result, scan, missed>>

MustQueue(c, k, w) ==
    /\ Proceed(c, k, w)
    /\ ~Fits(resources[k], Limits[k], c, k, 1) \/ SameKindQueued(k)
    /\ Fits(queues[k], QueueLimits[k], c, k, 1)

\* Ordinals never wrap: the last one closes the whole controller.
ExhaustTickets(c, k, w) ==
    /\ MustQueue(c, k, w)
    /\ nextTicket[k] = MaxTicket
    /\ terminal' = "TICKET_EXHAUSTED"
    /\ result' = [caller |-> c, status |-> "TICKET_EXHAUSTED"]
    /\ UNCHANGED <<now, resources, queues, nextTicket, call, permit, cancelled,
                   scan, missed>>

Enqueue(c, k, w) ==
    /\ MustQueue(c, k, w)
    /\ nextTicket[k] < MaxTicket
    /\ nextTicket' = [nextTicket EXCEPT ![k] = @ + 1]
    /\ queues' = [queues EXCEPT ![k] = AddUsage(queues[k], c, k, 1)]
    /\ call' = [call EXCEPT ![c] = [phase |-> "queued", kind |-> k,
                                    ordinal |-> nextTicket[k], wait |-> Deadlines(w)]]
    /\ StartScan("wait", k, c)
    /\ UNCHANGED <<now, terminal, resources, permit, cancelled, result, missed>>

\* Fault: the cancelled call reports so and forgets the permit it was given.
RecheckKeepsPermit(c) ==
    /\ Unlocked
    /\ call[c].phase = "recheck"
    /\ Return(c, IF c \in cancelled THEN "CANCELLED" ELSE "ACQUIRED")
    /\ UNCHANGED <<now, terminal, resources, queues, nextTicket, permit, cancelled,
                   scan, missed>>

\* After the mutex is dropped: a cancellation gives the permit straight back.
Recheck(c) ==
    LET k == call[c].kind
    IN  /\ Unlocked
        /\ call[c].phase = "recheck"
        /\ IF c \in cancelled
           THEN /\ Return(c, "CANCELLED")
                /\ resources' = [resources EXCEPT ![k] = SubtractUsage(resources[k], c, k, 1)]
                /\ permit' = [permit EXCEPT ![c][k] = 0]
                /\ StartScan("release", k, c)
           ELSE /\ Return(c, "ACQUIRED")
                /\ UNCHANGED <<resources, permit, scan>>
        /\ UNCHANGED <<now, terminal, queues, nextTicket, cancelled, missed>>

-----------------------------------------------------------------------------
(* Waiting: one turn of the loop of AcquireQueued, at its start or after a *)
(* bounded wait on the ticket's condition.                                 *)

\* The grant becomes the caller's permit.
Materialize(c) ==
    LET k == call[c].kind
    IN  /\ permit' = [permit EXCEPT ![c][k] = 1]
        /\ call' = [call EXCEPT ![c] = [NoCall EXCEPT !.phase = "recheck", !.kind = k]]
        /\ scan' = NoScan
        /\ UNCHANGED <<now, terminal, resources, queues, nextTicket, cancelled, result>>

\* Fault: the handler forgets the usage the grant took.
UnwindKeepsUsage(c) ==
    /\ Return(c, "THREW")
    /\ StartScan("unwind", call[c].kind, c)
    /\ UNCHANGED <<now, terminal, resources, queues, nextTicket, permit, cancelled>>

\* Building the permit throws: the handler returns the granted usage and lets
\* the tickets behind it have it.
Unwind(c) ==
    LET k == call[c].kind
    IN  /\ Return(c, "THREW")
        /\ resources' = [resources EXCEPT ![k] = SubtractUsage(resources[k], c, k, 1)]
        /\ StartScan("unwind", k, c)
        /\ UNCHANGED <<now, terminal, queues, nextTicket, permit, cancelled>>

RemoveTicket(c, r) ==
    LET k == call[c].kind
    IN  /\ Return(c, r)
        /\ queues' = [queues EXCEPT ![k] = SubtractUsage(queues[k], c, k, 1)]
        /\ UNCHANGED <<now, terminal, resources, nextTicket, permit, cancelled, missed>>

WakeGranted(c) ==
    /\ Unlocked
    /\ call[c].phase = "granted"
    /\ Materialize(c) \/ Unwind(c)
    /\ UNCHANGED missed

\* Fault: the loop never looks at the deadlines.
WakeLeaveIgnoresTime(c) ==
    /\ Unlocked
    /\ call[c].phase = "queued"
    /\ terminal # "NONE" \/ c \in cancelled
    /\ RemoveTicket(c, IF terminal # "NONE" THEN terminal ELSE "CANCELLED")
    /\ UNCHANGED scan

\* A ticket that was not granted leaves: closed, cancelled or out of time.
WakeLeave(c) ==
    /\ Unlocked
    /\ call[c].phase = "queued"
    /\ terminal # "NONE" \/ c \in cancelled \/ Expired(call[c].wait)
    /\ RemoveTicket(c, IF terminal # "NONE" THEN terminal
                       ELSE IF c \in cancelled THEN "CANCELLED"
                       ELSE Timeout(call[c].wait))
    /\ UNCHANGED scan

\* Nothing to report: run a pass, then wait for the next slice.
WakeRescan(c) ==
    /\ Unlocked
    /\ call[c].phase = "queued"
    /\ terminal = "NONE" /\ c \notin cancelled /\ ~Expired(call[c].wait)
    /\ StartScan("wait", call[c].kind, c)
    /\ UNCHANGED <<now, terminal, resources, queues, nextTicket, call, permit,
                   cancelled, result, missed>>

-----------------------------------------------------------------------------
(* GrantEligibleLocked, one ticket per step.  The mutex is held throughout *)
(* and the clock was read once, so neither time nor anyone else moves.     *)

\* Fault: the pass does not look at the terminal reason.
GrantingAlways == ~Unlocked

Granting == ~Unlocked /\ terminal = "NONE"

\* Fault: the pass takes eligible tickets in any order.
ScanGrantAnyOrder(c) ==
    LET k == scan.kind
    IN  /\ Granting
        /\ c \in Eligible(k)
        /\ resources' = [resources EXCEPT ![k] = AddUsage(resources[k], c, k, 1)]
        /\ queues' = [queues EXCEPT ![k] = SubtractUsage(queues[k], c, k, 1)]
        /\ call' = [call EXCEPT ![c].phase = "granted"]
        /\ UNCHANGED <<now, terminal, nextTicket, permit, cancelled, result, scan, missed>>

ScanGrant(c) ==
    LET k == scan.kind
    IN  /\ Granting
        /\ c \in Eligible(k)
        /\ Oldest(c, Eligible(k))
        /\ resources' = [resources EXCEPT ![k] = AddUsage(resources[k], c, k, 1)]
        /\ queues' = [queues EXCEPT ![k] = SubtractUsage(queues[k], c, k, 1)]
        /\ call' = [call EXCEPT ![c].phase = "granted"]
        /\ UNCHANGED <<now, terminal, nextTicket, permit, cancelled, result, scan, missed>>

\* The pass ends.  A waiter whose own ticket it granted goes on to build the
\* permit under the same lock.
ScanDone ==
    /\ ~Unlocked
    /\ terminal # "NONE" \/ Eligible(scan.kind) = {}
    /\ missed' = missed \ {scan.kind}
    /\ IF scan.then = "wait" /\ call[scan.owner].phase = "granted"
       THEN Materialize(scan.owner) \/ Unwind(scan.owner)
       ELSE /\ scan' = NoScan
            /\ UNCHANGED <<now, terminal, resources, queues, nextTicket, call,
                           permit, cancelled, result>>

\* Counting a grant allocates and may throw.  Release and the handler swallow
\* it and leave the tickets queued; a waiter unwinds out of its own call.
ScanThrows ==
    LET c == scan.owner
    IN  /\ Granting
        /\ Eligible(scan.kind) # {}
        /\ CASE scan.then # "wait" ->
                    /\ scan' = NoScan
                    /\ missed' = missed \cup {scan.kind}
                    /\ UNCHANGED <<now, terminal, resources, queues, nextTicket,
                                   call, permit, cancelled, result>>
             [] scan.then = "wait" /\ call[c].phase = "granted" ->
                    Unwind(c) /\ UNCHANGED missed
             [] scan.then = "wait" /\ call[c].phase = "queued" ->
                    RemoveTicket(c, "THREW") /\ StartScan("unwind", scan.kind, c)

-----------------------------------------------------------------------------
(* Immediate reservations, release, close and the environment.             *)

AcquireImmediate(c, k, n) ==
    /\ Unlocked
    /\ call[c].phase = "idle"
    /\ permit[c][k] = 0
    /\ IF terminal = "NONE" /\ Fits(resources[k], Limits[k], c, k, n)
       THEN /\ resources' = [resources EXCEPT ![k] = AddUsage(resources[k], c, k, n)]
            /\ permit' = [permit EXCEPT ![c][k] = n]
            /\ result' = [caller |-> c, status |-> "ACQUIRED"]
       ELSE /\ result' = [caller |-> c, status |-> IF terminal # "NONE" THEN terminal
                                               ELSE "SATURATED"]
            /\ UNCHANGED <<resources, permit>>
    /\ UNCHANGED <<now, terminal, queues, nextTicket, call, cancelled, scan, missed>>

\* Shrinking always succeeds, even after close; growth is checked like a new
\* reservation of the difference and keeps the old amount when refused.
Resize(c, k, n) ==
    LET held == permit[c][k]
        grows == n > held
        granted == ~grows \/ (terminal = "NONE" /\ Fits(resources[k], Limits[k], c, k, n - held))
    IN  /\ Unlocked
        /\ call[c].phase = "idle"
        /\ held > 0
        /\ result' = [caller |-> c, status |-> IF granted THEN "ACQUIRED"
                                           ELSE IF terminal # "NONE" THEN terminal
                                           ELSE "SATURATED"]
        /\ resources' = IF ~granted THEN resources
                        ELSE [resources EXCEPT ![k] =
                                IF grows THEN AddUsage(resources[k], c, k, n - held)
                                ELSE SubtractUsage(resources[k], c, k, held - n)]
        /\ permit' = IF granted THEN [permit EXCEPT ![c][k] = n] ELSE permit
        /\ UNCHANGED <<now, terminal, queues, nextTicket, call, cancelled, scan, missed>>

\* Fault: the capacity given back is offered to nobody.
ReleaseWithoutPass(c, k) ==
    /\ Unlocked
    /\ call[c].phase = "idle"
    /\ permit[c][k] > 0
    /\ resources' = [resources EXCEPT ![k] = SubtractUsage(resources[k], c, k, permit[c][k])]
    /\ permit' = [permit EXCEPT ![c][k] = 0]
    /\ UNCHANGED <<now, terminal, queues, nextTicket, call, cancelled, result, scan, missed>>

Release(c, k) ==
    /\ Unlocked
    /\ call[c].phase = "idle"
    /\ permit[c][k] > 0
    /\ resources' = [resources EXCEPT ![k] = SubtractUsage(resources[k], c, k, permit[c][k])]
    /\ permit' = [permit EXCEPT ![c][k] = 0]
    /\ StartScan("release", k, c)
    /\ UNCHANGED <<now, terminal, queues, nextTicket, call, cancelled, result, missed>>

\* The first terminal reason wins.  Tickets stay until their waiters wake.
Close ==
    /\ Unlocked
    /\ terminal' = IF terminal = "NONE" THEN "RUNTIME_CLOSED" ELSE terminal
    /\ UNCHANGED <<now, resources, queues, nextTicket, call, permit, cancelled,
                   result, scan, missed>>

RequestCancellation(c) ==
    /\ cancelled' = cancelled \cup {c}
    /\ UNCHANGED <<now, terminal, resources, queues, nextTicket, call, permit,
                   result, scan, missed>>

Tick ==
    /\ Unlocked
    /\ now < MaxTime
    /\ now' = now + 1
    /\ UNCHANGED <<terminal, resources, queues, nextTicket, call, permit,
                   cancelled, result, scan, missed>>

-----------------------------------------------------------------------------
AcquireQueued(c, k, w) ==
    \/ AcquireRefused(c, k, w)
    \/ AcquireDirect(c, k, w)
    \/ ExhaustTickets(c, k, w)
    \/ Enqueue(c, k, w)

Wake(c) == WakeGranted(c) \/ WakeLeave(c) \/ WakeRescan(c)

ScanStep == (\E c \in Callers : ScanGrant(c)) \/ ScanDone \/ ScanThrows

Next ==
    \/ \E c \in Callers, k \in QueuedKinds, w \in Waits : AcquireQueued(c, k, w)
    \/ \E c \in Callers : Recheck(c) \/ Wake(c) \/ RequestCancellation(c)
    \/ \E c \in Callers, k \in ImmediateKinds, n \in Amounts :
            AcquireImmediate(c, k, n) \/ Resize(c, k, n)
    \/ \E c \in Callers, k \in Kinds : Release(c, k)
    \/ ScanStep
    \/ Close
    \/ Tick

Spec == Init /\ [][Next]_vars

\* A thread inside the controller keeps running: it holds the mutex for one
\* bounded pass, and a waiter comes back every few milliseconds, so it finds
\* the mutex free sooner or later whatever the others do.  The clock advances.
Fairness ==
    /\ WF_vars(ScanStep)
    /\ \A c \in Callers : SF_vars(Recheck(c)) /\ SF_vars(WakeGranted(c) \/ WakeLeave(c))
    /\ SF_vars(Tick)

FairSpec == Spec /\ Fairness

-----------------------------------------------------------------------------
(* Properties.                                                             *)

Results == {"NONE", "ACQUIRED", "CANCELLED", "SCAN_DEADLINE_REACHED", "SATURATED",
            "QUEUE_TIMEOUT", "ADMISSION_WAITING_EXHAUSTED", "RUNTIME_CLOSED",
            "TICKET_EXHAUSTED", "THREW"}

Calls == [phase : {"idle", "queued", "granted", "recheck"},
          kind : QueuedKinds \cup {"none"}, ordinal : Nat,
          wait : [queue : Nat, aggregate : Nat, scan : Nat]]

\* The state the controller's mutex protects has the shape the code gives it;
\* in particular no usage counter ever drops below zero, which an unsigned
\* counter would turn into a huge one.
TypeOK ==
    /\ now \in Nat
    /\ terminal \in {"NONE", "RUNTIME_CLOSED", "TICKET_EXHAUSTED"}
    /\ resources \in [Kinds -> [ChargeKeys -> Nat]]
    /\ queues \in [QueuedKinds -> [ChargeKeys -> Nat]]
    /\ nextTicket \in [QueuedKinds -> Nat]
    /\ call \in [Callers -> Calls]
    /\ permit \in [Callers -> [Kinds -> Nat]]
    /\ cancelled \subseteq Callers
    /\ result \in [caller : Callers \cup {"none"}, status : Results]
    /\ scan \in [then : {"none", "release", "wait", "unwind"}, kind : Kinds \cup {"none"},
                 owner : Callers \cup {"none"}]
    /\ missed \subseteq Kinds

Granted(c, k) == call[c].phase = "granted" /\ call[c].kind = k

\* The units a kind's counter stands for in one dimension: those of the live
\* permits, and one for each grant not picked up yet.
Held(c, k) == IF Granted(c, k) THEN 1 ELSE permit[c][k]

Charged(k, d) == {c \in Callers : d \in Charges(c, k)}

Units(k, d) == UNION {{c} \X (1..Held(c, k)) : c \in Charged(k, d)}

Waiters(k, d) == {c \in Charged(k, d) : Queued(c, k)}

\* Usage counters are exact: every unit of a kind belongs to a live permit of
\* its present size or to a grant in flight, and every unit of a queue is a
\* waiting ticket, whichever way calls end (grant, refusal, cancellation,
\* timeout, close, exception).  AddUsage, SubtractUsage and the paths of
\* AcquireQueued, ResizeBufferedBytes and Permit::Release keep it.
UsageExact ==
    /\ \A k \in Kinds : \A d \in ChargeKeys :
          resources[k][d] = Cardinality(Units(k, d))
    /\ \A k \in QueuedKinds : \A d \in ChargeKeys :
          queues[k][d] = Cardinality(Waiters(k, d))

\* No interleaving of grants, direct acquisitions, growth and late pick-ups
\* takes a kind, or a queue, beyond its limit in any dimension.
WithinLimits ==
    \A d \in ChargeKeys :
        /\ \A k \in Kinds : resources[k][d] <= Limits[k][d[1]]
        /\ \A k \in QueuedKinds : queues[k][d] <= QueueLimits[k][d[1]]

\* Capacity is never left idle beside a live ticket it fits: when the mutex
\* is free every such ticket has been granted.  Only a pass that ran out of
\* memory may leave one, until the next pass over the kind.
NoStrandedTicket ==
    Unlocked /\ terminal = "NONE" =>
        \A k \in QueuedKinds \ missed : Eligible(k) = {}

\* First come, first served within an exact key: nobody obtains a queued kind
\* while an older live ticket of the same kind and identity stays in the queue.
FifoWithinKey ==
    [][\A c, e \in Callers, k \in QueuedKinds :
         LET obtains == /\ ~(permit[c][k] > 0 \/ Granted(c, k))
                        /\ permit'[c][k] > 0 \/ Granted(c, k)'
             older == /\ Queued(e, k)
                      /\ Identity[e] = Identity[c]
                      /\ Queued(c, k) => call[e].ordinal < call[c].ordinal
         IN  c # e /\ obtains /\ older => Expired(call[e].wait)]_vars

\* Once closed or out of tickets the controller hands out nothing: no counter
\* grows, the first terminal reason stays, and a grant made before it is still
\* honoured or returned, never lost.
NothingGrantedAfterTerminal ==
    [][terminal # "NONE" =>
         /\ terminal' = terminal
         /\ \A k \in Kinds, d \in ChargeKeys : resources'[k][d] <= resources[k][d]
         /\ \A k \in QueuedKinds, d \in ChargeKeys : queues'[k][d] <= queues[k][d]]_vars

\* What a queued call reports is what it did: it returns with the permit if and
\* only if it reports success, also when cancellation races the grant.
ReturnIsTruthful ==
    [][\A c \in Callers :
         call[c].phase # "idle" /\ call'[c].phase = "idle" =>
            (result' = [caller |-> c, status |-> "ACQUIRED"] <=> permit'[c][call[c].kind] > 0)]_vars

\* The counters, tickets, grants in flight and permits implement pools of capacity.
Pools ==
    INSTANCE CapacityPools WITH
        Dimensions <- ChargeKeys,
        Members <- [k \in Kinds |-> [d \in ChargeKeys |-> Charged(k, d)]],
        Capacity <- [k \in Kinds |-> [d \in ChargeKeys |-> Limits[k][d[1]]]],
        open <- terminal = "NONE",
        has <- [c \in Callers |-> [k \in Kinds |-> Held(c, k)]]

\* Whichever way a call ends, capacity passes between the pools and one caller in one step.
ImplementsPools == Pools!Spec

\* Every call returns: a queued caller is granted or leaves, whatever becomes
\* of the callers ahead of it and whether or not passes fail.
EveryCallReturns ==
    \A c \in Callers : call[c].phase # "idle" ~> call[c].phase = "idle"

====
