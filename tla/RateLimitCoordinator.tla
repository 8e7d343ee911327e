------------------------ MODULE RateLimitCoordinator ------------------------
(***************************************************************************)
(* The executor-local rate-limit coordinator: per exact quota key a FIFO   *)
(* of tickets, an embargo (the steady time before which nobody may go) and *)
(* at most one move-only permit, the authority for one transport attempt.  *)
(*                                                                         *)
(* Every critical section is one action.  A stream that has just queued    *)
(* runs its first turn of WaitForTicket in the same critical section:      *)
(* `holder` keeps the mutex for it in between.  Requeue that finds the     *)
(* coordinator closed unlocks before it completes its permit.              *)
(*                                                                         *)
(* A bucket's deque is the set of its ticket ordinals: tickets are pushed  *)
(* with a rising counter, so the front is the smallest.                    *)
(***************************************************************************)
EXTENDS Integers, FiniteSets

CONSTANTS
    Streams,      \* streams sharing the coordinator, one call each at a time
    Keys,         \* exact quota bucket keys
    None,         \* no permit
    KeyLimit,     \* limits.waiters_per_key
    TotalLimit,   \* limits.total_waiters
    MaxTicket,    \* the last ticket ordinal (UINT64_MAX)
    Delays,       \* how far ahead an eligible time may lie
    Waits,        \* how far ahead a deadline may lie
    MaxTime       \* bound on the clock

ASSUME SetsAssumption == IsFiniteSet(Streams) /\ IsFiniteSet(Keys) /\ None \notin Keys

ASSUME NumbersAssumption ==
    /\ KeyLimit \in Nat /\ TotalLimit \in Nat /\ MaxTicket \in Nat /\ MaxTime \in Nat
    /\ Delays \subseteq Nat /\ Waits \subseteq Nat

VARIABLES
    now,           \* the steady clock
    terminal,      \* terminal_status; "ACQUIRED" while open
    nextTicket,    \* next_ticket
    totalWaiters,  \* total_waiters
    buckets,       \* [Keys -> [live, eligible, permitted, tickets]]
    call,          \* the Acquire or Requeue each stream is in
    permit,        \* the key of the permit each stream holds
    cancelled,     \* streams whose cancellation was requested
    result,        \* what the last call to return reported, and to whom
    holder         \* the stream that keeps the mutex for its first turn

vars == <<now, terminal, nextTicket, totalWaiters, buckets, call, permit,
          cancelled, result, holder>>

-----------------------------------------------------------------------------
NoBucket == [live |-> FALSE, eligible |-> 0, permitted |-> FALSE, tickets |-> {}]

NoCall == [phase |-> "idle", key |-> None, ticket |-> 0, eligible |-> 0,
           deadline |-> 0, status |-> "ACQUIRED"]

\* What a call that has queued waits with.
Waiter(k, ticket, eligible, deadline) ==
    [NoCall EXCEPT !.phase = "waiting", !.key = k, !.ticket = ticket, !.eligible = eligible,
                   !.deadline = deadline]

Open == terminal = "ACQUIRED"

Unlocked == holder = None

Later(a, b) == IF a >= b THEN a ELSE b

Return(s, status) ==
    /\ call' = [call EXCEPT ![s] = NoCall]
    /\ result' = [stream |-> s, status |-> status]

\* A bucket stays only while it has a permit or a ticket.
Kept(b) == IF b.permitted \/ b.tickets # {} THEN b ELSE NoBucket

\* Fault: the newest guidance replaces the embargo.
ExtendedToLatest(b, eligible) == [b EXCEPT !.eligible = eligible]

Extended(b, eligible) == [b EXCEPT !.eligible = Later(@, eligible)]

\* The embargo an Acquire finds or creates for its key.
Joined(b, eligible) ==
    IF b.live THEN Extended(b, eligible)
    ELSE [NoBucket EXCEPT !.live = TRUE, !.eligible = eligible]

Queued(b, ticket) == [b EXCEPT !.tickets = @ \cup {ticket}]

Dequeued(b, ticket) == [b EXCEPT !.tickets = @ \ {ticket}]

Unpermitted(b) == [b EXCEPT !.permitted = FALSE]

KeyWaiters(b) == Cardinality(b.tickets) + (IF b.permitted THEN 1 ELSE 0)

EraseTicket(k, ticket) ==
    /\ buckets' = [buckets EXCEPT ![k] = Kept(Dequeued(@, ticket))]
    /\ totalWaiters' = IF ticket \in buckets[k].tickets THEN totalWaiters - 1
                       ELSE totalWaiters

\* Fault: closing also forgets the buckets of permits in flight.
DrainedWithPermits(bs) == [k \in Keys |-> NoBucket]

\* Every queued ticket is drained; buckets survive only under a permit.
Drained(bs) ==
    [k \in Keys |-> IF bs[k].permitted THEN [bs[k] EXCEPT !.tickets = {}] ELSE NoBucket]

QueuedTickets(bs) == UNION {{k} \X bs[k].tickets : k \in Keys}

EnterTerminal(status, bs) ==
    /\ terminal' = status
    /\ buckets' = Drained(bs)
    /\ totalWaiters' = totalWaiters - Cardinality(QueuedTickets(bs))

-----------------------------------------------------------------------------
Init ==
    /\ now = 0
    /\ terminal = "ACQUIRED"
    /\ nextTicket = 1
    /\ totalWaiters = 0
    /\ buckets = [k \in Keys |-> NoBucket]
    /\ call = [s \in Streams |-> NoCall]
    /\ permit = [s \in Streams |-> None]
    /\ cancelled = {}
    /\ result = [stream |-> None, status |-> "NONE"]
    /\ holder = None

-----------------------------------------------------------------------------
(* Acquire.                                                                *)

Enter(s, wait) ==
    /\ Unlocked
    /\ call[s].phase = "idle"
    /\ permit[s] = None
    /\ now + wait <= MaxTime

Saturated(k) == KeyWaiters(buckets[k]) >= KeyLimit \/ totalWaiters >= TotalLimit

AcquireRefused(s, k, delay, wait) ==
    /\ Enter(s, wait)
    /\ ~Open \/ s \in cancelled
    /\ result' = [stream |-> s, status |-> IF Open THEN "CANCELLED" ELSE terminal]
    /\ UNCHANGED <<now, terminal, nextTicket, totalWaiters, buckets, call, permit,
                   cancelled, holder>>

\* A caller that finds no room still extends the embargo of the others.
AcquireSaturated(s, k, delay, wait) ==
    /\ Enter(s, wait)
    /\ Open /\ s \notin cancelled
    /\ Saturated(k)
    /\ buckets' = IF buckets[k].live
                  THEN [buckets EXCEPT ![k] = Extended(@, now + delay)] ELSE buckets
    /\ result' = [stream |-> s, status |-> "QUEUE_SATURATED"]
    /\ UNCHANGED <<now, terminal, nextTicket, totalWaiters, call, permit, cancelled, holder>>

Proceed(s, k, wait) ==
    /\ Enter(s, wait)
    /\ Open /\ s \notin cancelled
    /\ ~Saturated(k)

AcquireExhausted(s, k, delay, wait) ==
    /\ Proceed(s, k, wait)
    /\ nextTicket = MaxTicket
    /\ EnterTerminal("TICKET_EXHAUSTED", [buckets EXCEPT ![k] = Joined(@, now + delay)])
    /\ result' = [stream |-> s, status |-> "TICKET_EXHAUSTED"]
    /\ UNCHANGED <<now, nextTicket, call, permit, cancelled, holder>>

AcquireQueued(s, k, delay, wait) ==
    /\ Proceed(s, k, wait)
    /\ nextTicket < MaxTicket
    /\ nextTicket' = nextTicket + 1
    /\ buckets' = [buckets EXCEPT ![k] = Queued(Joined(@, now + delay), nextTicket)]
    /\ totalWaiters' = totalWaiters + 1
    /\ call' = [call EXCEPT ![s] = Waiter(k, nextTicket, now + delay, now + wait)]
    /\ holder' = s
    /\ UNCHANGED <<now, terminal, permit, cancelled, result>>

\* Queueing the ticket throws: the ordinal is spent, a bucket made for it goes.
AcquireThrows(s, k, delay, wait) ==
    /\ Proceed(s, k, wait)
    /\ nextTicket < MaxTicket
    /\ nextTicket' = nextTicket + 1
    /\ buckets' = [buckets EXCEPT ![k] = Kept(Joined(@, now + delay))]
    /\ result' = [stream |-> s, status |-> "THREW"]
    /\ UNCHANGED <<now, terminal, totalWaiters, call, permit, cancelled, holder>>

-----------------------------------------------------------------------------
(* WaitForTicket: one turn of its loop, then a bounded wait.               *)

MayTurn(s) == call[s].phase = "waiting" /\ holder \in {None, s}

\* A ticket is only ever drained by the terminal transition.
Gone(k) == ~Open \/ ~buckets[k].live

TurnClosed(s) ==
    /\ MayTurn(s)
    /\ Gone(call[s].key)
    /\ Return(s, IF Open THEN "SCHEDULER_CLOSED" ELSE terminal)
    /\ holder' = None
    /\ UNCHANGED <<now, terminal, nextTicket, totalWaiters, buckets, permit, cancelled>>

Leave(s, status) ==
    /\ EraseTicket(call[s].key, call[s].ticket)
    /\ Return(s, status)
    /\ holder' = None
    /\ UNCHANGED <<now, terminal, nextTicket, permit, cancelled>>

TurnCancelled(s) ==
    /\ MayTurn(s)
    /\ ~Gone(call[s].key)
    /\ s \in cancelled
    /\ Leave(s, "CANCELLED")

\* Fault: only the head is looked at, not whether a permit is out.
IsTurnUnpermitted(s) ==
    LET b == buckets[call[s].key]
    IN  /\ \A t \in b.tickets : call[s].ticket <= t
        /\ now >= b.eligible
        /\ now <= call[s].deadline

\* The head of the queue goes, when no permit is out and the embargo is over.
IsTurn(s) ==
    LET b == buckets[call[s].key]
    IN  /\ ~b.permitted
        /\ call[s].ticket \in b.tickets /\ \A t \in b.tickets : call[s].ticket <= t
        /\ now >= b.eligible
        /\ now <= call[s].deadline

TurnGranted(s) ==
    LET k == call[s].key
    IN  /\ MayTurn(s)
        /\ ~Gone(k)
        /\ s \notin cancelled
        /\ IsTurn(s)
        /\ buckets' = [buckets EXCEPT ![k] = [Dequeued(@, call[s].ticket) EXCEPT !.permitted = TRUE]]
        /\ permit' = [permit EXCEPT ![s] = k]
        /\ Return(s, "ACQUIRED")
        /\ holder' = None
        /\ UNCHANGED <<now, terminal, nextTicket, totalWaiters, cancelled>>

\* Fault: a deadline behind an embargo or a permit is not looked at.
OutOfTimeAtHeadOnly(s) ==
    IsTurn(s) /\ now >= call[s].deadline

OutOfTime(s) ==
    now >= call[s].deadline \/ buckets[call[s].key].eligible > call[s].deadline

TurnTimedOut(s) ==
    /\ MayTurn(s)
    /\ ~Gone(call[s].key)
    /\ s \notin cancelled
    /\ ~IsTurn(s)
    /\ OutOfTime(s)
    /\ Leave(s, "DEADLINE_REACHED")

\* Nothing to do yet: the first turn ends and gives the mutex up.
TurnWaits(s) ==
    /\ holder = s
    /\ ~Gone(call[s].key)
    /\ s \notin cancelled
    /\ ~IsTurn(s) /\ ~OutOfTime(s)
    /\ holder' = None
    /\ UNCHANGED <<now, terminal, nextTicket, totalWaiters, buckets, call, permit,
                   cancelled, result>>

\* The clock throws: the handler takes the ticket out again.
TurnThrows(s) ==
    /\ MayTurn(s)
    /\ ~Gone(call[s].key)
    /\ s \notin cancelled
    /\ Leave(s, "THREW")

-----------------------------------------------------------------------------
(* Permits: completion, extension, requeueing.                             *)

\* Complete() finds the bucket by key and ends whatever permit it records.
Complete(k) ==
    LET found == buckets[k].live /\ buckets[k].permitted
    IN  /\ buckets' = IF found
                      THEN [buckets EXCEPT ![k] = Kept(Unpermitted(@))]
                      ELSE buckets
        /\ totalWaiters' = IF found THEN totalWaiters - 1 ELSE totalWaiters

CompletePermit(s) ==
    /\ Unlocked
    /\ call[s].phase = "idle"
    /\ permit[s] # None
    /\ Complete(permit[s])
    /\ permit' = [permit EXCEPT ![s] = None]
    /\ UNCHANGED <<now, terminal, nextTicket, call, cancelled, result, holder>>

ExtendEligibleTime(s, delay) ==
    /\ Unlocked
    /\ call[s].phase = "idle"
    /\ permit[s] # None
    /\ Open /\ buckets[permit[s]].permitted
    /\ buckets' = [buckets EXCEPT ![permit[s]] = Extended(@, now + delay)]
    /\ UNCHANGED <<now, terminal, nextTicket, totalWaiters, call, permit, cancelled,
                   result, holder>>

EnterRequeue(s, wait) ==
    /\ Unlocked
    /\ call[s].phase = "idle"
    /\ permit[s] # None
    /\ now + wait <= MaxTime

\* The mutex is dropped before the permit is completed.
Draining(s, status) ==
    call' = [call EXCEPT ![s] = [NoCall EXCEPT !.phase = "draining", !.status = status]]

RequeueRefused(s, delay, wait) ==
    /\ EnterRequeue(s, wait)
    /\ ~Open \/ s \in cancelled
    /\ Draining(s, IF Open THEN "CANCELLED" ELSE terminal)
    /\ UNCHANGED <<now, terminal, nextTicket, totalWaiters, buckets, permit, cancelled,
                   result, holder>>

RequeueExhausted(s, delay, wait) ==
    /\ EnterRequeue(s, wait)
    /\ Open /\ s \notin cancelled
    /\ nextTicket = MaxTicket
    /\ EnterTerminal("TICKET_EXHAUSTED", [buckets EXCEPT ![permit[s]] = Extended(@, now + delay)])
    /\ Draining(s, "TICKET_EXHAUSTED")
    /\ UNCHANGED <<now, nextTicket, permit, cancelled, result, holder>>

\* The permit becomes a ticket at the tail: the count of waiters stays.
Requeued(s, delay, wait) ==
    LET k == permit[s]
    IN  /\ EnterRequeue(s, wait)
        /\ Open /\ s \notin cancelled
        /\ nextTicket < MaxTicket
        /\ nextTicket' = nextTicket + 1
        /\ buckets' = [buckets EXCEPT ![k] = Queued(Unpermitted(Extended(@, now + delay)), nextTicket)]
        /\ call' = [call EXCEPT ![s] = Waiter(k, nextTicket, now + delay, now + wait)]
        /\ permit' = [permit EXCEPT ![s] = None]
        /\ holder' = s
        /\ UNCHANGED <<now, terminal, totalWaiters, cancelled, result>>

\* Queueing throws: the caller keeps its permit and the longer embargo.
RequeueThrows(s, delay, wait) ==
    /\ EnterRequeue(s, wait)
    /\ Open /\ s \notin cancelled
    /\ nextTicket < MaxTicket
    /\ nextTicket' = nextTicket + 1
    /\ buckets' = [buckets EXCEPT ![permit[s]] = Extended(@, now + delay)]
    /\ result' = [stream |-> s, status |-> "THREW"]
    /\ UNCHANGED <<now, terminal, totalWaiters, call, permit, cancelled, holder>>

\* Fault: the refused call returns without completing its permit.
DrainKeepsPermit(s) ==
    /\ Unlocked
    /\ call[s].phase = "draining"
    /\ Return(s, call[s].status)
    /\ UNCHANGED <<now, terminal, nextTicket, totalWaiters, buckets, permit, cancelled, holder>>

Drain(s) ==
    /\ Unlocked
    /\ call[s].phase = "draining"
    /\ Complete(permit[s])
    /\ permit' = [permit EXCEPT ![s] = None]
    /\ Return(s, call[s].status)
    /\ UNCHANGED <<now, terminal, nextTicket, cancelled, holder>>

-----------------------------------------------------------------------------
Close ==
    /\ Unlocked
    /\ Open
    /\ EnterTerminal("SCHEDULER_CLOSED", buckets)
    /\ UNCHANGED <<now, nextTicket, call, permit, cancelled, result, holder>>

RequestCancellation(s) ==
    /\ cancelled' = cancelled \cup {s}
    /\ UNCHANGED <<now, terminal, nextTicket, totalWaiters, buckets, call, permit,
                   result, holder>>

Tick ==
    /\ now < MaxTime
    /\ now' = now + 1
    /\ UNCHANGED <<terminal, nextTicket, totalWaiters, buckets, call, permit, cancelled,
                   result, holder>>

Acquire(s, k, delay, wait) ==
    \/ AcquireRefused(s, k, delay, wait)
    \/ AcquireSaturated(s, k, delay, wait)
    \/ AcquireExhausted(s, k, delay, wait)
    \/ AcquireQueued(s, k, delay, wait)
    \/ AcquireThrows(s, k, delay, wait)

WaitForTicket(s) ==
    TurnClosed(s) \/ TurnCancelled(s) \/ TurnGranted(s) \/ TurnTimedOut(s)
    \/ TurnWaits(s) \/ TurnThrows(s)

Requeue(s, delay, wait) ==
    \/ RequeueRefused(s, delay, wait)
    \/ RequeueExhausted(s, delay, wait)
    \/ Requeued(s, delay, wait)
    \/ RequeueThrows(s, delay, wait)

Next ==
    \/ \E s \in Streams, k \in Keys, delay \in Delays, wait \in Waits : Acquire(s, k, delay, wait)
    \/ \E s \in Streams : WaitForTicket(s)
    \/ \E s \in Streams : CompletePermit(s)
    \/ \E s \in Streams, delay \in Delays : ExtendEligibleTime(s, delay)
    \/ \E s \in Streams, delay \in Delays, wait \in Waits : Requeue(s, delay, wait)
    \/ \E s \in Streams : Drain(s)
    \/ \E s \in Streams : RequestCancellation(s)
    \/ Close
    \/ Tick

Spec == Init /\ [][Next]_vars

\* A thread inside the coordinator keeps running: its critical sections are
\* bounded, its waits are sliced, and the clock advances.  Nothing is assumed
\* of streams that hold a permit, and a turn is not assumed to throw.
Fairness ==
    /\ \A s \in Streams :
          SF_vars(TurnClosed(s) \/ TurnCancelled(s) \/ TurnGranted(s) \/ TurnTimedOut(s) \/ Drain(s))
    /\ WF_vars(\E s \in Streams : TurnWaits(s))
    /\ WF_vars(Tick)

FairSpec == Spec /\ Fairness

-----------------------------------------------------------------------------
(* Properties.                                                             *)

\* At most one stream holds the transport authority of a key, also across
\* requeueing and after close: the bucket of a key is marked as permitted
\* exactly while one permit for the key exists.  So Complete, which looks the
\* bucket up by key, never ends another stream's permit, and Requeue never
\* finds that its permit lost its authority.
OnePermitPerKey ==
    /\ \A s, r \in Streams : permit[s] # None /\ permit[s] = permit[r] => s = r
    /\ \A k \in Keys : buckets[k].permitted <=> \E s \in Streams : permit[s] = k

WaitingStreams == {s \in Streams : Open /\ call[s].phase = "waiting"}

Permits == {s \in Streams : permit[s] # None}

\* The count that admission to the queues is checked against is exact: one for
\* each ticket a live call waits on and one for each permit, through drains,
\* failed queueing and requeueing; and it stays within the limits.
WaitersExact ==
    /\ totalWaiters = Cardinality(WaitingStreams) + Cardinality(Permits)
    /\ totalWaiters <= TotalLimit
    /\ \A k \in Keys : KeyWaiters(buckets[k]) <= KeyLimit

\* A permit is granted to the longest waiting stream of its key, never before
\* an eligible time that any stream waiting for the key was given, and never
\* after the stream's own deadline, however the embargo was extended meanwhile.
GrantsInOrder ==
    [][\A s \in Streams :
         permit[s] = None /\ permit'[s] # None =>
            /\ \A r \in Streams :
                 call[r].phase = "waiting" /\ call[r].key = permit'[s] =>
                    call[s].ticket <= call[r].ticket /\ now >= call[r].eligible
            /\ now <= call[s].deadline]_vars

\* Acquire and Requeue report success exactly when they leave the stream with
\* the permit of the key, whichever of close, cancellation and deadline raced.
ReturnIsTruthful ==
    [][\A s \in Streams :
         call[s].phase # "idle" /\ call'[s].phase = "idle" =>
            (result' = [stream |-> s, status |-> "ACQUIRED"] <=> permit'[s] # None)]_vars

\* What each stream is in line for; a coordinator that is closed has no lines.
Wanted ==
    [s \in Streams |-> IF Open /\ call[s].phase = "waiting"
                      THEN [key |-> call[s].key, from |-> call[s].eligible, until |-> call[s].deadline]
                      ELSE [key |-> None, from |-> 0, until |-> 0]]

\* Who is in line before whom: tickets of one key are numbered in order.
InOrder ==
    {pair \in WaitingStreams \X WaitingStreams :
        /\ call[pair[1]].key = call[pair[2]].key
        /\ call[pair[1]].ticket < call[pair[2]].ticket}

\* The buckets, their tickets and the terminal status implement one lock for each
\* quota key, given in order, within everybody's times, until the coordinator closes.
Locks == INSTANCE QuotaLocks WITH open <- Open, wants <- Wanted, ahead <- InOrder, owns <- permit

ImplementsLocks == Locks!Spec

\* Every wait ends, even behind a permit that is never completed.
EveryWaitReturns ==
    \A s \in Streams : call[s].phase # "idle" ~> call[s].phase = "idle"

=============================================================================
