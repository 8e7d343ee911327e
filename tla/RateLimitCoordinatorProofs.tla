--------------------- MODULE RateLimitCoordinatorProofs ---------------------
(***************************************************************************)
(* The safety of the rate-limit coordinator, for every number of streams,  *)
(* keys and tickets, and every limit.                                      *)
(*                                                                         *)
(* OnePermitPerKey is about Complete, which finds a bucket by its key: it  *)
(* is inductive only together with what keeps a bucket in the map          *)
(* (BucketsLive) and with the correspondence between waiting calls and     *)
(* queued tickets (CallsQueued, TicketsOwned).  The same correspondence    *)
(* gives the order of grants, the truth of the results and, counted, the   *)
(* number of waiters.  Read through it, the coordinator implements one     *)
(* lock for each key (QuotaLocks).                                         *)
(***************************************************************************)
EXTENDS RateLimitCoordinator, FiniteSetTheorems, TLAPS

Buckets == [live : BOOLEAN, eligible : Nat, permitted : BOOLEAN, tickets : SUBSET Nat]

Statuses == {"ACQUIRED", "CANCELLED", "SCHEDULER_CLOSED", "TICKET_EXHAUSTED"}

Calls ==
    [phase : {"idle", "waiting", "draining"}, key : Keys \cup {None}, ticket : Nat, eligible : Nat,
     deadline : Nat, status : Statuses]

StateOK ==
    /\ now \in Nat /\ nextTicket \in Nat /\ terminal \in Statuses
    /\ buckets \in [Keys -> Buckets]
    /\ call \in [Streams -> Calls]
    /\ permit \in [Streams -> Keys \cup {None}]

Waiting(s) == call[s].phase = "waiting"

\* A bucket with a permit or a ticket is in the map.
BucketsLive == \A k \in Keys : buckets[k].permitted \/ buckets[k].tickets # {} => buckets[k].live

\* A waiting call has no permit and a ticket of its own; until the coordinator is
\* closed the ticket is queued under its key, behind an embargo no shorter than
\* the one the caller was given.
CallsQueued ==
    \A s \in Streams : Waiting(s) =>
        /\ call[s].key \in Keys /\ permit[s] = None /\ call[s].ticket < nextTicket
        /\ \A r \in Streams : Waiting(r) /\ call[r].ticket = call[s].ticket => r = s
        /\ Open => /\ call[s].ticket \in buckets[call[s].key].tickets
                   /\ call[s].eligible <= buckets[call[s].key].eligible

\* Nothing else is queued, and nothing at all once the coordinator is closed.
TicketsOwned ==
    \A k \in Keys : \A t \in buckets[k].tickets :
        Open /\ \E s \in Streams : Waiting(s) /\ call[s].key = k /\ call[s].ticket = t

\* A refused Requeue still has its permit.
DrainsHold == \A s \in Streams : call[s].phase = "draining" => permit[s] # None /\ call[s].status # "ACQUIRED"

IInv == StateOK /\ BucketsLive /\ CallsQueued /\ TicketsOwned /\ DrainsHold /\ OnePermitPerKey

-----------------------------------------------------------------------------

\* A stream that calls nothing has a call all the same.
LEMMA NoCallType == NoCall \in Calls /\ NoBucket \in Buckets
<1>1. NoCall \in Calls
  BY DEF NoCall, Calls, Statuses
<1>2. NoBucket \in Buckets
  <2>1. {} \in SUBSET Nat /\ 0 \in Nat /\ FALSE \in BOOLEAN
    OBVIOUS
  <2> QED  BY <2>1, Zenon DEF NoBucket, Buckets
<1> QED  BY <1>1, <1>2

\* The call of a stream that has queued.
LEMMA WaiterFacts ==
    ASSUME NEW k \in Keys, NEW n \in Nat, NEW e \in Nat, NEW d \in Nat
    PROVE  /\ Waiter(k, n, e, d) \in Calls /\ Waiter(k, n, e, d).phase = "waiting"
           /\ Waiter(k, n, e, d).key = k /\ Waiter(k, n, e, d).ticket = n
           /\ Waiter(k, n, e, d).eligible = e
<1>1. PICK w : w = Waiter(k, n, e, d)
  OBVIOUS
<1>2. w = [phase |-> "waiting", key |-> k, ticket |-> n, eligible |-> e, deadline |-> d,
           status |-> "ACQUIRED"]
  BY <1>1, Zenon DEF Waiter, NoCall
<1>3. w \in Calls /\ w.phase = "waiting" /\ w.key = k /\ w.ticket = n /\ w.eligible = e
  BY <1>2 DEF Calls, Statuses
<1> QED  BY <1>1, <1>3, Zenon

\* An embargo is only made longer.
LEMMA ExtendedFacts ==
    ASSUME NEW b \in Buckets, NEW e \in Nat
    PROVE  /\ Extended(b, e) \in Buckets
           /\ Extended(b, e).live = b.live /\ Extended(b, e).permitted = b.permitted
           /\ Extended(b, e).tickets = b.tickets
           /\ b.eligible <= Extended(b, e).eligible /\ e <= Extended(b, e).eligible
BY DEF Extended, Later, Buckets

\* The bucket an Acquire finds or makes.
LEMMA JoinedFacts ==
    ASSUME NEW b \in Buckets, NEW e \in Nat, b.permitted \/ b.tickets # {} => b.live
    PROVE  /\ Joined(b, e) \in Buckets
           /\ Joined(b, e).live /\ Joined(b, e).permitted = b.permitted
           /\ Joined(b, e).tickets = b.tickets
           /\ b.tickets # {} => b.eligible <= Joined(b, e).eligible
           /\ e <= Joined(b, e).eligible
<1>1. CASE b.live
  BY <1>1, ExtendedFacts DEF Joined
<1>2. CASE ~b.live
  <2> DEFINE j == Joined(b, e)
  <2>1. ~b.permitted /\ b.permitted = FALSE /\ b.tickets = {}
    BY <1>2 DEF Buckets
  <2>2. j = [live |-> TRUE, eligible |-> e, permitted |-> FALSE, tickets |-> {}]
    BY <1>2, Zenon DEF Joined, NoBucket
  <2> HIDE DEF j
  <2>3. j \in Buckets
    BY <2>2 DEF Buckets
  <2>4. j.live /\ j.permitted = FALSE
    BY <2>2
  <2>5. j.tickets = {} /\ j.eligible = e
    BY <2>2
  <2>6. j.permitted = b.permitted
    BY <2>1, <2>4, Zenon
  <2>7. j.tickets = b.tickets /\ e <= j.eligible
    BY <2>1, <2>5
  <2> QED  BY <2>1, <2>3, <2>4, <2>6, <2>7, Zenon DEF j
<1> QED  BY <1>1, <1>2

\* A ticket is queued or taken out; the rest of the bucket stays.
LEMMA TicketFacts ==
    ASSUME NEW b \in Buckets, NEW t \in Nat
    PROVE  /\ Queued(b, t) \in Buckets /\ Dequeued(b, t) \in Buckets
           /\ Queued(b, t).tickets = b.tickets \cup {t} /\ Dequeued(b, t).tickets = b.tickets \ {t}
           /\ Queued(b, t).eligible = b.eligible /\ Dequeued(b, t).eligible = b.eligible
           /\ Queued(b, t).live = b.live /\ Dequeued(b, t).live = b.live
           /\ Queued(b, t).permitted = b.permitted /\ Dequeued(b, t).permitted = b.permitted
<1>1. Queued(b, t) \in Buckets /\ Dequeued(b, t) \in Buckets
  BY DEF Queued, Dequeued, Buckets
<1>2. Queued(b, t).tickets = b.tickets \cup {t} /\ Dequeued(b, t).tickets = b.tickets \ {t}
  BY DEF Queued, Dequeued, Buckets
<1>3. Queued(b, t).eligible = b.eligible /\ Dequeued(b, t).eligible = b.eligible
  BY DEF Queued, Dequeued, Buckets
<1>4. Queued(b, t).live = b.live
  BY DEF Queued, Buckets
<1>5. Dequeued(b, t).live = b.live
  BY DEF Dequeued, Buckets
<1>6. Queued(b, t).permitted = b.permitted
  BY DEF Queued, Buckets
<1>7. Dequeued(b, t).permitted = b.permitted
  BY DEF Dequeued, Buckets
<1> QED  BY <1>1, <1>2, <1>3, <1>4, <1>5, <1>6, <1>7, Zenon

\* A permit ends; the rest of the bucket stays.
LEMMA UnpermittedFacts ==
    ASSUME NEW b \in Buckets
    PROVE  /\ Unpermitted(b) \in Buckets /\ Unpermitted(b).permitted = FALSE
           /\ Unpermitted(b).tickets = b.tickets /\ Unpermitted(b).eligible = b.eligible
           /\ Unpermitted(b).live = b.live
<1>1. Unpermitted(b) \in Buckets
  BY Zenon DEF Unpermitted, Buckets
<1>2. Unpermitted(b).tickets = b.tickets /\ Unpermitted(b).eligible = b.eligible
  BY DEF Unpermitted, Buckets
<1>3. Unpermitted(b).permitted = FALSE
  BY DEF Unpermitted, Buckets
<1>4. Unpermitted(b).live = b.live
  BY DEF Unpermitted, Buckets
<1> QED  BY <1>1, <1>2, <1>3, <1>4, Zenon

\* A bucket with a ticket or a permit stays as it is.
LEMMA KeptFacts ==
    ASSUME NEW b \in Buckets
    PROVE  /\ Kept(b) \in Buckets
           /\ Kept(b).permitted = b.permitted /\ Kept(b).tickets = b.tickets
           /\ b.tickets # {} => Kept(b) = b
           /\ b.live /\ (b.permitted \/ b.tickets # {}) => Kept(b).live
<1>1. CASE b.permitted \/ b.tickets # {}
  BY <1>1 DEF Kept
<1>2. CASE ~(b.permitted \/ b.tickets # {})
  <2>1. b.permitted = FALSE /\ b.tickets = {}
    BY <1>2 DEF Buckets
  <2> QED  BY <1>2, <2>1, Zenon DEF Kept, NoBucket, Buckets
<1> QED  BY <1>1, <1>2

\* The terminal transition clears the queues and keeps the permits.
LEMMA DrainedFacts ==
    ASSUME NEW bs \in [Keys -> Buckets], \A k \in Keys : bs[k].permitted => bs[k].live
    PROVE  /\ Drained(bs) \in [Keys -> Buckets]
           /\ \A k \in Keys : /\ Drained(bs)[k].permitted = bs[k].permitted
                              /\ Drained(bs)[k].tickets = {}
                              /\ bs[k].permitted => Drained(bs)[k].live
<1> DEFINE D(k) == IF bs[k].permitted THEN [bs[k] EXCEPT !.tickets = {}] ELSE NoBucket
<1>1. ASSUME NEW k \in Keys
      PROVE  /\ D(k) \in Buckets /\ D(k).permitted = bs[k].permitted
             /\ D(k).tickets = {}
             /\ bs[k].permitted => D(k).live
  <2>1. CASE bs[k].permitted
    <3>1. PICK d : d = [bs[k] EXCEPT !.tickets = {}]
      BY Zenon
    <3>2. d \in Buckets
      BY <3>1 DEF Buckets
    <3>3. d.permitted = bs[k].permitted
      BY <3>1 DEF Buckets
    <3>4. d.live = bs[k].live
      BY <3>1 DEF Buckets
    <3>5. d.tickets = {}
      BY <3>1 DEF Buckets
    <3>6. D(k) = d
      BY <2>1, <3>1
    <3> QED  BY <2>1, <3>2, <3>3, <3>4, <3>5, <3>6, Zenon
  <2>2. CASE ~bs[k].permitted
    <3>1. D(k) = NoBucket /\ bs[k].permitted = FALSE
      BY <2>2 DEF Buckets
    <3>2. NoBucket.permitted = FALSE
      BY DEF NoBucket
    <3>3. NoBucket.tickets = {}
      BY DEF NoBucket
    <3> QED  BY <2>2, <3>1, <3>2, <3>3, NoCallType, Zenon
  <2> QED  BY <2>1, <2>2
<1>2. Drained(bs) = [k \in Keys |-> D(k)]
  BY DEF Drained
<1> HIDE DEF D
<1>3. \A k \in Keys : Drained(bs)[k] = D(k)
  BY <1>2
<1>4. Drained(bs) \in [Keys -> Buckets]
  BY <1>1, <1>2
<1>5. ASSUME NEW k \in Keys
      PROVE  /\ Drained(bs)[k].permitted = bs[k].permitted /\ Drained(bs)[k].tickets = {}
             /\ bs[k].permitted => Drained(bs)[k].live
  BY <1>1, <1>3, Zenon
<1> QED  BY <1>4, <1>5, Zenon

\* At first nobody waits and nothing is queued.
LEMMA InitHolds == Init => IInv
<1> SUFFICES ASSUME Init PROVE IInv
  OBVIOUS
<1> USE DEF Init
<1>1. \A s \in Streams : call[s].phase = "idle" /\ permit[s] = None
  BY DEF NoCall
<1>2. \A k \in Keys : ~buckets[k].permitted /\ buckets[k].tickets = {}
  BY DEF NoBucket
<1>3. StateOK
  BY NoCallType DEF StateOK, Statuses
<1>4. BucketsLive /\ CallsQueued /\ TicketsOwned /\ DrainsHold
  BY <1>1, <1>2 DEF BucketsLive, CallsQueued, TicketsOwned, DrainsHold, Waiting
<1>5. OnePermitPerKey
  BY <1>1, <1>2, SetsAssumption DEF OnePermitPerKey
<1> QED  BY <1>3, <1>4, <1>5 DEF IInv

\* A step that only makes embargoes longer, or drops a bucket nobody uses.
LEMMA ExtendsHolds ==
    ASSUME IInv, now' \in Nat, nextTicket' \in Nat, nextTicket <= nextTicket',
           buckets' \in [Keys -> Buckets],
           \A k \in Keys : /\ buckets'[k].permitted = buckets[k].permitted
                           /\ buckets'[k].tickets = buckets[k].tickets
                           /\ buckets[k].tickets # {} => buckets[k].eligible <= buckets'[k].eligible
                           /\ buckets[k].permitted \/ buckets[k].tickets # {} => buckets'[k].live,
           UNCHANGED <<call, permit, terminal>>
    PROVE  IInv'
<1> USE DEF IInv
<1>1. StateOK'
  BY DEF StateOK
<1>2. BucketsLive' /\ TicketsOwned' /\ DrainsHold' /\ OnePermitPerKey'
  BY DEF BucketsLive, TicketsOwned, DrainsHold, OnePermitPerKey, Waiting, Open
<1>3. CallsQueued'
  <2> SUFFICES ASSUME NEW s \in Streams, Waiting(s)'
               PROVE  /\ call'[s].key \in Keys /\ permit'[s] = None /\ call'[s].ticket < nextTicket'
                      /\ \A r \in Streams : Waiting(r)' /\ call'[r].ticket = call'[s].ticket => r = s
                      /\ Open' => /\ call'[s].ticket \in buckets'[call'[s].key].tickets
                                  /\ call'[s].eligible <= buckets'[call'[s].key].eligible
    BY DEF CallsQueued
  <2>1. call[s].ticket \in Nat /\ call[s].eligible \in Nat /\ nextTicket \in Nat
    BY DEF StateOK, Calls
  <2>2. \A k \in Keys : buckets[k].eligible \in Nat /\ buckets'[k].eligible \in Nat
    BY DEF StateOK, Buckets
  <2>3. Waiting(s) /\ (Open' <=> Open)
    BY DEF Waiting, Open
  <2> QED  BY <2>1, <2>2, <2>3 DEF CallsQueued, Waiting
<1> QED  BY <1>1, <1>2, <1>3

\* The coordinator is closed: every ticket goes, every permit stays.
LEMMA TerminalHolds ==
    ASSUME IInv, terminal' \in Statuses \ {"ACQUIRED"}, buckets' \in [Keys -> Buckets],
           \A k \in Keys : /\ buckets'[k].permitted = buckets[k].permitted
                           /\ buckets'[k].tickets = {}
                           /\ buckets[k].permitted => buckets'[k].live,
           call' \in [Streams -> Calls],
           \A s \in Streams : \/ call'[s] = call[s]
                              \/ /\ call'[s].phase = "draining" /\ permit[s] # None
                                 /\ call'[s].status # "ACQUIRED",
           UNCHANGED <<now, nextTicket, permit>>
    PROVE  IInv'
<1> USE DEF IInv
<1>1. ~Open'
  BY DEF Open
<1>2. StateOK' /\ DrainsHold'
  BY DEF StateOK, DrainsHold
<1>3. BucketsLive' /\ TicketsOwned' /\ OnePermitPerKey'
  BY DEF BucketsLive, TicketsOwned, OnePermitPerKey
<1>4. CallsQueued'
  BY <1>1 DEF CallsQueued, Waiting
<1> QED  BY <1>2, <1>3, <1>4
\* A stream queues behind the others, giving up the permit of the key if it had it.
LEMMA QueueHolds ==
    ASSUME IInv, Open, NEW s \in Streams, NEW k \in Keys, NEW w \in Calls, NEW b \in Buckets,
           call[s].phase # "waiting",
           w.phase = "waiting" /\ w.key = k /\ w.ticket = nextTicket /\ w.eligible <= b.eligible,
           b.live, b.tickets = buckets[k].tickets \cup {nextTicket},
           buckets[k].tickets # {} => buckets[k].eligible <= b.eligible,
           \/ permit[s] = None /\ b.permitted = buckets[k].permitted
           \/ permit[s] = k /\ b.permitted = FALSE,
           nextTicket' = nextTicket + 1,
           call' = [call EXCEPT ![s] = w],
           buckets' = [buckets EXCEPT ![k] = b],
           permit' = [permit EXCEPT ![s] = None],
           UNCHANGED <<now, terminal>>
    PROVE  IInv'
<1> USE DEF IInv
<1>1. /\ call'[s] = w /\ \A r \in Streams : r # s => call'[r] = call[r]
      /\ permit'[s] = None /\ \A r \in Streams : r # s => permit'[r] = permit[r]
      /\ buckets'[k] = b /\ \A h \in Keys : h # k => buckets'[h] = buckets[h]
  BY DEF StateOK
<1>2. StateOK'
  BY DEF StateOK
<1>3. BucketsLive' /\ DrainsHold'
  BY <1>1 DEF BucketsLive, DrainsHold
<1>4. CallsQueued'
  <2> SUFFICES ASSUME NEW q \in Streams, Waiting(q)'
               PROVE  /\ call'[q].key \in Keys /\ permit'[q] = None /\ call'[q].ticket < nextTicket'
                      /\ \A r \in Streams : Waiting(r)' /\ call'[r].ticket = call'[q].ticket => r = q
                      /\ Open' => /\ call'[q].ticket \in buckets'[call'[q].key].tickets
                                  /\ call'[q].eligible <= buckets'[call'[q].key].eligible
    BY Zenon DEF CallsQueued
  <2>1. /\ nextTicket \in Nat /\ \A r \in Streams : call[r].ticket \in Nat /\ call[r].eligible \in Nat
        /\ \A h \in Keys : buckets[h].eligible \in Nat /\ buckets'[h].eligible \in Nat
    BY <1>2 DEF StateOK, Calls, Buckets
  <2>2. \A r \in Streams : r # s /\ Waiting(r)' => Waiting(r) /\ call[r].ticket < nextTicket
    BY <1>1 DEF Waiting, CallsQueued
  <2>3. CASE q = s
    BY <1>1, <2>1, <2>2, <2>3
  <2>4. CASE q # s
    <3>1. Waiting(q) /\ call'[q] = call[q] /\ permit'[q] = None
      BY <1>1, <2>2, <2>4 DEF CallsQueued
    <3>2. /\ call[q].key \in Keys
          /\ call[q].ticket \in buckets[call[q].key].tickets
          /\ call[q].eligible <= buckets[call[q].key].eligible
      BY <3>1, Zenon DEF CallsQueued
    <3>3. \A r \in Streams : Waiting(r)' /\ call'[r].ticket = call'[q].ticket => r = q
      BY <1>1, <2>1, <2>2, <2>4, <3>1 DEF CallsQueued, Waiting
    <3>4. CASE call[q].key = k
      BY <1>1, <2>1, <2>2, <2>4, <3>1, <3>2, <3>3, <3>4
    <3>5. CASE call[q].key # k
      BY <1>1, <2>1, <2>2, <2>4, <3>1, <3>2, <3>3, <3>5
    <3> QED  BY <3>4, <3>5, Zenon
  <2> QED  BY <2>3, <2>4, Zenon
<1>5. TicketsOwned'
  <2> SUFFICES ASSUME NEW h \in Keys, NEW t \in buckets'[h].tickets
               PROVE  Open' /\ \E r \in Streams : Waiting(r)' /\ call'[r].key = h /\ call'[r].ticket = t
    BY DEF TicketsOwned
  <2>1. CASE h = k /\ t = nextTicket
    BY <1>1, <2>1 DEF Waiting, Open
  <2>2. CASE ~(h = k /\ t = nextTicket)
    BY <1>1, <2>2 DEF Waiting, Open, TicketsOwned
  <2> QED  BY <2>1, <2>2, Zenon
<1>6. OnePermitPerKey'
  <2>1. \A q, r \in Streams : permit'[q] # None /\ permit'[q] = permit'[r] => q = r
    BY <1>1 DEF OnePermitPerKey
  <2>2. ASSUME NEW h \in Keys PROVE buckets'[h].permitted <=> \E r \in Streams : permit'[r] = h
    <3>1. k # None /\ h # None
      BY SetsAssumption
    <3>2. CASE permit[s] = None /\ b.permitted = buckets[k].permitted
      BY <1>1, <3>1, <3>2 DEF OnePermitPerKey
    <3>3. CASE permit[s] = k /\ b.permitted = FALSE
      BY <1>1, <3>1, <3>3 DEF OnePermitPerKey
    <3> QED  BY <3>2, <3>3, Zenon
  <2> QED  BY <2>1, <2>2 DEF OnePermitPerKey
<1> QED  BY <1>2, <1>3, <1>4, <1>5, <1>6

\* A waiting stream goes: its ticket leaves the queue, or the queue has gone, or
\* it goes with the permit of the key.
LEMMA GoHolds ==
    ASSUME IInv, NEW s \in Streams, NEW k \in Keys, NEW b \in Buckets,
           Waiting(s), call[s].key = k,
           b.tickets = buckets[k].tickets \ {call[s].ticket},
           b.permitted \/ b.tickets # {} => b.live,
           b.tickets # {} => buckets[k].eligible <= b.eligible,
           \/ permit' = permit /\ b.permitted = buckets[k].permitted
           \/ permit' = [permit EXCEPT ![s] = k] /\ b.permitted = TRUE /\ ~buckets[k].permitted,
           call' = [call EXCEPT ![s] = NoCall],
           buckets' = [buckets EXCEPT ![k] = b],
           UNCHANGED <<now, terminal, nextTicket>>
    PROVE  IInv'
<1> USE DEF IInv
<1>1. /\ call'[s] = NoCall /\ \A r \in Streams : r # s => call'[r] = call[r]
      /\ \A r \in Streams : r # s => permit'[r] = permit[r]
      /\ buckets'[k] = b /\ \A h \in Keys : h # k => buckets'[h] = buckets[h]
  BY DEF StateOK
<1>2. NoCall.phase = "idle" /\ permit[s] = None /\ k # None
  BY SetsAssumption DEF NoCall, CallsQueued
<1>3. StateOK'
  BY NoCallType DEF StateOK
<1>4. BucketsLive' /\ DrainsHold'
  BY <1>1, <1>2 DEF BucketsLive, DrainsHold
<1>5. CallsQueued'
  <2> SUFFICES ASSUME NEW q \in Streams, Waiting(q)'
               PROVE  /\ call'[q].key \in Keys /\ permit'[q] = None /\ call'[q].ticket < nextTicket'
                      /\ \A r \in Streams : Waiting(r)' /\ call'[r].ticket = call'[q].ticket => r = q
                      /\ Open' => /\ call'[q].ticket \in buckets'[call'[q].key].tickets
                                  /\ call'[q].eligible <= buckets'[call'[q].key].eligible
    BY Zenon DEF CallsQueued
  <2>1. /\ \A r \in Streams : call[r].eligible \in Nat
        /\ \A h \in Keys : buckets[h].eligible \in Nat /\ buckets'[h].eligible \in Nat
    BY <1>3 DEF StateOK, Calls, Buckets
  <2>2. q # s /\ Waiting(q) /\ call'[q] = call[q] /\ permit'[q] = permit[q] /\ (Open' <=> Open)
    BY <1>1, <1>2 DEF Waiting, Open
  <2>3. call[q].key \in Keys /\ permit[q] = None /\ call[q].ticket < nextTicket
    BY <2>2, Zenon DEF CallsQueued
  <2>4. call[q].ticket # call[s].ticket
    BY <2>2, Zenon DEF CallsQueued
  <2>5. \A r \in Streams : Waiting(r)' /\ call'[r].ticket = call'[q].ticket => r = q
    BY <1>1, <1>2, <2>2 DEF CallsQueued, Waiting
  <2>6. Open => /\ call[q].ticket \in buckets[call[q].key].tickets
                /\ call[q].eligible <= buckets[call[q].key].eligible
    BY <2>2, Zenon DEF CallsQueued
  <2>7. Open => /\ call[q].ticket \in buckets'[call[q].key].tickets
                /\ call[q].eligible <= buckets'[call[q].key].eligible
    <3>1. CASE call[q].key = k
      BY <1>1, <2>1, <2>4, <2>6, <3>1
    <3>2. CASE call[q].key # k
      BY <1>1, <2>3, <2>6, <3>2, Zenon
    <3> QED  BY <3>1, <3>2, Zenon
  <2> QED  BY <2>2, <2>3, <2>5, <2>7, Zenon
<1>6. TicketsOwned'
  <2> SUFFICES ASSUME NEW h \in Keys, NEW t \in buckets'[h].tickets
               PROVE  Open' /\ \E r \in Streams : Waiting(r)' /\ call'[r].key = h /\ call'[r].ticket = t
    BY Zenon DEF TicketsOwned
  <2>1. t \in buckets[h].tickets /\ ~(h = k /\ t = call[s].ticket)
    BY <1>1
  <2>2. PICK r \in Streams : Waiting(r) /\ call[r].key = h /\ call[r].ticket = t
    BY <2>1 DEF TicketsOwned
  <2>3. r # s /\ call'[r] = call[r] /\ Open
    BY <1>1, <2>1, <2>2, Zenon DEF TicketsOwned
  <2> QED  BY <2>2, <2>3, Zenon DEF Waiting, Open
<1>7. OnePermitPerKey'
  <2>1. CASE permit' = permit /\ b.permitted = buckets[k].permitted
    BY <1>1, <2>1 DEF OnePermitPerKey
  <2>2. CASE permit' = [permit EXCEPT ![s] = k] /\ b.permitted = TRUE /\ ~buckets[k].permitted
    <3>1. permit'[s] = k /\ \A r \in Streams : permit[r] # k
      BY <2>2, Zenon DEF OnePermitPerKey, StateOK
    <3>2. \A q, r \in Streams : permit'[q] # None /\ permit'[q] = permit'[r] => q = r
      BY <1>1, <3>1 DEF OnePermitPerKey
    <3>3. buckets'[k].permitted /\ \E r \in Streams : permit'[r] = k
      BY <1>1, <2>2, <3>1, Zenon
    <3>4. ASSUME NEW h \in Keys, h # k
          PROVE  buckets'[h].permitted <=> \E r \in Streams : permit'[r] = h
      <4>1. h # None
        BY SetsAssumption, Zenon
      <4>2. (\E r \in Streams : permit'[r] = h) <=> \E r \in Streams : permit[r] = h
        BY <1>1, <1>2, <3>1, <3>4, <4>1
      <4> QED  BY <1>1, <3>4, <4>2, Zenon DEF OnePermitPerKey
    <3> QED  BY <3>2, <3>3, <3>4 DEF OnePermitPerKey
  <2> QED  BY <2>1, <2>2, Zenon
<1> QED  BY <1>3, <1>4, <1>5, <1>6, <1>7

-----------------------------------------------------------------------------

\* The counts: WaitersExact, of finite queues.
CInv == WaitersExact /\ \A k \in Keys : IsFiniteSet(buckets[k].tickets)

\* The streams counted are finitely many.
LEMMA CountedFinite ==
    /\ IsFiniteSet(WaitingStreams) /\ Cardinality(WaitingStreams) \in Nat
    /\ IsFiniteSet(Permits) /\ Cardinality(Permits) \in Nat
<1>1. WaitingStreams \in SUBSET Streams /\ Permits \in SUBSET Streams
  BY DEF WaitingStreams, Permits
<1>2. IsFiniteSet(WaitingStreams) /\ IsFiniteSet(Permits)
  BY <1>1, SetsAssumption, FS_Subset
<1> QED  BY <1>2, FS_CardinalityType

\* What a bucket counts for: its tickets and its permit.
LEMMA KeyWaitersFacts ==
    ASSUME NEW b \in Buckets, NEW c \in Buckets, IsFiniteSet(b.tickets)
    PROVE  /\ c.tickets = b.tickets /\ c.permitted = b.permitted => KeyWaiters(c) = KeyWaiters(b)
           /\ c.tickets = b.tickets /\ ~c.permitted => KeyWaiters(c) <= KeyWaiters(b)
           /\ \A n : /\ c.tickets = b.tickets \cup {n} /\ c.permitted = b.permitted =>
                           KeyWaiters(c) <= KeyWaiters(b) + 1
                     /\ c.tickets = b.tickets \cup {n} /\ b.permitted /\ ~c.permitted =>
                           KeyWaiters(c) <= KeyWaiters(b)
                     /\ c.tickets = b.tickets \ {n} /\ c.permitted = b.permitted =>
                           KeyWaiters(c) <= KeyWaiters(b)
                     /\ c.tickets = b.tickets \ {n} /\ n \in b.tickets /\ ~b.permitted =>
                           KeyWaiters(c) <= KeyWaiters(b)
           /\ KeyWaiters(b) \in Nat
<1>1. Cardinality(b.tickets) \in Nat
  BY FS_CardinalityType
<1>2. ASSUME NEW n
      PROVE  /\ Cardinality(b.tickets \cup {n}) \in Nat
             /\ Cardinality(b.tickets \cup {n}) <= Cardinality(b.tickets) + 1
             /\ Cardinality(b.tickets \ {n}) \in Nat
             /\ Cardinality(b.tickets \ {n}) <= Cardinality(b.tickets)
             /\ n \in b.tickets => Cardinality(b.tickets \ {n}) = Cardinality(b.tickets) - 1
  <2>1. IsFiniteSet(b.tickets \cup {n}) /\ IsFiniteSet(b.tickets \ {n})
    BY FS_AddElement, FS_RemoveElement, Zenon
  <2>2. Cardinality(b.tickets \cup {n}) \in Nat /\ Cardinality(b.tickets \ {n}) \in Nat
    BY <2>1, FS_CardinalityType
  <2>3. Cardinality(b.tickets \cup {n}) = IF n \in b.tickets THEN Cardinality(b.tickets)
                                          ELSE Cardinality(b.tickets) + 1
    BY FS_AddElement, Zenon
  <2>4. Cardinality(b.tickets \ {n}) = IF n \in b.tickets THEN Cardinality(b.tickets) - 1
                                       ELSE Cardinality(b.tickets)
    BY FS_RemoveElement, Zenon
  <2> QED  BY <1>1, <2>2, <2>3, <2>4
<1> DEFINE one(x) == IF x.permitted THEN 1 ELSE 0
<1>3. KeyWaiters(b) = Cardinality(b.tickets) + one(b) /\ KeyWaiters(c) = Cardinality(c.tickets) + one(c)
  BY DEF KeyWaiters
<1>4. one(b) \in {0, 1} /\ one(c) \in {0, 1} /\ (c.permitted = b.permitted => one(c) = one(b))
  OBVIOUS
<1>5. (b.permitted => one(b) = 1) /\ (~b.permitted => one(b) = 0) /\ (~c.permitted => one(c) = 0)
  OBVIOUS
<1> HIDE DEF one
<1>6. KeyWaiters(b) \in Nat
  BY <1>1, <1>3, <1>4
<1>7. c.tickets = b.tickets /\ c.permitted = b.permitted => KeyWaiters(c) = KeyWaiters(b)
  BY <1>3, <1>4
<1>8. c.tickets = b.tickets /\ ~c.permitted => KeyWaiters(c) <= KeyWaiters(b)
  BY <1>1, <1>3, <1>4, <1>5
<1>9. ASSUME NEW n
      PROVE  /\ c.tickets = b.tickets \cup {n} /\ c.permitted = b.permitted =>
                   KeyWaiters(c) <= KeyWaiters(b) + 1
             /\ c.tickets = b.tickets \cup {n} /\ b.permitted /\ ~c.permitted =>
                   KeyWaiters(c) <= KeyWaiters(b)
             /\ c.tickets = b.tickets \ {n} /\ c.permitted = b.permitted =>
                   KeyWaiters(c) <= KeyWaiters(b)
             /\ c.tickets = b.tickets \ {n} /\ n \in b.tickets /\ ~b.permitted =>
                   KeyWaiters(c) <= KeyWaiters(b)
  <2> DEFINE m == Cardinality(b.tickets)
             u == Cardinality(b.tickets \cup {n})
             d == Cardinality(b.tickets \ {n})
  <2>1. /\ m \in Nat /\ u \in Nat /\ d \in Nat /\ u <= m + 1 /\ d <= m
        /\ n \in b.tickets => d = m - 1
    BY <1>1, <1>2, Zenon
  <2>2. KeyWaiters(b) = m + one(b)
    BY <1>3
  <2>3. ASSUME c.tickets = b.tickets \cup {n} PROVE KeyWaiters(c) = u + one(c)
    BY <1>3, <2>3
  <2>4. ASSUME c.tickets = b.tickets \ {n} PROVE KeyWaiters(c) = d + one(c)
    BY <1>3, <2>4
  <2> HIDE DEF m, u, d
  <2>5. c.tickets = b.tickets \cup {n} /\ c.permitted = b.permitted => KeyWaiters(c) <= KeyWaiters(b) + 1
    BY <1>4, <2>1, <2>2, <2>3
  <2>6. c.tickets = b.tickets \cup {n} /\ b.permitted /\ ~c.permitted => KeyWaiters(c) <= KeyWaiters(b)
    BY <1>5, <2>1, <2>2, <2>3
  <2>7. c.tickets = b.tickets \ {n} /\ c.permitted = b.permitted => KeyWaiters(c) <= KeyWaiters(b)
    BY <1>4, <2>1, <2>2, <2>4
  <2>8. c.tickets = b.tickets \ {n} /\ n \in b.tickets /\ ~b.permitted => KeyWaiters(c) <= KeyWaiters(b)
    BY <1>4, <1>5, <2>1, <2>2, <2>4
  <2> QED  BY <2>5, <2>6, <2>7, <2>8, Zenon
<1> QED  BY <1>6, <1>7, <1>8, <1>9, Zenon

\* A step that changes neither who waits nor who holds a permit.
LEMMA SameCounts ==
    ASSUME IInv, CInv, buckets' \in [Keys -> Buckets],
           \A k \in Keys : /\ buckets'[k].permitted = buckets[k].permitted
                           /\ buckets'[k].tickets = buckets[k].tickets,
           \A s \in Streams : call'[s].phase = "waiting" <=> call[s].phase = "waiting",
           UNCHANGED <<permit, terminal, totalWaiters>>
    PROVE  CInv'
<1>1. WaitingStreams' = WaitingStreams /\ Permits' = Permits
  BY DEF WaitingStreams, Permits, Open
<1>2. \A k \in Keys : KeyWaiters(buckets'[k]) <= KeyLimit
  BY KeyWaitersFacts, Zenon DEF IInv, StateOK, CInv, WaitersExact
<1> QED  BY <1>1, <1>2, Zenon DEF CInv, WaitersExact

\* A stream queues: it is one more, or it was counted for its permit before.
LEMMA QueueCounts ==
    ASSUME IInv, CInv, Open, NEW s \in Streams, NEW k \in Keys, NEW w \in Calls, NEW b \in Buckets,
           call[s].phase # "waiting", w.phase = "waiting",
           b.tickets = buckets[k].tickets \cup {nextTicket},
           \/ /\ permit[s] = None /\ b.permitted = buckets[k].permitted
              /\ ~Saturated(k) /\ totalWaiters' = totalWaiters + 1
           \/ /\ permit[s] = k /\ b.permitted = FALSE /\ totalWaiters' = totalWaiters,
           call' = [call EXCEPT ![s] = w],
           buckets' = [buckets EXCEPT ![k] = b],
           permit' = [permit EXCEPT ![s] = None],
           UNCHANGED terminal
    PROVE  CInv'
<1>1. /\ buckets \in [Keys -> Buckets] /\ call \in [Streams -> Calls]
      /\ permit \in [Streams -> Keys \cup {None}] /\ k # None
  BY SetsAssumption, Zenon DEF IInv, StateOK
<1>2. WaitingStreams' = WaitingStreams \cup {s} /\ s \notin WaitingStreams
  BY <1>1 DEF WaitingStreams, Open
<1>3. Cardinality(WaitingStreams') = Cardinality(WaitingStreams) + 1
  BY <1>2, CountedFinite, FS_AddElement, Zenon
<1>4. Permits' = Permits \ {s} /\ (s \in Permits <=> permit[s] # None)
  BY <1>1, Zenon DEF Permits
<1>5. Cardinality(Permits') = IF permit[s] # None THEN Cardinality(Permits) - 1 ELSE Cardinality(Permits)
  BY <1>4, CountedFinite, FS_RemoveElement, Zenon
<1>6. totalWaiters' = Cardinality(WaitingStreams') + Cardinality(Permits')
  BY <1>1, <1>3, <1>5, CountedFinite DEF CInv, WaitersExact
<1>7. totalWaiters' <= TotalLimit
  BY CountedFinite, NumbersAssumption DEF CInv, WaitersExact, Saturated
<1>8. permit[s] = k => buckets[k].permitted
  BY Zenon DEF IInv, OnePermitPerKey
<1>9. KeyWaiters(b) <= KeyLimit
  <2>1. IsFiniteSet(buckets[k].tickets) /\ KeyWaiters(buckets[k]) <= KeyLimit
    BY Zenon DEF CInv, WaitersExact
  <2>2. KeyWaiters(buckets[k]) \in Nat
    BY <1>1, <2>1, KeyWaitersFacts, Zenon
  <2>3. CASE permit[s] = None /\ b.permitted = buckets[k].permitted /\ ~Saturated(k)
    <3>1. KeyWaiters(b) <= KeyWaiters(buckets[k]) + 1 /\ KeyWaiters(b) \in Nat
      <4>1. IsFiniteSet(b.tickets)
        BY <2>1, FS_AddElement
      <4> QED  BY <1>1, <2>1, <2>3, <4>1, KeyWaitersFacts, Zenon
    <3> QED  BY <2>2, <2>3, <3>1, NumbersAssumption DEF Saturated
  <2>4. CASE permit[s] = k /\ b.permitted = FALSE
    <3>1. KeyWaiters(b) <= KeyWaiters(buckets[k]) /\ KeyWaiters(b) \in Nat
      <4>1. IsFiniteSet(b.tickets)
        BY <2>1, FS_AddElement
      <4> QED  BY <1>1, <1>8, <2>1, <2>4, <4>1, KeyWaitersFacts, Zenon
    <3> QED  BY <2>1, <2>2, <3>1, NumbersAssumption
  <2> QED  BY <2>3, <2>4, Zenon
<1>10. \A h \in Keys : KeyWaiters(buckets'[h]) <= KeyLimit /\ IsFiniteSet(buckets'[h].tickets)
  <2>1. IsFiniteSet(b.tickets)
    BY FS_AddElement, SMTT(30) DEF CInv
  <2> QED  BY <1>1, <1>9, <2>1, Zenon DEF CInv, WaitersExact
<1> QED  BY <1>6, <1>7, <1>10, Zenon DEF CInv, WaitersExact

\* A waiting stream goes: it is one less, or is counted for its permit now, or
\* was not counted any more.
LEMMA GoCounts ==
    ASSUME IInv, CInv, NEW s \in Streams, NEW k \in Keys, NEW b \in Buckets,
           Waiting(s), call[s].key = k,
           b.tickets = buckets[k].tickets \ {call[s].ticket},
           \/ /\ permit' = permit /\ b.permitted = buckets[k].permitted
              /\ totalWaiters' = IF Open THEN totalWaiters - 1 ELSE totalWaiters
           \/ /\ permit' = [permit EXCEPT ![s] = k] /\ b.permitted = TRUE /\ ~buckets[k].permitted
              /\ Open /\ totalWaiters' = totalWaiters,
           call' = [call EXCEPT ![s] = NoCall],
           buckets' = [buckets EXCEPT ![k] = b],
           UNCHANGED terminal
    PROVE  CInv'
<1>1. /\ buckets \in [Keys -> Buckets] /\ call \in [Streams -> Calls]
      /\ permit \in [Streams -> Keys \cup {None}] /\ k # None /\ permit[s] = None
  BY SetsAssumption, Zenon DEF IInv, StateOK, CallsQueued
<1>2. NoCall.phase # "waiting"
  BY DEF NoCall
<1>3. WaitingStreams' = WaitingStreams \ {s} /\ (s \in WaitingStreams <=> Open)
  BY <1>1, <1>2 DEF WaitingStreams, Open, Waiting
<1>4. Cardinality(WaitingStreams') = IF Open THEN Cardinality(WaitingStreams) - 1
                                     ELSE Cardinality(WaitingStreams)
  BY <1>3, CountedFinite, FS_RemoveElement, Zenon
<1>5. IsFiniteSet(buckets[k].tickets) /\ KeyWaiters(buckets[k]) <= KeyLimit /\ KeyWaiters(buckets[k]) \in Nat
  BY <1>1, KeyWaitersFacts, Zenon DEF CInv, WaitersExact
<1>6. IsFiniteSet(b.tickets)
  BY <1>5, FS_RemoveElement
<1>7. KeyWaiters(b) \in Nat
  BY <1>6, KeyWaitersFacts, Zenon
<1>8. CASE permit' = permit /\ b.permitted = buckets[k].permitted
           /\ totalWaiters' = IF Open THEN totalWaiters - 1 ELSE totalWaiters
  <2>1. Permits' = Permits
    BY <1>8, Zenon DEF Permits
  <2>2. totalWaiters' = Cardinality(WaitingStreams') + Cardinality(Permits') /\ totalWaiters' <= TotalLimit
    BY <1>4, <1>8, <2>1, CountedFinite, NumbersAssumption DEF CInv, WaitersExact
  <2>3. KeyWaiters(b) <= KeyWaiters(buckets[k])
    BY <1>1, <1>5, <1>8, KeyWaitersFacts, Zenon
  <2>4. KeyWaiters(b) <= KeyLimit
    BY <1>5, <1>7, <2>3, NumbersAssumption
  <2>5. \A h \in Keys : KeyWaiters(buckets'[h]) <= KeyLimit /\ IsFiniteSet(buckets'[h].tickets)
    BY <1>1, <1>6, <2>4, Zenon DEF CInv, WaitersExact
  <2> QED  BY <2>2, <2>5, Zenon DEF CInv, WaitersExact
<1>9. CASE permit' = [permit EXCEPT ![s] = k] /\ b.permitted = TRUE /\ ~buckets[k].permitted
           /\ Open /\ totalWaiters' = totalWaiters
  <2>1. Permits' = Permits \cup {s} /\ s \notin Permits
    BY <1>1, <1>9, Zenon DEF Permits
  <2>2. Cardinality(Permits') = Cardinality(Permits) + 1
    BY <2>1, CountedFinite, FS_AddElement, Zenon
  <2>3. totalWaiters' = Cardinality(WaitingStreams') + Cardinality(Permits') /\ totalWaiters' <= TotalLimit
    BY <1>4, <1>9, <2>2, CountedFinite, NumbersAssumption DEF CInv, WaitersExact
  <2>4. call[s].ticket \in buckets[k].tickets
    BY <1>9, Zenon DEF IInv, CallsQueued
  <2>5. KeyWaiters(b) <= KeyWaiters(buckets[k])
    BY <1>1, <1>5, <1>9, <2>4, KeyWaitersFacts, Zenon
  <2>6. KeyWaiters(b) <= KeyLimit
    BY <1>5, <1>7, <2>5, NumbersAssumption
  <2>7. \A h \in Keys : KeyWaiters(buckets'[h]) <= KeyLimit /\ IsFiniteSet(buckets'[h].tickets)
    BY <1>1, <1>6, <2>6, Zenon DEF CInv, WaitersExact
  <2> QED  BY <2>3, <2>7 DEF CInv, WaitersExact
<1> QED  BY <1>8, <1>9, Zenon

\* A permit is completed: one less.
LEMMA CompleteCounts ==
    ASSUME IInv, CInv, NEW s \in Streams, NEW k \in Keys, permit[s] = k,
           buckets' \in [Keys -> Buckets],
           ~buckets'[k].permitted,
           \A h \in Keys : /\ buckets'[h].tickets = buckets[h].tickets
                           /\ h # k => buckets'[h].permitted = buckets[h].permitted,
           \A r \in Streams : call'[r].phase = "waiting" <=> call[r].phase = "waiting",
           permit' = [permit EXCEPT ![s] = None],
           totalWaiters' = totalWaiters - 1,
           UNCHANGED terminal
    PROVE  CInv'
<1>1. buckets \in [Keys -> Buckets] /\ permit \in [Streams -> Keys \cup {None}] /\ k # None
  BY SetsAssumption, Zenon DEF IInv, StateOK
<1>2. WaitingStreams' = WaitingStreams
  BY DEF WaitingStreams, Open
<1>3. Permits' = Permits \ {s} /\ s \in Permits
  BY <1>1 DEF Permits
<1>4. Cardinality(Permits') = Cardinality(Permits) - 1
  BY <1>3, CountedFinite, FS_RemoveElement, Zenon
<1>5. totalWaiters' = Cardinality(WaitingStreams') + Cardinality(Permits') /\ totalWaiters' <= TotalLimit
  BY <1>2, <1>4, CountedFinite, NumbersAssumption DEF CInv, WaitersExact
<1>6. ASSUME NEW h \in Keys PROVE KeyWaiters(buckets'[h]) <= KeyLimit /\ IsFiniteSet(buckets'[h].tickets)
  <2>1. /\ IsFiniteSet(buckets[h].tickets) /\ KeyWaiters(buckets[h]) <= KeyLimit
        /\ KeyWaiters(buckets[h]) \in Nat /\ KeyWaiters(buckets'[h]) \in Nat
    BY <1>1, KeyWaitersFacts, Zenon DEF CInv, WaitersExact
  <2>2. KeyWaiters(buckets'[h]) <= KeyWaiters(buckets[h])
    BY <1>1, <2>1, KeyWaitersFacts
  <2> QED  BY <2>1, <2>2, NumbersAssumption
<1> QED  BY <1>5, <1>6, Zenon DEF CInv, WaitersExact

\* Closing drains one ticket for each stream that waits.
LEMMA TerminalCounts ==
    ASSUME IInv, CInv, Open, terminal' # "ACQUIRED", NEW bs,
           \A k \in Keys : bs[k].tickets = buckets[k].tickets,
           buckets' \in [Keys -> Buckets],
           \A k \in Keys : /\ buckets'[k].permitted = buckets[k].permitted
                           /\ buckets'[k].tickets = {},
           totalWaiters' = totalWaiters - Cardinality(QueuedTickets(bs)),
           UNCHANGED permit
    PROVE  CInv'
<1>1. buckets \in [Keys -> Buckets]
  BY Zenon DEF IInv, StateOK
<1>2. WaitingStreams' = {} /\ Permits' = Permits
  BY Zenon DEF WaitingStreams, Permits, Open
<1>3. Cardinality(QueuedTickets(bs)) = Cardinality(WaitingStreams)
  <2> DEFINE Q == QueuedTickets(bs)
             f == [s \in WaitingStreams |-> <<call[s].key, call[s].ticket>>]
  <2>1. \A q : q \in Q <=> \E k \in Keys : \E t \in buckets[k].tickets : q = <<k, t>>
    BY DEF QueuedTickets
  <2>2. \A s \in WaitingStreams : /\ s \in Streams /\ Waiting(s)
                                  /\ call[s].key \in Keys
                                  /\ call[s].ticket \in buckets[call[s].key].tickets
    BY Zenon DEF WaitingStreams, Waiting, IInv, CallsQueued
  <2>3. f \in [WaitingStreams -> Q]
    BY <2>1, <2>2, Zenon
  <2>4. ASSUME NEW s \in WaitingStreams, NEW r \in WaitingStreams, f[s] = f[r] PROVE s = r
    BY <2>2, <2>4, Zenon DEF IInv, CallsQueued
  <2>5. ASSUME NEW q \in Q PROVE \E s \in WaitingStreams : f[s] = q
    <3>1. PICK k \in Keys : \E t \in buckets[k].tickets : q = <<k, t>>
      BY <2>1
    <3>2. PICK t \in buckets[k].tickets : q = <<k, t>>
      BY <3>1
    <3>3. PICK s \in Streams : Waiting(s) /\ call[s].key = k /\ call[s].ticket = t
      BY DEF IInv, TicketsOwned
    <3> QED  BY <3>2, <3>3, Zenon DEF WaitingStreams, Waiting
  <2> HIDE DEF Q, f
  <2>6. f \in Bijection(WaitingStreams, Q)
    BY <2>3, <2>4, <2>5, Zenon DEF Bijection, Injection, Surjection, IsInjective
  <2>7. ExistsBijection(WaitingStreams, Q)
    BY <2>6, Zenon DEF ExistsBijection
  <2> QED  BY <2>7, CountedFinite, FS_Bijection DEF Q
<1>4. totalWaiters' = Cardinality(WaitingStreams') + Cardinality(Permits') /\ totalWaiters' <= TotalLimit
  BY <1>2, <1>3, CountedFinite, FS_EmptySet, NumbersAssumption DEF CInv, WaitersExact
<1>5. ASSUME NEW k \in Keys PROVE KeyWaiters(buckets'[k]) <= KeyLimit /\ IsFiniteSet(buckets'[k].tickets)
  <2>1. /\ IsFiniteSet(buckets[k].tickets) /\ KeyWaiters(buckets[k]) <= KeyLimit
        /\ Cardinality(buckets[k].tickets) \in Nat
    BY <1>1, FS_CardinalityType, Zenon DEF CInv, WaitersExact
  <2>2. KeyWaiters(buckets'[k]) = 0 + (IF buckets[k].permitted THEN 1 ELSE 0)
    BY FS_EmptySet, Zenon DEF KeyWaiters
  <2>3. KeyWaiters(buckets[k]) = Cardinality(buckets[k].tickets) + (IF buckets[k].permitted THEN 1 ELSE 0)
    BY Zenon DEF KeyWaiters
  <2>4. KeyWaiters(buckets'[k]) <= KeyLimit
    BY <2>1, <2>2, <2>3, NumbersAssumption
  <2>5. IsFiniteSet(buckets'[k].tickets)
    BY FS_EmptySet, Zenon
  <2> QED  BY <2>4, <2>5, Zenon
<1> QED  BY <1>4, <1>5, Zenon DEF CInv, WaitersExact

\* A permit is completed: its bucket, found by the key, is the one it was for.
LEMMA CompleteHolds ==
    ASSUME IInv, NEW s \in Streams, permit[s] # None, call[s].phase # "waiting",
           Complete(permit[s]),
           permit' = [permit EXCEPT ![s] = None],
           \/ call[s].phase = "idle" /\ call' = call
           \/ call' = [call EXCEPT ![s] = NoCall],
           UNCHANGED <<now, terminal, nextTicket>>
    PROVE  IInv' /\ (CInv => CInv')
<1>1. PICK k \in Keys : k = permit[s]
  BY Zenon DEF StateOK, IInv
<1>2. buckets[k] \in Buckets /\ buckets[k].permitted /\ buckets[k].live
  BY <1>1 DEF OnePermitPerKey, BucketsLive, StateOK, IInv
<1>3. PICK c : c = Unpermitted(buckets[k])
  OBVIOUS
<1>4. c \in Buckets /\ c.permitted = FALSE /\ c.live = buckets[k].live
  BY <1>2, <1>3, UnpermittedFacts, Zenon
<1>7. c.tickets = buckets[k].tickets /\ c.eligible = buckets[k].eligible
  BY <1>2, <1>3, UnpermittedFacts, Zenon
<1>8. buckets' = [buckets EXCEPT ![k] = Kept(c)] /\ totalWaiters' = totalWaiters - 1
  BY <1>1, <1>2, <1>3, Zenon DEF Complete
<1>9. PICK b : b = Kept(c)
  BY Zenon
<1>10. /\ b \in Buckets /\ b.permitted = FALSE /\ b.tickets = buckets[k].tickets
       /\ b.tickets # {} => b = c
       /\ b.tickets # {} => b.live
  BY <1>2, <1>4, <1>7, <1>9, KeptFacts, Zenon
<1>11. /\ buckets'[k] = b /\ \A h \in Keys : h # k => buckets'[h] = buckets[h]
       /\ permit'[s] = None /\ \A r \in Streams : r # s => permit'[r] = permit[r]
       /\ \A r \in Streams : r # s => call'[r] = call[r]
  BY <1>8, <1>9, Zenon DEF StateOK, IInv
<1>12. call'[s].phase = "idle" /\ k # None
  BY SetsAssumption DEF StateOK, NoCall, IInv
<1>13. StateOK'
  BY NoCallType, <1>8, <1>9, <1>10, Zenon DEF StateOK, IInv
<1>14. BucketsLive' /\ DrainsHold'
  BY <1>10, <1>11, <1>12, ZenonT(40) DEF BucketsLive, DrainsHold, IInv
<1>15. \A r \in Streams : /\ Waiting(r)' <=> Waiting(r)
                          /\ Waiting(r) => call'[r] = call[r] /\ r # s
  BY <1>11, <1>12, Zenon DEF Waiting
<1>16. \A h \in Keys : /\ buckets'[h].tickets = buckets[h].tickets
                       /\ buckets'[h].tickets # {} => buckets'[h].eligible = buckets[h].eligible
  BY <1>7, <1>10, <1>11, Zenon
<1>17. CallsQueued' /\ TicketsOwned'
  BY <1>11, <1>15, <1>16 DEF CallsQueued, TicketsOwned, Open, IInv
<1>18. OnePermitPerKey'
  <2>1. \A q, r \in Streams : permit'[q] # None /\ permit'[q] = permit'[r] => q = r
    BY <1>11 DEF OnePermitPerKey, IInv
  <2>2. ~buckets'[k].permitted /\ ~\E r \in Streams : permit'[r] = k
    BY <1>1, <1>10, <1>11, <1>12 DEF OnePermitPerKey, IInv
  <2>3. ASSUME NEW h \in Keys, h # k
        PROVE  buckets'[h].permitted <=> \E r \in Streams : permit'[r] = h
    <3>1. h # None
      BY SetsAssumption, Zenon
    <3>2. (\E r \in Streams : permit'[r] = h) <=> \E r \in Streams : permit[r] = h
      BY <1>1, <1>11, <2>3, <3>1
    <3> QED  BY <1>11, <2>3, <3>2, Zenon DEF OnePermitPerKey, IInv
  <2> QED  BY <2>1, <2>2, <2>3, Zenon DEF OnePermitPerKey
<1>19. CInv => CInv'
  <2>1. buckets' \in [Keys -> Buckets] /\ ~buckets'[k].permitted
    BY <1>10, <1>11, <1>13, Zenon DEF StateOK
  <2>2. \A h \in Keys : h # k => buckets'[h].permitted = buckets[h].permitted
    BY <1>11, Zenon
  <2>3. \A r \in Streams : call'[r].phase = "waiting" <=> call[r].phase = "waiting"
    BY <1>15 DEF Waiting
  <2> QED  BY <1>1, <1>8, <1>16, <2>1, <2>2, <2>3, CompleteCounts, Zenon
<1> QED  BY <1>13, <1>14, <1>17, <1>18, <1>19, Zenon DEF IInv

-----------------------------------------------------------------------------

\* Every outcome of Acquire keeps the invariant.
LEMMA AcquireHolds ==
    ASSUME IInv, NEW s \in Streams, NEW k \in Keys, NEW delay \in Delays, NEW wait \in Waits,
           Acquire(s, k, delay, wait)
    PROVE  IInv' /\ (CInv => CInv')
<1>1. PICK e \in Nat : e = now + delay
  BY NumbersAssumption DEF IInv, StateOK
<1>2. /\ buckets \in [Keys -> Buckets] /\ nextTicket \in Nat /\ now \in Nat
      /\ call \in [Streams -> Calls] /\ permit \in [Streams -> Keys \cup {None}]
      /\ buckets[k].permitted \/ buckets[k].tickets # {} => buckets[k].live
      /\ BucketsLive
  BY Zenon DEF IInv, StateOK, BucketsLive
<1>3. PICK j : j = Joined(buckets[k], e)
  OBVIOUS
<1>4. /\ j \in Buckets /\ j.live /\ j.permitted = buckets[k].permitted
      /\ j.tickets = buckets[k].tickets /\ e <= j.eligible
      /\ buckets[k].tickets # {} => buckets[k].eligible <= j.eligible
  BY <1>2, <1>3, JoinedFacts, Zenon
<1>5. CASE AcquireRefused(s, k, delay, wait)
  <2>1. IInv'
    BY <1>2, <1>5, ExtendsHolds DEF AcquireRefused, BucketsLive, Buckets
  <2>2. CInv => CInv'
    BY <1>2, <1>5, SameCounts, Zenon DEF AcquireRefused
  <2> QED  BY <2>1, <2>2, Zenon
<1>6. CASE AcquireSaturated(s, k, delay, wait)
  <2>1. PICK b : b = Extended(buckets[k], e)
    OBVIOUS
  <2>2. /\ b \in Buckets /\ b.live = buckets[k].live /\ b.permitted = buckets[k].permitted
        /\ b.tickets = buckets[k].tickets /\ buckets[k].eligible <= b.eligible
    BY <1>2, <2>1, ExtendedFacts, Zenon
  <2>3. buckets' = buckets \/ buckets' = [buckets EXCEPT ![k] = b]
    BY <1>1, <1>6, <2>1, Zenon DEF AcquireSaturated
  <2>4. /\ now' \in Nat /\ nextTicket' \in Nat /\ nextTicket <= nextTicket'
        /\ UNCHANGED <<call, permit, terminal, totalWaiters>>
    <3>1. UNCHANGED <<now, nextTicket, call, permit, terminal, totalWaiters>>
      BY <1>6, Zenon DEF AcquireSaturated
    <3> QED  BY <1>2, <3>1
  <2>5. buckets' \in [Keys -> Buckets]
    BY <1>2, <2>2, <2>3, Zenon
  <2>6. \A h \in Keys : /\ buckets'[h].permitted = buckets[h].permitted
                        /\ buckets'[h].tickets = buckets[h].tickets
                        /\ buckets[h].tickets # {} => buckets[h].eligible <= buckets'[h].eligible
                        /\ buckets[h].permitted \/ buckets[h].tickets # {} => buckets'[h].live
    BY <1>2, <2>2, <2>3 DEF BucketsLive, Buckets
  <2>7. IInv'
    BY <2>4, <2>5, <2>6, ExtendsHolds, Zenon
  <2>8. CInv => CInv'
    BY <2>4, <2>5, <2>6, SameCounts, Zenon
  <2> QED  BY <2>7, <2>8
<1>7. CASE AcquireExhausted(s, k, delay, wait)
  <2>1. PICK bs : bs = [buckets EXCEPT ![k] = j]
    BY ZenonT(40)
  <2>2. /\ bs \in [Keys -> Buckets]
        /\ \A h \in Keys : bs[h].permitted = buckets[h].permitted /\ bs[h].tickets = buckets[h].tickets
    BY <1>2, <1>4, <2>1, Zenon
  <2>3. \A h \in Keys : bs[h].permitted => bs[h].live
    BY <1>2, <1>4, <2>1, Zenon DEF BucketsLive
  <2>4. /\ buckets' = Drained(bs) /\ terminal' = "TICKET_EXHAUSTED" /\ Open
        /\ totalWaiters' = totalWaiters - Cardinality(QueuedTickets(bs))
        /\ UNCHANGED <<now, nextTicket, call, permit>>
    BY <1>1, <1>3, <1>7, <2>1, Zenon DEF AcquireExhausted, EnterTerminal, Proceed
  <2>5. /\ buckets' \in [Keys -> Buckets]
        /\ \A h \in Keys : /\ buckets'[h].permitted = buckets[h].permitted
                           /\ buckets'[h].tickets = {}
                           /\ buckets[h].permitted => buckets'[h].live
    BY <2>2, <2>3, <2>4, DrainedFacts, Zenon
  <2>6. IInv'
    BY <1>2, <2>4, <2>5, TerminalHolds, ZenonT(40) DEF Statuses
  <2>7. CInv => CInv'
    BY <2>2, <2>4, <2>5, TerminalCounts, Zenon
  <2> QED  BY <2>6, <2>7
<1>8. CASE AcquireQueued(s, k, delay, wait)
  <2>1. PICK w : w = Waiter(k, nextTicket, now + delay, now + wait)
    OBVIOUS
  <2>2. w \in Calls /\ w.phase = "waiting" /\ w.key = k /\ w.ticket = nextTicket /\ w.eligible = e
    <3>1. PICK d \in Nat : d = now + wait
      BY <1>2, NumbersAssumption
    <3> QED  BY <1>1, <1>2, <2>1, <3>1, WaiterFacts
  <2>3. PICK b : b = Queued(j, nextTicket)
    OBVIOUS
  <2>4. /\ b \in Buckets /\ b.tickets = j.tickets \cup {nextTicket} /\ b.eligible = j.eligible
        /\ b.live = j.live /\ b.permitted = j.permitted
    BY <1>2, <1>4, <2>3, TicketFacts, Zenon
  <2>7. /\ buckets' = [buckets EXCEPT ![k] = b] /\ call' = [call EXCEPT ![s] = w]
        /\ nextTicket' = nextTicket + 1 /\ totalWaiters' = totalWaiters + 1
        /\ UNCHANGED <<now, terminal, permit>>
    BY <1>1, <1>3, <1>8, <2>1, <2>3, Zenon DEF AcquireQueued
  <2>8. /\ Open /\ call[s].phase # "waiting" /\ permit[s] = None /\ permit' = [permit EXCEPT ![s] = None]
        /\ ~Saturated(k)
    BY <1>2, <1>8, <2>7, Zenon DEF AcquireQueued, Proceed, Enter
  <2>9. IInv'
    BY <1>4, <2>2, <2>4, <2>7, <2>8, QueueHolds, Zenon
  <2>10. CInv => CInv'
    BY <1>4, <2>2, <2>4, <2>7, <2>8, QueueCounts, Zenon
  <2> QED  BY <2>9, <2>10
<1>9. CASE AcquireThrows(s, k, delay, wait)
  <2>1. PICK b : b = Kept(j)
    OBVIOUS
  <2>2. /\ b \in Buckets /\ b.permitted = buckets[k].permitted /\ b.tickets = buckets[k].tickets
        /\ b.tickets # {} => b = j
        /\ b.permitted \/ b.tickets # {} => b.live
    BY <1>4, <2>1, KeptFacts, Zenon
  <2>3. buckets' = [buckets EXCEPT ![k] = b]
    BY <1>1, <1>3, <1>9, <2>1, Zenon DEF AcquireThrows
  <2>4. /\ now' \in Nat /\ nextTicket' \in Nat /\ nextTicket <= nextTicket'
        /\ UNCHANGED <<call, permit, terminal, totalWaiters>>
    BY <1>2, <1>9 DEF AcquireThrows
  <2>5. buckets' \in [Keys -> Buckets]
    BY <1>2, <2>2, <2>3, Zenon
  <2>6. \A h \in Keys : /\ buckets'[h].permitted = buckets[h].permitted
                        /\ buckets'[h].tickets = buckets[h].tickets
                        /\ buckets[h].tickets # {} => buckets[h].eligible <= buckets'[h].eligible
                        /\ buckets[h].permitted \/ buckets[h].tickets # {} => buckets'[h].live
    BY <1>2, <1>4, <2>2, <2>3 DEF BucketsLive, Buckets
  <2>7. IInv'
    BY <2>4, <2>5, <2>6, ExtendsHolds
  <2>8. CInv => CInv'
    BY <2>4, <2>5, <2>6, SameCounts
  <2> QED  BY <2>7, <2>8, Zenon
<1> QED  BY <1>5, <1>6, <1>7, <1>8, <1>9, Zenon DEF Acquire

\* Every turn of WaitForTicket keeps the invariant; while the coordinator is open
\* the bucket of a waiting call is in the map.
LEMMA TurnHolds ==
    ASSUME IInv, NEW s \in Streams, WaitForTicket(s)
    PROVE  IInv' /\ (CInv => CInv')
<1>1. /\ buckets \in [Keys -> Buckets] /\ nextTicket \in Nat /\ now \in Nat
      /\ call \in [Streams -> Calls] /\ permit \in [Streams -> Keys \cup {None}]
      /\ BucketsLive
  BY Zenon DEF IInv, StateOK
<1>2. CASE TurnWaits(s)
  <2>1. IInv'
    BY <1>1, <1>2, ExtendsHolds DEF TurnWaits, BucketsLive, Buckets
  <2>2. CInv => CInv'
    BY <1>1, <1>2, SameCounts, Zenon DEF TurnWaits
  <2> QED  BY <2>1, <2>2
<1> SUFFICES ASSUME ~TurnWaits(s) PROVE IInv' /\ (CInv => CInv')
  BY <1>2, Zenon
<1>3. Waiting(s)
  BY DEF WaitForTicket, TurnClosed, TurnCancelled, TurnGranted, TurnTimedOut, TurnThrows,
         MayTurn, Waiting
<1>4. PICK k \in Keys : k = call[s].key
  BY <1>3, Zenon DEF IInv, CallsQueued
<1>5. PICK t \in Nat : t = call[s].ticket
  BY <1>1 DEF Calls
<1>6. buckets[k] \in Buckets /\ (Open => buckets[k].live)
  BY <1>1, <1>3, <1>4, Zenon DEF IInv, CallsQueued, BucketsLive
<1>7. PICK d : d = Dequeued(buckets[k], t)
  BY Zenon
<1>8. /\ d \in Buckets /\ d.tickets = buckets[k].tickets \ {t} /\ d.eligible = buckets[k].eligible
      /\ d.live = buckets[k].live /\ d.permitted = buckets[k].permitted
  BY <1>6, <1>7, TicketFacts, Zenon
<1>9. CASE TurnClosed(s)
  <2>1. /\ ~Open /\ call' = [call EXCEPT ![s] = NoCall]
        /\ UNCHANGED <<now, terminal, nextTicket, buckets, permit, totalWaiters>>
    BY <1>4, <1>6, <1>9, Zenon DEF TurnClosed, Gone, Return
  <2>2. buckets[k].tickets = {}
    BY <2>1, Zenon DEF IInv, TicketsOwned
  <2>3. PICK b : b = buckets[k]
    OBVIOUS
  <2>4. b \in Buckets /\ b.tickets = buckets[k].tickets \ {call[s].ticket} /\ b.tickets = {}
        /\ b.permitted = buckets[k].permitted /\ (b.permitted => b.live)
    BY <1>1, <2>2, <2>3, Zenon DEF BucketsLive
  <2>5. buckets' = [buckets EXCEPT ![k] = b]
    BY <1>1, <2>1, <2>3, Zenon
  <2>6. IInv'
    BY <1>3, <1>4, <2>1, <2>4, <2>5, GoHolds, Zenon
  <2>7. CInv => CInv'
    BY <1>3, <1>4, <2>1, <2>4, <2>5, GoCounts, Zenon
  <2> QED  BY <2>6, <2>7, Zenon
<1>10. CASE TurnGranted(s)
  <2>1. PICK b : b = [d EXCEPT !.permitted = TRUE]
    BY Zenon
  <2>2. b \in Buckets /\ b.tickets = d.tickets /\ b.eligible = d.eligible
    BY <1>8, <2>1, Zenon DEF Buckets
  <2>3. b.permitted = TRUE
    BY <1>8, <2>1 DEF Buckets
  <2>4. b.live = d.live
    BY <1>8, <2>1 DEF Buckets
  <2>5. Open /\ ~buckets[k].permitted
    BY <1>4, <1>10, Zenon DEF TurnGranted, Gone, IsTurn
  <2>6. /\ buckets' = [buckets EXCEPT ![k] = b] /\ permit' = [permit EXCEPT ![s] = k]
        /\ call' = [call EXCEPT ![s] = NoCall] /\ UNCHANGED <<now, terminal, nextTicket, totalWaiters>>
    BY <1>4, <1>5, <1>7, <1>10, <2>1, Zenon DEF TurnGranted, Return
  <2>7. b.live /\ b.tickets = buckets[k].tickets \ {call[s].ticket} /\ b.eligible = buckets[k].eligible
    BY <1>5, <1>6, <1>8, <2>2, <2>4, <2>5, Zenon
  <2>8. buckets[k].eligible <= b.eligible
    BY <1>6, <2>7 DEF Buckets
  <2>9. IInv'
    BY <1>3, <1>4, <2>2, <2>3, <2>5, <2>6, <2>7, <2>8, GoHolds, Zenon
  <2>10. CInv => CInv'
    BY <1>3, <1>4, <2>2, <2>3, <2>5, <2>6, <2>7, GoCounts, Zenon
  <2> QED  BY <2>9, <2>10, Zenon
<1>11. CASE TurnCancelled(s) \/ TurnTimedOut(s) \/ TurnThrows(s)
  <2>1. PICK b : b = Kept(d)
    OBVIOUS
  <2>2. /\ b \in Buckets /\ b.permitted = d.permitted /\ b.tickets = d.tickets
        /\ b.tickets # {} => b = d
        /\ d.live /\ (b.permitted \/ b.tickets # {}) => b.live
    BY <1>8, <2>1, KeptFacts, Zenon
  <2>3. Open
    BY <1>11, Zenon DEF TurnCancelled, TurnTimedOut, TurnThrows, Gone
  <2>4. /\ buckets' = [buckets EXCEPT ![k] = b] /\ permit' = permit
        /\ call' = [call EXCEPT ![s] = NoCall] /\ UNCHANGED <<now, terminal, nextTicket>>
    BY <1>4, <1>5, <1>7, <1>11, <2>1, Zenon DEF TurnCancelled, TurnTimedOut, TurnThrows, Leave,
       EraseTicket, Return
  <2>5. b.tickets = buckets[k].tickets \ {call[s].ticket} /\ b.permitted = buckets[k].permitted
    BY <1>5, <1>8, <2>2, Zenon
  <2>6. b.permitted \/ b.tickets # {} => b.live
    BY <1>6, <1>8, <2>2, <2>3, Zenon
  <2>7. b.tickets # {} => buckets[k].eligible <= b.eligible
    BY <1>6, <1>8, <2>2 DEF Buckets
  <2>8. IInv'
    BY <1>3, <1>4, <2>2, <2>4, <2>5, <2>6, <2>7, GoHolds, Zenon
  <2>9. t \in buckets[k].tickets
    BY <1>3, <1>4, <1>5, <2>3, Zenon DEF IInv, CallsQueued
  <2>10. totalWaiters' = totalWaiters - 1
    <3>1. EraseTicket(k, t)
      BY <1>4, <1>5, <1>11, Zenon DEF TurnCancelled, TurnTimedOut, TurnThrows, Leave
    <3> QED  BY <2>9, <3>1, Zenon DEF EraseTicket
  <2>11. CInv => CInv'
    BY <1>3, <1>4, <2>2, <2>3, <2>4, <2>5, <2>10, GoCounts, Zenon
  <2> QED  BY <2>8, <2>11, Zenon
<1> QED  BY <1>9, <1>10, <1>11, Zenon DEF WaitForTicket

\* A step that only changes calls that do not wait keeps what the queues say.
LEMMA QuietStep ==
    ASSUME IInv, call' \in [Streams -> Calls],
           now' = now, terminal' = terminal, nextTicket' = nextTicket, buckets' = buckets, permit' = permit,
           \A r \in Streams : (Waiting(r)' <=> Waiting(r)) /\ (Waiting(r) => call'[r] = call[r])
    PROVE  StateOK' /\ BucketsLive' /\ OnePermitPerKey' /\ CallsQueued' /\ TicketsOwned'
<1>1. Open' <=> Open
  BY Zenon DEF Open
<1>2. StateOK'
  BY Zenon DEF IInv, StateOK
<1>3. BucketsLive'
  BY Zenon DEF IInv, BucketsLive
<1>4. OnePermitPerKey'
  BY Zenon DEF IInv, OnePermitPerKey
<1>5. CallsQueued'
  <2>1. ASSUME NEW r \in Streams, Waiting(r)'
        PROVE  /\ call'[r].key \in Keys /\ permit'[r] = None /\ call'[r].ticket < nextTicket'
               /\ \A q \in Streams : Waiting(q)' /\ call'[q].ticket = call'[r].ticket => q = r
               /\ Open' => /\ call'[r].ticket \in buckets'[call'[r].key].tickets
                           /\ call'[r].eligible <= buckets'[call'[r].key].eligible
    BY <1>1, <2>1, ZenonT(30) DEF IInv, CallsQueued
  <2> QED  BY <2>1, Zenon DEF CallsQueued
<1>6. TicketsOwned'
  <2>1. ASSUME NEW k \in Keys, NEW t \in buckets[k].tickets
        PROVE  Open' /\ \E r \in Streams : Waiting(r)' /\ call'[r].key = k /\ call'[r].ticket = t
    <3>1. PICK r \in Streams : Open /\ Waiting(r) /\ call[r].key = k /\ call[r].ticket = t
      BY ZenonT(30) DEF IInv, TicketsOwned
    <3> QED  BY <1>1, <3>1, Zenon
  <2> QED  BY <2>1, Zenon DEF TicketsOwned
<1> QED  BY <1>2, <1>3, <1>4, <1>5, <1>6, Zenon

\* Every outcome of Requeue keeps the invariant: the permit becomes a ticket, or
\* is kept, or is still to be completed.
LEMMA RequeueHolds ==
    ASSUME IInv, NEW s \in Streams, NEW delay \in Delays, NEW wait \in Waits,
           Requeue(s, delay, wait)
    PROVE  IInv' /\ (CInv => CInv')
<1>1. /\ buckets \in [Keys -> Buckets] /\ nextTicket \in Nat /\ now \in Nat /\ terminal \in Statuses
      /\ call \in [Streams -> Calls] /\ permit \in [Streams -> Keys \cup {None}]
      /\ BucketsLive
  BY Zenon DEF IInv, StateOK
<1>2. call[s].phase = "idle" /\ permit[s] # None
  BY Zenon DEF Requeue, RequeueRefused, RequeueExhausted, Requeued, RequeueThrows, EnterRequeue
<1>3. PICK k \in Keys : k = permit[s]
  BY <1>1, <1>2
<1>4. buckets[k] \in Buckets /\ buckets[k].permitted /\ buckets[k].live
  BY <1>1, <1>3, Zenon DEF IInv, OnePermitPerKey, BucketsLive
<1>5. PICK e \in Nat : e = now + delay
  BY <1>1, NumbersAssumption
<1>6. PICK x : x = Extended(buckets[k], e)
  OBVIOUS
<1>7. /\ x \in Buckets /\ x.live = buckets[k].live /\ x.permitted = buckets[k].permitted
      /\ x.tickets = buckets[k].tickets /\ buckets[k].eligible <= x.eligible /\ e <= x.eligible
  BY <1>4, <1>6, ExtendedFacts, Zenon
<1>8. PICK bs : bs = [buckets EXCEPT ![k] = x]
  BY Zenon
<1>9. /\ bs \in [Keys -> Buckets]
      /\ \A h \in Keys : /\ bs[h].permitted = buckets[h].permitted
                         /\ bs[h].tickets = buckets[h].tickets
                         /\ buckets[h].tickets # {} => buckets[h].eligible <= bs[h].eligible
                         /\ buckets[h].permitted \/ buckets[h].tickets # {} => bs[h].live
  <2>1. bs \in [Keys -> Buckets] /\ bs[k] = x /\ \A h \in Keys : h # k => bs[h] = buckets[h]
    BY <1>1, <1>7, <1>8, Zenon
  <2>2. \A h \in Keys : buckets[h].eligible \in Nat
    BY <1>1, Zenon DEF Buckets
  <2>3. ASSUME NEW h \in Keys
        PROVE  /\ bs[h].permitted = buckets[h].permitted
               /\ bs[h].tickets = buckets[h].tickets
               /\ buckets[h].tickets # {} => buckets[h].eligible <= bs[h].eligible
               /\ buckets[h].permitted \/ buckets[h].tickets # {} => bs[h].live
    <3>1. CASE h = k
      BY <1>4, <1>7, <2>1, <3>1, ZenonT(40)
    <3>2. CASE h # k
      BY <1>1, <2>1, <2>2, <3>2 DEF BucketsLive
    <3> QED  BY <3>1, <3>2, Zenon
  <2> QED  BY <2>1, <2>3, Zenon
<1>10. ASSUME NEW status \in Statuses \ {"ACQUIRED"}, Draining(s, status)
       PROVE  /\ call' \in [Streams -> Calls]
              /\ call'[s].phase = "draining" /\ call'[s].status # "ACQUIRED"
              /\ \A r \in Streams : r # s => call'[r] = call[r]
  <2>1. PICK w : w = [NoCall EXCEPT !.phase = "draining", !.status = status]
    OBVIOUS
  <2>2. w = [phase |-> "draining", key |-> None, ticket |-> 0, eligible |-> 0, deadline |-> 0,
             status |-> status]
    BY <2>1, Zenon DEF NoCall
  <2>3. w \in Calls /\ w.phase = "draining" /\ w.status = status
    BY <2>2, Zenon DEF Calls
  <2>4. call' = [call EXCEPT ![s] = w]
    BY <1>10, <2>1 DEF Draining
  <2> QED  BY <1>1, <2>3, <2>4, Zenon
<1>11. CASE RequeueRefused(s, delay, wait)
  <2>1. PICK status : status = IF Open THEN "CANCELLED" ELSE terminal
    BY Zenon
  <2>2. status \in Statuses \ {"ACQUIRED"} /\ Draining(s, status)
    BY <1>1, <1>11, <2>1, Zenon DEF RequeueRefused, Open, Statuses
  <2>3. /\ now' = now /\ terminal' = terminal /\ nextTicket' = nextTicket /\ buckets' = buckets
        /\ permit' = permit /\ totalWaiters' = totalWaiters
    BY <1>11, Zenon DEF RequeueRefused
  <2>4. /\ call' \in [Streams -> Calls]
        /\ call'[s].phase = "draining" /\ call'[s].status # "ACQUIRED"
        /\ \A r \in Streams : r # s => call'[r] = call[r]
    BY <1>10, <2>2, ZenonT(40)
  <2>5. \A r \in Streams : /\ Waiting(r)' <=> Waiting(r)
                           /\ Waiting(r) => call'[r] = call[r]
    <3>1. "idle" # "waiting" /\ "draining" # "waiting"
      BY Zenon
    <3>2. ~Waiting(s) /\ ~Waiting(s)'
      BY <1>2, <2>4, <3>1, Zenon DEF Waiting
    <3>3. ASSUME NEW r \in Streams, r # s PROVE call'[r] = call[r] /\ (Waiting(r)' <=> Waiting(r))
      BY <2>4, <3>3, Zenon DEF Waiting
    <3> QED  BY <3>2, <3>3, Zenon
  <2>6. StateOK' /\ BucketsLive' /\ OnePermitPerKey' /\ CallsQueued' /\ TicketsOwned'
    BY <2>3, <2>4, <2>5, QuietStep, ZenonT(30)
  <2>7. \A r \in Streams : r # s => call'[r] = call[r]
    BY <2>4, Zenon
  <2>8. DrainsHold'
    <3>1. ASSUME NEW r \in Streams, call'[r].phase = "draining"
          PROVE  permit'[r] # None /\ call'[r].status # "ACQUIRED"
      <4>1. CASE r = s
        BY <1>2, <2>3, <2>4, <4>1, Zenon
      <4>2. CASE r # s
        BY <2>3, <2>7, <3>1, <4>2, Zenon DEF IInv, DrainsHold
      <4> QED  BY <4>1, <4>2, Zenon
    <3> QED  BY <3>1, Zenon DEF DrainsHold
  <2>9. CInv => CInv'
    BY <1>1, <2>3, <2>5, SameCounts, Zenon DEF Waiting
  <2> QED  BY <2>6, <2>8, <2>9, Zenon DEF IInv
<1>12. CASE RequeueExhausted(s, delay, wait)
  <2>1. /\ buckets' = Drained(bs) /\ terminal' = "TICKET_EXHAUSTED" /\ Draining(s, "TICKET_EXHAUSTED")
        /\ Open /\ totalWaiters' = totalWaiters - Cardinality(QueuedTickets(bs))
        /\ UNCHANGED <<now, nextTicket, permit>>
    BY <1>3, <1>5, <1>6, <1>8, <1>12, Zenon DEF RequeueExhausted, EnterTerminal
  <2>2. "TICKET_EXHAUSTED" \in Statuses \ {"ACQUIRED"}
    BY Zenon DEF Statuses
  <2>3. /\ call' \in [Streams -> Calls]
        /\ call'[s].phase = "draining" /\ call'[s].status # "ACQUIRED"
        /\ \A r \in Streams : r # s => call'[r] = call[r]
    BY <1>10, <2>1, <2>2, Zenon
  <2>4. /\ buckets' \in [Keys -> Buckets]
        /\ \A h \in Keys : /\ buckets'[h].permitted = buckets[h].permitted
                           /\ buckets'[h].tickets = {}
                           /\ buckets[h].permitted => buckets'[h].live
    BY <1>9, <2>1, DrainedFacts, ZenonT(40)
  <2>5. IInv'
    BY <1>2, <2>1, <2>2, <2>3, <2>4, TerminalHolds, ZenonT(40)
  <2>6. CInv => CInv'
    BY <1>9, <2>1, <2>4, TerminalCounts, Zenon
  <2> QED  BY <2>5, <2>6, Zenon
<1>13. CASE Requeued(s, delay, wait)
  <2>1. PICK w : w = Waiter(k, nextTicket, now + delay, now + wait)
    OBVIOUS
  <2>2. w \in Calls /\ w.phase = "waiting" /\ w.key = k /\ w.ticket = nextTicket /\ w.eligible = e
    <3>1. PICK d \in Nat : d = now + wait
      BY <1>1, NumbersAssumption
    <3> QED  BY <1>1, <1>5, <2>1, <3>1, WaiterFacts
  <2>3. PICK u : u = Unpermitted(x)
    OBVIOUS
  <2>4. /\ u \in Buckets /\ u.permitted = FALSE /\ u.tickets = x.tickets /\ u.eligible = x.eligible
        /\ u.live = x.live
    BY <1>7, <2>3, UnpermittedFacts, Zenon
  <2>5. PICK b : b = Queued(u, nextTicket)
    BY Zenon
  <2>6. /\ b \in Buckets /\ b.tickets = u.tickets \cup {nextTicket} /\ b.eligible = u.eligible
        /\ b.live = u.live /\ b.permitted = u.permitted
    BY <1>1, <2>4, <2>5, TicketFacts, Zenon
  <2>7. b.live /\ b.permitted = FALSE /\ b.tickets = buckets[k].tickets \cup {nextTicket} /\ b.eligible = x.eligible
    BY <1>4, <1>7, <2>4, <2>6, Zenon
  <2>8. /\ buckets' = [buckets EXCEPT ![k] = b] /\ call' = [call EXCEPT ![s] = w]
        /\ nextTicket' = nextTicket + 1 /\ permit' = [permit EXCEPT ![s] = None] /\ Open
        /\ UNCHANGED <<now, terminal, totalWaiters>>
    BY <1>3, <1>5, <1>6, <1>13, <2>1, <2>3, <2>5, Zenon DEF Requeued
  <2>9. IInv'
    BY <1>2, <1>3, <1>7, <2>2, <2>6, <2>7, <2>8, QueueHolds, Zenon
  <2>10. CInv => CInv'
    BY <1>2, <1>3, <2>2, <2>6, <2>7, <2>8, QueueCounts, Zenon
  <2> QED  BY <2>9, <2>10
<1>14. CASE RequeueThrows(s, delay, wait)
  <2>1. /\ buckets' = bs /\ nextTicket' = nextTicket + 1
        /\ UNCHANGED <<now, terminal, call, permit, totalWaiters>>
    BY <1>3, <1>5, <1>6, <1>8, <1>14, Zenon DEF RequeueThrows
  <2>2. IInv'
    BY <1>1, <1>9, <2>1, ExtendsHolds
  <2>3. CInv => CInv'
    BY <1>9, <2>1, SameCounts, Zenon
  <2> QED  BY <2>2, <2>3, Zenon
<1> QED  BY <1>11, <1>12, <1>13, <1>14 DEF Requeue

\* An extended embargo keeps the invariant.
LEMMA ExtendHolds ==
    ASSUME IInv, NEW s \in Streams, NEW delay \in Delays, ExtendEligibleTime(s, delay)
    PROVE  IInv' /\ (CInv => CInv')
<1>1. /\ buckets \in [Keys -> Buckets] /\ nextTicket \in Nat /\ now \in Nat /\ BucketsLive
      /\ permit \in [Streams -> Keys \cup {None}]
  BY Zenon DEF IInv, StateOK
<1>2. PICK k \in Keys : k = permit[s]
  BY <1>1, Zenon DEF ExtendEligibleTime
<1>3. PICK e \in Nat : e = now + delay
  BY <1>1, NumbersAssumption
<1>4. PICK x : x = Extended(buckets[k], e)
  OBVIOUS
<1>5. /\ x \in Buckets /\ x.live = buckets[k].live /\ x.permitted = buckets[k].permitted
      /\ x.tickets = buckets[k].tickets /\ buckets[k].eligible <= x.eligible
  BY <1>1, <1>4, ExtendedFacts, Zenon
<1>6. /\ buckets' = [buckets EXCEPT ![k] = x]
      /\ UNCHANGED <<now, terminal, nextTicket, call, permit, totalWaiters>>
  BY <1>2, <1>3, <1>4, Zenon DEF ExtendEligibleTime
<1>7. /\ buckets' \in [Keys -> Buckets]
      /\ \A h \in Keys : /\ buckets'[h].permitted = buckets[h].permitted
                         /\ buckets'[h].tickets = buckets[h].tickets
                         /\ buckets[h].tickets # {} => buckets[h].eligible <= buckets'[h].eligible
                         /\ buckets[h].permitted \/ buckets[h].tickets # {} => buckets'[h].live
  BY <1>1, <1>5, <1>6 DEF BucketsLive, Buckets
<1>8. IInv'
  BY <1>1, <1>6, <1>7, ExtendsHolds
<1>9. CInv => CInv'
  BY <1>6, <1>7, SameCounts, Zenon
<1> QED  BY <1>8, <1>9, Zenon

\* The coordinator is closed by its owner.
LEMMA CloseHolds == IInv /\ Close => IInv' /\ (CInv => CInv')
<1> SUFFICES ASSUME IInv, Close PROVE IInv' /\ (CInv => CInv')
  OBVIOUS
<1>1. PICK bs : bs = buckets
  OBVIOUS
<1>2. bs \in [Keys -> Buckets] /\ \A k \in Keys : bs[k].permitted => bs[k].live
  BY <1>1, Zenon DEF IInv, StateOK, BucketsLive
<1>3. /\ buckets' = Drained(bs) /\ terminal' \in Statuses \ {"ACQUIRED"}
      /\ Open /\ totalWaiters' = totalWaiters - Cardinality(QueuedTickets(bs))
      /\ UNCHANGED <<now, nextTicket, call, permit>>
  BY <1>1, Zenon DEF Close, EnterTerminal, Statuses
<1>4. call' \in [Streams -> Calls] /\ \A s \in Streams : call'[s] = call[s]
  BY <1>3, Zenon DEF IInv, StateOK
<1>5. /\ buckets' \in [Keys -> Buckets]
      /\ \A k \in Keys : /\ buckets'[k].permitted = buckets[k].permitted
                         /\ buckets'[k].tickets = {}
                         /\ buckets[k].permitted => buckets'[k].live
  BY <1>1, <1>2, <1>3, DrainedFacts, Zenon
<1>6. IInv'
  BY <1>3, <1>4, <1>5, TerminalHolds, Zenon
<1>7. CInv => CInv'
  BY <1>1, <1>3, <1>5, TerminalCounts, Zenon
<1> QED  BY <1>6, <1>7, Zenon

\* Every step keeps the invariant.
LEMMA StepHolds == IInv /\ [Next]_vars => IInv' /\ (CInv => CInv')
<1> SUFFICES ASSUME IInv, [Next]_vars PROVE IInv' /\ (CInv => CInv')
  BY Zenon
<1>1. /\ buckets \in [Keys -> Buckets] /\ nextTicket \in Nat /\ now \in Nat /\ BucketsLive
  BY DEF IInv, StateOK
<1>2. ASSUME NEW s \in Streams, NEW k \in Keys, NEW delay \in Delays, NEW wait \in Waits,
             Acquire(s, k, delay, wait)
      PROVE  IInv' /\ (CInv => CInv')
  BY <1>2, AcquireHolds
<1>3. ASSUME NEW s \in Streams, WaitForTicket(s) PROVE IInv' /\ (CInv => CInv')
  BY <1>3, TurnHolds
<1>4. ASSUME NEW s \in Streams, CompletePermit(s) PROVE IInv' /\ (CInv => CInv')
  BY <1>4, CompleteHolds, Zenon DEF CompletePermit
<1>5. ASSUME NEW s \in Streams, NEW delay \in Delays, ExtendEligibleTime(s, delay) PROVE IInv' /\ (CInv => CInv')
  BY <1>5, ExtendHolds
<1>6. ASSUME NEW s \in Streams, NEW delay \in Delays, NEW wait \in Waits, Requeue(s, delay, wait)
      PROVE  IInv' /\ (CInv => CInv')
  BY <1>6, RequeueHolds
<1>7. ASSUME NEW s \in Streams, Drain(s) PROVE IInv' /\ (CInv => CInv')
  <2>1. permit[s] # None
    BY <1>7, Zenon DEF Drain, IInv, DrainsHold
  <2>2. call'[s].phase = "idle" /\ \A r \in Streams : r # s => call'[r] = call[r]
    BY <1>7, Zenon DEF Drain, Return, IInv, StateOK, NoCall
  <2> QED  BY <1>7, <2>1, <2>2, CompleteHolds, Zenon DEF Drain, Return
<1>8. CASE Close
  BY <1>8, CloseHolds
<1>9. CASE UNCHANGED <<nextTicket, terminal, buckets, call, permit, totalWaiters>> /\ now' \in Nat
  <2>1. IInv'
    BY <1>1, <1>9, ExtendsHolds DEF BucketsLive, Buckets
  <2>2. CInv => CInv'
    BY <1>1, <1>9, SameCounts, Zenon
  <2> QED  BY <2>1, <2>2
<1>10. ASSUME NEW s \in Streams, RequestCancellation(s) PROVE IInv' /\ (CInv => CInv')
  BY <1>1, <1>9, <1>10, Zenon DEF RequestCancellation
<1>11. CASE Tick
  BY <1>1, <1>9, <1>11 DEF Tick
<1>12. CASE UNCHANGED vars
  BY <1>1, <1>9, <1>12, Zenon DEF vars
<1> QED  BY <1>2, <1>3, <1>4, <1>5, <1>6, <1>7, <1>8, <1>10, <1>11, <1>12, Zenon DEF Next

\* The invariant of the coordinator.
THEOREM CoordinatorInvariant == Spec => []IInv
<1> QED  BY InitHolds, StepHolds, PTL DEF Spec

\* The counts at first.
LEMMA InitCounts == Init => CInv
<1> SUFFICES ASSUME Init PROVE CInv
  OBVIOUS
<1>1. WaitingStreams = {} /\ Permits = {}
  BY Zenon DEF Init, WaitingStreams, Permits, NoCall
<1>2. totalWaiters = Cardinality(WaitingStreams) + Cardinality(Permits) /\ totalWaiters <= TotalLimit
  BY <1>1, FS_EmptySet, NumbersAssumption DEF Init
<1>3. \A k \in Keys : buckets[k].tickets = {} /\ ~buckets[k].permitted
  BY Zenon DEF Init, NoBucket
<1>4. \A k \in Keys : KeyWaiters(buckets[k]) <= KeyLimit /\ IsFiniteSet(buckets[k].tickets)
  BY <1>3, FS_EmptySet, NumbersAssumption DEF KeyWaiters
<1> QED  BY <1>2, <1>4, Zenon DEF CInv, WaitersExact

\* The count that admission to the queues is checked against is exact, and within
\* the limits: one for each ticket a live call waits on and one for each permit.
THEOREM WaitersCounted == Spec => []WaitersExact
<1>1. CInv => WaitersExact
  BY Zenon DEF CInv
<1>2. IInv /\ CInv /\ [Next]_vars => CInv'
  BY StepHolds
<1> QED  BY <1>1, <1>2, InitCounts, CoordinatorInvariant, PTL DEF Spec

\* At most one stream holds the transport authority of a key, and the bucket of
\* the key is marked exactly while it does, through Requeue, Complete and Close.
THEOREM OneAuthority == Spec => []OnePermitPerKey
<1>1. IInv => OnePermitPerKey
  BY DEF IInv
<1> QED  BY <1>1, CoordinatorInvariant, PTL

-----------------------------------------------------------------------------

Grants(s) ==
    permit[s] = None /\ permit'[s] # None =>
        /\ \A r \in Streams :
             call[r].phase = "waiting" /\ call[r].key = permit'[s] =>
                call[s].ticket <= call[r].ticket /\ now >= call[r].eligible
        /\ now <= call[s].deadline

\* Only a turn grants a permit; its ticket is the first and the embargo of the
\* bucket, which is no shorter than any waiter's, is over.
LEMMA GrantOrdered == IInv /\ [Next]_vars => \A s \in Streams : Grants(s)
<1> SUFFICES ASSUME IInv, [Next]_vars, NEW s \in Streams, permit[s] = None, permit'[s] # None
             PROVE  /\ \A r \in Streams :
                         call[r].phase = "waiting" /\ call[r].key = permit'[s] =>
                            call[s].ticket <= call[r].ticket /\ now >= call[r].eligible
                    /\ now <= call[s].deadline
  BY Zenon DEF Grants
<1>1. permit \in [Streams -> Keys \cup {None}] /\ permit' # permit
  BY DEF IInv, StateOK
<1>2. ASSUME NEW q \in Streams PROVE permit' # [permit EXCEPT ![q] = None]
  BY <1>1, Zenon
<1>3. TurnGranted(s)
  <2>1. ASSUME NEW q \in Streams, NEW k \in Keys, NEW delay \in Delays, NEW wait \in Waits,
               Acquire(q, k, delay, wait)
        PROVE  FALSE
    BY <1>1, <2>1, Zenon DEF Acquire, AcquireRefused, AcquireSaturated, AcquireExhausted, AcquireQueued,
       AcquireThrows
  <2>2. ASSUME NEW q \in Streams, WaitForTicket(q) PROVE TurnGranted(s)
    <3>1. TurnGranted(q)
      BY <1>1, <2>2, Zenon DEF WaitForTicket, TurnClosed, TurnCancelled, TurnTimedOut, TurnWaits,
         TurnThrows, Leave
    <3>2. q = s
      BY <1>1, <3>1 DEF TurnGranted
    <3> QED  BY <3>1, <3>2, Zenon
  <2>3. ASSUME NEW q \in Streams, CompletePermit(q) \/ Drain(q) PROVE FALSE
    BY <1>2, <2>3, ZenonT(40) DEF CompletePermit, Drain
  <2>4. ASSUME NEW q \in Streams, NEW delay \in Delays, ExtendEligibleTime(q, delay) PROVE FALSE
    BY <1>1, <2>4, Zenon DEF ExtendEligibleTime
  <2>5. ASSUME NEW q \in Streams, NEW delay \in Delays, NEW wait \in Waits, Requeue(q, delay, wait)
        PROVE  FALSE
    BY <1>1, <1>2, <2>5, Zenon DEF Requeue, RequeueRefused, RequeueExhausted, Requeued, RequeueThrows
  <2>6. ASSUME Close \/ Tick \/ UNCHANGED vars \/ \E q \in Streams : RequestCancellation(q) PROVE FALSE
    BY <1>1, <2>6, Zenon DEF Close, Tick, vars, RequestCancellation
  <2> QED  BY <2>1, <2>2, <2>3, <2>4, <2>5, <2>6, Zenon DEF Next
<1>4. Open /\ permit'[s] = call[s].key /\ IsTurn(s)
  BY <1>1, <1>3, Zenon DEF TurnGranted, Gone
<1>5. now <= call[s].deadline
  BY <1>4, Zenon DEF IsTurn
<1>6. ASSUME NEW r \in Streams, call[r].phase = "waiting", call[r].key = permit'[s]
      PROVE  call[s].ticket <= call[r].ticket /\ now >= call[r].eligible
  <2>1. PICK b : b = buckets[call[s].key]
    BY Zenon
  <2>2. call[r].ticket \in b.tickets /\ call[r].eligible <= b.eligible /\ call[r].key \in Keys
    BY <1>4, <1>6, <2>1, Zenon DEF IInv, CallsQueued, Waiting
  <2>3. (\A t \in b.tickets : call[s].ticket <= t) /\ now >= b.eligible
    BY <1>4, <2>1, Zenon DEF IsTurn
  <2>4. now \in Nat /\ call[r].eligible \in Nat /\ b.eligible \in Nat
    BY <1>4, <1>6, <2>1, <2>2, Zenon DEF IInv, StateOK, Calls, Buckets
  <2> QED  BY <2>2, <2>3, <2>4
<1> QED  BY <1>5, <1>6, Zenon

\* A permit goes to the longest waiting stream of its key, after every eligible
\* time a waiter of the key was given and before the stream's own deadline.
THEOREM GrantsOrdered == Spec => GrantsInOrder
<1>1. IInv /\ [Next]_vars => [\A s \in Streams : Grants(s)]_vars
  BY GrantOrdered
<1>2. GrantsInOrder <=> [][\A s \in Streams : Grants(s)]_vars
  BY SMTT(30) DEF GrantsInOrder, Grants
<1> QED  BY <1>1, <1>2, CoordinatorInvariant, PTL DEF Spec

Truthful(s) ==
    call[s].phase # "idle" /\ call'[s].phase = "idle" =>
        (result' = [stream |-> s, status |-> "ACQUIRED"] <=> permit'[s] # None)

\* A call returns in one of its own steps: a turn, or the end of a refused Requeue.
LEMMA ReturnTruthful == IInv /\ [Next]_vars => \A s \in Streams : Truthful(s)
<1> SUFFICES ASSUME IInv, [Next]_vars, NEW s \in Streams,
                    call[s].phase # "idle", call'[s].phase = "idle"
             PROVE  result' = [stream |-> s, status |-> "ACQUIRED"] <=> permit'[s] # None
  BY Zenon DEF Truthful
<1>1. /\ call \in [Streams -> Calls] /\ permit \in [Streams -> Keys \cup {None}]
      /\ terminal \in Statuses
  BY Zenon DEF IInv, StateOK
<1>2. call'[s] # call[s]
  BY Zenon
<1>3. \/ WaitForTicket(s) /\ ~TurnWaits(s)
      \/ Drain(s)
  <2>1. ASSUME NEW q \in Streams, NEW w, call' = [call EXCEPT ![q] = w] PROVE q = s
    BY <1>1, <1>2, <2>1, Zenon
  <2>2. ~UNCHANGED call
    BY <1>2, Zenon
  <2>3. ASSUME NEW q \in Streams, NEW k \in Keys, NEW delay \in Delays, NEW wait \in Waits,
               Acquire(q, k, delay, wait)
        PROVE  FALSE
    <3>1. q = s /\ call[q].phase = "idle"
      BY <2>1, <2>2, <2>3, Zenon DEF Acquire, AcquireRefused, AcquireSaturated, AcquireExhausted,
         AcquireQueued, AcquireThrows, Proceed, Enter
    <3> QED  BY <3>1, Zenon
  <2>4. ASSUME NEW q \in Streams, NEW delay \in Delays, NEW wait \in Waits, Requeue(q, delay, wait)
        PROVE  FALSE
    <3>1. q = s /\ call[q].phase = "idle"
      BY <2>1, <2>2, <2>4, Zenon DEF Requeue, RequeueRefused, RequeueExhausted, Requeued, RequeueThrows,
         EnterRequeue, Draining
    <3> QED  BY <3>1, Zenon
  <2>5. ASSUME NEW q \in Streams, WaitForTicket(q) PROVE q = s /\ ~TurnWaits(q)
    BY <2>1, <2>2, <2>5, Zenon DEF WaitForTicket, TurnClosed, TurnCancelled, TurnGranted, TurnTimedOut,
       TurnWaits, TurnThrows, Leave, Return
  <2>6. ASSUME NEW q \in Streams, Drain(q) PROVE q = s
    BY <2>1, <2>6, Zenon DEF Drain, Return
  <2> QED  BY <2>2, <2>3, <2>4, <2>5, <2>6, Zenon DEF Next, vars, CompletePermit, ExtendEligibleTime, Close,
           RequestCancellation, Tick
<1>4. CASE Drain(s)
  <2>1. call[s].status # "ACQUIRED" /\ permit'[s] = None
    BY <1>1, <1>4, Zenon DEF Drain, IInv, DrainsHold
  <2>2. result' = [stream |-> s, status |-> call[s].status]
    BY <1>4, Zenon DEF Drain, Return
  <2> QED  BY <2>1, <2>2, Zenon
<1>5. CASE WaitForTicket(s) /\ ~TurnWaits(s)
  <2>1. Waiting(s) /\ permit[s] = None /\ call[s].key \in Keys /\ call[s].key # None
    BY <1>5, SetsAssumption, Zenon DEF WaitForTicket, TurnClosed, TurnCancelled, TurnGranted, TurnTimedOut,
       TurnThrows, MayTurn, Waiting, IInv, CallsQueued
  <2>2. CASE TurnGranted(s)
    <3>1. permit'[s] # None
      BY <1>1, <2>1, <2>2 DEF TurnGranted
    <3>2. result' = [stream |-> s, status |-> "ACQUIRED"]
      BY <2>2, Zenon DEF TurnGranted, Return
    <3> QED  BY <3>1, <3>2, Zenon
  <2>3. CASE ~TurnGranted(s)
    <3>1. permit'[s] = None
      BY <1>5, <2>1, <2>3, ZenonT(40) DEF WaitForTicket, TurnClosed, TurnCancelled, TurnTimedOut,
         TurnThrows, Leave
    <3>2. PICK status : status # "ACQUIRED" /\ result' = [stream |-> s, status |-> status]
      BY <1>5, <2>3, Zenon DEF WaitForTicket, TurnClosed, TurnCancelled, TurnTimedOut, TurnThrows, Leave,
         Return, Open
    <3> QED  BY <3>1, <3>2, Zenon
  <2> QED  BY <2>2, <2>3, Zenon
<1> QED  BY <1>3, <1>4, <1>5, Zenon

\* Acquire and Requeue report success exactly when they leave the stream with a
\* permit.
THEOREM ReturnsTruthful == Spec => ReturnIsTruthful
<1>1. IInv /\ [Next]_vars => [\A s \in Streams : Truthful(s)]_vars
  BY ReturnTruthful
<1>2. ReturnIsTruthful <=> [][\A s \in Streams : Truthful(s)]_vars
  BY DEF ReturnIsTruthful, Truthful
<1> QED  BY <1>1, <1>2, CoordinatorInvariant, PTL DEF Spec

-----------------------------------------------------------------------------
(* The coordinator implements one lock for each key.                       *)

\* Who is in line, and who before whom.
LEMMA InLineFacts ==
    ASSUME NEW s \in Streams
    PROVE  /\ s \in WaitingStreams <=> Open /\ Waiting(s)
           /\ s \in WaitingStreams => /\ Wanted[s].key = call[s].key /\ Wanted[s].from = call[s].eligible
                                      /\ Wanted[s].until = call[s].deadline
           /\ s \notin WaitingStreams => Wanted[s] = Locks!Nothing /\ Wanted[s].key = None
BY Zenon DEF WaitingStreams, Wanted, Waiting, Locks!Nothing

\* The line of a key.
LEMMA InLineOfKey ==
    ASSUME NEW k \in Keys
    PROVE  Locks!InLine(k) = {s \in WaitingStreams : call[s].key = k}
<1>1. ASSUME NEW s \in Streams PROVE Wanted[s].key = k <=> s \in WaitingStreams /\ call[s].key = k
  BY InLineFacts, SetsAssumption, Zenon
<1>2. WaitingStreams \subseteq Streams
  BY DEF WaitingStreams
<1> QED  BY <1>1, <1>2, Zenon DEF Locks!InLine

\* Two streams in line.
LEMMA InOrderFacts ==
    /\ \A a, b : <<a, b>> \in InOrder <=> /\ a \in WaitingStreams /\ b \in WaitingStreams
                                           /\ call[a].key = call[b].key /\ call[a].ticket < call[b].ticket
    /\ \A pair \in InOrder : pair = <<pair[1], pair[2]>> /\ pair[1] \in Streams /\ pair[2] \in Streams
BY DEF InOrder, WaitingStreams

\* A step that leaves the waiting calls alone leaves the lines alone.
LEMMA LinesKept ==
    ASSUME Open' <=> Open,
           \A s \in Streams : Open => (Waiting(s)' <=> Waiting(s)) /\ (Waiting(s) => call'[s] = call[s])
    PROVE  Wanted' = Wanted /\ InOrder' = InOrder
<1>1. WaitingStreams' = WaitingStreams
  BY Zenon DEF WaitingStreams, Waiting
<1>2. \A s \in WaitingStreams : call'[s] = call[s]
  BY Zenon DEF WaitingStreams, Waiting
<1>3. Wanted' = Wanted
  BY Zenon DEF Wanted, Waiting
<1>4. InOrder' = InOrder
  BY <1>1, <1>2, Zenon DEF InOrder
<1> QED  BY <1>3, <1>4

\* Closing sends everybody away.
LEMMA LinesClosed ==
    ASSUME ~Open' PROVE Wanted' = [s \in Streams |-> Locks!Nothing] /\ InOrder' = {}
<1>1. WaitingStreams' = {}
  BY Zenon DEF WaitingStreams
<1>2. Wanted' = [s \in Streams |-> Locks!Nothing]
  BY <1>1, Zenon DEF Wanted, Locks!Nothing
<1>3. InOrder' = {}
  BY <1>1, Zenon DEF InOrder
<1> QED  BY <1>2, <1>3

\* A stream that gets the next ticket is last in line: every other ticket is smaller.
LEMMA LineJoined ==
    ASSUME IInv, NEW s \in Streams, NEW k \in Keys, NEW e \in Nat, NEW d \in Nat,
           Open, Open', ~Waiting(s), call' = [call EXCEPT ![s] = Waiter(k, nextTicket, e, d)]
    PROVE  /\ Wanted[s] = Locks!Nothing
           /\ Wanted'[s].key = k
           /\ Wanted' = [Wanted EXCEPT ![s] = Wanted'[s]]
           /\ InOrder' = InOrder \cup (Locks!InLine(k) \X {s})
<1>1. call \in [Streams -> Calls] /\ nextTicket \in Nat
  BY Zenon DEF IInv, StateOK
<1>2. /\ \A r \in Streams : r # s => call'[r] = call[r]
      /\ call'[s].phase = "waiting" /\ call'[s].key = k /\ call'[s].ticket = nextTicket
  BY <1>1, WaiterFacts
<1>3. s \notin WaitingStreams /\ WaitingStreams' = WaitingStreams \cup {s}
  BY <1>2, Zenon DEF WaitingStreams, Waiting
<1>4. Wanted[s] = Locks!Nothing
  BY <1>3, InLineFacts, Zenon
<1>5. Wanted'[s].key = k
  BY <1>2, <1>3, Zenon DEF Wanted
<1>6. Wanted' = [Wanted EXCEPT ![s] = Wanted'[s]]
  <2>1. ASSUME NEW r \in Streams, r # s PROVE Wanted'[r] = Wanted[r]
    BY <1>2, <1>3, <2>1, Zenon DEF Wanted
  <2>2. Wanted = [r \in Streams |-> Wanted[r]] /\ Wanted' = [r \in Streams |-> Wanted'[r]]
    BY Zenon DEF Wanted
  <2> QED  BY <2>1, <2>2, Zenon
<1>7. \A r \in WaitingStreams : r # s /\ call[r].ticket \in Nat /\ call[r].ticket < nextTicket
  BY <1>1, <1>3, Zenon DEF IInv, CallsQueued, WaitingStreams, Waiting, Calls
<1>8. ASSUME NEW a, NEW b
      PROVE  <<a, b>> \in InOrder' <=> <<a, b>> \in InOrder \/ <<a, b>> \in Locks!InLine(k) \X {s}
  <2>1. <<a, b>> \in InOrder' <=> /\ a \in WaitingStreams \cup {s} /\ b \in WaitingStreams \cup {s}
                                  /\ call'[a].key = call'[b].key /\ call'[a].ticket < call'[b].ticket
    BY <1>3, Zenon DEF InOrder
  <2>2. <<a, b>> \in Locks!InLine(k) \X {s} <=> a \in WaitingStreams /\ call[a].key = k /\ b = s
    BY InLineOfKey
  <2>3. WaitingStreams \subseteq Streams
    BY DEF WaitingStreams
  <2> QED  BY <1>1, <1>2, <1>7, <2>1, <2>2, <2>3, InOrderFacts
<1>9. InOrder' = InOrder \cup (Locks!InLine(k) \X {s})
  <2>1. \A pair \in InOrder' : pair = <<pair[1], pair[2]>>
    BY DEF InOrder
  <2> QED  BY <1>8, <2>1, InOrderFacts
<1> QED  BY <1>4, <1>5, <1>6, <1>9

\* A stream that stops waiting leaves the line, and nothing else moves.
LEMMA LineLeft ==
    ASSUME IInv, NEW s \in Streams, Open, Open', Waiting(s), call' = [call EXCEPT ![s] = NoCall]
    PROVE  /\ Wanted[s].key \in Keys
           /\ Wanted' = [Wanted EXCEPT ![s] = Locks!Nothing]
           /\ InOrder' = {pair \in InOrder : s \notin {pair[1], pair[2]}}
<1>1. call \in [Streams -> Calls]
  BY Zenon DEF IInv, StateOK
<1>2. (\A r \in Streams : r # s => call'[r] = call[r]) /\ call'[s].phase = "idle"
  BY <1>1, Zenon DEF NoCall
<1>3. s \in WaitingStreams /\ WaitingStreams' = WaitingStreams \ {s} /\ WaitingStreams \subseteq Streams
  BY <1>2 DEF WaitingStreams, Waiting
<1>4. Wanted[s].key \in Keys
  BY <1>3, InLineFacts, Zenon DEF IInv, CallsQueued
<1>5. Wanted' = [Wanted EXCEPT ![s] = Locks!Nothing]
  <2>1. ASSUME NEW r \in Streams, r # s PROVE Wanted'[r] = Wanted[r]
    BY <1>2, <1>3, <2>1, Zenon DEF Wanted
  <2>2. Wanted'[s] = Locks!Nothing
    BY <1>2, Zenon DEF Wanted, Locks!Nothing
  <2>3. Wanted = [r \in Streams |-> Wanted[r]] /\ Wanted' = [r \in Streams |-> Wanted'[r]]
    BY Zenon DEF Wanted
  <2> QED  BY <2>1, <2>2, <2>3, Zenon
<1>6. ASSUME NEW a, NEW b PROVE <<a, b>> \in InOrder' <=> <<a, b>> \in InOrder /\ s # a /\ s # b
  <2>1. <<a, b>> \in InOrder' <=> /\ a \in WaitingStreams \ {s} /\ b \in WaitingStreams \ {s}
                                  /\ call'[a].key = call'[b].key /\ call'[a].ticket < call'[b].ticket
    BY <1>3, Zenon DEF InOrder
  <2> QED  BY <1>2, <1>3, <2>1, InOrderFacts, Zenon
<1>7. InOrder' = {pair \in InOrder : s \notin {pair[1], pair[2]}}
  <2>1. \A pair \in InOrder' : pair = <<pair[1], pair[2]>>
    BY DEF InOrder
  <2> QED  BY <1>6, <2>1, InOrderFacts
<1> QED  BY <1>4, <1>5, <1>7

LockStep == [Locks!Next]_(Locks!lockVars)

\* A step that moves neither a waiting call nor a permit is not seen.
LEMMA UnseenRefines ==
    ASSUME UNCHANGED <<now, terminal, permit>>,
           \A s \in Streams : Open => (Waiting(s)' <=> Waiting(s)) /\ (Waiting(s) => call'[s] = call[s])
    PROVE  LockStep
<1>1. Open' = Open
  BY Zenon DEF Open
<1>2. Wanted' = Wanted /\ InOrder' = InOrder
  BY <1>1, LinesKept, Zenon
<1> QED  BY <1>1, <1>2 DEF LockStep, Locks!lockVars

\* Entering a terminal state closes the lines.
LEMMA CloseRefines ==
    ASSUME Open, terminal' # "ACQUIRED", UNCHANGED <<now, permit>>
    PROVE  LockStep
<1>1. ~Open' /\ Open' = FALSE
  BY DEF Open
<1>2. Wanted' = [s \in Streams |-> Locks!Nothing] /\ InOrder' = {}
  BY <1>1, LinesClosed
<1>3. Locks!Close
  BY <1>1, <1>2 DEF Locks!Close
<1> QED  BY <1>3, Zenon DEF LockStep, Locks!Next

\* Acquire asks for the lock, closes the coordinator or leaves it as it is.
LEMMA AcquireRefines ==
    ASSUME IInv, NEW s \in Streams, NEW k \in Keys, NEW delay \in Delays, NEW wait \in Waits,
           Acquire(s, k, delay, wait)
    PROVE  LockStep
<1>1. CASE AcquireRefused(s, k, delay, wait)
  BY <1>1, UnseenRefines, Zenon DEF AcquireRefused, Waiting
<1>2. CASE AcquireSaturated(s, k, delay, wait)
  BY <1>2, UnseenRefines, Zenon DEF AcquireSaturated, Waiting
<1>3. CASE AcquireExhausted(s, k, delay, wait)
  <2>1. Open /\ terminal' # "ACQUIRED" /\ UNCHANGED <<now, permit>>
    BY <1>3, Zenon DEF AcquireExhausted, Proceed, EnterTerminal
  <2> QED  BY <2>1, CloseRefines
<1>4. CASE AcquireQueued(s, k, delay, wait)
  <2>1. /\ Open /\ call[s].phase = "idle" /\ permit[s] = None /\ UNCHANGED <<now, terminal, permit>>
        /\ call' = [call EXCEPT ![s] = Waiter(k, nextTicket, now + delay, now + wait)]
    BY <1>4, Zenon DEF AcquireQueued, Proceed, Enter
  <2>2. Open' = Open /\ ~Waiting(s) /\ now + delay \in Nat /\ now + wait \in Nat
    BY <2>1, NumbersAssumption DEF Open, Waiting, IInv, StateOK
  <2>3. /\ Wanted[s] = Locks!Nothing /\ Wanted'[s].key = k
        /\ Wanted' = [Wanted EXCEPT ![s] = Wanted'[s]]
        /\ InOrder' = InOrder \cup (Locks!InLine(k) \X {s})
    BY <2>1, <2>2, LineJoined, Zenon
  <2>4. Locks!Ask(s, Wanted'[s])
    BY <2>1, <2>2, <2>3, Zenon DEF Locks!Ask, Locks!Queue
  <2> QED  BY <2>4, Zenon DEF LockStep, Locks!Next
<1>5. CASE AcquireThrows(s, k, delay, wait)
  BY <1>5, UnseenRefines, Zenon DEF AcquireThrows, Waiting
<1> QED  BY <1>1, <1>2, <1>3, <1>4, <1>5, Zenon DEF Acquire

\* A ticket in the map of an open coordinator is not gone.
LEMMA NotGone ==
    ASSUME IInv, NEW s \in Streams, Waiting(s), Open PROVE ~Gone(call[s].key)
<1>1. call[s].key \in Keys /\ buckets[call[s].key].tickets # {}
  BY Zenon DEF IInv, CallsQueued
<1> QED  BY <1>1, Zenon DEF IInv, BucketsLive, Gone

\* A turn takes the lock, gives up or changes no line.
LEMMA TurnRefines ==
    ASSUME IInv, [Next]_vars, NEW s \in Streams, WaitForTicket(s)
    PROVE  LockStep
<1>1. CASE TurnClosed(s)
  <2>1. ~Open /\ UNCHANGED <<now, terminal, permit>>
    BY <1>1, NotGone, Zenon DEF TurnClosed, MayTurn, Waiting
  <2> QED  BY <2>1, UnseenRefines, Zenon
<1>2. CASE TurnWaits(s)
  BY <1>2, UnseenRefines, Zenon DEF TurnWaits, Waiting
<1>3. ASSUME Waiting(s), Open, Leave(s, "CANCELLED") \/ Leave(s, "DEADLINE_REACHED") \/ Leave(s, "THREW")
      PROVE  LockStep
  <2>1. UNCHANGED <<now, terminal, permit>> /\ call' = [call EXCEPT ![s] = NoCall]
    BY <1>3, Zenon DEF Leave, Return
  <2>2. Open' = Open
    BY <2>1 DEF Open
  <2>3. /\ Wanted[s].key \in Keys
        /\ Wanted' = [Wanted EXCEPT ![s] = Locks!Nothing]
        /\ InOrder' = {pair \in InOrder : s \notin {pair[1], pair[2]}}
    BY <1>3, <2>1, <2>2, LineLeft, Zenon
  <2>4. Wanted[s] # Locks!Nothing
    BY <2>3, SetsAssumption DEF Locks!Nothing
  <2>5. Locks!GiveUp(s)
    BY <2>1, <2>2, <2>3, <2>4, Zenon DEF Locks!GiveUp, Locks!Leave
  <2> QED  BY <2>5, Zenon DEF LockStep, Locks!Next
<1>4. CASE TurnGranted(s)
  <2> DEFINE k == call[s].key
  <2>1. /\ Waiting(s) /\ Open /\ UNCHANGED <<now, terminal>> /\ call' = [call EXCEPT ![s] = NoCall]
        /\ permit' = [permit EXCEPT ![s] = k] /\ ~buckets[k].permitted
    BY <1>4, Zenon DEF TurnGranted, MayTurn, Waiting, Gone, Return, IsTurn
  <2>2. Open' = Open
    BY <2>1, Zenon DEF Open
  <2>3. /\ Wanted[s].key \in Keys
        /\ Wanted' = [Wanted EXCEPT ![s] = Locks!Nothing]
        /\ InOrder' = {pair \in InOrder : s \notin {pair[1], pair[2]}}
    BY <2>1, <2>2, LineLeft, Zenon
  <2>4. s \in WaitingStreams /\ Wanted[s].key = k /\ Wanted[s].until = call[s].deadline
    BY <2>1, InLineFacts, Zenon
  <2>5. permit[s] = None /\ permit'[s] = k /\ k \in Keys /\ k # None
    BY <2>1, <2>3, <2>4, SetsAssumption, Zenon DEF IInv, StateOK, CallsQueued
  <2>6. /\ now <= call[s].deadline
        /\ \A r \in Streams : Waiting(r) /\ call[r].key = k =>
                call[s].ticket <= call[r].ticket /\ now >= call[r].eligible
    BY <2>5, GrantOrdered, Zenon DEF Grants, Waiting
  <2>7. s \in Locks!InLine(k)
    BY <2>4, <2>5, InLineOfKey, Zenon
  <2>8. ASSUME NEW r \in Streams PROVE permit[r] # k /\ <<r, s>> \notin InOrder
    <3>1. permit[r] # k
      BY <2>1, <2>5, Zenon DEF IInv, OnePermitPerKey
    <3>2. call[r].ticket \in Nat /\ call[s].ticket \in Nat
      BY Zenon DEF IInv, StateOK, Calls
    <3>3. <<r, s>> \in InOrder => Waiting(r) /\ call[r].key = k /\ call[r].ticket < call[s].ticket
      BY InOrderFacts, InLineFacts, Zenon
    <3> QED  BY <2>6, <3>1, <3>2, <3>3
  <2>9. ASSUME NEW r \in Locks!InLine(k) PROVE Wanted[r].from <= now
    <3>1. r \in Streams /\ r \in WaitingStreams /\ call[r].key = k
      BY <2>5, InLineOfKey, Zenon DEF WaitingStreams
    <3>2. Wanted[r].from = call[r].eligible /\ Waiting(r)
      BY <3>1, InLineFacts, Zenon
    <3>3. now \in Nat /\ call[r].eligible \in Nat
      BY <3>1, Zenon DEF IInv, StateOK, Calls
    <3> QED  BY <2>6, <3>1, <3>2, <3>3, Zenon
  <2>10. now <= Wanted[s].until
    BY <2>4, <2>6, Zenon
  <2> HIDE DEF k
  <2>11. Locks!Leave(s)
    BY <2>1, <2>2, <2>3, Zenon DEF Locks!Leave
  <2>12. Locks!Take(s, k)
    BY <2>1, <2>7, <2>8, <2>9, <2>10, <2>11, Zenon DEF Locks!Take
  <2> QED  BY <2>5, <2>12, Zenon DEF LockStep, Locks!Next
<1>5. CASE TurnCancelled(s) \/ TurnTimedOut(s) \/ TurnThrows(s)
  BY <1>3, <1>5, Zenon DEF TurnCancelled, TurnTimedOut, TurnThrows, MayTurn, Waiting, Gone
<1> QED  BY <1>1, <1>2, <1>4, <1>5 DEF WaitForTicket

\* A permit that is completed is a lock that is released.
LEMMA ReleaseRefines ==
    ASSUME IInv, NEW s \in Streams, CompletePermit(s) \/ Drain(s)
    PROVE  LockStep
<1>1. /\ permit[s] # None /\ permit' = [permit EXCEPT ![s] = None] /\ UNCHANGED <<now, terminal>>
      /\ call[s].phase # "waiting" /\ (call' = call \/ call' = [call EXCEPT ![s] = NoCall])
  BY Zenon DEF CompletePermit, Drain, Return, IInv, DrainsHold
<1>2. Open' = Open
  BY <1>1 DEF Open
<1>3. ASSUME NEW r \in Streams PROVE (Waiting(r)' <=> Waiting(r)) /\ (Waiting(r) => call'[r] = call[r])
  BY <1>1 DEF Waiting, NoCall, IInv, StateOK
<1>4. Wanted' = Wanted /\ InOrder' = InOrder
  BY <1>2, <1>3, LinesKept, Zenon
<1>5. Locks!Release(s)
  BY <1>1, <1>2, <1>4, Zenon DEF Locks!Release
<1> QED  BY <1>5, Zenon DEF LockStep, Locks!Next

\* Requeue puts the stream back at the end of the line, closes or is not seen.
LEMMA RequeueRefines ==
    ASSUME IInv, NEW s \in Streams, NEW delay \in Delays, NEW wait \in Waits, Requeue(s, delay, wait)
    PROVE  LockStep
<1>1. CASE RequeueRefused(s, delay, wait)
  <2>1. /\ call[s].phase = "idle" /\ UNCHANGED <<now, terminal, permit>>
        /\ \E status : call' = [call EXCEPT ![s] = [NoCall EXCEPT !.phase = "draining", !.status = status]]
    BY <1>1, Zenon DEF RequeueRefused, EnterRequeue, Draining
  <2>2. ASSUME NEW r \in Streams PROVE (Waiting(r)' <=> Waiting(r)) /\ (Waiting(r) => call'[r] = call[r])
    BY <2>1 DEF Waiting, NoCall, IInv, StateOK
  <2> QED  BY <2>1, <2>2, UnseenRefines, Zenon
<1>2. CASE RequeueExhausted(s, delay, wait)
  <2>1. Open /\ terminal' # "ACQUIRED" /\ UNCHANGED <<now, permit>>
    BY <1>2, Zenon DEF RequeueExhausted, EnterTerminal
  <2> QED  BY <2>1, CloseRefines
<1>3. CASE Requeued(s, delay, wait)
  <2> DEFINE k == permit[s]
  <2>1. /\ Open /\ call[s].phase = "idle" /\ k # None /\ UNCHANGED <<now, terminal>>
        /\ permit' = [permit EXCEPT ![s] = None]
        /\ call' = [call EXCEPT ![s] = Waiter(k, nextTicket, now + delay, now + wait)]
    BY <1>3, Zenon DEF Requeued, EnterRequeue
  <2>2. Open' = Open /\ ~Waiting(s) /\ now + delay \in Nat /\ now + wait \in Nat /\ k \in Keys
    BY <2>1, NumbersAssumption DEF Open, Waiting, IInv, StateOK
  <2>3. /\ Wanted[s] = Locks!Nothing /\ Wanted'[s].key = k
        /\ Wanted' = [Wanted EXCEPT ![s] = Wanted'[s]]
        /\ InOrder' = InOrder \cup (Locks!InLine(k) \X {s})
    BY <2>1, <2>2, LineJoined, Zenon
  <2>4. Locks!AskAgain(s, Wanted'[s])
    BY <2>1, <2>2, <2>3, Zenon DEF Locks!AskAgain, Locks!Queue
  <2> QED  BY <2>4, Zenon DEF LockStep, Locks!Next
<1>4. CASE RequeueThrows(s, delay, wait)
  BY <1>4, UnseenRefines, Zenon DEF RequeueThrows, Waiting
<1> QED  BY <1>1, <1>2, <1>3, <1>4, Zenon DEF Requeue

\* Every step of the coordinator is a step of the locks, or is not seen.
LEMMA NextRefines == IInv /\ [Next]_vars => LockStep
<1> SUFFICES ASSUME IInv, [Next]_vars PROVE LockStep
  BY Zenon
<1>1. CASE Close
  <2>1. Open /\ terminal' # "ACQUIRED" /\ UNCHANGED <<now, permit>>
    BY <1>1, Zenon DEF Close, EnterTerminal
  <2> QED  BY <2>1, CloseRefines
<1>2. CASE Tick
  <2>1. now' > now /\ UNCHANGED <<terminal, call, permit>>
    BY <1>2 DEF Tick, IInv, StateOK
  <2>2. Open' = Open
    BY <2>1 DEF Open
  <2>3. Wanted' = Wanted /\ InOrder' = InOrder
    BY <2>1, <2>2, LinesKept, Zenon DEF Waiting
  <2>4. Locks!Tick
    BY <2>1, <2>2, <2>3, Zenon DEF Locks!Tick
  <2> QED  BY <2>4 DEF LockStep, Locks!Next
<1>3. ASSUME NEW s \in Streams, RequestCancellation(s) PROVE LockStep
  BY <1>3, UnseenRefines, Zenon DEF RequestCancellation, Waiting
<1>4. ASSUME NEW s \in Streams, NEW delay \in Delays, ExtendEligibleTime(s, delay) PROVE LockStep
  BY <1>4, UnseenRefines, Zenon DEF ExtendEligibleTime, Waiting
<1>5. CASE UNCHANGED vars
  BY <1>5, UnseenRefines, Zenon DEF vars, Waiting
<1> QED  BY <1>1, <1>2, <1>3, <1>4, <1>5, AcquireRefines, TurnRefines, ReleaseRefines, RequeueRefines,
            Zenon DEF Next

\* The coordinator with its buckets, tickets and counters implements one lock
\* for each quota key, which streams get in the order in which they asked for
\* it (Acquire, WaitForTicket, Requeue, Complete, Close).
THEOREM CoordinatorImplementsLocks == Spec => ImplementsLocks
<1>1. Init => Locks!Init
  <2> SUFFICES ASSUME Init PROVE Locks!Init
    OBVIOUS
  <2>1. WaitingStreams = {} /\ Open /\ \A s \in Streams : call[s].phase = "idle"
    BY Zenon DEF Init, WaitingStreams, Open, NoCall
  <2>2. Wanted = [s \in Streams |-> Locks!Nothing] /\ InOrder = {}
    BY <2>1, Zenon DEF Wanted, InOrder, Locks!Nothing
  <2> QED  BY <2>1, <2>2, Zenon DEF Init, Locks!Init
<1>2. IInv /\ [Next]_vars => [Locks!Next]_(Locks!lockVars)
  BY NextRefines DEF LockStep
<1> QED  BY <1>1, <1>2, CoordinatorInvariant, PTL DEF Spec, ImplementsLocks, Locks!Spec
=============================================================================
