------------------------------ MODULE QuotaLocks ------------------------------
(***************************************************************************)
(* What the rate-limit coordinator promises the streams that share it,     *)
(* with no bucket, ticket, counter or condition variable in it: one lock   *)
(* for each quota key, given in the order in which streams asked for it,   *)
(* never before the time that anybody still waiting was told to wait for,  *)
(* and never after the deadline of the stream that gets it.  A stream may  *)
(* give up, or put itself back at the end of the line.  Once closed, the   *)
(* locks that are out come back and no other is given.                     *)
(***************************************************************************)
EXTENDS Naturals

CONSTANTS Streams, Keys, None

VARIABLES
    now,
    open,
    wants,   \* [Streams -> requests]: what each stream is in line for
    ahead,   \* the pairs of streams in line for one key, the earlier one first
    owns     \* [Streams -> Keys \cup {None}]: the key each stream has the lock of

lockVars == <<now, open, wants, ahead, owns>>

\* A request is for a key, not before one time and not after another.
Nothing == [key |-> None, from |-> 0, until |-> 0]

InLine(k) == {s \in Streams : wants[s].key = k}

Init ==
    /\ now = 0
    /\ open = TRUE
    /\ wants = [s \in Streams |-> Nothing]
    /\ ahead = {}
    /\ owns = [s \in Streams |-> None]

\* s goes to the end of the line for the key of its request.
Queue(s, request) ==
    /\ open
    /\ wants[s] = Nothing /\ request.key \in Keys
    /\ wants' = [wants EXCEPT ![s] = request]
    /\ ahead' = ahead \cup (InLine(request.key) \X {s})
    /\ UNCHANGED <<now, open>>

\* s leaves the line, and everybody behind it moves up.
Leave(s) ==
    /\ wants' = [wants EXCEPT ![s] = Nothing]
    /\ ahead' = {pair \in ahead : s \notin {pair[1], pair[2]}}
    /\ UNCHANGED <<now, open>>

Ask(s, request) ==
    /\ owns[s] = None
    /\ Queue(s, request)
    /\ UNCHANGED owns

GiveUp(s) == wants[s] # Nothing /\ Leave(s) /\ UNCHANGED owns

Take(s, k) ==
    /\ open /\ s \in InLine(k)
    /\ \A r \in Streams : owns[r] # k /\ <<r, s>> \notin ahead
    /\ \A r \in InLine(k) : wants[r].from <= now
    /\ now <= wants[s].until
    /\ Leave(s)
    /\ owns' = [owns EXCEPT ![s] = k]

Release(s) ==
    /\ owns[s] # None
    /\ owns' = [owns EXCEPT ![s] = None]
    /\ UNCHANGED <<now, open, wants, ahead>>

\* The lock is given back and asked for again, with nobody in between.
AskAgain(s, request) ==
    /\ owns[s] # None /\ request.key = owns[s]
    /\ Queue(s, request)
    /\ owns' = [owns EXCEPT ![s] = None]

\* The lines are sent away; locks that are out stay out.
Close ==
    /\ open /\ open' = FALSE
    /\ wants' = [s \in Streams |-> Nothing]
    /\ ahead' = {}
    /\ UNCHANGED <<now, owns>>

Tick == now' > now /\ UNCHANGED <<open, wants, ahead, owns>>

Next ==
    \/ \E s \in Streams : \E request \in {wants'[s]} : Ask(s, request) \/ AskAgain(s, request)
    \/ \E s \in Streams, k \in Keys : Take(s, k)
    \/ \E s \in Streams : GiveUp(s) \/ Release(s)
    \/ Close
    \/ Tick

Spec == Init /\ [][Next]_lockVars
================================================================================
