----------------------- MODULE MCRateLimitCoordinator -----------------------
(* Streams of one executor that met rate-limited responses, with a history *)
(* of the latest eligible time any response gave for each key.             *)
EXTENDS RateLimitCoordinator

VARIABLE promised

HInit == Init /\ promised = [k \in Keys |-> 0]

\* A response joins the queue of its key with an eligible time.
Promised(k) ==
    {call'[s].eligible : s \in {r \in Streams : call'[r].phase = "waiting" /\ call'[r].key = k}}

HNext ==
    /\ Next
    /\ promised' = [k \in Keys |->
                      CHOOSE t \in {promised[k]} \cup Promised(k) :
                         \A u \in {promised[k]} \cup Promised(k) : u <= t]

HSpec == HInit /\ [][HNext]_<<vars, promised>>

\* "A later response may extend but never shorten the key's embargo": a permit
\* is never granted before the latest eligible time a queued response gave for
\* the key, whether or not the stream that received it is still waiting.
EmbargoNeverShortened ==
    [][\A s \in Streams :
         permit[s] = None /\ permit'[s] # None => now >= promised[permit'[s]]]_<<vars, promised>>

=============================================================================
