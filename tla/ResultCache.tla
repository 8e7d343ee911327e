---------------------------- MODULE ResultCache ----------------------------
(***************************************************************************)
(* The complete-scan result cache of an executor and the cached streams    *)
(* that use it.  A stream looks its key up when it is opened and then      *)
(* replays a fresh entry, accumulates a candidate while it passes a remote *)
(* scan on, or holds a stale entry behind a barrier while the scan is      *)
(* repeated.  An entry is shared by the map and the streams replaying it   *)
(* and keeps its admission charge until the last of them lets it go.       *)
(*                                                                         *)
(* Each stream is owned by one task; the map is guarded by its mutex, so   *)
(* lookup, publication and close are single steps.  The wrapped stream is  *)
(* any stream that yields batches in order, ends, fails or is cancelled.   *)
(* Batch i of the scan of stream s is <<s, i>>; a stream publishes at most *)
(* once, so an entry is named by the stream that scanned it.               *)
(***************************************************************************)
EXTENDS Integers, Sequences, FiniteSets, FiniteSetsExt, Functions

CONSTANTS
    Streams, Keys,
    FreshTime, StaleTime,       \* the windows of the freshness policy
    MaxEntries, MaxBytes,       \* the limits of the map
    MaxEntryBytes,              \* and of one entry or candidate
    ResidentLimit,              \* the admission limit of cache-resident bytes
    BatchSizes, MaxBatches, MaxTime,    \* bounds of the model
    Failures,                   \* how a remote scan may fail
    Nobody

ASSUME KnownFailures == Failures \subseteq {"transient", "gateway", "rate_limit", "status", "decode"}

ASSUME LimitsAssumption ==
    /\ {MaxEntries, MaxBytes, MaxEntryBytes} \subseteq Nat \ {0}
    /\ ResidentLimit \in Nat /\ BatchSizes \subseteq Nat

ASSUME FiniteAssumption == IsFiniteSet(Streams) /\ IsFiniteSet(Keys)

ASSUME NamesAssumption == Nobody \notin Streams

VARIABLES
    cache,      \* [map, order, bytes, closed]
    entry,      \* entry[s]: the immutable entry stream s published
    streams,
    now         \* the monotonic cache clock

vars == <<cache, entry, streams, now>>

Policies == {"FRESH", "STALE_IF_ERROR"}

\* The stage of the ExecutionError a remote scan ends with.
Stage(f) ==
    IF f = "transient" THEN "TRANSPORT" ELSE IF f = "decode" THEN "DECODE" ELSE "HTTP_STATUS"

NoEntry == [batches |-> <<>>, stored |-> 0, size |-> 0, permit |-> 0, order |-> 0]

NoBatch == <<Nobody, 0>>

NewStream ==
    [mode |-> "UNOPENED", key |-> Nobody,
     batches |-> <<>>, size |-> 0, permit |-> 0, cacheable |-> TRUE,
     replay |-> Nobody, stale |-> Nobody, index |-> 0, pending |-> NoBatch,
     status |-> "MISS", cause |-> "none", age |-> 0, outcome |-> "OPEN", pulling |-> FALSE,
     produced |-> 0, ended |-> FALSE, delivered |-> <<>>]

Init ==
    /\ cache = [map |-> [k \in Keys |-> Nobody], order |-> 0, bytes |-> 0, closed |-> FALSE]
    /\ entry = [s \in Streams |-> NoEntry]
    /\ streams = [s \in Streams |-> NewStream]
    /\ now = 0

(***************************************************************************)
(* Entries, their owners and their charge.                                 *)
(***************************************************************************)
Resident == {k \in Keys : cache.map[k] # Nobody}

\* The entries some shared_ptr owns.
Live ==
    {s \in Streams :
        \/ \E k \in Keys : cache.map[k] = s
        \/ \E t \in Streams : s \in {streams[t].replay, streams[t].stale}}

\* What the admission controller has charged for candidates and entries.
Charged ==
    SumFunctionOnSet([s \in Streams |-> streams[s].permit], Streams)
    + SumFunctionOnSet([s \in Streams |-> entry[s].permit], Live)

(***************************************************************************)
(* CompleteScanResultCache.                                                *)
(***************************************************************************)
Age(stored) == now - stored

InStaleWindow(stored) == Age(stored) < FreshTime + StaleTime

Lookup(k, policy) ==
    IF cache.closed \/ cache.map[k] = Nobody THEN "MISS"
    ELSE LET stored == entry[cache.map[k]].stored
         IN  IF Age(stored) < FreshTime THEN "FRESH_HIT"
             ELSE IF policy = "STALE_IF_ERROR" /\ InStaleWindow(stored) THEN "STALE_CANDIDATE"
             ELSE "EXPIRED"

\* The size of the entries that map c has under the given keys.
BytesIn(c, e, keys) == SumFunctionOnSet([k \in keys |-> e[c.map[k]].size], keys)

\* The keys of the oldest entries, as many as have to go for both limits to hold.
Evicted(c, e) ==
    LET in == {k \in Keys : c.map[k] # Nobody}
        Older(n) == {k \in in : e[c.map[k]].order < n}
        Enough(n) ==
            \/ Older(n) = in
            \/ /\ Cardinality(in \ Older(n)) <= MaxEntries
               /\ c.bytes - BytesIn(c, e, Older(n)) <= MaxBytes
    IN  Older(Min({m \in 0..c.order : Enough(m)}))

EvictIfNeeded(c, e) ==
    LET gone == Evicted(c, e)
    IN  [c EXCEPT !.map = [k \in Keys |-> IF k \in gone THEN Nobody ELSE @[k]],
                  !.bytes = @ - BytesIn(c, e, gone)]

CanFit(size) == size <= MaxEntryBytes /\ size <= MaxBytes

\* Fault: the entry a publication replaces stays counted.
ReplacedNotCounted(c, k, e) == 0

\* The bytes of the entry that a publication under k replaces.
Replaced(c, k, e) == IF c.map[k] = Nobody THEN 0 ELSE e[c.map[k]].size

\* Fault: the charge of a candidate is dropped when the candidate is published.
PublishedUncharged(s) ==
    LET k == streams[s].key
        e == [entry EXCEPT ![s] =
                [batches |-> streams[s].batches, stored |-> now, size |-> streams[s].size,
                 permit |-> 0, order |-> cache.order]]
        c == [cache EXCEPT !.map[k] = s, !.order = @ + 1,
                           !.bytes = @ - Replaced(cache, k, entry) + streams[s].size]
    IN  [entry |-> e, cache |-> EvictIfNeeded(c, e)]

\* PublishReserved succeeds: batches and permit move into the new entry.
Published(s) ==
    LET k == streams[s].key
        e == [entry EXCEPT ![s] =
                [batches |-> streams[s].batches, stored |-> now, size |-> streams[s].size,
                 permit |-> streams[s].permit, order |-> cache.order]]
        c == [cache EXCEPT !.map[k] = s, !.order = @ + 1,
                           !.bytes = @ - Replaced(cache, k, entry) + streams[s].size]
    IN  [entry |-> e, cache |-> EvictIfNeeded(c, e)]

\* `stored` is FALSE also when the entry could not be allocated.
PublishReserved(s, stored) ==
    /\ stored => CanFit(streams[s].size) /\ ~cache.closed
    /\ entry' = IF stored THEN Published(s).entry ELSE entry
    /\ cache' = IF stored THEN Published(s).cache ELSE cache

\* Close of the cache, part of the close of its executor.
CloseCache ==
    /\ ~cache.closed
    /\ cache' = [cache EXCEPT !.closed = TRUE, !.map = [k \in Keys |-> Nobody], !.bytes = 0]
    /\ UNCHANGED <<entry, streams, now>>

(***************************************************************************)
(* CachedScanStream.                                                       *)
(***************************************************************************)
Put(s, st) == streams' = [streams EXCEPT ![s] = st]

ClearCandidate(st) == [st EXCEPT !.batches = <<>>, !.size = 0, !.permit = 0]

ClearReplayEntries(st) == [st EXCEPT !.replay = Nobody, !.stale = Nobody]

\* FinishProfile: the first outcome stays.
Finish(st, outcome) == [st EXCEPT !.outcome = IF @ = "OPEN" THEN outcome ELSE @, !.pulling = FALSE]

Deliver(st, b) == [st EXCEPT !.delivered = Append(@, b), !.pulling = FALSE]

Drained(st) == [Finish(st, "SUCCEEDED") EXCEPT !.mode = "DRAINED"]

Open(s, k, policy) ==
    LET result == Lookup(k, policy)
        hit == cache.map[k]
        st == [NewStream EXCEPT !.key = k]
    IN  /\ streams[s].mode = "UNOPENED"
        /\ Put(s, CASE result = "FRESH_HIT" ->
                        [st EXCEPT !.mode = "FRESH_HIT_REPLAY", !.replay = hit,
                                   !.status = "FRESH_HIT", !.age = Age(entry[hit].stored)]
                    [] result = "STALE_CANDIDATE" ->
                        [st EXCEPT !.mode = "BARRIER_BUFFERING", !.stale = hit]
                    [] OTHER -> [st EXCEPT !.mode = "ACCUMULATING_MISS"])
        /\ UNCHANGED <<cache, entry, now>>

\* ServeFreshHit, ServeStale and ServeBarrierFresh: the next of `batches`, or the end.
Replayed(st, batches) ==
    IF st.index < Len(batches) THEN Deliver([st EXCEPT !.index = @ + 1], batches[st.index + 1])
    ELSE Drained(ClearCandidate(ClearReplayEntries(st)))

ServeBarrierFresh(st, e) == Replayed(st, IF st.replay # Nobody THEN e[st.replay].batches ELSE st.batches)

ServeStale(st) == Replayed(st, entry[st.stale].batches)

\* Fault: the batch that crossed the limit is forgotten.
ServePrefixOnly(st) ==
    IF st.index < Len(st.batches) THEN Deliver([st EXCEPT !.index = @ + 1], st.batches[st.index + 1])
    ELSE [ClearCandidate(st) EXCEPT !.index = 0, !.mode = "BARRIER_DRAINED_UNCACHED",
                                    !.pending = NoBatch, !.pulling = TRUE]

\* ServeBarrierDrainEmit: the buffered prefix, the batch after it, then the
\* rest of the scan.
ServeBarrierDrainEmit(st) ==
    LET done == [ClearCandidate(st) EXCEPT !.index = 0]
    IN  IF st.index < Len(st.batches)
        THEN Deliver([st EXCEPT !.index = @ + 1], st.batches[st.index + 1])
        ELSE IF st.pending # NoBatch THEN Deliver([done EXCEPT !.pending = NoBatch], st.pending)
        ELSE [done EXCEPT !.mode = "BARRIER_DRAINED_UNCACHED", !.pulling = TRUE]

Ready(s) == streams[s].mode # "UNOPENED" /\ streams[s].outcome = "OPEN" /\ ~streams[s].pulling

\* Next of a stream that has not ended.  A pull that goes on to the wrapped
\* stream is completed by one of the actions below.
Pull(s) ==
    LET st == streams[s]
    IN  /\ Ready(s)
        /\ Put(s, CASE st.mode = "FRESH_HIT_REPLAY" -> Replayed(st, entry[st.replay].batches)
                    [] st.mode = "BARRIER_FRESH_SERVE" -> ServeBarrierFresh(st, entry)
                    [] st.mode = "STALE_SERVE" -> ServeStale(st)
                    [] st.mode = "BARRIER_DRAIN_EMIT" -> ServeBarrierDrainEmit(st)
                    [] OTHER -> [st EXCEPT !.pulling = TRUE])
        /\ UNCHANGED <<cache, entry, now>>

\* ReserveCandidateBytes may be granted `size` more bytes.
Reservable(s, size) ==
    /\ streams[s].size + size <= MaxEntryBytes
    /\ Charged + size <= ResidentLimit

Retained(st, b, size) ==
    [st EXCEPT !.batches = Append(@, b), !.size = @ + size, !.permit = st.size + size]

\* What a stream does with the next batch of the wrapped stream, which it
\* passes on, buffers behind the barrier, or finds not to fit there.
Arrived(st, b, size, retained) ==
    CASE st.mode = "ACCUMULATING_MISS" ->
            Deliver(IF retained THEN Retained(st, b, size)
                    ELSE IF ~st.cacheable THEN st
                    ELSE [ClearCandidate(st) EXCEPT !.cacheable = FALSE,
                             !.status = "STORE_BYPASSED_CAPACITY"], b)
      [] st.mode = "BARRIER_BUFFERING" ->
            IF retained THEN Retained(st, b, size)
            ELSE ServeBarrierDrainEmit(
                    [st EXCEPT !.pending = b, !.index = 0, !.stale = Nobody,
                       !.mode = "BARRIER_DRAIN_EMIT", !.status = "REFRESH_STREAMED_CAPACITY"])
      [] OTHER -> Deliver(st, b)

\* The wrapped stream yields a batch.  `retained` is the answer of
\* RetainCandidateBatch; it is FALSE also when other charges, a closed
\* admission controller or an allocation failure refuse the batch, which
\* leaves the reservation as it was.
BatchArrives(s, size, retained) ==
    LET st == [streams[s] EXCEPT !.produced = @ + 1]
    IN  /\ streams[s].pulling
        /\ streams[s].produced < MaxBatches
        /\ retained => Reservable(s, size) /\ st.cacheable /\ st.mode # "BARRIER_DRAINED_UNCACHED"
        /\ Put(s, Arrived(st, <<s, st.produced>>, size, retained))
        /\ UNCHANGED <<cache, entry, now>>

\* The wrapped stream ends.
ScanEnds(s, stored) ==
    LET st == [streams[s] EXCEPT !.ended = TRUE]
        status == IF stored THEN "REFRESHED" ELSE "STORE_BYPASSED_CAPACITY"
        kept == IF stored THEN [ClearCandidate(st) EXCEPT !.replay = s] ELSE st
    IN  /\ st.pulling
        /\ UNCHANGED now
        /\ CASE st.mode = "ACCUMULATING_MISS" /\ st.cacheable ->
                    /\ PublishReserved(s, stored)
                    /\ Put(s, Drained([ClearCandidate(st) EXCEPT !.status = status,
                                          !.cacheable = FALSE]))
             [] st.mode = "BARRIER_BUFFERING" ->
                    /\ PublishReserved(s, stored)
                    /\ Put(s, ServeBarrierFresh(
                                [kept EXCEPT !.stale = Nobody, !.index = 0, !.status = status,
                                   !.mode = "BARRIER_FRESH_SERVE"],
                                IF stored THEN Published(s).entry ELSE entry))
             [] OTHER ->
                    /\ ~stored
                    /\ Put(s, Drained(st))
                    /\ UNCHANGED <<cache, entry>>

IsEligibleStaleFailure(f) == Stage(f) \in {"TRANSPORT", "HTTP_STATUS"}

\* The catch blocks of Next.
Failed(st) == [Finish(ClearCandidate(ClearReplayEntries(st)), "FAILED") EXCEPT !.mode = "FAILED"]

\* Fault: the window checked at the lookup is taken to hold still.
MayLatchUnchecked(st, f) == st.mode = "BARRIER_BUFFERING" /\ IsEligibleStaleFailure(f)

\* A failure behind the barrier lets the stale entry be served.
MayLatch(st, f) ==
    /\ st.mode = "BARRIER_BUFFERING"
    /\ IsEligibleStaleFailure(f)
    /\ InStaleWindow(entry[st.stale].stored)

\* The wrapped stream fails.
ScanFails(s, f) ==
    LET st == streams[s]
    IN  /\ st.pulling
        /\ Put(s, IF MayLatch(st, f)
                  THEN ServeStale([ClearCandidate(st) EXCEPT !.mode = "STALE_SERVE", !.index = 0,
                                     !.status = "STALE_SERVED", !.cause = f,
                                     !.age = Age(entry[st.stale].stored)])
                  ELSE IF st.mode = "BARRIER_BUFFERING" /\ IsEligibleStaleFailure(f)
                  THEN Failed([st EXCEPT !.status = "EXPIRED_DURING_REFRESH"])
                  ELSE Failed(st))
        /\ UNCHANGED <<cache, entry, now>>

Stopped(st, outcome) ==
    [ClearCandidate(ClearReplayEntries(Finish(st, outcome))) EXCEPT !.pending = NoBatch]

\* Cancel, between pulls or because a pull finds itself cancelled.
Cancel(s) ==
    /\ streams[s].mode # "UNOPENED" /\ streams[s].outcome = "OPEN"
    /\ Put(s, Stopped(streams[s], "CANCELLED"))
    /\ UNCHANGED <<cache, entry, now>>

Close(s) ==
    /\ Ready(s)
    /\ Put(s, [Stopped(streams[s], "CLOSED") EXCEPT !.mode = "DRAINED", !.cacheable = FALSE])
    /\ UNCHANGED <<cache, entry, now>>

Tick ==
    /\ now < MaxTime
    /\ now' = now + 1
    /\ UNCHANGED <<cache, entry, streams>>

Next ==
    \/ \E s \in Streams, k \in Keys, policy \in Policies : Open(s, k, policy)
    \/ \E s \in Streams : Pull(s)
    \/ \E s \in Streams, size \in BatchSizes, retained \in BOOLEAN : BatchArrives(s, size, retained)
    \/ \E s \in Streams, stored \in BOOLEAN : ScanEnds(s, stored)
    \/ \E s \in Streams, f \in Failures : ScanFails(s, f)
    \/ \E s \in Streams : Cancel(s)
    \/ \E s \in Streams : Close(s)
    \/ CloseCache
    \/ Tick

Spec == Init /\ [][Next]_vars

(***************************************************************************)
(* Properties.                                                             *)
(***************************************************************************)
\* The byte counter of the map, which replacement, eviction and close adjust
\* each in its own way, is the size of what the map holds, and both limits of
\* CompleteScanResultCache hold after every publication.
ResidentExact ==
    /\ cache.bytes = BytesIn(cache, entry, Resident)
    /\ cache.bytes <= MaxBytes
    /\ Cardinality(Resident) <= MaxEntries

\* The bytes of every candidate and of every entry that anything still owns,
\* entries already evicted or replaced but still being replayed included.
StoredBytes ==
    SumFunctionOnSet([s \in Streams |-> streams[s].size], Streams)
    + SumFunctionOnSet([s \in Streams |-> entry[s].size], Live)

\* The admission limit bounds all storage the cache keeps alive, because the
\* charge moves with the batches from the candidate into the entry and stays
\* until the last replaying stream lets the entry go; and a stream that has
\* ended, in whichever way, keeps none of it alive.
ResidentBytesAdmitted ==
    /\ StoredBytes <= ResidentLimit
    /\ \A s \in Streams :
        streams[s].outcome # "OPEN" =>
            /\ streams[s].batches = <<>> /\ streams[s].permit = 0
            /\ streams[s].replay = Nobody /\ streams[s].stale = Nobody

\* Whatever mixture of replay, buffering, fallback and refusal serves a
\* stream, it delivers the batches of one scan from the first on, without a
\* gap or a repetition, and all of them if it ends cleanly: fresh and stale
\* batches never mix, and no partial scan is ever replayed as a complete one.
DeliversOneScan ==
    \A s \in Streams :
        LET d == streams[s].delivered
        IN  \E o \in Streams :
                /\ \A i \in DOMAIN d : d[i] = <<o, i>>
                /\ streams[s].outcome = "SUCCEEDED" =>
                        streams[o].ended /\ Len(d) = streams[o].produced

\* The cache status a stream reports tells where its batches came from: an
\* earlier scan exactly under FRESH_HIT and STALE_SERVED, and then the entry
\* was within its window when it was chosen, the stale one at the failure of
\* the refresh and not only at the lookup.
StatusTellsSource ==
    \A s \in Streams :
        LET st == streams[s]
        IN  /\ \A i \in DOMAIN st.delivered :
                st.delivered[i][1] # s <=> st.status \in {"FRESH_HIT", "STALE_SERVED"}
            /\ st.status = "FRESH_HIT" => st.age < FreshTime
            /\ st.status = "STALE_SERVED" => st.age < FreshTime + StaleTime

\* The stale-eligible matrix of the runtime contract: transient transport
\* failures, 502/503/504 and declared rate-limit exhaustion, and no other
\* failure of a refresh, let a stale entry be served.
StaleMatrixClosed ==
    \A s \in Streams :
        streams[s].status = "STALE_SERVED" =>
            streams[s].cause \in {"transient", "gateway", "rate_limit"}

=============================================================================
