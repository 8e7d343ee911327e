------------------------- MODULE ResultCacheProofs --------------------------
(***************************************************************************)
(* Which batches a cached stream delivers, for every number of streams,    *)
(* keys, batches and entries, and every limit.                             *)
(*                                                                         *)
(* DeliversOneScan compares what a stream delivered with a scan that may   *)
(* have ended long ago in another stream.  It is inductive only together   *)
(* with what every entry that anybody can reach holds (a whole scan that   *)
(* has ended, MapWhole and RefersWhole) and with where each mode of a      *)
(* stream stands between its candidate, its entry and what it delivered    *)
(* (ModesOK).                                                              *)
(***************************************************************************)
EXTENDS ResultCache, TLAPS

Owners == Streams \cup {Nobody}

Batches == Owners \X Nat

Foreign == {"FRESH_HIT", "STALE_SERVED"}

Fields == {"mode", "key", "batches", "size", "permit", "cacheable", "replay", "stale", "index", "pending",
           "status", "cause", "age", "outcome", "pulling", "produced", "ended", "delivered"}

\* What the argument needs to know of the shape of a stream.
IsStream(st) ==
    /\ DOMAIN st = Fields
    /\ st.batches \in Seq(Batches) /\ st.delivered \in Seq(Batches)
    /\ st.index \in Nat /\ st.produced \in Nat

StateOK ==
    /\ DOMAIN cache = {"map", "order", "bytes", "closed"} /\ DOMAIN cache.map = Keys
    /\ DOMAIN entry = Streams /\ \A s \in Streams : entry[s].batches \in Seq(Batches)
    /\ DOMAIN streams = Streams /\ \A s \in Streams : IsStream(streams[s])

\* q is a prefix of the scan of stream o; it is its first n batches.
Prefix(q, o) == \A i \in 1..Len(q) : q[i] = <<o, i>>

Scan(q, o, n) == Len(q) = n /\ Prefix(q, o)

\* The entry stream o published is the scan it made, which has ended.
Whole(o) == o \in Streams /\ streams[o].ended /\ Scan(entry[o].batches, o, streams[o].produced)

MapWhole == \A k \in Keys : cache.map[k] # Nobody => Whole(cache.map[k])

Refers(st) == (st.replay # Nobody => Whole(st.replay)) /\ (st.stale # Nobody => Whole(st.stale))

\* How far a stream that replays an entry is.
Replaying(st, o, e) ==
    /\ o \in Streams /\ ~st.pulling /\ ~st.ended
    /\ Len(st.delivered) = st.index /\ st.index <= Len(e[o].batches)

\* What a stream serves that has refreshed its entry, stored or not.
Refreshed(s, st, e) ==
    /\ ~st.pulling /\ st.ended /\ st.status \notin Foreign
    /\ Len(st.delivered) = st.index /\ st.index <= st.produced
    /\ st.replay = s \/ (st.replay = Nobody /\ Scan(st.batches, s, st.produced))

\* What is left of a candidate that did not fit: the prefix, the batch after
\* it, or nothing.
Emitting(s, st) ==
    \/ /\ st.produced > 0 /\ Scan(st.batches, s, st.produced - 1) /\ st.pending = <<s, st.produced>>
       /\ Len(st.delivered) = st.index /\ st.index <= st.produced - 1
    \/ st.batches = <<>> /\ st.pending = NoBatch /\ st.index = 0 /\ Len(st.delivered) = st.produced

\* Where an open stream stands in each mode.
ModeOK(s, st, e) ==
    /\ st.mode = "UNOPENED" => st = NewStream
    /\ st.pulling => st.outcome = "OPEN" /\ ~st.ended
    /\ st.outcome = "OPEN" =>
        /\ st.mode \in {"UNOPENED", "FRESH_HIT_REPLAY", "STALE_SERVE", "ACCUMULATING_MISS", "BARRIER_BUFFERING",
                       "BARRIER_FRESH_SERVE", "BARRIER_DRAIN_EMIT", "BARRIER_DRAINED_UNCACHED"}
        /\ st.mode = "FRESH_HIT_REPLAY" => Replaying(st, st.replay, e) /\ st.status = "FRESH_HIT"
        /\ st.mode = "STALE_SERVE" => Replaying(st, st.stale, e) /\ st.status = "STALE_SERVED"
        /\ st.mode = "ACCUMULATING_MISS" =>
             /\ ~st.ended /\ st.status \notin Foreign /\ Len(st.delivered) = st.produced
             /\ st.cacheable => Scan(st.batches, s, st.produced)
        /\ st.mode = "BARRIER_BUFFERING" =>
             /\ ~st.ended /\ st.status \notin Foreign /\ st.delivered = <<>>
             /\ Scan(st.batches, s, st.produced) /\ st.stale \in Streams /\ st.replay = Nobody
        /\ st.mode = "BARRIER_FRESH_SERVE" => Refreshed(s, st, e)
        /\ st.mode = "BARRIER_DRAIN_EMIT" =>
             ~st.pulling /\ ~st.ended /\ st.status \notin Foreign /\ Emitting(s, st)
        /\ st.mode = "BARRIER_DRAINED_UNCACHED" =>
             ~st.ended /\ st.status \notin Foreign /\ Len(st.delivered) = st.produced

ModesOK == \A s \in Streams : ModeOK(s, streams[s], entry)

RefersWhole == \A s \in Streams : Refers(streams[s])

\* What stream s, being st, delivered is of the scan of o, which is another
\* stream's scan exactly under the two statuses that say so.
Delivers(s, st, o) ==
    /\ o # s <=> st.status \in Foreign
    /\ Prefix(st.delivered, o)
    /\ st.outcome = "SUCCEEDED" =>
         LET source == IF o = s THEN st ELSE streams[o]
         IN  source.ended /\ Len(st.delivered) = source.produced
    /\ st.outcome = "OPEN" /\ st.mode = "FRESH_HIT_REPLAY" => st.replay = o
    /\ st.outcome = "OPEN" /\ st.mode = "STALE_SERVE" => st.stale = o

AllDeliver == \A s \in Streams : \E o \in Streams : Delivers(s, streams[s], o)

\* An entry was within its window when it was chosen.
InWindow(st) ==
    /\ st.status = "FRESH_HIT" => st.age < FreshTime
    /\ st.status = "STALE_SERVED" => st.age < FreshTime + StaleTime

WindowsOK == \A s \in Streams : InWindow(streams[s])

IInv == StateOK /\ MapWhole /\ RefersWhole /\ ModesOK /\ AllDeliver /\ WindowsOK

-----------------------------------------------------------------------------

\* A stream that has not been opened.
LEMMA NewStreamFacts ==
    /\ IsStream(NewStream) /\ NewStream.mode = "UNOPENED" /\ NewStream.outcome = "OPEN"
    /\ NewStream.pulling = FALSE /\ NewStream.ended = FALSE /\ NewStream.status = "MISS"
    /\ NewStream.replay = Nobody /\ NewStream.stale = Nobody /\ NewStream.produced = 0
    /\ NewStream.index = 0 /\ NewStream.batches = <<>> /\ NewStream.delivered = <<>>
<1>1. <<>> \in Seq(Batches)
  OBVIOUS
<1>2. DOMAIN NewStream = Fields
  BY DEF NewStream, Fields
<1>3. IsStream(NewStream)
  BY <1>1, <1>2 DEF NewStream, IsStream
<1> QED  BY <1>3 DEF NewStream

\* The invariant at first: nothing is stored, opened or delivered.
LEMMA InitHolds == Init => IInv
<1> SUFFICES ASSUME Init PROVE IInv
  OBVIOUS
<1>1. \A s \in Streams : streams[s] = NewStream /\ entry[s].batches = <<>>
  BY DEF Init, NoEntry
<1>2. StateOK
  <2>1. <<>> \in Seq(Batches)
    OBVIOUS
  <2>2. DOMAIN cache = {"map", "order", "bytes", "closed"} /\ DOMAIN cache.map = Keys
    BY DEF Init
  <2>3. DOMAIN entry = Streams /\ DOMAIN streams = Streams
    BY DEF Init
  <2> QED  BY <1>1, <2>1, <2>2, <2>3, NewStreamFacts, Zenon DEF StateOK
<1>3. MapWhole
  BY DEF Init, MapWhole
<1>4. RefersWhole
  BY <1>1, NewStreamFacts DEF RefersWhole, Refers
<1>5. ModesOK
  BY <1>1, NewStreamFacts DEF ModesOK, ModeOK
<1>6. AllDeliver
  BY <1>1, NewStreamFacts DEF AllDeliver, Delivers, Prefix, Foreign
<1>7. WindowsOK
  BY <1>1, NewStreamFacts DEF WindowsOK, InWindow
<1> QED  BY <1>2, <1>3, <1>4, <1>5, <1>6, <1>7 DEF IInv

\* A batch after a prefix of a scan.
LEMMA PrefixAppend ==
    ASSUME NEW q \in Seq(Batches), NEW o \in Streams, Prefix(q, o), NEW b, b = <<o, Len(q) + 1>>
    PROVE  /\ Append(q, b) \in Seq(Batches) /\ Len(Append(q, b)) = Len(q) + 1
           /\ Prefix(Append(q, b), o)
<1>1. b \in Batches /\ Len(q) \in Nat
  BY DEF Batches, Owners
<1>2. Append(q, b) \in Seq(Batches) /\ Len(Append(q, b)) = Len(q) + 1
  BY <1>1
<1>3. ASSUME NEW i \in 1..Len(Append(q, b)) PROVE Append(q, b)[i] = <<o, i>>
  BY <1>1, <1>2 DEF Prefix
<1> QED  BY <1>2, <1>3 DEF Prefix

\* The entry of an ended scan stays what it was.
LEMMA WholeKept ==
    ASSUME IInv, NEW s \in Streams, NEW t, IsStream(t),
           streams' = [streams EXCEPT ![s] = t],
           streams[s].ended => t.ended /\ t.produced = streams[s].produced,
           \A o \in Streams : streams[o].ended => entry'[o] = entry[o]
    PROVE  \A o : Whole(o) => Whole(o)'
<1>1. streams'[s] = t /\ \A r \in Streams : r # s => streams'[r] = streams[r]
  BY DEF IInv, StateOK
<1>2. \A o \in Streams : streams[o].ended => streams'[o].ended /\ streams'[o].produced = streams[o].produced
  BY <1>1
<1> QED  BY <1>2 DEF Whole

\* The other streams are where they were after a step of stream s that keeps
\* every entry of an ended scan, and does not go on with an ended one.
LEMMA StreamStep ==
    ASSUME IInv, NEW s \in Streams, NEW t, IsStream(t),
           streams' = [streams EXCEPT ![s] = t],
           streams[s].ended => t.ended /\ t.produced = streams[s].produced,
           DOMAIN entry' = Streams, \A o \in Streams : entry'[o].batches \in Seq(Batches),
           \A o \in Streams : streams[o].ended => entry'[o] = entry[o],
           DOMAIN cache' = DOMAIN cache, DOMAIN cache'.map = Keys, MapWhole',
           Refers(t)', ModeOK(s, t, entry'), InWindow(t),
           \E o \in Streams : Delivers(s, t, o)
    PROVE  IInv'
<1>1. DOMAIN streams' = Streams /\ streams'[s] = t
         /\ \A r \in Streams : r # s => streams'[r] = streams[r]
  BY DEF IInv, StateOK
<1>2. StateOK'
  BY <1>1, Zenon DEF IInv, StateOK
<1>3. \A o \in Streams : streams[o].ended => streams'[o].ended /\ streams'[o].produced = streams[o].produced
  BY <1>1
<1>4. \A o : Whole(o) => Whole(o)'
  BY WholeKept, Zenon
<1>5. RefersWhole'
  <2>1. ASSUME NEW r \in Streams, r # s PROVE Refers(streams[r])'
    BY <1>1, <1>4, <2>1 DEF IInv, RefersWhole, Refers
  <2> QED  BY <1>1, <2>1 DEF RefersWhole
<1>6. ModesOK'
  <2>1. ASSUME NEW r \in Streams, r # s PROVE ModeOK(r, streams'[r], entry')
    <3>1. ModeOK(r, streams[r], entry) /\ Refers(streams[r]) /\ streams'[r] = streams[r]
      BY <1>1, <2>1 DEF IInv, ModesOK, RefersWhole
    <3>2. \A o \in Streams : streams[o].ended => entry'[o] = entry[o]
      OBVIOUS
    <3>3. ASSUME NEW o, o = streams[r].replay \/ o = streams[r].stale, Replaying(streams[r], o, entry)
          PROVE Replaying(streams[r], o, entry')
      BY <3>1, <3>2, <3>3, NamesAssumption DEF Refers, Whole, Replaying
    <3> QED  BY <3>1, <3>3 DEF ModeOK, Refreshed
  <2> QED  BY <1>1, <2>1, SMTT(30) DEF ModesOK
<1>7. AllDeliver'
  <2>1. ASSUME NEW r \in Streams, r # s PROVE \E o \in Streams : Delivers(r, streams[r], o)'
    <3>1. PICK o \in Streams : Delivers(r, streams[r], o)
      BY DEF IInv, AllDeliver
    <3>2. Delivers(r, streams[r], o)'
      BY <1>1, <1>3, <2>1, <3>1 DEF Delivers
    <3> QED  BY <3>2
  <2>2. PICK o \in Streams : Delivers(s, t, o)
    OBVIOUS
  <2>3. Delivers(s, streams[s], o)'
    BY <1>1, <2>2 DEF Delivers
  <2> QED  BY <2>1, <2>3 DEF AllDeliver
<1>8. WindowsOK'
  BY <1>1 DEF IInv, WindowsOK
<1> QED  BY <1>2, <1>5, <1>6, <1>7, <1>8 DEF IInv

\* A step of one stream that leaves the cache and the entries alone.
LEMMA LocalStep ==
    ASSUME IInv, NEW s \in Streams, NEW t, IsStream(t),
           streams' = [streams EXCEPT ![s] = t], entry' = entry, cache' = cache,
           streams[s].ended => t.ended /\ t.produced = streams[s].produced,
           Refers(t), ModeOK(s, t, entry), InWindow(t),
           \E o \in Streams : Delivers(s, t, o)
    PROVE  IInv'
<1>1. \A o : Whole(o) => Whole(o)'
  BY WholeKept, Zenon
<1>2. MapWhole'
  BY <1>1, Zenon DEF IInv, MapWhole
<1>3. Refers(t)'
  BY <1>1, Zenon DEF Refers
<1>4. DOMAIN entry' = Streams /\ \A o \in Streams : entry'[o].batches \in Seq(Batches)
  BY Zenon DEF IInv, StateOK
<1>5. DOMAIN cache' = DOMAIN cache /\ DOMAIN cache'.map = Keys
  BY Zenon DEF IInv, StateOK
<1>6. ModeOK(s, t, entry') /\ \A o \in Streams : streams[o].ended => entry'[o] = entry[o]
  BY Zenon
<1> QED  BY <1>2, <1>3, <1>4, <1>5, <1>6, StreamStep, Zenon

\* What the invariant says of one stream.
LEMMA OneStream ==
    ASSUME IInv, NEW s \in Streams, NEW st, st = streams[s]
    PROVE  /\ IsStream(st) /\ ModeOK(s, st, entry) /\ Refers(st) /\ InWindow(st)
           /\ \E o \in Streams : Delivers(s, st, o)
           /\ st.status \notin Foreign => Delivers(s, st, s)
BY DEF IInv, StateOK, ModesOK, RefersWhole, WindowsOK, AllDeliver, Delivers

-----------------------------------------------------------------------------

\* What serving a batch of an entry or a candidate leaves alone.
Keeps(st, t) ==
    t.status = st.status /\ t.age = st.age /\ t.produced = st.produced /\ t.ended = st.ended

\* Stream st has delivered the first batches of q, which are the n of the scan of o.
Serving(st, q, o, n) ==
    /\ IsStream(st) /\ q \in Seq(Batches) /\ Scan(q, o, n) /\ st.outcome = "OPEN"
    /\ Prefix(st.delivered, o) /\ Len(st.delivered) = st.index /\ st.index <= n

\* Stream st has become t, which delivered one more of the n batches of the scan
\* of o, or all of them.
Served(st, t, o, n) ==
    /\ IsStream(t) /\ Keeps(st, t) /\ t.pulling = FALSE /\ Prefix(t.delivered, o)
    /\ \/ /\ t.outcome = "OPEN" /\ t.mode = st.mode
          /\ t.replay = st.replay /\ t.stale = st.stale /\ t.batches = st.batches
          /\ Len(t.delivered) = t.index /\ t.index <= n
       \/ /\ t.outcome = "SUCCEEDED" /\ t.mode = "DRAINED"
          /\ t.replay = Nobody /\ t.stale = Nobody /\ Len(t.delivered) = n

\* A stream that serves the batches q of the scan of o goes one batch on, or has
\* delivered all of them and lets them go.
LEMMA ReplayedFacts ==
    ASSUME NEW o \in Streams, NEW n \in Nat, NEW st, NEW q, Serving(st, q, o, n),
           NEW t, t = Replayed(st, q)
    PROVE  Served(st, t, o, n)
<1>1. st.index \in Nat /\ st.delivered \in Seq(Batches) /\ Len(q) = n
  BY DEF IsStream, Scan, Serving
<1>2. CASE st.index < n
  <2>1. q[st.index + 1] = <<o, Len(st.delivered) + 1>>
    BY <1>1, <1>2 DEF Scan, Prefix, Serving
  <2>2. PICK b : b = q[st.index + 1]
    OBVIOUS
  <2>3. PICK d : d = Append(st.delivered, b)
    BY Zenon
  <2>4. d \in Seq(Batches) /\ Len(d) = st.index + 1 /\ Prefix(d, o)
    BY <1>1, <2>1, <2>2, <2>3, PrefixAppend DEF Serving
  <2>5. t = [st EXCEPT !.index = st.index + 1, !.delivered = d, !.pulling = FALSE]
    BY <1>1, <1>2, <2>2, <2>3 DEF Replayed, Deliver
  <2>6. IsStream(t)
    BY <1>1, <2>4, <2>5 DEF IsStream, Serving
  <2> QED  BY <1>1, <1>2, <2>4, <2>5, <2>6 DEF Served, Keeps, Serving
<1>3. CASE ~(st.index < n)
  <2>1. t = [st EXCEPT !.replay = Nobody, !.stale = Nobody, !.batches = <<>>, !.size = 0, !.permit = 0,
                       !.outcome = "SUCCEEDED", !.pulling = FALSE, !.mode = "DRAINED"]
    BY <1>1, <1>3 DEF Replayed, Drained, Finish, ClearCandidate, ClearReplayEntries, IsStream, Fields,
       Serving
  <2>2. <<>> \in Seq(Batches) /\ Nobody \in Owners
    BY DEF Owners
  <2>3. IsStream(t)
    BY <2>1, <2>2 DEF IsStream, Serving
  <2> QED  BY <1>1, <1>3, <2>1, <2>3 DEF Served, Keeps, Serving
<1> QED  BY <1>1, <1>2, <1>3, Zenon

\* Stream st has become t, which emitted one more batch of what is left.
Emitted(s, st, t) ==
    /\ IsStream(t) /\ Keeps(st, t) /\ t.outcome = "OPEN" /\ Prefix(t.delivered, s)
    /\ t.replay = st.replay /\ t.stale = st.stale
    /\ \/ t.mode = "BARRIER_DRAIN_EMIT" /\ Emitting(s, t) /\ t.pulling = FALSE
       \/ t.mode = "BARRIER_DRAINED_UNCACHED" /\ Len(t.delivered) = t.produced /\ t.pulling = TRUE

\* A stream whose candidate did not fit emits the prefix, the batch after it, and
\* then goes on with the scan.
LEMMA EmittedFacts ==
    ASSUME NEW s \in Streams, NEW st, IsStream(st), st.mode = "BARRIER_DRAIN_EMIT", st.outcome = "OPEN",
           Emitting(s, st), Prefix(st.delivered, s), NEW t, t = ServeBarrierDrainEmit(st)
    PROVE  Emitted(s, st, t)
<1>1. /\ st.index \in Nat /\ st.delivered \in Seq(Batches) /\ st.produced \in Nat
      /\ st.batches \in Seq(Batches) /\ Len(st.batches) \in Nat
  BY DEF IsStream, Fields
<1>2. <<>> \in Seq(Batches) /\ Len(<<>>) = 0 /\ NoBatch \in Batches
  BY DEF Batches, Owners, NoBatch
<1>3. CASE st.index < Len(st.batches)
  <2>1. /\ st.produced > 0 /\ Scan(st.batches, s, st.produced - 1) /\ st.pending = <<s, st.produced>>
        /\ Len(st.delivered) = st.index
    BY <1>2, <1>3 DEF Emitting
  <2>2. PICK b : b = st.batches[st.index + 1]
    OBVIOUS
  <2>3. b = <<s, Len(st.delivered) + 1>>
    BY <1>1, <1>3, <2>1, <2>2, SMTT(30) DEF Scan, Prefix
  <2>4. PICK d : d = Append(st.delivered, b)
    BY Zenon
  <2>5. d \in Seq(Batches) /\ Len(d) = st.index + 1 /\ Prefix(d, s)
    BY <1>1, <2>1, <2>3, <2>4, PrefixAppend
  <2>6. t = [st EXCEPT !.index = st.index + 1, !.delivered = d, !.pulling = FALSE]
    BY <1>3, <2>2, <2>4 DEF ServeBarrierDrainEmit, Deliver, IsStream, Fields
  <2>7. IsStream(t)
    BY <1>1, <2>5, <2>6 DEF IsStream, Fields
  <2>8. /\ t.index = st.index + 1 /\ t.delivered = d /\ t.batches = st.batches /\ t.pending = st.pending
        /\ t.produced = st.produced
    BY <2>6 DEF IsStream, Fields
  <2>9. Emitting(s, t)
    BY <1>1, <1>3, <2>1, <2>5, <2>8 DEF Emitting, Scan
  <2> QED  BY <2>5, <2>6, <2>7, <2>9 DEF Emitted, Keeps, IsStream, Fields
<1>4. CASE ~(st.index < Len(st.batches)) /\ st.pending # NoBatch
  <2>1. /\ st.produced > 0 /\ Scan(st.batches, s, st.produced - 1) /\ st.pending = <<s, st.produced>>
        /\ Len(st.delivered) = st.index /\ st.index = st.produced - 1
    BY <1>1, <1>4 DEF Emitting, Scan
  <2>2. PICK b : b = st.pending
    OBVIOUS
  <2>3. b = <<s, Len(st.delivered) + 1>>
    BY <1>1, <2>1, <2>2
  <2>4. PICK d : d = Append(st.delivered, b)
    BY Zenon
  <2>5. d \in Seq(Batches) /\ Len(d) = st.produced /\ Prefix(d, s)
    BY <1>1, <2>1, <2>3, <2>4, PrefixAppend
  <2>6. t = [st EXCEPT !.batches = <<>>, !.size = 0, !.permit = 0, !.index = 0, !.pending = NoBatch,
                       !.delivered = d, !.pulling = FALSE]
    BY <1>4, <2>2, <2>4 DEF ServeBarrierDrainEmit, Deliver, ClearCandidate, IsStream, Fields
  <2>7. IsStream(t)
    BY <1>1, <1>2, <2>5, <2>6 DEF IsStream, Fields
  <2>8. /\ t.index = 0 /\ t.delivered = d /\ t.batches = <<>> /\ t.pending = NoBatch
        /\ t.produced = st.produced
    BY <2>6 DEF IsStream, Fields
  <2>9. Emitting(s, t)
    BY <2>5, <2>8 DEF Emitting
  <2> QED  BY <2>5, <2>6, <2>7, <2>9 DEF Emitted, Keeps, IsStream, Fields
<1>5. CASE ~(st.index < Len(st.batches)) /\ st.pending = NoBatch
  <2>1. Len(st.delivered) = st.produced
    BY <1>5, NamesAssumption DEF Emitting, NoBatch
  <2>2. t = [st EXCEPT !.batches = <<>>, !.size = 0, !.permit = 0, !.index = 0,
                       !.mode = "BARRIER_DRAINED_UNCACHED", !.pulling = TRUE]
    BY <1>5 DEF ServeBarrierDrainEmit, ClearCandidate, IsStream, Fields
  <2>3. IsStream(t)
    BY <1>1, <1>2, <2>2 DEF IsStream, Fields
  <2> QED  BY <2>1, <2>2, <2>3 DEF Emitted, Keeps, IsStream, Fields
<1> QED  BY <1>3, <1>4, <1>5, Zenon

-----------------------------------------------------------------------------

\* Cancel and Close end a stream without delivering anything.
LEMMA StopHolds ==
    ASSUME IInv, NEW s \in Streams, Cancel(s) \/ Close(s)
    PROVE  IInv'
<1>1. PICK st : st = streams[s]
  BY Zenon
<1>2. PICK u : u = Stopped(st, IF Cancel(s) THEN "CANCELLED" ELSE "CLOSED")
  BY Zenon
<1>3. PICK t : t = IF Cancel(s) THEN u ELSE [u EXCEPT !.mode = "DRAINED", !.cacheable = FALSE]
  BY Zenon
<1>4. IsStream(st) /\ InWindow(st) /\ st.mode # "UNOPENED" /\ st.outcome = "OPEN"
        /\ \E o \in Streams : Delivers(s, st, o)
  BY <1>1, OneStream DEF Cancel, Close, Ready
<1>5. <<>> \in Seq(Batches)
  OBVIOUS
<1>6. PICK outcome \in {"CANCELLED", "CLOSED"} :
          u = [st EXCEPT !.outcome = outcome, !.pulling = FALSE, !.replay = Nobody, !.stale = Nobody,
                         !.batches = <<>>, !.size = 0, !.permit = 0, !.pending = NoBatch]
  BY <1>2, <1>4, Zenon DEF Stopped, Finish, ClearCandidate, ClearReplayEntries, IsStream, Fields
<1>7. /\ IsStream(t) /\ t.status = st.status /\ t.age = st.age /\ t.delivered = st.delivered
      /\ t.produced = st.produced /\ t.ended = st.ended /\ t.outcome \in {"CANCELLED", "CLOSED"}
      /\ t.pulling = FALSE /\ t.replay = Nobody /\ t.stale = Nobody /\ t.mode # "UNOPENED"
  <2>1. /\ IsStream(u) /\ u.status = st.status /\ u.age = st.age /\ u.delivered = st.delivered
        /\ u.produced = st.produced /\ u.ended = st.ended /\ u.outcome \in {"CANCELLED", "CLOSED"}
        /\ u.pulling = FALSE /\ u.replay = Nobody /\ u.stale = Nobody /\ u.mode = st.mode
    BY <1>4, <1>5, <1>6 DEF IsStream, Fields
  <2> QED  BY <1>3, <1>4, <2>1 DEF IsStream, Fields
<1>8. Refers(t) /\ ModeOK(s, t, entry) /\ InWindow(t)
  BY <1>4, <1>7 DEF Refers, ModeOK, InWindow
<1>9. \E o \in Streams : Delivers(s, t, o)
  BY <1>4, <1>7 DEF Delivers
<1>10. streams' = [streams EXCEPT ![s] = t] /\ entry' = entry /\ cache' = cache
  BY <1>1, <1>2, <1>3, Zenon DEF Cancel, Close, Put
<1> QED  BY <1>1, <1>7, <1>8, <1>9, <1>10, LocalStep, Zenon

\* A stream that replays the entry of another one.
LEMMA ReplayHolds ==
    ASSUME IInv, NEW s \in Streams, NEW o \in Streams, o # s, Whole(o), NEW st, IsStream(st),
           st.outcome = "OPEN", ~streams[s].ended, st.ended = streams[s].ended,
           \/ st.mode = "FRESH_HIT_REPLAY" /\ st.status = "FRESH_HIT" /\ st.replay = o
           \/ st.mode = "STALE_SERVE" /\ st.status = "STALE_SERVED" /\ st.stale = o,
           Refers(st), InWindow(st), Prefix(st.delivered, o), Len(st.delivered) = st.index,
           st.index <= Len(entry[o].batches),
           NEW t, t = Replayed(st, entry[o].batches),
           streams' = [streams EXCEPT ![s] = t], entry' = entry, cache' = cache
    PROVE  IInv'
<1>1. PICK q : q = entry[o].batches
  BY Zenon
<1>2. PICK n : n = streams[o].produced
  BY Zenon
<1>3. q \in Seq(Batches) /\ n \in Nat /\ Scan(q, o, n) /\ Len(q) = n /\ streams[o].ended
  BY <1>1, <1>2 DEF IInv, StateOK, Whole, Scan
<1>4. Served(st, t, o, n)
  <2>1. t = Replayed(st, q) /\ st.index <= n
    BY <1>1, <1>3
  <2>2. Serving(st, q, o, n)
    BY <1>3, <2>1 DEF Serving
  <2> QED  BY <1>3, <2>1, <2>2, ReplayedFacts, Zenon
<1>5. Refers(t) /\ InWindow(t)
  BY <1>4, Zenon DEF Served, Refers, InWindow, Keeps
<1>6. ModeOK(s, t, entry)
  BY <1>1, <1>3, <1>4 DEF Served, ModeOK, Replaying, Keeps
<1>7. Delivers(s, t, o)
  BY <1>2, <1>3, <1>4, Zenon DEF Served, Delivers, Keeps, Foreign
<1>8. ~streams[s].ended
  OBVIOUS
<1>9. IsStream(t)
  BY <1>4 DEF Served
<1> QED  BY <1>9, <1>5, <1>6, <1>7, <1>8, LocalStep, Zenon

\* t is as far with its own scan as st, and owns no other entry.
SameScan(st, t) ==
    /\ t.status = st.status /\ t.ended = st.ended /\ t.produced = st.produced
    /\ t.replay \in {st.replay, Nobody} /\ t.stale \in {st.stale, Nobody}

\* A stream that serves the scan it has just made, from the entry it stored or
\* from the candidate it could not store.
LEMMA FreshFacts ==
    ASSUME NEW s \in Streams, NEW st, NEW q, Serving(st, q, s, st.produced),
           st.mode = "BARRIER_FRESH_SERVE", st.ended = TRUE, st.status \notin Foreign,
           st.replay = s \/ (st.replay = Nobody /\ st.batches = q), NEW e,
           NEW t, t = Replayed(st, q)
    PROVE  IsStream(t) /\ ModeOK(s, t, e) /\ Delivers(s, t, s) /\ SameScan(st, t)
<1>1. st.produced \in Nat
  BY DEF Serving, IsStream
<1>2. Served(st, t, s, st.produced)
  BY <1>1, ReplayedFacts, Zenon
<1>3. ModeOK(s, t, e)
  <2>1. Scan(q, s, st.produced)
    BY DEF Serving
  <2>2. t.outcome = "OPEN" => Refreshed(s, t, e) /\ t.mode = "BARRIER_FRESH_SERVE"
    BY <1>2, <2>1 DEF Served, Refreshed, Keeps
  <2>3. t.pulling = FALSE /\ t.mode # "UNOPENED"
    BY <1>2 DEF Served
  <2> QED  BY <2>2, <2>3, Zenon DEF ModeOK
<1>4. Delivers(s, t, s)
  BY <1>2 DEF Served, Delivers, Keeps
<1> QED  BY <1>2, <1>3, <1>4 DEF Served, Keeps, SameScan

\* Next of a stream that serves what it has, or turns to the wrapped stream.
LEMMA PullHolds ==
    ASSUME IInv, NEW s \in Streams, Pull(s)
    PROVE  IInv'
<1>1. PICK st : st = streams[s]
  BY Zenon
<1>2. /\ IsStream(st) /\ ModeOK(s, st, entry) /\ Refers(st) /\ InWindow(st)
      /\ \E o \in Streams : Delivers(s, st, o)
      /\ st.status \notin Foreign => Delivers(s, st, s)
  BY <1>1, OneStream, Zenon
<1>3. st.mode # "UNOPENED" /\ st.outcome = "OPEN" /\ ~st.pulling /\ entry' = entry /\ cache' = cache
  BY <1>1 DEF Pull, Ready
<1>4. CASE st.mode = "FRESH_HIT_REPLAY" \/ st.mode = "STALE_SERVE"
  <2>1. PICK o \in Streams : Delivers(s, st, o)
    BY <1>2
  <2>2. PICK t : t = Replayed(st, entry[o].batches)
    BY ZenonT(40)
  <2>3. /\ Replaying(st, o, entry) /\ Prefix(st.delivered, o) /\ o # s
        /\ \/ st.mode = "FRESH_HIT_REPLAY" /\ st.status = "FRESH_HIT" /\ st.replay = o
           \/ st.mode = "STALE_SERVE" /\ st.status = "STALE_SERVED" /\ st.stale = o
    BY <1>2, <1>3, <1>4, <2>1, Zenon DEF ModeOK, Delivers, Foreign
  <2>4. Whole(o)
    BY <1>2, <2>3, NamesAssumption, Zenon DEF Refers
  <2>5. streams' = [streams EXCEPT ![s] = t]
    BY <1>1, <1>4, <2>2, <2>3, Zenon DEF Pull, Put, ServeStale
  <2>6. /\ ~streams[s].ended /\ st.ended = streams[s].ended /\ Len(st.delivered) = st.index
        /\ st.index <= Len(entry[o].batches)
    BY <1>1, <2>3 DEF Replaying
  <2> QED  BY <1>2, <1>3, <2>2, <2>3, <2>4, <2>5, <2>6, ReplayHolds, Zenon
<1>5. CASE st.mode = "BARRIER_FRESH_SERVE"
  <2>1. Refreshed(s, st, entry) /\ Delivers(s, st, s)
    BY <1>2, <1>3, <1>5, Zenon DEF ModeOK, Refreshed
  <2>2. PICK q : q = IF st.replay # Nobody THEN entry[st.replay].batches ELSE st.batches
    BY Zenon
  <2>3. q \in Seq(Batches) /\ Scan(q, s, st.produced) /\ (st.replay = s \/ (st.replay = Nobody /\ st.batches = q))
    BY <1>1, <1>2, <2>1, <2>2, NamesAssumption, Zenon DEF Refreshed, Refers, Whole, IInv, StateOK, IsStream
  <2>4. PICK t : t = Replayed(st, q)
    BY Zenon
  <2>5. streams' = [streams EXCEPT ![s] = t]
    BY <1>1, <1>5, <2>2, <2>4 DEF Pull, Put, ServeBarrierFresh
  <2>6. /\ st.ended = TRUE /\ st.status \notin Foreign /\ Prefix(st.delivered, s)
        /\ Len(st.delivered) = st.index /\ st.index <= st.produced
    BY <2>1 DEF Refreshed, Delivers
  <2>7. IsStream(t) /\ ModeOK(s, t, entry) /\ Delivers(s, t, s) /\ SameScan(st, t)
    <3>1. Serving(st, q, s, st.produced)
      BY <1>2, <1>3, <2>3, <2>6 DEF Serving
    <3> QED  BY <1>5, <2>3, <2>4, <2>6, <3>1, FreshFacts, Zenon
  <2>8. Refers(t) /\ InWindow(t) /\ t.ended /\ t.produced = st.produced
    BY <1>2, <2>6, <2>7 DEF Refers, InWindow, Foreign, SameScan
  <2> QED  BY <1>1, <1>3, <2>5, <2>7, <2>8, LocalStep, ZenonT(40)
<1>6. CASE st.mode = "BARRIER_DRAIN_EMIT"
  <2>1. PICK t : t = ServeBarrierDrainEmit(st)
    BY ZenonT(40)
  <2>2. ~st.ended /\ st.status \notin Foreign /\ Emitting(s, st) /\ Prefix(st.delivered, s)
    BY <1>2, <1>3, <1>6, Zenon DEF ModeOK, Delivers
  <2>3. Emitted(s, st, t)
    BY <1>2, <1>3, <1>6, <2>1, <2>2, EmittedFacts, Zenon
  <2>4. streams' = [streams EXCEPT ![s] = t]
    BY <1>1, <1>6, <2>1, SMTT(30) DEF Pull, Put
  <2>5. Refers(t) /\ InWindow(t) /\ ModeOK(s, t, entry) /\ Delivers(s, t, s)
    BY <1>2, <2>2, <2>3, Zenon DEF Emitted, Refers, InWindow, ModeOK, Delivers, Keeps
  <2>6. ~streams[s].ended /\ IsStream(t)
    BY <1>1, <2>2, <2>3, Zenon DEF Emitted
  <2> QED  BY <1>3, <2>3, <2>4, <2>5, <2>6, LocalStep, Zenon
<1>7. CASE st.mode \notin {"FRESH_HIT_REPLAY", "STALE_SERVE", "BARRIER_FRESH_SERVE", "BARRIER_DRAIN_EMIT"}
  <2>1. PICK t : t = [st EXCEPT !.pulling = TRUE]
    BY Zenon
  <2>2. streams' = [streams EXCEPT ![s] = t]
    BY <1>1, <1>7, <2>1, Zenon DEF Pull, Put
  <2>3. /\ IsStream(t) /\ t.mode = st.mode /\ t.outcome = "OPEN" /\ t.replay = st.replay /\ t.stale = st.stale
        /\ t.status = st.status /\ t.age = st.age /\ t.produced = st.produced /\ t.ended = st.ended
        /\ t.delivered = st.delivered /\ t.batches = st.batches /\ t.cacheable = st.cacheable
    BY <1>2, <1>3, <2>1 DEF IsStream, Fields
  <2>4. Refers(t) /\ InWindow(t)
    BY <1>2, <2>3 DEF Refers, InWindow
  <2>5. ModeOK(s, t, entry)
    <3>1. st.mode \in {"ACCUMULATING_MISS", "BARRIER_BUFFERING", "BARRIER_DRAINED_UNCACHED"}
      BY <1>2, <1>3, <1>7, Zenon DEF ModeOK
    <3>2. ~t.ended
      BY <1>2, <1>3, <2>3, <3>1, Zenon DEF ModeOK
    <3> QED  BY <1>2, <1>3, <2>3, <3>1, <3>2, Zenon DEF ModeOK
  <2>6. \E o \in Streams : Delivers(s, t, o)
    BY <1>2, <1>3, <2>3, Zenon DEF Delivers
  <2> QED  BY <1>1, <1>3, <2>2, <2>3, <2>4, <2>5, <2>6, LocalStep, Zenon
<1> QED  BY <1>4, <1>5, <1>6, <1>7

-----------------------------------------------------------------------------

\* A stream that waits for the wrapped stream.
LEMMA PullingFacts ==
    ASSUME IInv, NEW s \in Streams, NEW st, st = streams[s], st.pulling
    PROVE  /\ IsStream(st) /\ Refers(st) /\ InWindow(st) /\ ModeOK(s, st, entry) /\ Delivers(s, st, s)
           /\ st.outcome = "OPEN" /\ ~st.ended /\ st.status \notin Foreign
           /\ st.mode \in {"ACCUMULATING_MISS", "BARRIER_BUFFERING", "BARRIER_DRAINED_UNCACHED"}
<1>1. IsStream(st) /\ Refers(st) /\ InWindow(st) /\ ModeOK(s, st, entry) /\ (st.status \notin Foreign => Delivers(s, st, s))
  BY OneStream, Zenon
<1>2. st.outcome = "OPEN" /\ ~st.ended
  BY <1>1, Zenon DEF ModeOK
<1>3. st.mode # "UNOPENED"
  BY <1>1, NewStreamFacts, Zenon DEF ModeOK
<1>4. st.mode \in {"ACCUMULATING_MISS", "BARRIER_BUFFERING", "BARRIER_DRAINED_UNCACHED"}
  BY <1>1, <1>2, <1>3, Zenon DEF ModeOK, Replaying, Refreshed
<1>5. st.status \notin Foreign
  BY <1>1, <1>2, <1>4, Zenon DEF ModeOK
<1> QED  BY <1>1, <1>2, <1>4, <1>5

\* Stream st, which has passed on all batches so far, has become u with the next
\* one, and t is u after that is passed on, too.
Passing(s, st, u) ==
    /\ IsStream(st) /\ ~st.ended /\ Prefix(st.delivered, s) /\ Len(st.delivered) = st.produced
    /\ IsStream(u) /\ u.produced = st.produced + 1 /\ u.delivered = st.delivered
    /\ u.outcome = "OPEN" /\ u.ended = st.ended

Passed(s, u, t) ==
    /\ IsStream(t) /\ Prefix(t.delivered, s) /\ Len(t.delivered) = t.produced
    /\ t.outcome = "OPEN" /\ ~t.ended /\ t.pulling = FALSE /\ t.mode = u.mode /\ t.status = u.status
    /\ t.replay = u.replay /\ t.stale = u.stale /\ t.batches = u.batches /\ t.cacheable = u.cacheable
    /\ t.produced = u.produced

\* A batch that goes on to the caller at once, whether or not it is retained.
LEMMA PassedFacts ==
    ASSUME NEW s \in Streams, NEW st, NEW u, Passing(s, st, u), NEW b, b = <<s, u.produced>>,
           NEW t, t = Deliver(u, b)
    PROVE  Passed(s, u, t)
<1>1. PICK d : d = Append(st.delivered, b)
  BY Zenon
<1>2. DOMAIN u = Fields
  BY DEF Passing, IsStream
<1>3. d \in Seq(Batches) /\ Len(d) = u.produced /\ Prefix(d, s)
  BY <1>1, PrefixAppend DEF Passing, IsStream
<1>4. t = [u EXCEPT !.delivered = d, !.pulling = FALSE]
  BY <1>1, <1>2 DEF Passing, Deliver, Fields
<1>5. /\ t.delivered = d /\ t.produced = u.produced /\ t.index = u.index /\ t.batches = u.batches
      /\ DOMAIN t = Fields
  BY <1>2, <1>4, Zenon DEF Fields
<1>6. t.pulling = FALSE /\ t.ended = u.ended /\ t.cacheable = u.cacheable
  BY <1>2, <1>4, Zenon DEF Fields
<1>7. t.outcome = u.outcome /\ t.mode = u.mode /\ t.status = u.status /\ t.replay = u.replay /\ t.stale = u.stale
  BY <1>2, <1>4, Zenon DEF Fields
<1>8. IsStream(t)
  BY <1>3, <1>5, Zenon DEF Passing, IsStream
<1> QED  BY <1>3, <1>5, <1>6, <1>7, <1>8, Zenon DEF Passed, Passing

\* The wrapped stream yields a batch.
LEMMA BatchHolds ==
    ASSUME IInv, NEW s \in Streams, NEW size, NEW retained \in BOOLEAN, BatchArrives(s, size, retained)
    PROVE  IInv'
<1>1. PICK st : st = streams[s]
  BY Zenon
<1>2. PICK n : n = st.produced + 1
  BY Zenon
<1>3. PICK v : v = [st EXCEPT !.produced = n]
  BY Zenon
<1>4. PICK b : b = <<s, n>>
  BY Zenon
<1>5. /\ IsStream(st) /\ Refers(st) /\ InWindow(st) /\ ModeOK(s, st, entry) /\ Delivers(s, st, s)
      /\ st.outcome = "OPEN" /\ ~st.ended /\ st.status \notin Foreign /\ st.pulling
      /\ st.mode \in {"ACCUMULATING_MISS", "BARRIER_BUFFERING", "BARRIER_DRAINED_UNCACHED"}
  <2>1. st.pulling
    BY <1>1 DEF BatchArrives
  <2> QED  BY <1>1, <2>1, PullingFacts, Zenon
<1>6. n \in Nat /\ st.produced \in Nat /\ b \in Batches /\ Prefix(st.delivered, s)
  BY <1>2, <1>4, <1>5 DEF IsStream, Batches, Owners, Delivers
<1>7. /\ IsStream(v) /\ v.produced = n /\ v.delivered = st.delivered /\ v.outcome = "OPEN" /\ v.ended = st.ended
      /\ v.mode = st.mode /\ v.status = st.status /\ v.replay = st.replay /\ v.stale = st.stale
      /\ v.batches = st.batches /\ v.cacheable = st.cacheable /\ v.pulling = st.pulling
  BY <1>3, <1>5, <1>6, Zenon DEF IsStream, Fields
<1>8. v = [streams[s] EXCEPT !.produced = @ + 1] /\ b = <<s, v.produced>>
  BY <1>1, <1>2, <1>3, <1>4, <1>7
<1>9. /\ entry' = entry /\ cache' = cache /\ ~streams[s].ended
      /\ streams' = [streams EXCEPT ![s] = Arrived(v, b, size, retained)]
  BY <1>1, <1>5, <1>8, Zenon DEF BatchArrives, Put
<1>10. ASSUME NEW t, IsStream(t), t.status \notin Foreign, t.replay \in {st.replay, Nobody},
              t.stale \in {st.stale, Nobody}, ModeOK(s, t, entry), t.outcome = "OPEN", Prefix(t.delivered, s),
              t.mode \notin {"FRESH_HIT_REPLAY", "STALE_SERVE"}, streams' = [streams EXCEPT ![s] = t]
       PROVE  IInv'
  <2>1. Refers(t) /\ InWindow(t) /\ Delivers(s, t, s)
    BY <1>5, <1>10, Zenon DEF Refers, InWindow, Delivers, Foreign
  <2> QED  BY <1>9, <1>10, <2>1, LocalStep, ZenonT(40)
<1>11. CASE st.mode = "ACCUMULATING_MISS"
  <2>1. PICK u : u = IF retained THEN Retained(v, b, size)
                     ELSE IF ~v.cacheable THEN v
                     ELSE [ClearCandidate(v) EXCEPT !.cacheable = FALSE, !.status = "STORE_BYPASSED_CAPACITY"]
    BY Zenon
  <2>2. PICK t : t = Deliver(u, b)
    BY Zenon
  <2>3. streams' = [streams EXCEPT ![s] = t]
    <3>1. t = Arrived(v, b, size, retained)
      BY <1>7, <1>11, <2>1, <2>2, ZenonT(40) DEF Arrived
    <3> QED  BY <1>9, <3>1, Zenon
  <2>4. Len(st.delivered) = st.produced /\ (st.cacheable => Scan(st.batches, s, st.produced))
    BY <1>5, <1>11, Zenon DEF ModeOK
  <2>5. /\ IsStream(u) /\ u.produced = n /\ u.delivered = st.delivered /\ u.outcome = "OPEN" /\ u.ended = st.ended
        /\ u.mode = st.mode /\ u.status \notin Foreign /\ u.replay = st.replay /\ u.stale = st.stale
        /\ u.cacheable => Scan(u.batches, s, n)
    <3>1. CASE retained
      <4>1. st.cacheable
        BY <1>7, <1>8, <3>1 DEF BatchArrives
      <4>2. PICK q : q = Append(st.batches, b)
        BY Zenon
      <4>3. q \in Seq(Batches) /\ Scan(q, s, n)
        BY <1>2, <1>4, <1>5, <1>6, <2>4, <4>1, <4>2, PrefixAppend DEF IsStream, Scan
      <4>4. u = [v EXCEPT !.batches = q, !.size = v.size + size, !.permit = v.size + size]
        BY <1>7, <2>1, <3>1, <4>2 DEF Retained, IsStream, Fields
      <4> QED  BY <1>5, <1>7, <4>3, <4>4 DEF IsStream, Fields
    <3>2. CASE ~retained /\ ~v.cacheable
      BY <1>5, <1>7, <2>1, <3>2
    <3>3. CASE ~retained /\ v.cacheable
      <4>1. u = [v EXCEPT !.batches = <<>>, !.size = 0, !.permit = 0, !.cacheable = FALSE,
                          !.status = "STORE_BYPASSED_CAPACITY"]
        BY <1>7, <2>1, <3>3 DEF ClearCandidate, IsStream, Fields
      <4>2. <<>> \in Seq(Batches)
        OBVIOUS
      <4> QED  BY <1>5, <1>7, <4>1, <4>2 DEF IsStream, Fields, Foreign
    <3> QED  BY <3>1, <3>2, <3>3, Zenon
  <2>6. Passed(s, u, t)
    <3>1. Passing(s, st, u) /\ b = <<s, u.produced>>
      BY <1>2, <1>5, <1>6, <2>4, <2>5, <1>4 DEF Passing
    <3> QED  BY <1>4, <2>2, <2>5, <3>1, PassedFacts, Zenon
  <2>7. ModeOK(s, t, entry)
    BY <1>11, <2>5, <2>6, Zenon DEF Passed, ModeOK
  <2> QED  BY <1>10, <1>11, <2>3, <2>5, <2>6, <2>7, Zenon DEF Passed
<1>12. CASE st.mode = "BARRIER_BUFFERING" /\ retained
  <2>1. PICK t : t = Retained(v, b, size)
    BY Zenon
  <2>2. streams' = [streams EXCEPT ![s] = t]
    <3>1. t = Arrived(v, b, size, retained)
      BY <1>7, <1>12, <2>1, ZenonT(40) DEF Arrived
    <3> QED  BY <1>9, <3>1, Zenon
  <2>3. /\ st.delivered = <<>> /\ Scan(st.batches, s, st.produced) /\ st.stale \in Streams
        /\ st.replay = Nobody
    BY <1>5, <1>12, Zenon DEF ModeOK
  <2>4. PICK q : q = Append(st.batches, b)
    BY Zenon
  <2>5. q \in Seq(Batches) /\ Scan(q, s, n)
    BY <1>2, <1>4, <1>5, <1>6, <2>3, <2>4, PrefixAppend DEF IsStream, Scan
  <2>6. t = [v EXCEPT !.batches = q, !.size = v.size + size, !.permit = v.size + size]
    BY <1>7, <2>1, <2>4 DEF Retained, IsStream, Fields
  <2>7. /\ IsStream(t) /\ t.produced = n /\ t.delivered = st.delivered /\ t.outcome = "OPEN" /\ t.ended = st.ended
        /\ t.mode = st.mode /\ t.status = st.status /\ t.replay = st.replay /\ t.stale = st.stale
        /\ t.batches = q
    BY <1>7, <2>5, <2>6, SMTT(30) DEF IsStream, Fields
  <2>8. ModeOK(s, t, entry)
    BY <1>5, <1>12, <2>3, <2>5, <2>7, Zenon DEF ModeOK
  <2> QED  BY <1>5, <1>6, <1>10, <1>12, <2>2, <2>7, <2>8, Zenon
<1>13. CASE st.mode = "BARRIER_BUFFERING" /\ ~retained
  <2>1. PICK u : u = [v EXCEPT !.pending = b, !.index = 0, !.stale = Nobody, !.mode = "BARRIER_DRAIN_EMIT",
                              !.status = "REFRESH_STREAMED_CAPACITY"]
    BY Zenon
  <2>2. PICK t : t = ServeBarrierDrainEmit(u)
    BY Zenon
  <2>3. streams' = [streams EXCEPT ![s] = t]
    <3>1. t = Arrived(v, b, size, retained)
      BY <1>7, <1>13, <2>1, <2>2, ZenonT(40) DEF Arrived
    <3> QED  BY <1>9, <3>1, Zenon
  <2>4. /\ st.delivered = <<>> /\ Scan(st.batches, s, st.produced) /\ st.replay = Nobody
    BY <1>5, <1>13, Zenon DEF ModeOK
  <2>5. /\ IsStream(u) /\ u.produced = n /\ u.delivered = <<>> /\ u.outcome = "OPEN" /\ u.ended = st.ended
        /\ u.mode = "BARRIER_DRAIN_EMIT" /\ u.status = "REFRESH_STREAMED_CAPACITY" /\ u.replay = Nobody
        /\ u.stale = Nobody /\ u.batches = st.batches /\ u.pending = b /\ u.index = 0
    BY <1>7, <2>1, <2>4, Zenon DEF IsStream, Fields
  <2>6. Len(<<>>) = 0 /\ Prefix(<<>>, s) /\ n - 1 = st.produced /\ n > 0
    BY <1>2, <1>6 DEF Prefix
  <2>7. Emitting(s, u)
    BY <1>4, <1>6, <2>4, <2>5, <2>6 DEF Emitting
  <2>8. Emitted(s, u, t)
    BY <2>2, <2>5, <2>6, <2>7, EmittedFacts, ZenonT(40)
  <2>9. ModeOK(s, t, entry)
    BY <1>5, <2>5, <2>8, Zenon DEF Emitted, ModeOK, Keeps, Foreign
  <2>10. /\ IsStream(t) /\ t.status \notin Foreign /\ t.replay = Nobody /\ t.stale = Nobody /\ t.outcome = "OPEN"
         /\ Prefix(t.delivered, s) /\ t.mode \notin {"FRESH_HIT_REPLAY", "STALE_SERVE"}
    BY <2>5, <2>8, Zenon DEF Emitted, Keeps, Foreign
  <2> QED  BY <1>10, <2>3, <2>9, <2>10, Zenon
<1>14. CASE st.mode = "BARRIER_DRAINED_UNCACHED"
  <2>1. PICK t : t = Deliver(v, b)
    BY Zenon
  <2>2. streams' = [streams EXCEPT ![s] = t]
    <3>1. t = Arrived(v, b, size, retained)
      BY <1>7, <1>14, <2>1, ZenonT(40) DEF Arrived
    <3> QED  BY <1>9, <3>1, Zenon
  <2>3. Len(st.delivered) = st.produced
    BY <1>5, <1>14, Zenon DEF ModeOK
  <2>4. Passed(s, v, t)
    <3>1. Passing(s, st, v) /\ b = <<s, v.produced>>
      BY <1>2, <1>5, <1>6, <1>7, <2>3, <1>4 DEF Passing
    <3> QED  BY <1>4, <1>7, <2>1, <3>1, PassedFacts, Zenon
  <2>5. ModeOK(s, t, entry)
    BY <1>5, <1>7, <1>14, <2>4, Zenon DEF Passed, ModeOK
  <2> QED  BY <1>5, <1>7, <1>10, <1>14, <2>2, <2>4, <2>5, Zenon DEF Passed
<1> QED  BY <1>5, <1>11, <1>12, <1>13, <1>14

-----------------------------------------------------------------------------

\* Publication puts the candidate of stream s in its entry and under its key,
\* and takes entries out of the map, or does nothing.
LEMMA PublishFacts ==
    ASSUME IInv, NEW s \in Streams, NEW stored \in BOOLEAN, PublishReserved(s, stored)
    PROVE  /\ DOMAIN entry' = Streams /\ \A o \in Streams : o # s => entry'[o] = entry[o]
           /\ stored => entry'[s].batches = streams[s].batches
           /\ ~stored => entry' = entry
           /\ DOMAIN cache' = DOMAIN cache /\ DOMAIN cache'.map = Keys
           /\ \A k \in Keys : cache'.map[k] \in {Nobody, cache.map[k]} \/ (stored /\ cache'.map[k] = s)
<1>1. DOMAIN cache = {"map", "order", "bytes", "closed"} /\ DOMAIN cache.map = Keys /\ DOMAIN entry = Streams
  BY Zenon DEF IInv, StateOK
<1>2. CASE ~stored
  BY <1>1, <1>2 DEF PublishReserved
<1>3. CASE stored
  <2>1. PICK x : x = [batches |-> streams[s].batches, stored |-> now, size |-> streams[s].size,
                      permit |-> streams[s].permit, order |-> cache.order]
    BY Zenon
  <2>2. PICK e : e = [entry EXCEPT ![s] = x]
    BY Zenon
  <2>3. PICK c : c = [cache EXCEPT !.map[streams[s].key] = s, !.order = @ + 1,
                        !.bytes = @ - Replaced(cache, streams[s].key, entry) + streams[s].size]
    BY Zenon
  <2>4. PICK gone : gone = Evicted(c, e)
    BY Zenon
  <2>5. PICK n : n = BytesIn(c, e, gone)
    BY Zenon
  <2>6. PICK d : d = [c EXCEPT !.map = [k \in Keys |-> IF k \in gone THEN Nobody ELSE @[k]], !.bytes = @ - n]
    BY Zenon
  <2>7. d = EvictIfNeeded(c, e)
    BY <2>4, <2>5, <2>6, Zenon DEF EvictIfNeeded
  <2>8. Published(s) = [entry |-> e, cache |-> d]
    BY <2>1, <2>2, <2>3, <2>7, Zenon DEF Published
  <2>9. entry' = e /\ cache' = d
    BY <1>3, <2>8 DEF PublishReserved
  <2>10. DOMAIN c = DOMAIN cache /\ \A k \in Keys : c.map[k] \in {s, cache.map[k]}
    BY <1>1, <2>3
  <2>11. DOMAIN d = DOMAIN c /\ DOMAIN d.map = Keys /\ \A k \in Keys : d.map[k] \in {Nobody, c.map[k]}
    BY <1>1, <2>6, <2>10
  <2>12. \A k \in Keys : d.map[k] \in {Nobody, cache.map[k], s}
    BY <2>10, <2>11
  <2>13. DOMAIN e = Streams /\ e[s].batches = streams[s].batches /\ \A o \in Streams : o # s => e[o] = entry[o]
    BY <1>1, <2>1, <2>2
  <2> QED  BY <1>3, <2>9, <2>10, <2>11, <2>12, <2>13
<1> QED  BY <1>2, <1>3, Zenon

\* A stream that has published its candidate, or not, has ended its scan.
LEMMA EndStep ==
    ASSUME IInv, NEW s \in Streams, NEW stored \in BOOLEAN, PublishReserved(s, stored), NEW st, st = streams[s],
           IsStream(st), Refers(st), ~st.ended, Scan(st.batches, s, st.produced),
           NEW t, IsStream(t), streams' = [streams EXCEPT ![s] = t],
           t.ended, t.produced = st.produced, t.status \notin Foreign,
           t.replay \in {st.replay, Nobody} \/ (stored /\ t.replay = s), t.stale \in {st.stale, Nobody},
           ModeOK(s, t, entry'), Delivers(s, t, s)
    PROVE  IInv'
<1>1. /\ DOMAIN entry' = Streams /\ \A o \in Streams : o # s => entry'[o] = entry[o]
      /\ stored => entry'[s].batches = streams[s].batches
      /\ ~stored => entry' = entry
      /\ DOMAIN cache' = DOMAIN cache /\ DOMAIN cache'.map = Keys
      /\ \A k \in Keys : cache'.map[k] \in {Nobody, cache.map[k]} \/ (stored /\ cache'.map[k] = s)
  BY PublishFacts, Zenon
<1>2. \A o \in Streams : streams[o].ended => entry'[o] = entry[o]
  BY <1>1, Zenon
<1>3. \A o : Whole(o) => Whole(o)'
  BY <1>2, WholeKept, ZenonT(40)
<1>4. stored => Whole(s)'
  BY <1>1, Zenon DEF Whole, IInv, StateOK
<1>5. MapWhole'
  BY <1>1, <1>3, <1>4, Zenon DEF IInv, MapWhole
<1>6. Refers(t)'
  BY <1>3, <1>4, Zenon DEF Refers
<1>7. \A o \in Streams : entry'[o].batches \in Seq(Batches)
  BY <1>1, Zenon DEF IInv, StateOK, IsStream
<1>8. InWindow(t)
  BY DEF InWindow, Foreign
<1>9. ~streams[s].ended
  OBVIOUS
<1> QED  BY <1>1, <1>2, <1>5, <1>6, <1>7, <1>8, <1>9, StreamStep, ZenonT(40)

\* The wrapped stream ends.
LEMMA EndHolds ==
    ASSUME IInv, NEW s \in Streams, NEW stored \in BOOLEAN, ScanEnds(s, stored)
    PROVE  IInv'
<1>1. PICK st : st = streams[s]
  BY Zenon
<1>2. /\ IsStream(st) /\ Refers(st) /\ InWindow(st) /\ ModeOK(s, st, entry) /\ Delivers(s, st, s)
      /\ st.outcome = "OPEN" /\ ~st.ended /\ st.status \notin Foreign
      /\ st.mode \in {"ACCUMULATING_MISS", "BARRIER_BUFFERING", "BARRIER_DRAINED_UNCACHED"}
  <2>1. st.pulling
    BY <1>1 DEF ScanEnds
  <2> QED  BY <1>1, <2>1, PullingFacts, Zenon
<1>3. PICK v : v = [st EXCEPT !.ended = TRUE]
  BY Zenon
<1>4. PICK status : status = IF stored THEN "REFRESHED" ELSE "STORE_BYPASSED_CAPACITY"
  BY Zenon
<1>5. /\ IsStream(v) /\ v.ended = TRUE /\ v.mode = st.mode /\ v.cacheable = st.cacheable
      /\ v.produced = st.produced /\ v.delivered = st.delivered /\ v.status = st.status /\ v.outcome = "OPEN"
      /\ v.replay = st.replay /\ v.stale = st.stale /\ v.batches = st.batches
  BY <1>2, <1>3 DEF IsStream, Fields
<1>6. <<>> \in Seq(Batches) /\ status \notin Foreign /\ Prefix(st.delivered, s)
  BY <1>2, <1>4 DEF Foreign, Delivers
<1>7. CASE st.mode = "ACCUMULATING_MISS" /\ st.cacheable
  <2>1. PICK t : t = Drained([ClearCandidate(v) EXCEPT !.status = status, !.cacheable = FALSE])
    BY Zenon
  <2>2. PublishReserved(s, stored) /\ streams' = [streams EXCEPT ![s] = t]
    BY <1>1, <1>3, <1>4, <1>5, <1>7, <2>1, Zenon DEF ScanEnds, Put
  <2>3. t = [v EXCEPT !.batches = <<>>, !.size = 0, !.permit = 0, !.status = status, !.cacheable = FALSE,
                      !.outcome = "SUCCEEDED", !.pulling = FALSE, !.mode = "DRAINED"]
    BY <1>5, <2>1 DEF Drained, Finish, ClearCandidate, IsStream, Fields
  <2>4. /\ IsStream(t) /\ t.ended = TRUE /\ t.produced = st.produced /\ t.status = status
        /\ t.replay = st.replay /\ t.stale = st.stale /\ t.delivered = st.delivered
        /\ t.outcome = "SUCCEEDED" /\ t.mode = "DRAINED" /\ t.pulling = FALSE
    BY <1>5, <1>6, <2>3, SMTT(30) DEF IsStream, Fields
  <2>5. Scan(st.batches, s, st.produced) /\ Len(st.delivered) = st.produced
    BY <1>2, <1>7, Zenon DEF ModeOK
  <2>6. Delivers(s, t, s)
    BY <1>6, <2>4, <2>5, Zenon DEF Delivers
  <2>7. ModeOK(s, t, entry')
    BY <2>4, Zenon DEF ModeOK
  <2>8. t.ended /\ t.status \notin Foreign /\ t.replay \in {st.replay, Nobody} /\ t.stale \in {st.stale, Nobody}
    BY <1>6, <2>4, Zenon
  <2> QED  BY <1>1, <1>2, <2>2, <2>4, <2>5, <2>6, <2>7, <2>8, EndStep, Zenon
<1>8. CASE st.mode = "BARRIER_BUFFERING"
  <2>1. PICK e : e = IF stored THEN Published(s).entry ELSE entry
    BY Zenon
  <2>2. PICK kept : kept = IF stored THEN [ClearCandidate(v) EXCEPT !.replay = s] ELSE v
    BY Zenon
  <2>3. PICK u : u = [kept EXCEPT !.stale = Nobody, !.index = 0, !.status = status, !.mode = "BARRIER_FRESH_SERVE"]
    BY Zenon
  <2>4. PICK t : t = ServeBarrierFresh(u, e)
    BY Zenon
  <2>5. PublishReserved(s, stored) /\ streams' = [streams EXCEPT ![s] = t]
    BY <1>1, <1>3, <1>4, <1>5, <1>8, <2>1, <2>2, <2>3, <2>4, ZenonT(40) DEF ScanEnds, Put
  <2>6. e = entry' /\ (stored => e[s].batches = st.batches)
    BY <1>1, <2>1, <2>5, PublishFacts, Zenon DEF PublishReserved
  <2>7. Scan(st.batches, s, st.produced) /\ st.delivered = <<>> /\ st.replay = Nobody
    BY <1>2, <1>8, Zenon DEF ModeOK
  <2>8. /\ IsStream(u) /\ u.ended = TRUE /\ u.produced = st.produced /\ u.status = status /\ u.stale = Nobody
        /\ u.mode = "BARRIER_FRESH_SERVE" /\ u.outcome = "OPEN" /\ u.index = 0 /\ u.delivered = <<>>
        /\ stored => u.replay = s
        /\ ~stored => u.replay = Nobody /\ u.batches = st.batches
    <3>1. CASE stored
      <4>1. u = [v EXCEPT !.batches = <<>>, !.size = 0, !.permit = 0, !.replay = s, !.stale = Nobody, !.index = 0,
                          !.status = status, !.mode = "BARRIER_FRESH_SERVE"]
        BY <1>5, <2>2, <2>3, <3>1 DEF ClearCandidate, IsStream, Fields
      <4> QED  BY <1>5, <1>6, <2>7, <3>1, <4>1, Zenon DEF IsStream, Fields
    <3>2. CASE ~stored
      BY <1>5, <2>2, <2>3, <2>7, <3>2, ZenonT(40) DEF IsStream, Fields
    <3> QED  BY <3>1, <3>2, Zenon
  <2>9. t = Replayed(u, st.batches)
    BY <2>4, <2>6, <2>8, NamesAssumption, Zenon DEF ServeBarrierFresh
  <2>10. Serving(u, st.batches, s, u.produced) /\ (u.replay = s \/ (u.replay = Nobody /\ u.batches = st.batches))
    <3>1. Len(<<>>) = 0 /\ Prefix(<<>>, s) /\ 0 <= st.produced /\ st.batches \in Seq(Batches)
      BY <1>2 DEF Prefix, IsStream
    <3> QED  BY <2>7, <2>8, <3>1, Zenon DEF Serving
  <2>11. IsStream(t) /\ ModeOK(s, t, e) /\ Delivers(s, t, s) /\ SameScan(u, t)
    BY <1>6, <2>8, <2>9, <2>10, FreshFacts, ZenonT(40)
  <2>12. /\ t.ended /\ t.produced = st.produced /\ t.status \notin Foreign
         /\ t.replay \in {st.replay, Nobody} \/ (stored /\ t.replay = s)
         /\ t.stale \in {st.stale, Nobody} /\ ModeOK(s, t, entry')
    BY <1>6, <2>6, <2>8, <2>11, Zenon DEF SameScan
  <2> QED  BY <1>1, <1>2, <2>5, <2>7, <2>11, <2>12, EndStep, Zenon
<1>9. CASE ~(st.mode = "ACCUMULATING_MISS" /\ st.cacheable) /\ st.mode # "BARRIER_BUFFERING"
  <2>1. PICK t : t = Drained(v)
    BY Zenon
  <2>2. streams' = [streams EXCEPT ![s] = t] /\ entry' = entry /\ cache' = cache
    BY <1>1, <1>3, <1>5, <1>9, <2>1, ZenonT(40) DEF ScanEnds, Put
  <2>3. t = [v EXCEPT !.outcome = "SUCCEEDED", !.pulling = FALSE, !.mode = "DRAINED"]
    BY <1>5, <2>1 DEF Drained, Finish, IsStream, Fields
  <2>4. /\ IsStream(t) /\ t.ended = TRUE /\ t.produced = st.produced /\ t.status = st.status
        /\ t.replay = st.replay /\ t.stale = st.stale /\ t.delivered = st.delivered
        /\ t.outcome = "SUCCEEDED" /\ t.mode = "DRAINED" /\ t.pulling = FALSE
    BY <1>5, <2>3 DEF IsStream, Fields
  <2>5. Len(st.delivered) = st.produced
    BY <1>2, <1>9, Zenon DEF ModeOK
  <2>6. Delivers(s, t, s)
    BY <1>2, <1>6, <2>4, <2>5, Zenon DEF Delivers
  <2>7. ModeOK(s, t, entry) /\ Refers(t) /\ InWindow(t) /\ ~streams[s].ended
    BY <1>1, <1>2, <2>4, Zenon DEF ModeOK, Refers, InWindow, Foreign
  <2> QED  BY <2>2, <2>4, <2>6, <2>7, LocalStep, Zenon
<1> QED  BY <1>7, <1>8, <1>9

\* A failure ends the stream, without telling it anything new of its batches.
LEMMA FailedFacts ==
    ASSUME NEW st, IsStream(st), st.outcome = "OPEN", NEW t, t = Failed(st)
    PROVE  /\ IsStream(t) /\ t.status = st.status /\ t.age = st.age /\ t.delivered = st.delivered
           /\ t.outcome = "FAILED" /\ t.mode = "FAILED" /\ t.pulling = FALSE
           /\ t.replay = Nobody /\ t.stale = Nobody
<1>1. t = [st EXCEPT !.replay = Nobody, !.stale = Nobody, !.batches = <<>>, !.size = 0, !.permit = 0,
                     !.outcome = "FAILED", !.pulling = FALSE, !.mode = "FAILED"]
  BY DEF Failed, Finish, ClearCandidate, ClearReplayEntries, IsStream, Fields
<1>2. <<>> \in Seq(Batches)
  OBVIOUS
<1> QED  BY <1>1, <1>2 DEF IsStream, Fields

\* The wrapped stream fails.
LEMMA FailHolds ==
    ASSUME IInv, NEW s \in Streams, NEW f, ScanFails(s, f)
    PROVE  IInv'
<1>1. PICK st : st = streams[s]
  BY Zenon
<1>2. /\ IsStream(st) /\ Refers(st) /\ InWindow(st) /\ ModeOK(s, st, entry) /\ Delivers(s, st, s)
      /\ st.outcome = "OPEN" /\ ~st.ended /\ st.status \notin Foreign
      /\ st.mode \in {"ACCUMULATING_MISS", "BARRIER_BUFFERING", "BARRIER_DRAINED_UNCACHED"}
  <2>1. st.pulling
    BY <1>1 DEF ScanFails
  <2> QED  BY <1>1, <2>1, PullingFacts, Zenon
<1>3. entry' = entry /\ cache' = cache /\ ~streams[s].ended
  BY <1>1, <1>2, Zenon DEF ScanFails
<1>4. CASE MayLatch(st, f)
  <2>1. PICK o : o = st.stale
    BY Zenon
  <2>2. PICK age : age = Age(entry[o].stored)
    BY Zenon
  <2>3. PICK u : u = [ClearCandidate(st) EXCEPT !.mode = "STALE_SERVE", !.index = 0, !.status = "STALE_SERVED",
                        !.cause = f, !.age = age]
    BY Zenon
  <2>4. PICK t : t = Replayed(u, entry[o].batches)
    BY ZenonT(40)
  <2>5. st.delivered = <<>> /\ o \in Streams /\ st.replay = Nobody /\ age < FreshTime + StaleTime
    BY <1>2, <1>4, <2>1, <2>2, Zenon DEF MayLatch, ModeOK, InStaleWindow
  <2>6. Whole(o) /\ o # s
    BY <1>1, <1>2, <2>1, <2>5, NamesAssumption, Zenon DEF Refers, Whole
  <2>7. u = [st EXCEPT !.batches = <<>>, !.size = 0, !.permit = 0, !.mode = "STALE_SERVE", !.index = 0,
                       !.status = "STALE_SERVED", !.cause = f, !.age = age]
    BY <1>2, <2>3 DEF ClearCandidate, IsStream, Fields
  <2>8. /\ DOMAIN u = Fields /\ u.batches = <<>> /\ u.delivered = <<>> /\ u.index = 0 /\ u.produced = st.produced
        /\ u.outcome = "OPEN" /\ u.ended = st.ended /\ u.mode = "STALE_SERVE" /\ u.status = "STALE_SERVED"
        /\ u.stale = o /\ u.replay = Nobody /\ u.age = age
    BY <1>2, <2>1, <2>5, <2>7, Zenon DEF IsStream, Fields
  <2>9. Len(<<>>) = 0 /\ <<>> \in Seq(Batches) /\ Prefix(<<>>, o) /\ 0 <= Len(entry[o].batches) /\ st.produced \in Nat
    BY <1>2, <2>5 DEF Prefix, IsStream
  <2>10. IsStream(u)
    BY <2>8, <2>9 DEF IsStream
  <2>11. /\ Refers(u) /\ InWindow(u) /\ Prefix(u.delivered, o) /\ Len(u.delivered) = u.index
         /\ u.index <= Len(entry[o].batches) /\ u.ended = streams[s].ended
    BY <1>1, <2>5, <2>6, <2>8, <2>9, Zenon DEF Refers, InWindow
  <2>12. streams' = [streams EXCEPT ![s] = t]
    <3>1. t = ServeStale(u)
      BY <2>4, <2>8, Zenon DEF ServeStale
    <3> QED  BY <1>1, <1>4, <2>1, <2>2, <2>3, <3>1, Zenon DEF ScanFails, Put
  <2> QED  BY <1>3, <2>4, <2>5, <2>6, <2>8, <2>10, <2>11, <2>12, ReplayHolds, Zenon
<1>5. CASE ~MayLatch(st, f)
  <2>1. PICK u : u = IF st.mode = "BARRIER_BUFFERING" /\ IsEligibleStaleFailure(f)
                     THEN [st EXCEPT !.status = "EXPIRED_DURING_REFRESH"] ELSE st
    BY Zenon
  <2>2. PICK t : t = Failed(u)
    BY Zenon
  <2>3. streams' = [streams EXCEPT ![s] = t]
    BY <1>1, <1>5, <2>1, <2>2, Zenon DEF ScanFails, Put
  <2>4. IsStream(u) /\ u.outcome = "OPEN" /\ u.status \notin Foreign /\ u.delivered = st.delivered
    BY <1>2, <2>1 DEF IsStream, Fields, Foreign
  <2>5. /\ IsStream(t) /\ t.status = u.status /\ t.age = u.age /\ t.delivered = u.delivered
        /\ t.outcome = "FAILED" /\ t.mode = "FAILED" /\ t.pulling = FALSE
        /\ t.replay = Nobody /\ t.stale = Nobody
    BY <2>2, <2>4, FailedFacts, Zenon
  <2>6. Refers(t) /\ ModeOK(s, t, entry) /\ InWindow(t) /\ Delivers(s, t, s)
    BY <1>2, <2>4, <2>5, Zenon DEF Refers, ModeOK, InWindow, Delivers, Foreign
  <2> QED  BY <1>3, <2>3, <2>5, <2>6, LocalStep, Zenon
<1> QED  BY <1>4, <1>5

\* A stream looks its key up.
LEMMA OpenHolds ==
    ASSUME IInv, NEW s \in Streams, NEW k \in Keys, NEW policy, Open(s, k, policy)
    PROVE  IInv'
<1>1. PICK st : st = [NewStream EXCEPT !.key = k]
  BY Zenon
<1>2. PICK hit : hit = cache.map[k]
  BY Zenon
<1>3. PICK age : age = Age(entry[hit].stored)
  BY Zenon
<1>4. entry' = entry /\ cache' = cache /\ streams[s] = NewStream
  BY DEF Open, IInv, ModesOK, ModeOK
<1>5. ~streams[s].ended
  BY <1>4, NewStreamFacts
<1>6. /\ DOMAIN st = Fields /\ st.outcome = "OPEN" /\ st.pulling = FALSE /\ st.ended = FALSE
      /\ st.status = "MISS" /\ st.replay = Nobody /\ st.stale = Nobody /\ st.produced = 0
      /\ st.index = 0 /\ st.batches = <<>> /\ st.delivered = <<>>
  BY <1>1, NewStreamFacts DEF IsStream, Fields
<1>7. Len(<<>>) = 0 /\ <<>> \in Seq(Batches) /\ \A o : Prefix(<<>>, o)
  BY DEF Prefix
<1>8. CASE Lookup(k, policy) = "FRESH_HIT"
  <2>1. hit # Nobody /\ age < FreshTime
    BY <1>2, <1>3, <1>8, Zenon DEF Lookup
  <2>2. Whole(hit) /\ hit # s /\ hit \in Streams
    BY <1>2, <1>5, <2>1, Zenon DEF IInv, MapWhole, Whole
  <2>3. PICK t : t = [st EXCEPT !.mode = "FRESH_HIT_REPLAY", !.replay = hit, !.status = "FRESH_HIT", !.age = age]
    BY Zenon
  <2>4. streams' = [streams EXCEPT ![s] = t]
    BY <1>1, <1>2, <1>3, <1>8, <2>3, Zenon DEF Open, Put
  <2>5. /\ DOMAIN t = Fields /\ t.outcome = "OPEN" /\ t.pulling = FALSE /\ t.ended = FALSE
        /\ t.status = "FRESH_HIT" /\ t.replay = hit /\ t.stale = Nobody /\ t.produced = 0 /\ t.age = age
        /\ t.index = 0 /\ t.batches = <<>> /\ t.delivered = <<>> /\ t.mode = "FRESH_HIT_REPLAY"
    BY <1>6, <2>3 DEF Fields
  <2>6. IsStream(t) /\ Refers(t) /\ InWindow(t)
    BY <1>7, <2>1, <2>2, <2>5 DEF IsStream, Refers, InWindow
  <2>7. 0 <= Len(entry[hit].batches)
    BY <2>2
  <2>8. ModeOK(s, t, entry) /\ Delivers(s, t, hit)
    BY <1>7, <2>2, <2>5, <2>7, Zenon DEF ModeOK, Replaying, Delivers, Foreign
  <2> QED  BY <1>4, <1>5, <2>2, <2>4, <2>6, <2>8, LocalStep, Zenon
<1>9. CASE Lookup(k, policy) = "STALE_CANDIDATE"
  <2>1. hit # Nobody
    BY <1>2, <1>9, Zenon DEF Lookup
  <2>2. Whole(hit) /\ hit \in Streams
    BY <1>2, <2>1, Zenon DEF IInv, MapWhole, Whole
  <2>3. PICK t : t = [st EXCEPT !.mode = "BARRIER_BUFFERING", !.stale = hit]
    BY Zenon
  <2>4. streams' = [streams EXCEPT ![s] = t]
    BY <1>1, <1>2, <1>9, <2>3, Zenon DEF Open, Put
  <2>5. /\ DOMAIN t = Fields /\ t.outcome = "OPEN" /\ t.pulling = FALSE /\ t.ended = FALSE
        /\ t.status = "MISS" /\ t.replay = Nobody /\ t.stale = hit /\ t.produced = 0
        /\ t.index = 0 /\ t.batches = <<>> /\ t.delivered = <<>> /\ t.mode = "BARRIER_BUFFERING"
    BY <1>6, <2>3 DEF Fields
  <2>6. IsStream(t) /\ Refers(t) /\ InWindow(t)
    BY <1>7, <2>2, <2>5 DEF IsStream, Refers, InWindow
  <2>7. ModeOK(s, t, entry) /\ Delivers(s, t, s)
    BY <1>7, <2>2, <2>5, Zenon DEF ModeOK, Scan, Delivers, Foreign
  <2> QED  BY <1>4, <1>5, <2>4, <2>6, <2>7, LocalStep, Zenon
<1>10. CASE Lookup(k, policy) \notin {"FRESH_HIT", "STALE_CANDIDATE"}
  <2>1. PICK t : t = [st EXCEPT !.mode = "ACCUMULATING_MISS"]
    BY Zenon
  <2>2. streams' = [streams EXCEPT ![s] = t]
    BY <1>1, <1>10, <2>1, Zenon DEF Open, Put
  <2>3. /\ DOMAIN t = Fields /\ t.outcome = "OPEN" /\ t.pulling = FALSE /\ t.ended = FALSE
        /\ t.status = "MISS" /\ t.replay = Nobody /\ t.stale = Nobody /\ t.produced = 0
        /\ t.index = 0 /\ t.batches = <<>> /\ t.delivered = <<>> /\ t.mode = "ACCUMULATING_MISS"
    BY <1>6, <2>1 DEF Fields
  <2>4. IsStream(t) /\ Refers(t) /\ InWindow(t)
    BY <1>7, <2>3, SMTT(30) DEF IsStream, Refers, InWindow
  <2>5. ModeOK(s, t, entry) /\ Delivers(s, t, s)
    BY <1>7, <2>3, Zenon DEF ModeOK, Scan, Delivers, Foreign
  <2> QED  BY <1>4, <1>5, <2>2, <2>4, <2>5, LocalStep, Zenon
<1> QED  BY <1>8, <1>9, <1>10

\* A step that leaves the streams and the entries alone.
LEMMA QuietStep ==
    ASSUME IInv, streams' = streams, entry' = entry, DOMAIN cache' = DOMAIN cache, DOMAIN cache'.map = Keys,
           \A k \in Keys : cache'.map[k] \in {Nobody, cache.map[k]}
    PROVE  IInv'
<1>1. \A o : Whole(o) => Whole(o)'
  BY Zenon DEF Whole
<1>2. StateOK' /\ MapWhole'
  BY <1>1 DEF IInv, StateOK, MapWhole
<1>3. RefersWhole'
  BY <1>1, Zenon DEF IInv, RefersWhole, Refers
<1>4. ModesOK' /\ WindowsOK'
  BY DEF IInv, ModesOK, WindowsOK
<1>5. AllDeliver'
  BY DEF IInv, AllDeliver, Delivers
<1> QED  BY <1>2, <1>3, <1>4, <1>5 DEF IInv

-----------------------------------------------------------------------------

\* Every step keeps the invariant.
LEMMA StepHolds == IInv /\ [Next]_vars => IInv'
<1> SUFFICES ASSUME IInv, [Next]_vars PROVE IInv'
  OBVIOUS
<1>1. DOMAIN cache = {"map", "order", "bytes", "closed"} /\ DOMAIN cache.map = Keys
  BY DEF IInv, StateOK
<1>2. CASE \E s \in Streams, k \in Keys, policy \in Policies : Open(s, k, policy)
  BY <1>2, OpenHolds, Zenon
<1>3. CASE \E s \in Streams : Pull(s)
  BY <1>3, PullHolds, Zenon
<1>4. CASE \E s \in Streams, size \in BatchSizes, retained \in BOOLEAN : BatchArrives(s, size, retained)
  BY <1>4, BatchHolds, Zenon
<1>5. CASE \E s \in Streams, stored \in BOOLEAN : ScanEnds(s, stored)
  BY <1>5, EndHolds, Zenon
<1>6. CASE \E s \in Streams, f \in Failures : ScanFails(s, f)
  BY <1>6, FailHolds, Zenon
<1>7. CASE \E s \in Streams : Cancel(s) \/ Close(s)
  BY <1>7, StopHolds, Zenon
<1>8. CASE CloseCache
  <2>1. cache' = [cache EXCEPT !.closed = TRUE, !.map = [k \in Keys |-> Nobody], !.bytes = 0]
          /\ streams' = streams /\ entry' = entry
    BY <1>8 DEF CloseCache
  <2>2. DOMAIN cache' = DOMAIN cache /\ cache'.map = [k \in Keys |-> Nobody]
    BY <1>1, <2>1
  <2>3. DOMAIN cache'.map = Keys /\ \A k \in Keys : cache'.map[k] \in {Nobody, cache.map[k]}
    BY <2>2
  <2> QED  BY <2>1, <2>2, <2>3, QuietStep
<1>9. CASE Tick \/ UNCHANGED vars
  BY <1>1, <1>9, QuietStep DEF Tick, vars
<1> QED  BY <1>2, <1>3, <1>4, <1>5, <1>6, <1>7, <1>8, <1>9, Zenon DEF Next

\* Every entry that the map or a stream can reach is a whole scan that has ended,
\* and every stream stands where its mode says, however lookups, publications,
\* evictions and failures of any number of streams interleave.
THEOREM CacheInvariant == Spec => []IInv
BY InitHolds, StepHolds, PTL DEF Spec

\* Whatever mixture of replay, buffering, fallback and refusal serves a stream,
\* CachedScanStream delivers the batches of one scan from the first on, and all
\* of them if it ends cleanly.
THEOREM OneScanDelivered == Spec => []DeliversOneScan
<1>1. IInv => DeliversOneScan
  <2> SUFFICES ASSUME IInv, NEW s \in Streams
               PROVE  \E o \in Streams :
                         /\ \A i \in DOMAIN streams[s].delivered : streams[s].delivered[i] = <<o, i>>
                         /\ streams[s].outcome = "SUCCEEDED" =>
                               streams[o].ended /\ Len(streams[s].delivered) = streams[o].produced
    BY DEF DeliversOneScan
  <2>1. PICK o \in Streams : Delivers(s, streams[s], o)
    BY DEF IInv, AllDeliver
  <2>2. DOMAIN streams[s].delivered = 1..Len(streams[s].delivered)
    BY DEF IInv, StateOK, IsStream
  <2>3. \A i \in DOMAIN streams[s].delivered : streams[s].delivered[i] = <<o, i>>
    BY <2>1, <2>2, Zenon DEF Delivers, Prefix
  <2>4. streams[s].outcome = "SUCCEEDED" =>
           streams[o].ended /\ Len(streams[s].delivered) = streams[o].produced
    BY <2>1, Zenon DEF Delivers
  <2> QED  BY <2>3, <2>4
<1> QED  BY <1>1, CacheInvariant, PTL

\* The cache status a stream reports tells whether its batches come from an
\* earlier scan, and the entry they come from was within its window when it was
\* chosen.
THEOREM StatusTruthful == Spec => []StatusTellsSource
<1>1. IInv => StatusTellsSource
  <2> SUFFICES ASSUME IInv, NEW s \in Streams
               PROVE  /\ \A i \in DOMAIN streams[s].delivered :
                           streams[s].delivered[i][1] # s <=> streams[s].status \in {"FRESH_HIT", "STALE_SERVED"}
                      /\ InWindow(streams[s])
    BY Zenon DEF StatusTellsSource, InWindow
  <2>1. PICK o \in Streams : Delivers(s, streams[s], o)
    BY DEF IInv, AllDeliver
  <2>2. DOMAIN streams[s].delivered = 1..Len(streams[s].delivered)
    BY DEF IInv, StateOK, IsStream
  <2>3. \A i \in DOMAIN streams[s].delivered : streams[s].delivered[i][1] = o
    BY <2>1, <2>2 DEF Delivers, Prefix
  <2> QED  BY <2>1, <2>3, Zenon DEF Delivers, Foreign, IInv, WindowsOK
<1> QED  BY <1>1, CacheInvariant, PTL
=============================================================================
