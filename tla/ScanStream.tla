----------------------------- MODULE ScanStream -----------------------------
(***************************************************************************)
(* The pull-driven batch stream of a scan (paginated REST, paginated       *)
(* GraphQL, or SINGLE: a REST scan of one response, one page with no next) *)
(* with the retry controller and the ledger inside it.  One thread pulls   *)
(* (Next); others may cancel or close.  A mutex is held for the whole of a *)
(* pull: Cancel and Close raise the atomic flag first and clean up when    *)
(* they get the mutex.                                                     *)
(*                                                                         *)
(* A page is a number of rows; `cursor` is the page number that a REST     *)
(* request carries, or the number of continuation cursors seen by GraphQL. *)
(***************************************************************************)
EXTENDS HttpRetryController

CONSTANTS
    BatchRows,    \* PageBudgets().batch_rows
    PageSize      \* declared page size of short_page pagination

ASSUME StreamAssumption == BatchRows \in Nat \ {0} /\ PageSize \in Nat \ {0}

VARIABLES
    pull,      \* where the pulling thread is inside Next
    stream,    \* the stream's fields
    holds,     \* the reservations and authorities the stream owns
    pending,   \* Cancel and Close calls that wait for the mutex
    result     \* what the last pull to return gave its caller

vars == <<now, cancelled, interrupted, profile, ledger, scan, step, held,
          pull, stream, holds, pending, result>>

streamVars == <<pull, stream, holds, pending, result>>

-----------------------------------------------------------------------------
NewStream ==
    [closed |-> FALSE, exhausted |-> FALSE, terminal |-> "NONE", loaded |-> FALSE,
     hasNext |-> FALSE, rows |-> 0, offset |-> 0, emitted |-> 0, cursor |-> 1,
     requested |-> 0, exposure |-> "UNACCEPTED", outcome |-> "NOT_STARTED"]

\* scan: the active-scan permit; secret: the authorization snapshot; page and
\* handoff: the byte and row reservations of the page and of the last batch.
AllHeld == {"scan", "secret"}

Init ==
    /\ StepInit
    /\ pull = "idle"
    /\ stream = NewStream
    /\ holds = AllHeld
    /\ pending = {}
    /\ result = "NONE"

Unlocked == pull = "idle"

FinishProfile(s, outcome) ==
    IF s.outcome = "NOT_STARTED" THEN [s EXCEPT !.outcome = outcome] ELSE s

\* ReleasePrivateState, for the ledger and for the stream's fields.
AbortLedger(l) == IF l.state = "EXHAUSTED" THEN l ELSE AbortPage(l)

Released(s) == [s EXCEPT !.rows = 0, !.offset = 0, !.loaded = FALSE]

\* Fault: only the page is released; the rest is left to Close.
FailKeepsScan(outcome) ==
    /\ stream' = FinishProfile([Released(stream) EXCEPT !.terminal = outcome],
                               IF outcome = "CANCELLED" THEN "CANCELLED" ELSE "FAILED")
    /\ ledger' = AbortLedger(ledger)
    /\ holds' = holds \ {"page", "handoff"}
    /\ cancelled' = TRUE
    /\ pull' = "idle"
    /\ step' = NewStep
    /\ held' = NoHold
    /\ result' = outcome

\* RememberCurrentFailure, and the pull throws.
FailPull(outcome) ==
    /\ stream' = FinishProfile([Released(stream) EXCEPT !.terminal = outcome],
                               IF outcome = "CANCELLED" THEN "CANCELLED" ELSE "FAILED")
    /\ ledger' = AbortLedger(ledger)
    /\ holds' = {}
    /\ cancelled' = TRUE
    /\ pull' = "idle"
    /\ step' = NewStep
    /\ held' = NoHold
    /\ result' = outcome

\* A pull that ends without a batch and leaves the state as it is.
EndPull(r) == pull' = "idle" /\ result' = r

-----------------------------------------------------------------------------
(* Next.                                                                   *)

\* The consumer is done with the last batch: its hand-off reservation goes.
StartPull ==
    /\ Unlocked
    /\ holds' = holds \ {"handoff"}
    /\ IF stream.closed THEN EndPull("END")
       ELSE IF stream.terminal # "NONE" THEN EndPull(stream.terminal)
       ELSE IF stream.exhausted THEN EndPull("END")
       ELSE IF cancelled THEN EndPull("CANCELLED")
       ELSE pull' = "loop" /\ result' = "NONE"
    /\ interrupted' = FALSE
    /\ UNCHANGED <<now, cancelled, profile, ledger, scan, step, held, stream, pending>>

\* CheckState at the top of the loop and at the other checkpoints.
MustStop == CancelRequested \/ (ledger.started /\ now >= ledger.deadline)

StopReason == IF CancelRequested THEN "CANCELLED" ELSE "RESOURCE"

\* Where the pull looks at cancellation and at the deadline.
Checkpoints == {"loop", "received", "decoded", "produce"}

Stop ==
    /\ pull \in Checkpoints
    /\ MustStop
    /\ FailPull(StopReason)
    /\ UNCHANGED <<now, interrupted, profile, scan, pending>>

Continue(at) == pull = at /\ ~(at \in Checkpoints /\ MustStop)

CutBatch ==
    /\ Continue("loop")
    /\ stream.loaded /\ stream.offset < stream.rows
    /\ pull' = "produce"
    /\ UNCHANGED <<now, cancelled, interrupted, profile, ledger, scan, step, held, stream,
                   holds, pending, result>>

\* The hand-off reservation is refused, too small, or the batch misaligned.
BatchRejected(outcome) ==
    /\ Continue("produce")
    /\ FailPull(outcome)
    /\ UNCHANGED <<now, interrupted, profile, scan, pending>>

\* Rows are moved and checked against the schema; the batch becomes
\* observable only after the final checkpoint.
ProduceBatch ==
    /\ Continue("produce")
    /\ LET count == Least(stream.rows - stream.offset, BatchRows)
       IN  stream' = [stream EXCEPT !.offset = @ + count, !.emitted = @ + count,
                                    !.exposure = "EXPOSED"]
    /\ holds' = holds \cup {"handoff"}
    /\ pull' = "idle"
    /\ result' = "BATCH"
    /\ UNCHANGED <<now, cancelled, interrupted, profile, ledger, scan, step, held, pending>>

\* A GraphQL page keeps the memory of its cursors reserved.
KeptForCursors == IF profile.protocol = "GRAPHQL" /\ stream.hasNext THEN {"page"} ELSE {}

\* Fault: the page is completed as soon as its last batch is being cut.
FinishedPageEarly == stream.loaded /\ stream.rows - stream.offset <= 1

FinishedPage == stream.loaded /\ stream.offset >= stream.rows

FinishPage ==
    LET l == CompletePage(ledger, profile, stream.hasNext, now)
        s == [stream EXCEPT !.rows = 0, !.offset = 0, !.loaded = FALSE]
    IN  /\ Continue("loop")
        /\ FinishedPage
        /\ IF l.state = "FAILED" THEN FailPull("RESOURCE")
           ELSE /\ ledger' = l
                /\ UNCHANGED <<cancelled, step, held>>
                /\ IF stream.hasNext
                   THEN /\ stream' = [s EXCEPT !.exposure = "UNACCEPTED"]
                        /\ holds' = (holds \ {"page"}) \cup (holds \cap KeptForCursors)
                        /\ pull' = "fetch"
                        /\ UNCHANGED result
                   ELSE /\ stream' = FinishProfile([s EXCEPT !.exhausted = TRUE], "SUCCEEDED")
                        /\ holds' = {}
                        /\ EndPull("END")
        /\ UNCHANGED <<now, interrupted, profile, scan, pending>>

\* Resizing the reservation to the cursors fails in a closed controller.
CursorMemoryRejected ==
    /\ Continue("loop")
    /\ FinishedPage
    /\ KeptForCursors # {}
    /\ FailPull("LOCAL_ADMISSION")
    /\ UNCHANGED <<now, interrupted, profile, scan, pending>>

\* MarkRequestStarted: a GraphQL traversal counts the pages it asks for.
CursorBudgetLeft == profile.protocol = "GRAPHQL" => stream.requested < profile.pages

FetchPage ==
    /\ Continue("fetch") \/ (Continue("loop") /\ ~stream.loaded)
    /\ IF CursorBudgetLeft
       THEN /\ StartStep
            /\ stream' = [stream EXCEPT !.requested = @ + 1]
            /\ pull' = "step"
            /\ UNCHANGED <<holds, pending, result>>
       ELSE FailPull("POLICY") /\ UNCHANGED <<now, interrupted, profile, scan, pending>>

RunStep ==
    /\ pull = "step"
    /\ StepNext
    /\ UNCHANGED streamVars

StepThrew ==
    /\ pull = "step"
    /\ step.phase = "threw"
    /\ FailPull(step.outcome)
    /\ UNCHANGED <<now, interrupted, profile, scan, pending>>

StepReturned ==
    /\ pull = "step"
    /\ step.phase = "returned"
    /\ pull' = "received"
    /\ UNCHANGED <<now, cancelled, interrupted, profile, ledger, scan, step, held,
                   stream, holds, pending, result>>

\* The response's status, its metadata or a reservation ends the scan here.
ResponseRejected(outcome) ==
    /\ Continue("received") \/ Continue("decoded")
    /\ FailPull(outcome)
    /\ UNCHANGED <<now, interrupted, profile, scan, pending>>

\* Bytes and rows for the decoded page are reserved before it is decoded.
ReserveDecodedPage ==
    /\ Continue("received")
    /\ holds' = holds \cup {"page"}
    /\ pull' = "decoded"
    /\ UNCHANGED <<now, cancelled, interrupted, profile, ledger, scan, step, held,
                   stream, pending, result>>

\* Whether the decoded page may announce a next one: Link headers and body
\* URLs must name exactly the next page, a short page ends a counted listing,
\* and a GraphQL cursor must be new.
NextPages(rows) ==
    CASE profile.protocol = "SINGLE" -> {FALSE}
      [] profile.protocol = "SHORT_PAGE" -> {rows # 0 /\ rows >= PageSize}
      [] OTHER -> BOOLEAN

\* Fault: the continuation of the page is not adopted.
AcceptedOldCursor(s, rows, hasNext) ==
    [s EXCEPT !.rows = rows, !.offset = 0, !.loaded = TRUE, !.hasNext = hasNext,
              !.exposure = "ACCEPTED_UNEXPOSED"]

Accepted(s, rows, hasNext) ==
    [s EXCEPT !.rows = rows, !.offset = 0, !.loaded = TRUE, !.hasNext = hasNext,
              !.exposure = "ACCEPTED_UNEXPOSED", !.cursor = IF hasNext THEN @ + 1 ELSE @]

\* The page is committed, installed and its continuation adopted together.
AcceptPage(rows, hasNext) ==
    LET l == CommitDecodedPage(ledger, profile, rows, 1)
    IN  /\ Continue("decoded")
        /\ rows <= ledger.allowance.records
        /\ hasNext \in NextPages(rows)
        /\ IF l.state = "FAILED" THEN FailPull("RESOURCE")
           ELSE /\ ledger' = l
                /\ stream' = Accepted(stream, rows, hasNext)
                /\ pull' = "loop"
                /\ step' = NewStep
                /\ held' = NoHold
                /\ UNCHANGED <<cancelled, holds, result>>
        /\ UNCHANGED <<now, interrupted, profile, scan, pending>>

-----------------------------------------------------------------------------
(* Cancel and Close, from any thread.                                      *)

RequestStop(op) ==
    /\ pending' = pending \cup {op}
    /\ cancelled' = TRUE
    /\ UNCHANGED <<now, interrupted, profile, ledger, scan, step, held, pull, stream,
                   holds, result>>

MayCleanUp(op) == op \in pending /\ Unlocked

CleanUp ==
    /\ ledger' = AbortLedger(ledger)
    /\ holds' = {}

Cancel ==
    /\ MayCleanUp("cancel")
    /\ pending' = pending \ {"cancel"}
    /\ IF stream.closed THEN UNCHANGED <<stream, ledger, holds>>
       ELSE stream' = FinishProfile(Released(stream), "CANCELLED") /\ CleanUp
    /\ UNCHANGED <<now, cancelled, interrupted, profile, scan, step, held, pull, result>>

Close ==
    /\ MayCleanUp("close")
    /\ pending' = pending \ {"close"}
    /\ IF stream.closed THEN UNCHANGED <<stream, ledger, holds>>
       ELSE /\ stream' = FinishProfile([Released(stream) EXCEPT !.closed = TRUE], "CLOSED")
            /\ CleanUp
    /\ UNCHANGED <<now, cancelled, interrupted, profile, scan, step, held, pull, result>>

\* The host interrupts the pull that is running.
Interrupt ==
    /\ ~Unlocked
    /\ interrupted' = TRUE
    /\ UNCHANGED <<now, cancelled, profile, ledger, scan, step, held, pull, stream,
                   holds, pending, result>>

Pull ==
    \/ Stop \/ ProduceBatch \/ FinishPage \/ CursorMemoryRejected
    \/ CutBatch \/ \E outcome \in {"LOCAL_ADMISSION", "RESOURCE", "INTERNAL"} : BatchRejected(outcome)
    \/ FetchPage \/ RunStep \/ StepThrew \/ StepReturned
    \/ \E outcome \in {"HTTP_STATUS", "LOCAL_ADMISSION", "RESOURCE", "DECODE", "POLICY"} :
          ResponseRejected(outcome)
    \/ ReserveDecodedPage
    \/ \E rows \in 0..profile.pageRecords, hasNext \in BOOLEAN : AcceptPage(rows, hasNext)

Next ==
    \/ StartPull
    \/ Pull
    \/ \E op \in {"cancel", "close"} : RequestStop(op)
    \/ Cancel \/ Close \/ Interrupt
    \/ Tick /\ UNCHANGED streamVars

Spec == Init /\ [][Next]_vars

\* The pulling thread keeps running: quota and admission waits end (their own
\* modules show it), the transport ends by the deadline it is given, and the
\* rest is computation.  A closing thread gets the mutex once it is free
\* again and again, and the clock advances.
Fairness ==
    /\ WF_vars(Pull)
    /\ SF_vars(Close)
    /\ WF_vars(Tick /\ UNCHANGED streamVars)

FairSpec == Spec /\ Fairness

-----------------------------------------------------------------------------
(* Properties.                                                             *)

\* One aggregate bounds the scan whatever mix of pages, ordinary retries and
\* rate-limit repeats it takes (ScanResourceAccounting): no counter passes its
\* ceiling, what was sent was paid for first, and the two kinds of waiting add
\* up to the waiting that the aggregate was debited.
AggregateRespected ==
    /\ ledger.attempts <= profile.attempts /\ ledger.stepAttempts <= profile.stepAttempts
    /\ ledger.pages <= profile.pages /\ ledger.pages <= ledger.attempts
    /\ ledger.remote <= ledger.attempts
    /\ ledger.bytes <= profile.bytes /\ ledger.records <= profile.records
    /\ ledger.body <= profile.body
    /\ ledger.waiting <= profile.waiting
    /\ ledger.retryWaiting <= profile.retryWaiting /\ ledger.rateWaiting <= profile.rateWaiting
    /\ ledger.admissionWaiting <= profile.admissionWaiting
    /\ ledger.state # "FAILED" => ledger.waiting = ledger.retryWaiting + ledger.rateWaiting

\* A request is with the transport only under a request permit and a buffer
\* reservation, with its attempt and body paid for, and, from the first
\* rate-limited response of its page on, under the quota permit of the key.
TransportAuthorised ==
    InFlight =>
        /\ held.request /\ held.buffers /\ held.waiter = "NONE"
        /\ step.keyed => held.quota
        /\ ledger.active = 1 /\ ledger.sent
        /\ pull = "step" /\ holds \cap {"scan", "secret"} = {"scan", "secret"}

\* Nobody waits while holding what others wait for: a stream that waits for
\* quota or between retries holds no request permit, no response buffer and no
\* quota permit, and one that queues for a request permit has no buffers yet.
WaitsHoldNothing ==
    /\ step.phase \in {"quota", "backoff", "slice", "repeat"} =>
          ~held.quota /\ ~held.request /\ ~held.buffers
    /\ step.phase \in {"top", "admit"} => ~held.request /\ ~held.buffers

\* Only an unaccepted page is ever requested, again or at all: nothing of it
\* has reached the consumer, the previous page has been handed over in full,
\* and a repeat asks for the same page of the same traversal.
ReplayOnlyUnaccepted ==
    InFlight =>
        /\ ~stream.loaded /\ stream.exposure = "UNACCEPTED"
        /\ stream.emitted = ledger.records
        /\ stream.cursor = ledger.pages /\ stream.requested = ledger.pages

\* Rows are neither lost nor handed over twice: while the scan runs, what was
\* emitted and what is left of the page are the rows decoded; a scan that ends
\* cleanly has emitted all of them and was told that there is no next page.
RowsConserved ==
    /\ stream.loaded => stream.emitted + stream.rows - stream.offset = ledger.records
    /\ stream.exhausted => /\ stream.emitted = ledger.records
                           /\ ~stream.hasNext /\ stream.terminal = "NONE"
                           /\ stream.outcome = "SUCCEEDED" /\ ledger.state = "EXHAUSTED"

\* Whatever ended the scan, and whichever of pull, Cancel and Close came last,
\* the permit of the scan, its secret and every reservation are gone.
NothingHeldAfterEnd ==
    Unlocked =>
        /\ held = NoHold /\ ledger.active = 0
        /\ \/ stream.closed \/ stream.terminal # "NONE" \/ stream.exhausted
           \/ cancelled /\ pending = {}
           => holds = {} /\ ledger.memory = 0 /\ ~stream.loaded

\* Every pull returns, and a Close that was called takes effect.
EveryPullReturns ==
    /\ ~Unlocked ~> Unlocked
    /\ "close" \in pending ~> stream.closed

=============================================================================
