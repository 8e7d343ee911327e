------------------------ MODULE HttpRetryController -------------------------
(***************************************************************************)
(* The sole retry loop of Runtime (ExecuteHttpStepWithRetry): one step of  *)
(* a scan, that is one page, fetched by one or more transport attempts.    *)
(* Ordinary retries and rate-limit repeats share one ledger of attempts    *)
(* and waiting, and each keeps its own ordinals.                           *)
(*                                                                         *)
(* The loop runs on the thread that pulls the stream.  It is split where   *)
(* it waits (for quota, for request admission, for the transport, between  *)
(* retries): there the clock, cancellation and the other parties move.     *)
(* The answers of the admission controller, the rate-limit coordinator and *)
(* the transport are chosen within what those components promise.          *)
(*                                                                         *)
(* What the step holds it holds in scoped objects: Throw and Return end    *)
(* every scope.                                                            *)
(***************************************************************************)
EXTENDS ScanResourceAccounting, FiniteSets

CONSTANTS
    Profiles,         \* admitted profiles, of which the scan has one
    MaxTime,          \* bound on the clock
    Delays,           \* what ComputeRetryDelayMilliseconds may return
    GuidanceDelays,   \* how far ahead rate-limit guidance may lie
    Buckets,          \* remote quota buckets a response may name
    Unfrozen          \* no response has named a bucket yet

ASSUME RetryAssumption ==
    /\ \A p \in Profiles : ValidProfile(p)
    /\ MaxTime \in Nat /\ Delays \subseteq Nat \ {0} /\ GuidanceDelays \subseteq Nat
    /\ Unfrozen \notin Buckets

VARIABLES
    now,          \* the steady clock
    cancelled,    \* the stream's atomic cancellation flag
    interrupted,  \* the host's ExecutionControl asks for cancellation
    profile,      \* the admitted profile of the scan
    ledger,       \* the scan's ScanResourceAccounting
    scan,         \* ResilienceExecutionState: the scan's repeats
    step,         \* the locals of the running step
    held          \* the scoped authorities of the running step

-----------------------------------------------------------------------------
NoHold == [quota |-> FALSE, request |-> FALSE, buffers |-> FALSE, waiter |-> "NONE"]

\* ordinary, rate: the step's repeats; keyed: quota_key is set; immediate:
\* immediate_seen; answers: the wait answers a rate-limited response.
NewStep ==
    [phase |-> "idle", ordinary |-> 0, rate |-> 0, keyed |-> FALSE, immediate |-> FALSE,
     bucket |-> Unfrozen, body |-> 0, began |-> 0, eligible |-> 0, deadline |-> 0,
     answers |-> FALSE, delay |-> 0, waited |-> 0, outcome |-> "NONE"]

CancelRequested == cancelled \/ interrupted

RetryEnabled == profile.retryStep > 1

\* What is left of a policy's attempts once every page has one.
ScanRepeats(limit) == IF limit > profile.pages THEN limit - profile.pages ELSE 0

Remaining(limit, used) == IF used >= limit THEN 0 ELSE limit - used

Throw(outcome) ==
    /\ step' = [step EXCEPT !.phase = "threw", !.outcome = outcome]
    /\ held' = NoHold

ReturnResponse ==
    /\ step' = [step EXCEPT !.phase = "returned"]
    /\ held' = [NoHold EXCEPT !.buffers = TRUE]

-----------------------------------------------------------------------------
StartStep ==
    /\ ledger' = BeginStep(ledger, profile, now)
    /\ IF ledger'.state = "FAILED"
       THEN step' = [NewStep EXCEPT !.phase = "threw", !.outcome = "RESOURCE"] /\ UNCHANGED held
       ELSE step' = [NewStep EXCEPT !.phase = "top"] /\ UNCHANGED held
    /\ UNCHANGED <<now, cancelled, interrupted, profile, scan>>

\* Fault: the top of the loop does not look at cancellation.
GoesOnUnchecked == step.phase = "top"

GoesOn == step.phase = "top" /\ ~CancelRequested

LoopCancelled ==
    /\ step.phase = "top"
    /\ CancelRequested
    /\ Throw("CANCELLED")
    /\ UNCHANGED <<now, cancelled, interrupted, profile, ledger, scan>>

\* The waiting this scan may still do for quota.
WaitAuthority(l) ==
    Least(Remaining(profile.waiting, l.waiting), Remaining(profile.rateWaiting, l.rateWaiting))

\* The wait is over by the scan's deadline and within the waiting budget.
StartQuotaWait(s, h, l, eligible, answers) ==
    /\ step' = [s EXCEPT !.phase = "quota", !.began = now, !.eligible = eligible,
                         !.deadline = Least(l.deadline, now + WaitAuthority(l)),
                         !.answers = answers, !.keyed = TRUE]
    /\ held' = [h EXCEPT !.quota = FALSE, !.waiter = "RATE"]

\* Fault: a retry after a rate-limited attempt forgets its quota key.
NeedsQuotaNever == FALSE

\* An ordinary retry gave the quota permit back: it is asked for again.
NeedsQuota == step.keyed /\ ~held.quota

ReacquireQuota ==
    /\ GoesOn
    /\ NeedsQuota
    /\ \/ WaitAuthority(ledger) = 0 /\ Throw("RATE_LIMIT")
       \/ WaitAuthority(ledger) # 0 /\ Throw("LOCAL_ADMISSION")
       \/ WaitAuthority(ledger) # 0 /\ StartQuotaWait(step, held, ledger, now, FALSE)
    /\ UNCHANGED <<now, cancelled, interrupted, profile, ledger, scan>>

\* Fault: a refused wait is taken for a spurious wake-up.
QuotaRefusedAsksAgain ==
    /\ step' = [step EXCEPT !.phase = "top"]
    /\ held' = [held EXCEPT !.waiter = "NONE"]

\* The wait timed out, found the queue full or ran out of tickets.
QuotaRefused == Throw("RATE_LIMIT")

\* The coordinator answers; whatever it says, the wait is debited first.
QuotaAnswer(status) ==
    LET waited == now - step.began
        l == IF waited = 0 THEN ledger ELSE CommitRateLimitWait(ledger, profile, waited)
    IN  /\ step.phase = "quota"
        /\ status = "ACQUIRED" => now >= step.eligible
        /\ status = "CANCELLED" => CancelRequested
        /\ ledger' = l
        /\ \/ l.state = "FAILED" /\ Throw("RESOURCE") /\ UNCHANGED scan
           \/ /\ l.state # "FAILED" /\ status = "CANCELLED"
              /\ Throw("CANCELLED") /\ UNCHANGED scan
           \/ /\ l.state # "FAILED" /\ status = "REFUSED"
              /\ QuotaRefused /\ UNCHANGED scan
           \/ /\ l.state # "FAILED" /\ status = "RUNTIME_CLOSED"
              /\ Throw("LOCAL_ADMISSION") /\ UNCHANGED scan
           \/ /\ l.state # "FAILED" /\ status = "ACQUIRED"
              /\ held' = [held EXCEPT !.quota = TRUE, !.waiter = "NONE"]
              /\ IF step.answers
                 THEN /\ step' = [step EXCEPT !.phase = "top", !.rate = @ + 1]
                      /\ scan' = [scan EXCEPT !.rate = @ + 1]
                 ELSE step' = [step EXCEPT !.phase = "admit", !.began = now] /\ UNCHANGED scan
        /\ UNCHANGED <<now, cancelled, interrupted, profile>>

EnterAdmission ==
    /\ GoesOn
    /\ ~NeedsQuota
    /\ step' = [step EXCEPT !.phase = "admit", !.began = now]
    /\ UNCHANGED <<now, cancelled, interrupted, profile, ledger, scan, held>>

\* AcquireRequestAdmission: the controller caps the wait it reports.
AdmissionAnswer(status, waited) ==
    LET l == IF waited = 0 THEN ledger
             ELSE CommitAdmissionWait(ledger, waited, profile.admissionWaiting)
    IN  /\ step.phase = "admit"
        /\ waited <= Least(now - step.began,
                           Remaining(profile.admissionWaiting, ledger.admissionWaiting))
        /\ status = "CANCELLED" => CancelRequested
        /\ status = "SCAN_DEADLINE_REACHED" => now >= ledger.deadline
        /\ ledger' = l
        /\ \/ status = "ACQUIRED" /\ l.state # "FAILED"
              /\ step' = [step EXCEPT !.phase = "attempt"]
              /\ held' = [held EXCEPT !.request = TRUE]
           \/ status = "CANCELLED" /\ Throw("CANCELLED")
           \/ status = "SCAN_DEADLINE_REACHED" /\ Throw("RESOURCE")
           \/ status = "REJECTED" /\ Throw("LOCAL_ADMISSION")
        /\ UNCHANGED <<now, cancelled, interrupted, profile, scan>>

\* A body protocol sends a body; a repeat rebuilds the same request.
RequestBodies ==
    IF profile.pageBody = 0 THEN {0}
    ELSE IF step.body # 0 THEN {step.body} ELSE 1..profile.pageBody

BuffersRejected ==
    /\ step.phase = "attempt"
    /\ Throw("LOCAL_ADMISSION")
    /\ UNCHANGED <<now, cancelled, interrupted, profile, ledger, scan>>

\* Buffers are reserved, the attempt is paid for, the request is built and
\* its body debited, and only then is it handed to the transport.
SendAttempt(n) ==
    LET l == BeginAttempt(ledger, profile, now)
        b == IF n = 0 THEN l ELSE CommitRequestBody(l, profile, n)
        r == CommitRemoteRequest(b, profile)
    IN  /\ step.phase = "attempt"
        /\ n \in RequestBodies
        /\ \/ l.state = "FAILED" /\ ledger' = l /\ Throw("RESOURCE")
           \* the request factory throws, or the body is over its allowance
           \/ l.state # "FAILED" /\ ledger' = l /\ Throw("REQUEST")
           \/ /\ l.state # "FAILED" /\ n <= l.allowance.body
              /\ ledger' = r
              /\ step' = [step EXCEPT !.phase = "transport", !.body = n]
              /\ held' = [held EXCEPT !.buffers = TRUE]
        /\ UNCHANGED <<now, cancelled, interrupted, profile, scan>>

-----------------------------------------------------------------------------
(* What came back from the transport; the request permit ends here.        *)

InFlight == step.phase = "transport"

\* Any response that is neither rate-limited nor a retryable gateway one.  Its
\* buffers are narrowed to what it retains, which a closed controller refuses.
ReceiveResponse(n) ==
    /\ InFlight
    /\ n <= ledger.allowance.bytes
    /\ ledger' = CommitTransport(ledger, profile, n)
    /\ ReturnResponse \/ Throw("LOCAL_ADMISSION")
    /\ UNCHANGED <<now, cancelled, interrupted, profile, scan>>

\* A policy refusal, or a response over its limits: nothing is committed.
TransportRaises ==
    /\ InFlight
    /\ Throw("TRANSPORT")
    /\ UNCHANGED <<now, cancelled, interrupted, profile, ledger, scan>>

TransportCancelled(n) ==
    /\ InFlight
    /\ CancelRequested
    /\ n <= ledger.allowance.bytes
    /\ ledger' = CommitAttemptFailure(ledger, profile, n)
    /\ Throw("CANCELLED")
    /\ UNCHANGED <<now, cancelled, interrupted, profile, scan>>

\* A partial response, or a failure that is not of the connection.
TransportFails(n) ==
    /\ InFlight
    /\ n <= ledger.allowance.bytes
    /\ ledger' = CommitAttemptFailure(ledger, profile, n)
    /\ Throw("TRANSPORT")
    /\ UNCHANGED <<now, cancelled, interrupted, profile, scan>>

MayRetry(l) ==
    /\ RetryEnabled
    /\ step.ordinary < profile.retryStep - 1
    /\ scan.ordinary < ScanRepeats(profile.retryScan)
    /\ CanBeginRetryAttempt(l, profile)

\* Fault: the quota permit is kept over the backoff.
BeforeBackoffKeepsQuota(h) == [h EXCEPT !.buffers = FALSE, !.request = FALSE]

\* Response buffers and the quota permit go before anything is waited for.
BeforeBackoff(h) == [h EXCEPT !.buffers = FALSE, !.request = FALSE, !.quota = FALSE]

\* A gateway response, or a failure of the connection before any response.
RetryableFailure(n, d) ==
    LET l == CommitAttemptFailure(ledger, profile, n)
        left == Least(profile.retryWaiting - l.retryWaiting, profile.waiting - l.waiting)
    IN  /\ InFlight
        /\ n <= ledger.allowance.bytes
        /\ ledger' = l
        /\ \/ ~MayRetry(l) /\ Throw("HTTP_STATUS")
           \/ MayRetry(l) /\ ~HasRetryAttemptResources(l, profile, step.body) /\ Throw("RESOURCE")
           \/ /\ MayRetry(l) /\ HasRetryAttemptResources(l, profile, step.body)
              /\ \/ left <= 0 /\ Throw("RESOURCE")
                 \/ left > 0 /\ Throw("LOCAL_ADMISSION")
                 \/ /\ left > 0
                    /\ step' = [step EXCEPT !.phase = "backoff", !.began = now,
                                            !.delay = Least(d, left), !.waited = 0]
                    /\ held' = [BeforeBackoff(held) EXCEPT !.waiter = "RETRY"]
        /\ UNCHANGED <<now, cancelled, interrupted, profile, scan>>

-----------------------------------------------------------------------------
(* The backoff between ordinary retries, waited out in slices.             *)

BackoffStops ==
    /\ step.phase = "backoff"
    /\ \/ CancelRequested /\ Throw("CANCELLED")
       \/ ~CancelRequested /\ now >= ledger.deadline /\ Throw("RESOURCE")
    /\ UNCHANGED <<now, cancelled, interrupted, profile, ledger, scan>>

BackoffElapsed ==
    /\ step.phase = "backoff"
    /\ ~CancelRequested /\ now < ledger.deadline
    /\ now >= step.began + step.delay
    /\ ledger' = CommitRetryWait(ledger, profile, step.delay - step.waited)
    /\ step' = [step EXCEPT !.phase = "repeat", !.waited = step.delay]
    /\ UNCHANGED <<now, cancelled, interrupted, profile, scan, held>>

\* `eligible` keeps the clock read before the slice.
SliceStarts ==
    /\ step.phase = "backoff"
    /\ ~CancelRequested /\ now < ledger.deadline
    /\ now < step.began + step.delay
    /\ step' = [step EXCEPT !.phase = "slice", !.eligible = now]
    /\ UNCHANGED <<now, cancelled, interrupted, profile, ledger, scan, held>>

\* A slice that ran late is debited up to the delay.
SliceDebit == Least(step.delay - step.waited, now - step.eligible)

SliceEnds ==
    /\ step.phase = "slice"
    /\ ledger' = IF now = step.eligible THEN ledger
                 ELSE CommitRetryWait(ledger, profile, SliceDebit)
    /\ IF ledger'.state = "FAILED" THEN Throw("RESOURCE")
       ELSE /\ step' = [step EXCEPT !.waited = @ + SliceDebit,
                                    !.phase = IF step.waited + SliceDebit >= step.delay
                                              THEN "repeat" ELSE "backoff"]
            /\ UNCHANGED held
    /\ UNCHANGED <<now, cancelled, interrupted, profile, scan>>

Repeat ==
    /\ step.phase = "repeat"
    /\ \/ CancelRequested /\ Throw("CANCELLED") /\ UNCHANGED scan
       \/ /\ ~CancelRequested
          /\ step' = [step EXCEPT !.phase = "top", !.ordinary = @ + 1]
          /\ scan' = [scan EXCEPT !.ordinary = @ + 1]
          /\ held' = [held EXCEPT !.waiter = "NONE"]
    /\ UNCHANGED <<now, cancelled, interrupted, profile, ledger>>

-----------------------------------------------------------------------------
(* A complete response with a declared rate-limit status.                  *)

RateLimitDeclared == profile.rateMode # "NONE"

MayRepeatLimited(l) ==
    /\ step.rate < profile.rateStep - 1
    /\ scan.rate < ScanRepeats(profile.rateScan)
    /\ CanBeginRetryAttempt(l, profile)

\* The guidance is refused by policy before any wait is considered.
GuidanceRefused(l, bucket, delay) ==
    \/ profile.rateMode = "FAIL"
    \/ step.bucket # Unfrozen /\ bucket # step.bucket
    \/ delay = 0 /\ step.immediate
    \/ ~MayRepeatLimited(l)

\* The wait that the guidance asks for does not fit what is left.
GuidanceTooLate(l, delay) ==
    \/ WaitAuthority(l) = 0 /\ delay # 0
    \/ /\ profile.rateMode = "WAIT_IF_DEADLINE_ALLOWS"
       /\ now + delay >= l.deadline \/ delay > WaitAuthority(l)

\* Malformed, missing or excessive guidance also ends the step.
RateLimited(n, bucket, delay) ==
    LET l == CommitAttemptFailure(ledger, profile, n)
        resources == HasRetryAttemptResources(l, profile, step.body)
    IN  /\ InFlight
        /\ RateLimitDeclared
        /\ n <= ledger.allowance.bytes
        /\ ledger' = l
        /\ \/ Throw("RATE_LIMIT")
           \/ ~GuidanceRefused(l, bucket, delay) /\ ~resources /\ Throw("RESOURCE")
           \/ /\ ~GuidanceRefused(l, bucket, delay) /\ resources /\ ~GuidanceTooLate(l, delay)
              /\ \/ Throw("LOCAL_ADMISSION")
                 \/ StartQuotaWait([step EXCEPT !.bucket = bucket, !.immediate = (delay = 0)],
                                   BeforeBackoff(held), l, now + delay, TRUE)
        /\ UNCHANGED <<now, cancelled, interrupted, profile, scan>>

-----------------------------------------------------------------------------
\* Time is counted from the scan's first step.
Tick ==
    /\ ledger.started
    /\ now < MaxTime
    /\ now' = now + 1
    /\ UNCHANGED <<cancelled, interrupted, profile, ledger, scan, step, held>>

QuotaStatuses == {"ACQUIRED", "CANCELLED", "REFUSED", "RUNTIME_CLOSED"}

AdmissionStatuses == {"ACQUIRED", "CANCELLED", "SCAN_DEADLINE_REACHED", "REJECTED"}

\* A turn of the thread inside the step.
StepNext ==
    \/ LoopCancelled \/ ReacquireQuota \/ EnterAdmission \/ BuffersRejected
    \/ \E status \in QuotaStatuses : QuotaAnswer(status)
    \/ \E status \in AdmissionStatuses, waited \in 0..MaxTime : AdmissionAnswer(status, waited)
    \/ \E n \in RequestBodies : SendAttempt(n)
    \/ TransportRaises
    \/ \E n \in 0..profile.pageBytes :
          \/ ReceiveResponse(n) \/ TransportCancelled(n) \/ TransportFails(n)
          \/ \E d \in Delays : RetryableFailure(n, d)
          \/ \E bucket \in Buckets, delay \in GuidanceDelays : RateLimited(n, bucket, delay)
    \/ BackoffStops \/ BackoffElapsed \/ SliceStarts \/ SliceEnds \/ Repeat

StepInit ==
    /\ now = 0
    /\ cancelled = FALSE
    /\ interrupted = FALSE
    /\ profile \in Profiles
    /\ ledger = NewLedger
    /\ scan = [ordinary |-> 0, rate |-> 0]
    /\ step = NewStep
    /\ held = NoHold

=============================================================================
