----------------------- MODULE ScanResourceAccounting -----------------------
(***************************************************************************)
(* The ledger of one scan: every attempt, page, byte, record and wait is   *)
(* debited from one aggregate that nothing ever resets.  The stream that   *)
(* owns it serialises its use, so each method is an operator from a ledger *)
(* `l`, under a profile `p` of limits, to a ledger.  A method that throws  *)
(* ScanResourceError returns a ledger whose state is "FAILED".             *)
(*                                                                         *)
(* `bytes` stands for the header, wire and decompressed counters, which    *)
(* are checked, debited and bounded alike.  Zero body bytes in a profile   *)
(* denote a protocol without request bodies.                               *)
(***************************************************************************)
EXTENDS Integers

Least(a, b) == IF a <= b THEN a ELSE b

NoAllowance == [bytes |-> 0, records |-> 0, memory |-> 0, body |-> 0]

NewLedger ==
    [state |-> "READY", attempts |-> 0, remote |-> 0, pages |-> 0, bytes |-> 0,
     records |-> 0, memory |-> 0, active |-> 0, body |-> 0, waiting |-> 0,
     retryWaiting |-> 0, rateWaiting |-> 0, admissionWaiting |-> 0,
     started |-> FALSE, deadline |-> 0, stepAttempts |-> 0, stepPage |-> FALSE,
     sent |-> FALSE, allowance |-> NoAllowance]

\* The unsigned limits of a profile: those of a page and of the scan, and with
\* them the attempts and waits of its retry, rate-limit and admission plans.
Limits ==
    {"stepAttempts", "attempts", "pages", "pageBytes", "bytes", "pageRecords", "records",
     "pageMemory", "memory", "wall", "pageBody", "body", "waiting", "retryWaiting",
     "rateWaiting", "admissionWaiting", "retryStep", "retryScan", "rateStep", "rateScan"}

\* What ValidateProfile asks of a profile.
ValidProfile(p) ==
    /\ \A limit \in Limits : p[limit] \in Nat
    /\ p.stepAttempts \in 1..3 /\ p.pages >= 1 /\ p.attempts \in p.pages..96
    /\ p.pageBytes >= 1 /\ p.bytes >= 1 /\ p.pageRecords >= 1 /\ p.records >= 1
    /\ p.pageMemory >= 1 /\ p.memory >= 1 /\ p.wall >= 1
    /\ p.pageBody = 0 <=> p.body = 0
    /\ p.retryWaiting <= p.waiting /\ p.rateWaiting <= p.waiting

Fail(l) == [l EXCEPT !.active = 0, !.memory = 0, !.state = "FAILED"]

AbortPage(l) == Fail(l)

\* RequireReadyForNext throws: a cumulative budget or the deadline is used up.
NothingLeft(l, p, now) ==
    \/ l.started /\ now >= l.deadline
    \/ l.pages >= p.pages
    \/ l.attempts >= p.attempts
    \/ l.bytes >= p.bytes
    \/ l.records >= p.records
    \/ p.body # 0 /\ l.body >= p.body

BeginStep(l, p, now) ==
    LET s == IF l.started THEN l ELSE [l EXCEPT !.started = TRUE, !.deadline = now + p.wall]
    IN  IF l.state # "READY" THEN Fail(l)
        ELSE IF NothingLeft(s, p, now) THEN Fail(s)
        ELSE [s EXCEPT !.stepAttempts = 0, !.stepPage = FALSE, !.state = "STEP_ACTIVE"]

\* Each allowance is what the page may use of what the scan has left.
Allowance(l, p) ==
    [bytes |-> Least(p.pageBytes, p.bytes - l.bytes),
     records |-> Least(p.pageRecords, p.records - l.records),
     memory |-> Least(p.pageMemory, p.memory),
     body |-> IF p.pageBody = 0 THEN 0 ELSE Least(p.pageBody, p.body - l.body)]

\* The first attempt of a step pays for the page, every attempt for itself.
BeginAttempt(l, p, now) ==
    IF \/ l.state # "STEP_ACTIVE" \/ now >= l.deadline
       \/ ~l.stepPage /\ l.pages >= p.pages
       \/ l.stepAttempts >= p.stepAttempts \/ l.attempts >= p.attempts \/ l.active >= 1
    THEN Fail(l)
    ELSE [l EXCEPT !.stepAttempts = @ + 1, !.attempts = @ + 1,
                   !.pages = IF l.stepPage THEN @ ELSE @ + 1,
                   !.active = 1, !.stepPage = TRUE, !.sent = FALSE,
                   !.allowance = Allowance(l, p), !.state = "REQUEST_ACTIVE"]

CommitRequestBody(l, p, n) ==
    IF \/ l.state # "REQUEST_ACTIVE" \/ p.pageBody = 0
       \/ n = 0 \/ n > l.allowance.body \/ l.body + n > p.body
    THEN Fail(l)
    ELSE [l EXCEPT !.body = @ + n, !.state = "REQUEST_BODY_COMMITTED"]

\* The request is complete: its body, if the protocol has one, is paid for.
Sendable(l, p) ==
    \/ l.state = "REQUEST_ACTIVE" /\ p.pageBody = 0
    \/ l.state = "REQUEST_BODY_COMMITTED" /\ p.pageBody # 0

CommitRemoteRequest(l, p) ==
    IF ~Sendable(l, p) \/ l.sent \/ l.remote >= p.attempts THEN Fail(l)
    ELSE [l EXCEPT !.remote = @ + 1, !.sent = TRUE]

CommitAttemptUsage(l, p, n, next) ==
    IF ~Sendable(l, p) \/ n > l.allowance.bytes \/ l.bytes + n > p.bytes THEN Fail(l)
    ELSE [l EXCEPT !.bytes = @ + n, !.active = 0, !.state = next]

CommitAttemptFailure(l, p, n) == CommitAttemptUsage(l, p, n, "STEP_ACTIVE")

CommitTransport(l, p, n) == CommitAttemptUsage(l, p, n, "TRANSPORT_COMMITTED")

CommitDecodedPage(l, p, rows, memory) ==
    IF \/ l.state # "TRANSPORT_COMMITTED" \/ rows > l.allowance.records
       \/ memory > l.allowance.memory \/ l.records + rows > p.records
    THEN Fail(l)
    ELSE [l EXCEPT !.records = @ + rows, !.memory = memory, !.state = "PAGE_DECODED"]

CompletePage(l, p, hasNext, now) ==
    LET done == [l EXCEPT !.memory = 0, !.stepAttempts = 0, !.stepPage = FALSE]
    IN  IF l.state # "PAGE_DECODED" THEN Fail(l)
        ELSE IF now >= l.deadline THEN Fail([l EXCEPT !.memory = 0])
        ELSE IF ~hasNext THEN [done EXCEPT !.state = "EXHAUSTED"]
        ELSE IF NothingLeft(l, p, now) THEN Fail(done)
        ELSE [done EXCEPT !.state = "READY"]

\* Fault: a backoff is not debited from the aggregate.
CommitRetryWaitOwnOnly(l, p, n) ==
    IF l.state # "STEP_ACTIVE" \/ l.retryWaiting + n > p.retryWaiting THEN Fail(l)
    ELSE [l EXCEPT !.retryWaiting = @ + n]

\* Waits are debited from the aggregate first, then from their own ceiling.
CommitRetryWait(l, p, n) ==
    IF l.state # "STEP_ACTIVE" \/ l.waiting + n > p.waiting THEN Fail(l)
    ELSE IF l.retryWaiting + n > p.retryWaiting THEN Fail([l EXCEPT !.waiting = @ + n])
    ELSE [l EXCEPT !.waiting = @ + n, !.retryWaiting = @ + n]

CommitRateLimitWait(l, p, n) ==
    IF l.state # "STEP_ACTIVE" \/ l.waiting + n > p.waiting THEN Fail(l)
    ELSE IF l.rateWaiting + n > p.rateWaiting THEN Fail([l EXCEPT !.waiting = @ + n])
    ELSE [l EXCEPT !.waiting = @ + n, !.rateWaiting = @ + n]

CommitAdmissionWait(l, n, limit) ==
    IF l.state # "STEP_ACTIVE" \/ l.admissionWaiting + n > limit THEN Fail(l)
    ELSE [l EXCEPT !.admissionWaiting = @ + n]

CanBeginRetryAttempt(l, p) ==
    l.state = "STEP_ACTIVE" /\ l.stepAttempts < p.stepAttempts /\ l.attempts < p.attempts

\* RequireRetryAttemptResources does not throw: another attempt of the same
\* size can get transport authority and pay for its body.
HasRetryAttemptResources(l, p, n) ==
    /\ CanBeginRetryAttempt(l, p)
    /\ l.bytes < p.bytes
    /\ IF p.pageBody = 0 THEN n = 0
       ELSE n # 0 /\ n <= p.pageBody /\ n <= p.body - l.body

=============================================================================
