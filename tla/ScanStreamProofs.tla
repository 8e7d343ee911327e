-------------------------- MODULE ScanStreamProofs --------------------------
(***************************************************************************)
(* Proofs about the scan stream, the retry controller inside it and the    *)
(* ledger of the scan, for any profiles, clock bound, delays and buckets.  *)
(***************************************************************************)
EXTENDS MCScanStream, TLAPS

--------------------------------------------------------------------------------
(* The ledger.                                                              *)

\* The limits of a profile that the ledger is compared with.
ProfileTypes(p) ==
    /\ p.stepAttempts \in Nat /\ p.attempts \in Nat /\ p.pages \in Nat
    /\ p.pageBytes \in Nat /\ p.bytes \in Nat /\ p.pageRecords \in Nat /\ p.records \in Nat
    /\ p.pageMemory \in Nat /\ p.memory \in Nat /\ p.wall \in Nat
    /\ p.pageBody \in Nat /\ p.body \in Nat
    /\ p.waiting \in Nat /\ p.retryWaiting \in Nat /\ p.rateWaiting \in Nat
    /\ p.admissionWaiting \in Nat

\* ValidateProfile leaves only profiles whose limits are numbers.
LEMMA ProfilesTyped ==
    ASSUME NEW p \in Profiles
    PROVE  ProfileTypes(p)
  <1>1. \A limit \in Limits : p[limit] \in Nat
    BY RetryAssumption DEF ValidProfile
  <1>. QED
    BY <1>1 DEF Limits, ProfileTypes

LedgerFields ==
    {"state", "attempts", "remote", "pages", "bytes", "records", "memory", "active", "body",
     "waiting", "retryWaiting", "rateWaiting", "admissionWaiting", "started", "deadline",
     "stepAttempts", "stepPage", "sent", "allowance"}

States ==
    {"READY", "STEP_ACTIVE", "REQUEST_ACTIVE", "REQUEST_BODY_COMMITTED", "TRANSPORT_COMMITTED",
     "PAGE_DECODED", "EXHAUSTED", "FAILED"}

LedgerTypes(l) ==
    /\ DOMAIN l = LedgerFields
    /\ l.state \in States
    /\ l.attempts \in Nat /\ l.remote \in Nat /\ l.pages \in Nat /\ l.bytes \in Nat
    /\ l.records \in Nat /\ l.memory \in Nat /\ l.active \in {0, 1} /\ l.body \in Nat
    /\ l.waiting \in Nat /\ l.retryWaiting \in Nat /\ l.rateWaiting \in Nat
    /\ l.admissionWaiting \in Nat /\ l.stepAttempts \in Nat

\* What the aggregate of a scan bounds.
Within(l, p) ==
    /\ l.attempts <= p.attempts /\ l.stepAttempts <= p.stepAttempts
    /\ l.pages <= p.pages /\ l.pages <= l.attempts
    /\ l.remote <= l.attempts
    /\ l.bytes <= p.bytes /\ l.records <= p.records
    /\ l.body <= p.body
    /\ l.waiting <= p.waiting
    /\ l.retryWaiting <= p.retryWaiting /\ l.rateWaiting <= p.rateWaiting
    /\ l.admissionWaiting <= p.admissionWaiting
    /\ l.state # "FAILED" => l.waiting = l.retryWaiting + l.rateWaiting

\* An attempt is under way only between BeginAttempt and its result, a request
\* is paid for before it is sent, and an exhausted scan retains no memory.
Paid(l) ==
    /\ l.active = 1 => l.state \in {"REQUEST_ACTIVE", "REQUEST_BODY_COMMITTED"}
    /\ l.active = 1 /\ ~l.sent => l.remote < l.attempts
    /\ l.state \in {"EXHAUSTED", "READY"} => l.memory = 0
    /\ l.state = "READY" => ~l.stepPage

LedgerInv(l, p) == LedgerTypes(l) /\ Within(l, p) /\ Paid(l)

\* The page that the step asks for, once it has paid for it and before.
Asked(l) == IF l.stepPage THEN l.pages ELSE l.pages + 1

\* What most methods leave alone.
Keeps(l, n) ==
    n.pages = l.pages /\ n.records = l.records /\ n.remote = l.remote /\ Asked(n) = Asked(l)

\* A new ledger has spent nothing.
LEMMA NewLedgerInv ==
    ASSUME NEW p, ProfileTypes(p)
    PROVE  LedgerInv(NewLedger, p)
  <1>1. LedgerTypes(NewLedger)
    BY DEF LedgerTypes, NewLedger, LedgerFields, States
  <1>2. Within(NewLedger, p) /\ Paid(NewLedger)
    BY DEF Within, Paid, NewLedger, ProfileTypes
  <1>. QED
    BY <1>1, <1>2 DEF LedgerInv

\* The bounds that a failed ledger keeps: all but the sum of the waits, which
\* may have been debited from the aggregate only.
FailKept(l, p) ==
    /\ LedgerTypes(l)
    /\ l.attempts <= p.attempts /\ l.stepAttempts <= p.stepAttempts
    /\ l.pages <= p.pages /\ l.pages <= l.attempts
    /\ l.remote <= l.attempts
    /\ l.bytes <= p.bytes /\ l.records <= p.records
    /\ l.body <= p.body
    /\ l.waiting <= p.waiting
    /\ l.retryWaiting <= p.retryWaiting /\ l.rateWaiting <= p.rateWaiting
    /\ l.admissionWaiting <= p.admissionWaiting

\* A wait that fails the ledger after it was counted keeps every ceiling.
LEMMA FailedWait ==
    ASSUME NEW l, NEW p, FailKept(l, p)
    PROVE  /\ LedgerInv(Fail(l), p)
           /\ Fail(l).state = "FAILED" /\ Fail(l).active = 0 /\ Fail(l).memory = 0
           /\ Keeps(l, Fail(l))
  <1> DEFINE n == Fail(l)
  <1>1. /\ n.state = "FAILED" /\ n.active = 0 /\ n.memory = 0
        /\ DOMAIN n = LedgerFields
        /\ n.attempts = l.attempts /\ n.remote = l.remote /\ n.pages = l.pages
        /\ n.bytes = l.bytes /\ n.records = l.records /\ n.body = l.body
        /\ n.waiting = l.waiting /\ n.retryWaiting = l.retryWaiting
        /\ n.rateWaiting = l.rateWaiting /\ n.admissionWaiting = l.admissionWaiting
        /\ n.stepAttempts = l.stepAttempts /\ n.stepPage = l.stepPage
    BY DEF Fail, FailKept, LedgerTypes, LedgerFields
  <1> HIDE DEF n
  <1>2. LedgerTypes(n)
    BY <1>1 DEF FailKept, LedgerTypes, States
  <1>3. Within(n, p)
    BY <1>1 DEF FailKept, Within
  <1>4. Paid(n)
    BY <1>1 DEF Paid
  <1>5. Keeps(l, n)
    BY <1>1 DEF Keeps, Asked
  <1>. QED
    BY <1>1, <1>2, <1>3, <1>4, <1>5 DEF n, LedgerInv

\* Failing a ledger keeps every ceiling and lets go of memory and attempt.
LEMMA FailLedger ==
    ASSUME NEW l, NEW p, LedgerTypes(l), Within(l, p)
    PROVE  /\ LedgerInv(Fail(l), p)
           /\ Fail(l).state = "FAILED" /\ Fail(l).active = 0 /\ Fail(l).memory = 0
           /\ Keeps(l, Fail(l))
  <1>1. FailKept(l, p)
    BY DEF FailKept, Within
  <1>. QED
    BY <1>1, FailedWait

\* What a method that only fails the ledger, or leaves its state, does.
Settled(l, n, p, states) ==
    LedgerInv(n, p) /\ Keeps(l, n) /\ n.state \in states

\* A failed ledger is a settled one.
LEMMA FailSettles ==
    ASSUME NEW l, NEW p, LedgerInv(l, p), NEW states, "FAILED" \in states
    PROVE  Settled(l, Fail(l), p, states) /\ Fail(l).active = 0
  BY FailLedger DEF Settled, LedgerInv

\* BeginStep starts the next page or the same one again, or fails.
LEMMA BeginStepLedger ==
    ASSUME NEW l, NEW p, NEW t, ProfileTypes(p), LedgerInv(l, p)
    PROVE  /\ LedgerInv(BeginStep(l, p, t), p)
           /\ BeginStep(l, p, t).state \in {"STEP_ACTIVE", "FAILED"}
           /\ BeginStep(l, p, t).records = l.records /\ BeginStep(l, p, t).pages = l.pages
           /\ BeginStep(l, p, t).remote = l.remote
           /\ BeginStep(l, p, t).state = "STEP_ACTIVE" =>
                 l.state = "READY" /\ Asked(BeginStep(l, p, t)) = l.pages + 1
  <1> DEFINE s == IF l.started THEN l ELSE [l EXCEPT !.started = TRUE, !.deadline = t + p.wall]
             n == [s EXCEPT !.stepAttempts = 0, !.stepPage = FALSE, !.state = "STEP_ACTIVE"]
  <1>1. LedgerTypes(l) /\ Within(l, p) /\ Paid(l)
    BY DEF LedgerInv
  <1>2. CASE l.state # "READY"
    BY <1>1, <1>2, FailLedger DEF BeginStep, Keeps
  <1>3. CASE l.state = "READY"
    <2>1. /\ s.state = l.state /\ DOMAIN s = LedgerFields
          /\ s.attempts = l.attempts /\ s.remote = l.remote /\ s.pages = l.pages
          /\ s.bytes = l.bytes /\ s.records = l.records /\ s.body = l.body
          /\ s.waiting = l.waiting /\ s.retryWaiting = l.retryWaiting
          /\ s.rateWaiting = l.rateWaiting /\ s.admissionWaiting = l.admissionWaiting
          /\ s.stepAttempts = l.stepAttempts /\ s.active = l.active /\ s.memory = l.memory
      BY <1>1 DEF LedgerTypes, LedgerFields
    <2> HIDE DEF s
    <2>2. LedgerTypes(s) /\ Within(s, p)
      BY <1>1, <2>1 DEF LedgerTypes, Within
    <2>3. BeginStep(l, p, t) = IF NothingLeft(s, p, t) THEN Fail(s) ELSE n
      BY <1>3 DEF BeginStep, s
    <2>4. /\ n.state = "STEP_ACTIVE" /\ DOMAIN n = LedgerFields
          /\ n.attempts = s.attempts /\ n.remote = s.remote /\ n.pages = s.pages
          /\ n.bytes = s.bytes /\ n.records = s.records /\ n.body = s.body
          /\ n.waiting = s.waiting /\ n.retryWaiting = s.retryWaiting
          /\ n.rateWaiting = s.rateWaiting /\ n.admissionWaiting = s.admissionWaiting
          /\ n.stepAttempts = 0 /\ n.active = s.active /\ n.memory = s.memory
          /\ ~n.stepPage
      BY <2>1 DEF LedgerFields
    <2> HIDE DEF n
    <2>5. LedgerTypes(n)
      BY <2>2, <2>4 DEF LedgerTypes, States
    <2>6. Within(n, p)
      BY <1>3, <2>1, <2>2, <2>4 DEF Within, ProfileTypes
    <2>7. Paid(n)
      BY <1>1, <1>3, <2>1, <2>4 DEF Paid, LedgerTypes
    <2>8. Asked(n) = l.pages + 1
      BY <2>1, <2>4 DEF Asked
    <2>9. CASE NothingLeft(s, p, t)
      BY <2>1, <2>2, <2>3, <2>9, FailLedger DEF Keeps
    <2>10. CASE ~NothingLeft(s, p, t)
      BY <1>3, <2>1, <2>3, <2>4, <2>5, <2>6, <2>7, <2>8, <2>10 DEF LedgerInv
    <2>. QED BY <2>9, <2>10
  <1>. QED BY <1>2, <1>3

\* An attempt that has begun: it is paid for and not sent.
Begun(l, n, p) ==
    /\ LedgerInv(n, p)
    /\ l.state = "STEP_ACTIVE" /\ n.state = "REQUEST_ACTIVE"
    /\ n.active = 1 /\ ~n.sent /\ n.stepPage
    /\ n.records = l.records /\ n.remote = l.remote /\ n.body = l.body
    /\ n.pages = Asked(l) /\ Asked(n) = Asked(l)
    /\ n.allowance.body = IF p.pageBody = 0 THEN 0 ELSE Least(p.pageBody, p.body - l.body)

\* BeginAttempt counts an attempt within step and scan, or fails.
LEMMA BeginAttemptLedger ==
    ASSUME NEW l, NEW p, NEW t, ProfileTypes(p), LedgerInv(l, p)
    PROVE  IF BeginAttempt(l, p, t).state = "FAILED"
           THEN LedgerInv(BeginAttempt(l, p, t), p) /\ Keeps(l, BeginAttempt(l, p, t))
           ELSE Begun(l, BeginAttempt(l, p, t), p)
  <1> DEFINE refused == \/ l.state # "STEP_ACTIVE" \/ t >= l.deadline
                        \/ ~l.stepPage /\ l.pages >= p.pages
                        \/ l.stepAttempts >= p.stepAttempts \/ l.attempts >= p.attempts
                        \/ l.active >= 1
             n == [l EXCEPT !.stepAttempts = @ + 1, !.attempts = @ + 1,
                            !.pages = IF l.stepPage THEN @ ELSE @ + 1,
                            !.active = 1, !.stepPage = TRUE, !.sent = FALSE,
                            !.allowance = Allowance(l, p), !.state = "REQUEST_ACTIVE"]
  <1>1. LedgerTypes(l) /\ Within(l, p) /\ Paid(l)
    BY DEF LedgerInv
  <1>2. BeginAttempt(l, p, t) = IF refused THEN Fail(l) ELSE n
    BY DEF BeginAttempt
  <1>3. CASE refused
    BY <1>1, <1>2, <1>3, FailLedger
  <1>4. CASE ~refused
    <2>1. /\ n.state = "REQUEST_ACTIVE" /\ DOMAIN n = LedgerFields
          /\ n.attempts = l.attempts + 1 /\ n.remote = l.remote
          /\ n.pages = IF l.stepPage THEN l.pages ELSE l.pages + 1
          /\ n.bytes = l.bytes /\ n.records = l.records /\ n.body = l.body
          /\ n.waiting = l.waiting /\ n.retryWaiting = l.retryWaiting
          /\ n.rateWaiting = l.rateWaiting /\ n.admissionWaiting = l.admissionWaiting
          /\ n.stepAttempts = l.stepAttempts + 1 /\ n.active = 1 /\ n.memory = l.memory
          /\ n.allowance = Allowance(l, p) /\ n.stepPage /\ ~n.sent
      BY <1>1 DEF LedgerTypes, LedgerFields
    <2> HIDE DEF n
    <2>2. LedgerTypes(n)
      BY <1>1, <2>1 DEF LedgerTypes, States
    <2>3. Within(n, p)
      BY <1>1, <1>4, <2>1 DEF Within, LedgerTypes, ProfileTypes
    <2>4. Paid(n)
      BY <1>1, <2>1 DEF Paid, Within, LedgerTypes
    <2>5. n.pages = Asked(l) /\ Asked(n) = Asked(l)
      BY <2>1 DEF Asked
    <2>6. n.allowance.body = IF p.pageBody = 0 THEN 0 ELSE Least(p.pageBody, p.body - l.body)
      BY <2>1 DEF Allowance
    <2>7. Begun(l, n, p)
      BY <1>4, <2>1, <2>2, <2>3, <2>4, <2>5, <2>6 DEF Begun, LedgerInv
    <2>. QED
      BY <1>2, <1>4, <2>1, <2>7
  <1>. QED BY <1>3, <1>4

\* A request that is with the transport, paid for with its body.
Sent(l, n, p) ==
    /\ LedgerInv(n, p)
    /\ n.active = 1 /\ n.sent /\ n.stepPage
    /\ n.records = l.records /\ n.pages = l.pages /\ Asked(n) = Asked(l)

\* The body and the request of an attempt that fits its allowance never fail.
LEMMA SendLedger ==
    ASSUME NEW o, NEW l, NEW p, NEW k \in Nat, ProfileTypes(p), Begun(o, l, p), Within(o, p),
           LedgerTypes(o), k = 0 <=> p.pageBody = 0, k <= l.allowance.body
    PROVE  Sent(l, CommitRemoteRequest(IF k = 0 THEN l ELSE CommitRequestBody(l, p, k), p), p)
  <1> DEFINE b == IF k = 0 THEN l ELSE CommitRequestBody(l, p, k)
             m == [l EXCEPT !.body = @ + k, !.state = "REQUEST_BODY_COMMITTED"]
             n == [b EXCEPT !.remote = @ + 1, !.sent = TRUE]
  <1>1. LedgerTypes(l) /\ Within(l, p) /\ Paid(l)
    BY DEF Begun, LedgerInv
  <1>2. /\ l.state = "REQUEST_ACTIVE" /\ l.active = 1 /\ ~l.sent /\ l.stepPage
        /\ l.body \in Nat /\ l.body = o.body /\ l.body <= p.body
        /\ l.remote < l.attempts
    BY <1>1 DEF Begun, Within, LedgerTypes, Paid
  <1>3. LedgerInv(b, p) /\ Sendable(b, p) /\ b.active = 1 /\ ~b.sent /\ b.stepPage
        /\ b.records = l.records /\ b.pages = l.pages /\ Asked(b) = Asked(l)
    <2>1. CASE k = 0
      BY <1>2, <2>1 DEF Begun, Sendable
    <2>2. CASE k # 0
      <3>. p.pageBody # 0 /\ l.allowance.body = Least(p.pageBody, p.body - l.body)
        BY <1>2, <2>2, Zenon DEF Begun
      <3>. p.pageBody \in Nat /\ p.body \in Nat
        BY DEF ProfileTypes
      <3>1. l.body + k <= p.body
        BY <1>2 DEF Least
      <3>. l.allowance.body \in Int
        BY <1>2 DEF Least
      <3>. ~(k > l.allowance.body) /\ ~(l.body + k > p.body)
        BY <1>2, <3>1
      <3>2. b = m
        BY <1>2, <2>2, Zenon DEF CommitRequestBody
      <3>3. /\ m.state = "REQUEST_BODY_COMMITTED" /\ DOMAIN m = LedgerFields
            /\ m.attempts = l.attempts /\ m.remote = l.remote /\ m.pages = l.pages
            /\ m.bytes = l.bytes /\ m.records = l.records /\ m.body = l.body + k
            /\ m.waiting = l.waiting /\ m.retryWaiting = l.retryWaiting
            /\ m.rateWaiting = l.rateWaiting /\ m.admissionWaiting = l.admissionWaiting
            /\ m.stepAttempts = l.stepAttempts /\ m.active = l.active /\ m.memory = l.memory
            /\ m.stepPage = l.stepPage /\ m.sent = l.sent
        BY <1>1 DEF LedgerTypes, LedgerFields
      <3> HIDE DEF m
      <3>4. LedgerTypes(m)
        BY <1>1, <3>3 DEF LedgerTypes, States
      <3>5. Within(m, p)
        BY <1>1, <1>2, <3>1, <3>3 DEF Within
      <3>6. Paid(m)
        BY <1>2, <3>3 DEF Paid
      <3>7. Asked(m) = Asked(l)
        BY <3>3 DEF Asked
      <3>. QED
        BY <1>2, <2>2, <3>2, <3>3, <3>4, <3>5, <3>6, <3>7, Zenon DEF LedgerInv, Sendable
    <2>. QED BY <2>1, <2>2
  <1> HIDE DEF b
  <1>4. LedgerTypes(b) /\ Within(b, p) /\ Paid(b)
    BY <1>3 DEF LedgerInv
  <1>5. b.remote < b.attempts /\ b.attempts <= p.attempts
    BY <1>3, <1>4 DEF Paid, Within
  <1>6. CommitRemoteRequest(b, p) = n
    BY <1>3, <1>4, <1>5 DEF CommitRemoteRequest, LedgerTypes, ProfileTypes
  <1>7. /\ n.state = b.state /\ DOMAIN n = LedgerFields
        /\ n.attempts = b.attempts /\ n.remote = b.remote + 1 /\ n.pages = b.pages
        /\ n.bytes = b.bytes /\ n.records = b.records /\ n.body = b.body
        /\ n.waiting = b.waiting /\ n.retryWaiting = b.retryWaiting
        /\ n.rateWaiting = b.rateWaiting /\ n.admissionWaiting = b.admissionWaiting
        /\ n.stepAttempts = b.stepAttempts /\ n.active = b.active /\ n.memory = b.memory
        /\ n.stepPage = b.stepPage /\ n.sent
    BY <1>4 DEF LedgerTypes, LedgerFields
  <1> HIDE DEF n
  <1>8. LedgerTypes(n)
    BY <1>4, <1>7 DEF LedgerTypes
  <1>9. Within(n, p)
    BY <1>4, <1>5, <1>7 DEF Within, LedgerTypes
  <1>10. Paid(n)
    BY <1>4, <1>7 DEF Paid
  <1>11. Asked(n) = Asked(b)
    BY <1>7 DEF Asked
  <1>12. Sent(l, n, p)
    BY <1>3, <1>7, <1>8, <1>9, <1>10, <1>11 DEF Sent, LedgerInv
  <1>. QED
    BY <1>6, <1>12 DEF b

\* CommitAttemptUsage debits what was received within the ceilings, or fails.
LEMMA UsageLedger ==
    ASSUME NEW l, NEW p, NEW k \in Nat, NEW next \in {"STEP_ACTIVE", "TRANSPORT_COMMITTED"},
           ProfileTypes(p), LedgerInv(l, p)
    PROVE  /\ Settled(l, CommitAttemptUsage(l, p, k, next), p, {next, "FAILED"})
           /\ CommitAttemptUsage(l, p, k, next).active = 0
  <1> DEFINE refused == ~Sendable(l, p) \/ k > l.allowance.bytes \/ l.bytes + k > p.bytes
             n == [l EXCEPT !.bytes = @ + k, !.active = 0, !.state = next]
  <1>1. LedgerTypes(l) /\ Within(l, p) /\ Paid(l)
    BY DEF LedgerInv
  <1>2. CommitAttemptUsage(l, p, k, next) = IF refused THEN Fail(l) ELSE n
    BY DEF CommitAttemptUsage
  <1>3. CASE refused
    BY <1>2, <1>3, FailSettles
  <1>4. CASE ~refused
    <2>1. /\ n.state = next /\ DOMAIN n = LedgerFields
          /\ n.attempts = l.attempts /\ n.remote = l.remote /\ n.pages = l.pages
          /\ n.bytes = l.bytes + k /\ n.records = l.records /\ n.body = l.body
          /\ n.waiting = l.waiting /\ n.retryWaiting = l.retryWaiting
          /\ n.rateWaiting = l.rateWaiting /\ n.admissionWaiting = l.admissionWaiting
          /\ n.stepAttempts = l.stepAttempts /\ n.active = 0 /\ n.memory = l.memory
          /\ n.stepPage = l.stepPage
      BY <1>1 DEF LedgerTypes, LedgerFields
    <2> HIDE DEF n
    <2>2. LedgerTypes(n)
      BY <1>1, <2>1 DEF LedgerTypes, States
    <2>3. l.state # "FAILED"
      BY <1>4 DEF Sendable
    <2>4. Within(n, p)
      BY <1>1, <1>4, <2>1, <2>3 DEF Within, LedgerTypes, ProfileTypes
    <2>5. Paid(n)
      BY <2>1 DEF Paid
    <2>6. Keeps(l, n)
      BY <2>1 DEF Keeps, Asked
    <2>. QED
      BY <1>2, <1>4, <2>1, <2>2, <2>4, <2>5, <2>6 DEF Settled, LedgerInv
  <1>. QED BY <1>3, <1>4

\* What a decoded page and its completion do to the ledger.
Decoded(l, n, p, rows) ==
    /\ LedgerInv(n, p)
    /\ l.state = "TRANSPORT_COMMITTED" /\ n.state = "PAGE_DECODED"
    /\ n.records = l.records + rows /\ n.pages = l.pages /\ n.remote = l.remote

\* CommitDecodedPage counts the rows of a page once, or fails.
LEMMA DecodedLedger ==
    ASSUME NEW l, NEW p, NEW rows \in Nat, ProfileTypes(p), LedgerInv(l, p)
    PROVE  IF CommitDecodedPage(l, p, rows, 1).state = "FAILED"
           THEN LedgerInv(CommitDecodedPage(l, p, rows, 1), p)
                /\ CommitDecodedPage(l, p, rows, 1).remote = l.remote
           ELSE Decoded(l, CommitDecodedPage(l, p, rows, 1), p, rows)
  <1> DEFINE refused == \/ l.state # "TRANSPORT_COMMITTED" \/ rows > l.allowance.records
                        \/ 1 > l.allowance.memory \/ l.records + rows > p.records
             n == [l EXCEPT !.records = @ + rows, !.memory = 1, !.state = "PAGE_DECODED"]
  <1>1. LedgerTypes(l) /\ Within(l, p) /\ Paid(l)
    BY DEF LedgerInv
  <1>2. CommitDecodedPage(l, p, rows, 1) = IF refused THEN Fail(l) ELSE n
    BY DEF CommitDecodedPage
  <1>3. CASE refused
    BY <1>1, <1>2, <1>3, FailLedger DEF Keeps
  <1>4. CASE ~refused
    <2>1. /\ n.state = "PAGE_DECODED" /\ DOMAIN n = LedgerFields
          /\ n.attempts = l.attempts /\ n.remote = l.remote /\ n.pages = l.pages
          /\ n.bytes = l.bytes /\ n.records = l.records + rows /\ n.body = l.body
          /\ n.waiting = l.waiting /\ n.retryWaiting = l.retryWaiting
          /\ n.rateWaiting = l.rateWaiting /\ n.admissionWaiting = l.admissionWaiting
          /\ n.stepAttempts = l.stepAttempts /\ n.active = l.active /\ n.memory = 1
      BY <1>1 DEF LedgerTypes, LedgerFields
    <2> HIDE DEF n
    <2>2. LedgerTypes(n)
      BY <1>1, <2>1 DEF LedgerTypes, States
    <2>3. Within(n, p)
      BY <1>1, <1>4, <2>1 DEF Within, LedgerTypes, ProfileTypes
    <2>4. Paid(n)
      BY <1>1, <1>4, <2>1, Zenon DEF Paid
    <2>. QED
      BY <1>2, <1>4, <2>1, <2>2, <2>3, <2>4, Zenon DEF Decoded, LedgerInv
  <1>. QED BY <1>3, <1>4

Completed(l, n, p, hasNext) ==
    /\ LedgerInv(n, p)
    /\ n.state = IF hasNext THEN "READY" ELSE "EXHAUSTED"
    /\ n.memory = 0
    /\ n.records = l.records /\ n.pages = l.pages /\ n.remote = l.remote

\* CompletePage goes on to the next page or exhausts the ledger, or fails.
LEMMA CompletedLedger ==
    ASSUME NEW l, NEW p, NEW hasNext, NEW t, ProfileTypes(p), LedgerInv(l, p)
    PROVE  IF CompletePage(l, p, hasNext, t).state = "FAILED"
           THEN LedgerInv(CompletePage(l, p, hasNext, t), p)
                /\ CompletePage(l, p, hasNext, t).remote = l.remote
           ELSE Completed(l, CompletePage(l, p, hasNext, t), p, hasNext)
  <1> DEFINE done == [l EXCEPT !.memory = 0, !.stepAttempts = 0, !.stepPage = FALSE]
             tardy == [l EXCEPT !.memory = 0]
             ended == [done EXCEPT !.state = "EXHAUSTED"]
             ready == [done EXCEPT !.state = "READY"]
  <1>1. LedgerTypes(l) /\ Within(l, p) /\ Paid(l)
    BY DEF LedgerInv
  <1>2. /\ tardy.state = l.state /\ DOMAIN tardy = LedgerFields
        /\ tardy.attempts = l.attempts /\ tardy.remote = l.remote /\ tardy.pages = l.pages
        /\ tardy.bytes = l.bytes /\ tardy.records = l.records /\ tardy.body = l.body
        /\ tardy.waiting = l.waiting /\ tardy.retryWaiting = l.retryWaiting
        /\ tardy.rateWaiting = l.rateWaiting /\ tardy.admissionWaiting = l.admissionWaiting
        /\ tardy.stepAttempts = l.stepAttempts /\ tardy.active = l.active /\ tardy.memory = 0
    BY <1>1 DEF LedgerTypes, LedgerFields
  <1>3. /\ done.state = l.state /\ DOMAIN done = LedgerFields
        /\ done.attempts = l.attempts /\ done.remote = l.remote /\ done.pages = l.pages
        /\ done.bytes = l.bytes /\ done.records = l.records /\ done.body = l.body
        /\ done.waiting = l.waiting /\ done.retryWaiting = l.retryWaiting
        /\ done.rateWaiting = l.rateWaiting /\ done.admissionWaiting = l.admissionWaiting
        /\ done.stepAttempts = 0 /\ done.active = l.active /\ done.memory = 0
        /\ ~done.stepPage
    BY <1>1 DEF LedgerTypes, LedgerFields
  <1> HIDE DEF tardy, done
  <1>4. LedgerTypes(tardy) /\ Within(tardy, p)
    BY <1>1, <1>2 DEF LedgerTypes, Within
  <1>5. LedgerTypes(done) /\ Within(done, p)
    BY <1>1, <1>3 DEF LedgerTypes, Within, ProfileTypes
  <1>6. ASSUME NEW state \in {"EXHAUSTED", "READY"}, l.state = "PAGE_DECODED",
               state = IF hasNext THEN "READY" ELSE "EXHAUSTED"
        PROVE  Completed(l, [done EXCEPT !.state = state], p, hasNext)
    <2> DEFINE n == [done EXCEPT !.state = state]
    <2>1. /\ n.state = state /\ DOMAIN n = LedgerFields
          /\ n.attempts = done.attempts /\ n.remote = done.remote /\ n.pages = done.pages
          /\ n.bytes = done.bytes /\ n.records = done.records /\ n.body = done.body
          /\ n.waiting = done.waiting /\ n.retryWaiting = done.retryWaiting
          /\ n.rateWaiting = done.rateWaiting /\ n.admissionWaiting = done.admissionWaiting
          /\ n.stepAttempts = 0 /\ n.active = done.active /\ n.memory = 0
          /\ n.stepPage = done.stepPage
      BY <1>3 DEF LedgerFields
    <2> HIDE DEF n
    <2>2. LedgerTypes(n)
      BY <1>5, <2>1 DEF LedgerTypes, States
    <2>3. Within(n, p)
      BY <1>3, <1>5, <1>6, <2>1, Zenon DEF Within
    <2>4. Paid(n)
      BY <1>1, <1>3, <1>6, <2>1, Zenon DEF Paid, LedgerTypes
    <2>5. Completed(l, n, p, hasNext)
      BY <1>3, <1>6, <2>1, <2>2, <2>3, <2>4, Zenon DEF Completed, LedgerInv
    <2>. QED BY <2>5 DEF n
  <1>7. CASE l.state # "PAGE_DECODED"
    BY <1>1, <1>7, FailLedger DEF CompletePage, Keeps
  <1>8. CASE l.state = "PAGE_DECODED" /\ t >= l.deadline
    BY <1>2, <1>4, <1>8, FailLedger, Zenon DEF CompletePage, Keeps, tardy
  <1>9. CASE l.state = "PAGE_DECODED" /\ ~(t >= l.deadline) /\ ~hasNext
    <2>1. CompletePage(l, p, hasNext, t) = ended
      BY <1>9 DEF CompletePage, done
    <2>2. Completed(l, ended, p, hasNext)
      BY <1>6, <1>9
    <2>3. ended.state # "FAILED"
      BY <1>9, <2>2 DEF Completed
    <2>. QED BY <2>1, <2>2, <2>3
  <1>10. CASE l.state = "PAGE_DECODED" /\ ~(t >= l.deadline) /\ hasNext
    <2>1. CASE NothingLeft(l, p, t)
      <3>1. CompletePage(l, p, hasNext, t) = Fail(done)
        BY <1>10, <2>1 DEF CompletePage, done
      <3>. QED
        BY <1>3, <1>5, <3>1, FailLedger DEF Keeps
    <2>2. CASE ~NothingLeft(l, p, t)
      <3>1. CompletePage(l, p, hasNext, t) = ready
        BY <1>10, <2>2 DEF CompletePage, done
      <3>2. Completed(l, ready, p, hasNext)
        BY <1>6, <1>10, Zenon
      <3>3. ready.state # "FAILED"
        BY <1>10, <3>2 DEF Completed
      <3>. QED BY <3>1, <3>2, <3>3
    <2>. QED BY <2>1, <2>2
  <1>. QED BY <1>7, <1>8, <1>9, <1>10

\* A wait debits itself or fails; it touches nothing else.
LEMMA RetryWaitLedger ==
    ASSUME NEW l, NEW p, NEW k \in Nat, ProfileTypes(p), LedgerInv(l, p),
           l.state \in {"STEP_ACTIVE", "FAILED"}
    PROVE  Settled(l, CommitRetryWait(l, p, k), p, {"STEP_ACTIVE", "FAILED"})
  <1> DEFINE w == [l EXCEPT !.waiting = @ + k]
             n == [l EXCEPT !.waiting = @ + k, !.retryWaiting = @ + k]
  <1>1. LedgerTypes(l) /\ Within(l, p) /\ Paid(l)
    BY DEF LedgerInv
  <1>2. CASE l.state # "STEP_ACTIVE" \/ l.waiting + k > p.waiting
    BY <1>2, FailSettles DEF CommitRetryWait
  <1>3. CASE ~(l.state # "STEP_ACTIVE" \/ l.waiting + k > p.waiting)
             /\ l.retryWaiting + k > p.retryWaiting
    <2>1. /\ w.state = l.state /\ DOMAIN w = LedgerFields
          /\ w.attempts = l.attempts /\ w.remote = l.remote /\ w.pages = l.pages
          /\ w.bytes = l.bytes /\ w.records = l.records /\ w.body = l.body
          /\ w.waiting = l.waiting + k /\ w.retryWaiting = l.retryWaiting
          /\ w.rateWaiting = l.rateWaiting /\ w.admissionWaiting = l.admissionWaiting
          /\ w.stepAttempts = l.stepAttempts /\ w.active = l.active /\ w.memory = l.memory
          /\ w.stepPage = l.stepPage
      BY <1>1 DEF LedgerTypes, LedgerFields
    <2> HIDE DEF w
    <2>2. LedgerTypes(w)
      BY <1>1, <2>1 DEF LedgerTypes
    <2>3. CommitRetryWait(l, p, k) = Fail(w)
      BY <1>3 DEF CommitRetryWait, w
    <2>4. /\ LedgerInv(Fail(w), p) /\ Fail(w).state = "FAILED" /\ Keeps(w, Fail(w))
      <3>1. FailKept(w, p)
        BY <1>1, <1>3, <2>1, <2>2 DEF FailKept, Within, LedgerTypes, ProfileTypes
      <3>. QED
        BY <3>1, FailedWait
    <2>5. Keeps(l, Fail(w))
      BY <2>1, <2>4, Zenon DEF Keeps, Asked
    <2>. QED
      BY <2>3, <2>4, <2>5 DEF Settled
  <1>4. CASE ~(l.state # "STEP_ACTIVE" \/ l.waiting + k > p.waiting)
             /\ ~(l.retryWaiting + k > p.retryWaiting)
    <2>1. /\ n.state = l.state /\ DOMAIN n = LedgerFields
          /\ n.attempts = l.attempts /\ n.remote = l.remote /\ n.pages = l.pages
          /\ n.bytes = l.bytes /\ n.records = l.records /\ n.body = l.body
          /\ n.waiting = l.waiting + k /\ n.retryWaiting = l.retryWaiting + k
          /\ n.rateWaiting = l.rateWaiting /\ n.admissionWaiting = l.admissionWaiting
          /\ n.stepAttempts = l.stepAttempts /\ n.active = l.active /\ n.memory = l.memory
          /\ n.stepPage = l.stepPage
      BY <1>1 DEF LedgerTypes
    <2>2. CommitRetryWait(l, p, k) = n
      BY <1>4 DEF CommitRetryWait
    <2> HIDE DEF n
    <2>3. LedgerTypes(n)
      BY <1>1, <2>1 DEF LedgerTypes
    <2>4. Within(n, p)
      BY <1>1, <1>4, <2>1 DEF Within, LedgerTypes, ProfileTypes
    <2>5. Paid(n)
      BY <1>1, <1>4, <2>1, Zenon DEF Paid
    <2>6. Keeps(l, n)
      BY <2>1, Zenon DEF Keeps, Asked
    <2>. QED
      BY <1>4, <2>1, <2>2, <2>3, <2>4, <2>5, <2>6 DEF Settled, LedgerInv
  <1>. QED BY <1>2, <1>3, <1>4

\* CommitRateLimitWait adds a wait to both sums within their ceilings, or
\* fails.
LEMMA RateLimitWaitLedger ==
    ASSUME NEW l, NEW p, NEW k \in Nat, ProfileTypes(p), LedgerInv(l, p),
           l.state \in {"STEP_ACTIVE", "FAILED"}
    PROVE  Settled(l, CommitRateLimitWait(l, p, k), p, {"STEP_ACTIVE", "FAILED"})
  <1> DEFINE w == [l EXCEPT !.waiting = @ + k]
             n == [l EXCEPT !.waiting = @ + k, !.rateWaiting = @ + k]
  <1>1. LedgerTypes(l) /\ Within(l, p) /\ Paid(l)
    BY DEF LedgerInv
  <1>2. CASE l.state # "STEP_ACTIVE" \/ l.waiting + k > p.waiting
    BY <1>2, FailSettles DEF CommitRateLimitWait
  <1>3. CASE ~(l.state # "STEP_ACTIVE" \/ l.waiting + k > p.waiting)
             /\ l.rateWaiting + k > p.rateWaiting
    <2>1. /\ w.state = l.state /\ DOMAIN w = LedgerFields
          /\ w.attempts = l.attempts /\ w.remote = l.remote /\ w.pages = l.pages
          /\ w.bytes = l.bytes /\ w.records = l.records /\ w.body = l.body
          /\ w.waiting = l.waiting + k /\ w.retryWaiting = l.retryWaiting
          /\ w.rateWaiting = l.rateWaiting /\ w.admissionWaiting = l.admissionWaiting
          /\ w.stepAttempts = l.stepAttempts /\ w.active = l.active /\ w.memory = l.memory
          /\ w.stepPage = l.stepPage
      BY <1>1 DEF LedgerTypes, LedgerFields
    <2> HIDE DEF w
    <2>2. LedgerTypes(w)
      BY <1>1, <2>1 DEF LedgerTypes
    <2>3. CommitRateLimitWait(l, p, k) = Fail(w)
      BY <1>3 DEF CommitRateLimitWait, w
    <2>4. /\ LedgerInv(Fail(w), p) /\ Fail(w).state = "FAILED" /\ Keeps(w, Fail(w))
      <3>1. FailKept(w, p)
        BY <1>1, <1>3, <2>1, <2>2 DEF FailKept, Within, LedgerTypes, ProfileTypes
      <3>. QED
        BY <3>1, FailedWait
    <2>5. Keeps(l, Fail(w))
      BY <2>1, <2>4 DEF Keeps, Asked
    <2>. QED
      BY <2>3, <2>4, <2>5 DEF Settled
  <1>4. CASE ~(l.state # "STEP_ACTIVE" \/ l.waiting + k > p.waiting)
             /\ ~(l.rateWaiting + k > p.rateWaiting)
    <2>1. /\ n.state = l.state /\ DOMAIN n = LedgerFields
          /\ n.attempts = l.attempts /\ n.remote = l.remote /\ n.pages = l.pages
          /\ n.bytes = l.bytes /\ n.records = l.records /\ n.body = l.body
          /\ n.waiting = l.waiting + k /\ n.retryWaiting = l.retryWaiting
          /\ n.rateWaiting = l.rateWaiting + k /\ n.admissionWaiting = l.admissionWaiting
          /\ n.stepAttempts = l.stepAttempts /\ n.active = l.active /\ n.memory = l.memory
          /\ n.stepPage = l.stepPage
      BY <1>1 DEF LedgerTypes, LedgerFields
    <2>2. CommitRateLimitWait(l, p, k) = n
      BY <1>4 DEF CommitRateLimitWait
    <2> HIDE DEF n
    <2>3. LedgerTypes(n)
      BY <1>1, <2>1 DEF LedgerTypes
    <2>4. Within(n, p)
      BY <1>1, <1>4, <2>1 DEF Within, LedgerTypes, ProfileTypes
    <2>5. Paid(n)
      BY <1>1, <1>4, <2>1, Zenon DEF Paid
    <2>6. Keeps(l, n)
      BY <2>1, Zenon DEF Keeps, Asked
    <2>. QED
      BY <1>4, <2>1, <2>2, <2>3, <2>4, <2>5, <2>6 DEF Settled, LedgerInv
  <1>. QED BY <1>2, <1>3, <1>4

\* CommitAdmissionWait adds a wait to its own sum within its ceiling, or
\* fails.
LEMMA AdmissionWaitLedger ==
    ASSUME NEW l, NEW p, NEW k \in Nat, ProfileTypes(p), LedgerInv(l, p),
           l.state \in {"STEP_ACTIVE", "FAILED"}
    PROVE  Settled(l, CommitAdmissionWait(l, k, p.admissionWaiting), p, {"STEP_ACTIVE", "FAILED"})
  <1> DEFINE refused == l.state # "STEP_ACTIVE" \/ l.admissionWaiting + k > p.admissionWaiting
             n == [l EXCEPT !.admissionWaiting = @ + k]
  <1>1. LedgerTypes(l) /\ Within(l, p) /\ Paid(l)
    BY DEF LedgerInv
  <1>2. CommitAdmissionWait(l, k, p.admissionWaiting) = IF refused THEN Fail(l) ELSE n
    BY DEF CommitAdmissionWait
  <1>3. CASE refused
    BY <1>2, <1>3, FailSettles
  <1>4. CASE ~refused
    <2>1. /\ n.state = l.state /\ DOMAIN n = LedgerFields
          /\ n.attempts = l.attempts /\ n.remote = l.remote /\ n.pages = l.pages
          /\ n.bytes = l.bytes /\ n.records = l.records /\ n.body = l.body
          /\ n.waiting = l.waiting /\ n.retryWaiting = l.retryWaiting
          /\ n.rateWaiting = l.rateWaiting /\ n.admissionWaiting = l.admissionWaiting + k
          /\ n.stepAttempts = l.stepAttempts /\ n.active = l.active /\ n.memory = l.memory
          /\ n.stepPage = l.stepPage
      BY <1>1 DEF LedgerTypes, LedgerFields
    <2> HIDE DEF n
    <2>2. LedgerTypes(n)
      BY <1>1, <2>1 DEF LedgerTypes
    <2>3. Within(n, p)
      BY <1>1, <1>4, <2>1 DEF Within, LedgerTypes, ProfileTypes
    <2>4. Paid(n)
      BY <1>1, <1>4, <2>1, Zenon DEF Paid
    <2>5. Keeps(l, n)
      BY <2>1 DEF Keeps, Asked
    <2>. QED
      BY <1>2, <1>4, <2>1, <2>2, <2>3, <2>4, <2>5 DEF Settled, LedgerInv
  <1>. QED BY <1>3, <1>4

--------------------------------------------------------------------------------
(* The inductive invariant.                                                 *)

\* Phases of a step before its attempt is handed to the transport.
Before == {"top", "quota", "admit", "attempt", "backoff", "slice", "repeat"}

Phases == Before \cup {"idle", "transport", "threw", "returned"}

StepFields ==
    {"phase", "ordinary", "rate", "keyed", "immediate", "bucket", "body", "began", "eligible",
     "deadline", "answers", "delay", "waited", "outcome"}

\* The clock readings of a step are past, and a backoff is not overdrawn.
StepTypes(s, t) ==
    /\ DOMAIN s = StepFields
    /\ s.phase \in Phases
    /\ s.body \in Nat /\ s.began \in Nat /\ s.eligible \in Nat
    /\ s.delay \in Nat /\ s.waited \in Nat
    /\ s.began <= t /\ s.waited <= s.delay
    /\ s.phase = "slice" => s.eligible <= t

\* The authorities of a step, by its phase.
HeldAt(s, h) ==
    /\ DOMAIN h = {"quota", "request", "buffers", "waiter"}
    /\ s.phase \in {"idle", "threw"} => h = NoHold
    /\ s.phase \in {"quota", "backoff", "slice", "repeat"} =>
          ~h.quota /\ ~h.request /\ ~h.buffers
    /\ s.phase \in {"top", "admit"} => ~h.request /\ ~h.buffers /\ h.waiter = "NONE"
    /\ s.phase = "attempt" => h.request /\ ~h.buffers /\ h.waiter = "NONE"
    /\ s.phase = "transport" => h.request /\ h.buffers /\ h.waiter = "NONE"
    /\ s.phase \in {"admit", "attempt", "transport"} => (s.keyed => h.quota)

\* The ledger and the page asked for, by the phase of the step.
StepLedger(s, l, st) ==
    /\ s.phase \in Before => l.state \in {"STEP_ACTIVE", "FAILED"}
    /\ s.phase = "transport" => l.active = 1 /\ l.sent /\ l.stepPage
    /\ s.phase = "returned" => l.state \in {"TRANSPORT_COMMITTED", "FAILED"}
    /\ s.phase \in Before \cup {"transport"} => st.cursor = Asked(l) /\ st.requested = Asked(l)
    /\ s.phase = "returned" => st.cursor = l.pages /\ st.requested = l.pages

StreamFields ==
    {"closed", "exhausted", "terminal", "loaded", "hasNext", "rows", "offset", "emitted",
     "cursor", "requested", "exposure", "outcome"}

StreamTypes(st) ==
    /\ DOMAIN st = StreamFields
    /\ st.rows \in Nat /\ st.offset \in Nat /\ st.emitted \in Nat
    /\ st.cursor \in Nat /\ st.requested \in Nat
    /\ st.offset <= st.rows

Pulls == {"idle", "loop", "produce", "fetch", "step", "received", "decoded"}

\* Where the pull is and what the step and the authorities are then.
PullAt(at, s, h) ==
    /\ at \in Pulls
    /\ at = "step" => s.phase # "idle"
    /\ at \in {"received", "decoded"} => s.phase = "returned"
    /\ at \in {"idle", "loop", "produce", "fetch"} => s.phase = "idle"

\* A scan that goes on, with a page loaded and without one.
Loaded(at, st, l) ==
    /\ at \in {"idle", "loop", "produce"}
    /\ l.state = "PAGE_DECODED"
    /\ st.emitted + st.rows - st.offset = l.records
    /\ st.requested = l.pages
    /\ st.cursor = IF st.hasNext THEN l.pages + 1 ELSE l.pages

Unloaded(at, st, l) ==
    /\ at # "produce"
    /\ st.emitted = l.records
    /\ st.exposure = "UNACCEPTED"
    /\ at \in {"idle", "loop", "fetch"} =>
          l.state = "READY" /\ st.requested = l.pages /\ st.cursor = l.pages + 1

Open(at, st, l, hs) ==
    /\ ~st.closed /\ st.terminal = "NONE" /\ ~st.exhausted /\ st.outcome = "NOT_STARTED"
    /\ {"scan", "secret"} \subseteq hs
    /\ IF st.loaded THEN Loaded(at, st, l) ELSE Unloaded(at, st, l)

Alive == pull # "idle" \/ stream.loaded \/ (~cancelled /\ ~stream.exhausted)

Exhausted(st, l) ==
    /\ st.emitted = l.records
    /\ ~st.hasNext /\ st.terminal = "NONE"
    /\ st.outcome = "SUCCEEDED" /\ l.state = "EXHAUSTED"

\* What the pull, the step and the ledger are to each other.
StepInv ==
    /\ profile \in Profiles /\ now \in Nat
    /\ LedgerInv(ledger, profile)
    /\ StepTypes(step, now) /\ HeldAt(step, held) /\ StepLedger(step, ledger, stream)
    /\ PullAt(pull, step, held)

\* What the stream is between and during pulls.
PullInv ==
    /\ StreamTypes(stream)
    /\ ~cancelled => ~stream.closed /\ stream.terminal = "NONE" /\ pending = {}
    /\ Alive => Open(pull, stream, ledger, holds)
    /\ stream.exhausted => Exhausted(stream, ledger)
    /\ NothingHeldAfterEnd

StreamInv == StepInv /\ PullInv

--------------------------------------------------------------------------------
(* A turn of the step.                                                      *)

\* What no turn of the step touches.
Frame ==
    /\ pull = "step"
    /\ now' = now /\ cancelled' = cancelled /\ interrupted' = interrupted /\ profile' = profile
    /\ pull' = pull /\ stream' = stream /\ holds' = holds /\ pending' = pending
    /\ result' = result

\* What a turn must see to.
Turned ==
    /\ LedgerInv(ledger', profile) /\ ledger'.records = ledger.records
    /\ ledger'.remote # ledger.remote => step.phase = "attempt" /\ step'.phase = "transport"
    /\ StepTypes(step', now) /\ HeldAt(step', held') /\ StepLedger(step', ledger', stream)
    /\ step'.phase # "idle"

\* A turn of the step that sees to what Turned asks keeps the invariant of the
\* stream.
LEMMA TurnKeepsInv ==
    ASSUME StreamInv, Frame, Turned
    PROVE  StreamInv'
  <1>1. StepInv'
    BY DEF StreamInv, StepInv, Frame, Turned, PullAt
  <1>2. Open(pull, stream, ledger, holds)
    BY DEF StreamInv, PullInv, Frame, Alive
  <1>3. Open(pull', stream', ledger', holds')
    <2>1. CASE stream.loaded
      BY <1>2, <2>1 DEF Open, Loaded, Frame
    <2>2. CASE ~stream.loaded
      BY <1>2, <2>2, Zenon DEF Open, Unloaded, Frame, Turned
    <2>. QED BY <2>1, <2>2
  <1>4. ~stream'.exhausted
    BY <1>3 DEF Open
  <1>5. PullInv'
    BY <1>3, <1>4 DEF StreamInv, PullInv, Frame, NothingHeldAfterEnd, Unlocked
  <1>. QED
    BY <1>1, <1>5 DEF StreamInv

\* A step that throws ends every scope it holds.
LEMMA ThrowTurns ==
    ASSUME StepInv, NEW outcome, Throw(outcome), LedgerInv(ledger', profile),
           ledger'.records = ledger.records, ledger'.remote = ledger.remote
    PROVE  Turned
  <1>1. StepTypes(step, now)
    BY DEF StepInv
  <1>2. /\ DOMAIN step' = StepFields /\ step'.phase = "threw" /\ held' = NoHold
        /\ step'.body = step.body /\ step'.began = step.began /\ step'.eligible = step.eligible
        /\ step'.delay = step.delay /\ step'.waited = step.waited
    BY <1>1 DEF Throw, StepTypes, StepFields
  <1>3. StepTypes(step', now)
    BY <1>1, <1>2 DEF StepTypes, Phases
  <1>4. HeldAt(step', held')
    BY <1>2 DEF HeldAt, NoHold
  <1>5. StepLedger(step', ledger', stream)
    BY <1>2 DEF StepLedger, Before
  <1>. QED
    BY <1>2, <1>3, <1>4, <1>5, Zenon DEF Turned


\* The ledger and the page of a step that goes on before its next attempt.
LEMMA SettledStep ==
    ASSUME NEW s, NEW r, NEW l, NEW n, NEW st, NEW p,
           s.phase \in Before \cup {"transport"}, StepLedger(s, l, st),
           Settled(l, n, p, {"STEP_ACTIVE", "FAILED"}), r.phase \in Before
    PROVE  StepLedger(r, n, st)
  BY DEF StepLedger, Settled, Keeps, Before

\* A turn that settles the ledger and stays before the attempt.
LEMMA SettledTurns ==
    ASSUME StepInv, step.phase \in Before \cup {"transport"},
           Settled(ledger, ledger', profile, {"STEP_ACTIVE", "FAILED"}),
           step'.phase \in Before, StepTypes(step', now), HeldAt(step', held')
    PROVE  Turned
  <1>1. StepLedger(step', ledger', stream)
    BY SettledStep DEF StepInv
  <1>2. LedgerInv(ledger', profile) /\ ledger'.records = ledger.records
        /\ ledger'.remote = ledger.remote
    BY DEF Settled, Keeps
  <1>3. step'.phase # "idle"
    BY DEF Before
  <1>. QED
    BY <1>1, <1>2, <1>3 DEF Turned

\* A turn that throws after it settled the ledger.
LEMMA SettledThrows ==
    ASSUME StepInv, NEW states, Settled(ledger, ledger', profile, states),
           NEW outcome, Throw(outcome)
    PROVE  Turned
  <1>1. LedgerInv(ledger', profile) /\ ledger'.records = ledger.records
        /\ ledger'.remote = ledger.remote
    BY DEF Settled, Keeps
  <1>. QED
    BY <1>1, ThrowTurns

\* A turn that leaves the ledger alone settles it.
LEMMA UnchangedSettles ==
    ASSUME StepInv, step.phase \in Before, ledger' = ledger
    PROVE  Settled(ledger, ledger', profile, {"STEP_ACTIVE", "FAILED"})
  BY DEF StepInv, StepLedger, Settled, Keeps

\* A step that throws without touching the ledger lets go of every authority.
LEMMA SameThrows ==
    ASSUME StepInv, ledger' = ledger, NEW outcome, Throw(outcome)
    PROVE  Turned
  BY ThrowTurns DEF StepInv

\* Cancellation at the top of the loop.
LEMMA LoopCancelledTurn ==
    ASSUME StepInv, LoopCancelled
    PROVE  Turned
  BY SameThrows DEF LoopCancelled

\* No room for the buffers of the response.
LEMMA BuffersRejectedTurn ==
    ASSUME StepInv, BuffersRejected
    PROVE  Turned
  BY SameThrows DEF BuffersRejected

\* A policy refusal, or a response over its limits: nothing is debited.
LEMMA TransportRaisesTurn ==
    ASSUME StepInv, TransportRaises
    PROVE  Turned
  BY SameThrows DEF TransportRaises

\* Cancellation or the deadline during the backoff.
LEMMA BackoffStopsTurn ==
    ASSUME StepInv, BackoffStops
    PROVE  Turned
  BY SameThrows DEF BackoffStops

\* The wait for quota starts with nothing held.
LEMMA QuotaWaitTurn ==
    ASSUME StepInv, NEW s, NEW h, NEW eligible \in Nat, NEW answers,
           step.phase \in Before \cup {"transport"},
           Settled(ledger, ledger', profile, {"STEP_ACTIVE", "FAILED"}),
           StartQuotaWait(s, h, ledger', eligible, answers),
           DOMAIN s = StepFields, s.body = step.body, s.delay = step.delay, s.waited = step.waited,
           DOMAIN h = {"quota", "request", "buffers", "waiter"}, ~h.request, ~h.buffers
    PROVE  Turned
  <1>1. StepTypes(step, now) /\ now \in Nat
    BY Zenon DEF StepInv
  <1>2. /\ DOMAIN step' = StepFields /\ step'.phase = "quota" /\ step'.began = now
        /\ step'.eligible = eligible /\ step'.body = step.body /\ step'.delay = step.delay
        /\ step'.waited = step.waited
    BY DEF StartQuotaWait, StepFields
  <1>3. /\ DOMAIN held' = {"quota", "request", "buffers", "waiter"}
        /\ ~held'.quota /\ held'.request = h.request /\ held'.buffers = h.buffers
    BY DEF StartQuotaWait
  <1>4. StepTypes(step', now)
    BY <1>1, <1>2 DEF StepTypes, Phases, Before
  <1>5. HeldAt(step', held')
    BY <1>2, <1>3 DEF HeldAt
  <1>6. step'.phase \in Before
    BY <1>2 DEF Before
  <1>. QED
    BY <1>4, <1>5, <1>6, SettledTurns

\* A keyed step without its quota permit queues for it again.
LEMMA ReacquireQuotaTurn ==
    ASSUME StepInv, ReacquireQuota
    PROVE  Turned
  <1>1. step.phase = "top" /\ ledger' = ledger
    BY DEF ReacquireQuota, GoesOn
  <1>2. CASE \E outcome \in {"RATE_LIMIT", "LOCAL_ADMISSION"} : Throw(outcome)
    BY <1>1, <1>2, SameThrows
  <1>3. CASE StartQuotaWait(step, held, ledger, now, FALSE)
    <2>1. Settled(ledger, ledger', profile, {"STEP_ACTIVE", "FAILED"})
      BY <1>1, UnchangedSettles DEF Before
    <2>2. /\ DOMAIN step = StepFields /\ now \in Nat
          /\ DOMAIN held = {"quota", "request", "buffers", "waiter"} /\ ~held.request /\ ~held.buffers
      BY <1>1 DEF StepInv, StepTypes, HeldAt
    <2>3. step.phase \in Before \cup {"transport"}
      BY <1>1 DEF Before
    <2>4. StartQuotaWait(step, held, ledger', now, FALSE)
      BY <1>1, <1>3, Zenon
    <2>. QED BY <2>1, <2>2, <2>3, <2>4, QuotaWaitTurn, Zenon
  <1>. QED
    BY <1>2, <1>3, Zenon DEF ReacquireQuota

\* A step that needs no quota, or has it, asks for a request permit.
LEMMA EnterAdmissionTurn ==
    ASSUME StepInv, EnterAdmission
    PROVE  Turned
  <1>1. step.phase = "top" /\ ledger' = ledger /\ held' = held
    BY DEF EnterAdmission, GoesOn
  <1>2. StepTypes(step, now) /\ now \in Nat /\ HeldAt(step, held)
    BY DEF StepInv
  <1>3. /\ DOMAIN step' = StepFields /\ step'.phase = "admit" /\ step'.began = now
        /\ step'.eligible = step.eligible /\ step'.body = step.body /\ step'.delay = step.delay
        /\ step'.waited = step.waited /\ step'.keyed = step.keyed
    BY <1>2 DEF EnterAdmission, StepTypes, StepFields
  <1>4. StepTypes(step', now)
    BY <1>2, <1>3 DEF StepTypes, Phases, Before
  <1>5. step.keyed => held.quota
    BY DEF EnterAdmission, NeedsQuota
  <1>6. HeldAt(step', held')
    BY <1>1, <1>2, <1>3, <1>5 DEF HeldAt
  <1>7. Settled(ledger, ledger', profile, {"STEP_ACTIVE", "FAILED"})
    BY <1>1, UnchangedSettles DEF Before
  <1>. QED
    BY <1>1, <1>3, <1>4, <1>6, <1>7, SettledTurns DEF Before


\* The coordinator answers.
LEMMA QuotaAnswerTurn ==
    ASSUME StepInv, NEW status, QuotaAnswer(status)
    PROVE  Turned
  <1> DEFINE waited == now - step.began
             l == IF waited = 0 THEN ledger ELSE CommitRateLimitWait(ledger, profile, waited)
  <1>1. step.phase = "quota" /\ ledger' = l
    BY DEF QuotaAnswer
  <1>2. /\ StepTypes(step, now) /\ now \in Nat /\ HeldAt(step, held) /\ LedgerInv(ledger, profile)
        /\ ProfileTypes(profile) /\ StepLedger(step, ledger, stream)
    BY ProfilesTyped DEF StepInv
  <1>3. waited \in Nat
    BY <1>2 DEF StepTypes
  <1>4. ledger.state \in {"STEP_ACTIVE", "FAILED"}
    BY <1>1, <1>2, Zenon DEF StepLedger, Before
  <1>5. Settled(ledger, ledger', profile, {"STEP_ACTIVE", "FAILED"})
    <2>1. CASE waited = 0
      BY <1>1, <2>1, UnchangedSettles DEF Before
    <2>2. CASE waited # 0
      <3>1. ledger' = CommitRateLimitWait(ledger, profile, waited)
        BY <1>1, <2>2
      <3> HIDE DEF waited
      <3>. QED BY <3>1, <1>2, <1>3, <1>4, RateLimitWaitLedger
    <2>. QED BY <2>1, <2>2
  <1>6. CASE \E outcome \in {"RESOURCE", "CANCELLED", "RATE_LIMIT", "LOCAL_ADMISSION"} : Throw(outcome)
    BY <1>5, <1>6, SettledThrows, Zenon
  <1>7. CASE /\ held' = [held EXCEPT !.quota = TRUE, !.waiter = "NONE"]
             /\ \/ step' = [step EXCEPT !.phase = "top", !.rate = @ + 1]
                \/ step' = [step EXCEPT !.phase = "admit", !.began = now]
    <2>1. /\ DOMAIN held' = {"quota", "request", "buffers", "waiter"}
          /\ held'.quota /\ ~held'.request /\ ~held'.buffers /\ held'.waiter = "NONE"
      BY <1>1, <1>2, <1>7 DEF HeldAt
    <2>2. /\ DOMAIN step' = StepFields /\ step'.phase \in {"top", "admit"}
          /\ step'.began \in {step.began, now}
          /\ step'.eligible = step.eligible /\ step'.body = step.body /\ step'.delay = step.delay
          /\ step'.waited = step.waited
      BY <1>2, <1>7, Zenon DEF StepTypes, StepFields
    <2>3. StepTypes(step', now)
      BY <1>2, <2>2 DEF StepTypes, Phases, Before
    <2>4. HeldAt(step', held')
      BY <2>1, <2>2, Zenon DEF HeldAt
    <2>. QED BY <1>1, <1>5, <2>2, <2>3, <2>4, SettledTurns, Zenon DEF Before
  <1>. QED
    BY <1>6, <1>7, Zenon DEF QuotaAnswer, QuotaRefused

\* The admission controller answers, and the wait is counted.
LEMMA AdmissionAnswerTurn ==
    ASSUME StepInv, NEW status, NEW waited \in Nat, AdmissionAnswer(status, waited)
    PROVE  Turned
  <1>1. /\ step.phase = "admit"
        /\ ledger' = IF waited = 0 THEN ledger
                     ELSE CommitAdmissionWait(ledger, waited, profile.admissionWaiting)
    BY DEF AdmissionAnswer
  <1>2. /\ StepTypes(step, now) /\ HeldAt(step, held) /\ LedgerInv(ledger, profile)
        /\ ProfileTypes(profile) /\ StepLedger(step, ledger, stream)
    BY ProfilesTyped DEF StepInv
  <1>4. ledger.state \in {"STEP_ACTIVE", "FAILED"}
    BY <1>1, <1>2, Zenon DEF StepLedger, Before
  <1>5. Settled(ledger, ledger', profile, {"STEP_ACTIVE", "FAILED"})
    <2>1. CASE waited = 0
      BY <1>1, <2>1, UnchangedSettles DEF Before
    <2>2. CASE waited # 0
      BY <1>1, <1>2, <1>4, <2>2, AdmissionWaitLedger
    <2>. QED BY <2>1, <2>2
  <1>6. CASE \E outcome \in {"RESOURCE", "CANCELLED", "LOCAL_ADMISSION"} : Throw(outcome)
    BY <1>5, <1>6, SettledThrows, Zenon
  <1>7. CASE step' = [step EXCEPT !.phase = "attempt"] /\ held' = [held EXCEPT !.request = TRUE]
    <2>1. /\ DOMAIN held' = {"quota", "request", "buffers", "waiter"}
          /\ held'.quota = held.quota /\ held'.request /\ ~held'.buffers /\ held'.waiter = "NONE"
      BY <1>1, <1>2, <1>7 DEF HeldAt
    <2>2. /\ DOMAIN step' = StepFields /\ step'.phase = "attempt" /\ step'.began = step.began
          /\ step'.eligible = step.eligible /\ step'.body = step.body /\ step'.delay = step.delay
          /\ step'.waited = step.waited /\ step'.keyed = step.keyed
      BY <1>2, <1>7 DEF StepTypes, StepFields
    <2>3. StepTypes(step', now)
      BY <1>2, <2>2, Zenon DEF StepTypes, Phases, Before
    <2>4. HeldAt(step', held')
      BY <1>1, <1>2, <2>1, <2>2, Zenon DEF HeldAt
    <2>. QED BY <1>1, <1>5, <2>2, <2>3, <2>4, SettledTurns, Zenon DEF Before
  <1>. QED
    BY <1>6, <1>7, Zenon DEF AdmissionAnswer

\* The attempt is begun, its body committed and handed to the transport.
LEMMA SendAttemptTurn ==
    ASSUME StepInv, NEW n, SendAttempt(n)
    PROVE  Turned
  <1> DEFINE l == BeginAttempt(ledger, profile, now)
             r == CommitRemoteRequest(IF n = 0 THEN l ELSE CommitRequestBody(l, profile, n), profile)
  <1>1. step.phase = "attempt" /\ n \in RequestBodies
    BY DEF SendAttempt
  <1>2. /\ StepTypes(step, now) /\ HeldAt(step, held) /\ LedgerInv(ledger, profile)
        /\ ProfileTypes(profile) /\ StepLedger(step, ledger, stream)
    BY ProfilesTyped DEF StepInv
  <1>3. n \in Nat /\ (n = 0 <=> profile.pageBody = 0)
    BY <1>1, <1>2 DEF RequestBodies, StepTypes, ProfileTypes
  <1>4. IF l.state = "FAILED" THEN LedgerInv(l, profile) /\ Keeps(ledger, l)
        ELSE Begun(ledger, l, profile)
    BY <1>2, BeginAttemptLedger
  <1> HIDE DEF l
  <1>5. CASE ledger' = l /\ \E outcome \in {"RESOURCE", "REQUEST"} : Throw(outcome)
    <2>1. LedgerInv(ledger', profile) /\ ledger'.records = ledger.records
          /\ ledger'.remote = ledger.remote
      BY <1>4, <1>5, Zenon DEF Keeps, Begun
    <2>. QED BY <1>5, <2>1, ThrowTurns
  <1>6. CASE /\ l.state # "FAILED" /\ n <= l.allowance.body
             /\ ledger' = r
             /\ step' = [step EXCEPT !.phase = "transport", !.body = n]
             /\ held' = [held EXCEPT !.buffers = TRUE]
    <2>1. Begun(ledger, l, profile)
      BY <1>4, <1>6
    <2>2. LedgerTypes(ledger) /\ Within(ledger, profile)
      BY <1>2 DEF LedgerInv
    <2>3. Sent(l, r, profile)
      BY <1>2, <1>3, <1>6, <2>1, <2>2, SendLedger
    <2> HIDE DEF r
    <2>4. /\ DOMAIN held' = {"quota", "request", "buffers", "waiter"}
          /\ held'.quota = held.quota /\ held'.request /\ held'.buffers /\ held'.waiter = "NONE"
      BY <1>1, <1>2, <1>6 DEF HeldAt
    <2>5. /\ DOMAIN step' = StepFields /\ step'.phase = "transport" /\ step'.began = step.began
          /\ step'.eligible = step.eligible /\ step'.body = n /\ step'.delay = step.delay
          /\ step'.waited = step.waited /\ step'.keyed = step.keyed
      BY <1>2, <1>6 DEF StepTypes, StepFields
    <2>6. StepTypes(step', now)
      BY <1>2, <1>3, <2>5, Zenon DEF StepTypes, Phases
    <2>7. HeldAt(step', held')
      BY <1>1, <1>2, <2>4, <2>5, Zenon DEF HeldAt
    <2>8. stream.cursor = Asked(ledger) /\ stream.requested = Asked(ledger)
      BY <1>1, <1>2, Zenon DEF StepLedger, Before
    <2>9. StepLedger(step', ledger', stream)
      BY <1>6, <2>1, <2>3, <2>5, <2>8 DEF StepLedger, Begun, Sent, Before
    <2>. QED
      BY <1>1, <1>6, <2>1, <2>3, <2>5, <2>6, <2>7, <2>9 DEF Turned, Begun, Sent
  <1>. QED
    BY <1>5, <1>6, Zenon DEF SendAttempt, l, r


\* A response or a failure commits the usage of the attempt.
LEMMA FailureSettles ==
    ASSUME StepInv, NEW n \in Nat, ledger' = CommitAttemptFailure(ledger, profile, n)
    PROVE  Settled(ledger, ledger', profile, {"STEP_ACTIVE", "FAILED"})
  <1>1. LedgerInv(ledger, profile) /\ ProfileTypes(profile)
    BY ProfilesTyped DEF StepInv
  <1>. QED
    BY <1>1, UsageLedger DEF CommitAttemptFailure

\* A response that the step returns.
LEMMA ReceiveResponseTurn ==
    ASSUME StepInv, NEW n \in Nat, ReceiveResponse(n)
    PROVE  Turned
  <1>1. step.phase = "transport" /\ ledger' = CommitTransport(ledger, profile, n)
    BY DEF ReceiveResponse, InFlight
  <1>2. /\ StepTypes(step, now) /\ LedgerInv(ledger, profile)
        /\ ProfileTypes(profile) /\ StepLedger(step, ledger, stream)
    BY ProfilesTyped DEF StepInv
  <1>3. Settled(ledger, ledger', profile, {"TRANSPORT_COMMITTED", "FAILED"})
    BY <1>1, <1>2, UsageLedger DEF CommitTransport
  <1>4. CASE Throw("LOCAL_ADMISSION")
    BY <1>3, <1>4, SettledThrows
  <1>5. CASE ReturnResponse
    <2>1. /\ DOMAIN step' = StepFields /\ step'.phase = "returned" /\ step'.began = step.began
          /\ step'.eligible = step.eligible /\ step'.body = step.body /\ step'.delay = step.delay
          /\ step'.waited = step.waited
      BY <1>2, <1>5 DEF StepTypes, StepFields, ReturnResponse
    <2>2. StepTypes(step', now)
      BY <1>2, <2>1, Zenon DEF StepTypes, Phases
    <2>3. DOMAIN held' = {"quota", "request", "buffers", "waiter"}
      BY <1>5 DEF ReturnResponse, NoHold
    <2>4. HeldAt(step', held')
      BY <2>1, <2>3 DEF HeldAt
    <2>5. stream.cursor = ledger.pages /\ stream.requested = ledger.pages
      BY <1>1, <1>2, Zenon DEF StepLedger, Asked
    <2>6. StepLedger(step', ledger', stream)
      BY <1>3, <2>1, <2>5, Zenon DEF StepLedger, Settled, Keeps, Before
    <2>. QED
      BY <1>3, <2>1, <2>2, <2>4, <2>6, Zenon DEF Turned, Settled, Keeps
  <1>. QED
    BY <1>4, <1>5, Zenon DEF ReceiveResponse

\* A transfer that was cancelled is debited all the same.
LEMMA TransportCancelledTurn ==
    ASSUME StepInv, NEW n \in Nat, TransportCancelled(n)
    PROVE  Turned
  BY FailureSettles, SettledThrows, Zenon DEF TransportCancelled

\* So is one that failed for good.
LEMMA TransportFailsTurn ==
    ASSUME StepInv, NEW n \in Nat, TransportFails(n)
    PROVE  Turned
  BY FailureSettles, SettledThrows DEF TransportFails

\* A failure that is repeated lets go of everything before it backs off.
LEMMA RetryableFailureTurn ==
    ASSUME StepInv, NEW n \in Nat, NEW d \in Delays, RetryableFailure(n, d)
    PROVE  Turned
  <1> DEFINE l == CommitAttemptFailure(ledger, profile, n)
             left == Least(profile.retryWaiting - l.retryWaiting, profile.waiting - l.waiting)
  <1>1. step.phase = "transport" /\ ledger' = l
    BY DEF RetryableFailure, InFlight
  <1>2. Settled(ledger, ledger', profile, {"STEP_ACTIVE", "FAILED"})
    BY <1>1, FailureSettles
  <1>3. /\ StepTypes(step, now) /\ now \in Nat /\ HeldAt(step, held) /\ ProfileTypes(profile)
    BY ProfilesTyped DEF StepInv
  <1>4. CASE \E outcome \in {"HTTP_STATUS", "RESOURCE", "LOCAL_ADMISSION"} : Throw(outcome)
    BY <1>2, <1>4, SettledThrows, Zenon
  <1>5. CASE /\ left > 0
             /\ step' = [step EXCEPT !.phase = "backoff", !.began = now,
                                     !.delay = Least(d, left), !.waited = 0]
             /\ held' = [BeforeBackoff(held) EXCEPT !.waiter = "RETRY"]
    <2>1. LedgerTypes(l)
      BY <1>1, <1>2, Zenon DEF Settled, LedgerInv
    <2> HIDE DEF l
    <2>2. left \in Int
      BY <1>3, <2>1 DEF Least, LedgerTypes, ProfileTypes
    <2> HIDE DEF left
    <2>3. Least(d, left) \in Nat
      BY <1>5, <2>2, RetryAssumption DEF Least
    <2>4. /\ DOMAIN step' = StepFields /\ step'.phase = "backoff" /\ step'.began = now
          /\ step'.eligible = step.eligible /\ step'.body = step.body
          /\ step'.delay = Least(d, left) /\ step'.waited = 0
      BY <1>3, <1>5, SMTT(30) DEF StepTypes, StepFields
    <2>5. StepTypes(step', now)
      BY <1>3, <2>3, <2>4 DEF StepTypes, Phases, Before
    <2>6. /\ DOMAIN held' = {"quota", "request", "buffers", "waiter"}
          /\ ~held'.quota /\ ~held'.request /\ ~held'.buffers
      BY <1>3, <1>5 DEF HeldAt, BeforeBackoff
    <2>7. HeldAt(step', held')
      BY <2>4, <2>6, Zenon DEF HeldAt
    <2>. QED BY <1>1, <1>2, <2>4, <2>5, <2>7, SettledTurns, Zenon DEF Before
  <1>. QED
    BY <1>4, <1>5, Zenon DEF RetryableFailure

\* A rate-limited response lets go of everything before it waits for its
\* quota.
LEMMA RateLimitedTurn ==
    ASSUME StepInv, NEW n \in Nat, NEW bucket, NEW delay \in GuidanceDelays,
           RateLimited(n, bucket, delay)
    PROVE  Turned
  <1> DEFINE l == CommitAttemptFailure(ledger, profile, n)
             s == [step EXCEPT !.bucket = bucket, !.immediate = (delay = 0)]
             h == BeforeBackoff(held)
  <1>1. step.phase = "transport" /\ ledger' = l
    BY DEF RateLimited, InFlight
  <1>2. Settled(ledger, ledger', profile, {"STEP_ACTIVE", "FAILED"})
    BY <1>1, FailureSettles
  <1>3. /\ StepTypes(step, now) /\ now \in Nat /\ HeldAt(step, held)
    BY DEF StepInv
  <1>4. CASE \E outcome \in {"RATE_LIMIT", "RESOURCE", "LOCAL_ADMISSION"} : Throw(outcome)
    BY <1>2, <1>4, SettledThrows, Zenon
  <1>5. CASE StartQuotaWait(s, h, l, now + delay, TRUE)
    <2>1. now + delay \in Nat
      BY <1>3, RetryAssumption
    <2>2. /\ DOMAIN s = StepFields /\ s.body = step.body /\ s.delay = step.delay
          /\ s.waited = step.waited
      BY <1>3 DEF StepTypes, StepFields
    <2>3. DOMAIN h = {"quota", "request", "buffers", "waiter"} /\ ~h.request /\ ~h.buffers
      BY <1>3 DEF HeldAt, BeforeBackoff
    <2>4. StartQuotaWait(s, h, ledger', now + delay, TRUE)
      BY <1>1, <1>5, Zenon
    <2>5. step.phase \in Before \cup {"transport"}
      BY <1>1
    <2> HIDE DEF s, h, l
    <2>. QED BY <1>2, <2>1, <2>2, <2>3, <2>4, <2>5, QuotaWaitTurn, Zenon
  <1>. QED
    BY <1>4, <1>5, Zenon DEF RateLimited

\* A backoff whose time is up is counted in full.
LEMMA BackoffElapsedTurn ==
    ASSUME StepInv, BackoffElapsed
    PROVE  Turned
  <1> DEFINE k == step.delay - step.waited
  <1>1. /\ step.phase = "backoff" /\ held' = held
        /\ ledger' = CommitRetryWait(ledger, profile, k)
    BY DEF BackoffElapsed
  <1>2. /\ StepTypes(step, now) /\ HeldAt(step, held) /\ ProfileTypes(profile)
        /\ LedgerInv(ledger, profile) /\ StepLedger(step, ledger, stream)
    BY ProfilesTyped DEF StepInv
  <1>3. k \in Nat /\ ledger.state \in {"STEP_ACTIVE", "FAILED"}
    BY <1>1, <1>2 DEF StepTypes, StepLedger, Before
  <1>4. /\ DOMAIN step' = StepFields /\ step'.phase = "repeat" /\ step'.began = step.began
        /\ step'.eligible = step.eligible /\ step'.body = step.body
        /\ step'.delay = step.delay /\ step'.waited = step.delay
    BY <1>2 DEF StepTypes, StepFields, BackoffElapsed
  <1> HIDE DEF k
  <1>5. Settled(ledger, ledger', profile, {"STEP_ACTIVE", "FAILED"})
    BY <1>1, <1>2, <1>3, RetryWaitLedger
  <1>6. StepTypes(step', now)
    BY <1>2, <1>4 DEF StepTypes, Phases, Before
  <1>7. HeldAt(step', held')
    BY <1>1, <1>2, <1>4, Zenon DEF HeldAt
  <1>. QED
    BY <1>1, <1>4, <1>5, <1>6, <1>7, SettledTurns, Zenon DEF Before


\* The backoff is waited out in slices.
LEMMA SliceStartsTurn ==
    ASSUME StepInv, SliceStarts
    PROVE  Turned
  <1>1. step.phase = "backoff" /\ held' = held /\ ledger' = ledger
    BY DEF SliceStarts
  <1>2. StepTypes(step, now) /\ now \in Nat /\ HeldAt(step, held)
    BY DEF StepInv
  <1>3. /\ DOMAIN step' = StepFields /\ step'.phase = "slice" /\ step'.began = step.began
        /\ step'.eligible = now /\ step'.body = step.body
        /\ step'.delay = step.delay /\ step'.waited = step.waited
    BY <1>2 DEF StepTypes, StepFields, SliceStarts
  <1>4. Settled(ledger, ledger', profile, {"STEP_ACTIVE", "FAILED"})
    BY <1>1, UnchangedSettles DEF Before
  <1>5. StepTypes(step', now)
    BY <1>2, <1>3 DEF StepTypes, Phases, Before
  <1>6. HeldAt(step', held')
    BY <1>1, <1>2, <1>3, Zenon DEF HeldAt
  <1>. QED
    BY <1>1, <1>3, <1>4, <1>5, <1>6, SettledTurns, Zenon DEF Before

\* A slice is counted up to what is left of the delay.
LEMMA SliceEndsTurn ==
    ASSUME StepInv, SliceEnds
    PROVE  Turned
  <1>1. /\ step.phase = "slice"
        /\ ledger' = IF now = step.eligible THEN ledger
                     ELSE CommitRetryWait(ledger, profile, SliceDebit)
    BY DEF SliceEnds
  <1>2. /\ StepTypes(step, now) /\ now \in Nat /\ HeldAt(step, held) /\ ProfileTypes(profile)
        /\ LedgerInv(ledger, profile) /\ StepLedger(step, ledger, stream)
    BY ProfilesTyped DEF StepInv
  <1>3. SliceDebit \in Nat /\ SliceDebit <= step.delay - step.waited
    BY <1>1, <1>2 DEF StepTypes, SliceDebit, Least
  <1>4. ledger.state \in {"STEP_ACTIVE", "FAILED"}
    BY <1>1, <1>2, Zenon DEF StepLedger, Before
  <1>5. Settled(ledger, ledger', profile, {"STEP_ACTIVE", "FAILED"})
    <2>1. CASE now = step.eligible
      BY <1>1, <2>1, UnchangedSettles DEF Before
    <2>2. CASE now # step.eligible
      BY <1>1, <1>2, <1>3, <1>4, <2>2, RetryWaitLedger, Zenon
    <2>. QED BY <2>1, <2>2
  <1>6. CASE Throw("RESOURCE")
    BY <1>5, <1>6, SettledThrows, Zenon
  <1>7. CASE /\ step' = [step EXCEPT !.waited = @ + SliceDebit,
                                     !.phase = IF step.waited + SliceDebit >= step.delay
                                               THEN "repeat" ELSE "backoff"]
             /\ held' = held
    <2>1. /\ DOMAIN step' = StepFields /\ step'.phase \in {"repeat", "backoff"}
          /\ step'.began = step.began /\ step'.eligible = step.eligible /\ step'.body = step.body
          /\ step'.delay = step.delay /\ step'.waited = step.waited + SliceDebit
      BY <1>2, <1>7, Zenon DEF StepTypes, StepFields
    <2>2. StepTypes(step', now)
      BY <1>2, <1>3, <2>1 DEF StepTypes, Phases, Before
    <2>3. HeldAt(step', held')
      BY <1>1, <1>2, <1>7, <2>1 DEF HeldAt
    <2>. QED BY <1>1, <1>5, <2>1, <2>2, <2>3, SettledTurns, Zenon DEF Before
  <1>. QED
    BY <1>6, <1>7, Zenon DEF SliceEnds

\* The loop starts again.
LEMMA RepeatTurn ==
    ASSUME StepInv, Repeat
    PROVE  Turned
  <1>1. step.phase = "repeat" /\ ledger' = ledger
    BY DEF Repeat
  <1>2. StepTypes(step, now) /\ HeldAt(step, held)
    BY DEF StepInv
  <1>3. CASE Throw("CANCELLED")
    BY <1>1, <1>3, SameThrows
  <1>4. CASE /\ step' = [step EXCEPT !.phase = "top", !.ordinary = @ + 1]
             /\ held' = [held EXCEPT !.waiter = "NONE"]
    <2>1. /\ DOMAIN step' = StepFields /\ step'.phase = "top" /\ step'.began = step.began
          /\ step'.eligible = step.eligible /\ step'.body = step.body
          /\ step'.delay = step.delay /\ step'.waited = step.waited
      BY <1>2, <1>4, Zenon DEF StepTypes, StepFields
    <2>2. /\ DOMAIN held' = {"quota", "request", "buffers", "waiter"}
          /\ ~held'.request /\ ~held'.buffers /\ held'.waiter = "NONE"
      BY <1>1, <1>2, <1>4 DEF HeldAt
    <2>3. StepTypes(step', now)
      BY <1>2, <2>1, Zenon DEF StepTypes, Phases, Before
    <2>4. HeldAt(step', held')
      BY <2>1, <2>2, Zenon DEF HeldAt
    <2>5. Settled(ledger, ledger', profile, {"STEP_ACTIVE", "FAILED"})
      BY <1>1, UnchangedSettles DEF Before
    <2>. QED BY <1>1, <2>1, <2>3, <2>4, <2>5, SettledTurns, Zenon DEF Before
  <1>. QED
    BY <1>3, <1>4, Zenon DEF Repeat

\* Every turn of the step sees to what the invariant asks of it.
LEMMA StepNextTurns ==
    ASSUME StepInv, StepNext
    PROVE  Turned
  <1>1. profile.pageBytes \in Nat /\ MaxTime \in Nat
    BY ProfilesTyped, RetryAssumption, Zenon DEF StepInv, ProfileTypes
  <1>2. ASSUME NEW n \in 0..profile.pageBytes
        PROVE  n \in Nat
    BY <1>1
  <1>3. ASSUME NEW waited \in 0..MaxTime
        PROVE  waited \in Nat
    BY <1>1
  <1>. QED
    BY <1>2, <1>3, ZenonT(40), LoopCancelledTurn, ReacquireQuotaTurn, EnterAdmissionTurn,
       BuffersRejectedTurn, QuotaAnswerTurn, AdmissionAnswerTurn, SendAttemptTurn,
       TransportRaisesTurn, ReceiveResponseTurn, TransportCancelledTurn, TransportFailsTurn,
       RetryableFailureTurn, RateLimitedTurn, BackoffStopsTurn, BackoffElapsedTurn,
       SliceStartsTurn, SliceEndsTurn, RepeatTurn
       DEF StepNext

\* No turn of the step moves the clock, the flags or the profile.
LEMMA StepNextFrame ==
    ASSUME StepNext
    PROVE  now' = now /\ cancelled' = cancelled /\ interrupted' = interrupted /\ profile' = profile
  BY Zenon DEF StepNext, LoopCancelled, ReacquireQuota, EnterAdmission, BuffersRejected, QuotaAnswer,
       AdmissionAnswer, SendAttempt, TransportRaises, ReceiveResponse, TransportCancelled,
       TransportFails, RetryableFailure, RateLimited, BackoffStops, BackoffElapsed, SliceStarts,
       SliceEnds, Repeat

\* Every turn of the step keeps the invariant.
LEMMA RunStepKeepsInv ==
    ASSUME StreamInv, RunStep
    PROVE  StreamInv'
  <1>1. StepInv /\ StepNext
    BY DEF StreamInv, RunStep
  <1>2. Frame
    BY <1>1, StepNextFrame DEF RunStep, streamVars, Frame
  <1>. QED
    BY <1>1, <1>2, StepNextTurns, TurnKeepsInv


--------------------------------------------------------------------------------
(* The pull.                                                                *)

\* A step that has not begun holds nothing and asks nothing of the ledger.
LEMMA NewStepInv ==
    ASSUME NEW t \in Nat, NEW l, NEW st
    PROVE  StepTypes(NewStep, t) /\ HeldAt(NewStep, NoHold) /\ StepLedger(NewStep, l, st)
           /\ NewStep.phase = "idle"
  <1>1. StepTypes(NewStep, t) /\ NewStep.phase = "idle"
    BY DEF StepTypes, NewStep, StepFields, Phases
  <1>2. HeldAt(NewStep, NoHold)
    BY <1>1, Zenon DEF HeldAt, NoHold
  <1>3. StepLedger(NewStep, l, st)
    BY <1>1, Zenon DEF StepLedger, Before
  <1>. QED
    BY <1>1, <1>2, <1>3, SMTT(30)

\* ReleasePrivateState aborts a ledger that has not ended by itself.
LEMMA AbortedLedger ==
    ASSUME NEW l, NEW p, LedgerInv(l, p)
    PROVE  /\ LedgerInv(AbortLedger(l), p)
           /\ AbortLedger(l).active = 0 /\ AbortLedger(l).memory = 0
           /\ AbortLedger(l).remote = l.remote /\ AbortLedger(l).records = l.records
           /\ l.state = "EXHAUSTED" => AbortLedger(l) = l
  <1>1. CASE l.state = "EXHAUSTED"
    BY <1>1, Zenon DEF AbortLedger, LedgerInv, Paid, LedgerTypes
  <1>2. CASE l.state # "EXHAUSTED"
    BY <1>2, FailLedger, Zenon DEF AbortLedger, AbortPage, LedgerInv, Keeps
  <1>. QED BY <1>1, <1>2, Zenon

\* What finishing the profile and releasing the page do to the stream.
LEMMA ReleasedStream ==
    ASSUME NEW s, StreamTypes(s), NEW outcome
    PROVE  /\ StreamTypes(Released(s)) /\ ~Released(s).loaded
           /\ Released(s).closed = s.closed /\ Released(s).exhausted = s.exhausted
           /\ Released(s).terminal = s.terminal /\ Released(s).outcome = s.outcome
           /\ Released(s).emitted = s.emitted /\ Released(s).hasNext = s.hasNext
           /\ StreamTypes([Released(s) EXCEPT !.terminal = outcome])
           /\ ~[Released(s) EXCEPT !.terminal = outcome].loaded
           /\ [Released(s) EXCEPT !.terminal = outcome].exhausted = s.exhausted
           /\ StreamTypes([Released(s) EXCEPT !.closed = TRUE])
           /\ ~[Released(s) EXCEPT !.closed = TRUE].loaded
           /\ [Released(s) EXCEPT !.closed = TRUE].exhausted = s.exhausted
           /\ [Released(s) EXCEPT !.closed = TRUE].terminal = s.terminal
           /\ [Released(s) EXCEPT !.closed = TRUE].outcome = s.outcome
           /\ [Released(s) EXCEPT !.closed = TRUE].emitted = s.emitted
           /\ [Released(s) EXCEPT !.closed = TRUE].hasNext = s.hasNext
  BY DEF Released, StreamTypes, StreamFields

\* FinishProfile records the outcome of a scan once.
LEMMA FinishedStream ==
    ASSUME NEW s, StreamTypes(s), NEW outcome
    PROVE  /\ StreamTypes(FinishProfile(s, outcome))
           /\ FinishProfile(s, outcome).loaded = s.loaded
           /\ FinishProfile(s, outcome).closed = s.closed
           /\ FinishProfile(s, outcome).exhausted = s.exhausted
           /\ FinishProfile(s, outcome).terminal = s.terminal
           /\ FinishProfile(s, outcome).emitted = s.emitted
           /\ FinishProfile(s, outcome).hasNext = s.hasNext
           /\ s.outcome = "NOT_STARTED" => FinishProfile(s, outcome).outcome = outcome
           /\ s.outcome # "NOT_STARTED" => FinishProfile(s, outcome).outcome = s.outcome
  BY DEF FinishProfile, StreamTypes, StreamFields

\* RememberCurrentFailure releases all that the scan holds.
LEMMA FailPullKeepsInv ==
    ASSUME StreamInv, pull # "idle", NEW outcome, FailPull(outcome), now' = now,
           profile' = profile
    PROVE  StreamInv'
  <1> DEFINE end == IF outcome = "CANCELLED" THEN "CANCELLED" ELSE "FAILED"
             s == [Released(stream) EXCEPT !.terminal = outcome]
  <1>1. /\ LedgerInv(ledger, profile) /\ StreamTypes(stream) /\ now \in Nat /\ profile \in Profiles
        /\ Open(pull, stream, ledger, holds)
    BY Zenon DEF StreamInv, StepInv, PullInv, Alive
  <1>2. /\ stream' = FinishProfile(s, end) /\ ledger' = AbortLedger(ledger) /\ holds' = {}
        /\ cancelled' = TRUE /\ pull' = "idle" /\ step' = NewStep /\ held' = NoHold
    BY DEF FailPull
  <1>3. LedgerInv(ledger', profile) /\ ledger'.active = 0 /\ ledger'.memory = 0
    BY <1>1, <1>2, AbortedLedger
  <1>4. StreamTypes(s) /\ ~s.loaded /\ s.exhausted = stream.exhausted
    BY <1>1, ReleasedStream, Zenon
  <1> HIDE DEF s, end
  <1>5. StreamTypes(stream') /\ stream'.loaded = s.loaded /\ stream'.exhausted = s.exhausted
    BY <1>2, <1>4, FinishedStream, Zenon
  <1>6. ~stream'.loaded /\ ~stream'.exhausted
    BY <1>1, <1>4, <1>5, Zenon DEF Open
  <1>7. StepTypes(step', now') /\ HeldAt(step', held') /\ StepLedger(step', ledger', stream')
        /\ step'.phase = "idle"
    BY <1>1, <1>2, NewStepInv, Zenon
  <1>8. StepInv'
    BY <1>1, <1>2, <1>3, <1>7, Zenon DEF StepInv, PullAt, Pulls
  <1>9. PullInv'
    BY <1>2, <1>3, <1>5, <1>6, Zenon DEF PullInv, Alive, NothingHeldAfterEnd
  <1>. QED
    BY <1>8, <1>9 DEF StreamInv


\* Every way in which a pull fails ends there.
LEMMA FailuresKeepInv ==
    ASSUME StreamInv,
           \/ Stop \/ CursorMemoryRejected \/ StepThrew
           \/ \E outcome : BatchRejected(outcome) \/ ResponseRejected(outcome)
    PROVE  StreamInv'
  <1>1. pull # "idle" /\ now' = now /\ profile' = profile
    BY Zenon DEF Stop, Checkpoints, CursorMemoryRejected, StepThrew, BatchRejected, ResponseRejected,
           Continue
  <1>2. \E outcome : FailPull(outcome)
    BY Zenon DEF Stop, CursorMemoryRejected, StepThrew, BatchRejected, ResponseRejected
  <1>. QED
    BY <1>1, <1>2, FailPullKeepsInv, Zenon

\* A pull that moves on between two steps changes no more than its place and
\* what is reserved.
LEMMA StartPullKeepsInv ==
    ASSUME StreamInv, StartPull
    PROVE  StreamInv'
  <1>1. /\ pull = "idle" /\ holds' = holds \ {"handoff"}
        /\ now' = now /\ cancelled' = cancelled /\ profile' = profile /\ ledger' = ledger
        /\ step' = step /\ held' = held /\ stream' = stream /\ pending' = pending
    BY Zenon DEF StartPull, Unlocked
  <1>2. \/ pull' = "idle"
        \/ pull' = "loop" /\ ~stream.closed /\ stream.terminal = "NONE" /\ ~stream.exhausted
           /\ ~cancelled
    BY Zenon DEF StartPull, EndPull
  <1>3. StepInv'
    BY <1>1, <1>2, Zenon DEF StreamInv, StepInv, PullAt, Pulls
  <1>4. Alive' => Alive
    BY <1>1, <1>2 DEF Alive
  <1>5. Alive' => Open(pull', stream', ledger', holds')
    <2>1. SUFFICES ASSUME Open(pull, stream, ledger, holds)
                   PROVE  Open(pull', stream', ledger', holds')
      BY <1>4, Zenon DEF StreamInv, PullInv
    <2>2. {"scan", "secret"} \subseteq holds'
      BY <1>1, <2>1 DEF Open
    <2>3. Loaded(pull, stream, ledger) => Loaded(pull', stream', ledger')
      BY <1>1, <1>2, Zenon DEF Loaded
    <2>4. Unloaded(pull, stream, ledger) => Unloaded(pull', stream', ledger')
      BY <1>1, <1>2, Zenon DEF Unloaded
    <2>. QED BY <1>1, <2>1, <2>2, <2>3, <2>4, Zenon DEF Open
  <1>6. NothingHeldAfterEnd'
    BY <1>1, Zenon DEF StreamInv, PullInv, NothingHeldAfterEnd, Unlocked
  <1>7. PullInv'
    BY <1>1, <1>5, <1>6, Zenon DEF StreamInv, PullInv
  <1>. QED
    BY <1>3, <1>7 DEF StreamInv

\* A batch takes its rows off the loaded page.
LEMMA CutBatchKeepsInv ==
    ASSUME StreamInv, CutBatch
    PROVE  StreamInv'
  <1>1. /\ pull = "loop" /\ pull' = "produce" /\ stream.loaded /\ holds' = holds
        /\ now' = now /\ cancelled' = cancelled /\ profile' = profile /\ ledger' = ledger
        /\ step' = step /\ held' = held /\ stream' = stream /\ pending' = pending
    BY DEF CutBatch, Continue
  <1>2. Open(pull, stream, ledger, holds) /\ StepInv
    BY <1>1 DEF StreamInv, PullInv, Alive
  <1>3. Open(pull', stream', ledger', holds')
    BY <1>1, <1>2, Zenon DEF Open, Loaded
  <1>4. StepInv'
    BY <1>1, <1>2, Zenon DEF StepInv, PullAt, Pulls
  <1>5. PullInv'
    BY <1>1, <1>3, Zenon DEF StreamInv, PullInv, NothingHeldAfterEnd, Unlocked
  <1>. QED
    BY <1>4, <1>5 DEF StreamInv

\* A pull that finds a loaded page produces from it.
LEMMA ProduceBatchKeepsInv ==
    ASSUME StreamInv, ProduceBatch
    PROVE  StreamInv'
  <1> DEFINE count == Least(stream.rows - stream.offset, BatchRows)
  <1>1. /\ pull = "produce" /\ pull' = "idle" /\ ~cancelled /\ holds' = holds \cup {"handoff"}
        /\ now' = now /\ cancelled' = cancelled /\ profile' = profile /\ ledger' = ledger
        /\ step' = step /\ held' = held /\ pending' = pending
    BY DEF ProduceBatch, Continue, Checkpoints, MustStop, CancelRequested
  <1>2. Open(pull, stream, ledger, holds) /\ StepInv /\ StreamTypes(stream)
    BY <1>1 DEF StreamInv, PullInv, Alive
  <1>3. stream.loaded /\ Loaded(pull, stream, ledger)
    BY <1>1, <1>2, Zenon DEF Open, Unloaded
  <1>4. count \in Nat /\ count <= stream.rows - stream.offset
    BY <1>2, StreamAssumption DEF Least, StreamTypes
  <1>5. /\ DOMAIN stream' = StreamFields
        /\ stream'.rows = stream.rows /\ stream'.offset = stream.offset + count
        /\ stream'.emitted = stream.emitted + count /\ stream'.cursor = stream.cursor
        /\ stream'.requested = stream.requested /\ stream'.loaded = stream.loaded
        /\ stream'.closed = stream.closed /\ stream'.terminal = stream.terminal
        /\ stream'.exhausted = stream.exhausted /\ stream'.outcome = stream.outcome
        /\ stream'.hasNext = stream.hasNext
    BY <1>2 DEF ProduceBatch, StreamTypes, StreamFields
  <1> HIDE DEF count
  <1>6. StreamTypes(stream')
    BY <1>2, <1>4, <1>5 DEF StreamTypes
  <1>7. Loaded(pull', stream', ledger')
    BY <1>1, <1>2, <1>3, <1>4, <1>5 DEF Loaded, StreamTypes
  <1>8. Open(pull', stream', ledger', holds')
    BY <1>1, <1>2, <1>3, <1>5, <1>7, Zenon DEF Open
  <1>9. StepInv'
    <2>1. step.phase = "idle"
      BY <1>1, <1>2, Zenon DEF StepInv, PullAt
    <2>2. StepLedger(step', ledger', stream')
      BY <1>1, <2>1, Zenon DEF StepLedger, Before
    <2>. QED BY <1>1, <1>2, <2>1, <2>2, Zenon DEF StepInv, PullAt, Pulls
  <1>10. held' = NoHold /\ ledger'.active = 0
    BY <1>1, <1>2, <1>3, Zenon DEF StepInv, PullAt, HeldAt, Loaded, LedgerInv, LedgerTypes, Paid
  <1>11. NothingHeldAfterEnd'
    BY <1>1, <1>8, <1>10, Zenon DEF NothingHeldAfterEnd, Open
  <1>12. PullInv'
    BY <1>1, <1>6, <1>8, <1>11, Zenon DEF StreamInv, PullInv, Open
  <1>. QED
    BY <1>9, <1>12 DEF StreamInv


\* A page is completed when its last row was taken, and the scan with its last
\* page.
LEMMA FinishPageKeepsInv ==
    ASSUME StreamInv, FinishPage
    PROVE  StreamInv'
  <1> DEFINE l == CompletePage(ledger, profile, stream.hasNext, now)
             s == [stream EXCEPT !.rows = 0, !.offset = 0, !.loaded = FALSE]
             e == [s EXCEPT !.exhausted = TRUE]
  <1>1. /\ pull = "loop" /\ ~cancelled /\ stream.loaded /\ stream.offset >= stream.rows
        /\ now' = now /\ profile' = profile /\ pending' = pending
    BY DEF FinishPage, Continue, Checkpoints, MustStop, CancelRequested, FinishedPage
  <1>2. /\ Open(pull, stream, ledger, holds) /\ StepInv /\ StreamTypes(stream)
        /\ LedgerInv(ledger, profile) /\ ProfileTypes(profile) /\ now \in Nat
    BY <1>1, ProfilesTyped DEF StreamInv, StepInv, PullInv, Alive
  <1>3. Loaded(pull, stream, ledger)
    BY <1>1, <1>2 DEF Open
  <1>4. CASE FailPull("RESOURCE")
    BY <1>1, <1>4, FailPullKeepsInv
  <1>5. CASE /\ l.state # "FAILED" /\ ledger' = l /\ cancelled' = cancelled
             /\ step' = step /\ held' = held
             /\ \/ /\ stream.hasNext
                   /\ stream' = [s EXCEPT !.exposure = "UNACCEPTED"]
                   /\ holds' = (holds \ {"page"}) \cup (holds \cap KeptForCursors)
                   /\ pull' = "fetch"
                \/ /\ ~stream.hasNext
                   /\ stream' = FinishProfile(e, "SUCCEEDED")
                   /\ holds' = {}
                   /\ pull' = "idle"
    <2>1. Completed(ledger, ledger', profile, stream.hasNext)
      BY <1>2, <1>5, CompletedLedger
    <2>2. step.phase = "idle" /\ held = NoHold
      BY <1>1, <1>2, Zenon DEF StepInv, PullAt, HeldAt
    <2>3. StepLedger(step', ledger', stream')
      BY <1>5, <2>2 DEF StepLedger, Before
    <2>4. StepInv'
      BY <1>1, <1>2, <1>5, <2>1, <2>2, <2>3 DEF StepInv, PullAt, Pulls, Completed
    <2>5. stream.emitted = ledger'.records
      BY <1>1, <1>2, <1>3, <2>1 DEF Loaded, Completed, StreamTypes
    <2>6. /\ DOMAIN s = StreamFields /\ s.rows = 0 /\ s.offset = 0 /\ ~s.loaded
          /\ s.emitted = stream.emitted /\ s.cursor = stream.cursor
          /\ s.requested = stream.requested /\ s.closed = stream.closed
          /\ s.terminal = stream.terminal /\ s.exhausted = stream.exhausted
          /\ s.outcome = stream.outcome /\ s.hasNext = stream.hasNext
      BY <1>2 DEF StreamTypes, StreamFields
    <2>7. StreamTypes(s)
      BY <1>2, <2>6 DEF StreamTypes
    <2> HIDE DEF s, l
    <2>8. CASE /\ stream.hasNext
               /\ stream' = [s EXCEPT !.exposure = "UNACCEPTED"]
               /\ holds' = (holds \ {"page"}) \cup (holds \cap KeptForCursors)
               /\ pull' = "fetch"
      <3>1. /\ DOMAIN stream' = StreamFields /\ stream'.rows = 0 /\ stream'.offset = 0
            /\ ~stream'.loaded /\ stream'.emitted = stream.emitted
            /\ stream'.cursor = stream.cursor /\ stream'.requested = stream.requested
            /\ stream'.closed = stream.closed /\ stream'.terminal = stream.terminal
            /\ stream'.exhausted = stream.exhausted /\ stream'.outcome = stream.outcome
            /\ stream'.exposure = "UNACCEPTED"
        BY <2>6, <2>8 DEF StreamFields
      <3>2. StreamTypes(stream')
        BY <1>2, <3>1 DEF StreamTypes
      <3>3. Unloaded(pull', stream', ledger')
        BY <1>3, <2>1, <2>5, <2>8, <3>1 DEF Unloaded, Loaded, Completed
      <3>4. {"scan", "secret"} \subseteq holds'
        BY <1>2, <2>8, Zenon DEF Open
      <3>5. Open(pull', stream', ledger', holds')
        BY <1>2, <3>1, <3>3, <3>4, Zenon DEF Open
      <3>6. PullInv'
        BY <1>1, <1>5, <2>8, <3>2, <3>5 DEF StreamInv, PullInv, NothingHeldAfterEnd, Unlocked, Open
      <3>. QED BY <2>4, <3>6 DEF StreamInv
    <2>9. CASE /\ ~stream.hasNext
               /\ stream' = FinishProfile(e, "SUCCEEDED")
               /\ holds' = {}
               /\ pull' = "idle"
      <3>1. /\ DOMAIN e = StreamFields /\ e.rows = 0 /\ e.offset = 0 /\ ~e.loaded
            /\ e.emitted = stream.emitted /\ e.cursor = stream.cursor
            /\ e.requested = stream.requested /\ e.closed = stream.closed
            /\ e.terminal = stream.terminal /\ e.exhausted
            /\ e.outcome = stream.outcome /\ e.hasNext = stream.hasNext
        BY <2>6 DEF StreamFields
      <3>2. StreamTypes(e)
        BY <1>2, <3>1 DEF StreamTypes
      <3> HIDE DEF e
      <3>3. /\ StreamTypes(stream') /\ stream'.loaded = e.loaded /\ stream'.closed = e.closed
            /\ stream'.exhausted = e.exhausted /\ stream'.terminal = e.terminal
            /\ stream'.emitted = e.emitted /\ stream'.hasNext = e.hasNext
            /\ e.outcome = "NOT_STARTED" => stream'.outcome = "SUCCEEDED"
        BY <2>9, <3>2, FinishedStream, Zenon
      <3>4. /\ ~stream'.closed /\ stream'.terminal = "NONE" /\ stream'.outcome = "SUCCEEDED"
            /\ ~stream'.loaded /\ stream'.exhausted /\ ~stream'.hasNext
        BY <1>2, <2>9, <3>1, <3>3, ZenonT(40) DEF Open
      <3>5. Exhausted(stream', ledger')
        BY <2>1, <2>5, <2>9, <3>1, <3>3, <3>4, Zenon DEF Exhausted, Completed
      <3>6. held' = NoHold /\ ledger'.active = 0 /\ ledger'.memory = 0
        BY <1>5, <2>1, <2>2, <2>9, Zenon DEF Completed, LedgerInv, LedgerTypes, Paid
      <3>7. NothingHeldAfterEnd'
        BY <2>9, <3>4, <3>6, Zenon DEF NothingHeldAfterEnd
      <3>8. ~Alive'
        BY <2>9, <3>4, Zenon DEF Alive
      <3>9. pending' = {}
        BY <1>1, Zenon DEF StreamInv, PullInv
      <3>10. PullInv'
        BY <3>3, <3>4, <3>5, <3>7, <3>8, <3>9, Zenon DEF PullInv
      <3>. QED BY <2>4, <3>10 DEF StreamInv
    <2>. QED BY <1>5, <2>8, <2>9, Zenon
  <1>. QED
    BY <1>4, <1>5, Zenon DEF FinishPage, EndPull

\* A pull without a page begins the step of the next one.
LEMMA FetchPageKeepsInv ==
    ASSUME StreamInv, FetchPage
    PROVE  StreamInv'
  <1>1. pull = "fetch" \/ (pull = "loop" /\ ~stream.loaded)
    BY DEF FetchPage, Continue
  <1>2. /\ Open(pull, stream, ledger, holds) /\ StepInv /\ StreamTypes(stream)
        /\ LedgerInv(ledger, profile) /\ ProfileTypes(profile) /\ now \in Nat
    BY <1>1, ProfilesTyped, Zenon DEF StreamInv, StepInv, PullInv, Alive
  <1>3. ~stream.loaded /\ Unloaded(pull, stream, ledger)
    <2>1. ~(stream.loaded /\ pull = "fetch")
      BY <1>2 DEF Open, Loaded
    <2>2. ~stream.loaded
      BY <1>1, <2>1, Zenon
    <2>3. Unloaded(pull, stream, ledger)
      BY <1>2, <2>2, Zenon DEF Open
    <2>. QED BY <2>2, <2>3
  <1>4. CASE FailPull("POLICY") /\ now' = now /\ profile' = profile
    BY <1>1, <1>4, FailPullKeepsInv
  <1>5. CASE /\ StartStep /\ stream' = [stream EXCEPT !.requested = @ + 1]
             /\ pull' = "step" /\ holds' = holds /\ pending' = pending
    <2>1. /\ ledger' = BeginStep(ledger, profile, now) /\ held' = held
          /\ \/ ledger'.state = "FAILED"
                /\ step' = [NewStep EXCEPT !.phase = "threw", !.outcome = "RESOURCE"]
             \/ ledger'.state # "FAILED" /\ step' = [NewStep EXCEPT !.phase = "top"]
          /\ now' = now /\ cancelled' = cancelled /\ profile' = profile
      BY <1>5, Zenon DEF StartStep
    <2>2. /\ LedgerInv(ledger', profile) /\ ledger'.state \in {"STEP_ACTIVE", "FAILED"}
          /\ ledger'.records = ledger.records
          /\ ledger'.state = "STEP_ACTIVE" => Asked(ledger') = ledger.pages + 1
      BY <1>2, <2>1, BeginStepLedger
    <2>3. held' = NoHold
      BY <1>1, <1>2, <2>1 DEF StepInv, PullAt, HeldAt
    <2>4. /\ DOMAIN step' = StepFields /\ step'.body = 0 /\ step'.began = 0 /\ step'.eligible = 0
          /\ step'.delay = 0 /\ step'.waited = 0
          /\ step'.phase = IF ledger'.state = "FAILED" THEN "threw" ELSE "top"
      BY <2>1, Zenon DEF NewStep, StepFields
    <2>5. /\ DOMAIN stream' = StreamFields /\ stream'.requested = stream.requested + 1
          /\ stream'.rows = stream.rows /\ stream'.offset = stream.offset
          /\ stream'.emitted = stream.emitted /\ stream'.cursor = stream.cursor
          /\ stream'.loaded = stream.loaded /\ stream'.exposure = stream.exposure
          /\ stream'.closed = stream.closed /\ stream'.terminal = stream.terminal
          /\ stream'.exhausted = stream.exhausted /\ stream'.outcome = stream.outcome
      BY <1>2, <1>5 DEF StreamTypes, StreamFields
    <2>6. StepTypes(step', now')
      BY <1>2, <2>1, <2>4 DEF StepTypes, Phases, Before
    <2>7. HeldAt(step', held')
      BY <2>3, <2>4, Zenon DEF HeldAt, NoHold
    <2>8. StepLedger(step', ledger', stream')
      BY <1>1, <1>3, <2>2, <2>4, <2>5, Zenon DEF StepLedger, Before, Unloaded
    <2>9. StepInv'
      BY <1>2, <1>5, <2>1, <2>2, <2>4, <2>6, <2>7, <2>8, Zenon DEF StepInv, PullAt, Pulls
    <2>10. StreamTypes(stream')
      BY <1>2, <2>5 DEF StreamTypes
    <2>11. Open(pull', stream', ledger', holds')
      BY <1>2, <1>3, <1>5, <2>2, <2>5 DEF Open, Unloaded
    <2>12. PullInv'
      BY <1>5, <2>1, <2>5, <2>10, <2>11 DEF StreamInv, PullInv, NothingHeldAfterEnd, Unlocked, Open
    <2>. QED BY <2>9, <2>12 DEF StreamInv
  <1>. QED
    BY <1>4, <1>5, Zenon DEF FetchPage


\* The response of a step is received and its decoded size reserved.
LEMMA StepReturnedKeepsInv ==
    ASSUME StreamInv, StepReturned \/ ReserveDecodedPage
    PROVE  StreamInv'
  <1>1. /\ \/ pull = "step" /\ step.phase = "returned" /\ pull' = "received"
           \/ pull = "received" /\ pull' = "decoded"
        /\ holds \subseteq holds'
        /\ now' = now /\ cancelled' = cancelled /\ profile' = profile /\ ledger' = ledger
        /\ step' = step /\ held' = held /\ stream' = stream /\ pending' = pending
    BY DEF StepReturned, ReserveDecodedPage, Continue
  <1>2. Open(pull, stream, ledger, holds) /\ StepInv
    BY <1>1 DEF StreamInv, PullInv, Alive
  <1>3. ~stream.loaded /\ Unloaded(pull, stream, ledger)
    BY <1>1, <1>2 DEF Open, Loaded
  <1>4. Unloaded(pull', stream', ledger')
    BY <1>1, <1>3, Zenon DEF Unloaded
  <1>5. Open(pull', stream', ledger', holds')
    BY <1>1, <1>2, <1>3, <1>4, Zenon DEF Open
  <1>6. StepInv'
    BY <1>1, <1>2, Zenon DEF StepInv, PullAt, Pulls
  <1>7. PullInv'
    BY <1>1, <1>5, Zenon DEF StreamInv, PullInv, NothingHeldAfterEnd, Unlocked
  <1>. QED
    BY <1>6, <1>7, Zenon DEF StreamInv

\* A page is accepted whole: rows counted, continuation and exposure set.
LEMMA AcceptPageKeepsInv ==
    ASSUME StreamInv, NEW rows \in Nat, NEW hasNext \in BOOLEAN, AcceptPage(rows, hasNext)
    PROVE  StreamInv'
  <1> DEFINE l == CommitDecodedPage(ledger, profile, rows, 1)
  <1>1. pull = "decoded" /\ now' = now /\ profile' = profile /\ pending' = pending
    BY Zenon DEF AcceptPage, Continue
  <1>2. /\ Open(pull, stream, ledger, holds) /\ StepInv /\ StreamTypes(stream)
        /\ LedgerInv(ledger, profile) /\ ProfileTypes(profile) /\ now \in Nat
    BY <1>1, ProfilesTyped, Zenon DEF StreamInv, StepInv, PullInv, Alive
  <1>3. ~stream.loaded /\ Unloaded(pull, stream, ledger)
    BY <1>1, <1>2, Zenon DEF Open, Loaded
  <1>4. CASE FailPull("RESOURCE")
    BY <1>1, <1>4, FailPullKeepsInv
  <1>5. CASE /\ l.state # "FAILED" /\ ledger' = l /\ stream' = Accepted(stream, rows, hasNext)
             /\ pull' = "loop" /\ step' = NewStep /\ held' = NoHold
             /\ cancelled' = cancelled /\ holds' = holds
    <2>1. Decoded(ledger, ledger', profile, rows)
      BY <1>2, <1>5, DecodedLedger, Zenon
    <2>2. stream.cursor = ledger.pages /\ stream.requested = ledger.pages
      BY <1>1, <1>2, Zenon DEF StepInv, PullAt, StepLedger
    <2>3. /\ DOMAIN stream' = StreamFields /\ stream'.rows = rows /\ stream'.offset = 0
          /\ stream'.loaded /\ stream'.hasNext = hasNext
          /\ stream'.cursor = IF hasNext THEN stream.cursor + 1 ELSE stream.cursor
          /\ stream'.emitted = stream.emitted /\ stream'.requested = stream.requested
          /\ stream'.closed = stream.closed /\ stream'.terminal = stream.terminal
          /\ stream'.exhausted = stream.exhausted /\ stream'.outcome = stream.outcome
      BY <1>2, <1>5, SMTT(30) DEF StreamTypes, StreamFields, Accepted
    <2>4. StreamTypes(stream')
      <3>1. /\ rows \in Nat /\ stream.emitted \in Nat /\ stream.cursor \in Nat
            /\ stream.requested \in Nat
        BY <1>2, Zenon DEF StreamTypes
      <3>2. 0 \in Nat /\ 0 <= rows /\ stream.cursor + 1 \in Nat
        BY <3>1
      <3>. QED BY <2>3, <3>1, <3>2, Zenon DEF StreamTypes
    <2>5. Loaded(pull', stream', ledger')
      <3>1. /\ stream'.emitted = ledger.records /\ ledger'.records = ledger.records + rows
            /\ ledger'.pages = ledger.pages /\ ledger'.state = "PAGE_DECODED"
        BY <1>3, <2>1, <2>3, Zenon DEF Unloaded, Decoded
      <3>2. ledger.records + rows - 0 = ledger.records + rows
        BY <1>2 DEF LedgerInv, LedgerTypes
      <3>. QED BY <1>5, <2>2, <2>3, <3>1, <3>2 DEF Loaded
    <2>6. Open(pull', stream', ledger', holds')
      BY <1>2, <1>5, <2>3, <2>5, Zenon DEF Open
    <2>7. /\ StepTypes(step', now') /\ HeldAt(step', held') /\ StepLedger(step', ledger', stream')
          /\ step'.phase = "idle"
      BY <1>1, <1>2, <1>5, NewStepInv, Zenon
    <2>8. StepInv'
      BY <1>1, <1>2, <1>5, <2>1, <2>7, Zenon DEF StepInv, PullAt, Pulls, Decoded
    <2>9. PullInv'
      BY <1>1, <1>5, <2>3, <2>4, <2>6, Zenon DEF StreamInv, PullInv, NothingHeldAfterEnd, Unlocked, Open
    <2>. QED BY <2>8, <2>9 DEF StreamInv
  <1>. QED
    BY <1>4, <1>5, ZenonT(40) DEF AcceptPage

--------------------------------------------------------------------------------
(* Cancel, Close, the host and the clock.                                   *)

\* Cancel and Close raise the flag without the mutex.
LEMMA RequestStopKeepsInv ==
    ASSUME StreamInv, NEW op, RequestStop(op)
    PROVE  StreamInv'
  <1>1. /\ pending' = pending \cup {op} /\ cancelled' = TRUE /\ pull' = pull /\ holds' = holds
        /\ now' = now /\ profile' = profile /\ ledger' = ledger
        /\ step' = step /\ held' = held /\ stream' = stream
    BY DEF RequestStop
  <1>2. Alive' => Alive
    BY <1>1 DEF Alive
  <1>3. pending' # {}
    BY <1>1
  <1>4. NothingHeldAfterEnd'
    BY <1>1, <1>3, Zenon DEF StreamInv, PullInv, NothingHeldAfterEnd, Unlocked
  <1>5. StepInv'
    BY <1>1, Zenon DEF StreamInv, StepInv
  <1>6. PullInv'
    BY <1>1, <1>2, <1>4 DEF StreamInv, PullInv
  <1>. QED
    BY <1>5, <1>6 DEF StreamInv

\* What Cancel and Close leave behind when they clean up.
LEMMA CleanUpKeepsInv ==
    ASSUME StreamInv, pull = "idle", cancelled, CleanUp,
           now' = now, cancelled' = cancelled, profile' = profile, step' = step, held' = held,
           pull' = pull, StreamTypes(stream'), ~stream'.loaded,
           stream'.exhausted = stream.exhausted, stream'.terminal = stream.terminal,
           stream'.emitted = stream.emitted, stream'.hasNext = stream.hasNext,
           stream.outcome # "NOT_STARTED" => stream'.outcome = stream.outcome
    PROVE  StreamInv'
  <1>1. ledger' = AbortLedger(ledger) /\ holds' = {} /\ StepInv
    BY Zenon DEF CleanUp, StreamInv
  <1>2. /\ LedgerInv(ledger', profile) /\ ledger'.active = 0 /\ ledger'.memory = 0
        /\ ledger.state = "EXHAUSTED" => ledger' = ledger
    BY <1>1, AbortedLedger, Zenon DEF StepInv
  <1>3. step.phase = "idle" /\ held = NoHold
    BY <1>1, Zenon DEF StepInv, PullAt, HeldAt
  <1>4. StepLedger(step', ledger', stream')
    BY <1>3, Zenon DEF StepLedger, Before
  <1>5. StepInv'
    BY <1>1, <1>2, <1>4, Zenon DEF StepInv
  <1>6. stream'.exhausted => Exhausted(stream', ledger')
    BY <1>2, Zenon DEF StreamInv, PullInv, Exhausted
  <1>7. ~Alive'
    BY Zenon DEF Alive
  <1>8. NothingHeldAfterEnd'
    BY <1>1, <1>2, <1>3, Zenon DEF NothingHeldAfterEnd
  <1>9. PullInv'
    BY <1>6, <1>7, <1>8, Zenon DEF PullInv
  <1>. QED
    BY <1>5, <1>9, Zenon DEF StreamInv


\* With the mutex they release what the scan holds.
LEMMA CancelKeepsInv ==
    ASSUME StreamInv, Cancel \/ Close
    PROVE  StreamInv'
  <1>1. /\ pull = "idle" /\ pending # {} /\ pending' \subseteq pending
        /\ now' = now /\ cancelled' = cancelled /\ profile' = profile
        /\ step' = step /\ held' = held /\ pull' = pull
    BY DEF Cancel, Close, MayCleanUp, Unlocked
  <1>2. cancelled /\ StreamTypes(stream) /\ StepInv
    BY <1>1 DEF StreamInv, PullInv
  <1>3. CASE stream.closed /\ stream' = stream /\ ledger' = ledger /\ holds' = holds
    <2>1. StepInv'
      BY <1>1, <1>2, <1>3, Zenon DEF StepInv
    <2>2. NothingHeldAfterEnd'
      BY <1>1, <1>3, Zenon DEF StreamInv, PullInv, NothingHeldAfterEnd, Unlocked
    <2>3. Alive' => Alive
      BY <1>1, <1>3 DEF Alive
    <2>4. PullInv'
      BY <1>1, <1>2, <1>3, <2>2, <2>3, Zenon DEF StreamInv, PullInv
    <2>. QED BY <2>1, <2>4 DEF StreamInv
  <1>4. CASE /\ CleanUp
             /\ \/ stream' = FinishProfile(Released(stream), "CANCELLED")
                \/ stream' = FinishProfile([Released(stream) EXCEPT !.closed = TRUE], "CLOSED")
    <2> DEFINE Ends(s) ==
                  /\ StreamTypes(s) /\ ~s.loaded /\ s.exhausted = stream.exhausted
                  /\ s.terminal = stream.terminal /\ s.outcome = stream.outcome
                  /\ s.emitted = stream.emitted /\ s.hasNext = stream.hasNext
    <2>1. Ends(Released(stream)) /\ Ends([Released(stream) EXCEPT !.closed = TRUE])
      BY <1>2, ReleasedStream, Zenon
    <2> HIDE DEF Ends
    <2>2. PICK s, outcome : stream' = FinishProfile(s, outcome) /\ Ends(s)
      BY <1>4, <2>1, Zenon
    <2>3. /\ StreamTypes(stream') /\ stream'.loaded = s.loaded
          /\ stream'.exhausted = s.exhausted /\ stream'.terminal = s.terminal
          /\ stream'.emitted = s.emitted /\ stream'.hasNext = s.hasNext
          /\ s.outcome # "NOT_STARTED" => stream'.outcome = s.outcome
      BY <2>2, FinishedStream, Zenon DEF Ends
    <2>4. /\ StreamTypes(stream') /\ ~stream'.loaded
          /\ stream'.exhausted = stream.exhausted /\ stream'.terminal = stream.terminal
          /\ stream'.emitted = stream.emitted /\ stream'.hasNext = stream.hasNext
          /\ stream.outcome # "NOT_STARTED" => stream'.outcome = stream.outcome
      BY <2>2, <2>3, Zenon DEF Ends
    <2>. QED BY <1>1, <1>2, <1>4, <2>4, CleanUpKeepsInv, Zenon
  <1>. QED
    BY <1>3, <1>4, Zenon DEF Cancel, Close

\* The host may ask for cancellation at any time.
LEMMA InterruptKeepsInv ==
    ASSUME StreamInv, Interrupt
    PROVE  StreamInv'
  <1>1. /\ pending' = pending /\ cancelled' = cancelled /\ pull' = pull /\ holds' = holds
        /\ now' = now /\ profile' = profile /\ ledger' = ledger
        /\ step' = step /\ held' = held /\ stream' = stream
    BY DEF Interrupt
  <1>. QED
    BY <1>1, Zenon DEF StreamInv, StepInv, PullInv, Alive, NothingHeldAfterEnd, Unlocked

\* Time passes.
LEMMA TickKeepsInv ==
    ASSUME StreamInv, Tick, UNCHANGED streamVars
    PROVE  StreamInv'
  <1>1. /\ pending' = pending /\ cancelled' = cancelled /\ pull' = pull /\ holds' = holds
        /\ now' = now + 1 /\ profile' = profile /\ ledger' = ledger
        /\ step' = step /\ held' = held /\ stream' = stream
    BY Zenon DEF Tick, streamVars
  <1>2. StepTypes(step', now') /\ now' \in Nat
    BY <1>1 DEF StreamInv, StepInv, StepTypes
  <1>3. StepInv'
    BY <1>1, <1>2, Zenon DEF StreamInv, StepInv
  <1>4. PullInv'
    BY <1>1, Zenon DEF StreamInv, PullInv, Alive, NothingHeldAfterEnd, Unlocked
  <1>. QED
    BY <1>3, <1>4 DEF StreamInv

\* The invariant holds of a stream that was just opened.
LEMMA InitInv ==
    ASSUME Init
    PROVE  StreamInv
  <1>1. /\ profile \in Profiles /\ now = 0 /\ now \in Nat /\ LedgerInv(ledger, profile)
        /\ step = NewStep /\ held = NoHold /\ ledger = NewLedger
    BY ProfilesTyped, NewLedgerInv, Zenon DEF Init, StepInit
  <1>2. /\ StepTypes(step, now) /\ HeldAt(step, held) /\ StepLedger(step, ledger, stream)
        /\ step.phase = "idle"
    BY <1>1, NewStepInv, Zenon
  <1>3. StepInv
    BY <1>1, <1>2, Zenon DEF Init, StepInv, PullAt, Pulls
  <1>4. /\ StreamTypes(stream) /\ ~stream.loaded /\ ~stream.exhausted /\ ~stream.closed
        /\ stream.terminal = "NONE"
    BY DEF Init, NewStream, StreamTypes, StreamFields
  <1>5. Open(pull, stream, ledger, holds)
    <2>1. NewLedger.state = "READY" /\ NewLedger.records = 0 /\ NewLedger.pages = 0
      BY DEF NewLedger
    <2>2. /\ NewStream.emitted = 0 /\ NewStream.cursor = 1 /\ NewStream.requested = 0
          /\ NewStream.exposure = "UNACCEPTED" /\ NewStream.outcome = "NOT_STARTED"
      BY DEF NewStream
    <2>3. pull = "idle" /\ stream = NewStream /\ holds = {"scan", "secret"}
      BY Zenon DEF Init, AllHeld
    <2>. QED
      BY <1>1, <1>4, <2>1, <2>2, <2>3 DEF Open, Unloaded
  <1>6. NothingHeldAfterEnd
    <2>1. NewLedger.active = 0
      BY DEF NewLedger
    <2>2. ~cancelled
      BY Zenon DEF Init, StepInit
    <2>. QED
      BY <1>1, <1>4, <2>1, <2>2, Zenon DEF NothingHeldAfterEnd
  <1>7. PullInv
    BY <1>4, <1>5, <1>6, Zenon DEF Init, PullInv
  <1>. QED
    BY <1>3, <1>7 DEF StreamInv

\* Every step keeps the invariant.
LEMMA NextKeepsInv ==
    ASSUME StreamInv, Next
    PROVE  StreamInv'
  <1>1. ASSUME NEW rows \in 0..profile.pageRecords
        PROVE  rows \in Nat
    BY ProfilesTyped
  <1>2. CASE Pull
    BY <1>1, <1>2, ZenonT(40), FailuresKeepInv, ProduceBatchKeepsInv, FinishPageKeepsInv,
       CutBatchKeepsInv, FetchPageKeepsInv, RunStepKeepsInv, StepReturnedKeepsInv,
       AcceptPageKeepsInv
       DEF Pull
  <1>. QED
    BY <1>2, Zenon, StartPullKeepsInv, RequestStopKeepsInv, CancelKeepsInv, InterruptKeepsInv,
       TickKeepsInv
       DEF Next

\* So does a step that changes nothing.
LEMMA StutterKeepsInv ==
    ASSUME StreamInv, UNCHANGED vars
    PROVE  StreamInv'
  BY Zenon DEF vars, StreamInv, StepInv, PullInv, Alive, NothingHeldAfterEnd, Unlocked

\* The stream, the step and the ledger agree at every point of a scan: the
\* phase of the step tells what is held and paid for, and what the stream has
\* loaded and emitted is what the ledger counted.
THEOREM StreamInvariant == Spec => []StreamInv
  <1>1. Init => StreamInv
    BY InitInv
  <1>2. StreamInv /\ [Next]_vars => StreamInv'
    BY NextKeepsInv, StutterKeepsInv
  <1>. QED
    BY <1>1, <1>2, PTL DEF Spec


--------------------------------------------------------------------------------
(* What the invariant says of the properties.                               *)

\* Whatever mix of pages, retries and repeats a scan takes, no counter of its
\* ledger passes its ceiling, and no request is sent that was not paid for.
THEOREM AggregateRespectedHolds == Spec => []AggregateRespected
  <1>1. StreamInv => AggregateRespected
    BY Zenon DEF StreamInv, StepInv, LedgerInv, Within, AggregateRespected
  <1>. QED
    BY <1>1, StreamInvariant, PTL

\* ExecuteHttpStepWithRetry hands a request to the transport only with every
\* permit, reservation and debit it needs.
THEOREM TransportAuthorisedHolds == Spec => []TransportAuthorised
  <1>1. StreamInv => TransportAuthorised
    <2>1. SUFFICES ASSUME StreamInv, step.phase = "transport"
                   PROVE  /\ held.request /\ held.buffers /\ held.waiter = "NONE"
                          /\ step.keyed => held.quota
                          /\ ledger.active = 1 /\ ledger.sent
                          /\ pull = "step" /\ holds \cap {"scan", "secret"} = {"scan", "secret"}
      BY Zenon DEF TransportAuthorised, InFlight
    <2>2. /\ held.request /\ held.buffers /\ held.waiter = "NONE"
          /\ step.keyed => held.quota
      BY <2>1, Zenon DEF StreamInv, StepInv, HeldAt
    <2>3. ledger.active = 1 /\ ledger.sent
      BY <2>1, Zenon DEF StreamInv, StepInv, StepLedger
    <2>4. pull = "step"
      BY <2>1, Zenon DEF StreamInv, StepInv, PullAt, Pulls
    <2>5. {"scan", "secret"} \subseteq holds
      BY <2>1, <2>4 DEF StreamInv, PullInv, Alive, Open
    <2>. QED BY <2>2, <2>3, <2>4, <2>5, Zenon
  <1>. QED
    BY <1>1, StreamInvariant, PTL

\* A step that waits for quota, for a retry or for admission holds nothing
\* that others wait for.
THEOREM WaitsHoldNothingHolds == Spec => []WaitsHoldNothing
  <1>1. StreamInv => WaitsHoldNothing
    BY Zenon DEF StreamInv, StepInv, HeldAt, WaitsHoldNothing
  <1>. QED
    BY <1>1, StreamInvariant, PTL

\* A page is requested, again or at all, only before any of it was accepted.
THEOREM ReplayOnlyUnacceptedHolds == Spec => []ReplayOnlyUnaccepted
  <1>1. StreamInv => ReplayOnlyUnaccepted
    <2>1. SUFFICES ASSUME StreamInv, step.phase = "transport"
                   PROVE  /\ ~stream.loaded /\ stream.exposure = "UNACCEPTED"
                          /\ stream.emitted = ledger.records
                          /\ stream.cursor = ledger.pages /\ stream.requested = ledger.pages
      BY Zenon DEF ReplayOnlyUnaccepted, InFlight
    <2>2. pull = "step"
      BY <2>1 DEF StreamInv, StepInv, PullAt, Pulls
    <2>3. Open(pull, stream, ledger, holds)
      BY <2>1, <2>2, Zenon DEF StreamInv, PullInv, Alive
    <2>4. ~stream.loaded /\ Unloaded(pull, stream, ledger)
      BY <2>2, <2>3, Zenon DEF Open, Loaded
    <2>5. stream.cursor = ledger.pages /\ stream.requested = ledger.pages
      BY <2>1, Zenon DEF StreamInv, StepInv, StepLedger, Asked
    <2>. QED BY <2>4, <2>5, Zenon DEF Unloaded
  <1>. QED
    BY <1>1, StreamInvariant, PTL

\* Rows are neither lost nor handed over twice, and a scan that ends cleanly
\* has emitted every row that was decoded.
THEOREM RowsConservedHolds == Spec => []RowsConserved
  <1>1. StreamInv => RowsConserved
    BY Zenon DEF StreamInv, PullInv, Alive, Open, Loaded, Exhausted, RowsConserved
  <1>. QED
    BY <1>1, StreamInvariant, PTL

\* Whatever ended a scan, its permit, its secret and its reservations are gone.
THEOREM NothingHeldAfterEndHolds == Spec => []NothingHeldAfterEnd
  <1>1. StreamInv => NothingHeldAfterEnd
    BY DEF StreamInv, PullInv
  <1>. QED
    BY <1>1, StreamInvariant, PTL


--------------------------------------------------------------------------------
(* Cancellation.                                                            *)

\* The scan is being cancelled and is past the last point where it could still
\* reach the transport without looking at the flag.
Doomed ==
    /\ CancelRequested
    /\ pull = "idle" => cancelled
    /\ pull = "step" => step.phase \notin {"admit", "attempt"}
    /\ pull = "step" /\ step.phase = "quota" => step.answers

\* The step that follows what a doomed one may do next.
LEMMA DoomedTurn ==
    ASSUME StepInv, StepNext, Doomed, pull = "step"
    PROVE  step'.phase \notin {"admit", "attempt"} /\ (step'.phase = "quota" => step'.answers)
  <1> DEFINE Goal == step'.phase \notin {"admit", "attempt"}
                     /\ (step'.phase = "quota" => step'.answers)
  <1>1. /\ CancelRequested /\ step.phase \notin {"admit", "attempt"}
        /\ step.phase = "quota" => step.answers
        /\ DOMAIN step = StepFields
    BY Zenon DEF Doomed, StepInv, StepTypes
  <1>2. ASSUME NEW outcome, Throw(outcome)
        PROVE  Goal
    BY <1>1, <1>2 DEF Throw, StepFields
  <1>3. ASSUME NEW s, NEW h, NEW l, NEW eligible, StartQuotaWait(s, h, l, eligible, TRUE),
               DOMAIN s = StepFields
        PROVE  Goal
    BY <1>3 DEF StartQuotaWait, StepFields
  <1> SUFFICES Goal
    OBVIOUS
  <1> HIDE DEF Goal
  <1>4. CASE LoopCancelled \/ BuffersRejected \/ TransportRaises \/ BackoffStops
             \/ \E n : TransportCancelled(n) \/ TransportFails(n)
    BY <1>2, <1>4, Zenon
       DEF LoopCancelled, BuffersRejected, TransportRaises, BackoffStops, TransportCancelled,
           TransportFails
  <1>5. CASE ReacquireQuota \/ EnterAdmission
    BY <1>1, <1>5, Zenon DEF ReacquireQuota, EnterAdmission, GoesOn
  <1>6. ASSUME NEW status, QuotaAnswer(status)
        PROVE  Goal
    <2>1. step.answers
      BY <1>1, <1>6, Zenon DEF QuotaAnswer
    <2>2. CASE step' = [step EXCEPT !.phase = "top", !.rate = @ + 1]
      BY <1>1, <2>2 DEF StepFields, Goal
    <2>. QED
      BY <1>2, <1>6, <2>1, <2>2, Zenon DEF QuotaAnswer, QuotaRefused
  <1>7. ASSUME NEW status, NEW waited, AdmissionAnswer(status, waited)
        PROVE  Goal
    BY <1>1, <1>7, Zenon DEF AdmissionAnswer
  <1>8. ASSUME NEW n, SendAttempt(n)
        PROVE  Goal
    BY <1>1, <1>8, Zenon DEF SendAttempt
  <1>9. ASSUME NEW n, ReceiveResponse(n)
        PROVE  Goal
    <2>1. CASE step' = [step EXCEPT !.phase = "returned"]
      BY <1>1, <2>1 DEF StepFields, Goal
    <2>. QED BY <1>2, <1>9, <2>1, Zenon DEF ReceiveResponse, ReturnResponse
  <1>10. ASSUME NEW n, NEW d, RetryableFailure(n, d)
         PROVE  Goal
    <2>1. ASSUME NEW k, step' = [step EXCEPT !.phase = "backoff", !.began = now,
                                             !.delay = k, !.waited = 0]
          PROVE  Goal
      BY <1>1, <2>1 DEF StepFields, Goal
    <2>. QED BY <1>2, <1>10, <2>1, Zenon DEF RetryableFailure
  <1>11. ASSUME NEW n, NEW bucket, NEW delay, RateLimited(n, bucket, delay)
         PROVE  Goal
    <2> DEFINE s == [step EXCEPT !.bucket = bucket, !.immediate = (delay = 0)]
    <2>1. DOMAIN s = StepFields
      BY <1>1 DEF StepFields
    <2>. QED BY <1>2, <1>3, <1>11, <2>1, Zenon DEF RateLimited
  <1>12. CASE BackoffElapsed \/ SliceStarts \/ SliceEnds
    <2>1. ASSUME NEW k, step' = [step EXCEPT !.phase = "repeat", !.waited = k]
          PROVE  Goal
      BY <1>1, <2>1 DEF Goal
    <2>2. ASSUME NEW k, step' = [step EXCEPT !.phase = "slice", !.eligible = k]
          PROVE  Goal
      BY <1>1, <2>2 DEF StepFields, Goal
    <2>3. CASE step' = [step EXCEPT !.waited = @ + SliceDebit,
                                    !.phase = IF step.waited + SliceDebit >= step.delay
                                              THEN "repeat" ELSE "backoff"]
      BY <1>1, <2>3 DEF StepFields, Goal
    <2>. QED
      BY <1>2, <1>12, <2>1, <2>2, <2>3, Zenon DEF BackoffElapsed, SliceStarts, SliceEnds
  <1>13. CASE Repeat
    BY <1>1, <1>2, <1>13, Zenon DEF Repeat
  <1>. QED
    BY <1>4, <1>5, <1>6, <1>7, <1>8, <1>9, <1>10, <1>11, <1>12, <1>13, Zenon DEF StepNext


\* A scan past its last request stays there.
LEMMA DoomedNext ==
    ASSUME StreamInv, Next, Doomed
    PROVE  Doomed'
  <1>1. MustStop /\ (pull = "idle" => cancelled)
    BY Zenon DEF Doomed, MustStop
  <1>2. ASSUME NEW outcome, FailPull(outcome)
        PROVE  Doomed'
    BY <1>2 DEF FailPull, Doomed, CancelRequested
  <1>3. ASSUME pull' = pull, step' = step, cancelled => cancelled', interrupted' = interrupted
        PROVE  Doomed'
    BY <1>3 DEF Doomed, CancelRequested
  <1>4. ASSUME pull' \notin {"idle", "step"}, cancelled' = cancelled, interrupted' = interrupted
        PROVE  Doomed'
    BY <1>4 DEF Doomed, CancelRequested
  <1>5. CASE StartPull
    <2>1. pull = "idle" /\ pull' = "idle" /\ cancelled' = cancelled /\ cancelled
      BY <1>1, <1>5, Zenon DEF StartPull, EndPull, Unlocked
    <2>. QED BY <2>1 DEF Doomed, CancelRequested
  <1>6. CASE Stop \/ CursorMemoryRejected \/ StepThrew
             \/ \E outcome : BatchRejected(outcome) \/ ResponseRejected(outcome)
    BY <1>2, <1>6, Zenon DEF Stop, CursorMemoryRejected, StepThrew, BatchRejected, ResponseRejected
  <1>7. CASE CutBatch \/ ProduceBatch \/ FinishPage \/ ReserveDecodedPage
             \/ \E rows, hasNext : AcceptPage(rows, hasNext)
    <2>1. {"loop", "produce", "received", "decoded"} \subseteq Checkpoints
      BY Zenon DEF Checkpoints
    <2>. QED
      BY <1>1, <1>7, <2>1, Zenon
         DEF CutBatch, ProduceBatch, FinishPage, ReserveDecodedPage, AcceptPage, Continue
  <1>8. CASE FetchPage
    <2>1. CASE StartStep /\ pull' = "step"
      <3>1. step'.phase \in {"top", "threw"} /\ cancelled' = cancelled /\ interrupted' = interrupted
        BY <2>1, Zenon DEF StartStep, NewStep
      <3>. QED BY <2>1, <3>1, Zenon DEF Doomed, CancelRequested
    <2>. QED BY <1>2, <1>8, <2>1, Zenon DEF FetchPage
  <1>9. CASE RunStep
    <2>1. StepInv /\ StepNext /\ pull = "step" /\ pull' = "step"
      BY <1>9, Zenon DEF StreamInv, RunStep, streamVars
    <2>2. step'.phase \notin {"admit", "attempt"} /\ (step'.phase = "quota" => step'.answers)
      BY <2>1, DoomedTurn
    <2>3. cancelled' = cancelled /\ interrupted' = interrupted
      BY <2>1, StepNextFrame
    <2>. QED BY <2>1, <2>2, <2>3, Zenon DEF Doomed, CancelRequested
  <1>10. CASE StepReturned
    BY <1>4, <1>10, Zenon DEF StepReturned
  <1>11. CASE \/ \E op \in {"cancel", "close"} : RequestStop(op)
              \/ Cancel \/ Close \/ (Tick /\ UNCHANGED streamVars)
    BY <1>3, <1>11, Zenon DEF RequestStop, Cancel, Close, Tick, streamVars
  <1>12. CASE Interrupt
    BY <1>12, Zenon DEF Interrupt, Doomed, CancelRequested
  <1>. QED
    BY <1>5, <1>6, <1>7, <1>8, <1>9, <1>10, <1>11, <1>12, Zenon DEF Next, Pull

\* A request is sent by one action only, the end of an attempt's preparation.
LEMMA OnlySendAttemptSends ==
    ASSUME StreamInv, Next, ledger'.remote # ledger.remote
    PROVE  /\ pull = "step" /\ step.phase = "attempt"
           /\ pull' = "step" /\ step'.phase = "transport"
           /\ cancelled' = cancelled /\ interrupted' = interrupted
  <1>1. LedgerInv(ledger, profile) /\ ProfileTypes(profile) /\ StepInv
    BY ProfilesTyped, Zenon DEF StreamInv, StepInv
  <1>2. ledger' # ledger
    OBVIOUS
  <1>3. ASSUME NEW outcome, FailPull(outcome)
        PROVE  FALSE
    BY <1>1, <1>3, AbortedLedger DEF FailPull
  <1>4. ~(StartPull \/ CutBatch \/ ProduceBatch \/ StepReturned \/ ReserveDecodedPage)
    BY <1>2, Zenon DEF StartPull, CutBatch, ProduceBatch, StepReturned, ReserveDecodedPage
  <1>5. ~(Interrupt \/ Tick \/ \E op : RequestStop(op))
    BY <1>2, Zenon DEF Interrupt, Tick, RequestStop
  <1>6. ~(Stop \/ CursorMemoryRejected \/ StepThrew
          \/ \E outcome : BatchRejected(outcome) \/ ResponseRejected(outcome))
    BY <1>3, Zenon DEF Stop, CursorMemoryRejected, StepThrew, BatchRejected, ResponseRejected
  <1>7. ~(Cancel \/ Close)
    <2>1. ledger' # AbortLedger(ledger)
      BY <1>1, AbortedLedger, Zenon
    <2>. QED BY <1>2, <2>1, Zenon DEF Cancel, Close, CleanUp
  <1>8. ~FinishPage
    <2>1. CompletePage(ledger, profile, stream.hasNext, now).remote = ledger.remote
      BY <1>1, CompletedLedger DEF Completed
    <2>. QED BY <1>3, <2>1, ZenonT(40) DEF FinishPage
  <1>9. ~FetchPage
    <2>1. BeginStep(ledger, profile, now).remote = ledger.remote
      BY <1>1, BeginStepLedger, Zenon
    <2>. QED BY <1>3, <2>1, ZenonT(40) DEF FetchPage, StartStep
  <1>10. ~\E rows \in 0..profile.pageRecords, hasNext \in BOOLEAN : AcceptPage(rows, hasNext)
    <2>1. SUFFICES ASSUME NEW rows \in 0..profile.pageRecords, NEW hasNext \in BOOLEAN,
                          AcceptPage(rows, hasNext)
                   PROVE  FALSE
      BY Zenon
    <2>2. rows \in Nat
      BY <1>1
    <2>3. CommitDecodedPage(ledger, profile, rows, 1).remote = ledger.remote
      BY <1>1, <2>2, DecodedLedger DEF Decoded
    <2>. QED BY <1>3, <2>1, <2>3, Zenon DEF AcceptPage
  <1>11. RunStep
    BY <1>4, <1>5, <1>6, <1>7, <1>8, <1>9, <1>10, Zenon DEF Next, Pull
  <1>12. StepNext /\ pull = "step" /\ pull' = pull
    BY <1>11, Zenon DEF RunStep, streamVars
  <1>. QED
    BY <1>1, <1>12, StepNextTurns, StepNextFrame, Zenon DEF Turned

CancelInv ==
    /\ StreamInv
    /\ late \in {0, 1}
    /\ late = 1 => Doomed

\* Once cancellation was asked for, at most one more request reaches the
\* transport: the step looks at the flag at the top of its loop and after its
\* backoff, and the pull at each of its checkpoints.
THEOREM CancelStopsRequestsHolds == HSpec => []CancelStopsRequests
  <1>1. HInit => CancelInv
    BY InitInv DEF HInit, CancelInv
  <1>2. ASSUME CancelInv, HNext
        PROVE  CancelInv'
    <2>1. StreamInv /\ Next /\ StreamInv' /\ late \in {0, 1} /\ (late = 1 => Doomed)
      BY <1>2, NextKeepsInv DEF CancelInv, HNext
    <2>2. late' = IF CancelRequested /\ ledger'.remote > ledger.remote THEN late + 1
                  ELSE IF CancelRequested THEN late ELSE 0
      BY <1>2 DEF HNext
    <2>3. ledger.remote \in Nat
      BY <2>1, Zenon DEF StreamInv, StepInv, LedgerInv, LedgerTypes
    <2>4. CASE CancelRequested /\ ledger'.remote > ledger.remote
      <3>1. /\ pull = "step" /\ step.phase = "attempt" /\ pull' = "step"
            /\ step'.phase = "transport" /\ cancelled' = cancelled /\ interrupted' = interrupted
        <4>1. ledger'.remote # ledger.remote
          BY <2>3, <2>4
        <4>. QED BY <2>1, <4>1, OnlySendAttemptSends, Zenon
      <3>2. ~Doomed /\ Doomed'
        BY <2>4, <3>1 DEF Doomed, CancelRequested
      <3>. QED BY <2>1, <2>2, <2>4, <3>2 DEF CancelInv
    <2>5. CASE CancelRequested /\ ~(ledger'.remote > ledger.remote)
      <3>1. late' = late
        BY <2>2, <2>5
      <3>2. Doomed => Doomed'
        BY <2>1, DoomedNext
      <3>. QED BY <2>1, <3>1, <3>2 DEF CancelInv
    <2>6. CASE ~CancelRequested
      BY <2>1, <2>2, <2>6 DEF CancelInv
    <2>. QED BY <2>4, <2>5, <2>6
  <1>3. ASSUME CancelInv, UNCHANGED <<vars, late>>
        PROVE  CancelInv'
    <2>1. StreamInv'
      BY <1>3, StutterKeepsInv DEF CancelInv
    <2>2. Doomed => Doomed'
      BY <1>3, Zenon DEF vars, Doomed, CancelRequested
    <2>. QED BY <1>3, <2>1, <2>2 DEF CancelInv
  <1>4. CancelInv => CancelStopsRequests
    BY DEF CancelInv, CancelStopsRequests
  <1>. QED
    BY <1>1, <1>2, <1>3, <1>4, PTL DEF HSpec

================================================================================
