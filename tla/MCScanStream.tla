---------------------------- MODULE MCScanStream ----------------------------
(***************************************************************************)
(* Small profiles for the scan stream: two pages, up to three attempts a   *)
(* page, one unit of backoff and two of waiting.  `late` counts the        *)
(* requests handed to the transport after cancellation was asked for.      *)
(***************************************************************************)
EXTENDS ScanStream, TLC

VARIABLE late

\* Ordinary retries; a declared rate limit fails the scan.
RestProfile ==
    [protocol |-> "REST", stepAttempts |-> 2, attempts |-> 3, pages |-> 2,
     pageBytes |-> 1, bytes |-> 2, pageRecords |-> 1, records |-> 2,
     pageMemory |-> 1, memory |-> 1, wall |-> 2, pageBody |-> 0, body |-> 0,
     waiting |-> 2, retryWaiting |-> 1, rateWaiting |-> 2, retryStep |-> 2, retryScan |-> 3,
     rateMode |-> "FAIL", rateStep |-> 2, rateScan |-> 3, admissionWaiting |-> 1]

\* Three attempts a page: a retry and a rate-limit repeat of one page.
GraphqlProfile ==
    [RestProfile EXCEPT !.protocol = "GRAPHQL", !.stepAttempts = 3, !.pageBody = 1, !.body = 3,
                        !.waiting = 3, !.rateMode = "WAIT_IF_DEADLINE_ALLOWS",
                        !.admissionWaiting = 0]

\* Pages of up to two rows; neither retries nor waits.
ShortPageProfile ==
    [RestProfile EXCEPT !.protocol = "SHORT_PAGE", !.pageRecords = 2, !.records = 3,
                        !.stepAttempts = 1, !.attempts = 2, !.retryStep = 1, !.retryScan = 2,
                        !.rateStep = 1, !.rateScan = 2, !.retryWaiting = 0, !.rateWaiting = 0,
                        !.waiting = 0]

\* One page of up to two rows; every way of repeating it.
SingleProfile ==
    [GraphqlProfile EXCEPT !.protocol = "SINGLE", !.pages = 1, !.pageRecords = 2,
                           !.retryScan = 2, !.pageBody = 0, !.body = 0, !.rateMode = "WAIT",
                           !.rateScan = 2, !.admissionWaiting = 1]

MCProfiles == {RestProfile, GraphqlProfile, ShortPageProfile, SingleProfile}

HInit == Init /\ late = 0

HNext ==
    /\ Next
    /\ late' = IF CancelRequested /\ ledger'.remote > ledger.remote THEN late + 1
               ELSE IF CancelRequested THEN late ELSE 0

HSpec == HInit /\ [][HNext]_<<vars, late>>

FairHSpec == HSpec /\ Fairness

\* Once cancellation was asked for, by the host or through the stream, at most
\* one more request is handed to the transport: every loop of the step and of
\* the pull looks at the flag again before it asks anything of the remote.
CancelStopsRequests == late <= 1
=============================================================================
