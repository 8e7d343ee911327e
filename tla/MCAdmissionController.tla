----------------------- MODULE MCAdmissionController -----------------------
(* Two callers with one identity.                                          *)
EXTENDS AdmissionController, TLC

CONSTANTS c1, c2, anon

Shared == [connector |-> "x", destination |-> "h", principal |-> anon, operation |-> "o"]

MCIdentity == (c1 :> Shared) @@ (c2 :> Shared)

MCLimits ==
    [k \in Kinds |->
        IF k = "REQUEST"
        THEN [s \in Scopes |-> IF s = "GLOBAL" THEN 2 ELSE 1]
        ELSE [s \in Scopes |-> IF s = "GLOBAL" THEN 4 ELSE 3]]

MCQueueLimits == [k \in QueuedKinds |-> [s \in Scopes |-> 2]]

MCWaits == {[queue |-> 1, aggregate |-> 2, scan |-> 2], [queue |-> 1, aggregate |-> 0, scan |-> 1]}
=============================================================================
