---------------------------- MODULE CredentialStore ----------------------------
(***************************************************************************)
(* What a persistent credential store promises, with no file, record or    *)
(* cleanup in it: a map from names to the revision each selects, changed   *)
(* one name at a time, that a loss of power may only take back to a map    *)
(* it held since the last moment it was known to be on stable storage.     *)
(***************************************************************************)
CONSTANTS Names, NoRevision

VARIABLES
    selected,   \* [Names -> revision or NoRevision]: what a lookup selects
    survivors,  \* the maps that a loss of power may leave
    answer      \* the answer to the last mutation: "none", "ok" or "failed"

storeVars == <<selected, survivors, answer>>

Init ==
    /\ selected = [n \in Names |-> NoRevision]
    /\ survivors = {selected}
    /\ answer = "none"

\* A revision is never selected twice, under any name.
Fresh(revision) == \A map \in survivors, n \in Names : map[n] # revision

\* One name is given a new revision, or loses the one it had.
Change(n, revision) ==
    /\ revision # selected[n]
    /\ revision # NoRevision => Fresh(revision)
    /\ selected' = [selected EXCEPT ![n] = revision]
    /\ survivors' = survivors \cup {selected'}
    /\ UNCHANGED answer

\* What is selected has reached stable storage.
Settle ==
    /\ survivors' = {selected}
    /\ UNCHANGED <<selected, answer>>

\* A mutation is acknowledged only when nothing can take it back.
Acknowledge ==
    /\ survivors = {selected}
    /\ answer' = "ok"
    /\ UNCHANGED <<selected, survivors>>

\* A mutation that is refused or fails, and the call after an answer.
Refuse ==
    /\ answer' \in {"failed", "none"}
    /\ UNCHANGED <<selected, survivors>>

\* A loss of power; a process that merely dies leaves the map as it is.
PowerLoss ==
    /\ selected' \in survivors
    /\ survivors' = {selected'}
    /\ answer' = "none"

Next ==
    \/ \E n \in Names :
          \E revision \in {selected'[n]} : Change(n, revision)
    \/ Settle
    \/ Acknowledge
    \/ Refuse
    \/ PowerLoss

Spec == Init /\ [][Next]_storeVars
================================================================================
