--------------------------- MODULE CredentialStorage ---------------------------
(***************************************************************************)
(* Persistent credential storage (query/duckdb/credentials/                *)
(* credential_storage.cpp): an index file that selects one record file per *)
(* name, replaced by renaming a pending file over it, with the record to   *)
(* be cleaned up named in the index itself.                                *)
(*                                                                         *)
(* A mutation makes one file-system call a step, so that a call may fail,  *)
(* the process may die and the power may be lost between any two of them.  *)
(* Its stages are the calls of StorePersistent and DropPersistent:         *)
(*     clean   CleanPriorIntent, when an earlier mutation left an intent   *)
(*     intend  PublishIndex, with the intent that names the new record     *)
(*     record  WriteRecord                                                 *)
(*     select  PublishIndex, with the new selection of the name            *)
(*     settle  SettleCommittedCleanupNoThrow, when a record was retired    *)
(* A drop has no intend and no record.                                     *)
(*                                                                         *)
(* A directory operation survives a loss of power for certain once the     *)
(* directory has been synchronised; before that a prefix of the operations *)
(* since survives.  The data of a file is whole after a loss of power only *)
(* if the file was synchronised.  The storage directory exists already.    *)
(***************************************************************************)
EXTENDS Integers, FiniteSets

CONSTANTS
    Instances,   \* processes with a database instance on the same directory
    Names,       \* normalised secret names
    MaxLive,     \* MAX_LIVE_RECORDS
    MaxRecords,  \* bound: record ids a behaviour creates
    MaxFaults,   \* bound: failed calls, process deaths and losses of power
    None         \* no entry, no file, no cleanup intent

Metadata == [authority : Nat, id : Nat]
Entries == [Names -> Metadata \cup {None}]
IndexFiles == [entries : Entries, cleanup_id : Nat \cup {None}, synced : BOOLEAN]

ASSUME CredentialAssumption ==
    /\ MaxLive \in Nat /\ MaxRecords \in Nat /\ MaxFaults \in Nat
    /\ None \notin Nat /\ None \notin Instances
    /\ None \notin Metadata /\ None \notin IndexFiles

VARIABLES
    dir,        \* the directory: [index, pending, records]
    survivors,  \* the directories a loss of power may leave
    lock,       \* the instance that holds the flock on the lock file
    inst,       \* [Instances -> Impl]: opened, entries, cleanup_id
    mutation,   \* [Instances -> the mutation in progress]: stage and next
                \* call, the name, its new metadata, the record it retires
    result,     \* the answer to the last mutation
    ids,        \* record ids created so far
    faults      \* faults so far

vars == <<dir, survivors, lock, inst, mutation, result, ids, faults>>
files == <<dir, survivors>>

\* An authority or a record id read from a freed node.
Garbage == 0

Ids == 1..MaxRecords

NoEntries == [n \in Names |-> None]
Live(entries) == {n \in Names : entries[n] # None}
Closed == [opened |-> FALSE, entries |-> NoEntries, cleanup_id |-> None]

--------------------------------------------------------------------------------
(* Files.                                                                   *)

\* EncodeIndex: the cleanup intent is a record id and names no live record,
\* and no two names share one.
EncodeIndex(index) ==
    /\ Cardinality(Live(index.entries)) <= MaxLive
    /\ index.cleanup_id \in Ids \cup {None}
    /\ \A n \in Live(index.entries) :
          /\ index.entries[n].id \in Ids /\ index.entries[n].id # index.cleanup_id
          /\ \A m \in Live(index.entries) : index.entries[m].id = index.entries[n].id => m = n

\* DecodeIndex: a missing file is an empty index, a torn one is refused.
Decodable(index) == index # None => index.synced
EntriesOf(index) == IF index = None THEN NoEntries ELSE index.entries
CleanupOf(index) == IF index = None THEN None ELSE index.cleanup_id

\* DecodeRecord: the record is whole and is the one the metadata describes.
RecordFor(d, n, metadata) ==
    \E r \in d.records :
        r.id = metadata.id /\ r.name = n /\ r.authority = metadata.authority /\ r.synced

\* A directory operation reaches stable storage with the next SyncFile(dir).
Unsynced(d) == /\ dir' = d
               /\ survivors' = survivors \cup {d}

--------------------------------------------------------------------------------
(* The stages of a mutation.                                                *)

NoMutation ==
    [stage |-> "none", call |-> "none", name |-> None, metadata |-> None, retired |-> None]

Idle(p) == mutation[p].stage = "none"

FirstCall(stage) ==
    CASE stage \in {"clean", "settle"} -> "remove_record"
      [] stage = "record" -> "write_record"
      [] stage = "return" -> "return"
      [] OTHER -> "encode"

Enter(m, stage) == [m EXCEPT !.stage = stage, !.call = FirstCall(stage)]

\* Fault: the record is written before any intent names it.
OpeningUnnamed(metadata) == IF metadata = None THEN "select" ELSE "record"

\* What follows the cleanup of a prior intent.
Opening(metadata) == IF metadata = None THEN "select" ELSE "intend"

NextStage(m) ==
    CASE m.stage = "clean" -> Opening(m.metadata)
      [] m.stage = "intend" -> "record"
      [] m.stage = "record" -> "select"
      [] m.stage = "select" -> IF m.retired = None THEN "return" ELSE "settle"
      [] OTHER -> "return"

Begin(p, n, metadata, retired) ==
    /\ mutation' = [mutation EXCEPT ![p] =
          Enter([stage |-> "none", call |-> "none", name |-> n, metadata |-> metadata,
                 retired |-> retired],
                IF inst[p].cleanup_id = None THEN Opening(metadata) ELSE "clean")]
    /\ result' = "none"

\* The mutation returns at once, with no call to make.
Answer(p, answer) ==
    /\ result' = answer
    /\ UNCHANGED mutation

\* The index that the stage of mutation m publishes from instance i.
NextIndex(m, i) ==
    [entries |-> IF m.stage = "select" THEN [i.entries EXCEPT ![m.name] = m.metadata]
                 ELSE i.entries,
     cleanup_id |-> CASE m.stage = "intend" -> m.metadata.id
                      [] m.stage = "select" -> m.retired
                      [] OTHER -> None,
     synced |-> FALSE]

--------------------------------------------------------------------------------
(* Operations.                                                              *)

\* EnsureOpen takes the lock file's lock or fails, and reads the index.
EnsureOpen(p) ==
    /\ Idle(p) /\ ~inst[p].opened
    /\ \/ /\ lock = None /\ Decodable(dir.index)
          /\ lock' = p
          /\ inst' = [inst EXCEPT ![p] = [opened |-> TRUE,
                                          entries |-> EntriesOf(dir.index),
                                          cleanup_id |-> CleanupOf(dir.index)]]
          /\ UNCHANGED result
       \/ /\ lock # None \/ ~Decodable(dir.index)
          /\ result' = "failed"
          /\ UNCHANGED <<lock, inst>>
    /\ UNCHANGED <<files, mutation, ids, faults>>

\* What an operation sees of a node of `entries` that CleanPriorIntent freed:
\* `found` points into the map that PublishIndex swapped with its parameter
\* and destroyed.  The bytes may be the old ones or others.
FreedNode(p, found) == found # None /\ inst[p].cleanup_id # None
Authorities(p, found) ==
    {found.authority} \cup (IF FreedNode(p, found) THEN {Garbage} ELSE {})
RecordIds(p, found, id) ==
    {found.id} \cup (IF FreedNode(p, found) THEN {id, Garbage} ELSE {})

\* CREATE [OR REPLACE] PERSISTENT SECRET.
StorePersistent(p, n, on_conflict) ==
    LET entries == inst[p].entries
        found == entries[n]
        full == found = None /\ Cardinality(Live(entries)) >= MaxLive
    IN  /\ Idle(p) /\ inst[p].opened
        /\ UNCHANGED <<files, lock, inst, faults>>
        /\ \/ /\ \/ found # None /\ on_conflict \in {"ERROR", "ALTER"}
                 \/ found = None /\ on_conflict = "ALTER"
                 \/ full
              /\ Answer(p, "failed") /\ UNCHANGED ids
           \/ /\ found # None /\ on_conflict = "IGNORE"
              /\ Answer(p, "none") /\ UNCHANGED ids
           \/ /\ IF found = None THEN on_conflict # "ALTER" /\ ~full ELSE on_conflict = "REPLACE"
              /\ ids < MaxRecords
              /\ ids' = ids + 1
              /\ \E authority \in IF found = None THEN {ids + 1} ELSE Authorities(p, found),
                    superseded \in IF found = None THEN {None} ELSE RecordIds(p, found, ids + 1) :
                    Begin(p, n, [authority |-> authority, id |-> ids + 1], superseded)

\* DROP PERSISTENT SECRET.
DropPersistent(p, n) ==
    LET found == inst[p].entries[n]
    IN  /\ Idle(p) /\ inst[p].opened
        /\ UNCHANGED <<files, lock, inst, ids, faults>>
        /\ \/ /\ found = None
              /\ \E answer \in {"failed", "none"} : Answer(p, answer)
           \/ /\ found # None
              /\ \E removed \in RecordIds(p, found, found.id) : Begin(p, n, None, removed)

\* The instance is closed, or its process dies, and another takes its place.
Shutdown(p) ==
    /\ inst[p].opened
    /\ Idle(p) \/ faults < MaxFaults
    /\ faults' = IF Idle(p) THEN faults ELSE faults + 1
    /\ inst' = [inst EXCEPT ![p] = Closed]
    /\ lock' = None
    /\ mutation' = [mutation EXCEPT ![p] = NoMutation]
    /\ result' = "none"
    /\ UNCHANGED <<files, ids>>

--------------------------------------------------------------------------------
(* The steps of a mutation.                                                 *)

\* p's mutation makes the call, and goes on with `next`.
Does(p, call, next) ==
    /\ mutation[p].call = call
    /\ mutation' = [mutation EXCEPT ![p] = next]
    /\ UNCHANGED <<lock, ids, faults>>

Then(p, call) == [mutation[p] EXCEPT !.call = call]
Advance(p) == Enter(mutation[p], NextStage(mutation[p]))

\* A failure before the selection is committed ends the mutation; one after it
\* ends only the settling of the cleanup.
Abandon(p) ==
    IF mutation[p].stage = "settle"
    THEN mutation' = [mutation EXCEPT ![p] = Advance(p)] /\ UNCHANGED result
    ELSE mutation' = [mutation EXCEPT ![p] = NoMutation] /\ result' = "failed"

Encode(p) ==
    /\ mutation[p].call = "encode"
    /\ IF EncodeIndex(NextIndex(mutation[p], inst[p]))
       THEN Does(p, "encode", Then(p, "unlink_pending")) /\ UNCHANGED result
       ELSE Abandon(p) /\ UNCHANGED <<lock, ids, faults>>
    /\ UNCHANGED <<files, inst>>

UnlinkPending(p) ==
    /\ Does(p, "unlink_pending", Then(p, "write_pending"))
    /\ IF dir.pending = None THEN UNCHANGED files
       ELSE Unsynced([dir EXCEPT !.pending = None])
    /\ UNCHANGED <<inst, result>>

\* Fault: the pending index is renamed without being synchronised.
WritePendingUnsynced(p) ==
    /\ Does(p, "write_pending", Then(p, "rename"))
    /\ Unsynced([dir EXCEPT !.pending = NextIndex(mutation[p], inst[p])])
    /\ UNCHANGED <<inst, result>>

WritePending(p) ==
    /\ Does(p, "write_pending", Then(p, "sync_pending"))
    /\ Unsynced([dir EXCEPT !.pending = NextIndex(mutation[p], inst[p])])
    /\ UNCHANGED <<inst, result>>

SyncPending(p) ==
    /\ Does(p, "sync_pending", Then(p, "rename"))
    /\ dir' = [dir EXCEPT !.pending = [dir.pending EXCEPT !.synced = TRUE]]
    /\ survivors' = (survivors \ {dir}) \cup {dir'}
    /\ UNCHANGED <<inst, result>>

\* renameat, then entries.swap and cleanup_id.swap.
Renamed == [dir EXCEPT !.index = dir.pending, !.pending = None]

Swapped(i) == [i EXCEPT !.entries = dir.pending.entries, !.cleanup_id = dir.pending.cleanup_id]

\* Fault: the live instance never adopts the index it renamed.
RenameIndexWithoutSwap(p) ==
    /\ Does(p, "rename", Then(p, "sync_directory"))
    /\ Unsynced(Renamed)
    /\ UNCHANGED <<inst, result>>

\* Fault: the rename is not made durable.
RenameIndexUndurable(p) ==
    /\ Does(p, "rename", Advance(p))
    /\ Unsynced(Renamed)
    /\ inst' = [inst EXCEPT ![p] = Swapped(inst[p])]
    /\ UNCHANGED result

RenameIndex(p) ==
    /\ Does(p, "rename", Then(p, "sync_directory"))
    /\ Unsynced(Renamed)
    /\ inst' = [inst EXCEPT ![p] = Swapped(inst[p])]
    /\ UNCHANGED result

\* RemoveRecordIfPresent synchronises the directory only if it unlinked.
RemoveRecord(p) ==
    LET present == {r \in dir.records : r.id = inst[p].cleanup_id}
    IN  /\ Does(p, "remove_record", Then(p, IF present = {} THEN "encode" ELSE "sync_removal"))
        /\ IF present = {} THEN UNCHANGED files
           ELSE Unsynced([dir EXCEPT !.records = dir.records \ present])
        /\ UNCHANGED <<inst, result>>

\* The new record, as it is before and after its file is synchronised.
NewRecord(m, synced) ==
    [id |-> m.metadata.id, name |-> m.name, authority |-> m.metadata.authority, synced |-> synced]

WriteRecord(p) ==
    /\ Does(p, "write_record", Then(p, "sync_record"))
    /\ Unsynced([dir EXCEPT !.records = dir.records \cup {NewRecord(mutation[p], FALSE)}])
    /\ UNCHANGED <<inst, result>>

SyncRecord(p) ==
    LET m == mutation[p]
    IN  /\ Does(p, "sync_record", Then(p, "sync_directory"))
        /\ dir' = [dir EXCEPT !.records =
                     (dir.records \ {NewRecord(m, FALSE)}) \cup {NewRecord(m, TRUE)}]
        /\ survivors' = (survivors \ {dir}) \cup {dir'}
        /\ UNCHANGED <<inst, result>>

\* SyncFile(directory_fd), of a removal, of a record and of a rename.
SyncRemoval(p) ==
    /\ Does(p, "sync_removal", Then(p, "encode"))
    /\ survivors' = {dir}
    /\ UNCHANGED <<dir, inst, result>>

SyncDir(p) ==
    /\ Does(p, "sync_directory", Advance(p))
    /\ survivors' = {dir}
    /\ UNCHANGED <<dir, inst, result>>

ReturnStep(p) ==
    /\ Does(p, "return", NoMutation)
    /\ result' = "ok"
    /\ UNCHANGED <<files, inst>>

\* A call fails: ThrowStorageFailure, swallowed once the mutation is committed.
Fails(p) ==
    /\ mutation[p].call \notin {"none", "encode", "return"}
    /\ faults < MaxFaults
    /\ faults' = faults + 1
    /\ Abandon(p)
    /\ UNCHANGED <<files, lock, inst, ids>>

\* The power is lost: every process dies and one surviving directory is left.
PowerLoss ==
    /\ faults < MaxFaults
    /\ faults' = faults + 1
    /\ dir' \in survivors
    /\ survivors' = {dir'}
    /\ lock' = None
    /\ inst' = [p \in Instances |-> Closed]
    /\ mutation' = [p \in Instances |-> NoMutation]
    /\ result' = "none"
    /\ UNCHANGED ids

--------------------------------------------------------------------------------

Init ==
    /\ dir = [index |-> None, pending |-> None, records |-> {}]
    /\ survivors = {dir}
    /\ lock = None
    /\ inst = [p \in Instances |-> Closed]
    /\ mutation = [p \in Instances |-> NoMutation]
    /\ result = "none"
    /\ ids = 0
    /\ faults = 0

Mutation(p) ==
    \/ \E n \in Names, on_conflict \in {"ERROR", "IGNORE", "REPLACE", "ALTER"} :
          StorePersistent(p, n, on_conflict)
    \/ \E n \in Names : DropPersistent(p, n)

Step(p) ==
    \/ Encode(p) \/ UnlinkPending(p) \/ WritePending(p) \/ SyncPending(p)
    \/ RenameIndex(p) \/ RemoveRecord(p) \/ WriteRecord(p) \/ SyncRecord(p)
    \/ SyncRemoval(p) \/ SyncDir(p) \/ ReturnStep(p)

Next ==
    \/ \E p \in Instances : EnsureOpen(p) \/ Mutation(p) \/ Step(p) \/ Fails(p) \/ Shutdown(p)
    \/ PowerLoss

Spec == Init /\ [][Next]_vars

--------------------------------------------------------------------------------
(* Properties.                                                              *)

\* Whatever a loss of power leaves, the index decodes and every name it
\* selects has the whole record its metadata describes (PublishIndex,
\* WriteRecord and RemoveRecordIfPresent order their calls for this).
SelectedReadable ==
    \A d \in survivors \cup {dir} :
        /\ Decodable(d.index)
        /\ \A n \in Live(EntriesOf(d.index)) : RecordFor(d, n, EntriesOf(d.index)[n])

\* A record file that no name selects is named by the index's cleanup intent,
\* in every directory a loss of power may leave: no credential payload is left
\* behind for good (cleanup_id in EncodeIndex and CleanPriorIntent).
NoOrphanRecord ==
    \A d \in survivors \cup {dir} : \A r \in d.records :
        \/ r.id = CleanupOf(d.index)
        \/ \E n \in Live(EntriesOf(d.index)) : EntriesOf(d.index)[n].id = r.id

\* At every moment the open instance selects what a restart would: its entries
\* and cleanup intent are those of the index file, also after a failure past
\* the rename (the swap that follows renameat in PublishIndex), and no other
\* instance is open.
LiveMatchesRestart ==
    \A p \in Instances : inst[p].opened =>
        /\ lock = p
        /\ inst[p].entries = EntriesOf(dir.index)
        /\ inst[p].cleanup_id = CleanupOf(dir.index)

\* The files implement the abstract store: a mutation changes the selection of
\* one name in one step, an acknowledged one cannot be taken back by a loss of
\* power, and a loss of power restores a selection held since the last
\* synchronisation (StorePersistent, DropPersistent, PublishIndex).
Selection(d) ==
    [n \in Names |-> LET m == EntriesOf(d.index)[n] IN IF m = None THEN None ELSE m.id]

Store == INSTANCE CredentialStore WITH
    NoRevision <- None,
    selected <- Selection(dir),
    survivors <- {Selection(d) : d \in survivors},
    answer <- result

ImplementsStore == Store!Spec

\* Replacing a name's credential keeps its authority: an index that selects
\* another record for a name that had one has the authority it had
\* (StorePersistent: `replacing ? found->second.authority`).
ReplacementKeepsAuthority ==
    [][\A n \in Names :
          LET before == EntriesOf(dir.index)[n]
              after == EntriesOf(dir'.index)[n]
          IN  before # None /\ after # None => after.authority = before.authority]_vars
================================================================================
