----------------------- MODULE CredentialStorageProofs -----------------------
(***************************************************************************)
(* Proofs about the persistent credential storage and the resolution of a  *)
(* credential name, for any sets of instances and names and any bounds.    *)
(***************************************************************************)
EXTENDS CredentialProvider, TLAPS

--------------------------------------------------------------------------------
(* The inductive invariant.                                                 *)

RecordFiles == [id : Nat, name : Names, authority : Nat, synced : BOOLEAN]

Directories ==
    [index : IndexFiles \cup {None}, pending : IndexFiles \cup {None},
     records : SUBSET RecordFiles]

Impls == [opened : BOOLEAN, entries : Entries, cleanup_id : Nat \cup {None}]

Stages == {"none", "clean", "intend", "record", "select", "settle", "return"}

PublishCalls ==
    {"encode", "unlink_pending", "write_pending", "sync_pending", "rename", "sync_directory"}

RemovalCalls == {"remove_record", "sync_removal"}

RecordCalls == {"write_record", "sync_record", "sync_directory"}

Calls == {"none", "return"} \cup PublishCalls \cup RemovalCalls \cup RecordCalls

Mutations ==
    [stage : Stages, call : Calls, name : Names \cup {None},
     metadata : Metadata \cup {None}, retired : Nat \cup {None}]

StorageTypes ==
    /\ dir \in survivors /\ survivors \subseteq Directories
    /\ inst \in [Instances -> Impls]
    /\ mutation \in [Instances -> Mutations]
    /\ ids \in Nat

\* A directory from which the storage can be opened: the index is whole, every
\* name it selects has its record, every record is selected or to be cleaned
\* up and no record is both, two names never share a record, and no id is past
\* the last one created.
Sound(d, last) ==
    LET entries == EntriesOf(d.index)
    IN  /\ Decodable(d.index)
        /\ \A n \in Live(entries) :
              /\ RecordFor(d, n, entries[n])
              /\ entries[n].id # CleanupOf(d.index)
              /\ entries[n].id <= last
              /\ \A m \in Live(entries) : entries[m].id = entries[n].id => m = n
        /\ \A r \in d.records :
              \/ r.id = CleanupOf(d.index)
              \/ \E n \in Live(entries) : entries[n].id = r.id

\* The call belongs to the stage, and only a store has an intent and a record.
Placed(m) ==
    /\ m.stage = "none" => m.call = "none"
    /\ m.stage \in {"clean", "settle"} => m.call \in RemovalCalls \cup PublishCalls
    /\ m.stage \in {"intend", "select"} => m.call \in PublishCalls
    /\ m.stage = "record" => m.call \in RecordCalls
    /\ m.stage = "return" => m.call = "return"
    /\ m.stage \in {"intend", "record"} => m.metadata # None
    /\ m.stage # "none" => m.name \in Names

\* The selection of the mutation is not in the index yet.
Unselected(m) ==
    \/ m.stage \in {"clean", "intend", "record"}
    \/ m.stage = "select" /\ m.call # "sync_directory"

\* The pending index is the encoded one once it is written, and whole when it
\* is renamed.
Prepared(m, i, d) ==
    /\ m.call \in {"unlink_pending", "write_pending", "sync_pending", "rename"} =>
          EncodeIndex(NextIndex(m, i))
    /\ m.call = "sync_pending" => d.pending = NextIndex(m, i)
    /\ m.call = "rename" => d.pending = [NextIndex(m, i) EXCEPT !.synced = TRUE]

\* The cleanup intent at each stage: none once a prior one is cleaned, then the
\* new record, until it is selected.
Intended(m, i) ==
    /\ m.stage = "clean" /\ m.call = "sync_directory" => i.cleanup_id = None
    /\ m.stage = "intend" /\ m.call # "sync_directory" => i.cleanup_id = None
    /\ m.stage = "intend" /\ m.call = "sync_directory" => i.cleanup_id = m.metadata.id
    /\ m.stage = "record" => i.cleanup_id = m.metadata.id
    /\ m.stage = "select" /\ m.call # "sync_directory" =>
          i.cleanup_id = IF m.metadata = None THEN None ELSE m.metadata.id

\* The record retired is the one that the name selects, or nothing that the
\* index can be encoded with.
Retires(m, i) ==
    Unselected(m) =>
        LET found == i.entries[m.name]
        IN  IF found = None THEN m.metadata # None /\ m.retired = None
            ELSE \/ m.retired \in {found.id, Garbage}
                 \/ m.metadata # None /\ m.retired = m.metadata.id

\* A removal is over when the index that forgets the record is published.
Removed(m, i, d) ==
    m.stage \in {"clean", "settle"} /\ m.call # "remove_record" =>
        \A r \in d.records : r.id # i.cleanup_id

\* A new record is whole before it is selected.
Recorded(m, d) ==
    \/ m.stage = "record" /\ m.call = "sync_directory"
    \/ m.stage = "select" /\ m.call # "sync_directory" /\ m.metadata # None
    => NewRecord(m, TRUE) \in d.records

\* No surviving index selects the new record before the mutation does.
Unused(m, directories) ==
    Unselected(m) /\ m.metadata # None =>
        \A d \in directories : \A n \in Live(EntriesOf(d.index)) :
            EntriesOf(d.index)[n].id # m.metadata.id

\* Past the commit, every survivor selects what the directory does.
Durable(m, d, directories) ==
    m.stage \in {"settle", "return"} =>
        \A e \in directories : EntriesOf(e.index) = EntriesOf(d.index)

\* The new record's id is the last one created.
Latest(m, last) == m.metadata # None => m.metadata.id <= last

Working(m, i, d, directories, last) ==
    m.stage # "none" =>
        /\ i.opened
        /\ Prepared(m, i, d)
        /\ Intended(m, i)
        /\ Retires(m, i)
        /\ Removed(m, i, d)
        /\ Recorded(m, d)
        /\ Unused(m, directories)
        /\ Durable(m, d, directories)
        /\ Latest(m, last)

StorageInv ==
    /\ StorageTypes
    /\ \A d \in survivors : Sound(d, ids)
    /\ LiveMatchesRestart
    /\ \A p \in Instances :
          Placed(mutation[p]) /\ Working(mutation[p], inst[p], dir, survivors, ids)

--------------------------------------------------------------------------------
(* Directories.                                                             *)

\* What the index of a typed directory holds.
LEMMA IndexTypes ==
    ASSUME NEW d \in Directories
    PROVE  /\ EntriesOf(d.index) \in Entries
           /\ CleanupOf(d.index) \in Nat \cup {None}
           /\ \A n \in Live(EntriesOf(d.index)) :
                 n \in Names /\ EntriesOf(d.index)[n] \in Metadata
                 /\ EntriesOf(d.index)[n].id \in Nat
  BY CredentialAssumption
     DEF Directories, IndexFiles, Entries, EntriesOf, CleanupOf, NoEntries, Live, Metadata

\* The pending file is not part of what makes a directory sound.
LEMMA SoundPending ==
    ASSUME NEW d, NEW e, NEW last,
           e.index = d.index, e.records = d.records, Sound(d, last)
    PROVE  Sound(e, last)
  BY DEF Sound, RecordFor

\* An id created later leaves a sound directory sound.
LEMMA SoundLater ==
    ASSUME NEW d \in Directories, NEW last \in Nat, Sound(d, last)
    PROVE  Sound(d, last + 1)
  BY IndexTypes DEF Sound

\* RemoveRecordIfPresent: the record of the cleanup intent is not selected.
LEMMA SoundRemove ==
    ASSUME NEW d, NEW e, NEW last,
           e.index = d.index,
           e.records = d.records \ {r \in d.records : r.id = CleanupOf(d.index)},
           Sound(d, last)
    PROVE  Sound(e, last)
  BY DEF Sound, RecordFor

\* WriteRecord: the intent names the record before it is written.
LEMMA SoundWrite ==
    ASSUME NEW d, NEW e, NEW last, NEW r,
           e.index = d.index, e.records = d.records \cup {r},
           r.id = CleanupOf(d.index), Sound(d, last)
    PROVE  Sound(e, last)
  BY DEF Sound, RecordFor

\* Synchronising a record that the cleanup intent names leaves a directory
\* sound.
LEMMA SoundSync ==
    ASSUME NEW d, NEW e, NEW last, NEW r, NEW s,
           e.index = d.index, e.records = (d.records \ {r}) \cup {s},
           ~r.synced, s.id = CleanupOf(d.index), Sound(d, last)
    PROVE  Sound(e, last)
  BY DEF Sound, RecordFor

\* An index with the same selection forgets an intent that has no record left.
LEMMA SoundRepublish ==
    ASSUME NEW d \in Directories, NEW e, NEW last,
           e.index \in IndexFiles, e.index.synced, e.records = d.records,
           e.index.entries = EntriesOf(d.index),
           EncodeIndex(e.index),
           \A r \in d.records : r.id # CleanupOf(d.index),
           Sound(d, last)
    PROVE  Sound(e, last)
  <1>1. e.index # None
    BY CredentialAssumption
  <1>2. EntriesOf(e.index) = EntriesOf(d.index) /\ CleanupOf(e.index) = e.index.cleanup_id
    BY <1>1 DEF EntriesOf, CleanupOf
  <1>3. \A n \in Live(EntriesOf(e.index)) : EntriesOf(e.index)[n].id # CleanupOf(e.index)
    BY <1>1, <1>2 DEF EncodeIndex, EntriesOf
  <1>4. Decodable(e.index)
    BY DEF Decodable
  <1>. QED
    BY <1>2, <1>3, <1>4 DEF Sound, RecordFor

\* The index that selects or drops a name: the intent of the new record becomes
\* its selection, and the record that was selected becomes the intent.
LEMMA SoundSelect ==
    ASSUME NEW d \in Directories, NEW e, NEW last, NEW n \in Names,
           NEW metadata \in Metadata \cup {None}, NEW retired,
           e.index \in IndexFiles, e.index.synced, e.records = d.records,
           e.index.entries = [EntriesOf(d.index) EXCEPT ![n] = metadata],
           e.index.cleanup_id = retired,
           EncodeIndex(e.index),
           CleanupOf(d.index) = (IF metadata = None THEN None ELSE metadata.id),
           metadata # None => RecordFor(d, n, metadata) /\ metadata.id <= last,
           IF EntriesOf(d.index)[n] = None THEN metadata # None /\ retired = None
           ELSE \/ retired \in {EntriesOf(d.index)[n].id, Garbage}
                \/ metadata # None /\ retired = metadata.id,
           Sound(d, last)
    PROVE  Sound(e, last)
  <1> DEFINE old == EntriesOf(d.index)
             new == EntriesOf(e.index)
  <1>1. e.index # None
    BY CredentialAssumption
  <1>2. new = [old EXCEPT ![n] = metadata] /\ CleanupOf(e.index) = retired
    BY <1>1 DEF EntriesOf, CleanupOf
  <1>3. old \in Entries
    BY IndexTypes
  <1>4. new[n] = metadata /\ \A m \in Names \ {n} : new[m] = old[m]
    BY <1>2, <1>3 DEF Entries
  <1>5. Decodable(e.index)
    BY DEF Decodable
  <1>6. /\ \A m \in Live(new) : new[m].id # retired
        /\ \A m, k \in Live(new) : new[k].id = new[m].id => k = m
        /\ retired \in Ids \cup {None}
    BY <1>1, <1>2 DEF EncodeIndex
  <1>7. ASSUME NEW m \in Live(new)
        PROVE  RecordFor(e, m, new[m]) /\ new[m].id <= last
    <2>1. CASE m = n
      BY <2>1, <1>4 DEF RecordFor, Live
    <2>2. CASE m # n
      BY <2>2, <1>4 DEF RecordFor, Live, Sound
    <2>. QED BY <2>1, <2>2
  <1>8. old[n] # None => retired = old[n].id
    <2>1. retired # Garbage \/ old[n] = None
      BY <1>6, CredentialAssumption DEF Garbage, Ids
    <2>2. metadata # None => retired # metadata.id
      BY <1>4, <1>6 DEF Live
    <2>. QED BY <2>1, <2>2
  <1>9. ASSUME NEW r \in d.records
        PROVE  r.id = retired \/ \E m \in Live(new) : new[m].id = r.id
    <2>1. CASE r.id = CleanupOf(d.index) /\ metadata # None
      BY <2>1, <1>4 DEF Live
    <2>2. CASE r.id = CleanupOf(d.index) /\ metadata = None
      BY <2>2, CredentialAssumption DEF Directories, RecordFiles
    <2>3. ASSUME NEW m \in Live(old), old[m].id = r.id
          PROVE  r.id = retired \/ \E k \in Live(new) : new[k].id = r.id
      BY <2>3, <1>4, <1>8 DEF Live
    <2>. QED BY <2>1, <2>2, <2>3 DEF Sound
  <1>. QED
    BY <1>2, <1>5, <1>6, <1>7, <1>9, Zenon DEF Sound

--------------------------------------------------------------------------------
(* Steps.                                                                   *)

\* One instance has the storage open, so at most one mutation runs.
LEMMA OneOpen ==
    ASSUME StorageInv, NEW p \in Instances, NEW q \in Instances,
           inst[p].opened, inst[q].opened
    PROVE  p = q
  BY DEF StorageInv, LiveMatchesRestart

\* While one instance has the storage open, the lock keeps the others closed.
LEMMA OthersRest ==
    ASSUME StorageInv, NEW p \in Instances, NEW q \in Instances,
           inst[p].opened, q # p
    PROVE  ~inst[q].opened /\ mutation[q].stage = "none"
  <1>1. ~inst[q].opened
    BY OneOpen
  <1>. QED
    BY <1>1 DEF StorageInv, Working

\* What a step of p's mutation has to establish.
Steps(p) ==
    /\ lock' = lock /\ ids' \in Nat
    /\ mutation' \in [Instances -> Mutations]
    /\ inst' \in [Instances -> Impls]
    /\ \A q \in Instances \ {p} : mutation'[q] = mutation[q] /\ inst'[q] = inst[q]
    /\ inst'[p].opened
    /\ inst'[p].entries = EntriesOf(dir'.index)
    /\ inst'[p].cleanup_id = CleanupOf(dir'.index)
    /\ dir' \in survivors' /\ survivors' \subseteq Directories
    /\ \A d \in survivors' : Sound(d, ids')
    /\ Placed(mutation'[p])
    /\ Working(mutation'[p], inst'[p], dir', survivors', ids')

\* A step of one mutation that establishes what Steps asks keeps the
\* invariant.
LEMMA StepsKeepInv ==
    ASSUME StorageInv, NEW p \in Instances, inst[p].opened, Steps(p)
    PROVE  StorageInv'
  <1>1. StorageTypes'
    BY DEF Steps, StorageInv, StorageTypes
  <1>2. (\A d \in survivors : Sound(d, ids))'
    BY DEF Steps
  <1>3. ASSUME NEW q \in Instances, q # p
        PROVE  /\ mutation'[q] = mutation[q] /\ inst'[q] = inst[q]
               /\ ~inst[q].opened /\ mutation[q].stage = "none"
    BY <1>3, OthersRest DEF Steps
  <1>4. LiveMatchesRestart'
    <2> SUFFICES ASSUME NEW q \in Instances, inst'[q].opened
                 PROVE  /\ lock' = q
                        /\ inst'[q].entries = EntriesOf(dir'.index)
                        /\ inst'[q].cleanup_id = CleanupOf(dir'.index)
      BY DEF LiveMatchesRestart
    <2>1. q = p
      BY <1>3
    <2>2. lock = p
      BY DEF StorageInv, LiveMatchesRestart
    <2>. QED BY <2>1, <2>2 DEF Steps
  <1>5. ASSUME NEW q \in Instances
        PROVE  Placed(mutation'[q]) /\ Working(mutation'[q], inst'[q], dir', survivors', ids')
    <2>1. CASE q = p
      BY <2>1 DEF Steps
    <2>2. CASE q # p
      BY <2>2, <1>3 DEF StorageInv, Working
    <2>. QED BY <2>1, <2>2
  <1>. QED
    BY <1>1, <1>2, <1>4, <1>5 DEF StorageInv

\* What is known of the instance whose mutation makes a call.
Known(p) ==
    /\ mutation[p].stage # "none" /\ mutation[p].name \in Names
    /\ mutation[p] \in Mutations /\ inst[p] \in Impls
    /\ inst[p].opened /\ lock = p
    /\ inst[p].entries = EntriesOf(dir.index)
    /\ inst[p].cleanup_id = CleanupOf(dir.index)
    /\ dir \in survivors /\ dir \in Directories /\ survivors \subseteq Directories
    /\ ids \in Nat
    /\ Placed(mutation[p])
    /\ Working(mutation[p], inst[p], dir, survivors, ids)
    /\ \A d \in survivors : Sound(d, ids)

\* What is known of an instance in the middle of a mutation.
LEMMA Running ==
    ASSUME StorageInv, NEW p \in Instances, mutation[p].call # "none"
    PROVE  Known(p)
  <1>1. mutation[p].stage # "none" /\ mutation[p].name \in Names
    BY DEF StorageInv, Placed
  <1>2. inst[p].opened
    BY <1>1 DEF StorageInv, Working
  <1>. QED
    BY <1>1, <1>2 DEF Known, StorageInv, StorageTypes, LiveMatchesRestart

\* What a call that goes on to another of the same stage does to the mutation.
Moved(p, call) ==
    /\ mutation' \in [Instances -> Mutations]
    /\ \A q \in Instances \ {p} : mutation'[q] = mutation[q]
    /\ mutation'[p].call = call
    /\ mutation'[p].stage = mutation[p].stage
    /\ mutation'[p].name = mutation[p].name
    /\ mutation'[p].metadata = mutation[p].metadata
    /\ mutation'[p].retired = mutation[p].retired
    /\ lock' = lock /\ ids' = ids

\* Going on to the next call of a stage changes nothing else of the mutation.
LEMMA ThenCall ==
    ASSUME StorageInv, NEW p \in Instances, NEW name, NEW call \in Calls,
           Does(p, name, Then(p, call))
    PROVE  Moved(p, call)
  <1>1. mutation[p] \in Mutations /\ mutation \in [Instances -> Mutations]
    BY DEF StorageInv, StorageTypes
  <1>2. Then(p, call) \in Mutations
    BY <1>1 DEF Then, Mutations
  <1>3. mutation' = [mutation EXCEPT ![p] = Then(p, call)] /\ lock' = lock /\ ids' = ids
    BY DEF Does
  <1>4. mutation'[p] = Then(p, call)
    BY <1>1, <1>3
  <1>. QED
    BY <1>1, <1>2, <1>3, <1>4 DEF Moved, Then, Mutations

\* The files after a call inside a stage: the index is not touched.
Filed ==
    /\ dir'.index = dir.index
    /\ dir' \in survivors' /\ survivors' \subseteq Directories
    /\ \A d \in survivors' : Sound(d, ids)
    /\ \A d \in survivors' : \E e \in survivors : d.index = e.index

\* What such a call makes of the facts about the stage it belongs to.
LEMMA InsideStep ==
    ASSUME StorageInv, NEW p \in Instances, NEW call \in Calls,
           mutation[p].call # "none", mutation[p].call # "sync_directory",
           Moved(p, call), Filed, inst' = inst,
           call = "sync_directory" => mutation[p].stage = "record",
           Placed(mutation'[p]),
           Prepared(mutation'[p], inst[p], dir'),
           Removed(mutation'[p], inst[p], dir'),
           Recorded(mutation'[p], dir')
    PROVE  StorageInv'
  <1>1. Known(p)
    BY Running
  <1>2. Unselected(mutation'[p]) => Unselected(mutation[p])
    BY DEF Unselected, Moved
  <1>3. Intended(mutation'[p], inst[p])
    BY <1>1, Zenon DEF Known, Working, Intended, Moved
  <1>4. Retires(mutation'[p], inst[p])
    BY <1>1, <1>2, Zenon DEF Known, Working, Retires, Moved
  <1>5. Unused(mutation'[p], survivors')
    <2>1. /\ mutation'[p].metadata = mutation[p].metadata
          /\ \A d \in survivors' : \E e \in survivors : d.index = e.index
      BY Zenon DEF Moved, Filed
    <2>2. Unused(mutation[p], survivors)
      BY <1>1, Zenon DEF Known, Working
    <2>. QED
      BY <1>2, <2>1, <2>2 DEF Unused
  <1>6. Durable(mutation'[p], dir', survivors')
    <2>1. /\ mutation'[p].stage = mutation[p].stage /\ dir'.index = dir.index
          /\ \A d \in survivors' : \E e \in survivors : d.index = e.index
      BY Zenon DEF Moved, Filed
    <2>2. Durable(mutation[p], dir, survivors)
      BY <1>1, Zenon DEF Known, Working
    <2>. QED
      BY <2>1, <2>2 DEF Durable
  <1>7. Latest(mutation'[p], ids)
    BY <1>1, Zenon DEF Known, Working, Latest, Moved
  <1>8. Working(mutation'[p], inst[p], dir', survivors', ids)
    BY <1>1, <1>3, <1>4, <1>5, <1>6, <1>7, Zenon DEF Known, Working
  <1>9. Steps(p)
    BY <1>1, <1>8 DEF Steps, Known, Moved, Filed, StorageInv, StorageTypes
  <1>. QED
    BY <1>1, <1>9, StepsKeepInv DEF Known

\* The index to be published is one that can be stored.
LEMMA NextIndexTypes ==
    ASSUME NEW p \in Instances, Known(p)
    PROVE  NextIndex(mutation[p], inst[p]) \in IndexFiles
  <1> DEFINE m == mutation[p]
             i == inst[p]
             entries == IF m.stage = "select" THEN [i.entries EXCEPT ![m.name] = m.metadata]
                        ELSE i.entries
             cleanup == CASE m.stage = "intend" -> m.metadata.id
                          [] m.stage = "select" -> m.retired
                          [] OTHER -> None
  <1>1. /\ i.entries \in Entries /\ m.name \in Names
        /\ m.metadata \in Metadata \cup {None} /\ m.retired \in Nat \cup {None}
        /\ m.stage = "intend" => m.metadata # None
    BY DEF Known, Impls, Mutations, Placed
  <1>2. entries \in Entries
    BY <1>1 DEF Entries
  <1>3. cleanup \in Nat \cup {None}
    BY <1>1 DEF Metadata
  <1>4. NextIndex(m, i) = [entries |-> entries, cleanup_id |-> cleanup, synced |-> FALSE]
    BY DEF NextIndex
  <1> HIDE DEF entries, cleanup
  <1>. QED
    BY <1>2, <1>3, <1>4 DEF IndexFiles

\* The index to be published is the same all through a stage.
LEMMA SameIndex ==
    ASSUME NEW p \in Instances, NEW call, Moved(p, call)
    PROVE  NextIndex(mutation'[p], inst[p]) = NextIndex(mutation[p], inst[p])
  BY DEF NextIndex, Moved

\* A directory operation that leaves the index alone.
LEMMA UnsyncedFiled ==
    ASSUME StorageInv, NEW e \in Directories, Unsynced(e), e.index = dir.index, Sound(e, ids)
    PROVE  Filed /\ dir' = e
  BY DEF Filed, Unsynced, StorageInv, StorageTypes

\* SyncFile of the file that the last directory operation created.
LEMMA SyncedFiled ==
    ASSUME StorageInv, NEW e \in Directories, dir' = e, e.index = dir.index, Sound(e, ids),
           survivors' = (survivors \ {dir}) \cup {e}
    PROVE  Filed
  BY DEF Filed, StorageInv, StorageTypes

\* A step that touches no file leaves the survivors sound.
LEMMA UnchangedFiled ==
    ASSUME StorageInv, dir' = dir, survivors' = survivors
    PROVE  Filed
  BY DEF Filed, StorageInv, StorageTypes

--------------------------------------------------------------------------------
(* One lemma per call of a mutation.                                        *)

\* PublishIndex: the index is encoded, or the mutation is abandoned.
LEMMA EncodeStep ==
    ASSUME StorageInv, NEW p \in Instances, Encode(p),
           EncodeIndex(NextIndex(mutation[p], inst[p]))
    PROVE  StorageInv'
  <1>1. /\ mutation[p].call = "encode" /\ Does(p, "encode", Then(p, "unlink_pending"))
        /\ inst' = inst /\ dir' = dir /\ survivors' = survivors
    BY DEF Encode, files
  <1>2. "unlink_pending" \in Calls
    BY DEF Calls, PublishCalls
  <1>3. Moved(p, "unlink_pending")
    BY <1>1, <1>2, ThenCall, Zenon
  <1>4. Known(p) /\ Filed
    BY <1>1, Running, UnchangedFiled
  <1>5. Placed(mutation'[p])
    BY <1>1, <1>3, <1>4, Zenon DEF Known, Moved, Placed, PublishCalls, RecordCalls
  <1>6. Prepared(mutation'[p], inst[p], dir')
    BY <1>3, SameIndex DEF Prepared, Moved
  <1>7. Removed(mutation'[p], inst[p], dir') /\ Recorded(mutation'[p], dir')
    BY <1>1, <1>3, <1>4, Zenon DEF Known, Working, Moved, Removed, Recorded, NewRecord
  <1>. QED
    BY <1>1, <1>2, <1>3, <1>4, <1>5, <1>6, <1>7, InsideStep, Zenon

\* PublishIndex removes a pending index left by an earlier failure.
LEMMA UnlinkPendingStep ==
    ASSUME StorageInv, NEW p \in Instances, UnlinkPending(p)
    PROVE  StorageInv'
  <1> DEFINE e == [dir EXCEPT !.pending = None]
  <1>1. /\ mutation[p].call = "unlink_pending"
        /\ Does(p, "unlink_pending", Then(p, "write_pending")) /\ inst' = inst
    BY DEF UnlinkPending, Does
  <1>2. "write_pending" \in Calls
    BY DEF Calls, PublishCalls
  <1>3. Moved(p, "write_pending")
    BY <1>1, <1>2, ThenCall, Zenon
  <1>4. Known(p)
    BY <1>1, Running
  <1>5. e \in Directories /\ e.index = dir.index /\ e.records = dir.records
    BY <1>4 DEF Known, Directories
  <1>6. Sound(e, ids)
    BY <1>4, <1>5, SoundPending, Zenon DEF Known
  <1>7. Filed /\ dir'.records = dir.records
    <2>1. CASE dir.pending = None
      BY <2>1, UnchangedFiled DEF UnlinkPending, files
    <2>2. CASE dir.pending # None
      BY <2>2, <1>5, <1>6, UnsyncedFiled, Zenon DEF UnlinkPending
    <2>. QED BY <2>1, <2>2
  <1>8. Placed(mutation'[p])
    BY <1>1, <1>3, <1>4, Zenon DEF Known, Moved, Placed, PublishCalls, RecordCalls
  <1>9. Prepared(mutation'[p], inst[p], dir')
    BY <1>1, <1>3, <1>4, SameIndex DEF Prepared, Moved, Known, Working
  <1>10. Removed(mutation'[p], inst[p], dir') /\ Recorded(mutation'[p], dir')
    BY <1>1, <1>3, <1>4, <1>7, Zenon DEF Known, Working, Moved, Removed, Recorded, NewRecord
  <1>. QED
    BY <1>1, <1>2, <1>3, <1>7, <1>8, <1>9, <1>10, InsideStep, Zenon

\* PublishIndex writes the encoded index to the pending file.
LEMMA WritePendingStep ==
    ASSUME StorageInv, NEW p \in Instances, WritePending(p)
    PROVE  StorageInv'
  <1> DEFINE e == [dir EXCEPT !.pending = NextIndex(mutation[p], inst[p])]
  <1>1. /\ mutation[p].call = "write_pending" /\ Unsynced(e)
        /\ Does(p, "write_pending", Then(p, "sync_pending")) /\ inst' = inst
    BY DEF WritePending, Does
  <1>2. "sync_pending" \in Calls
    BY DEF Calls, PublishCalls
  <1>3. Moved(p, "sync_pending")
    BY <1>1, <1>2, ThenCall, Zenon
  <1>4. Known(p)
    BY <1>1, Running
  <1>5. NextIndex(mutation[p], inst[p]) \in IndexFiles
    BY <1>4, NextIndexTypes
  <1>6. /\ e \in Directories /\ e.index = dir.index /\ e.records = dir.records
        /\ e.pending = NextIndex(mutation[p], inst[p])
    BY <1>4, <1>5 DEF Known, Directories
  <1>7. Sound(e, ids)
    BY <1>4, <1>6, SoundPending, Zenon DEF Known
  <1>8. Filed /\ dir' = e
    BY <1>1, <1>6, <1>7, UnsyncedFiled, Zenon
  <1>9. Placed(mutation'[p])
    BY <1>1, <1>3, <1>4 DEF Known, Moved, Placed, PublishCalls, RemovalCalls, RecordCalls
  <1>10. Prepared(mutation'[p], inst[p], dir')
    BY <1>1, <1>3, <1>4, <1>6, <1>8, SameIndex DEF Prepared, Moved, Known, Working
  <1>11. Removed(mutation'[p], inst[p], dir') /\ Recorded(mutation'[p], dir')
    BY <1>1, <1>3, <1>4, <1>6, <1>8
       DEF Known, Working, Moved, Removed, Recorded, RemovalCalls, NewRecord
  <1>. QED
    BY <1>1, <1>2, <1>3, <1>8, <1>9, <1>10, <1>11, InsideStep, Zenon

\* PublishIndex synchronises the pending file before it is renamed.
LEMMA SyncPendingStep ==
    ASSUME StorageInv, NEW p \in Instances, SyncPending(p)
    PROVE  StorageInv'
  <1> DEFINE whole == [NextIndex(mutation[p], inst[p]) EXCEPT !.synced = TRUE]
             e == [dir EXCEPT !.pending = whole]
  <1>1. /\ mutation[p].call = "sync_pending"
        /\ Does(p, "sync_pending", Then(p, "rename")) /\ inst' = inst
        /\ dir' = [dir EXCEPT !.pending = [dir.pending EXCEPT !.synced = TRUE]]
        /\ survivors' = (survivors \ {dir}) \cup {dir'}
    BY DEF SyncPending, Does
  <1>2. "rename" \in Calls
    BY DEF Calls, PublishCalls
  <1>3. Moved(p, "rename")
    BY <1>1, <1>2, ThenCall, Zenon
  <1>4. Known(p)
    BY <1>1, Running
  <1>5. dir.pending = NextIndex(mutation[p], inst[p])
    BY <1>1, <1>4 DEF Known, Working, Prepared
  <1>6. dir' = e /\ survivors' = (survivors \ {dir}) \cup {e}
    BY <1>1, <1>5
  <1>7. NextIndex(mutation[p], inst[p]) \in IndexFiles
    BY <1>4, NextIndexTypes
  <1>8. whole \in IndexFiles
    BY <1>7, Zenon DEF IndexFiles
  <1>9. e \in Directories /\ e.index = dir.index /\ e.records = dir.records /\ e.pending = whole
    BY <1>4, <1>8, Zenon DEF Known, Directories
  <1>10. Sound(e, ids)
    BY <1>4, <1>9, SoundPending, Zenon DEF Known
  <1>11. Filed
    BY <1>6, <1>9, <1>10, SyncedFiled, Zenon
  <1>12. Placed(mutation'[p])
    BY <1>1, <1>3, <1>4 DEF Known, Moved, Placed, PublishCalls, RemovalCalls, RecordCalls
  <1>13. Prepared(mutation'[p], inst[p], dir')
    BY <1>1, <1>3, <1>4, <1>6, <1>9, SameIndex, Zenon DEF Prepared, Moved, Known, Working
  <1>14. Removed(mutation'[p], inst[p], dir') /\ Recorded(mutation'[p], dir')
    BY <1>1, <1>3, <1>4, <1>6, <1>9 DEF Known, Working, Moved, Removed, Recorded, NewRecord
  <1>. QED
    BY <1>1, <1>2, <1>3, <1>11, <1>12, <1>13, <1>14, InsideStep, Zenon

\* RemoveRecordIfPresent.
LEMMA RemoveRecordStep ==
    ASSUME StorageInv, NEW p \in Instances, RemoveRecord(p)
    PROVE  StorageInv'
  <1> DEFINE present == {r \in dir.records : r.id = inst[p].cleanup_id}
             call == IF present = {} THEN "encode" ELSE "sync_removal"
             e == [dir EXCEPT !.records = dir.records \ present]
  <1>1. /\ mutation[p].call = "remove_record"
        /\ Does(p, "remove_record", Then(p, call)) /\ inst' = inst
        /\ IF present = {} THEN UNCHANGED files ELSE Unsynced(e)
    BY DEF RemoveRecord, Does
  <1>2. Known(p)
    BY <1>1, Running
  <1>3. e \in Directories /\ e.index = dir.index /\ e.records = dir.records \ present
    BY <1>2 DEF Known, Directories
  <1>4. present = {r \in dir.records : r.id = CleanupOf(dir.index)}
    BY <1>2 DEF Known
  <1>5. Sound(e, ids)
    BY <1>2, <1>3, <1>4, SoundRemove, Zenon DEF Known
  <1>6. Filed /\ dir'.records = dir.records \ present
    <2>1. CASE present = {}
      BY <2>1, <1>1, UnchangedFiled DEF files
    <2>2. CASE present # {}
      BY <2>2, <1>1, <1>3, <1>5, UnsyncedFiled, Zenon
    <2>. QED BY <2>1, <2>2
  <1>7. ASSUME NEW next \in {"encode", "sync_removal"}, next = call
        PROVE  StorageInv'
    <2>1. next \in Calls
      BY DEF Calls, PublishCalls, RemovalCalls
    <2>2. Moved(p, next)
      BY <1>1, <1>7, <2>1, ThenCall, Zenon
    <2>3. Placed(mutation'[p])
      BY <1>1, <1>2, <2>2 DEF Known, Moved, Placed, PublishCalls, RemovalCalls, RecordCalls
    <2>4. Prepared(mutation'[p], inst[p], dir')
      BY <2>2 DEF Prepared, Moved
    <2>5. mutation[p].stage \in {"clean", "settle"}
      BY <1>1, <1>2 DEF Known, Placed, PublishCalls, RecordCalls, Mutations, Stages
    <2>6. Removed(mutation'[p], inst[p], dir') /\ Recorded(mutation'[p], dir')
      BY <1>6, <2>2, <2>5, Zenon DEF Moved, Removed, Recorded
    <2>. QED
      BY <1>1, <1>6, <2>1, <2>2, <2>3, <2>4, <2>6, InsideStep
  <1>. QED
    BY <1>7

\* RemoveRecord synchronises the directory after the unlink.
LEMMA SyncRemovalStep ==
    ASSUME StorageInv, NEW p \in Instances, SyncRemoval(p)
    PROVE  StorageInv'
  <1>1. /\ mutation[p].call = "sync_removal"
        /\ Does(p, "sync_removal", Then(p, "encode")) /\ inst' = inst
        /\ dir' = dir /\ survivors' = {dir}
    BY DEF SyncRemoval, Does
  <1>2. "encode" \in Calls
    BY DEF Calls, PublishCalls
  <1>3. Moved(p, "encode")
    BY <1>1, <1>2, ThenCall, Zenon
  <1>4. Known(p)
    BY <1>1, Running
  <1>5. Filed
    BY <1>1, <1>4 DEF Filed, Known
  <1>6. Placed(mutation'[p])
    BY <1>1, <1>3, <1>4, Zenon DEF Known, Moved, Placed, PublishCalls, RecordCalls
  <1>7. Prepared(mutation'[p], inst[p], dir')
    BY <1>3, SMTT(30) DEF Prepared, Moved
  <1>8. Removed(mutation'[p], inst[p], dir') /\ Recorded(mutation'[p], dir')
    BY <1>1, <1>3, <1>4, Zenon DEF Known, Working, Moved, Removed, Recorded, NewRecord
  <1>. QED
    BY <1>1, <1>2, <1>3, <1>5, <1>6, <1>7, <1>8, InsideStep, Zenon

\* The record that a store creates.
LEMMA NewRecordTypes ==
    ASSUME NEW p \in Instances, Known(p), mutation[p].metadata # None, NEW synced \in BOOLEAN
    PROVE  /\ NewRecord(mutation[p], synced) \in RecordFiles
           /\ NewRecord(mutation[p], synced).id = mutation[p].metadata.id
           /\ NewRecord(mutation[p], synced).name = mutation[p].name
           /\ NewRecord(mutation[p], synced).authority = mutation[p].metadata.authority
           /\ NewRecord(mutation[p], synced).synced = synced
  BY Zenon DEF NewRecord, RecordFiles, Known, Mutations, Metadata

\* WriteRecord creates the record that the intent already names.
LEMMA WriteRecordStep ==
    ASSUME StorageInv, NEW p \in Instances, WriteRecord(p)
    PROVE  StorageInv'
  <1> DEFINE r == NewRecord(mutation[p], FALSE)
             e == [dir EXCEPT !.records = dir.records \cup {r}]
  <1>1. /\ mutation[p].call = "write_record" /\ Unsynced(e)
        /\ Does(p, "write_record", Then(p, "sync_record")) /\ inst' = inst
    BY DEF WriteRecord, Does
  <1>2. "sync_record" \in Calls
    BY DEF Calls, RecordCalls
  <1>3. Moved(p, "sync_record")
    BY <1>1, <1>2, ThenCall, Zenon
  <1>4. Known(p)
    BY <1>1, Running
  <1>5. mutation[p].stage = "record" /\ mutation[p].metadata # None
    BY <1>1, <1>4 DEF Known, Placed, PublishCalls, RemovalCalls, Mutations, Stages
  <1>6. r \in RecordFiles /\ r.id = mutation[p].metadata.id
    BY <1>4, <1>5, NewRecordTypes, Zenon
  <1>7. e \in Directories /\ e.index = dir.index /\ e.records = dir.records \cup {r}
    BY <1>4, <1>6, Zenon DEF Known, Directories
  <1>8. r.id = CleanupOf(dir.index)
    BY <1>4, <1>5, <1>6, Zenon DEF Known, Working, Intended
  <1>9. Sound(dir, ids)
    BY <1>4, Zenon DEF Known
  <1> HIDE DEF r, e
  <1>10. Sound(e, ids)
    BY <1>7, <1>8, <1>9, SoundWrite
  <1>11. Filed
    BY <1>1, <1>7, <1>10, UnsyncedFiled
  <1>12. Placed(mutation'[p])
    BY <1>1, <1>3, <1>4, <1>5, Zenon DEF Known, Moved, Placed, RecordCalls
  <1>13. Prepared(mutation'[p], inst[p], dir')
    BY <1>3 DEF Prepared, Moved
  <1>14. Removed(mutation'[p], inst[p], dir') /\ Recorded(mutation'[p], dir')
    BY <1>3, <1>5, Zenon DEF Moved, Removed, Recorded
  <1>. QED
    BY <1>1, <1>2, <1>3, <1>11, <1>12, <1>13, <1>14, InsideStep, Zenon

\* WriteRecord synchronises the data of the new record.
LEMMA SyncRecordStep ==
    ASSUME StorageInv, NEW p \in Instances, SyncRecord(p)
    PROVE  StorageInv'
  <1> DEFINE r == NewRecord(mutation[p], FALSE)
             s == NewRecord(mutation[p], TRUE)
             e == [dir EXCEPT !.records = (dir.records \ {r}) \cup {s}]
  <1>1. /\ mutation[p].call = "sync_record" /\ dir' = e
        /\ survivors' = (survivors \ {dir}) \cup {dir'}
        /\ Does(p, "sync_record", Then(p, "sync_directory")) /\ inst' = inst
    BY DEF SyncRecord, Does
  <1>2. "sync_directory" \in Calls
    BY DEF Calls, RecordCalls
  <1>3. Moved(p, "sync_directory")
    BY <1>1, <1>2, ThenCall, Zenon
  <1>4. Known(p)
    BY <1>1, Running
  <1>5. mutation[p].stage = "record" /\ mutation[p].metadata # None
    BY <1>1, <1>4 DEF Known, Placed, PublishCalls, RemovalCalls, Mutations, Stages
  <1>6. /\ r \in RecordFiles /\ s \in RecordFiles
        /\ s.id = mutation[p].metadata.id /\ r.synced = FALSE
    BY <1>4, <1>5, NewRecordTypes, Zenon
  <1>7. e \in Directories /\ e.index = dir.index /\ e.records = (dir.records \ {r}) \cup {s}
    BY <1>4, <1>6, Zenon DEF Known, Directories
  <1>8. s.id = CleanupOf(dir.index)
    BY <1>4, <1>5, <1>6, Zenon DEF Known, Working, Intended
  <1>9. Sound(dir, ids)
    BY <1>4 DEF Known
  <1>10. NewRecord(mutation'[p], TRUE) = s
    BY <1>3, Zenon DEF NewRecord, Moved
  <1> HIDE DEF r, s, e
  <1>11. ~r.synced
    BY <1>6
  <1>12. Sound(e, ids)
    BY <1>7, <1>8, <1>9, <1>11, SoundSync, Zenon
  <1>13. Filed
    BY <1>1, <1>7, <1>12, SyncedFiled
  <1>14. Placed(mutation'[p])
    BY <1>1, <1>3, <1>4, <1>5, Zenon DEF Known, Moved, Placed, RecordCalls
  <1>15. Prepared(mutation'[p], inst[p], dir')
    BY <1>3 DEF Prepared, Moved
  <1>16. Removed(mutation'[p], inst[p], dir') /\ Recorded(mutation'[p], dir')
    BY <1>1, <1>3, <1>5, <1>7, <1>10, Zenon DEF Moved, Removed, Recorded
  <1>. QED
    BY <1>1, <1>2, <1>3, <1>5, <1>13, <1>14, <1>15, <1>16, InsideStep, Zenon

\* The renamed directory and the instance that adopted its index.
Adopted(p, e) ==
    /\ e \in Directories /\ e.records = dir.records
    /\ e.index \in IndexFiles /\ e.index.synced /\ e.index # None
    /\ EncodeIndex(e.index)
    /\ e.index.entries = NextIndex(mutation[p], inst[p]).entries
    /\ e.index.cleanup_id = NextIndex(mutation[p], inst[p]).cleanup_id
    /\ EntriesOf(e.index) = e.index.entries /\ CleanupOf(e.index) = e.index.cleanup_id
    /\ dir' = e /\ survivors' = survivors \cup {e}
    /\ inst' \in [Instances -> Impls]
    /\ \A q \in Instances \ {p} : inst'[q] = inst[q]
    /\ inst'[p].opened
    /\ inst'[p].entries = e.index.entries /\ inst'[p].cleanup_id = e.index.cleanup_id

\* PublishIndex adopts in memory exactly what the rename put on disk.
LEMMA RenameAdopts ==
    ASSUME StorageInv, NEW p \in Instances, RenameIndex(p)
    PROVE  Adopted(p, Renamed)
  <1> DEFINE next == NextIndex(mutation[p], inst[p])
             whole == [next EXCEPT !.synced = TRUE]
  <1>1. /\ mutation[p].call = "rename" /\ Unsynced(Renamed)
        /\ inst' = [inst EXCEPT ![p] = Swapped(inst[p])]
    BY DEF RenameIndex, Does
  <1>2. Known(p)
    BY <1>1, Running
  <1>3. dir.pending = whole /\ EncodeIndex(next)
    BY <1>1, <1>2 DEF Known, Working, Prepared
  <1>4. next \in IndexFiles
    BY <1>2, NextIndexTypes
  <1> HIDE DEF next
  <1>5. /\ whole \in IndexFiles /\ whole.synced = TRUE
        /\ whole.entries = next.entries /\ whole.cleanup_id = next.cleanup_id
    BY <1>4, Zenon DEF IndexFiles
  <1>6. EncodeIndex(whole)
    BY <1>3, <1>5 DEF EncodeIndex
  <1>7. whole # None
    BY <1>5, CredentialAssumption, Zenon
  <1>8. EntriesOf(whole) = whole.entries /\ CleanupOf(whole) = whole.cleanup_id
    BY <1>7 DEF EntriesOf, CleanupOf
  <1> HIDE DEF whole
  <1>9. /\ Renamed \in Directories /\ Renamed.records = dir.records
        /\ Renamed.index = whole
    BY <1>2, <1>3, <1>5, Zenon DEF Known, Renamed, Directories
  <1>10. /\ Swapped(inst[p]) \in Impls /\ Swapped(inst[p]).opened = inst[p].opened
         /\ Swapped(inst[p]).entries = whole.entries
         /\ Swapped(inst[p]).cleanup_id = whole.cleanup_id
    BY <1>2, <1>3, <1>5, Zenon DEF Known, Swapped, Impls, IndexFiles
  <1>11. inst \in [Instances -> Impls] /\ inst[p].opened
    BY <1>2 DEF StorageInv, StorageTypes, Known
  <1>12. /\ inst' \in [Instances -> Impls] /\ inst'[p] = Swapped(inst[p])
         /\ \A q \in Instances \ {p} : inst'[q] = inst[q]
    BY <1>1, <1>10, <1>11
  <1>13. dir' = Renamed /\ survivors' = survivors \cup {Renamed}
    BY <1>1 DEF Unsynced
  <1>. QED
    BY <1>5, <1>6, <1>7, <1>8, <1>9, <1>10, <1>11, <1>12, <1>13, Zenon DEF Adopted, next

\* The published index is sound at every stage.
LEMMA RenamedSound ==
    ASSUME NEW p \in Instances, Known(p), mutation[p].call = "rename",
           NEW e, Adopted(p, e)
    PROVE  Sound(e, ids)
  <1> DEFINE m == mutation[p]
  <1>1. m.stage \in {"clean", "settle", "intend", "select"}
    BY Zenon DEF Known, Placed, Mutations, Stages, RecordCalls
  <1>2. /\ dir \in Directories /\ Sound(dir, ids)
        /\ inst[p].entries = EntriesOf(dir.index) /\ inst[p].cleanup_id = CleanupOf(dir.index)
    BY Zenon DEF Known
  <1>3. \A r \in dir.records : r.id # None
    BY <1>2, CredentialAssumption DEF Directories, RecordFiles
  <1>4. CASE m.stage \in {"clean", "settle", "intend"}
    <2>1. e.index.entries = EntriesOf(dir.index)
      BY <1>2, <1>4, SMTT(30) DEF Adopted, NextIndex
    <2>2. \A r \in dir.records : r.id # CleanupOf(dir.index)
      BY <1>2, <1>3, <1>4, Zenon DEF Known, Working, Removed, Intended
    <2>. QED
      BY <1>2, <2>1, <2>2, SoundRepublish, Zenon DEF Adopted
  <1>5. CASE m.stage = "select"
    <2>1. m.name \in Names /\ m.metadata \in Metadata \cup {None}
      BY Zenon DEF Known, Mutations
    <2>2. /\ e.index.entries = [EntriesOf(dir.index) EXCEPT ![m.name] = m.metadata]
          /\ e.index.cleanup_id = m.retired
      BY <1>2, <1>5, SMTT(30) DEF Adopted, NextIndex
    <2>3. CleanupOf(dir.index) = IF m.metadata = None THEN None ELSE m.metadata.id
      BY <1>2, <1>5, Zenon DEF Known, Working, Intended
    <2>4. m.metadata # None => RecordFor(dir, m.name, m.metadata) /\ m.metadata.id <= ids
      <3> SUFFICES ASSUME m.metadata # None
                   PROVE  RecordFor(dir, m.name, m.metadata) /\ m.metadata.id <= ids
        BY Zenon
      <3>1. NewRecord(m, TRUE) \in dir.records /\ m.metadata.id <= ids
        BY <1>5, Zenon DEF Known, Working, Recorded, Latest
      <3>2. /\ NewRecord(m, TRUE).id = m.metadata.id /\ NewRecord(m, TRUE).name = m.name
            /\ NewRecord(m, TRUE).authority = m.metadata.authority
            /\ NewRecord(m, TRUE).synced = TRUE
        BY NewRecordTypes, ZenonT(40)
      <3>. QED
        BY <3>1, <3>2, Zenon DEF RecordFor
    <2>5. IF EntriesOf(dir.index)[m.name] = None THEN m.metadata # None /\ m.retired = None
          ELSE \/ m.retired \in {EntriesOf(dir.index)[m.name].id, Garbage}
               \/ m.metadata # None /\ m.retired = m.metadata.id
      BY <1>2, <1>5, Zenon DEF Known, Working, Retires, Unselected
    <2>6. e.index \in IndexFiles /\ e.index.synced /\ e.records = dir.records /\ EncodeIndex(e.index)
      BY Zenon DEF Adopted
    <2> HIDE DEF m
    <2>. QED
      BY <1>2, <2>1, <2>2, <2>3, <2>4, <2>5, <2>6, SoundSelect
  <1>. QED
    BY <1>1, <1>4, <1>5

\* renameat, the commit point of a publication.
LEMMA RenameIndexStep ==
    ASSUME StorageInv, NEW p \in Instances, RenameIndex(p)
    PROVE  StorageInv'
  <1> DEFINE e == Renamed
             m == mutation'[p]
  <1>1. mutation[p].call = "rename" /\ Does(p, "rename", Then(p, "sync_directory"))
    BY DEF RenameIndex, Does
  <1>2. Known(p)
    BY <1>1, Running
  <1>3. "sync_directory" \in Calls
    BY DEF Calls, PublishCalls
  <1>4. Moved(p, "sync_directory")
    BY <1>1, <1>3, ThenCall, Zenon
  <1>5. Adopted(p, e)
    BY RenameAdopts
  <1> HIDE DEF e
  <1>6. Sound(e, ids)
    BY <1>1, <1>2, <1>5, RenamedSound
  <1>7. mutation[p].stage \in {"clean", "settle", "intend", "select"}
    BY <1>1, <1>2, Zenon DEF Known, Placed, Mutations, Stages, RecordCalls
  <1>8. Placed(m)
    BY <1>2, <1>4, <1>7, Zenon DEF Known, Placed, Moved, PublishCalls
  <1>9. \A r \in dir.records : r.id # None
    BY <1>2, CredentialAssumption, Zenon DEF Known, Directories, RecordFiles
  <1>10. Prepared(m, inst'[p], dir')
    BY <1>4 DEF Prepared, Moved
  <1>11. Intended(m, inst'[p])
    BY <1>4, <1>5, <1>7 DEF Intended, Moved, Adopted, NextIndex
  <1>12. Unselected(m) => Unselected(mutation[p]) /\ mutation[p].stage # "select"
    BY <1>4 DEF Unselected, Moved
  <1>13. mutation[p].stage # "select" => e.index.entries = EntriesOf(dir.index)
    BY <1>2, <1>5 DEF Adopted, NextIndex, Known
  <1>kept. /\ Retires(mutation[p], inst[p]) /\ Unused(mutation[p], survivors)
           /\ Durable(mutation[p], dir, survivors) /\ Latest(mutation[p], ids)
           /\ inst[p].entries = EntriesOf(dir.index)
    BY <1>2, Zenon DEF Known, Working
  <1>same. /\ m.stage = mutation[p].stage /\ m.name = mutation[p].name
           /\ m.metadata = mutation[p].metadata /\ m.retired = mutation[p].retired
    BY <1>4, Zenon DEF Moved
  <1>new. /\ inst'[p].entries = EntriesOf(e.index) /\ EntriesOf(e.index) = e.index.entries
          /\ dir' = e /\ survivors' = survivors \cup {e} /\ inst'[p].opened
    BY <1>5, ZenonT(40) DEF Adopted
  <1> HIDE DEF m
  <1>14. Retires(m, inst'[p])
    BY <1>12, <1>13, <1>kept, <1>same, <1>new, Zenon DEF Retires
  <1>15. Removed(m, inst'[p], dir')
    BY <1>4, <1>5, <1>9 DEF Removed, Moved, Adopted, NextIndex, m
  <1>16. Recorded(m, dir')
    BY <1>4, <1>7, SMTT(30) DEF Recorded, Moved, m
  <1>17. Unused(m, survivors')
    BY <1>2, <1>12, <1>13, <1>kept, <1>same, <1>new DEF Unused, Known
  <1>18. Durable(m, dir', survivors')
    BY <1>13, <1>kept, <1>same, <1>new, Zenon DEF Durable
  <1>19. Latest(m, ids)
    BY <1>kept, <1>same, Zenon DEF Latest
  <1>20. Working(m, inst'[p], dir', survivors', ids)
    BY <1>10, <1>11, <1>14, <1>15, <1>16, <1>17, <1>18, <1>19, <1>new, ZenonT(40) DEF Working
  <1>21. Steps(p)
    BY <1>2, <1>4, <1>5, <1>6, <1>8, <1>20, Zenon DEF Steps, Known, Moved, Adopted, m
  <1>. QED
    BY <1>2, <1>21, StepsKeepInv, Zenon DEF Known

\* What entering a stage does to a mutation.
Entered(p, stage) ==
    /\ mutation' \in [Instances -> Mutations]
    /\ \A q \in Instances \ {p} : mutation'[q] = mutation[q]
    /\ mutation'[p].stage = stage
    /\ mutation'[p].call = FirstCall(stage)
    /\ mutation'[p].name = mutation[p].name
    /\ mutation'[p].metadata = mutation[p].metadata
    /\ mutation'[p].retired = mutation[p].retired

\* Every stage begins with one of its calls.
LEMMA FirstCalls == \A stage \in Stages : FirstCall(stage) \in Calls
  BY DEF FirstCall, Stages, Calls, PublishCalls, RemovalCalls, RecordCalls

\* A stage that is over hands on to the next one at that one's first call.
LEMMA AdvanceEnters ==
    ASSUME StorageInv, NEW p \in Instances, mutation' = [mutation EXCEPT ![p] = Advance(p)]
    PROVE  NextStage(mutation[p]) \in Stages /\ Entered(p, NextStage(mutation[p]))
  <1> DEFINE stage == NextStage(mutation[p])
  <1>1. mutation[p] \in Mutations /\ mutation \in [Instances -> Mutations]
    BY DEF StorageInv, StorageTypes
  <1>2. stage \in Stages
    BY DEF NextStage, Opening, Stages
  <1>3. FirstCall(stage) \in Calls
    BY <1>2, FirstCalls
  <1> HIDE DEF stage
  <1>4. Advance(p) = [mutation[p] EXCEPT !.stage = stage, !.call = FirstCall(stage)]
    BY DEF Advance, Enter, stage
  <1>5. Advance(p) \in Mutations
    BY <1>1, <1>2, <1>3, <1>4, Zenon DEF Mutations
  <1>6. mutation'[p] = Advance(p)
    BY <1>1
  <1>7. Entered(p, stage)
    BY <1>1, <1>4, <1>5, <1>6 DEF Entered, Mutations
  <1>. QED
    BY <1>2, <1>7 DEF stage

\* SyncFile of the directory ends a stage: one directory survives.
LEMMA SyncDirStep ==
    ASSUME StorageInv, NEW p \in Instances, SyncDir(p)
    PROVE  StorageInv'
  <1> DEFINE m == mutation[p]
             n == mutation'[p]
             stage == NextStage(m)
  <1>1. /\ m.call = "sync_directory" /\ mutation' = [mutation EXCEPT ![p] = Advance(p)]
        /\ lock' = lock /\ ids' = ids /\ inst' = inst /\ dir' = dir /\ survivors' = {dir}
    BY DEF SyncDir, Does
  <1>2. Known(p)
    BY <1>1, Running
  <1>3. Entered(p, stage)
    BY <1>1, AdvanceEnters, Zenon
  <1>4. \/ m.stage = "clean" /\ m.metadata = None /\ stage = "select"
        \/ m.stage = "clean" /\ m.metadata # None /\ stage = "intend"
        \/ m.stage = "intend" /\ m.metadata # None /\ stage = "record"
        \/ m.stage = "record" /\ m.metadata # None /\ stage = "select"
        \/ m.stage \in {"select", "settle"} /\ stage \in {"settle", "return"}
    BY <1>1, <1>2 DEF Known, Placed, Mutations, Stages, NextStage, Opening
  <1>5. Working(m, inst[p], dir, survivors, ids) /\ m.stage # "none" /\ inst[p].opened
    BY <1>2, Zenon DEF Known
  <1>6. /\ n.stage = stage /\ n.metadata = m.metadata /\ n.retired = m.retired /\ n.name = m.name
        /\ stage \in {"intend", "select"} => n.call = "encode"
        /\ stage = "record" => n.call = "write_record"
        /\ stage = "settle" => n.call = "remove_record"
        /\ stage = "return" => n.call = "return"
    BY <1>3 DEF Entered, FirstCall
  <1> HIDE DEF m, n, stage
  <1>7. Placed(n)
    BY <1>2, <1>4, <1>6, Zenon DEF Known, m, Placed, PublishCalls, RemovalCalls, RecordCalls
  <1>8. Prepared(n, inst[p], dir)
    BY <1>4, <1>6, SMTT(30) DEF Prepared
  <1>9. Intended(n, inst[p])
    BY <1>1, <1>4, <1>5, <1>6, Zenon DEF Working, Intended
  <1>10. Unselected(n) => Unselected(m)
    BY <1>1, <1>4, <1>6, SMTT(30) DEF Unselected
  <1>11. Retires(n, inst[p])
    BY <1>5, <1>6, <1>10, Zenon DEF Working, Retires
  <1>12. Removed(n, inst[p], dir)
    BY <1>4, <1>6, Zenon DEF Removed
  <1>13. NewRecord(n, TRUE) = NewRecord(m, TRUE)
    BY <1>6 DEF NewRecord
  <1>14. Recorded(n, dir)
    BY <1>1, <1>4, <1>5, <1>6, <1>13, ZenonT(40) DEF Working, Recorded
  <1>15. Unused(n, {dir})
    BY <1>2, <1>5, <1>6, <1>10, Zenon DEF Working, Unused, Known
  <1>16. Durable(n, dir, {dir}) /\ Latest(n, ids)
    BY <1>5, <1>6, Zenon DEF Working, Durable, Latest
  <1>17. Working(n, inst[p], dir, {dir}, ids)
    BY <1>5, <1>8, <1>9, <1>11, <1>12, <1>14, <1>15, <1>16 DEF Working
  <1>18. Steps(p)
    BY <1>1, <1>2, <1>3, <1>7, <1>17, Zenon DEF Steps, Known, Entered, StorageInv, StorageTypes, n
  <1>. QED
    BY <1>5, <1>18, StepsKeepInv

\* An instance without a mutation is at no stage.
LEMMA NoMutationRests ==
    NoMutation \in Mutations /\ NoMutation.stage = "none" /\ NoMutation.call = "none"
  BY SMTT(30) DEF NoMutation, Mutations, Stages, Calls

\* A mutation that ends leaves what it did.
LEMMA EndStep ==
    ASSUME StorageInv, NEW p \in Instances, mutation[p].call # "none",
           mutation' = [mutation EXCEPT ![p] = NoMutation],
           lock' = lock, ids' = ids, inst' = inst, dir' = dir, survivors' = survivors
    PROVE  StorageInv'
  <1>1. Known(p)
    BY Running
  <1>2. mutation \in [Instances -> Mutations]
    BY DEF StorageInv, StorageTypes
  <1>3. /\ mutation' \in [Instances -> Mutations] /\ mutation'[p] = NoMutation
        /\ \A q \in Instances \ {p} : mutation'[q] = mutation[q]
    BY <1>2, NoMutationRests
  <1>4. Placed(mutation'[p]) /\ Working(mutation'[p], inst'[p], dir', survivors', ids')
    BY <1>3, NoMutationRests DEF Placed, Working
  <1>5. Steps(p)
    BY <1>1, <1>3, <1>4, Zenon DEF Steps, Known, StorageInv, StorageTypes
  <1>. QED
    BY <1>1, <1>5, StepsKeepInv, Zenon DEF Known

\* A mutation given up after a failed call leaves the files as they are.
LEMMA AbandonStep ==
    ASSUME StorageInv, NEW p \in Instances, mutation[p].call # "none", Abandon(p),
           lock' = lock, ids' = ids, inst' = inst, dir' = dir, survivors' = survivors
    PROVE  StorageInv'
  <1>1. CASE mutation[p].stage # "settle"
    BY <1>1, EndStep DEF Abandon
  <1>2. CASE mutation[p].stage = "settle"
    <2>1. Known(p)
      BY Running
    <2>2. mutation' = [mutation EXCEPT ![p] = Advance(p)] /\ NextStage(mutation[p]) = "return"
      BY <1>2 DEF Abandon, NextStage
    <2>3. Entered(p, "return")
      BY <2>2, AdvanceEnters, Zenon
    <2>4. mutation'[p].stage = "return" /\ mutation'[p].call = "return"
      BY <2>3, SMTT(30) DEF Entered, FirstCall
    <2>5. Placed(mutation'[p])
      BY <2>1, <2>3, <2>4, Zenon DEF Known, Placed, Entered
    <2>6. /\ Prepared(mutation'[p], inst[p], dir) /\ Intended(mutation'[p], inst[p])
          /\ ~Unselected(mutation'[p])
          /\ Removed(mutation'[p], inst[p], dir) /\ Recorded(mutation'[p], dir)
      BY <2>4 DEF Prepared, Intended, Unselected, Removed, Recorded
    <2>7. Retires(mutation'[p], inst[p]) /\ Unused(mutation'[p], survivors)
      BY <2>6, Zenon DEF Retires, Unused
    <2>8. Durable(mutation'[p], dir, survivors) /\ Latest(mutation'[p], ids)
      BY <1>2, <2>1, <2>3, Zenon DEF Known, Working, Durable, Latest, Entered
    <2>9. Working(mutation'[p], inst[p], dir, survivors, ids)
      BY <2>1, <2>6, <2>7, <2>8, Zenon DEF Working, Known
    <2>10. Steps(p)
      BY <2>1, <2>3, <2>5, <2>9, Zenon DEF Steps, Known, Entered, StorageInv, StorageTypes
    <2>. QED
      BY <2>1, <2>10, StepsKeepInv, Zenon DEF Known
  <1>. QED
    BY <1>1, <1>2, Zenon

--------------------------------------------------------------------------------
(* One lemma per operation.                                                 *)

\* With no instance open, what the files are is all there is.
LEMMA ClosedStep ==
    ASSUME StorageTypes', \A d \in survivors' : Sound(d, ids'),
           \A q \in Instances : /\ ~inst'[q].opened
                                /\ mutation'[q].stage = "none" /\ mutation'[q].call = "none"
    PROVE  StorageInv'
  <1>1. LiveMatchesRestart'
    BY Zenon DEF LiveMatchesRestart
  <1>2. \A q \in Instances :
           Placed(mutation'[q]) /\ Working(mutation'[q], inst'[q], dir', survivors', ids')
    BY Zenon DEF Placed, Working
  <1>. QED
    BY <1>1, <1>2, Zenon DEF StorageInv

\* EnsureOpen takes the lock and reads what the index says.
LEMMA EnsureOpenStep ==
    ASSUME StorageInv, NEW p \in Instances, EnsureOpen(p)
    PROVE  StorageInv'
  <1>1. dir' = dir /\ survivors' = survivors /\ mutation' = mutation /\ ids' = ids
    BY Zenon DEF EnsureOpen, files
  <1>2. CASE lock' = lock /\ inst' = inst
    BY <1>1, <1>2, SMTT(30) DEF StorageInv, StorageTypes, LiveMatchesRestart
  <1>3. CASE /\ lock = None /\ lock' = p
             /\ inst' = [inst EXCEPT ![p] = [opened |-> TRUE,
                                             entries |-> EntriesOf(dir.index),
                                             cleanup_id |-> CleanupOf(dir.index)]]
    <2>1. \A q \in Instances : ~inst[q].opened
      BY <1>3, CredentialAssumption, Zenon DEF StorageInv, LiveMatchesRestart
    <2>2. \A q \in Instances : mutation[q].stage = "none"
      BY <2>1, Zenon DEF StorageInv, Working
    <2>3. dir \in Directories /\ inst \in [Instances -> Impls]
      BY DEF StorageInv, StorageTypes
    <2>4. EntriesOf(dir.index) \in Entries /\ CleanupOf(dir.index) \in Nat \cup {None}
      BY <2>3, IndexTypes
    <2>5. inst' \in [Instances -> Impls]
      BY <1>3, <2>3, <2>4 DEF Impls
    <2>6. StorageTypes'
      BY <1>1, <2>5 DEF StorageInv, StorageTypes
    <2>7. LiveMatchesRestart'
      BY <1>1, <1>3, <2>1, <2>3, SMTT(30) DEF LiveMatchesRestart
    <2>8. \A q \in Instances :
             Placed(mutation'[q]) /\ Working(mutation'[q], inst'[q], dir', survivors', ids')
      BY <1>1, <2>2, Zenon DEF StorageInv, Working
    <2>. QED
      BY <1>1, <2>6, <2>7, <2>8, Zenon DEF StorageInv
  <1>. QED
    BY <1>2, <1>3 DEF EnsureOpen

\* The mutation that an operation begins, before its first stage.
Beginning(n, metadata, retired) ==
    [stage |-> "none", call |-> "none", name |-> n, metadata |-> metadata, retired |-> retired]

\* A mutation begins with nothing selected, recorded or removed yet.
LEMMA BeginStep ==
    ASSUME StorageInv, NEW p \in Instances, inst[p].opened,
           NEW n \in Names, NEW metadata \in Metadata \cup {None}, NEW retired \in Nat \cup {None},
           Begin(p, n, metadata, retired),
           lock' = lock, inst' = inst, dir' = dir, survivors' = survivors,
           ids' \in Nat, ids <= ids', metadata # None => metadata.id = ids + 1 /\ ids' = ids + 1,
           IF inst[p].entries[n] = None THEN metadata # None /\ retired = None
           ELSE \/ retired \in {inst[p].entries[n].id, Garbage}
                \/ metadata # None /\ retired = metadata.id
    PROVE  StorageInv'
  <1> DEFINE stage == IF inst[p].cleanup_id = None THEN Opening(metadata) ELSE "clean"
             m == Enter(Beginning(n, metadata, retired), stage)
  <1>1. mutation' = [mutation EXCEPT ![p] = m]
    BY Zenon DEF Begin, Beginning
  <1>2. /\ mutation \in [Instances -> Mutations] /\ inst \in [Instances -> Impls]
        /\ dir \in survivors /\ survivors \subseteq Directories /\ ids \in Nat
        /\ inst[p].entries = EntriesOf(dir.index) /\ inst[p].cleanup_id = CleanupOf(dir.index)
        /\ \A d \in survivors : Sound(d, ids)
    BY Zenon DEF StorageInv, StorageTypes, LiveMatchesRestart
  <1>3. /\ stage \in {"clean", "intend", "select"}
        /\ stage = "intend" => metadata # None /\ inst[p].cleanup_id = None
        /\ stage = "select" => metadata = None /\ inst[p].cleanup_id = None
    BY Zenon DEF Opening
  <1> HIDE DEF stage
  <1>4. FirstCall(stage) = IF stage = "clean" THEN "remove_record" ELSE "encode"
    BY <1>3 DEF FirstCall
  <1> DEFINE b == Beginning(n, metadata, retired)
  <1>5. b \in Mutations /\ b.name = n /\ b.metadata = metadata /\ b.retired = retired
    BY Zenon DEF Beginning, Mutations, Stages, Calls
  <1>6. stage \in Stages /\ FirstCall(stage) \in Calls
    BY <1>3, <1>4, Zenon DEF Stages, Calls, PublishCalls, RemovalCalls
  <1> HIDE DEF b
  <1>. m = [b EXCEPT !.stage = stage, !.call = FirstCall(stage)]
    BY DEF Enter, b
  <1>7. /\ m \in Mutations
        /\ m.stage = stage /\ m.call = FirstCall(stage) /\ m.name = n
        /\ m.metadata = metadata /\ m.retired = retired
    BY <1>5, <1>6, Zenon DEF Mutations
  <1> HIDE DEF m
  <1>8. /\ mutation' \in [Instances -> Mutations] /\ mutation'[p] = m
        /\ \A q \in Instances \ {p} : mutation'[q] = mutation[q]
    BY <1>1, <1>2, <1>7
  <1>9. Placed(m)
    BY <1>3, <1>4, <1>7 DEF Placed, PublishCalls, RemovalCalls
  <1>10. Prepared(m, inst[p], dir) /\ Intended(m, inst[p])
    BY <1>3, <1>4, <1>7 DEF Prepared, Intended
  <1>11. Retires(m, inst[p])
    BY <1>7 DEF Retires
  <1>12. Removed(m, inst[p], dir) /\ Recorded(m, dir) /\ Durable(m, dir, survivors)
    BY <1>3, <1>4, <1>7, Zenon DEF Removed, Recorded, Durable
  <1>13. ASSUME NEW d \in survivors, NEW k \in Live(EntriesOf(d.index)), metadata # None
         PROVE  EntriesOf(d.index)[k].id # metadata.id
    <2>1. EntriesOf(d.index)[k].id <= ids
      BY <1>2, Zenon DEF Sound
    <2>2. EntriesOf(d.index)[k].id \in Nat
      BY <1>2, IndexTypes, Zenon
    <2>. QED
      BY <1>2, <1>13, <2>1, <2>2
  <1>14. Unused(m, survivors)
    BY <1>7, <1>13 DEF Unused
  <1>15. Latest(m, ids')
    BY <1>2, <1>7 DEF Latest
  <1>16. Working(m, inst[p], dir, survivors, ids')
    BY <1>10, <1>11, <1>12, <1>14, <1>15 DEF Working
  <1>17. ASSUME NEW d \in survivors
         PROVE  Sound(d, ids')
    <2>1. ASSUME NEW k \in Live(EntriesOf(d.index))
          PROVE  EntriesOf(d.index)[k].id <= ids'
      <3>1. EntriesOf(d.index)[k].id <= ids
        BY <1>2, Zenon DEF Sound
      <3>2. EntriesOf(d.index)[k].id \in Nat
        BY <1>2, IndexTypes
      <3>. QED
        BY <1>2, <3>1, <3>2
    <2>. QED
      BY <1>2, <2>1, Zenon DEF Sound
  <1>18. Steps(p)
    BY <1>2, <1>8, <1>9, <1>16, <1>17 DEF Steps
  <1>. QED
    BY <1>18, StepsKeepInv, SMTT(30)

\* An operation that answers at once changes no file and no instance.
LEMMA AnswerStep ==
    ASSUME StorageInv, dir' = dir, survivors' = survivors, lock' = lock, inst' = inst,
           mutation' = mutation, ids' = ids
    PROVE  StorageInv'
  BY Zenon DEF StorageInv, StorageTypes, LiveMatchesRestart

\* StorePersistent starts with an id that no directory has seen.
LEMMA StorePersistentStep ==
    ASSUME StorageInv, NEW p \in Instances, NEW n \in Names, NEW on_conflict,
           StorePersistent(p, n, on_conflict)
    PROVE  StorageInv'
  <1> DEFINE found == inst[p].entries[n]
  <1>1. /\ inst[p].opened /\ dir' = dir /\ survivors' = survivors /\ lock' = lock /\ inst' = inst
    BY Zenon DEF StorePersistent, files
  <1>2. ids \in Nat /\ inst[p] \in Impls
    BY DEF StorageInv, StorageTypes
  <1>3. found \in Metadata \cup {None}
    BY <1>2 DEF Impls, Entries
  <1>4. CASE mutation' = mutation /\ ids' = ids
    BY <1>1, <1>4, AnswerStep, SMTT(30)
  <1>5. ASSUME ids' = ids + 1,
               NEW authority \in IF found = None THEN {ids + 1} ELSE Authorities(p, found),
               NEW superseded \in IF found = None THEN {None} ELSE RecordIds(p, found, ids + 1),
               Begin(p, n, [authority |-> authority, id |-> ids + 1], superseded)
        PROVE  StorageInv'
    <2> DEFINE metadata == [authority |-> authority, id |-> ids + 1]
    <2>1. found # None => found.authority \in Nat /\ found.id \in Nat
      BY <1>3, Zenon DEF Metadata
    <2>2. authority \in Nat /\ ids + 1 \in Nat
      BY <1>2, <2>1 DEF Authorities, Garbage
    <2>3. metadata \in Metadata /\ metadata.id = ids + 1
      BY <2>2, Zenon DEF Metadata
    <2>4. superseded \in Nat \cup {None}
      BY <1>2, <2>1 DEF RecordIds, Garbage
    <2>5. IF found = None THEN superseded = None
          ELSE superseded \in {found.id, Garbage} \/ superseded = ids + 1
      BY Zenon DEF RecordIds
    <2>6. metadata # None
      BY <2>3, CredentialAssumption, Zenon
    <2>7. ids' \in Nat /\ ids <= ids'
      BY <1>2, <1>5
    <2>8. Begin(p, n, metadata, superseded)
      BY <1>5, Zenon
    <2> HIDE DEF metadata, found
    <2>9. IF found = None THEN metadata # None /\ superseded = None
          ELSE \/ superseded \in {found.id, Garbage}
               \/ metadata # None /\ superseded = metadata.id
      BY <2>3, <2>5, <2>6, Zenon
    <2>. QED
      BY <1>1, <1>5, <2>3, <2>4, <2>7, <2>8, <2>9, BeginStep, Zenon DEF found
  <1>. QED
    BY <1>4, <1>5, Zenon DEF StorePersistent, Answer

\* DropPersistent starts by retiring the record that the name selects.
LEMMA DropPersistentStep ==
    ASSUME StorageInv, NEW p \in Instances, NEW n \in Names, DropPersistent(p, n)
    PROVE  StorageInv'
  <1> DEFINE found == inst[p].entries[n]
  <1>1. /\ inst[p].opened /\ dir' = dir /\ survivors' = survivors /\ lock' = lock
        /\ inst' = inst /\ ids' = ids
    BY Zenon DEF DropPersistent, files
  <1>2. ids \in Nat /\ inst[p] \in Impls
    BY DEF StorageInv, StorageTypes
  <1>3. CASE mutation' = mutation
    BY <1>1, <1>3, AnswerStep
  <1>4. ASSUME found # None, NEW removed \in RecordIds(p, found, found.id),
               Begin(p, n, None, removed)
        PROVE  StorageInv'
    <2>1. found.id \in Nat
      BY <1>2, <1>4, Zenon DEF Impls, Entries, Metadata
    <2>2. removed \in {found.id, Garbage}
      BY DEF RecordIds
    <2>3. removed \in Nat \cup {None}
      BY <2>1, <2>2 DEF Garbage
    <2>4. ids' \in Nat /\ ids <= ids'
      BY <1>1, <1>2
    <2>. QED
      BY <1>1, <1>4, <2>2, <2>3, <2>4, BeginStep, Zenon
  <1>. QED
    BY <1>3, <1>4, Zenon DEF DropPersistent, Answer

\* A closed instance keeps nothing.
LEMMA ClosedTypes == Closed \in Impls /\ ~Closed.opened
  BY DEF Closed, Impls, NoEntries, Entries

\* The process may end at any call: the files stay and the lock is free.
LEMMA ShutdownStep ==
    ASSUME StorageInv, NEW p \in Instances, Shutdown(p)
    PROVE  StorageInv'
  <1>1. /\ inst[p].opened /\ inst' = [inst EXCEPT ![p] = Closed]
        /\ mutation' = [mutation EXCEPT ![p] = NoMutation]
        /\ dir' = dir /\ survivors' = survivors /\ ids' = ids
    BY DEF Shutdown, files
  <1>2. StorageTypes'
    BY <1>1, ClosedTypes, NoMutationRests DEF StorageInv, StorageTypes
  <1>3. ASSUME NEW q \in Instances
        PROVE  ~inst'[q].opened /\ mutation'[q].stage = "none" /\ mutation'[q].call = "none"
    <2>1. CASE q = p
      BY <2>1, <1>1, ClosedTypes, NoMutationRests DEF StorageInv, StorageTypes
    <2>2. CASE q # p
      <3>1. ~inst[q].opened /\ mutation[q].stage = "none" /\ mutation[q].call = "none"
        BY <1>1, <2>2, OthersRest, Zenon DEF StorageInv, Placed
      <3>. QED
        BY <1>1, <2>2, <3>1, Zenon DEF StorageInv, StorageTypes
    <2>. QED BY <2>1, <2>2
  <1>4. \A d \in survivors' : Sound(d, ids')
    BY <1>1 DEF StorageInv
  <1>. QED
    BY <1>2, <1>3, <1>4, ClosedStep

\* A loss of power leaves one of the survivors, and every survivor is sound.
LEMMA PowerLossStep ==
    ASSUME StorageInv, PowerLoss
    PROVE  StorageInv'
  <1>1. /\ dir' \in survivors /\ survivors' = {dir'} /\ ids' = ids
        /\ inst' = [p \in Instances |-> Closed]
        /\ mutation' = [p \in Instances |-> NoMutation]
    BY DEF PowerLoss
  <1>2. StorageTypes'
    BY <1>1, ClosedTypes, NoMutationRests DEF StorageInv, StorageTypes
  <1>3. \A q \in Instances :
           ~inst'[q].opened /\ mutation'[q].stage = "none" /\ mutation'[q].call = "none"
    BY <1>1, ClosedTypes, NoMutationRests
  <1>4. \A d \in survivors' : Sound(d, ids')
    BY <1>1, Zenon DEF StorageInv
  <1>. QED
    BY <1>2, <1>3, <1>4, ClosedStep

--------------------------------------------------------------------------------
(* The invariant.                                                           *)

\* Every call of a mutation keeps the invariant.
LEMMA StepStep ==
    ASSUME StorageInv, NEW p \in Instances, Step(p)
    PROVE  StorageInv'
  <1>1. CASE Encode(p)
    <2>1. CASE EncodeIndex(NextIndex(mutation[p], inst[p]))
      BY <1>1, <2>1, EncodeStep, Zenon
    <2>2. CASE ~EncodeIndex(NextIndex(mutation[p], inst[p]))
      BY <1>1, <2>2, AbandonStep, Zenon DEF Encode, files
    <2>. QED BY <2>1, <2>2, Zenon
  <1>2. CASE UnlinkPending(p)  BY <1>2, UnlinkPendingStep
  <1>3. CASE WritePending(p)   BY <1>3, WritePendingStep
  <1>4. CASE SyncPending(p)    BY <1>4, SyncPendingStep
  <1>5. CASE RenameIndex(p)    BY <1>5, RenameIndexStep
  <1>6. CASE RemoveRecord(p)   BY <1>6, RemoveRecordStep
  <1>7. CASE WriteRecord(p)    BY <1>7, WriteRecordStep
  <1>8. CASE SyncRecord(p)     BY <1>8, SyncRecordStep
  <1>9. CASE SyncRemoval(p)    BY <1>9, SyncRemovalStep
  <1>10. CASE SyncDir(p)       BY <1>10, SyncDirStep
  <1>11. CASE ReturnStep(p)
    BY <1>11, EndStep, Zenon DEF ReturnStep, Does, files
  <1>. QED
    BY <1>1, <1>2, <1>3, <1>4, <1>5, <1>6, <1>7, <1>8, <1>9, <1>10, <1>11 DEF Step

\* So does a call that fails.
LEMMA FailsStep ==
    ASSUME StorageInv, NEW p \in Instances, Fails(p)
    PROVE  StorageInv'
  BY AbandonStep, Zenon DEF Fails, files

\* The invariant holds of the empty directory.
LEMMA StorageInit == Init => StorageInv
  <1> SUFFICES ASSUME Init
               PROVE  StorageInv
    OBVIOUS
  <1>1. dir \in Directories /\ survivors = {dir} /\ dir.index = None /\ dir.records = {}
    BY Zenon DEF Init, Directories
  <1>2. StorageTypes
    BY <1>1, ClosedTypes, NoMutationRests DEF Init, StorageTypes
  <1>3. \A d \in survivors : Sound(d, ids)
    BY <1>1, Zenon DEF Sound, Decodable, EntriesOf, Live, NoEntries
  <1>4. LiveMatchesRestart
    BY ClosedTypes, Zenon DEF Init, LiveMatchesRestart
  <1>5. \A p \in Instances :
           Placed(mutation[p]) /\ Working(mutation[p], inst[p], dir, survivors, ids)
    BY NoMutationRests, Zenon DEF Init, Placed, Working
  <1>. QED
    BY <1>2, <1>3, <1>4, <1>5, Zenon DEF StorageInv

\* Every step of the storage keeps the invariant.
LEMMA StorageNext == StorageInv /\ [Next]_vars => StorageInv'
  <1> SUFFICES ASSUME StorageInv, [Next]_vars
               PROVE  StorageInv'
    OBVIOUS
  <1>1. ASSUME NEW p \in Instances, EnsureOpen(p)
        PROVE  StorageInv'
    BY <1>1, EnsureOpenStep
  <1>2. ASSUME NEW p \in Instances, Mutation(p)
        PROVE  StorageInv'
    BY <1>2, StorePersistentStep, DropPersistentStep DEF Mutation
  <1>3. ASSUME NEW p \in Instances, Step(p)
        PROVE  StorageInv'
    BY <1>3, StepStep
  <1>4. ASSUME NEW p \in Instances, Fails(p)
        PROVE  StorageInv'
    BY <1>4, FailsStep
  <1>5. ASSUME NEW p \in Instances, Shutdown(p)
        PROVE  StorageInv'
    BY <1>5, ShutdownStep
  <1>6. CASE PowerLoss
    BY <1>6, PowerLossStep
  <1>7. CASE UNCHANGED vars
    BY <1>7, Zenon DEF vars, StorageInv, StorageTypes, LiveMatchesRestart
  <1>. QED
    BY <1>1, <1>2, <1>3, <1>4, <1>5, <1>6, <1>7 DEF Next

\* The inductive invariant holds in every state of the store.
THEOREM StorageInvariant == Spec => []StorageInv
  BY StorageInit, StorageNext, PTL DEF Spec

\* Whatever directory a loss of power leaves, its index decodes and every name
\* it selects has its whole record (PublishIndex and WriteRecord).
THEOREM SelectedReadableHolds == Spec => []SelectedReadable
  <1>1. StorageInv => SelectedReadable
    BY ZenonT(40) DEF StorageInv, StorageTypes, Sound, SelectedReadable
  <1>. QED
    BY <1>1, StorageInvariant, PTL

\* No record file is left behind that neither a name nor the cleanup intent
\* refers to (StorePersistent, CleanPriorIntent and EncodeIndex).
THEOREM NoOrphanRecordHolds == Spec => []NoOrphanRecord
  <1>1. StorageInv => NoOrphanRecord
    BY DEF StorageInv, StorageTypes, Sound, NoOrphanRecord
  <1>. QED
    BY <1>1, StorageInvariant, PTL

\* The one open instance holds what a restart would read (PublishIndex).
THEOREM LiveMatchesRestartHolds == Spec => []LiveMatchesRestart
  <1>1. StorageInv => LiveMatchesRestart
    BY Zenon DEF StorageInv
  <1>. QED
    BY <1>1, StorageInvariant, PTL

--------------------------------------------------------------------------------
(* The files implement the abstract store.                                  *)

Selections(directories) == {Selection(d) : d \in directories}

\* A step that the abstract store does not see, but for a refusal.
Kept ==
    /\ Selection(dir') = Selection(dir)
    /\ Selections(survivors') = Selections(survivors)

\* A step that keeps what the files select, and acknowledges nothing, is a
\* stutter of the store.
LEMMA KeptRefines ==
    ASSUME Kept, result' \in {result, "failed", "none"}
    PROVE  [Store!Next]_(Store!storeVars)
  <1>1. CASE result' = result
    BY <1>1 DEF Kept, Selections, Store!storeVars
  <1>2. CASE result' \in {"failed", "none"}
    BY <1>2 DEF Kept, Selections, Store!Next, Store!Refuse
  <1>. QED BY <1>1, <1>2

\* The selection is that of the entries.
LEMMA SelectionOfEntries ==
    ASSUME NEW d, NEW e, EntriesOf(d.index) = EntriesOf(e.index)
    PROVE  Selection(d) = Selection(e)
  BY Zenon DEF Selection

\* Two sets of directories that select the same, one by one, select the same.
LEMMA SameSelections ==
    ASSUME NEW D, NEW E,
           \A d \in D : \E e \in E : Selection(d) = Selection(e),
           \A e \in E : \E d \in D : Selection(d) = Selection(e)
    PROVE  Selections(D) = Selections(E)
  BY DEF Selections

\* A directory that a call adds or replaces and that selects the same.
LEMMA AddedKeeps ==
    ASSUME dir \in survivors, EntriesOf(dir'.index) = EntriesOf(dir.index),
           \/ survivors' = survivors \cup {dir'}
           \/ survivors' = (survivors \ {dir}) \cup {dir'}
           \/ survivors' = survivors /\ dir' = dir
    PROVE  Kept
  <1>1. Selection(dir') = Selection(dir)
    BY SelectionOfEntries, Zenon
  <1>2. \A d \in survivors' : \E e \in survivors : Selection(d) = Selection(e)
    BY <1>1
  <1>3. \A e \in survivors : \E d \in survivors' : Selection(d) = Selection(e)
    BY <1>1
  <1>4. Selections(survivors') = Selections(survivors)
    BY <1>2, <1>3, SameSelections, Zenon
  <1>. QED
    BY <1>1, <1>4 DEF Kept

\* A change of the directory besides its index keeps what the survivors
\* select.
LEMMA UnsyncedKeeps ==
    ASSUME dir \in survivors, NEW d, d.index = dir.index, Unsynced(d)
    PROVE  Kept
  <1>1. dir' = d /\ survivors' = survivors \cup {dir'}
    BY DEF Unsynced
  <1>2. EntriesOf(dir'.index) = EntriesOf(dir.index)
    BY <1>1
  <1>. QED
    BY <1>1, <1>2, AddedKeeps

\* Synchronising the directory is the store's own synchronisation.
LEMMA SyncRefines ==
    ASSUME survivors' = {dir}, dir' = dir, result' = result
    PROVE  [Store!Next]_(Store!storeVars)
  <1>1. Selections(survivors') = {Selection(dir)}
    BY DEF Selections
  <1>2. Store!Settle
    BY <1>1 DEF Store!Settle, Selections
  <1>. QED
    BY <1>2 DEF Store!Next

\* The rename that ends the stage "select" changes one name's selection, to a
\* record that no surviving directory selects, or to none.
LEMMA RenameRefines ==
    ASSUME StorageInv, NEW p \in Instances, RenameIndex(p)
    PROVE  [Store!Next]_(Store!storeVars)
  <1> DEFINE m == mutation[p]
             n == m.name
             e == Renamed
             revision == IF m.metadata = None THEN None ELSE m.metadata.id
  <1>1. m.call = "rename" /\ result' = result
    BY DEF RenameIndex, Does
  <1>2. Known(p)
    BY <1>1, Running, SMTT(30)
  <1>3. Adopted(p, e)
    BY RenameAdopts
  <1> HIDE DEF e
  <1>4. m.stage \in {"clean", "settle", "intend", "select"}
    BY <1>1, <1>2, Zenon DEF Known, Placed, Mutations, Stages, RecordCalls
  <1>5. /\ dir' = e /\ survivors' = survivors \cup {dir'}
        /\ EntriesOf(dir'.index) = NextIndex(m, inst[p]).entries
        /\ inst[p].entries = EntriesOf(dir.index) /\ dir \in survivors
    BY <1>2, <1>3, Zenon DEF Adopted, Known
  <1>6. CASE m.stage # "select"
    <2>1. EntriesOf(dir'.index) = EntriesOf(dir.index)
      BY <1>5, <1>6 DEF NextIndex
    <2>. QED
      BY <1>1, <1>5, <2>1, AddedKeeps, KeptRefines, Zenon
  <1>7. CASE m.stage = "select"
    <2>1. EntriesOf(dir'.index) = [EntriesOf(dir.index) EXCEPT ![n] = m.metadata]
      BY <1>5, <1>7, SMTT(30) DEF NextIndex
    <2>2. /\ n \in Names /\ m.metadata \in Metadata \cup {None}
          /\ EntriesOf(dir.index) \in Entries
      BY <1>2, IndexTypes, Zenon DEF Known, Mutations
    <2>3. Selection(dir') = [Selection(dir) EXCEPT ![n] = revision]
      BY <2>1, <2>2, ZenonT(40) DEF Selection, Entries
    <2>4. \A d \in survivors : EntriesOf(d.index) \in Entries
      BY <1>2, IndexTypes, Zenon DEF Known
    <2>5. ASSUME m.metadata # None, NEW d \in survivors, NEW k \in Names
          PROVE  Selection(d)[k] # m.metadata.id
      <3>1. Unused(m, survivors) /\ Unselected(m)
        BY <1>1, <1>2, <1>7, Zenon DEF Known, Working, Unselected
      <3>2. k \in Live(EntriesOf(d.index)) => EntriesOf(d.index)[k].id # m.metadata.id
        BY <2>5, <3>1, Zenon DEF Unused
      <3>3. m.metadata.id # None
        BY <2>2, <2>5, CredentialAssumption, Zenon DEF Metadata
      <3>. QED
        BY <3>2, <3>3, Zenon DEF Selection, Live
    <2>6. ASSUME m.metadata = None
          PROVE  Selection(dir)[n] # None
      <3>1. EntriesOf(dir.index)[n] # None
        BY <1>1, <1>2, <1>5, <1>7, <2>6, Zenon DEF Known, Working, Retires, Unselected
      <3>2. EntriesOf(dir.index)[n] \in Metadata
        BY <2>2, <3>1, Zenon DEF Entries
      <3>. QED
        BY <2>2, <3>1, <3>2, CredentialAssumption, Zenon DEF Selection, Metadata
    <2>7. revision # Selection(dir)[n]
      BY <1>5, <2>2, <2>5, <2>6, Zenon
    <2>8. revision # None => \A map \in Selections(survivors), k \in Names : map[k] # revision
      BY <2>5, Zenon DEF Selections
    <2>9. Selections(survivors') = Selections(survivors) \cup {Selection(dir')}
      BY <1>5 DEF Selections
    <2>10. Selection(dir')[n] = revision
      BY <2>2, <2>3, Zenon DEF Selection
    <2> HIDE DEF revision, n
    <2>11. Store!Change(n, revision)
      BY <1>1, <2>3, <2>7, <2>8, <2>9, Zenon DEF Store!Change, Store!Fresh, Selections
    <2>. QED
      BY <2>2, <2>10, <2>11 DEF Store!Next
  <1>. QED BY <1>6, <1>7

\* An answer "ok" follows the last synchronisation of the selection.
LEMMA ReturnRefines ==
    ASSUME StorageInv, NEW p \in Instances, ReturnStep(p)
    PROVE  [Store!Next]_(Store!storeVars)
  <1>1. mutation[p].call = "return" /\ result' = "ok" /\ dir' = dir /\ survivors' = survivors
    BY DEF ReturnStep, Does, files
  <1>2. Known(p)
    BY <1>1, Running
  <1>3. mutation[p].stage = "return"
    BY <1>1, <1>2, Zenon DEF Known, Placed, Mutations, Stages, PublishCalls, RemovalCalls, RecordCalls
  <1>4. \A e \in survivors : EntriesOf(e.index) = EntriesOf(dir.index)
    BY <1>2, <1>3, Zenon DEF Known, Working, Durable
  <1>5. \A e \in survivors : Selection(e) = Selection(dir)
    BY <1>4, SelectionOfEntries, Zenon
  <1>6. Selections(survivors) = {Selection(dir)}
    BY <1>2, <1>5, Zenon DEF Selections, Known
  <1>7. Store!Acknowledge
    BY <1>1, <1>6 DEF Store!Acknowledge, Selections
  <1>. QED
    BY <1>7 DEF Store!Next

\* A step that touches no file keeps what is selected.
LEMMA UnchangedKeeps ==
    ASSUME dir' = dir, survivors' = survivors
    PROVE  Kept
  BY DEF Kept

\* Every call of a mutation is a step of the store or a stutter.
LEMMA StepRefines ==
    ASSUME StorageInv, NEW p \in Instances, Step(p)
    PROVE  [Store!Next]_(Store!storeVars)
  <1>1. dir \in survivors /\ dir \in Directories
    BY Zenon DEF StorageInv, StorageTypes
  <1>2. CASE Encode(p)
    BY <1>2, UnchangedKeeps, KeptRefines DEF Encode, Abandon, files
  <1>3. CASE UnlinkPending(p)
    <2>1. [dir EXCEPT !.pending = None].index = dir.index
      BY <1>1 DEF Directories
    <2>2. Kept
      BY <1>1, <1>3, <2>1, UnchangedKeeps, UnsyncedKeeps, Zenon DEF UnlinkPending, files
    <2>. QED
      BY <1>3, <2>2, KeptRefines DEF UnlinkPending
  <1>4. CASE WritePending(p)
    <2>1. [dir EXCEPT !.pending = NextIndex(mutation[p], inst[p])].index = dir.index
      BY <1>1 DEF Directories
    <2>2. Kept
      BY <1>1, <1>4, <2>1, UnsyncedKeeps, Zenon DEF WritePending
    <2>. QED
      BY <1>4, <2>2, KeptRefines DEF WritePending
  <1>5. CASE SyncPending(p)
    <2>1. dir'.index = dir.index
      BY <1>1, <1>5 DEF SyncPending, Directories
    <2>2. Kept
      BY <1>1, <1>5, <2>1, AddedKeeps DEF SyncPending
    <2>. QED
      BY <1>5, <2>2, KeptRefines DEF SyncPending
  <1>6. CASE RenameIndex(p)
    BY <1>6, RenameRefines
  <1>7. CASE RemoveRecord(p)
    <2>1. \A records : [dir EXCEPT !.records = records].index = dir.index
      BY <1>1 DEF Directories
    <2>2. Kept
      BY <1>1, <1>7, <2>1, UnchangedKeeps, UnsyncedKeeps, Zenon DEF RemoveRecord, files
    <2>. QED
      BY <1>7, <2>2, KeptRefines DEF RemoveRecord
  <1>8. CASE WriteRecord(p)
    <2>1. \A records : [dir EXCEPT !.records = records].index = dir.index
      BY <1>1 DEF Directories
    <2>2. Kept
      BY <1>1, <1>8, <2>1, UnsyncedKeeps, Zenon DEF WriteRecord
    <2>. QED
      BY <1>8, <2>2, KeptRefines DEF WriteRecord
  <1>9. CASE SyncRecord(p)
    <2>1. dir'.index = dir.index
      BY <1>1, <1>9 DEF SyncRecord, Directories
    <2>2. Kept
      BY <1>1, <1>9, <2>1, AddedKeeps DEF SyncRecord
    <2>. QED
      BY <1>9, <2>2, KeptRefines DEF SyncRecord
  <1>10. CASE SyncRemoval(p)
    BY <1>10, SyncRefines DEF SyncRemoval
  <1>11. CASE SyncDir(p)
    BY <1>11, SyncRefines DEF SyncDir
  <1>12. CASE ReturnStep(p)
    BY <1>12, ReturnRefines
  <1>. QED
    BY <1>2, <1>3, <1>4, <1>5, <1>6, <1>7, <1>8, <1>9, <1>10, <1>11, <1>12 DEF Step

\* A loss of power is the store's loss of power.
LEMMA PowerLossRefines ==
    ASSUME PowerLoss
    PROVE  [Store!Next]_(Store!storeVars)
  <1>1. dir' \in survivors /\ survivors' = {dir'} /\ result' = "none"
    BY DEF PowerLoss
  <1>2. Selection(dir') \in Selections(survivors) /\ Selections(survivors') = {Selection(dir')}
    BY <1>1 DEF Selections
  <1>3. Store!PowerLoss
    BY <1>1, <1>2 DEF Store!PowerLoss, Selections
  <1>. QED
    BY <1>3 DEF Store!Next

\* Every step of the storage is a step of the store or a stutter.
LEMMA NextRefines == StorageInv /\ [Next]_vars => [Store!Next]_(Store!storeVars)
  <1> SUFFICES ASSUME StorageInv, [Next]_vars
               PROVE  [Store!Next]_(Store!storeVars)
    OBVIOUS
  <1>1. ASSUME NEW p \in Instances,
               EnsureOpen(p) \/ Mutation(p) \/ Fails(p) \/ Shutdown(p)
        PROVE  [Store!Next]_(Store!storeVars)
    <2>1. CASE EnsureOpen(p)
      BY <2>1, UnchangedKeeps, KeptRefines, Zenon DEF EnsureOpen, files
    <2>2. ASSUME NEW n \in Names, NEW on_conflict, StorePersistent(p, n, on_conflict)
          PROVE  [Store!Next]_(Store!storeVars)
      <3>1. dir' = dir /\ survivors' = survivors
        BY <2>2, Zenon DEF StorePersistent, files
      <3>2. result' \in {"failed", "none"}
        BY <2>2, Zenon DEF StorePersistent, Answer, Begin
      <3>. QED
        BY <3>1, <3>2, UnchangedKeeps, KeptRefines, Zenon
    <2>3. ASSUME NEW n \in Names, DropPersistent(p, n)
          PROVE  [Store!Next]_(Store!storeVars)
      <3>1. dir' = dir /\ survivors' = survivors
        BY <2>3, Zenon DEF DropPersistent, files
      <3>2. result' \in {"failed", "none"}
        BY <2>3, Zenon DEF DropPersistent, Answer, Begin
      <3>. QED
        BY <3>1, <3>2, UnchangedKeeps, KeptRefines, Zenon
    <2>4. CASE Fails(p)
      BY <2>4, UnchangedKeeps, KeptRefines, Zenon DEF Fails, Abandon, files
    <2>5. CASE Shutdown(p)
      BY <2>5, UnchangedKeeps, KeptRefines, Zenon DEF Shutdown, files
    <2>. QED
      BY <1>1, <2>1, <2>2, <2>3, <2>4, <2>5, Zenon DEF Mutation
  <1>2. ASSUME NEW p \in Instances, Step(p)
        PROVE  [Store!Next]_(Store!storeVars)
    BY <1>2, StepRefines
  <1>3. CASE PowerLoss
    BY <1>3, PowerLossRefines
  <1>4. CASE UNCHANGED vars
    BY <1>4, UnchangedKeeps, KeptRefines DEF vars, files
  <1>. QED
    BY <1>1, <1>2, <1>3, <1>4 DEF Next

\* The store with its files, its renames, its synchronisations, its failures
\* and its losses of power implements the abstract one: each mutation takes
\* effect in one step, and an acknowledged one stays (StorePersistent,
\* DropPersistent, PublishIndex).
THEOREM StorageImplementsStore == Spec => ImplementsStore
  <1>1. Init => Store!Init
    <2> SUFFICES ASSUME Init
                 PROVE  Store!Init
      OBVIOUS
    <2>1. dir.index = None /\ survivors = {dir} /\ result = "none"
      BY DEF Init
    <2>2. Selection(dir) = [n \in Names |-> None]
      BY <2>1 DEF Selection, EntriesOf, NoEntries
    <2>3. Selections(survivors) = {Selection(dir)}
      BY <2>1 DEF Selections
    <2>. QED
      BY <2>1, <2>2, <2>3, Zenon DEF Store!Init, Selections
  <1>. QED
    BY <1>1, StorageInvariant, NextRefines, PTL DEF Spec, ImplementsStore, Store!Spec

--------------------------------------------------------------------------------
(* The provider.                                                            *)

Resolutions ==
    [phase : {"idle", "memory", "persistent", "resolved"}, name : Names \cup {None},
     found : BOOLEAN]

\* The flag is set before a temporary secret can exist, and a resolution that
\* asks the persistent storage has found the temporary secret of a name that
\* was in both storages all along.
ProviderInv ==
    /\ resolver \in Resolutions
    /\ memory # {} \/ creating # None => mayContain
    /\ collided => Collision
    /\ resolver.phase = "persistent" /\ collided => resolver.found
    /\ CollisionFails

\* The invariant of the resolution holds before anything was created.
LEMMA ProviderInitial == ProviderInit => ProviderInv
  BY DEF ProviderInit, ProviderInv, Resolutions, NoResolution, CollisionFails

\* A resolution stays a resolution.
LEMMA ProviderTypes ==
    ASSUME ProviderInv, ProviderNext
    PROVE  resolver' \in Resolutions
  <1>0. NoResolution \in Resolutions
    BY DEF NoResolution, Resolutions
  <1>1. CASE StorageStep
    BY <1>0, <1>1 DEF StorageStep, ProviderInv
  <1>2. CASE ProviderStep
    <2>1. ASSUME NEW n \in Resolvable, Resolve(n)
          PROVE  resolver' \in Resolutions
      BY <2>1, ClientAssumption, Zenon DEF Resolve, Resolutions
    <2>2. CASE LookupMemory
      <3>1. (resolver.name \in memory) \in BOOLEAN
        OBVIOUS
      <3>. QED
        BY <2>2, <3>1, Zenon DEF LookupMemory, ProviderInv, Resolutions
    <2>3. CASE SelectPersistentCredential
      BY <1>0, <2>3, Zenon DEF SelectPersistentCredential, ProviderInv, Resolutions
    <2>4. CASE EndResolution
      BY <1>0, <2>4 DEF EndResolution
    <2>5. CASE resolver' = resolver
      BY <2>5 DEF ProviderInv
    <2>. QED
      BY <1>2, <2>1, <2>2, <2>3, <2>4, <2>5
      DEF ProviderStep, CreateCredentialSecret, StoreTemporary, DropTemporary
  <1>. QED
    BY <1>1, <1>2 DEF ProviderNext

\* The flag is set before a temporary secret is created and as long as there
\* is one.
LEMMA FlagStep ==
    ASSUME ProviderInv, ProviderNext
    PROVE  memory' # {} \/ creating' # None => mayContain'
  BY Zenon DEF ProviderInv, ProviderNext, StorageStep, ProviderStep, CreateCredentialSecret,
         StoreTemporary, DropTemporary, Resolve, LookupMemory, SelectPersistentCredential,
         EndResolution

\* What the name's history says of a resolution that goes on.
LEMMA CollidedStep ==
    ASSUME ProviderNext
    PROVE  /\ collided' => Collision'
           /\ collided' => collided \/ resolver.phase = "idle"
  BY Zenon DEF ProviderNext

\* A resolution that began with the name in both storages finds both or fails.
LEMMA ResolutionStep ==
    ASSUME ProviderInv, LiveMatchesRestart, ProviderNext
    PROVE  /\ resolver'.phase = "persistent" /\ collided' => resolver'.found
           /\ resolver'.phase = "resolved" => ~collided'
  <1>1. resolver \in Resolutions
    BY DEF ProviderInv
  <1>2. /\ collided' => Collision'
        /\ collided' => collided \/ resolver.phase = "idle"
    BY CollidedStep
  <1>3. CASE resolver' = NoResolution
    BY <1>3 DEF NoResolution
  <1>4. CASE resolver' = resolver
    BY <1>1, <1>2, <1>4 DEF ProviderInv, CollisionFails, Resolutions
  <1>5. ASSUME NEW n \in Resolvable, Resolve(n)
        PROVE  /\ resolver'.phase = "persistent" /\ collided' => resolver'.found
               /\ resolver'.phase = "resolved" => ~collided'
    <2>1. resolver'.phase = "persistent" => ~mayContain
      BY <1>5, Zenon DEF Resolve
    <2>2. resolver'.phase = "persistent" => memory' = {}
      BY <1>5, <2>1 DEF Resolve, ProviderInv
    <2>3. resolver'.phase # "resolved"
      BY <1>5 DEF Resolve
    <2>. QED
      BY <1>2, <2>2, <2>3, Zenon DEF Collision
  <1>6. CASE LookupMemory
    <2>1. /\ resolver'.name = resolver.name /\ memory' = memory
          /\ resolver'.phase = "persistent"
          /\ resolver'.found = (resolver.name \in memory)
      BY <1>1, <1>6, Zenon DEF LookupMemory, Resolutions
    <2>2. collided' => resolver'.name \in memory'
      BY <1>2 DEF Collision
    <2>. QED
      BY <2>1, <2>2, Zenon
  <1>7. CASE SelectPersistentCredential /\ resolver' # NoResolution
    <2>1. /\ resolver.phase = "persistent" /\ inst[Client].opened
          /\ inst[Client].entries[resolver.name] # None => ~resolver.found
          /\ resolver' = [resolver EXCEPT !.phase = "resolved", !.found = FALSE]
          /\ dir' = dir
      BY <1>7 DEF SelectPersistentCredential, vars, files
    <2>2. resolver'.phase = "resolved" /\ resolver'.name = resolver.name
      BY <1>1, <2>1 DEF Resolutions
    <2>3. inst[Client].entries = EntriesOf(dir.index)
      BY <2>1, ClientAssumption DEF LiveMatchesRestart
    <2>4. ~collided'
      BY <1>2, <2>1, <2>2, <2>3 DEF Collision, ProviderInv
    <2>. QED
      BY <2>2, <2>4, Zenon
  <1>. QED
    BY <1>3, <1>4, <1>5, <1>6, <1>7, Zenon
    DEF ProviderNext, StorageStep, ProviderStep, CreateCredentialSecret, StoreTemporary,
        DropTemporary, EndResolution

\* Every step of the provider keeps the invariant of the resolution.
LEMMA ProviderInvNext ==
    ProviderInv /\ LiveMatchesRestart /\ [ProviderNext]_allVars => ProviderInv'
  <1> SUFFICES ASSUME ProviderInv, LiveMatchesRestart, [ProviderNext]_allVars
               PROVE  ProviderInv'
    OBVIOUS
  <1>1. CASE ProviderNext
    BY <1>1, ProviderTypes, FlagStep, CollidedStep, ResolutionStep, Zenon
    DEF ProviderInv, CollisionFails
  <1>2. CASE UNCHANGED allVars
    BY <1>2, Zenon DEF allVars, providerVars, vars, files, ProviderInv, CollisionFails, Collision
  <1>. QED BY <1>1, <1>2

\* A step of the provider is one of the storage or leaves it alone.
LEMMA ProviderStepsStorage == [ProviderNext]_allVars => [Next]_vars
  <1> SUFFICES ASSUME [ProviderNext]_allVars
               PROVE  [Next]_vars
    OBVIOUS
  <1>1. CASE StorageStep
    BY <1>1, ClientAssumption, Zenon DEF StorageStep, Next
  <1>2. CASE ProviderStep
    BY <1>2, Zenon DEF ProviderStep, CreateCredentialSecret, StoreTemporary, DropTemporary,
       Resolve, LookupMemory, SelectPersistentCredential, EndResolution
  <1>3. CASE UNCHANGED allVars
    BY <1>3 DEF allVars
  <1>. QED
    BY <1>1, <1>2, <1>3 DEF ProviderNext

\* The persistent storage that a provider resolves from is the storage proved
\* above, whatever the provider and DuckDB's memory storage do beside it.
THEOREM ProviderKeepsStorage == ProviderSpec => Spec
  BY ProviderStepsStorage, PTL DEF ProviderSpec, ProviderInit, Spec

\* A name that has been in both storages since its resolution began is never
\* resolved to a secret (CreateCredentialSecret and SelectPersistentCredential).
THEOREM CollisionFailsHolds == ProviderSpec => []CollisionFails
  <1>1. ProviderInv => CollisionFails
    BY Zenon DEF ProviderInv
  <1>2. ProviderSpec => []LiveMatchesRestart
    BY ProviderKeepsStorage, LiveMatchesRestartHolds, PTL
  <1>. QED
    BY <1>1, <1>2, ProviderInitial, ProviderInvNext, PTL DEF ProviderSpec

================================================================================
