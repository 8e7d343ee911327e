--------------------------- MODULE CredentialProvider ---------------------------
(***************************************************************************)
(* Resolution of a credential name (query/duckdb/credentials/              *)
(* credential_provider_adapter.cpp) by one database instance, composed     *)
(* with its persistent storage: temporary secrets live in DuckDB's memory  *)
(* storage (external) and are looked up only when a conservative flag says *)
(* that one may exist; the persistent storage is asked after them.         *)
(*                                                                         *)
(* Persistent secrets are enabled.  Which payload and authority a          *)
(* temporary secret has is not told apart, only which names have one.      *)
(***************************************************************************)
EXTENDS CredentialStorage

CONSTANTS
    Client,      \* the instance whose secrets are resolved
    Resolvable   \* bound: names that temporary secrets and resolutions use

ASSUME ClientAssumption == Client \in Instances /\ Resolvable \subseteq Names

VARIABLES
    memory,     \* names of the temporary secrets in DuckDB's memory storage
    mayContain, \* memory_may_contain_cuac
    creating,   \* name of the temporary secret being created, or None
    resolver,   \* the resolution in progress: its phase, the name, and
                \* whether it found a temporary secret (memory_entry)
    collided    \* the resolved name has been in both storages all along

providerVars == <<memory, mayContain, creating, resolver, collided>>
allVars == <<vars, providerVars>>

NoResolution == [phase |-> "idle", name |-> None, found |-> FALSE]

\* The name being resolved is in both storages.
Collision ==
    /\ resolver.phase # "idle"
    /\ resolver.name \in memory
    /\ EntriesOf(dir.index)[resolver.name] # None

--------------------------------------------------------------------------------
(* Temporary secrets.                                                       *)

\* Fault: the flag is set by the resolution that finds a secret, not before
\* the secret is stored.
CreateCredentialSecretUnmarked(n) ==
    /\ creating = None
    /\ creating' = n
    /\ UNCHANGED <<memory, mayContain, resolver, vars>>

\* CreateCredentialSecret, TEMPORARY: the flag is set before DuckDB stores the
\* secret; a replacement takes the authority of the secret it replaces.
CreateCredentialSecret(n) ==
    /\ creating = None
    /\ mayContain' = TRUE
    /\ creating' = n
    /\ UNCHANGED <<memory, resolver, vars>>

\* DuckDB stores the secret it was handed, or gives it up.
StoreTemporary ==
    /\ creating # None
    /\ memory' \in {memory, memory \cup {creating}}
    /\ creating' = None
    /\ UNCHANGED <<mayContain, resolver, vars>>

DropTemporary(n) ==
    /\ n \in memory
    /\ memory' = memory \ {n}
    /\ UNCHANGED <<mayContain, creating, resolver, vars>>

--------------------------------------------------------------------------------
(* DuckdbCredentialProvider::Resolve.                                       *)

Resolve(n) ==
    /\ resolver.phase = "idle"
    /\ resolver' = [phase |-> IF mayContain THEN "memory" ELSE "persistent",
                    name |-> n, found |-> FALSE]
    /\ UNCHANGED <<memory, mayContain, creating, vars>>

LookupMemory ==
    /\ resolver.phase = "memory"
    /\ resolver' = [resolver EXCEPT !.phase = "persistent", !.found = (resolver.name \in memory)]
    /\ UNCHANGED <<memory, mayContain, creating, vars>>

\* SelectPersistentCredential, under the storage mutex, and what Resolve makes
\* of its answer: exactly one storage has the name, and a persistent record can
\* be read.  The storage is opened first; an environment credential may be unset.
SelectPersistentCredential ==
    LET entry == inst[Client].entries[resolver.name]
    IN  /\ resolver.phase = "persistent" /\ Idle(Client)
        /\ \/ /\ inst[Client].opened
              /\ IF entry = None THEN resolver.found
                 ELSE ~resolver.found /\ RecordFor(dir, resolver.name, entry)
              /\ resolver' = [resolver EXCEPT !.phase = "resolved", !.found = FALSE]
           \/ resolver' = NoResolution
        /\ UNCHANGED <<memory, mayContain, creating, vars>>

\* The answer is taken; a cancellation ends a resolution at any phase.
EndResolution ==
    /\ resolver.phase # "idle"
    /\ resolver' = NoResolution
    /\ UNCHANGED <<memory, mayContain, creating, vars>>

--------------------------------------------------------------------------------

ProviderInit ==
    /\ Init
    /\ memory = {}
    /\ mayContain = FALSE
    /\ creating = None
    /\ resolver = NoResolution
    /\ collided = FALSE

\* A step of the storage; when the client's instance ends, so does its memory.
StorageStep ==
    \/ /\ \E p \in Instances : EnsureOpen(p) \/ Mutation(p) \/ Step(p) \/ Fails(p)
       /\ UNCHANGED <<memory, mayContain, creating, resolver>>
    \/ /\ \E p \in Instances \ {Client} : Shutdown(p)
       /\ UNCHANGED <<memory, mayContain, creating, resolver>>
    \/ /\ Shutdown(Client) \/ PowerLoss
       /\ memory' = {}
       /\ mayContain' = FALSE
       /\ creating' = None
       /\ resolver' = NoResolution

ProviderStep ==
    \/ \E n \in Resolvable : CreateCredentialSecret(n)
    \/ StoreTemporary
    \/ \E n \in Resolvable : DropTemporary(n)
    \/ \E n \in Resolvable : Resolve(n)
    \/ LookupMemory
    \/ SelectPersistentCredential
    \/ EndResolution

ProviderNext ==
    /\ StorageStep \/ ProviderStep
    /\ collided' = (Collision' /\ (collided \/ resolver.phase = "idle"))

ProviderSpec == ProviderInit /\ [][ProviderNext]_allVars

\* "A supported cross-storage name collision fails as ambiguous": a resolution
\* never answers with a secret when the name has been in both storages since
\* the resolution began (the flag set before the store in CreateCredentialSecret,
\* and memory_selected in SelectPersistentCredential).
CollisionFails == resolver.phase = "resolved" => ~collided
================================================================================
