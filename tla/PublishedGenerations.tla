------------------------- MODULE PublishedGenerations -------------------------
(***************************************************************************)
(* What loading and reloading packages promises, with no mutex, lease or   *)
(* candidate in it: a statement reads the catalog when it is bound and     *)
(* publishes, if at all, in one step, on top of exactly what it has read.  *)
(* The registry of the Runtime follows before anything else is published   *)
(* and before the statement says so, and once dropped it stays dropped.    *)
(***************************************************************************)
EXTENDS Naturals

CONSTANTS Contexts, Connectors, Null

VARIABLES
    catalog,    \* [Connectors -> Nat]: the generations DuckDB sees, 0 for none
    registry,   \* the generations the Runtime serves, Null once dropped
    statement,  \* [Contexts -> what the statement has read and whether it has published]
    result      \* [Contexts -> how the last statement has ended]

publicationVars == <<catalog, registry, statement, result>>

NoGenerations == [k \in Connectors |-> 0]

Idle == [running |-> FALSE, base |-> NoGenerations, published |-> FALSE]

Init ==
    /\ catalog = NoGenerations /\ registry = NoGenerations
    /\ statement = [c \in Contexts |-> Idle]
    /\ result = [c \in Contexts |-> "NONE"]

Bind(c) ==
    /\ ~statement[c].running
    /\ statement' = [statement EXCEPT ![c] = [running |-> TRUE, base |-> catalog, published |-> FALSE]]
    /\ result' = [result EXCEPT ![c] = "NONE"]
    /\ UNCHANGED <<catalog, registry>>

\* One connector moves to a generation newer than all that was read, the others stay.
Publish(c) ==
    LET s == statement[c]
    IN  /\ s.running /\ ~s.published
        /\ s.base = catalog /\ registry = catalog
        /\ \E k \in Connectors : /\ catalog' = [s.base EXCEPT ![k] = catalog'[k]]
                                 /\ \A other \in Connectors : s.base[other] < catalog'[k]
        /\ statement' = [statement EXCEPT ![c] = [running |-> TRUE, base |-> s.base, published |-> TRUE]]
        /\ UNCHANGED <<registry, result>>

Follow == registry # Null /\ registry' = catalog /\ UNCHANGED <<catalog, statement, result>>

Drop == registry = catalog /\ registry' = Null /\ UNCHANGED <<catalog, statement, result>>

\* A change is reported if and only if there was one, and when the Runtime serves it.
End(c, outcome) ==
    /\ statement[c].running
    /\ statement[c].published => registry \in {catalog, Null}
    /\ outcome = "CHANGED" <=> statement[c].published
    /\ statement' = [statement EXCEPT ![c] = Idle]
    /\ result' = [result EXCEPT ![c] = outcome]
    /\ UNCHANGED <<catalog, registry>>

Next ==
    \/ \E c \in Contexts : Bind(c) \/ Publish(c)
    \/ \E c \in Contexts, outcome \in {"ERROR", "UNCHANGED", "CHANGED"} : End(c, outcome)
    \/ Follow \/ Drop

Spec == Init /\ [][Next]_publicationVars
================================================================================
