---------------------------- MODULE CapacityPools ----------------------------
(***************************************************************************)
(* What the admission controller promises, with no counter, ticket or      *)
(* permit in it: each kind of resource is a family of pools, one for each  *)
(* dimension, and what a caller has of the kind it has of all the pools it *)
(* is charged to at once.  Capacity goes from the pools to one caller and  *)
(* back, never beyond a pool, and once closed only back.                   *)
(***************************************************************************)
EXTENDS Naturals, FiniteSets

CONSTANTS
    Callers, Kinds, Dimensions,
    Members,    \* [Kinds -> [Dimensions -> SUBSET Callers]]: who is charged to a pool
    Capacity    \* [Kinds -> [Dimensions -> Nat]]

VARIABLES
    open,
    has         \* [Callers -> [Kinds -> Nat]]

poolVars == <<open, has>>

\* What is out of a pool.
Used(holdings, k, d) == Cardinality(UNION {{c} \X (1..holdings[c][k]) : c \in Members[k][d]})

Init ==
    /\ open = TRUE
    /\ has = [c \in Callers |-> [k \in Kinds |-> 0]]

Take(c, k) ==
    /\ open
    /\ has[c][k] < has'[c][k]
    /\ has' = [has EXCEPT ![c][k] = has'[c][k]]
    /\ \A d \in Dimensions : Used(has', k, d) <= Capacity[k][d]
    /\ UNCHANGED open

GiveBack(c, k) ==
    /\ has'[c][k] < has[c][k]
    /\ has' = [has EXCEPT ![c][k] = has'[c][k]]
    /\ UNCHANGED open

Close == open /\ open' = FALSE /\ UNCHANGED has

Next == (\E c \in Callers, k \in Kinds : Take(c, k) \/ GiveBack(c, k)) \/ Close

Spec == Init /\ [][Next]_poolVars
================================================================================
