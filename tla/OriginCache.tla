----------------------------- MODULE OriginCache -----------------------------
(***************************************************************************)
(* The cache of column lineage, engine/origincache.go: a map of the        *)
(* statements whose lineage is kept, and a ring that says which one makes  *)
(* room for the next.  Its lock makes each operation one step.  Forgetting *)
(* a connection empties the map and leaves the ring, so the ring may hold  *)
(* statements that are gone, and the same statement twice.                 *)
(***************************************************************************)
EXTENDS Integers, Sequences, FiniteSets

CONSTANTS
    Key,    \* a pool key and a statement's text
    Conn,   \* saved connections
    of,     \* of[k]: the connection a key begins with
    Limit   \* originCacheLimit

ASSUME OriginAssumption == of \in [Key -> Conn] /\ Limit \in Nat \ {0}

VARIABLES
    entries,    \* the keys of the map
    order,      \* the ring
    next        \* the slot, less one, that makes room next

originVars == <<entries, order, next>>

OriginTypeOK ==
    /\ entries \subseteq Key
    /\ order \in Seq(Key) /\ Len(order) <= Limit
    /\ next \in 0..(Limit - 1)

OriginInit == entries = {} /\ order = <<>> /\ next = 0

\* Seeded fault: the slot is given away and its statement kept.
Overwritten == entries

\* What is left once the statement of the next slot has made room.
Relieved == entries \ {order[next + 1]}

\* Seeded fault: the ring is taken to be full one slot too late.
HasFreeSlotOrOne == Len(order) <= Limit

HasFreeSlot == Len(order) < Limit

\* A statement already kept has its lineage replaced, in its slot.
PutAgain(k) == k \in entries /\ UNCHANGED originVars

PutAppend(k) ==
    /\ k \notin entries /\ HasFreeSlot
    /\ order' = Append(order, k)
    /\ entries' = entries \cup {k}
    /\ UNCHANGED next

PutInstead(k) ==
    /\ k \notin entries /\ ~HasFreeSlot
    /\ order' = [order EXCEPT ![next + 1] = k]
    /\ entries' = Relieved \cup {k}
    /\ next' = (next + 1) % Limit

Put(k) == PutAgain(k) \/ PutAppend(k) \/ PutInstead(k)

Forget(c) ==
    /\ entries' = {k \in entries : of[k] # c}
    /\ UNCHANGED <<order, next>>

OriginNext == (\E k \in Key : Put(k)) \/ (\E c \in Conn : Forget(c))

OriginSpec == OriginInit /\ [][OriginNext]_originVars

-----------------------------------------------------------------------------
\* Every statement kept has a slot: one that had none would stay until its
\* connection is forgotten, and its room with it.
EveryEntryHasASlot ==
    \A k \in entries : \E i \in 1..Len(order) : order[i] = k

\* However statements come, are forgotten and come again, no more than Limit
\* of them are kept (origincache.go, originCacheLimit).
Bounded == Cardinality(entries) <= Limit
=============================================================================
