----------------------------- MODULE AuditChain ------------------------------
(***************************************************************************)
(* The table of audit entries of one organization (store/audit.go), in the *)
(* order of their row ids, and its hash chain.  An entry is known by its   *)
(* record, stored under its primary key, and so is its hash: prev is the   *)
(* hash the entry chains from.                                             *)
(***************************************************************************)
EXTENDS Naturals, Sequences, FiniteSets, Functions

CONSTANT None       \* no hash: what the first entry chains from

\* The places at, from the first to the last.
InOrder(at) ==
    CHOOSE f \in Surjection(1..Cardinality(at), at) :
        \A i, j \in DOMAIN f : i < j => f[i] < f[j]

\* What is left of s at these places.
Select(s, at) == [i \in 1..Cardinality(at) |-> s[InOrder(at)[i]]]

Stored(rows) == {rows[i].id : i \in DOMAIN rows}

\* The hash of the newest entry.
ChainHead(rows) == IF rows = <<>> THEN None ELSE rows[Len(rows)].id

\* A batch's entries, chained from the head and carried forward in memory.
Chained(head, batch) ==
    [i \in DOMAIN batch |->
        [id |-> batch[i], prev |-> IF i = 1 THEN head ELSE batch[i - 1]]]

\* What the entry in place i has before it.
Preceding(rows, i) == IF i = 1 THEN None ELSE rows[i - 1].id

\* VerifyAuditChain: the places where an entry chains from another one.
Breaks(rows) == {i \in DOMAIN rows : rows[i].prev # Preceding(rows, i)}

\* PurgeActivity: what is left when the records of old have come of age.
Kept(rows, old) == Select(rows, {i \in DOMAIN rows : rows[i].id \notin old})
=============================================================================
