------------------------------ MODULE TxnLedger ------------------------------
(***************************************************************************)
(* What the table of manual transactions promises, without requests, locks *)
(* or connections: an id is listed at most once and never comes back, the  *)
(* database decides each transaction once, and nothing is committed while  *)
(* the table still offers the transaction to other requests.               *)
(***************************************************************************)
CONSTANT Txn

VARIABLES
    stage,      \* unlisted -> listed -> delisted
    outcome     \* none -> open -> committed or rolledback

vars == <<stage, outcome>>

Init ==
    /\ stage = [t \in Txn |-> "unlisted"]
    /\ outcome = [t \in Txn |-> "none"]

Open(t) ==
    /\ outcome[t] = "none"
    /\ outcome' = [outcome EXCEPT ![t] = "open"]
    /\ UNCHANGED stage

\* The database may discard a transaction before its entry is inserted.
List(t) ==
    /\ stage[t] = "unlisted" /\ outcome[t] # "none"
    /\ stage' = [stage EXCEPT ![t] = "listed"]
    /\ UNCHANGED outcome

Delist(ts) ==
    /\ \A t \in ts : stage[t] = "listed"
    /\ stage' = [t \in Txn |-> IF t \in ts THEN "delisted" ELSE stage[t]]
    /\ UNCHANGED outcome

Commit(t) ==
    /\ stage[t] = "delisted" /\ outcome[t] = "open"
    /\ outcome' = [outcome EXCEPT ![t] = "committed"]
    /\ UNCHANGED stage

Discard(t) ==
    /\ outcome[t] = "open"
    /\ outcome' = [outcome EXCEPT ![t] = "rolledback"]
    /\ \/ UNCHANGED stage
       \/ /\ stage[t] = "listed"
          /\ stage' = [stage EXCEPT ![t] = "delisted"]

Next ==
    \/ \E t \in Txn : Open(t) \/ List(t) \/ Commit(t) \/ Discard(t)
    \/ \E ts \in SUBSET Txn : Delist(ts)

Spec == Init /\ [][Next]_vars
=============================================================================
