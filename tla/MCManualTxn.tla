----------------------------- MODULE MCManualTxn -----------------------------
(* Instances of ManualTxn for TLC. *)
EXTENDS ManualTxn, TLC

CONSTANTS r1, u1, u2, c1

\* All slots: one user on one connection.
SameUser == [r \in Req |-> u1]
SameConn == [r \in Req |-> c1]

\* The first slot belongs to another user.
OtherUser == [r \in Req |-> IF r = r1 THEN u2 ELSE u1]

Symmetry     == Permutations(Req) \cup Permutations(Txn)
PairSymmetry == Permutations(Req \ {r1})
=============================================================================
