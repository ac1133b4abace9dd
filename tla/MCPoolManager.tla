---------------------------- MODULE MCPoolManager ----------------------------
(* An instance of PoolManager for TLC. *)
EXTENDS PoolManager, TLC

CONSTANTS r1, r2, r3

\* Two callers that query, and between them all ways to invalidate.
ByRole == r1 :> {"query"} @@ r2 :> {"query", "edit", "delete"} @@ r3 :> {"query", "delete", "close"}
=============================================================================
