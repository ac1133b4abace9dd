---------------------------- MODULE MCBackground ----------------------------
(* Scheduler, Workspace and Sessions share nothing but the server: one part is
   chosen and runs alone. *)
EXTENDS Scheduler, Workspace, Sessions

CONSTANTS q1, q2

VARIABLE part

Input(spec, catchUp, enabled) ==
    [name |-> "n", spec |-> spec, catchUp |-> catchUp, enabled |-> enabled, statement |-> "select", reachable |-> TRUE]

SomeInputs == {
    Input([kind |-> "interval", every |-> 1], FALSE, TRUE),
    Input([kind |-> "weekly", at |-> 0, days |-> {1, 2}], TRUE, TRUE),
    [Input([kind |-> "daily", at |-> 0], FALSE, FALSE) EXCEPT !.statement = "script"] }

\* A first query that is saved and edited, or saved once with a store that may
\* fail, or two that were saved before and are due.
BackgroundInit ==
    /\ part \in {"scheduler", "workspace", "sessions"}
    /\ \/ InitAt(0, [q \in {} |-> 0], {q2}, [runs |-> 0, saves |-> 0, lives |-> 1, faults |-> MaxFaults])
       \/ /\ part = "scheduler"
          /\ InitAt(0, [q \in {} |-> 0], {q2}, [runs |-> 0, saves |-> MaxSaves - 1, lives |-> 1, faults |-> 0])
       \/ /\ part = "scheduler"
          /\ \E in \in SomeInputs : Valid(in) /\
               InitAt(MaxTime, [q \in Query |-> Row(in, 0, 1)], {}, [runs |-> 0, saves |-> MaxSaves, lives |-> MaxLives, faults |-> 0])
    /\ WorkspaceInit /\ SessionsInit

BackgroundNext ==
    /\ \/ part = "scheduler" /\ Next          /\ UNCHANGED <<workspaceVars, sessionVars>>
       \/ part = "workspace" /\ WorkspaceNext /\ UNCHANGED <<vars, sessionVars>>
       \/ part = "sessions"  /\ SessionsNext  /\ UNCHANGED <<vars, workspaceVars>>
    /\ UNCHANGED part

BackgroundSpec ==
    BackgroundInit /\ [][BackgroundNext]_<<vars, workspaceVars, sessionVars, part>> /\ Fairness
=============================================================================
