------------------------------ MODULE Workspace ------------------------------
(***************************************************************************)
(* The workspace document of one user: the windows that edit it            *)
(* (rowset-studio's workspace.ts), the requests on their way, and the row  *)
(* they are stored in by compare-and-swap (api/workspace.go,               *)
(* store/workspace.go).  A document is known by the edit that made it.     *)
(***************************************************************************)
EXTENDS Naturals, Sequences

CONSTANTS Window, MaxEdits, MaxRequests

VARIABLES stored,     \* the documents stored so far with what their window had read; the row is the last
          window,     \* the WorkspaceWriter of each window
          request,    \* every PUT sent and where it stands
          edits       \* documents made so far

workspaceVars == <<stored, window, request, edits>>

NoDocument == 0

Revision == Len(stored)      \* of the row; 0 when there is none

\* The document of a revision.
DocumentAt(n) == IF n = 0 THEN NoDocument ELSE stored[n].document

Closed == [open |-> FALSE, revision |-> 0, current |-> NoDocument, saved |-> NoDocument,
           running |-> 0, error |-> FALSE]

WorkspaceInit ==
    /\ stored = <<>> /\ request = <<>> /\ edits = 0
    /\ window = [w \in Window |-> Closed]

Dirty(w) == window[w].current # window[w].saved

-----------------------------------------------------------------------------
\* getWorkspace and a new WorkspaceWriter; without a document it makes the first one.
Open(w) ==
    /\ edits < MaxEdits
    /\ edits' = IF Revision = 0 THEN edits + 1 ELSE edits
    /\ window' = [window EXCEPT ![w] =
         [open |-> TRUE, revision |-> Revision, saved |-> DocumentAt(Revision), running |-> 0, error |-> FALSE,
          current |-> IF Revision = 0 THEN edits' ELSE DocumentAt(Revision)]]
    /\ UNCHANGED <<stored, request>>

\* update.
Edit(w) ==
    /\ window[w].open /\ edits < MaxEdits
    /\ edits' = edits + 1
    /\ window' = [window EXCEPT ![w].current = edits']
    /\ UNCHANGED <<stored, request>>

\* write: the revision and the document leave together.
Sent(w) ==
    Append(request, [by |-> w, revision |-> window[w].revision, document |-> window[w].current,
                     base |-> window[w].saved, at |-> "sent"])

\* flush, and retry after an error; one drain at a time.
Flush(w) ==
    /\ window[w].open /\ window[w].running = 0 /\ Dirty(w) /\ Len(request) < MaxRequests
    /\ request' = Sent(w)
    /\ window' = [window EXCEPT ![w].running = Len(request'), ![w].error = FALSE]
    /\ UNCHANGED <<stored, edits>>

\* Seeded fault: the first save of a window writes whatever is there.
SaveWorkspaceFirst(expected) == expected = 0 \/ Revision = expected

\* SaveWorkspace: the row is written if it still is what the window expects.
SaveWorkspace(expected) == Revision = expected

\* putWorkspace, whenever the request arrives.
Put(i) ==
    /\ request[i].at = "sent"
    /\ IF SaveWorkspace(request[i].revision)
       THEN /\ stored' = Append(stored, [document |-> request[i].document, base |-> request[i].base])
            /\ request' = [request EXCEPT ![i].at = "saved"]
       ELSE /\ request' = [request EXCEPT ![i].at = "conflict"]
            /\ UNCHANGED stored
    /\ UNCHANGED <<window, edits>>

\* The answer of a save: what was sent is saved, and drain sends what was edited since.
Answered(w) ==
    LET sent == request[window[w].running] IN
    [window[w] EXCEPT !.revision = sent.revision + 1, !.saved = sent.document, !.running = 0]

Saved(w) ==
    /\ window[w].running # 0 /\ request[window[w].running].at = "saved"
    /\ window' = [window EXCEPT ![w] = Answered(w)]
    /\ UNCHANGED <<stored, request, edits>>

\* A conflict, or no answer: the request may still arrive.
Fails(w) ==
    /\ window[w].running # 0
    /\ window' = [window EXCEPT ![w].running = 0, ![w].error = TRUE]
    /\ UNCHANGED <<stored, request, edits>>

\* The window is closed, its request stays on its way.
Leave(w) ==
    /\ window[w].open
    /\ window' = [window EXCEPT ![w] = Closed]
    /\ UNCHANGED <<stored, request, edits>>

WorkspaceNext ==
    \/ \E w \in Window : Open(w) \/ Edit(w) \/ Flush(w) \/ Saved(w) \/ Fails(w) \/ Leave(w)
    \/ \E i \in DOMAIN request : Put(i)

WorkspaceSpec == WorkspaceInit /\ [][WorkspaceNext]_workspaceVars

-----------------------------------------------------------------------------
\* Every document was made from the one it replaced ("a stale window cannot
\* overwrite a newer workspace", store/workspace.go:27), and a document a window
\* shows as saved is stored under the revision it knows, although it was edited on
\* while the save was under way.
NothingOverwritten ==
    /\ \A n \in DOMAIN stored : stored[n].base = DocumentAt(n - 1)
    /\ \A w \in Window : window[w].open =>
         window[w].revision <= Revision /\ DocumentAt(window[w].revision) = window[w].saved
=============================================================================
