---------------------------- MODULE ClientProofs ----------------------------
(***************************************************************************)
(* What a client of the server relies on: that no window of its editor     *)
(* overwrites what it has not seen (Workspace), and that a sign-in that    *)
(* has ended stays ended (Sessions), for any number of windows, edits and  *)
(* requests, tickets, tokens and logouts.                                  *)
(*                                                                         *)
(* Workspace.  The row's revision is the number of documents stored, so a  *)
(* revision names its document for good.  What is inductive is that        *)
(* windows and requests, also those nobody waits for any more, pair a      *)
(* revision with the document of it.                                       *)
(*                                                                         *)
(* Sessions.  A token carries the version its own sign-in was made under,  *)
(* because a refresh goes on only while the version is still that of the   *)
(* token it consumed.  One session to a ticket or token: what a session    *)
(* was made from is spent before the session is, and nothing is spent      *)
(* twice.                                                                  *)
(***************************************************************************)
EXTENDS Workspace, Sessions, SequenceTheorems, TLAPS

WindowType ==
    [open : BOOLEAN, revision : Nat, current : Nat, saved : Nat, running : Nat, error : BOOLEAN]

RequestType ==
    [by : Window, revision : Nat, document : Nat, base : Nat, at : {"sent", "saved", "conflict"}]

\* stored, window and request hold what their names say.
WorkspaceTypeOK ==
    /\ stored \in Seq([document : Nat, base : Nat])
    /\ window \in [Window -> WindowType]
    /\ request \in Seq(RequestType)
    /\ edits \in Nat

\* A window or a request that knows a revision knows the document of it.
Knows(revision, document) == revision <= Len(stored) /\ DocumentAt(revision) = document

\* A saved request is the document of the next revision, and its window waits for it.
Paired ==
    /\ \A w \in Window : Knows(window[w].revision, window[w].saved) /\ window[w].running <= Len(request)
    /\ \A i \in DOMAIN request : Knows(request[i].revision, request[i].base)
    /\ \A i \in DOMAIN request : request[i].at = "saved" => Knows(request[i].revision + 1, request[i].document)

WorkspaceInv ==
    /\ WorkspaceTypeOK
    /\ Paired
    /\ \A n \in DOMAIN stored : stored[n].base = DocumentAt(n - 1)

-----------------------------------------------------------------------------
\* A revision's document is a document.
LEMMA DocumentType ==
    ASSUME WorkspaceTypeOK
    PROVE  /\ Revision \in Nat /\ Len(request) \in Nat /\ DOMAIN stored = 1..Revision /\ DOMAIN request = 1..Len(request)
           /\ \A n \in 0..Revision : DocumentAt(n) \in Nat
  <1>1. Len(stored) \in Nat /\ DOMAIN stored = 1..Len(stored) /\ \A n \in 1..Len(stored) : stored[n] \in [document : Nat, base : Nat]
    BY LenProperties, ElementOfSeq DEF WorkspaceTypeOK
  <1>2. Len(request) \in Nat /\ DOMAIN request = 1..Len(request)
    BY LenProperties DEF WorkspaceTypeOK
  <1>3. \A n \in 1..Len(stored) : stored[n].document \in Nat
    BY <1>1
  <1> QED
    BY <1>1, <1>2, <1>3 DEF DocumentAt, NoDocument, Revision

\* Storing one more document leaves the ones before it (SaveWorkspace).
LEMMA AppendKeeps ==
    ASSUME WorkspaceTypeOK, NEW d \in [document : Nat, base : Nat], stored' = Append(stored, d)
    PROVE  /\ stored' \in Seq([document : Nat, base : Nat])
           /\ Revision' = Revision + 1
           /\ \A n \in 0..Revision : DocumentAt(n)' = DocumentAt(n)
           /\ \A n : n = Revision + 1 => DocumentAt(n)' = d.document
           /\ \A n \in 1..Revision : stored'[n] = stored[n]
           /\ stored'[Revision + 1] = d
  <1>1. /\ stored' \in Seq([document : Nat, base : Nat])
        /\ Len(stored') = Len(stored) + 1
        /\ \A n \in 1..Len(stored) : stored'[n] = stored[n]
        /\ stored'[Len(stored) + 1] = d
    BY AppendProperties DEF WorkspaceTypeOK
  <1>2. Len(stored) \in Nat
    BY LenProperties DEF WorkspaceTypeOK
  <1>3. \A n \in 0..Len(stored) : n = 0 \/ n \in 1..Len(stored)
    BY <1>2
  <1>4. \A n \in 0..Len(stored) : DocumentAt(n)' = DocumentAt(n)
    BY <1>1, <1>3 DEF DocumentAt
  <1>5. \A n \in Nat : n + 1 # 0
    OBVIOUS
  <1>6. \A n : n = Len(stored) + 1 => DocumentAt(n)' = d.document
    BY <1>1, <1>2, <1>5 DEF DocumentAt
  <1> QED
    BY <1>1, <1>4, <1>6 DEF Revision

\* What a window does to itself keeps the pairs if it ends in a pair.
LEMMA WindowStep ==
    ASSUME WorkspaceInv, NEW w \in Window, NEW r \in WindowType, window' = [window EXCEPT ![w] = r],
           Knows(r.revision, r.saved), r.running <= Len(request),
           UNCHANGED <<stored, request>>, edits' \in Nat
    PROVE  WorkspaceInv'
  <1>1. WorkspaceTypeOK'
    BY DEF WorkspaceInv, WorkspaceTypeOK
  <1>2. \A n : DocumentAt(n)' = DocumentAt(n)
    BY DEF DocumentAt
  <1>3. \A n, c : Knows(n, c)' <=> Knows(n, c)
    BY <1>2 DEF Knows
  <1>4. \A v \in Window : window'[v] = r \/ window'[v] = window[v]
    BY DEF WorkspaceInv, WorkspaceTypeOK
  <1>5. Paired'
    BY <1>3, <1>4 DEF WorkspaceInv, Paired, Knows, DocumentAt
  <1> QED
    BY <1>1, <1>2, <1>5 DEF WorkspaceInv

-----------------------------------------------------------------------------
\* A user without a workspace and without windows.
LEMMA InitInv == WorkspaceInit => WorkspaceInv
  <1> SUFFICES ASSUME WorkspaceInit PROVE WorkspaceInv
    OBVIOUS
  <1>1. WorkspaceTypeOK
    BY DEF WorkspaceInit, WorkspaceTypeOK, Closed, WindowType, NoDocument
  <1>2. Paired
    BY DEF WorkspaceInit, Paired, Knows, DocumentAt, Closed, NoDocument
  <1> QED
    BY <1>1, <1>2 DEF WorkspaceInit, WorkspaceInv

\* Every step of a window, a request or the server keeps the pairs.
LEMMA NextInv == WorkspaceInv /\ [WorkspaceNext]_workspaceVars => WorkspaceInv'
  <1> SUFFICES ASSUME WorkspaceInv, [WorkspaceNext]_workspaceVars PROVE WorkspaceInv'
    OBVIOUS
  <1> USE DEF WorkspaceInv
  <1>0. /\ Revision \in Nat /\ Len(request) \in Nat /\ DOMAIN stored = 1..Revision /\ DOMAIN request = 1..Len(request)
        /\ \A n \in 0..Revision : DocumentAt(n) \in Nat
        /\ Len(stored) = Revision
    BY DocumentType DEF Revision
  <1>a. \A w \in Window : window[w] \in WindowType /\ Knows(window[w].revision, window[w].saved) /\ window[w].running <= Len(request)
    BY DEF WorkspaceTypeOK, Paired
  <1>1. ASSUME NEW w \in Window, Open(w) PROVE WorkspaceInv'
    <2> DEFINE r == [open |-> TRUE, revision |-> Revision, saved |-> DocumentAt(Revision), running |-> 0, error |-> FALSE,
                     current |-> IF Revision = 0 THEN edits' ELSE DocumentAt(Revision)]
    <2>1. edits' \in Nat /\ DocumentAt(Revision) \in Nat
      BY <1>1, <1>0 DEF Open, WorkspaceTypeOK
    <2>3. r \in WindowType /\ r.revision = Revision /\ r.saved = DocumentAt(Revision) /\ r.running = 0
      BY <1>0, <2>1 DEF WindowType
    <2>4. window' = [window EXCEPT ![w] = r] /\ UNCHANGED <<stored, request>>
      BY <1>1 DEF Open
    <2> HIDE DEF r
    <2>5. Knows(r.revision, r.saved) /\ r.running <= Len(request)
      BY <2>3, <1>0 DEF Knows
    <2> QED
      BY <2>1, <2>3, <2>4, <2>5, WindowStep
  <1>2. ASSUME NEW w \in Window, Edit(w) PROVE WorkspaceInv'
    <2> DEFINE r == [window[w] EXCEPT !.current = edits']
    <2>1. edits' \in Nat
      BY <1>2 DEF Edit, WorkspaceTypeOK
    <2>2. /\ r \in WindowType /\ r.revision = window[w].revision /\ r.saved = window[w].saved
          /\ r.running = window[w].running
      BY <1>a, <2>1 DEF WindowType
    <2>3. window' = [window EXCEPT ![w] = r] /\ UNCHANGED <<stored, request>>
      BY <1>2 DEF Edit
    <2> HIDE DEF r
    <2> QED
      BY <1>a, <2>1, <2>2, <2>3, WindowStep
  <1>3. ASSUME NEW w \in Window, Flush(w) PROVE WorkspaceInv'
    <2> DEFINE r == [by |-> w, revision |-> window[w].revision, document |-> window[w].current,
                     base |-> window[w].saved, at |-> "sent"]
    <2>1. r \in RequestType /\ request' = Append(request, r)
      BY <1>3 DEF Flush, Sent, WorkspaceTypeOK, WindowType, RequestType
    <2>2. /\ request' \in Seq(RequestType) /\ Len(request') = Len(request) + 1
          /\ \A i \in 1..Len(request) : request'[i] = request[i]
          /\ request'[Len(request) + 1] = r
      BY <2>1 DEF WorkspaceTypeOK
    <2> HIDE DEF r
    <2> DEFINE v0 == [window[w] EXCEPT !.running = Len(request'), !.error = FALSE]
    <2>c. Len(request') \in Nat
      BY <1>0, <2>2
    <2>a. /\ v0 \in WindowType /\ v0.revision = window[w].revision /\ v0.saved = window[w].saved
          /\ v0.running = Len(request')
      BY <1>a, <2>c DEF WindowType
    <2>b. window' = [window EXCEPT ![w] = v0] /\ UNCHANGED <<stored, edits>>
      BY <1>3 DEF Flush
    <2> HIDE DEF v0
    <2>3. WorkspaceTypeOK'
      BY <2>2, <2>a, <2>b DEF WorkspaceTypeOK
    <2>4. r.revision = window[w].revision /\ r.base = window[w].saved /\ r.at = "sent"
      BY DEF r
    <2>5. \A i \in DOMAIN request' : (i \in DOMAIN request /\ request'[i] = request[i]) \/ request'[i] = r
      BY <2>2, <1>0, LenProperties
    <2>6. \A n, c : Knows(n, c)' <=> Knows(n, c)
      BY <2>b DEF Knows, DocumentAt
    <2>7. \A v \in Window : window'[v] = v0 \/ window'[v] = window[v]
      BY <2>b DEF WorkspaceTypeOK
    <2>8. \A v \in Window : Knows(window'[v].revision, window'[v].saved) /\ window'[v].running <= Len(request')
      <3> SUFFICES ASSUME NEW v \in Window
                   PROVE  Knows(window'[v].revision, window'[v].saved) /\ window'[v].running <= Len(request')
        OBVIOUS
      <3>1. CASE window'[v] = v0
        BY <1>a, <2>a, <2>c, <3>1
      <3>2. CASE window'[v] = window[v]
        <4>1. window[v].running \in Nat /\ window[v].running <= Len(request)
          BY <1>a DEF WindowType
        <4> QED
          BY <1>a, <1>0, <2>2, <3>2, <4>1
      <3> QED
        BY <2>7, <3>1, <3>2
    <2>9. \A i \in DOMAIN request' : /\ Knows(request'[i].revision, request'[i].base)
                                     /\ request'[i].at = "saved" => Knows(request'[i].revision + 1, request'[i].document)
      BY <1>a, <2>4, <2>5 DEF Paired
    <2>10. Paired'
      BY <2>6, <2>8, <2>9 DEF Paired
    <2>11. \A n : DocumentAt(n)' = DocumentAt(n)
      BY <2>b DEF DocumentAt
    <2> QED
      BY <2>b, <2>3, <2>10, <2>11
  <1>4. ASSUME NEW w \in Window, Saved(w) PROVE WorkspaceInv'
    <2> DEFINE i == window[w].running
               r == [window[w] EXCEPT !.revision = request[i].revision + 1, !.saved = request[i].document, !.running = 0]
    <2>1. i \in DOMAIN request /\ request[i].at = "saved"
      <3>1. i \in Nat /\ i # 0 /\ i <= Len(request) /\ request[i].at = "saved"
        BY <1>4, <1>a DEF Saved, WindowType
      <3> QED
        BY <1>0, <3>1
    <2>2. request[i] \in RequestType
      BY <2>1 DEF WorkspaceTypeOK
    <2>3. window' = [window EXCEPT ![w] = r] /\ UNCHANGED <<stored, request>> /\ edits' \in Nat
      BY <1>4 DEF Saved, Answered, WorkspaceTypeOK
    <2>4. Knows(request[i].revision + 1, request[i].document)
      BY <2>1 DEF Paired
    <2>5. request[i].revision + 1 \in Nat /\ request[i].document \in Nat
      BY <2>2 DEF RequestType
    <2>6. r \in WindowType /\ r.revision = request[i].revision + 1 /\ r.saved = request[i].document /\ r.running = 0
      BY <1>a, <2>5 DEF WindowType
    <2> HIDE DEF r, i
    <2>7. r.running <= Len(request) /\ Knows(r.revision, r.saved)
      BY <1>0, <2>4, <2>6
    <2> QED
      BY <1>0, <2>3, <2>4, <2>6, <2>7, WindowStep
  <1>5. ASSUME NEW w \in Window, Fails(w) PROVE WorkspaceInv'
    <2> DEFINE r == [window[w] EXCEPT !.running = 0, !.error = TRUE]
    <2>1. window' = [window EXCEPT ![w] = r] /\ UNCHANGED <<stored, request>> /\ edits' \in Nat
      BY <1>5 DEF Fails, WorkspaceTypeOK
    <2>2. r \in WindowType /\ r.revision = window[w].revision /\ r.saved = window[w].saved /\ r.running = 0
      BY <1>a DEF WindowType
    <2> HIDE DEF r
    <2>3. r.running <= Len(request) /\ Knows(r.revision, r.saved)
      BY <1>0, <1>a, <2>2
    <2> QED
      BY <2>1, <2>2, <2>3, WindowStep
  <1>6. ASSUME NEW w \in Window, Leave(w) PROVE WorkspaceInv'
    <2>1. window' = [window EXCEPT ![w] = Closed] /\ UNCHANGED <<stored, request>> /\ edits' \in Nat
      BY <1>6 DEF Leave, WorkspaceTypeOK
    <2>2. Closed \in WindowType /\ Closed.revision = 0 /\ Closed.saved = NoDocument /\ Closed.running = 0
      BY DEF Closed, WindowType, NoDocument
    <2>3. Knows(Closed.revision, Closed.saved) /\ Closed.running <= Len(request)
      BY <1>0, <2>2 DEF Knows, DocumentAt
    <2> QED
      BY <2>1, <2>2, <2>3, WindowStep
  <1>7. ASSUME NEW i \in DOMAIN request, Put(i) PROVE WorkspaceInv'
    <2>1. request[i] \in RequestType /\ Knows(request[i].revision, request[i].base)
      BY DEF WorkspaceTypeOK, Paired
    <2>2. CASE Revision = request[i].revision
      <3> DEFINE d == [document |-> request[i].document, base |-> request[i].base]
                 q == [request[i] EXCEPT !.at = "saved"]
      <3>1. d \in [document : Nat, base : Nat] /\ d.document = request[i].document /\ d.base = request[i].base
        BY <2>1 DEF RequestType
      <3>2. stored' = Append(stored, d) /\ UNCHANGED <<window, edits>> /\ request' = [request EXCEPT ![i] = q]
        BY <1>7, <2>2 DEF Put, SaveWorkspace
      <3>3. /\ q \in RequestType /\ q.revision = request[i].revision /\ q.base = request[i].base
            /\ q.document = request[i].document
        BY <2>1 DEF RequestType
      <3> HIDE DEF d, q
      <3>4. /\ stored' \in Seq([document : Nat, base : Nat])
            /\ Revision' = Revision + 1
            /\ \A n \in 0..Revision : DocumentAt(n)' = DocumentAt(n)
            /\ \A n : n = Revision + 1 => DocumentAt(n)' = d.document
            /\ \A n \in 1..Revision : stored'[n] = stored[n]
            /\ stored'[Revision + 1] = d
        BY <3>1, <3>2, AppendKeeps
      <3>5. request' \in Seq(RequestType) /\ Len(request') = Len(request) /\ DOMAIN request' = DOMAIN request
        BY <1>0, <3>2, <3>3, ExceptSeq, LenProperties DEF WorkspaceTypeOK
      <3>6. \A k \in DOMAIN request : request'[k] = IF k = i THEN q ELSE request[k]
        BY <3>2 DEF WorkspaceTypeOK
      <3>7. WorkspaceTypeOK'
        BY <3>2, <3>4, <3>5 DEF WorkspaceTypeOK
      <3>8. \A n \in Nat : \A c : Knows(n, c) => Knows(n, c)'
        <4> SUFFICES ASSUME NEW n \in Nat, NEW c, Knows(n, c) PROVE Knows(n, c)'
          OBVIOUS
        <4>1. n \in 0..Revision /\ DocumentAt(n) = c
          BY <1>0 DEF Knows
        <4>2. Len(stored') = Revision + 1
          BY <3>4 DEF Revision
        <4>3. DocumentAt(n)' = c /\ n <= Revision + 1
          BY <1>0, <3>4, <4>1
        <4> QED
          BY <4>2, <4>3 DEF Knows
      <3>9. Knows(request[i].revision + 1, request[i].document)'
        <4>1. request'[i].revision + 1 = Revision + 1 /\ request'[i].document = d.document
          BY <2>2, <3>1, <3>3, <3>6
        <4>2. Len(stored') = Revision + 1 /\ Revision + 1 <= Revision + 1
          BY <1>0, <3>4 DEF Revision
        <4>3. \A n, c : n = Revision + 1 /\ c = d.document => Knows(n, c)'
          BY <3>4, <4>2 DEF Knows
        <4> QED
          BY <4>1, <4>3
      <3>10. \A w \in Window : Knows(window[w].revision, window[w].saved)' /\ (window[w].running <= Len(request))'
        BY <1>a, <3>2, <3>5, <3>8 DEF WindowType
      <3>11. \A k \in DOMAIN request : request[k] \in RequestType
        BY DEF WorkspaceTypeOK
      <3>12. \A k \in DOMAIN request' : Knows(request[k].revision, request[k].base)'
        BY ZenonT(30), <3>3, <3>5, <3>6, <3>8, <3>11 DEF Paired, RequestType
      <3>13. \A k \in DOMAIN request' : request'[k].at = "saved" => Knows(request[k].revision + 1, request[k].document)'
        <4> SUFFICES ASSUME NEW k \in DOMAIN request', request'[k].at = "saved"
                     PROVE  Knows(request[k].revision + 1, request[k].document)'
          OBVIOUS
        <4>1. CASE k = i
          BY <3>9, <4>1
        <4>2. CASE k # i
          <5>1. k \in DOMAIN request /\ request'[k] = request[k] /\ request[k].revision + 1 \in Nat
            BY SMTT(30), <3>5, <3>6, <3>11, <4>2 DEF RequestType
          <5>2. Knows(request[k].revision + 1, request[k].document)
            BY <5>1 DEF Paired
          <5> QED
            BY <3>8, <5>1, <5>2
        <4> QED
          BY <4>1, <4>2
      <3>14. Paired'
        BY <3>10, <3>12, <3>13 DEF Paired
      <3>15. DocumentAt(Revision) = d.base
        BY <2>1, <2>2, <3>1 DEF Knows
      <3>16. \A n \in DOMAIN stored' : stored'[n].base = DocumentAt(n - 1)'
        <4> SUFFICES ASSUME NEW n \in DOMAIN stored' PROVE stored'[n].base = DocumentAt(n - 1)'
          OBVIOUS
        <4>1. DOMAIN stored' = 1..(Revision + 1)
          BY <3>4, LenProperties DEF Revision
        <4>2. CASE n \in 1..Revision
          <5>1. n \in DOMAIN stored /\ n - 1 \in 0..Revision
            BY <4>2, <1>0
          <5> QED
            BY <3>4, <4>2, <5>1
        <4>3. CASE n = Revision + 1
          <5>1. n - 1 = Revision /\ Revision \in 0..Revision
            BY <4>3, <1>0
          <5>2. DocumentAt(Revision)' = DocumentAt(Revision) => stored'[n].base = DocumentAt(Revision)
            BY <3>4, <3>15, <4>3
          <5>3. \A m \in 0..Revision : DocumentAt(m)' = DocumentAt(m)
            BY <3>4
          <5>4. n - 1 \in 0..Revision /\ DocumentAt(n - 1) = DocumentAt(Revision)
            BY <5>1
          <5> QED
            BY <3>4, <3>15, <4>3, <5>3, <5>4
        <4> QED
          BY <1>0, <4>1, <4>2, <4>3
      <3> QED
        BY <3>7, <3>14, <3>16
    <2>3. CASE Revision # request[i].revision
      <3> DEFINE q == [request[i] EXCEPT !.at = "conflict"]
      <3>1. UNCHANGED <<stored, window, edits>> /\ request' = [request EXCEPT ![i] = q]
        BY <1>7, <2>3 DEF Put, SaveWorkspace
      <3>2. /\ q \in RequestType /\ q.revision = request[i].revision /\ q.base = request[i].base /\ q.at = "conflict"
        BY <2>1 DEF RequestType
      <3> HIDE DEF q
      <3>3. request' \in Seq(RequestType) /\ Len(request') = Len(request) /\ DOMAIN request' = DOMAIN request
        BY <1>0, <3>1, <3>2, ExceptSeq, LenProperties DEF WorkspaceTypeOK
      <3>4. \A k \in DOMAIN request : request'[k] = IF k = i THEN q ELSE request[k]
        BY <3>1 DEF WorkspaceTypeOK
      <3>5. WorkspaceTypeOK'
        BY <3>1, <3>3 DEF WorkspaceTypeOK
      <3>6. \A n : DocumentAt(n)' = DocumentAt(n)
        BY <3>1 DEF DocumentAt
      <3>7. \A n, c : Knows(n, c)' <=> Knows(n, c)
        BY <3>1, <3>6 DEF Knows
      <3>8. Paired'
        BY <2>1, <3>1, <3>2, <3>3, <3>4, <3>7 DEF Paired
      <3> QED
        BY <3>1, <3>5, <3>6, <3>8
    <2> QED
      BY <2>2, <2>3
  <1>8. CASE UNCHANGED workspaceVars
    BY <1>8 DEF workspaceVars, WorkspaceTypeOK, Paired, Knows, DocumentAt
  <1> QED
    BY <1>1, <1>2, <1>3, <1>4, <1>5, <1>6, <1>7, <1>8 DEF WorkspaceNext

\* However many windows save, and however late their requests arrive, a document is
\* replaced only by one that was made from it, and what a window shows as saved is
\* stored (putWorkspace, SaveWorkspace, WorkspaceWriter).
THEOREM NeverOverwrites == WorkspaceSpec => []NothingOverwritten
  <1>1. WorkspaceInv => NothingOverwritten
    BY DEF WorkspaceInv, Paired, Knows, NothingOverwritten, Revision
  <1> QED
    BY InitInv, NextInv, <1>1, PTL DEF WorkspaceSpec

-----------------------------------------------------------------------------
(* Sessions *)

\* What a session is made from.
Origin == ({"ticket"} \X Ticket) \cup ({"token"} \X Nat)

TokenType == [id : Nat, by : Origin, version : Nat, since : Nat, revoked : BOOLEAN]

CallType ==
    [at : {"idle", "login", "refresh", "issue", "revoke", "bump"},
     by : Origin \cup {<<>>}, expects : Nat, since : Nat]

SessionsTypeOK ==
    /\ version \in Nat
    /\ ticket \in [Ticket -> {"none", "open", "gone"}]
    /\ token \subseteq TokenType
    /\ call \in [Request -> CallType]

\* Tokens, and those about to be made, carry the version of their sign-in.
Stamped ==
    /\ \A x \in token : x.since = x.version
    /\ \A r \in Request :
         call[r].at \in {"refresh", "issue"} => call[r].since = call[r].expects

\* A request on its way to a session.
Making(r) == call[r].at \in {"login", "refresh", "issue"}

Spent(b) ==
    \/ \E t \in Ticket : b = <<"ticket", t>> /\ ticket[t] = "gone"
    \/ \E y \in token : b = <<"token", y.id>> /\ y.revoked

\* Everything a session was, or is being, made from is spent, once.
SpentOnce ==
    /\ \A x, y \in token : x.id = y.id => x = y
    /\ \A x, y \in token : x.by = y.by => x = y
    /\ \A x \in token : Spent(x.by)
    /\ \A r \in Request : Making(r) =>
         /\ call[r].by \in Origin /\ Spent(call[r].by)
         /\ \A x \in token : x.by # call[r].by
         /\ \A q \in Request : Making(q) /\ call[q].by = call[r].by => q = r

SessionsInv == SessionsTypeOK /\ Stamped /\ SpentOnce

-----------------------------------------------------------------------------
\* A refresh or logout revokes tokens and changes nothing else about them.
Same(x, y) == x.id = y.id /\ x.by = y.by /\ x.version = y.version /\ x.since = y.since

Revoking ==
    /\ token' \subseteq TokenType
    /\ \A z \in token' : \E y \in token : Same(z, y)
    /\ \A y \in token : \E z \in token' : Same(z, y) /\ (y.revoked => z.revoked)
    /\ \A w, z \in token' : Same(w, z) => w = z

\* Consuming a token is revoking it (ConsumeRefreshToken).
LEMMA ConsumedRevokes ==
    ASSUME SessionsInv, NEW x \in token, token' = Consumed(x)
    PROVE  Revoking
  <1> DEFINE new == [x EXCEPT !.revoked = TRUE]
  <1>1. x \in TokenType
    BY DEF SessionsInv, SessionsTypeOK
  <1>2. new \in TokenType /\ Same(new, x) /\ new.revoked
    BY <1>1 DEF TokenType, Same
  <1>3. token' = (token \ {x}) \cup {new}
    BY DEF Consumed
  <1>4. token' \subseteq TokenType
    BY <1>2, <1>3 DEF SessionsInv, SessionsTypeOK
  <1>5. \A z \in token' : \E y \in token : Same(z, y)
    <2> SUFFICES ASSUME NEW z \in token' PROVE \E y \in token : Same(z, y)
      OBVIOUS
    <2>1. CASE z = new
      BY <2>1, <1>2
    <2>2. CASE z # new
      BY <2>2, <1>3 DEF Same
    <2> QED
      BY <2>1, <2>2
  <1>6. \A y \in token : \E z \in token' : Same(z, y) /\ (y.revoked => z.revoked)
    <2> SUFFICES ASSUME NEW y \in token
                 PROVE  \E z \in token' : Same(z, y) /\ (y.revoked => z.revoked)
      OBVIOUS
    <2>1. CASE y = x
      BY <2>1, <1>2, <1>3
    <2>2. CASE y # x
      BY <2>2, <1>3 DEF Same
    <2> QED
      BY <2>1, <2>2
  <1>7. \A w, z \in token' : Same(w, z) => w = z
    <2> SUFFICES ASSUME NEW w \in token', NEW z \in token', Same(w, z) PROVE w = z
      OBVIOUS
    <2>1. w \in token \ {x} \/ w = new
      BY <1>3
    <2>2. z \in token \ {x} \/ z = new
      BY <1>3
    <2>3. w.id = z.id /\ new.id = x.id
      BY <1>2 DEF Same
    <2> QED
      BY <2>1, <2>2, <2>3 DEF SessionsInv, SpentOnce
  <1> QED
    BY <1>4, <1>5, <1>6, <1>7 DEF Revoking

\* So is revoking all of them (RevokeRefreshTokens).
LEMMA AllRevoked ==
    ASSUME SessionsInv, token' = {[x EXCEPT !.revoked = TRUE] : x \in token}
    PROVE  Revoking
  <1> DEFINE R(x) == [x EXCEPT !.revoked = TRUE]
  <1>1. \A x \in token : x \in TokenType /\ R(x) \in TokenType /\ Same(R(x), x) /\ R(x).revoked = TRUE
    BY DEF SessionsInv, SessionsTypeOK, TokenType, Same
  <1>2. \A z \in token' : \E y \in token : z = R(y)
    OBVIOUS
  <1>3. \A y \in token : R(y) \in token'
    OBVIOUS
  <1>4. \A w, z \in token' : Same(w, z) => w = z
    <2> SUFFICES ASSUME NEW w \in token', NEW z \in token', Same(w, z) PROVE w = z
      OBVIOUS
    <2>1. PICK x \in token : w = R(x)
      BY <1>2
    <2>2. PICK y \in token : z = R(y)
      BY <1>2
    <2>3. x.id = y.id
      BY <2>1, <2>2, <1>1 DEF Same
    <2> QED
      BY <2>1, <2>2, <2>3 DEF SessionsInv, SpentOnce
  <1> HIDE DEF R
  <1>5. \A z \in token' : \E y \in token : Same(z, y)
    BY <1>1, <1>2
  <1>6. \A y \in token : \E z \in token' : Same(z, y) /\ (y.revoked => z.revoked)
    BY <1>1, <1>3
  <1>7. token' \subseteq TokenType
    BY <1>1, <1>2
  <1> QED
    BY <1>4, <1>5, <1>6, <1>7 DEF Revoking

\* What is spent stays spent while tokens are only revoked or added and
\* tickets only used up.
LEMMA SpentStays ==
    ASSUME NEW b, Spent(b),
           \A y \in token : \E z \in token' : z.id = y.id /\ (y.revoked => z.revoked),
           \A t \in Ticket : ticket[t] = "gone" => ticket'[t] = "gone"
    PROVE  Spent(b)'
  <1>1. CASE \E t \in Ticket : b = <<"ticket", t>> /\ ticket[t] = "gone"
    BY <1>1 DEF Spent
  <1>2. CASE \E y \in token : b = <<"token", y.id>> /\ y.revoked
    BY <1>2 DEF Spent
  <1> QED
    BY <1>1, <1>2 DEF Spent

-----------------------------------------------------------------------------
LEMMA SessionsInitInv == SessionsInit => SessionsInv
  BY DEF SessionsInit, SessionsInv, SessionsTypeOK, Stamped, SpentOnce, Waiting, CallType, Making

\* Revoking tokens keeps what is said of the tokens, whatever the calls do.
LEMMA RevokingKeeps ==
    ASSUME SessionsInv, Revoking, UNCHANGED ticket
    PROVE  /\ \A x \in token' : x.since = x.version
           /\ \A x, y \in token' : x.id = y.id => x = y
           /\ \A x, y \in token' : x.by = y.by => x = y
           /\ \A b : Spent(b) => Spent(b)'
           /\ \A x \in token' : Spent(x.by)'
  <1>1. \A z \in token' : \E y \in token : Same(z, y)
    BY DEF Revoking
  <1>2. \A x \in token' : x.since = x.version
    BY <1>1 DEF SessionsInv, Stamped, Same
  <1>3. ASSUME NEW w \in token', NEW z \in token', w.id = z.id \/ w.by = z.by
        PROVE  w = z
    <2>1. PICK x \in token : Same(w, x)
      BY <1>1
    <2>2. PICK y \in token : Same(z, y)
      BY <1>1
    <2>3. x = y
      BY <1>3, <2>1, <2>2 DEF SessionsInv, SpentOnce, Same
    <2> QED
      BY <2>1, <2>2, <2>3 DEF Revoking, Same
  <1>4. \A b : Spent(b) => Spent(b)'
    <2> SUFFICES ASSUME NEW b, Spent(b) PROVE Spent(b)'
      OBVIOUS
    <2>1. \A y \in token : \E z \in token' : z.id = y.id /\ (y.revoked => z.revoked)
      BY DEF Revoking, Same
    <2>2. \A t \in Ticket : ticket[t] = "gone" => ticket'[t] = "gone"
      OBVIOUS
    <2> QED
      BY <2>1, <2>2, SpentStays
  <1>5. \A x \in token' : Spent(x.by)'
    <2> TAKE z \in token'
    <2>1. PICK y \in token : Same(z, y)
      BY <1>1
    <2>2. Spent(y.by)
      BY DEF SessionsInv, SpentOnce
    <2> QED
      BY <2>1, <2>2, <1>4 DEF Same
  <1> QED
    BY <1>2, <1>3, <1>4, <1>5

\* So the invariant holds on when no request becomes one that makes a session.
LEMMA RevokingStep ==
    ASSUME SessionsInv, Revoking, UNCHANGED <<version, ticket>>,
           call' \in [Request -> CallType],
           \A r \in Request : Making(r)' => call'[r] = call[r]
    PROVE  SessionsInv'
  <1>1. SessionsTypeOK'
    BY DEF SessionsInv, SessionsTypeOK, Revoking
  <1>2. Stamped'
    <2>1. \A r \in Request : call'[r].at \in {"refresh", "issue"} =>
              call'[r].since = call'[r].expects
      BY DEF SessionsInv, Stamped, Making
    <2> QED
      BY <2>1, RevokingKeeps DEF Stamped
  <1>3. ASSUME NEW r \in Request, Making(r)'
        PROVE  /\ call'[r].by \in Origin /\ Spent(call[r].by)'
               /\ \A x \in token' : x.by # call'[r].by
               /\ \A q \in Request : Making(q)' /\ call'[q].by = call'[r].by => q = r
    <2>1. \A q \in Request : Making(q)' => Making(q) /\ call'[q] = call[q]
      BY DEF Making
    <2>2. call'[r].by \in Origin /\ Spent(call[r].by)'
      BY <1>3, <2>1, RevokingKeeps DEF SessionsInv, SpentOnce
    <2>3. \A x \in token' : x.by # call'[r].by
      BY <1>3, <2>1 DEF SessionsInv, SpentOnce, Revoking, Same
    <2>4. \A q \in Request : Making(q)' /\ call'[q].by = call'[r].by => q = r
      BY <1>3, <2>1 DEF SessionsInv, SpentOnce
    <2> QED
      BY <2>2, <2>3, <2>4
  <1>4. SpentOnce'
    BY <1>3, RevokingKeeps DEF SpentOnce
  <1> QED
    BY <1>1, <1>2, <1>4 DEF SessionsInv

-----------------------------------------------------------------------------
(* The steps. *)

\* Nothing but tickets changes, and none that is spent comes back.
LEMMA TicketStep ==
    ASSUME SessionsInv, NEW t \in Ticket, LocalOpen(t) \/ Expire(t)
    PROVE  SessionsInv'
  <1>1. SessionsTypeOK' /\ Stamped'
    BY DEF SessionsInv, SessionsTypeOK, Stamped, LocalOpen, Expire
  <1>2. \A b : Spent(b) => Spent(b)'
    <2> SUFFICES ASSUME NEW b, Spent(b) PROVE Spent(b)'
      OBVIOUS
    <2>1. \A u \in Ticket : ticket[u] = "gone" => ticket'[u] = "gone"
      BY DEF SessionsInv, SessionsTypeOK, LocalOpen, Expire
    <2>2. \A y \in token : \E z \in token' : z.id = y.id /\ (y.revoked => z.revoked)
      BY DEF LocalOpen, Expire
    <2> QED
      BY <2>1, <2>2, SpentStays
  <1>3. SpentOnce'
    BY <1>2 DEF SessionsInv, SpentOnce, Making, LocalOpen, Expire
  <1> QED
    BY <1>1, <1>3 DEF SessionsInv

\* A request starts on a session with what nothing was made from before.
LEMMA StartsOnce ==
    ASSUME SessionsInv, NEW r \in Request, NEW b \in Origin, ~Spent(b), Spent(b)',
           call'[r].by = b, \A q \in Request : q # r => call'[q] = call[q],
           \A c : Spent(c) => Spent(c)',
           \A x \in token' : \E y \in token : x.by = y.by,
           \A x, y \in token' : x.id = y.id => x = y,
           \A x, y \in token' : x.by = y.by => x = y
    PROVE  SpentOnce'
  <1>1. \A x \in token' : Spent(x.by)' /\ x.by # b
    BY DEF SessionsInv, SpentOnce
  <1>2. ASSUME NEW q \in Request, Making(q)'
        PROVE  /\ call'[q].by \in Origin /\ Spent(call[q].by)'
               /\ \A x \in token' : x.by # call'[q].by
               /\ \A p \in Request : Making(p)' /\ call'[p].by = call'[q].by => p = q
    <2>1. CASE q = r
      <3>1. \A p \in Request : Making(p)' /\ call'[p].by = b => p = r
        BY DEF SessionsInv, SpentOnce, Making
      <3> QED
        BY <1>1, <2>1, <3>1
    <2>2. CASE q # r
      <3>1. Making(q) /\ call'[q] = call[q]
        BY <1>2, <2>2 DEF Making
      <3>2. Spent(call[q].by) /\ call[q].by # b
        BY <3>1 DEF SessionsInv, SpentOnce
      <3>3. ASSUME NEW p \in Request, Making(p)', call'[p].by = call[q].by PROVE p = q
        <4>1. p # r
          BY <3>2, <3>3
        <4>2. Making(p) /\ call[p].by = call[q].by
          BY <3>3, <4>1 DEF Making
        <4> QED
          BY <3>1, <4>2 DEF SessionsInv, SpentOnce
      <3>4. \A x \in token' : x.by # call[q].by
        BY <3>1 DEF SessionsInv, SpentOnce
      <3> QED
        BY <3>1, <3>2, <3>3, <3>4 DEF SessionsInv, SpentOnce
    <2> QED
      BY <2>1, <2>2
  <1> QED
    BY <1>1, <1>2 DEF SpentOnce

LEMMA LoginStep ==
    ASSUME SessionsInv, NEW r \in Request, NEW t \in Ticket, LocalLogin(r, t)
    PROVE  SessionsInv'
  <1> DEFINE b == <<"ticket", t>>
  <1>1. ticket[t] = "open" /\ ticket' = [ticket EXCEPT ![t] = "gone"] /\ token' = token
        /\ version' = version
    BY DEF LocalLogin
  <1>2. call' = [call EXCEPT ![r] = [at |-> "login", by |-> b, expects |-> 0, since |-> 0]]
    BY DEF LocalLogin
  <1>3. b \in Origin
    BY DEF Origin
  <1>4. SessionsTypeOK'
    BY <1>1, <1>2, <1>3 DEF SessionsInv, SessionsTypeOK, CallType
  <1>5. Stamped'
    BY <1>1, <1>2 DEF SessionsInv, SessionsTypeOK, Stamped
  <1>6. ~Spent(b) /\ Spent(b)'
    BY <1>1 DEF Spent, SessionsInv, SessionsTypeOK
  <1>7. ASSUME NEW c, Spent(c) PROVE Spent(c)'
    <2>1. \A u \in Ticket : ticket[u] = "gone" => ticket'[u] = "gone"
      BY <1>1 DEF SessionsInv, SessionsTypeOK
    <2> QED
      BY <1>1, <1>7, <2>1, SpentStays
  <1>8. call'[r].by = b /\ \A q \in Request : q # r => call'[q] = call[q]
    BY <1>2 DEF SessionsInv, SessionsTypeOK
  <1>9. SpentOnce'
    BY <1>1, <1>3, <1>6, <1>7, <1>8, StartsOnce DEF SessionsInv, SpentOnce
  <1> QED
    BY <1>4, <1>5, <1>9 DEF SessionsInv

LEMMA RefreshStep ==
    ASSUME SessionsInv, NEW r \in Request, NEW x \in token, Refresh(r, x)
    PROVE  SessionsInv'
  <1> DEFINE b == <<"token", x.id>>
  <1>1. ~x.revoked /\ token' = Consumed(x) /\ UNCHANGED <<version, ticket>>
    BY DEF Refresh, Consumable
  <1>2. call' = [call EXCEPT ![r] =
                    [at |-> "refresh", by |-> b, expects |-> x.version, since |-> x.since]]
    BY DEF Refresh
  <1>3. x \in TokenType /\ b \in Origin /\ x.since = x.version
    BY DEF SessionsInv, SessionsTypeOK, TokenType, Origin, Stamped
  <1>4. Revoking
    BY <1>1, ConsumedRevokes
  <1>5. SessionsTypeOK'
    BY <1>1, <1>2, <1>3, <1>4 DEF SessionsInv, SessionsTypeOK, CallType, TokenType, Revoking
  <1>6. Stamped'
    BY <1>1, <1>2, <1>3, <1>4, RevokingKeeps DEF SessionsInv, SessionsTypeOK, Stamped
  <1>7. ~Spent(b)
    BY <1>1 DEF Spent, SessionsInv, SpentOnce
  <1>8. Spent(b)'
    <2>1. [x EXCEPT !.revoked = TRUE] \in token'
      BY <1>1 DEF Consumed
    <2>2. [x EXCEPT !.revoked = TRUE].id = x.id /\ [x EXCEPT !.revoked = TRUE].revoked
      BY <1>3 DEF TokenType
    <2> QED
      BY <2>1, <2>2 DEF Spent
  <1>9. call'[r].by = b /\ \A q \in Request : q # r => call'[q] = call[q]
    BY <1>2 DEF SessionsInv, SessionsTypeOK
  <1>10. \A y \in token' : \E z \in token : y.by = z.by
    BY <1>4 DEF Revoking, Same
  <1>11. SpentOnce'
    BY <1>1, <1>3, <1>4, <1>7, <1>8, <1>9, <1>10, RevokingKeeps, StartsOnce
  <1> QED
    BY <1>5, <1>6, <1>11 DEF SessionsInv

\* The version is read: the request goes on with it, or ends.
LEMMA ReadStep ==
    ASSUME SessionsInv, NEW r \in Request, ReadVersion(r)
    PROVE  SessionsInv'
  <1>1. Making(r) /\ UNCHANGED <<version, ticket, token>>
    BY DEF ReadVersion, Making
  <1>2. \A q \in Request : q # r => call'[q] = call[q]
    BY DEF ReadVersion, SessionsInv, SessionsTypeOK
  <1>3. /\ call'[r] \in CallType
        /\ \/ call'[r].at = "idle"
           \/ call'[r].at = "issue" /\ call'[r].by = call[r].by
              /\ call'[r].since = call'[r].expects
    <2>1. call[r] \in CallType /\ version \in Nat /\ call[r].at \in {"login", "refresh"}
      BY DEF ReadVersion, SessionsInv, SessionsTypeOK
    <2>2. CASE ~Expected(call[r])
      <3>1. call'[r] = Waiting
        BY <2>2 DEF ReadVersion, SessionsInv, SessionsTypeOK
      <3> QED
        BY <3>1 DEF Waiting, CallType
    <2>3. CASE Expected(call[r])
      <3>1. call'[r] = [at |-> "issue", by |-> call[r].by, expects |-> version,
                        since |-> IF call[r].at = "login" THEN version ELSE call[r].since]
        BY <2>3 DEF ReadVersion, SessionsInv, SessionsTypeOK
      <3>2. call[r].at = "refresh" => call[r].since = version
        BY <2>3 DEF Expected, SessionsInv, Stamped
      <3> QED
        BY <2>1, <3>1, <3>2 DEF CallType
    <2> QED
      BY <2>2, <2>3
  <1>4. SessionsTypeOK'
    BY <1>1, <1>3 DEF ReadVersion, SessionsInv, SessionsTypeOK, CallType, Waiting
  <1>5. Stamped'
    BY <1>1, <1>2, <1>3 DEF SessionsInv, Stamped
  <1>6. \A q \in Request : Making(q)' => Making(q) /\ call'[q].by = call[q].by
    BY <1>1, <1>2, <1>3 DEF Making
  <1>7. \A c : Spent(c)' <=> Spent(c)
    BY <1>1 DEF Spent
  <1>8. SpentOnce'
    BY <1>1, <1>6, <1>7 DEF SessionsInv, SpentOnce
  <1> QED
    BY <1>4, <1>5, <1>8 DEF SessionsInv

\* The session is made: the token takes its origin over from the request.
LEMMA IssueStep ==
    ASSUME SessionsInv, NEW r \in Request, IssueSession(r)
    PROVE  SessionsInv'
  <1>1. PICK n \in 1..MaxTokens :
          /\ \A x \in token : x.id # n
          /\ token' = token \cup {[id |-> n, by |-> call[r].by, version |-> call[r].expects,
                                   since |-> call[r].since, revoked |-> FALSE]}
    BY DEF IssueSession
  <1> PICK new : new = [id |-> n, by |-> call[r].by, version |-> call[r].expects,
                        since |-> call[r].since, revoked |-> FALSE]
    OBVIOUS
  <1>2. call[r].at = "issue" /\ Making(r) /\ UNCHANGED <<version, ticket>>
        /\ call' = [call EXCEPT ![r] = Waiting]
    BY DEF IssueSession, Making
  <1>3. call[r].by \in Origin /\ call[r].since = call[r].expects /\ call[r] \in CallType
    BY <1>2 DEF SessionsInv, SessionsTypeOK, SpentOnce, Stamped
  <1>4. new \in TokenType /\ new.by = call[r].by /\ new.id = n /\ new.since = new.version
    BY <1>3, SessionsAssumption DEF TokenType, CallType
  <1>5. call'[r] = Waiting /\ \A q \in Request : q # r => call'[q] = call[q]
    BY <1>2 DEF SessionsInv, SessionsTypeOK
  <1>6. token' = token \cup {new}
    BY <1>1
  <1>7. SessionsTypeOK'
    BY <1>2, <1>4, <1>6 DEF SessionsInv, SessionsTypeOK, CallType, Waiting
  <1>8. Stamped'
    BY <1>4, <1>5, <1>6 DEF SessionsInv, Stamped, Waiting
  <1>9. ASSUME NEW c, Spent(c) PROVE Spent(c)'
    BY <1>2, <1>6, <1>9, SpentStays
  <1>10. \A q \in Request : Making(q)' => q # r /\ Making(q) /\ call'[q] = call[q]
    BY <1>5 DEF Making, Waiting
  <1>11. \A x \in token : x.by # new.by /\ x.id # new.id
    BY <1>1, <1>2, <1>4 DEF SessionsInv, SpentOnce
  <1>12. Spent(new.by)'
    BY <1>2, <1>4, <1>9 DEF SessionsInv, SpentOnce
  <1>13. ASSUME NEW q \in Request, Making(q)'
         PROVE  /\ call'[q].by \in Origin /\ Spent(call[q].by)'
                /\ \A x \in token' : x.by # call'[q].by
                /\ \A p \in Request : Making(p)' /\ call'[p].by = call'[q].by => p = q
    <2>1. q # r /\ Making(q) /\ call'[q] = call[q]
      BY <1>10, <1>13
    <2>2. call[q].by # new.by
      BY <1>2, <1>4, <2>1 DEF SessionsInv, SpentOnce
    <2>3. \A x \in token' : x.by # call[q].by
      BY <1>6, <2>1, <2>2 DEF SessionsInv, SpentOnce
    <2>4. \A p \in Request : Making(p)' /\ call'[p].by = call[q].by => p = q
      BY <1>10, <2>1 DEF SessionsInv, SpentOnce
    <2>5. call[q].by \in Origin /\ Spent(call[q].by)
      BY <2>1 DEF SessionsInv, SpentOnce
    <2> QED
      BY <1>9, <2>1, <2>3, <2>4, <2>5
  <1>14. ASSUME NEW x \in token', NEW y \in token', x.id = y.id \/ x.by = y.by PROVE x = y
    <2>1. (x \in token \/ x = new) /\ (y \in token \/ y = new)
      BY <1>6
    <2>2. CASE x \in token /\ y \in token
      BY <1>14, <2>2 DEF SessionsInv, SpentOnce
    <2>3. CASE x = new \/ y = new
      BY <1>11, <1>14, <2>1, <2>3
    <2> QED
      BY <2>1, <2>2, <2>3
  <1>15. \A x \in token' : Spent(x.by)'
    BY <1>6, <1>9, <1>12 DEF SessionsInv, SpentOnce
  <1>16. SpentOnce'
    BY <1>13, <1>14, <1>15 DEF SpentOnce
  <1> QED
    BY <1>7, <1>8, <1>16 DEF SessionsInv

\* Logout and its two calls only revoke tokens and bump the version.
LEMMA LogoutStep ==
    ASSUME SessionsInv, NEW r \in Request,
           RevokeRefreshTokens(r) \/ \E x \in token : Logout(r, x)
    PROVE  SessionsInv'
  <1>1. call' \in [Request -> CallType] /\ UNCHANGED <<version, ticket>>
    BY DEF Logout, RevokeRefreshTokens, SessionsInv, SessionsTypeOK, CallType, Waiting
  <1>2. \A q \in Request : Making(q)' => call'[q] = call[q]
    BY DEF Logout, RevokeRefreshTokens, Making, Waiting, SessionsInv, SessionsTypeOK, CallType
  <1>3. Revoking
    <2>1. CASE \E x \in token : Logout(r, x)
      BY <2>1, ConsumedRevokes DEF Logout
    <2>2. CASE RevokeRefreshTokens(r) /\ token' = token
      BY <2>2 DEF Revoking, Same, SessionsInv, SessionsTypeOK, SpentOnce
    <2>3. CASE RevokeRefreshTokens(r) /\ token' = {[x EXCEPT !.revoked = TRUE] : x \in token}
      BY <2>3, AllRevoked
    <2> QED
      BY <2>1, <2>2, <2>3 DEF RevokeRefreshTokens
  <1> QED
    BY <1>1, <1>2, <1>3, RevokingStep

LEMMA BumpStep ==
    ASSUME SessionsInv, NEW r \in Request, BumpUserSessionVersion(r)
    PROVE  SessionsInv'
  <1>1. version' \in Nat /\ UNCHANGED <<ticket, token>> /\ call' = [call EXCEPT ![r] = Waiting]
    BY DEF BumpUserSessionVersion, SessionsInv, SessionsTypeOK
  <1>2. SessionsTypeOK'
    BY <1>1 DEF SessionsInv, SessionsTypeOK, CallType, Waiting
  <1>3. \A q \in Request : Making(q)' => Making(q) /\ call'[q] = call[q]
    BY <1>1 DEF Making, Waiting, SessionsInv, SessionsTypeOK
  <1>4. Stamped'
    BY <1>1, <1>3 DEF SessionsInv, Stamped, Making
  <1>5. \A c : Spent(c)' <=> Spent(c)
    BY <1>1 DEF Spent
  <1>6. SpentOnce'
    BY <1>1, <1>3, <1>5 DEF SessionsInv, SpentOnce
  <1> QED
    BY <1>2, <1>4, <1>6 DEF SessionsInv

LEMMA SessionsNextInv == SessionsInv /\ [SessionsNext]_sessionVars => SessionsInv'
  <1> SUFFICES ASSUME SessionsInv, [SessionsNext]_sessionVars PROVE SessionsInv'
    OBVIOUS
  <1>1. CASE UNCHANGED sessionVars
    BY <1>1 DEF sessionVars, SessionsInv, SessionsTypeOK, Stamped, SpentOnce, Spent, Making
  <1>2. CASE \E t \in Ticket : LocalOpen(t) \/ Expire(t)
    BY <1>2, TicketStep
  <1>3. CASE \E r \in Request, t \in Ticket : LocalLogin(r, t)
    BY <1>3, LoginStep
  <1>4. CASE \E r \in Request, x \in token : Refresh(r, x)
    BY <1>4, RefreshStep
  <1>5. CASE \E r \in Request : ReadVersion(r)
    BY <1>5, ReadStep
  <1>6. CASE \E r \in Request : IssueSession(r)
    BY <1>6, IssueStep
  <1>7. CASE \E r \in Request : RevokeRefreshTokens(r) \/ \E x \in token : Logout(r, x)
    BY <1>7, LogoutStep
  <1>8. CASE \E r \in Request : BumpUserSessionVersion(r)
    BY <1>8, BumpStep
  <1> QED
    BY <1>1, <1>2, <1>3, <1>4, <1>5, <1>6, <1>7, <1>8 DEF SessionsNext

\* A token that opens a session goes back to a sign-in under the current
\* version, and a ticket or refresh token makes one session at most, whatever
\* refreshes, sign-ins and logouts overlap (api/auth.go, store/session.go).
THEOREM StaysLoggedOut == SessionsSpec => []LoggedOutStaysOut
  <1>1. SessionsInv => LoggedOutStaysOut
    BY DEF SessionsInv, Stamped, SpentOnce, LoggedOutStaysOut, Authenticates
  <1> QED
    BY SessionsInitInv, SessionsNextInv, <1>1, PTL DEF SessionsSpec
=============================================================================
