------------------------------ MODULE Sessions -------------------------------
(***************************************************************************)
(* The sessions of one user (api/local.go, api/auth.go, store/session.go,  *)
(* authenticate in api/api.go): one-use tickets and refresh tokens, access *)
(* tokens stamped with the session version, and the logout that bumps it.  *)
(* A request is a chain of store calls; others come between any two.       *)
(***************************************************************************)
EXTENDS Naturals

CONSTANTS Request, Ticket, MaxTokens, MaxBumps

ASSUME SessionsAssumption == MaxTokens \in Nat /\ MaxBumps \in Nat

VARIABLES version,    \* user_session_versions
          ticket,     \* localTickets: "none", "open", "gone"
          token,      \* refresh_tokens and the access token issued with each
          call        \* where each request stands

sessionVars == <<version, ticket, token, call>>

Waiting == [at |-> "idle", by |-> <<>>, expects |-> 0, since |-> 0]

SessionsInit ==
    /\ version = 0 /\ token = {}
    /\ ticket = [t \in Ticket |-> "none"]
    /\ call = [r \in Request |-> Waiting]

\* authenticate: the version an access token carries is the current one.
Authenticates(x) == x.version = version

-----------------------------------------------------------------------------
\* localOpen.
LocalOpen(t) ==
    /\ ticket[t] = "none"
    /\ ticket' = [ticket EXCEPT ![t] = "open"]
    /\ UNCHANGED <<version, token, call>>

\* A ticket is good for a minute.
Expire(t) ==
    /\ ticket[t] = "open"
    /\ ticket' = [ticket EXCEPT ![t] = "gone"]
    /\ UNCHANGED <<version, token, call>>

\* localLogin takes the ticket under localMu.
LocalLogin(r, t) ==
    /\ call[r].at = "idle" /\ ticket[t] = "open"
    /\ ticket' = [ticket EXCEPT ![t] = "gone"]
    /\ call' = [call EXCEPT ![r] = [at |-> "login", by |-> <<"ticket", t>>, expects |-> 0, since |-> 0]]
    /\ UNCHANGED <<version, token>>

\* ConsumeRefreshToken: one statement, so one caller gets it.
Consumable(x) == ~x.revoked

Consumed(x) == (token \ {x}) \union {[x EXCEPT !.revoked = TRUE]}

\* refresh.
Refresh(r, x) ==
    /\ call[r].at = "idle" /\ Consumable(x)
    /\ token' = Consumed(x)
    /\ call' = [call EXCEPT ![r] = [at |-> "refresh", by |-> <<"token", x.id>>, expects |-> x.version, since |-> x.since]]
    /\ UNCHANGED <<version, ticket>>

\* Seeded fault: a refresh that was under way takes the version it finds.
ExpectedAny(c) == TRUE

\* issueSession compares the version a token was made for with the current one.
Expected(c) == c.at = "refresh" => c.expects = version

ReadVersion(r) ==
    /\ call[r].at \in {"login", "refresh"}
    /\ call' = [call EXCEPT ![r] =
         IF ~Expected(call[r]) THEN Waiting
         ELSE [at |-> "issue", by |-> call[r].by, expects |-> version,
               since |-> IF call[r].at = "login" THEN version ELSE call[r].since]]
    /\ UNCHANGED <<version, ticket, token>>

\* Issue and CreateRefreshToken, with the version that was read.
IssueSession(r) ==
    /\ call[r].at = "issue"
    /\ \E n \in 1..MaxTokens :
         /\ \A x \in token : x.id # n
         /\ token' = token \union {[id |-> n, by |-> call[r].by, version |-> call[r].expects,
                                    since |-> call[r].since, revoked |-> FALSE]}
    /\ call' = [call EXCEPT ![r] = Waiting]
    /\ UNCHANGED <<version, ticket>>

\* logout: the cookie, then, for who is signed in, every token and the version.
Logout(r, x) ==
    /\ call[r].at = "idle" /\ version < MaxBumps
    /\ token' = Consumed(x)
    /\ call' = [call EXCEPT ![r] = IF Authenticates(x) THEN [Waiting EXCEPT !.at = "revoke"] ELSE Waiting]
    /\ UNCHANGED <<version, ticket>>

\* Errors are ignored: either call may not happen.
RevokeRefreshTokens(r) ==
    /\ call[r].at = "revoke"
    /\ token' \in {token, {[x EXCEPT !.revoked = TRUE] : x \in token}}
    /\ call' = [call EXCEPT ![r].at = "bump"]
    /\ UNCHANGED <<version, ticket>>

BumpUserSessionVersion(r) ==
    /\ call[r].at = "bump" /\ version < MaxBumps
    /\ version' \in {version, version + 1}
    /\ call' = [call EXCEPT ![r] = Waiting]
    /\ UNCHANGED <<ticket, token>>

SessionsNext ==
    \/ \E t \in Ticket : LocalOpen(t) \/ Expire(t)
    \/ \E r \in Request :
         \/ \E t \in Ticket : LocalLogin(r, t)
         \/ \E x \in token : Refresh(r, x) \/ Logout(r, x)
         \/ ReadVersion(r) \/ IssueSession(r) \/ RevokeRefreshTokens(r) \/ BumpUserSessionVersion(r)

SessionsSpec == SessionsInit /\ [][SessionsNext]_sessionVars

-----------------------------------------------------------------------------
\* A logout ends what was signed in before it: a token that opens a session now
\* goes back to a sign-in under the current version, whatever refresh was under
\* way; and a ticket or a refresh token makes one session at most.
LoggedOutStaysOut ==
    /\ \A x \in token : Authenticates(x) => x.since = version
    /\ \A x, y \in token : x.by = y.by => x = y
=============================================================================
