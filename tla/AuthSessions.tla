----------------------------- MODULE AuthSessions -----------------------------
(***************************************************************************)
(* Registration, login and the sessions behind the tokens: POST            *)
(* /api/auth/register and /login, the check of every later HTTP request,   *)
(* and the STOMP connections, which are checked once.                      *)
(*                                                                         *)
(* Users and sessions are named after the request that created them, and   *)
(* so is the token that request was answered with.                         *)
(***************************************************************************)
EXTENDS Naturals, FiniteSets

CONSTANTS
    Logins,     \* login names
    Requests,   \* register and login requests, each sent once
    Sockets,    \* STOMP connections
    None        \* no request, no login, no answer

Answers == {"token", "conflict", "refused", "error"}

ASSUME AuthAssumption == None \notin Requests \cup Logins \cup Answers

VARIABLES
    users,      \* rows of app_users: the login of each
    sessions,   \* rows of user_sessions: user and active
    request,    \* register and login requests
    expired,    \* tokens older than app.jwt.expiration-ms
    socket      \* the token each open connection was opened with

vars == <<users, sessions, request, expired, socket>>

-----------------------------------------------------------------------------
\* Types: among them, that a session row is either active or not.  (issueToken)
TypeOK ==
    /\ users \in [Requests -> Logins \cup {None}]
    /\ sessions \in [Requests -> [user: Requests \cup {None}, active: BOOLEAN]]
    /\ request \in [Requests -> [pc: {"new", "checked", "answered"},
                                 login: Logins \cup {None},
                                 answer: Answers \cup {None}]]
    /\ expired \subseteq Requests
    /\ socket \in [Sockets -> Requests \cup {None}]

NoSession == [user |-> None, active |-> FALSE]

Init ==
    /\ users = [q \in Requests |-> None]
    /\ sessions = [q \in Requests |-> NoSession]
    /\ request = [q \in Requests |-> [pc |-> "new", login |-> None, answer |-> None]]
    /\ expired = {}
    /\ socket = [s \in Sockets |-> None]

UsersNamed(l) == {u \in Requests : users[u] = l}

Answer(q, l, answer) ==
    request' = [request EXCEPT ![q] = [pc |-> "answered", login |-> l, answer |-> answer]]

-----------------------------------------------------------------------------
\* Mutants: the flag is never set; the session is saved for the first user there
\* is.
IssueUnset(q, u) == sessions' = [sessions EXCEPT ![q] = [user |-> u, active |-> None]]
IssueForAnyone(q, u) ==
    \E x \in Requests : /\ users'[x] # None
                        /\ sessions' = [sessions EXCEPT ![q] = [user |-> x, active |-> TRUE]]

\* issueToken: a new active session; the older ones stay.
IssueToken(q, u) == sessions' = [sessions EXCEPT ![q] = [user |-> u, active |-> TRUE]]

\* register asks whether the login exists, and inserts it later.
RegisterChecks(q, l) ==
    /\ request[q].pc = "new"
    /\ IF UsersNamed(l) # {}
       THEN Answer(q, l, "conflict")
       ELSE request' = [request EXCEPT ![q] = [pc |-> "checked", login |-> l, answer |-> None]]
    /\ UNCHANGED <<users, sessions, expired, socket>>

\* Mutant: app_users.login is not unique.
InsertsUnchecked(q) == request[q].pc = "checked"

\* The unique key of app_users.login.
Inserts(q) == request[q].pc = "checked" /\ UsersNamed(request[q].login) = {}

RegisterCommits(q) ==
    /\ Inserts(q)
    /\ users' = [users EXCEPT ![q] = request[q].login]
    /\ IssueToken(q, q)
    /\ Answer(q, request[q].login, "token")
    /\ UNCHANGED <<expired, socket>>

\* Refused by the unique key, or rolled back for another reason.
RegisterFails(q) ==
    /\ request[q].pc = "checked"
    /\ Answer(q, request[q].login, "error")
    /\ UNCHANGED <<users, sessions, expired, socket>>

Login(q, l) ==
    /\ request[q].pc = "new"
    /\ UNCHANGED <<users, expired, socket>>
    /\ \E u \in UsersNamed(l) : IssueToken(q, u)
    /\ Answer(q, l, "token")

\* An unknown login, a wrong password.
LoginRefused(q, l) ==
    /\ request[q].pc = "new"
    /\ Answer(q, l, "refused")
    /\ UNCHANGED <<users, sessions, expired, socket>>

TokenExpires(t) ==
    /\ request[t].answer = "token"
    /\ t \notin expired
    /\ expired' = expired \cup {t}
    /\ UNCHANGED <<users, sessions, request, socket>>

-----------------------------------------------------------------------------
\* JwtAuthFilter and CONNECT: a signed token in time, its session row active
\* and of the user the token names.
Accepts(t) ==
    /\ request[t].answer = "token"
    /\ t \notin expired
    /\ sessions[t].active

\* The principal of a connection is the login in the token it opened with.
Connect(s, t) ==
    /\ socket[s] = None
    /\ Accepts(t)
    /\ socket' = [socket EXCEPT ![s] = t]
    /\ UNCHANGED <<users, sessions, request, expired>>

\* Later frames are not checked again: only the two ends close a connection.
Disconnect(s) ==
    /\ socket[s] # None
    /\ socket' = [socket EXCEPT ![s] = None]
    /\ UNCHANGED <<users, sessions, request, expired>>

Quiet ==
    /\ \A q \in Requests : request[q].pc = "answered"
    /\ UNCHANGED vars

Next ==
    \/ \E q \in Requests, l \in Logins :
          RegisterChecks(q, l) \/ Login(q, l) \/ LoginRefused(q, l)
    \/ \E q \in Requests : RegisterCommits(q) \/ RegisterFails(q) \/ TokenExpires(q)
    \/ \E s \in Sockets, t \in Requests : Connect(s, t)
    \/ \E s \in Sockets : Disconnect(s)
    \/ Quiet

Spec == Init /\ [][Next]_vars

-----------------------------------------------------------------------------
(* Safety.                                                                 *)

\* Two registrations that overlap never create the same login twice, although
\* both have found it free.  (register, unique key of app_users.login)
LoginsAreUnique ==
    \A u, v \in Requests : users[u] # None /\ users[u] = users[v] => u = v

\* A token leads back to the login it was asked for: through its session row to
\* the user, and so does the principal of every open connection.
\* (issueToken, JwtAuthFilter, WebSocketAuthChannelInterceptor)
TokensReachTheirUser ==
    \A t \in Requests : request[t].answer = "token" =>
        /\ sessions[t].user # None
        /\ users[sessions[t].user] = request[t].login

-----------------------------------------------------------------------------
(* Why they hold: with these two parts the invariant is inductive.          *)

\* A user row appears with the answer of its registration.
UsersAreAnswered ==
    \A q \in Requests : users[q] # None => request[q].pc = "answered"

\* There is no token before the answer, and no answer without a login.
OnlyAnswersCarryTokens ==
    \A q \in Requests : /\ request[q].pc # "answered" => request[q].answer = None
                        /\ request[q].pc # "new" => request[q].login \in Logins

IInv ==
    /\ TypeOK
    /\ LoginsAreUnique
    /\ TokensReachTheirUser
    /\ UsersAreAnswered
    /\ OnlyAnswersCarryTokens

-----------------------------------------------------------------------------
(* What the documents say and the code does not do.                        *)

\* docs/client-contracts.md:57: "One user can have only one active session.
\* After a new login, the previous token becomes invalid."
OneActiveSession ==
    \A u \in Requests : Cardinality({t \in Requests : Accepts(t) /\ sessions[t].user = u}) <= 1
=============================================================================
