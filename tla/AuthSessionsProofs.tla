-------------------------- MODULE AuthSessionsProofs --------------------------
(***************************************************************************)
(* Theorems about AuthSessions: the tokens, users and sessions agree, for  *)
(* any number of logins, requests and connections.                         *)
(***************************************************************************)
EXTENDS AuthSessions, TLAPS

\* The inductive invariant holds at the start.
LEMMA InitIInv == Init => IInv
BY AuthAssumption
   DEF Init, IInv, TypeOK, LoginsAreUnique, TokensReachTheirUser, UsersAreAnswered,
       OnlyAnswersCarryTokens, NoSession, Answers

\* Every action keeps it.
LEMMA NextIInv == IInv /\ [Next]_vars => IInv'
<1> SUFFICES ASSUME IInv, [Next]_vars PROVE IInv'
    OBVIOUS
<1> USE AuthAssumption
        DEF IInv, TypeOK, LoginsAreUnique, TokensReachTheirUser, UsersAreAnswered,
            OnlyAnswersCarryTokens, UsersNamed, Answer, IssueToken, Answers
<1>1. ASSUME NEW q \in Requests, NEW l \in Logins, RegisterChecks(q, l) PROVE IInv'
  <2> DEFINE Answered(answer) == [pc |-> "answered", login |-> l, answer |-> answer]
             Checked == [pc |-> "checked", login |-> l, answer |-> None]
  <2>1. PICK a \in {Answered("conflict"), Checked} :
            request' = [request EXCEPT ![q] = a]
        BY <1>1 DEF RegisterChecks
  <2>2. request[q].pc = "new" /\ UNCHANGED <<users, sessions, expired, socket>>
        BY <1>1 DEF RegisterChecks
  <2>3. TypeOK'
        BY <2>1, <2>2
  <2>4. (LoginsAreUnique /\ UsersAreAnswered /\ OnlyAnswersCarryTokens)'
        BY <2>1, <2>2
  <2>5. TokensReachTheirUser'
        BY <2>1, <2>2
  <2> QED
      BY <2>3, <2>4, <2>5
<1>2. ASSUME NEW q \in Requests, NEW l \in Logins, Login(q, l) PROVE IInv'
  <2> USE <1>2 DEF Login
  <2> PICK u \in Requests : users[u] = l /\ sessions' = [sessions EXCEPT
                                  ![q] = [user |-> u, active |-> TRUE]]
      OBVIOUS
  <2>1. TypeOK'
        OBVIOUS
  <2>2. (LoginsAreUnique /\ UsersAreAnswered /\ OnlyAnswersCarryTokens)'
        OBVIOUS
  <2>3. TokensReachTheirUser'
    <3> SUFFICES ASSUME NEW t \in Requests, request'[t].answer = "token"
                 PROVE  sessions'[t].user # None
                        /\ users'[sessions'[t].user] = request'[t].login
        OBVIOUS
    <3>1. CASE t = q
          BY <3>1
    <3>2. CASE t # q
          BY <3>2
    <3> QED
        BY <3>1, <3>2
  <2> QED
      BY <2>1, <2>2, <2>3
<1>3. ASSUME NEW q \in Requests, NEW l \in Logins, LoginRefused(q, l) PROVE IInv'
      BY <1>3 DEF LoginRefused
<1>4. ASSUME NEW q \in Requests, RegisterCommits(q) PROVE IInv'
  <2> USE <1>4 DEF RegisterCommits, Inserts
  <2>1. TypeOK'
        OBVIOUS
  <2>2. (LoginsAreUnique /\ UsersAreAnswered /\ OnlyAnswersCarryTokens)'
        OBVIOUS
  <2>3. TokensReachTheirUser'
    <3> SUFFICES ASSUME NEW t \in Requests, request'[t].answer = "token"
                 PROVE  sessions'[t].user # None
                        /\ users'[sessions'[t].user] = request'[t].login
        OBVIOUS
    <3>1. CASE t = q
          BY <3>1
    <3>2. CASE t # q
      <4>1. request[t].answer = "token" /\ sessions'[t] = sessions[t]
            BY <3>2
      <4>2. request[t].pc # "new" /\ request[t].login # None
            BY <4>1
      <4>3. sessions[t].user # q
            BY <4>1, <4>2
      <4> QED
          BY <3>2, <4>1, <4>3
    <3> QED
        BY <3>1, <3>2
  <2> QED
      BY <2>1, <2>2, <2>3
<1>5. ASSUME NEW q \in Requests, RegisterFails(q) PROVE IInv'
      BY <1>5 DEF RegisterFails
<1>6. ASSUME NEW q \in Requests, TokenExpires(q) PROVE IInv'
      BY <1>6 DEF TokenExpires
<1>7. ASSUME NEW s \in Sockets, NEW t \in Requests, Connect(s, t) PROVE IInv'
      BY <1>7 DEF Connect
<1>8. ASSUME NEW s \in Sockets, Disconnect(s) PROVE IInv'
      BY <1>8 DEF Disconnect
<1>9. CASE Quiet \/ UNCHANGED vars
      BY <1>9 DEF Quiet, vars
<1> QED
    BY <1>1, <1>2, <1>3, <1>4, <1>5, <1>6, <1>7, <1>8, <1>9 DEF Next

\* Users, sessions and tokens agree in every reachable state.
THEOREM Invariance == Spec => []IInv
BY InitIInv, NextIInv, PTL DEF Spec

\* Types are kept: a session row is active or not, whatever requests overlap.
THEOREM TypeCorrect == Spec => []TypeOK
<1>1. IInv => TypeOK
      BY DEF IInv
<1> QED
    BY <1>1, Invariance, PTL

\* Overlapping registrations never create a login twice.
THEOREM UniqueLogins == Spec => []LoginsAreUnique
<1>1. IInv => LoginsAreUnique
      BY DEF IInv
<1> QED
    BY <1>1, Invariance, PTL

\* Every token leads back to the user who asked for it.
THEOREM TokensAgree == Spec => []TokensReachTheirUser
<1>1. IInv => TokensReachTheirUser
      BY DEF IInv
<1> QED
    BY <1>1, Invariance, PTL
=============================================================================
