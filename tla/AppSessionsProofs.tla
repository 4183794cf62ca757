-------------------------- MODULE AppSessionsProofs --------------------------
(***************************************************************************)
(* For every set of sessions, accounts and requests: a revoked session     *)
(* stays revoked and lets no later request in, and a request acts for a    *)
(* user its cookie or its account stands for.                              *)
(***************************************************************************)
EXTENDS AppSessions, TLAPS

LEMMA InitSessionInv == Init => SessionInv
<1>. SUFFICES ASSUME Init PROVE SessionInv
  OBVIOUS
<1>1. TypeOK
  BY TimeAssumption DEF Init, TypeOK, Times, Kinds, Directory!Directories
<1>2. LogoutIsFinal /\ ActsForItsUser /\ RequestsMatchRows
  BY DEF Init, LogoutIsFinal, ActsForItsUser, RequestsMatchRows
<1>. QED
  BY <1>1, <1>2 DEF SessionInv

-----------------------------------------------------------------------------
\* A step is one action of one request, a login, or a tick of the clock.
LEMMA NextCases ==
  ASSUME [Next]_vars
  PROVE  \/ \E q \in Requests : \/ Receive(q) \/ Reject(q)
                                \/ SelectSession(q) \/ SelectOwner(q)
                                \/ Unauthorised(q) \/ Touch(q) \/ SelectUser(q)
                                \/ Revoke(q) \/ GetToken(q) \/ Forward(q)
         \/ \E t \in Telegrams, u \in Users : Relink(t, u)
         \/ Tick
         \/ UNCHANGED vars
  BY DEF Next, Step

\* The two UPDATEs write rows.
LEMMA UpdatedRows ==
  ASSUME NEW row \in Rows, NEW time \in Times
  PROVE  /\ Touched(row, time) \in Rows
         /\ Ended(row, time) \in Rows
         /\ Touched(row, time).user = row.user
         /\ Ended(row, time).user = row.user
         /\ Touched(row, time).revokedAt = row.revokedAt
         /\ Ended(row, time).revokedAt # None
  BY NoneAssumption DEF Touched, Ended, Rows

\* Every action keeps the types.
LEMMA TypeStep ==
  ASSUME TypeOK, RequestsMatchRows, [Next]_vars
  PROVE  TypeOK'
<1>. USE DEF TypeOK, asked
<1>1. ASSUME NEW q \in Requests, Receive(q)
      PROVE  TypeOK'
  <2>1. PICK kind \in Kinds, cookie \in Sessions \cup {None}, t \in Telegrams \cup {None} :
          /\ ask' = [ask EXCEPT ![q] = [kind |-> kind, cookie |-> cookie, telegram |-> t]]
          /\ Goto(q, FirstStep([kind |-> kind, cookie |-> cookie, telegram |-> t]))
          /\ owners' = [owners EXCEPT ![q] = IF t = None THEN {} ELSE {owner[t]} \ {None}]
    BY <1>1 DEF Receive
  <2>2. FirstStep([kind |-> kind, cookie |-> cookie, telegram |-> t]) \in Steps \cup Answers
    BY DEF FirstStep, Steps, Answers
  <2>3. pc' \in [Requests -> {"new"} \cup Steps \cup Answers]
    BY <2>1, <2>2 DEF Goto
  <2>4. owners' \in [Requests -> SUBSET Users]
    BY <2>1
  <2>5. ask' \in [Requests -> [kind : Kinds, cookie : Sessions \cup {None},
                               telegram : Telegrams \cup {None}]]
    BY <2>1
  <2>. QED
    BY <1>1, <2>3, <2>4, <2>5 DEF Receive
<1>2. ASSUME NEW q \in Requests, Reject(q)
      PROVE  TypeOK'
  BY <1>2 DEF Reject, Goto, Answers
<1>3. ASSUME NEW q \in Requests, SelectSession(q)
      PROVE  TypeOK'
  <2>1. ask[q].cookie \in Sessions /\ sessions[ask[q].cookie] \in Rows
    BY <1>3 DEF SelectSession, Active, RequestsMatchRows
  <2>2. sessions[ask[q].cookie].user \in Users
    BY <2>1 DEF Rows
  <2>. QED
    BY <1>3, <2>2 DEF SelectSession, Goto, Steps
<1>4. ASSUME NEW q \in Requests, SelectOwner(q)
      PROVE  TypeOK'
  <2>1. ask[q].telegram \in Telegrams
    BY <1>4 DEF SelectOwner, RequestsMatchRows
  <2>2. owner[ask[q].telegram] \in Users
    BY <1>4, <2>1 DEF SelectOwner
  <2>. QED
    BY <1>4, <2>2 DEF SelectOwner, Goto, Steps
<1>5. ASSUME NEW q \in Requests, Unauthorised(q)
      PROVE  TypeOK'
  BY <1>5 DEF Unauthorised, Goto, Answers
<1>6. ASSUME NEW q \in Requests, Touch(q) \/ Revoke(q)
      PROVE  TypeOK'
  <2>1. ask[q].cookie \in Sessions
    BY <1>6 DEF Touch, Revoke, RequestsMatchRows
  <2>2. CASE sessions' = sessions
    BY <1>6, <2>2 DEF Touch, Revoke, Goto, Steps, Answers
  <2>3. CASE sessions' # sessions
    <3>1. sessions[ask[q].cookie] \in Rows /\ now[q] \in Times
      BY <1>6, <2>1, <2>3 DEF Touch, Revoke
    <3>2. \E row \in Rows : sessions' = [sessions EXCEPT ![ask[q].cookie] = row]
      BY <1>6, <2>3, <3>1, UpdatedRows DEF Touch, Revoke
    <3>3. sessions' \in [Sessions -> Rows \cup {None}]
      BY <2>1, <3>2
    <3>. QED
      BY <1>6, <3>3 DEF Touch, Revoke, Goto, Steps, Answers
  <2>. QED
    BY <2>2, <2>3
<1>7. ASSUME NEW q \in Requests, SelectUser(q) \/ GetToken(q) \/ Forward(q)
      PROVE  TypeOK'
  BY <1>7 DEF SelectUser, GetToken, Forward, Goto, Steps, Answers
<1>8. ASSUME NEW t \in Telegrams, NEW u \in Users, Relink(t, u)
      PROVE  TypeOK'
  BY <1>8 DEF Relink, Directory!Relink
<1>9. CASE Tick
  BY <1>9, TimeAssumption DEF Tick, Times
<1>10. CASE UNCHANGED vars
  BY <1>10 DEF vars
<1>. QED
  BY <1>1, <1>2, <1>3, <1>4, <1>5, <1>6, <1>7, <1>8, <1>9, <1>10, NextCases

\* A row keeps its user, and its revocation once it has one.
LEMMA RowsStep ==
  ASSUME TypeOK, RequestsMatchRows, [Next]_vars, NEW s \in Sessions
  PROVE  /\ (sessions[s] = None) = (sessions'[s] = None)
         /\ sessions[s] # None => sessions'[s].user = sessions[s].user
         /\ Revoked(sessions[s]) => Revoked(sessions'[s])
<1>1. ASSUME NEW q \in Requests, Touch(q) \/ Revoke(q), sessions' # sessions
      PROVE  /\ ask[q].cookie \in Sessions
             /\ sessions[ask[q].cookie] \in Rows
             /\ \E row \in {Touched(sessions[ask[q].cookie], now[q]),
                            Ended(sessions[ask[q].cookie], now[q])} :
                  sessions' = [sessions EXCEPT ![ask[q].cookie] = row]
             /\ now[q] \in Times
  BY <1>1 DEF Touch, Revoke, RequestsMatchRows, TypeOK
<1>2. ASSUME NEW q \in Requests, Touch(q) \/ Revoke(q), sessions' # sessions
      PROVE  /\ (sessions[s] = None) = (sessions'[s] = None)
             /\ sessions[s] # None => sessions'[s].user = sessions[s].user
             /\ Revoked(sessions[s]) => Revoked(sessions'[s])
  <2>1. PICK row \in {Touched(sessions[ask[q].cookie], now[q]),
                      Ended(sessions[ask[q].cookie], now[q])} :
          sessions' = [sessions EXCEPT ![ask[q].cookie] = row]
    BY <1>1, <1>2
  <2>2. /\ row \in Rows
        /\ row.user = sessions[ask[q].cookie].user
        /\ sessions[ask[q].cookie].revokedAt # None => row.revokedAt # None
    BY <1>1, <1>2, UpdatedRows
  <2>3. CASE s = ask[q].cookie
    <3>1. sessions'[s] = row /\ sessions[s] \in Rows
      BY <1>1, <1>2, <2>1, <2>3 DEF TypeOK
    <3>. QED
      BY <2>2, <2>3, <3>1, NoneAssumption DEF Revoked
  <2>4. CASE s # ask[q].cookie
    BY <2>1, <2>4 DEF TypeOK
  <2>. QED
    BY <2>3, <2>4
<1>3. CASE sessions' = sessions
  BY <1>3
<1>4. sessions' # sessions => \E q \in Requests : Touch(q) \/ Revoke(q)
  BY NextCases DEF Receive, Reject, SelectSession, SelectOwner, Unauthorised,
                   SelectUser, GetToken, Forward, Relink, Tick, vars
<1>. QED
  BY <1>2, <1>3, <1>4

-----------------------------------------------------------------------------
\* What the invariant says of one request.
Settled(p) ==
  /\ user[p] # None /\ ask[p].telegram = None => ask[p].cookie \notin ended[p]
  /\ user[p] # None =>
       IF ask[p].telegram # None THEN user[p] \in owners[p]
       ELSE ask[p].cookie # None /\ user[p] = sessions[ask[p].cookie].user
  /\ \A s \in ended[p] : Revoked(sessions[s])
  /\ pc[p] = "new" => user[p] = None
  /\ pc[p] \in {"session", "touch", "revoke"} => /\ ask[p].telegram = None
                                                 /\ ask[p].cookie # None
  /\ pc[p] \in {"session", "telegram"} => user[p] = None
  /\ pc[p] = "telegram" =>
       /\ ask[p].telegram # None
       /\ owner[ask[p].telegram] # None => owner[ask[p].telegram] \in owners[p]
  /\ user[p] # None /\ ask[p].telegram = None =>
       ask[p].cookie # None /\ sessions[ask[p].cookie] # None

LEMMA InvBySettled ==
  SessionInv <=> TypeOK /\ \A p \in Requests : Settled(p)
  BY DEF SessionInv, LogoutIsFinal, ActsForItsUser, RequestsMatchRows, Settled

\* A request that does not move stays settled, whatever others write to rows,
\* and so does one that moves on with the user and the question it has.
LEMMA StaysSettled ==
  ASSUME TypeOK, RequestsMatchRows, [Next]_vars,
         NEW p \in Requests, Settled(p),
         ask'[p] = ask[p], ended'[p] = ended[p], user'[p] = user[p],
         owners'[p] = owners[p], owner' = owner,
         \/ pc'[p] = pc[p]
         \/ pc'[p] \in {"user", "google"} \cup Answers
  PROVE  Settled(p)'
<1>1. \A s \in Sessions : /\ (sessions[s] = None) = (sessions'[s] = None)
                          /\ sessions[s] # None => sessions'[s].user = sessions[s].user
                          /\ Revoked(sessions[s]) => Revoked(sessions'[s])
  BY RowsStep
<1>2. ended[p] \subseteq Sessions /\ ask[p].cookie \in Sessions \cup {None}
  BY DEF TypeOK
<1>3. \A s \in ended[p] : Revoked(sessions'[s])
  BY <1>1, <1>2 DEF Settled
<1>. QED
  BY <1>1, <1>2, <1>3 DEF Settled, Answers

\* A step of one request settles it and leaves the others settled.
LEMMA SettledStep ==
  ASSUME SessionInv, [Next]_vars, NEW p \in Requests
  PROVE  Settled(p)'
<1>1. TypeOK /\ RequestsMatchRows /\ Settled(p)
  BY InvBySettled DEF SessionInv
<1>2. ASSUME NEW q \in Requests, Receive(q)
      PROVE  Settled(p)'
  <2>1. CASE p # q
    BY <1>1, <1>2, <2>1, StaysSettled DEF Receive, Goto, TypeOK
  <2>2. CASE p = q
    <3>1. PICK kind \in Kinds, cookie \in Sessions \cup {None}, t \in Telegrams \cup {None} :
            /\ ask' = [ask EXCEPT ![q] = [kind |-> kind, cookie |-> cookie, telegram |-> t]]
            /\ Goto(q, FirstStep([kind |-> kind, cookie |-> cookie, telegram |-> t]))
            /\ owners' = [owners EXCEPT ![q] = IF t = None THEN {} ELSE {owner[t]} \ {None}]
      BY <1>2 DEF Receive
    <3>2. /\ ask'[p] = [kind |-> kind, cookie |-> cookie, telegram |-> t]
          /\ pc'[p] = FirstStep([kind |-> kind, cookie |-> cookie, telegram |-> t])
          /\ t # None => owners'[p] = {owner[t]} \ {None}
          /\ ended'[p] = {s \in Sessions : Revoked(sessions[s])}
          /\ user'[p] = None
          /\ sessions' = sessions /\ owner' = owner
      BY <1>1, <1>2, <2>2, <3>1 DEF Receive, Goto, TypeOK, Settled
    <3>3. /\ pc'[p] \in {"session", "revoke"} => t = None /\ cookie # None
          /\ pc'[p] = "telegram" => t # None
          /\ pc'[p] \notin {"new", "touch"}
      BY <3>2 DEF FirstStep
    <3>. QED
      BY <3>2, <3>3 DEF Settled
  <2>. QED
    BY <2>1, <2>2
<1>3. ASSUME NEW q \in Requests,
             \/ Reject(q) \/ Unauthorised(q) \/ Touch(q) \/ SelectUser(q)
             \/ Revoke(q) \/ GetToken(q) \/ Forward(q)
      PROVE  Settled(p)'
  <2>1. /\ ask' = ask /\ ended' = ended /\ user' = user
        /\ owners' = owners /\ owner' = owner
        /\ pc'[p] = pc[p] \/ pc'[p] \in {"user", "google"} \cup Answers
    BY <1>1, <1>3 DEF Reject, Unauthorised, Touch, SelectUser, Revoke, GetToken,
                      Forward, Goto, asked, Answers, TypeOK
  <2>. QED
    BY <1>1, <2>1, StaysSettled
<1>4. ASSUME NEW q \in Requests, SelectSession(q)
      PROVE  Settled(p)'
  <2>1. CASE p # q
    BY <1>1, <1>4, <2>1, StaysSettled DEF SelectSession, Goto, TypeOK, asked
  <2>2. CASE p = q
    <3>1. /\ sessions' = sessions /\ ask' = ask /\ ended' = ended
          /\ user'[p] = sessions[ask[p].cookie].user
          /\ pc'[p] \in {"touch", "token"}
          /\ ask[p].telegram = None /\ ask[p].cookie # None
      BY <1>1, <1>4, <2>2 DEF SelectSession, Goto, TypeOK, asked, Settled
    <3>2. sessions[ask[p].cookie] # None /\ ~Revoked(sessions[ask[p].cookie])
      BY <1>4, <2>2 DEF SelectSession, Active, Revoked
    <3>3. ask[p].cookie \notin ended[p]
      BY <1>1, <3>2 DEF Settled
    <3>. QED
      BY <1>1, <3>1, <3>2, <3>3 DEF Settled
  <2>. QED
    BY <2>1, <2>2
<1>5. ASSUME NEW q \in Requests, SelectOwner(q)
      PROVE  Settled(p)'
  <2>1. CASE p # q
    BY <1>1, <1>5, <2>1, StaysSettled DEF SelectOwner, Goto, TypeOK, asked
  <2>2. CASE p = q
    BY <1>1, <1>5, <2>2 DEF SelectOwner, Goto, TypeOK, asked, Settled
  <2>. QED
    BY <2>1, <2>2
<1>6. ASSUME NEW t \in Telegrams, NEW u \in Users, Relink(t, u)
      PROVE  Settled(p)'
  <2>1. /\ sessions' = sessions /\ pc' = pc /\ ask' = ask /\ ended' = ended /\ user' = user
        /\ owners[p] \subseteq owners'[p]
        /\ pc[p] # "new" /\ ask[p].telegram = t => u \in owners'[p]
    BY <1>1, <1>6 DEF Relink, asked, TypeOK
  <2>2. \A v \in Telegrams : owner'[v] = owner[v] \/ owner'[v] = None \/ (v = t /\ owner'[v] = u)
    BY <1>1, <1>6 DEF Relink, Directory!Relink, TypeOK
  <2>3. ask[p].telegram \in Telegrams \cup {None}
    BY <1>1 DEF TypeOK
  <2>. QED
    BY <1>1, <2>1, <2>2, <2>3 DEF Settled
<1>7. CASE Tick \/ UNCHANGED vars
  BY <1>1, <1>7, StaysSettled DEF Tick, vars, asked
<1>. QED
  BY <1>2, <1>3, <1>4, <1>5, <1>6, <1>7, NextCases

LEMMA Invariance == Spec => []SessionInv
<1>1. ASSUME SessionInv, [Next]_vars
      PROVE  SessionInv'
  <2>1. TypeOK'
    BY <1>1, TypeStep DEF SessionInv
  <2>2. \A p \in Requests : Settled(p)'
    BY <1>1, SettledStep
  <2>. QED
    BY <2>1, <2>2 DEF SessionInv, LogoutIsFinal, ActsForItsUser, RequestsMatchRows, Settled
<1>. QED
  BY InitSessionInv, <1>1, PTL DEF Spec

-----------------------------------------------------------------------------
\* The variables keep their types.
THEOREM TypeCorrect == Spec => []TypeOK
<1>1. SessionInv => TypeOK
  BY DEF SessionInv
<1>. QED
  BY Invariance, <1>1, PTL

\* A session revoked before a request came in gives it no user.
THEOREM Finality == Spec => []LogoutIsFinal
<1>1. SessionInv => LogoutIsFinal
  BY DEF SessionInv
<1>. QED
  BY Invariance, <1>1, PTL

\* A request acts for the user of its cookie, or for one its account has
\* belonged to since it came in.
THEOREM Identity == Spec => []ActsForItsUser
<1>1. SessionInv => ActsForItsUser
  BY DEF SessionInv
<1>. QED
  BY Invariance, <1>1, PTL

\* No write of a request under way brings a revoked session back.
THEOREM RevocationKept == Spec => RevokedStaysRevoked
<1>1. ASSUME SessionInv, [Next]_vars
      PROVE  [\A s \in Sessions : Revoked(sessions[s]) => Revoked(sessions'[s])]_vars
  BY <1>1, RowsStep DEF SessionInv
<1>. QED
  BY Invariance, <1>1, PTL DEF Spec, RevokedStaysRevoked
=============================================================================
