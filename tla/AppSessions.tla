------------------------------ MODULE AppSessions ------------------------------
(***************************************************************************)
(* Whom a request acts for.  A client names itself by a session cookie     *)
(* (authMeHandler, authLogoutHandler) or, to the classroom proxy and the   *)
(* analysis, by a cookie or a telegram_id.  Each handler looks the session *)
(* or the account up first and acts for the user it found after further    *)
(* awaits, while logouts revoke sessions and logins link accounts anew.    *)
(* The rows of app_sessions are there from the start: no handler inserts   *)
(* one.                                                                    *)
(***************************************************************************)
EXTENDS Naturals

CONSTANTS Users,     \* rows of auth_users
          Sessions,  \* session cookies, app_sessions.session_hash
          Telegrams, \* Telegram account ids
          Requests,  \* requests of clients
          MaxTime,   \* bound on the clock
          None       \* SQL NULL, std::nullopt

Times == 0 .. MaxTime
Rows == [user : Users, expiresAt : Times, revokedAt : Times \cup {None},
         lastSeen : Times \cup {None}]
Kinds == {"me", "logout", "proxy"}

ASSUME TimeAssumption == MaxTime \in Nat
ASSUME NoneAssumption ==
  /\ None \notin Users \cup Sessions \cup Telegrams \cup Requests
  /\ None \notin Times /\ None \notin Rows

VARIABLES
  clock,
  sessions, \* table app_sessions
  owner,    \* auth_users.telegram_id: the user of each account
  pc,       \* what each request does next, or its answer
  ask,      \* its handler, its cookie and its telegram_id
  now,      \* the time its handler has read last
  user,     \* the user it acts for
  ended,    \* sessions that were revoked when it came in
  owners    \* users its account has belonged to since it came in

asked == <<ask, ended>>
vars == <<clock, sessions, owner, pc, asked, now, user, owners>>

Directory == INSTANCE TelegramDirectory

Answers == {"200", "204", "400", "401", "404", "405", "dropped"}
Steps == {"session", "telegram", "touch", "user", "revoke", "token", "google"}

TypeOK ==
  /\ clock \in Times
  /\ sessions \in [Sessions -> Rows \cup {None}]
  /\ owner \in [Telegrams -> Users \cup {None}]
  /\ pc \in [Requests -> {"new"} \cup Steps \cup Answers]
  /\ ask \in [Requests -> [kind : Kinds, cookie : Sessions \cup {None},
                           telegram : Telegrams \cup {None}]]
  /\ now \in [Requests -> Times]
  /\ user \in [Requests -> Users \cup {None}]
  /\ ended \in [Requests -> SUBSET Sessions]
  /\ owners \in [Requests -> SUBSET Users]

Init ==
  /\ clock = 0
  /\ sessions \in [Sessions -> {r \in Rows : r.revokedAt = None /\ r.lastSeen = None}
                                 \cup {None}]
  /\ owner \in Directory!Directories
  /\ pc = [q \in Requests |-> "new"]
  /\ ask = [q \in Requests |-> [kind |-> "me", cookie |-> None, telegram |-> None]]
  /\ now = [q \in Requests |-> 0]
  /\ user = [q \in Requests |-> None]
  /\ ended = [q \in Requests |-> {}]
  /\ owners = [q \in Requests |-> {}]

-----------------------------------------------------------------------------
Goto(q, step) == pc' = [pc EXCEPT ![q] = step]

\* A telegram_id goes before a cookie; without either there is no user, and
\* nothing to log out.
FirstStep(a) ==
  IF a.telegram # None THEN "telegram"
  ELSE IF a.cookie # None THEN IF a.kind = "logout" THEN "revoke" ELSE "session"
  ELSE IF a.kind = "logout" THEN "204" ELSE "401"

\* The row names a session that is revoked.
Revoked(row) == row # None /\ row.revokedAt # None

\* requestHandler finds the handler, and the handler reads what the client
\* names itself by.  Only the proxy and the analysis read telegram_id.
Receive(q) ==
  /\ pc[q] = "new"
  /\ \E kind \in Kinds, cookie \in Sessions \cup {None}, t \in Telegrams \cup {None} :
       LET a == [kind |-> kind, cookie |-> cookie, telegram |-> t]
       IN /\ t # None => kind = "proxy"
          /\ ask' = [ask EXCEPT ![q] = a]
          /\ Goto(q, FirstStep(a))
          /\ owners' = [owners EXCEPT ![q] = IF t = None THEN {}
                                             ELSE {owner[t]} \ {None}]
  /\ ended' = [ended EXCEPT ![q] = {s \in Sessions : Revoked(sessions[s])}]
  /\ now' = [now EXCEPT ![q] = clock]
  /\ UNCHANGED <<clock, sessions, owner, user>>

\* A preflight, another method or path, or a telegram_id that is no number: the
\* proxy's stoll throws and the connection is dropped.
Reject(q) ==
  /\ pc[q] = "new"
  /\ \E answer \in {"204", "400", "404", "405", "dropped"} : Goto(q, answer)
  /\ UNCHANGED <<clock, sessions, owner, asked, now, user, owners>>

\* Mutant of Active: without revoked_at IS NULL.
Unexpired(row, time) ==
  /\ row # None
  /\ row.expiresAt > time

\* The WHERE clause of selectActiveAppSession.
Active(row, time) ==
  /\ row # None
  /\ row.revokedAt = None
  /\ row.expiresAt > time

\* Database::selectActiveAppSession returns the row.
SelectSession(q) ==
  LET row == sessions[ask[q].cookie]
  IN /\ pc[q] = "session"
     /\ Active(row, now[q])
     /\ user' = [user EXCEPT ![q] = row.user]
     /\ now' = [now EXCEPT ![q] = clock]
     /\ Goto(q, IF ask[q].kind = "me" THEN "touch" ELSE "token")
     /\ UNCHANGED <<clock, sessions, owner, asked, owners>>

\* Mutant of SelectOwner: without its WHERE clause any row is the first.
SelectAnyUser(q) ==
  /\ pc[q] = "telegram"
  /\ \E u \in Users : user' = [user EXCEPT ![q] = u]
  /\ Goto(q, "token")
  /\ UNCHANGED <<clock, sessions, owner, asked, now, owners>>

\* Database::selectAuthUserByTelegramId returns the user.
SelectOwner(q) ==
  LET u == owner[ask[q].telegram]
  IN /\ pc[q] = "telegram"
     /\ u # None
     /\ user' = [user EXCEPT ![q] = u]
     /\ Goto(q, "token")
     /\ UNCHANGED <<clock, sessions, owner, asked, now, owners>>

\* Mutant of Unauthorised: only the session is checked for nullopt.
NoSession(q) ==
  /\ pc[q] = "session"
  /\ Goto(q, "401")
  /\ UNCHANGED <<clock, sessions, owner, asked, now, user, owners>>

\* Either returns nullopt: no such row, or a database error.
Unauthorised(q) ==
  /\ pc[q] \in {"session", "telegram"}
  /\ Goto(q, "401")
  /\ UNCHANGED <<clock, sessions, owner, asked, now, user, owners>>

\* Mutant of Touched: the row is written back as the handler had read it.
WrittenBack(row, time) ==
  [user |-> row.user, expiresAt |-> row.expiresAt, revokedAt |-> None,
   lastSeen |-> time]

\* An UPDATE of the session's row: last_seen_at, or revoked_at.
Touched(row, time) ==
  [user |-> row.user, expiresAt |-> row.expiresAt, revokedAt |-> row.revokedAt,
   lastSeen |-> time]

Ended(row, time) ==
  [user |-> row.user, expiresAt |-> row.expiresAt, revokedAt |-> time,
   lastSeen |-> row.lastSeen]

\* Database::updateAppSessionLastSeen; a failure is logged and no more.
Touch(q) ==
  LET s == ask[q].cookie
  IN /\ pc[q] = "touch"
     /\ \/ /\ sessions[s] # None
           /\ sessions' = [sessions EXCEPT ![s] = Touched(sessions[s], now[q])]
        \/ UNCHANGED sessions
     /\ Goto(q, "user")
     /\ UNCHANGED <<clock, owner, asked, now, user, owners>>

\* Database::selectAuthUserById.
SelectUser(q) ==
  /\ pc[q] = "user"
  /\ Goto(q, "200") \/ Goto(q, "401")
  /\ UNCHANGED <<clock, sessions, owner, asked, now, user, owners>>

\* Database::revokeAppSession; its result is ignored.
Revoke(q) ==
  LET s == ask[q].cookie
  IN /\ pc[q] = "revoke"
     /\ \/ /\ sessions[s] # None
           /\ sessions' = [sessions EXCEPT ![s] = Ended(sessions[s], now[q])]
        \/ UNCHANGED sessions
     /\ Goto(q, "204")
     /\ UNCHANGED <<clock, owner, asked, now, user, owners>>

\* getValidAccessToken for the user: TokenRefresh.
GetToken(q) ==
  /\ pc[q] = "token"
  /\ Goto(q, "google") \/ Goto(q, "401")
  /\ UNCHANGED <<clock, sessions, owner, asked, now, user, owners>>

\* Google is asked with the user's token, for courses or for documents.
Forward(q) ==
  /\ pc[q] = "google"
  /\ Goto(q, "200") \/ Goto(q, "dropped")
  /\ UNCHANGED <<clock, sessions, owner, asked, now, user, owners>>

-----------------------------------------------------------------------------
\* A login links an account: the step of OAuthLogin.
Relink(t, u) ==
  /\ Directory!Relink(t, u)
  /\ owners' = [q \in Requests |->
       IF pc[q] # "new" /\ ask[q].telegram = t THEN owners[q] \cup {u} ELSE owners[q]]
  /\ UNCHANGED <<clock, sessions, pc, asked, now, user>>

Tick ==
  /\ clock < MaxTime
  /\ clock' = clock + 1
  /\ UNCHANGED <<sessions, owner, pc, asked, now, user, owners>>

Step(q) ==
  \/ SelectSession(q)
  \/ SelectOwner(q)
  \/ Unauthorised(q)
  \/ Touch(q)
  \/ SelectUser(q)
  \/ Revoke(q)
  \/ GetToken(q)
  \/ Forward(q)

Next ==
  \/ \E q \in Requests : Receive(q) \/ Reject(q) \/ Step(q)
  \/ \E t \in Telegrams, u \in Users : Relink(t, u)
  \/ Tick

\* A handler that can go on does.
Fairness == \A q \in Requests : WF_vars(Step(q))

Spec == Init /\ [][Next]_vars /\ Fairness

-----------------------------------------------------------------------------
\* A session that was revoked when a request came in gives the request no
\* user, whatever requests with the same cookie were under way at the logout
\* and write to the row after it.
LogoutIsFinal ==
  \A q \in Requests :
    user[q] # None /\ ask[q].telegram = None => ask[q].cookie \notin ended[q]

\* Why: a revoked session stays revoked; the last_seen_at of a request that
\* was let in earlier does not bring it back.
RevokedStaysRevoked ==
  [][\A s \in Sessions : Revoked(sessions[s]) => Revoked(sessions'[s])]_vars

\* A request acts for a user its Telegram account has belonged to since it
\* came in, or for the user of its session, though logins move accounts from
\* user to user meanwhile.
ActsForItsUser ==
  \A q \in Requests : user[q] # None =>
    IF ask[q].telegram # None THEN user[q] \in owners[q]
    ELSE ask[q].cookie # None /\ user[q] = sessions[ask[q].cookie].user

\* What was revoked when a request came in still is; a request under way has
\* what its next step reads.
RequestsMatchRows ==
  \A q \in Requests :
    /\ \A s \in ended[q] : Revoked(sessions[s])
    /\ pc[q] = "new" => user[q] = None
    /\ pc[q] \in {"session", "touch", "revoke"} => /\ ask[q].telegram = None
                                                   /\ ask[q].cookie # None
    /\ pc[q] \in {"session", "telegram"} => user[q] = None
    /\ pc[q] = "telegram" =>
         /\ ask[q].telegram # None
         /\ owner[ask[q].telegram] # None => owner[ask[q].telegram] \in owners[q]
    /\ user[q] # None /\ ask[q].telegram = None =>
         ask[q].cookie # None /\ sessions[ask[q].cookie] # None

SessionInv == /\ TypeOK
              /\ LogoutIsFinal
              /\ ActsForItsUser
              /\ RequestsMatchRows

\* Every request that came in is answered or its connection dropped.
RequestsAreAnswered ==
  \A q \in Requests : pc[q] \in {"session", "telegram", "revoke"} ~> pc[q] \in Answers
=============================================================================
