---------------------------- MODULE TokenRefresh ----------------------------
(***************************************************************************)
(* GoogleTokenManager::getValidAccessToken, called by the classroom proxy, *)
(* on the row of google_oauth_tokens of one user, while other proxy        *)
(* requests and logins of the same user read and write the row.            *)
(*                                                                         *)
(* A token is named by the request that got it from Google.  Google counts *)
(* a token's life from the moment it issues it; the program counts it from *)
(* the moment it handles the answer, so the expires_at it stores is late   *)
(* by as long as the answer took.  The margin of the check has to make up  *)
(* for that.                                                               *)
(***************************************************************************)
EXTENDS Naturals

CONSTANTS Proxies,     \* calls of getValidAccessToken
          Logins,      \* callbacks that save tokens of the user
          Lifetime,    \* expires_in of an access token
          Margin,      \* seconds passed to isTimestampAfterNowPlus: 300
          RefreshTime, \* longest time from issue to answer of a refresh call
          LoginTime,   \* longest time from issue to line 444 of a login
          MaxTime,     \* bound on the clock
          None         \* SQL NULL, std::nullopt

Requests == Proxies \cup Logins
Times == 0 .. MaxTime
Expiries == 0 .. MaxTime + Lifetime
Rows == [access : Requests, refresh : Requests \cup {None}, expiresAt : Expiries]

ASSUME NumberAssumption ==
  /\ Lifetime \in Nat /\ Margin \in Nat /\ RefreshTime \in Nat
  /\ LoginTime \in Nat /\ MaxTime \in Nat
ASSUME NoneAssumption == None \notin Requests /\ None \notin Rows
ASSUME RequestAssumption == Proxies \cap Logins = {}

VARIABLES
  clock,
  row,      \* the user's row of google_oauth_tokens
  issuedAt, \* when Google issued the access token of each request
  pc,       \* what each request does next, or its answer
  read,     \* the row a request has read
  write     \* the row it is about to store

vars == <<clock, row, issuedAt, pc, read, write>>

Answers == {"401", "cached", "fresh", "saved"}
Steps == {"select", "check", "refresh", "answer", "store"}

TypeOK ==
  /\ clock \in Times
  /\ row \in Rows \cup {None}
  /\ issuedAt \in [Requests -> Times]
  /\ pc \in [Requests -> {"new"} \cup Steps \cup Answers]
  /\ read \in [Requests -> Rows \cup {None}]
  /\ write \in [Requests -> Rows \cup {None}]

Init ==
  /\ clock = 0
  /\ row = None
  /\ issuedAt = [q \in Requests |-> 0]
  /\ pc = [q \in Requests |-> "new"]
  /\ read = [q \in Requests |-> None]
  /\ write = [q \in Requests |-> None]

-----------------------------------------------------------------------------
Goto(q, step) == pc' = [pc EXCEPT ![q] = step]

\* Google issues the access token of request q.
Issue(q) == issuedAt' = [issuedAt EXCEPT ![q] = clock]

\* The answer to q can still be on its way: no time-out has cut it off.
InTime(q, limit) == clock <= issuedAt[q] + limit

\* Mutant of Upsert: SET refresh_token_enc = excluded.refresh_token_enc.
Overwrite(old, new) == new

\* ON CONFLICT (user_id) DO UPDATE ... COALESCE(excluded, stored).
Upsert(old, new) ==
  [access |-> new.access,
   refresh |-> IF new.refresh = None /\ old # None THEN old.refresh ELSE new.refresh,
   expiresAt |-> new.expiresAt]

\* The row q stores for the answer it is handling.
NewRow(q, refresh) ==
  [access |-> q, refresh |-> refresh, expiresAt |-> clock + Lifetime]

-----------------------------------------------------------------------------
(* A call of getValidAccessToken *)

CallManager(p) ==
  /\ pc[p] = "new"
  /\ Goto(p, "select")
  /\ UNCHANGED <<clock, row, issuedAt, read, write>>

\* Database::selectGoogleOAuthTokens; a database error reads as "no row".
SelectTokens(p) ==
  /\ pc[p] = "select"
  /\ \E found \in {row, None} : read' = [read EXCEPT ![p] = found]
  /\ Goto(p, "check")
  /\ UNCHANGED <<clock, row, issuedAt, write>>

\* Mutant of LongLived: not strictly after.
LongLivedOrEqual(r) == r.expiresAt >= clock + Margin

\* isTimestampAfterNowPlus(expiresAt, Margin): strictly after.
LongLived(r) == r.expiresAt > clock + Margin

\* The stored token has long enough to live.
ReturnCached(p) ==
  /\ pc[p] = "check"
  /\ read[p] # None
  /\ LongLived(read[p])
  /\ Goto(p, "cached")
  /\ UNCHANGED <<clock, row, issuedAt, read, write>>

\* It has not, and there is a refresh token to get another with.
NeedRefresh(p) ==
  /\ pc[p] = "check"
  /\ read[p] # None
  /\ ~LongLived(read[p])
  /\ read[p].refresh # None
  /\ Goto(p, "refresh")
  /\ UNCHANGED <<clock, row, issuedAt, read, write>>

\* No row, no refresh token, or one that does not decrypt.
GiveUp(p) ==
  /\ pc[p] = "check"
  /\ Goto(p, "401")
  /\ UNCHANGED <<clock, row, issuedAt, read, write>>

\* GoogleOAuthClient::refreshAccessToken reaches Google.
GoogleRefreshes(p) ==
  /\ pc[p] = "refresh"
  /\ Issue(p)
  /\ Goto(p, "answer")
  /\ UNCHANGED <<clock, row, read, write>>

\* The answer is handled, with a new refresh token or with none: then the
\* one that was read is stored again.
RefreshAnswered(p) ==
  /\ pc[p] = "answer"
  /\ InTime(p, RefreshTime)
  /\ \E r \in {p, read[p].refresh} : write' = [write EXCEPT ![p] = NewRow(p, r)]
  /\ Goto(p, "store")
  /\ UNCHANGED <<clock, row, issuedAt, read>>

\* Mutant of RefreshFails: a call that has been sent never times out.
RefreshNotSent(p) ==
  /\ pc[p] = "refresh"
  /\ Goto(p, "401")
  /\ UNCHANGED <<clock, row, issuedAt, read, write>>

\* The call throws: time-out, lost connection, or an answer that is not 200.
RefreshFails(p) ==
  /\ pc[p] \in {"refresh", "answer"}
  /\ Goto(p, "401")
  /\ UNCHANGED <<clock, row, issuedAt, read, write>>

\* Database::upsertGoogleOAuthTokens; its result is ignored.
StoreRefreshed(p) ==
  /\ pc[p] = "store"
  /\ row' \in {Upsert(row, write[p]), row}
  /\ Goto(p, "fresh")
  /\ UNCHANGED <<clock, issuedAt, read, write>>

-----------------------------------------------------------------------------
(* A login of the same user: OAuthLogin, as far as the row is concerned *)

\* exchangeCodeForTokens reaches Google; userinfo and two queries follow.
GoogleExchanges(l) ==
  /\ pc[l] = "new"
  /\ Issue(l)
  /\ Goto(l, "answer")
  /\ UNCHANGED <<clock, row, read, write>>

\* The handler knows what to store: the refresh token Google sent, the one
\* it reads in the row, or none.
LoginReady(l) ==
  /\ pc[l] = "answer"
  /\ InTime(l, LoginTime)
  /\ \E r \in {l, IF row = None THEN None ELSE row.refresh, None} :
       write' = [write EXCEPT ![l] = NewRow(l, r)]
  /\ Goto(l, "store")
  /\ UNCHANGED <<clock, row, issuedAt, read>>

LoginFails(l) ==
  /\ pc[l] \in {"answer", "store"}
  /\ Goto(l, "401")
  /\ UNCHANGED <<clock, row, issuedAt, read, write>>

\* registerNewAuthUserWithTokens or updateAuthUserLoginWithTokens.
StoreLogin(l) ==
  /\ pc[l] = "store"
  /\ row' = Upsert(row, write[l])
  /\ Goto(l, "saved")
  /\ UNCHANGED <<clock, issuedAt, read, write>>

-----------------------------------------------------------------------------
Tick ==
  /\ clock < MaxTime
  /\ clock' = clock + 1
  /\ UNCHANGED <<row, issuedAt, pc, read, write>>

ProxyStep(p) ==
  \/ SelectTokens(p)
  \/ ReturnCached(p)
  \/ NeedRefresh(p)
  \/ GiveUp(p)
  \/ GoogleRefreshes(p)
  \/ RefreshAnswered(p)
  \/ RefreshFails(p)
  \/ StoreRefreshed(p)

LoginStep(l) ==
  \/ GoogleExchanges(l)
  \/ LoginReady(l)
  \/ LoginFails(l)
  \/ StoreLogin(l)

Next ==
  \/ \E p \in Proxies : CallManager(p) \/ ProxyStep(p)
  \/ \E l \in Logins : LoginStep(l)
  \/ Tick

\* A suspended call is resumed once what it waits for has happened.
Fairness == \A p \in Proxies : WF_vars(ProxyStep(p))

Spec == Init /\ [][Next]_vars /\ Fairness

-----------------------------------------------------------------------------
\* How late the recorded expiry of a request's token can be.
Lateness(q) == IF q \in Logins THEN LoginTime ELSE RefreshTime

\* The expiry in a row is no later than the true one, but for the lateness.
Honest(r) == r # None =>
  r.expiresAt <= issuedAt[r.access] + Lifetime + Lateness(r.access)

\* A request that has not handled Google's answer; its token is in no row.
Unanswered(q) == pc[q] \in {"new", "select", "check", "refresh", "answer"}

\* Why CachedTokenLives holds, whatever rows overlapping calls read, keep and
\* write over one another.
RowsAreHonest ==
  /\ Honest(row)
  /\ row # None => ~Unanswered(row.access)
  /\ \A q \in Requests :
       /\ Honest(read[q])
       /\ read[q] # None => ~Unanswered(read[q].access)
       /\ Honest(write[q])
       /\ write[q] # None => write[q].access = q
       /\ Unanswered(q) => write[q] = None
       /\ pc[q] = "store" => write[q] # None
       /\ q \in Proxies /\ pc[q] \in {"refresh", "answer"}
            => read[q] # None /\ read[q].refresh # None

\* A token returned from the table has, by Google's clock, more than the
\* margin less its lateness still to live: it is alive if answers take no
\* longer than the margin.
CachedTokenLives ==
  [][\A p \in Proxies : pc[p] # "cached" /\ pc'[p] = "cached" =>
       LET a == read[p].access
       IN issuedAt[a] + Lifetime + Lateness(a) > clock + Margin]_vars

\* Overlapping calls may store an old refresh token again, but never none.
RefreshIsKept ==
  [][row # None /\ row.refresh # None => row' # None /\ row'.refresh # None]_vars

\* Every call of getValidAccessToken returns, though Google may never answer.
ProxiesAreAnswered == \A p \in Proxies : pc[p] = "select" ~> pc[p] \in Answers
=============================================================================
