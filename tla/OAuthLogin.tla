----------------------------- MODULE OAuthLogin -----------------------------
(***************************************************************************)
(* Logging in with Google: GET /auth/google/start (authGoogleStartHandler) *)
(* and GET /auth/google/callback (authGoogleCallbackHandler), with the     *)
(* tables they keep.  Every database call is one transaction and one step; *)
(* between two of them a handler is suspended and others run.  A call may  *)
(* fail without effect, and it may take effect and yet be reported as      *)
(* failed, when the answer to COMMIT is lost: the catch blocks of          *)
(* Database.cpp answer false or nullopt for both.  The server may crash at *)
(* any moment, and its clients then get no answer.                         *)
(*                                                                         *)
(* A user's row is named by its google_sub, which is unique.  An access or *)
(* refresh token is named by the callback that got it from Google.         *)
(***************************************************************************)
EXTENDS Naturals, FiniteSets

CONSTANTS Subs,       \* Google accounts (the claim "sub")
          Telegrams,  \* Telegram account ids
          Starts,     \* requests to /auth/google/start; names their state too
          Callbacks,  \* requests to /auth/google/callback
          Ttl,        \* life of a state: getCurrentTimeAfterMinutes(5)
          MaxTime,    \* bound on the clock
          None        \* SQL NULL, std::nullopt

Times == 0 .. MaxTime
Expiries == 0 .. MaxTime + Ttl
StateRows == [telegram : Telegrams, expiresAt : Expiries,
              consumedAt : Times \cup {None}]
TokenRows == [access : Callbacks, refresh : Callbacks \cup {None}]

ASSUME TimeAssumption == Ttl \in Nat /\ MaxTime \in Nat

\* NULL is no value of any column.
ASSUME NoneAssumption ==
  /\ None \notin Subs \cup Telegrams \cup Starts \cup Callbacks
  /\ None \notin Times /\ None \notin StateRows /\ None \notin TokenRows

VARIABLES
  config,       \* whether the client and the token encryption key are set
  clock,
  startPc,      \* what each start request does next, or its answer
  startArg,     \* its telegram_id and the expiry computed for its state
  oauthStates,  \* table oauth_states, by the start that made the state
  users,        \* table auth_users
  owner,        \* its column telegram_id: the user of each account
  tokens,       \* table google_oauth_tokens, by user
  pc,           \* what each callback does next, or its answer
  ask,          \* its state, and the Google account that gave consent
  now,          \* the time it was received
  telegram,     \* what consumeOAuthState returned to it
  known,        \* whether it found the user in auth_users
  refresh       \* the refresh token it is about to store

tables == <<oauthStates, users, owner, tokens>>
startVars == <<startPc, startArg>>
callbackVars == <<pc, ask, now, telegram, known, refresh>>
vars == <<config, clock, startVars, tables, callbackVars>>

Directory == INSTANCE TelegramDirectory WITH Users <- Subs

StartAnswers == {"302", "400", "500", "lost"}
Answers == {"200", "400", "401", "500", "502", "lost"}
Steps == {"consume", "exchange", "userinfo", "select", "tokens", "save", "link"}

TypeOK ==
  /\ config \in [oauth : BOOLEAN, key : BOOLEAN]
  /\ clock \in Times
  /\ startPc \in [Starts -> {"new", "insert"} \cup StartAnswers]
  /\ startArg \in [Starts -> [telegram : Telegrams \cup {None}, expiresAt : Expiries]]
  /\ oauthStates \in [Starts -> StateRows \cup {None}]
  /\ users \subseteq Subs
  /\ owner \in [Telegrams -> Subs \cup {None}]
  /\ tokens \in [Subs -> TokenRows \cup {None}]
  /\ pc \in [Callbacks -> {"new"} \cup Steps \cup Answers]
  /\ ask \in [Callbacks -> [state : Starts \cup {None}, sub : Subs \cup {None}]]
  /\ now \in [Callbacks -> Times]
  /\ telegram \in [Callbacks -> Telegrams \cup {None}]
  /\ known \in [Callbacks -> BOOLEAN]
  /\ refresh \in [Callbacks -> Callbacks \cup {None}]

Init ==
  /\ config \in [oauth : BOOLEAN, key : BOOLEAN]
  /\ clock = 0
  /\ startPc = [s \in Starts |-> "new"]
  /\ startArg = [s \in Starts |-> [telegram |-> None, expiresAt |-> 0]]
  /\ oauthStates = [s \in Starts |-> None]
  /\ users = {}
  /\ owner = [t \in Telegrams |-> None]
  /\ tokens = [g \in Subs |-> None]
  /\ pc = [c \in Callbacks |-> "new"]
  /\ ask = [c \in Callbacks |-> [state |-> None, sub |-> None]]
  /\ now = [c \in Callbacks |-> 0]
  /\ telegram = [c \in Callbacks |-> None]
  /\ known = [c \in Callbacks |-> FALSE]
  /\ refresh = [c \in Callbacks |-> None]

-----------------------------------------------------------------------------
(* GET /auth/google/start *)

StartGoto(s, step) == startPc' = [startPc EXCEPT ![s] = step]

\* No client configured, or telegram_id missing or not a number.
RejectStart(s) ==
  /\ startPc[s] = "new"
  /\ \/ ~config.oauth /\ StartGoto(s, "500")
     \/ config.oauth /\ StartGoto(s, "400")
  /\ UNCHANGED <<config, clock, startArg, tables, callbackVars>>

\* A state is drawn at random and its expiry computed.
AcceptStart(s) ==
  /\ startPc[s] = "new"
  /\ config.oauth
  /\ \E t \in Telegrams :
       startArg' = [startArg EXCEPT ![s] = [telegram |-> t, expiresAt |-> clock + Ttl]]
  /\ StartGoto(s, "insert")
  /\ UNCHANGED <<config, clock, tables, callbackVars>>

\* Database::insertOAuthState: the row is there, whatever is reported.
InsertOAuthState(s) ==
  /\ startPc[s] = "insert"
  /\ oauthStates' = [oauthStates EXCEPT ![s] =
       [telegram |-> startArg[s].telegram, expiresAt |-> startArg[s].expiresAt,
        consumedAt |-> None]]
  /\ StartGoto(s, "302") \/ StartGoto(s, "500")
  /\ UNCHANGED <<config, clock, startArg, users, owner, tokens, callbackVars>>

InsertOAuthStateFails(s) ==
  /\ startPc[s] = "insert"
  /\ StartGoto(s, "500")
  /\ UNCHANGED <<config, clock, startArg, tables, callbackVars>>

-----------------------------------------------------------------------------
(* GET /auth/google/callback *)

Goto(c, step) == pc' = [pc EXCEPT ![c] = step]

\* A database write took effect: the handler hears so and goes on, or it
\* hears of an error and answers.
GoOnOrAnswer(c, step, answer) == Goto(c, step) \/ Goto(c, answer)

\* Google answered "error", or "code" or "state" is missing.
RejectCallback(c) ==
  /\ pc[c] = "new"
  /\ Goto(c, "400") \/ Goto(c, "401")
  /\ UNCHANGED <<config, clock, startVars, tables, ask, now, telegram, known, refresh>>

\* The browser brings back the state it was sent away with, and the code of
\* whichever account consented; it may do so again (reload, back button).
ReceiveCallback(c) ==
  /\ pc[c] = "new"
  /\ \E s \in Starts, g \in Subs :
       /\ startPc[s] = "302"
       /\ ask' = [ask EXCEPT ![c] = [state |-> s, sub |-> g]]
  /\ now' = [now EXCEPT ![c] = clock]
  /\ Goto(c, "consume")
  /\ UNCHANGED <<config, clock, startVars, tables, telegram, known, refresh>>

\* Mutants of Consumable: without consumed_at IS NULL, without expires_at.
ConsumableAgain(row, time) ==
  /\ row # None
  /\ row.expiresAt > time

ConsumableLate(row, time) ==
  /\ row # None
  /\ row.consumedAt = None

\* The WHERE clause of consumeOAuthState.
Consumable(row, time) ==
  /\ row # None
  /\ row.consumedAt = None
  /\ row.expiresAt > time

Consumed(row, time) ==
  [telegram |-> row.telegram, expiresAt |-> row.expiresAt, consumedAt |-> time]

\* Database::consumeOAuthState updates the row.
ConsumeOAuthState(c) ==
  LET s == ask[c].state
  IN /\ pc[c] = "consume"
     /\ Consumable(oauthStates[s], now[c])
     /\ oauthStates' = [oauthStates EXCEPT ![s] = Consumed(oauthStates[s], now[c])]
     /\ \/ /\ Goto(c, "exchange")
           /\ telegram' = [telegram EXCEPT ![c] = oauthStates[s].telegram]
        \/ /\ Goto(c, "401")
           /\ UNCHANGED telegram
     /\ UNCHANGED <<config, clock, startVars, users, owner, tokens, ask, now,
                    known, refresh>>

\* No row matches, or a database error.
ConsumeRefused(c) ==
  /\ pc[c] = "consume"
  /\ Goto(c, "401")
  /\ UNCHANGED <<config, clock, startVars, tables, ask, now, telegram, known, refresh>>

\* GoogleOAuthClient::exchangeCodeForTokens; Google need not send a refresh
\* token to an account that has consented before.
Exchange(c) ==
  /\ pc[c] = "exchange"
  /\ \E r \in {c, None} : refresh' = [refresh EXCEPT ![c] = r]
  /\ Goto(c, "userinfo")
  /\ UNCHANGED <<config, clock, startVars, tables, ask, now, telegram, known>>

\* GoogleOAuthClient::fetchUserInfo returns the account ask[c].sub.
FetchUserInfo(c) ==
  /\ pc[c] = "userinfo"
  /\ Goto(c, "select")
  /\ UNCHANGED <<config, clock, startVars, tables, ask, now, telegram, known, refresh>>

\* Either call throws: no connection, time out, or an answer that is not 200.
GoogleFails(c) ==
  /\ pc[c] \in {"exchange", "userinfo"}
  /\ Goto(c, "502")
  /\ UNCHANGED <<config, clock, startVars, tables, ask, now, telegram, known, refresh>>

\* Mutant of SelectUser: a missing encryption key goes unnoticed.
SelectUserOnly(c) ==
  /\ pc[c] = "select"
  /\ \E found \in BOOLEAN :
       /\ found => ask[c].sub \in users
       /\ known' = [known EXCEPT ![c] = found]
       /\ Goto(c, IF found /\ refresh[c] = None THEN "tokens" ELSE "save")
  /\ UNCHANGED <<config, clock, startVars, tables, ask, now, telegram, refresh>>

\* Database::selectAuthUserByGoogleSub; a database error reads as "no user".
SelectUser(c) ==
  /\ pc[c] = "select"
  /\ \E found \in BOOLEAN :
       /\ found => ask[c].sub \in users
       /\ known' = [known EXCEPT ![c] = found]
       /\ Goto(c, IF ~config.key THEN "500"
                  ELSE IF found /\ refresh[c] = None THEN "tokens" ELSE "save")
  /\ UNCHANGED <<config, clock, startVars, tables, ask, now, telegram, refresh>>

\* Google sent no refresh token: keep the stored one, if it can be read.
SelectTokens(c) ==
  LET row == tokens[ask[c].sub]
  IN /\ pc[c] = "tokens"
     /\ \E r \in {IF row = None THEN None ELSE row.refresh, None} :
          refresh' = [refresh EXCEPT ![c] = r]
     /\ Goto(c, "save")
     /\ UNCHANGED <<config, clock, startVars, tables, ask, now, telegram, known>>

\* Mutant of Register: the two INSERTs are committed apart, and the server
\* stops after the first.
RegisterUser(c) ==
  LET g == ask[c].sub
  IN /\ pc[c] = "save"
     /\ ~known[c]
     /\ g \notin users
     /\ users' = users \cup {g}
     /\ Goto(c, "500")
     /\ UNCHANGED <<config, clock, startVars, oauthStates, owner, tokens, ask,
                    now, telegram, known, refresh>>

\* Database::registerNewAuthUserWithTokens: both INSERTs, one COMMIT.
Register(c) ==
  LET g == ask[c].sub
  IN /\ pc[c] = "save"
     /\ ~known[c]
     /\ g \notin users
     /\ users' = users \cup {g}
     /\ tokens' = [tokens EXCEPT ![g] = [access |-> c, refresh |-> refresh[c]]]
     /\ GoOnOrAnswer(c, "link", "500")
     /\ UNCHANGED <<config, clock, startVars, oauthStates, owner, ask, now,
                    telegram, known, refresh>>

\* Mutant of Upsert: SET refresh_token_enc = excluded.refresh_token_enc.
Overwrite(row, access, r) == [access |-> access, refresh |-> r]

\* ON CONFLICT (user_id) DO UPDATE ... COALESCE(excluded, stored).
Upsert(row, access, r) ==
  [access |-> access,
   refresh |-> IF r = None /\ row # None THEN row.refresh ELSE r]

\* Database::updateAuthUserLoginWithTokens.
UpdateLogin(c) ==
  LET g == ask[c].sub
  IN /\ pc[c] = "save"
     /\ known[c]
     /\ tokens' = [tokens EXCEPT ![g] = Upsert(tokens[g], c, refresh[c])]
     /\ GoOnOrAnswer(c, "link", "500")
     /\ UNCHANGED <<config, clock, startVars, oauthStates, users, owner, ask,
                    now, telegram, known, refresh>>

\* Database::linkTelegramIdToUser, atomic by the refinement of TelegramLink.
Link(c) ==
  /\ pc[c] = "link"
  /\ Directory!Relink(telegram[c], ask[c].sub)
  /\ GoOnOrAnswer(c, "200", "500")
  /\ UNCHANGED <<config, clock, startVars, oauthStates, users, tokens, ask, now,
                 telegram, known, refresh>>

\* Mutant of WriteFails: the handler tries the transaction again.
WriteIsRetried(c) ==
  /\ pc[c] \in {"save", "link"}
  /\ UNCHANGED vars

\* The transaction fails: connection, constraint violation, deadlock victim.
WriteFails(c) ==
  /\ pc[c] \in {"save", "link"}
  /\ Goto(c, "500")
  /\ UNCHANGED <<config, clock, startVars, tables, ask, now, telegram, known, refresh>>

-----------------------------------------------------------------------------
\* The process dies: requests under way are lost, the tables stay.
Crash ==
  /\ startPc' = [s \in Starts |-> IF startPc[s] = "insert" THEN "lost" ELSE startPc[s]]
  /\ pc' = [c \in Callbacks |-> IF pc[c] \in Steps THEN "lost" ELSE pc[c]]
  /\ UNCHANGED <<config, clock, startArg, tables, ask, now, telegram, known, refresh>>

Tick ==
  /\ clock < MaxTime
  /\ clock' = clock + 1
  /\ UNCHANGED <<config, startVars, tables, callbackVars>>

StartStep(s) == InsertOAuthState(s) \/ InsertOAuthStateFails(s)

CallbackStep(c) ==
  \/ ConsumeOAuthState(c)
  \/ ConsumeRefused(c)
  \/ Exchange(c)
  \/ FetchUserInfo(c)
  \/ GoogleFails(c)
  \/ SelectUser(c)
  \/ SelectTokens(c)
  \/ Register(c)
  \/ UpdateLogin(c)
  \/ Link(c)
  \/ WriteFails(c)

Next ==
  \/ \E s \in Starts : RejectStart(s) \/ AcceptStart(s) \/ StartStep(s)
  \/ \E c \in Callbacks : RejectCallback(c) \/ ReceiveCallback(c) \/ CallbackStep(c)
  \/ Crash
  \/ Tick

\* A handler that can go on does: the io_context keeps running.
Fairness == /\ \A s \in Starts : WF_vars(StartStep(s))
            /\ \A c \in Callbacks : WF_vars(CallbackStep(c))

Spec == Init /\ [][Next]_vars /\ Fairness

-----------------------------------------------------------------------------
\* Callback c was let past consumeOAuthState.
Admitted(c) == telegram[c] # None

\* A state admits one callback at most, though the browser may bring it back
\* several times at once, the answer to the consuming UPDATE may be lost, and
\* the server may crash right after it: the WHERE clause of consumeOAuthState.
StateUsedOnce ==
  \A c, d \in Callbacks :
    c # d /\ Admitted(c) /\ Admitted(d) => ask[c].state # ask[d].state

\* Callback c carried a state that a start request made for account t, was
\* redirected with, and that had not expired when c came in.
AuthorisedFor(c, t) ==
  LET s == ask[c].state
  IN /\ s \in Starts
     /\ startPc[s] = "302"
     /\ telegram[c] = t
     /\ startArg[s].telegram = t
     /\ now[c] < startArg[s].expiresAt

\* A Telegram account is linked only to a user whom Google vouched for in a
\* callback that answered a start request made for that Telegram account.
LinksAreAuthorised ==
  \A t \in Telegrams : owner[t] # None =>
    \E c \in Callbacks : AuthorisedFor(c, t) /\ ask[c].sub = owner[t]

\* Tokens are stored for the account that gave them, after a login with a
\* live state, and never without an encryption key.
TokensAreAuthorised ==
  \A g \in Subs : tokens[g] # None =>
    /\ config.key
    /\ \A c \in {tokens[g].access, tokens[g].refresh} \ {None} :
         /\ ask[c].sub = g
         /\ \E t \in Telegrams : AuthorisedFor(c, t)

\* registerNewAuthUserWithTokens commits "both operations together": however
\* a login fails, every user has tokens, tokens have a user, and a linked
\* account is that of a user.
AccountsAreWhole ==
  /\ \A g \in Subs : g \in users <=> tokens[g] # None
  /\ \A t \in Telegrams : owner[t] # None => owner[t] \in users

\* Once a user has a refresh token, no later login leaves the user without
\* one, though Google sends it only on the first consent and the handler
\* reads the old one long before it writes.
RefreshIsKept ==
  [][\A g \in Subs : tokens[g] # None /\ tokens[g].refresh # None
                       => tokens'[g] # None /\ tokens'[g].refresh # None]_vars

\* Why these hold.  A row of oauth_states is what its start request computed.
StatesMatchStarts ==
  /\ \A s \in Starts : startPc[s] \in {"insert", "302"} => startArg[s].telegram # None
  /\ \A s \in Starts : oauthStates[s] # None =>
       /\ startPc[s] \in {"302", "500"}
       /\ oauthStates[s].telegram = startArg[s].telegram
       /\ oauthStates[s].expiresAt = startArg[s].expiresAt

\* A callback under way brings the state of a redirected start; one that was
\* admitted used its state up.
CallbacksMatchStates ==
  \A c \in Callbacks :
    /\ pc[c] \in Steps => /\ ask[c].state \in Starts
                          /\ ask[c].sub \in Subs
                          /\ startPc[ask[c].state] = "302"
    /\ pc[c] \in {"new", "consume"} => ~Admitted(c)
    /\ pc[c] \in Steps \ {"consume"} => Admitted(c)
    /\ Admitted(c) => /\ AuthorisedFor(c, telegram[c])
                      /\ oauthStates[ask[c].state] # None
                      /\ oauthStates[ask[c].state].consumedAt # None

\* Token r was got by an admitted callback of account g.
GotBy(r, g) == Admitted(r) /\ ask[r].sub = g

\* The tokens stored for a user, and those a callback is about to store, came
\* from callbacks of the same Google account.
TokensMatchCallbacks ==
  /\ \A g \in Subs : tokens[g] # None =>
       /\ config.key
       /\ GotBy(tokens[g].access, g)
       /\ tokens[g].refresh # None => GotBy(tokens[g].refresh, g)
  /\ \A c \in Callbacks :
       /\ pc[c] \in {"new", "consume", "exchange"} => refresh[c] = None
       /\ refresh[c] # None => GotBy(refresh[c], ask[c].sub)
       /\ pc[c] \in {"tokens", "save", "link"} => config.key
       /\ pc[c] \in {"tokens", "save"} /\ known[c] => ask[c].sub \in users
       /\ pc[c] = "link" => ask[c].sub \in users

LoginInv == /\ TypeOK
            /\ StateUsedOnce
            /\ LinksAreAuthorised
            /\ AccountsAreWhole
            /\ StatesMatchStarts
            /\ CallbacksMatchStates
            /\ TokensMatchCallbacks

\* Every callback that came in is answered, or its server has crashed.
CallbacksAreAnswered ==
  \A c \in Callbacks : pc[c] = "consume" ~> pc[c] \in Answers
=============================================================================
