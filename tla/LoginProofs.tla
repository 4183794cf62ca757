-------------------------- MODULE LoginProofs --------------------------
(***************************************************************************)
(* For every set of accounts and requests, every life of a state and every *)
(* interleaving, failure and crash of OAuthLogin: a state admits one       *)
(* callback, links and tokens come from authorised callbacks, no account   *)
(* is half made, and a refresh token is never dropped.                     *)
(***************************************************************************)
EXTENDS OAuthLogin, TelegramLink, TLAPS

LEMMA InitLoginInv == Init => LoginInv
<1>. SUFFICES ASSUME Init PROVE LoginInv
  OBVIOUS
<1>. USE DEF Init
<1>1. TypeOK
  BY TimeAssumption DEF TypeOK, Times, Expiries
<1>2. \A c \in Callbacks : ~Admitted(c)
  BY DEF Admitted
<1>3. StateUsedOnce /\ LinksAreAuthorised /\ AccountsAreWhole /\ StatesMatchStarts
  BY <1>2 DEF StateUsedOnce, LinksAreAuthorised, AccountsAreWhole, StatesMatchStarts
<1>4. CallbacksMatchStates /\ TokensMatchCallbacks
  BY <1>2 DEF CallbacksMatchStates, TokensMatchCallbacks, Steps
<1>. QED
  BY <1>1, <1>3, <1>4 DEF LoginInv

-----------------------------------------------------------------------------
\* A step is one action of one request, a crash, or a tick of the clock.
LEMMA NextCases ==
  ASSUME [Next]_vars
  PROVE  \/ \E s \in Starts : \/ RejectStart(s) \/ AcceptStart(s)
                              \/ InsertOAuthState(s) \/ InsertOAuthStateFails(s)
         \/ \E c \in Callbacks : \/ RejectCallback(c) \/ ReceiveCallback(c)
                                 \/ ConsumeOAuthState(c) \/ ConsumeRefused(c)
                                 \/ Exchange(c) \/ FetchUserInfo(c) \/ GoogleFails(c)
                                 \/ SelectUser(c) \/ SelectTokens(c) \/ Register(c)
                                 \/ UpdateLogin(c) \/ Link(c) \/ WriteFails(c)
         \/ Crash
         \/ Tick
         \/ UNCHANGED vars
  BY DEF Next, StartStep, CallbackStep

\* Every action keeps the types.
LEMMA TypeStep ==
  ASSUME TypeOK, StatesMatchStarts, CallbacksMatchStates, [Next]_vars
  PROVE  TypeOK'
<1>. USE DEF TypeOK, startVars, callbackVars, tables
<1>1. ASSUME NEW s \in Starts,
             \/ RejectStart(s) \/ AcceptStart(s)
             \/ InsertOAuthState(s) \/ InsertOAuthStateFails(s)
      PROVE  TypeOK'
  <2>. USE DEF StartGoto, StartAnswers
  <2>1. CASE RejectStart(s)
    BY <2>1 DEF RejectStart
  <2>2. CASE AcceptStart(s)
    BY <2>2, TimeAssumption DEF AcceptStart, Times, Expiries
  <2>3. CASE InsertOAuthState(s)
    BY <2>3 DEF InsertOAuthState, StateRows, StatesMatchStarts
  <2>4. CASE InsertOAuthStateFails(s)
    BY <2>4 DEF InsertOAuthStateFails
  <2>. QED
    BY <1>1, <2>1, <2>2, <2>3, <2>4
<1>2. ASSUME NEW c \in Callbacks,
             \/ RejectCallback(c) \/ ReceiveCallback(c)
             \/ ConsumeOAuthState(c) \/ ConsumeRefused(c)
             \/ Exchange(c) \/ FetchUserInfo(c) \/ GoogleFails(c)
      PROVE  TypeOK'
  <2>. USE DEF Goto, Steps, Answers
  <2>1. CASE RejectCallback(c)
    BY <2>1 DEF RejectCallback
  <2>2. CASE ReceiveCallback(c)
    BY <2>2 DEF ReceiveCallback
  <2>3. CASE ConsumeOAuthState(c)
    <3>. DEFINE s == ask[c].state
    <3>1. s \in Starts /\ oauthStates[s] \in StateRows
      BY <2>3 DEF ConsumeOAuthState, Consumable, CallbacksMatchStates
    <3>2. /\ Consumed(oauthStates[s], now[c]) \in StateRows
          /\ oauthStates[s].telegram \in Telegrams
      BY <3>1 DEF Consumed, StateRows
    <3>. QED
      BY <2>3, <3>1, <3>2 DEF ConsumeOAuthState
  <2>4. CASE ConsumeRefused(c)
    BY <2>4 DEF ConsumeRefused
  <2>5. CASE Exchange(c)
    BY <2>5 DEF Exchange
  <2>6. CASE FetchUserInfo(c)
    BY <2>6 DEF FetchUserInfo
  <2>7. CASE GoogleFails(c)
    BY <2>7 DEF GoogleFails
  <2>. QED
    BY <1>2, <2>1, <2>2, <2>3, <2>4, <2>5, <2>6, <2>7
<1>3. ASSUME NEW c \in Callbacks,
             \/ SelectUser(c) \/ SelectTokens(c) \/ Register(c)
             \/ UpdateLogin(c) \/ Link(c) \/ WriteFails(c)
      PROVE  TypeOK'
  <2>. USE DEF Goto, GoOnOrAnswer, Steps, Answers
  <2>1. pc[c] \in Steps => ask[c].sub \in Subs
    BY DEF CallbacksMatchStates
  <2>2. CASE SelectUser(c)
    <3>1. PICK found \in BOOLEAN :
             /\ known' = [known EXCEPT ![c] = found]
             /\ Goto(c, IF ~config.key THEN "500"
                        ELSE IF found /\ refresh[c] = None THEN "tokens" ELSE "save")
      BY <2>2 DEF SelectUser
    <3>2. known' \in [Callbacks -> BOOLEAN]
      BY <3>1
    <3>. QED
      BY <2>2, <3>1, <3>2 DEF SelectUser
  <2>3. CASE SelectTokens(c)
    BY <2>1, <2>3 DEF SelectTokens, TokenRows
  <2>4. CASE Register(c)
    BY <2>1, <2>4 DEF Register, TokenRows
  <2>5. CASE UpdateLogin(c)
    BY <2>1, <2>5 DEF UpdateLogin, Upsert, TokenRows
  <2>6. CASE Link(c)
    <3>1. owner' \in [Telegrams -> Subs \cup {None}]
      BY <2>1, <2>6 DEF Link, Directory!Relink
    <3>. QED
      BY <2>6, <3>1 DEF Link
  <2>7. CASE WriteFails(c)
    BY <2>7 DEF WriteFails
  <2>. QED
    BY <1>3, <2>2, <2>3, <2>4, <2>5, <2>6, <2>7
<1>4. CASE Crash
  BY <1>4 DEF Crash, StartAnswers, Answers
<1>5. CASE Tick
  BY <1>5, TimeAssumption DEF Tick, Times
<1>6. CASE UNCHANGED vars
  BY <1>6 DEF vars
<1>. QED
  BY NextCases, <1>1, <1>2, <1>3, <1>4, <1>5, <1>6

-----------------------------------------------------------------------------
\* Rows of oauth_states agree with the start requests that made them.
LEMMA StatesStep ==
  ASSUME TypeOK, StatesMatchStarts, CallbacksMatchStates, [Next]_vars
  PROVE  StatesMatchStarts'
<1>. USE DEF TypeOK, StatesMatchStarts, startVars, tables
<1>1. ASSUME NEW s \in Starts,
             \/ RejectStart(s) \/ AcceptStart(s)
             \/ InsertOAuthState(s) \/ InsertOAuthStateFails(s)
      PROVE  StatesMatchStarts'
  <2>. USE DEF StartGoto
  <2>1. CASE RejectStart(s)
    BY <2>1 DEF RejectStart
  <2>2. CASE AcceptStart(s)
    BY <2>2, NoneAssumption DEF AcceptStart
  <2>3. CASE InsertOAuthState(s)
    BY <2>3 DEF InsertOAuthState
  <2>4. CASE InsertOAuthStateFails(s)
    BY <2>4 DEF InsertOAuthStateFails
  <2>. QED
    BY <1>1, <2>1, <2>2, <2>3, <2>4
<1>2. ASSUME NEW c \in Callbacks, ConsumeOAuthState(c) PROVE StatesMatchStarts'
  <2>. DEFINE s == ask[c].state
  <2>1. s \in Starts /\ oauthStates[s] # None
    BY <1>2 DEF ConsumeOAuthState, Consumable, CallbacksMatchStates, Steps
  <2>. QED
    BY <1>2, <2>1 DEF ConsumeOAuthState, Consumed
<1>3. CASE UNCHANGED <<startPc, startArg, oauthStates>>
  BY <1>3
<1>4. CASE Crash
  BY <1>4 DEF Crash
<1>. QED
  BY NextCases, <1>1, <1>2, <1>3, <1>4
  DEF RejectCallback, ReceiveCallback, ConsumeRefused, Exchange, FetchUserInfo,
      GoogleFails, SelectUser, SelectTokens, Register, UpdateLogin, Link,
      WriteFails, Tick, vars

\* Once admitted, a callback stays so, with the same state and account.
LEMMA AdmissionIsStable ==
  ASSUME TypeOK, CallbacksMatchStates, [Next]_vars, NEW d \in Callbacks, Admitted(d)
  PROVE  telegram'[d] = telegram[d] /\ ask'[d] = ask[d] /\ now'[d] = now[d]
<1>. USE DEF TypeOK, callbackVars
<1>1. pc[d] \notin {"new", "consume"}
  BY DEF CallbacksMatchStates
<1>2. CASE UNCHANGED <<telegram, ask, now>>
  BY <1>2
<1>3. ASSUME NEW c \in Callbacks, ReceiveCallback(c) \/ ConsumeOAuthState(c)
      PROVE  telegram'[d] = telegram[d] /\ ask'[d] = ask[d] /\ now'[d] = now[d]
  BY <1>1, <1>3 DEF ReceiveCallback, ConsumeOAuthState
<1>. QED
  BY NextCases, <1>2, <1>3
  DEF RejectStart, AcceptStart, InsertOAuthState, InsertOAuthStateFails,
      RejectCallback, ConsumeRefused, Exchange, FetchUserInfo, GoogleFails,
      SelectUser, SelectTokens, Register, UpdateLogin, Link, WriteFails, Crash,
      Tick, vars

\* A redirected start keeps its answer and arguments.
LEMMA RedirectIsStable ==
  ASSUME TypeOK, [Next]_vars, NEW s \in Starts, startPc[s] = "302"
  PROVE  startPc'[s] = "302" /\ startArg'[s] = startArg[s]
<1>. USE DEF TypeOK, startVars
<1>1. CASE UNCHANGED <<startPc, startArg>>
  BY <1>1
<1>2. ASSUME NEW r \in Starts,
             \/ RejectStart(r) \/ AcceptStart(r)
             \/ InsertOAuthState(r) \/ InsertOAuthStateFails(r)
      PROVE  startPc'[s] = "302" /\ startArg'[s] = startArg[s]
  BY <1>2 DEF RejectStart, AcceptStart, InsertOAuthState, InsertOAuthStateFails,
              StartGoto
<1>3. CASE Crash
  BY <1>3 DEF Crash
<1>. QED
  BY NextCases, <1>1, <1>2, <1>3
  DEF RejectCallback, ReceiveCallback, ConsumeOAuthState, ConsumeRefused,
      Exchange, FetchUserInfo, GoogleFails, SelectUser, SelectTokens, Register,
      UpdateLogin, Link, WriteFails, Tick, vars

\* A consumed state stays consumed.
LEMMA ConsumptionIsStable ==
  ASSUME TypeOK, StatesMatchStarts, CallbacksMatchStates, [Next]_vars, NEW s \in Starts,
         oauthStates[s] # None, oauthStates[s].consumedAt # None
  PROVE  oauthStates'[s] # None /\ oauthStates'[s].consumedAt # None
<1>. USE DEF TypeOK, tables
<1>1. CASE UNCHANGED oauthStates
  BY <1>1
<1>2. ASSUME NEW c \in Callbacks, ConsumeOAuthState(c)
      PROVE  oauthStates'[s] # None /\ oauthStates'[s].consumedAt # None
  BY <1>2 DEF ConsumeOAuthState, Consumable
<1>3. ASSUME NEW r \in Starts, InsertOAuthState(r)
      PROVE  oauthStates'[s] # None /\ oauthStates'[s].consumedAt # None
  BY <1>3 DEF InsertOAuthState, StatesMatchStarts
<1>. QED
  BY NextCases, <1>1, <1>2, <1>3
  DEF RejectStart, AcceptStart, InsertOAuthStateFails, RejectCallback,
      ReceiveCallback, ConsumeRefused, Exchange, FetchUserInfo, GoogleFails,
      SelectUser, SelectTokens, Register, UpdateLogin, Link, WriteFails, Crash,
      Tick, vars

\* What the program counter of a callback says of its state and admission.
LEMMA CallbackPcStep ==
  ASSUME TypeOK, StatesMatchStarts, CallbacksMatchStates, [Next]_vars,
         NEW d \in Callbacks
  PROVE  /\ pc'[d] \in Steps => /\ ask'[d].state \in Starts
                                /\ ask'[d].sub \in Subs
                                /\ startPc'[ask'[d].state] = "302"
         /\ pc'[d] \in {"new", "consume"} => telegram'[d] = None
         /\ pc'[d] \in Steps \ {"consume"} => telegram'[d] # None
<1>. DEFINE Goal == /\ pc'[d] \in Steps => /\ ask'[d].state \in Starts
                                           /\ ask'[d].sub \in Subs
                                           /\ startPc'[ask'[d].state] = "302"
                    /\ pc'[d] \in {"new", "consume"} => telegram'[d] = None
                    /\ pc'[d] \in Steps \ {"consume"} => telegram'[d] # None
<1>. USE DEF TypeOK, CallbacksMatchStates, Admitted, Steps, startVars,
             callbackVars, tables, Goto, GoOnOrAnswer
<1>0. \A s \in Starts : startPc[s] = "302" => startPc'[s] = "302"
  BY RedirectIsStable
<1>1. ASSUME NEW c \in Callbacks, ReceiveCallback(c) PROVE Goal
  BY <1>0, <1>1, NoneAssumption DEF ReceiveCallback
<1>2. ASSUME NEW c \in Callbacks, ConsumeOAuthState(c) PROVE Goal
  <2>1. ask[c].state \in Starts /\ oauthStates[ask[c].state] \in StateRows
    BY <1>2 DEF ConsumeOAuthState, Consumable
  <2>2. oauthStates[ask[c].state].telegram # None
    BY <2>1, NoneAssumption DEF StateRows
  <2>. QED
    BY <1>0, <1>2, <2>2 DEF ConsumeOAuthState
<1>3. ASSUME NEW c \in Callbacks,
             \/ RejectCallback(c) \/ ConsumeRefused(c) \/ Exchange(c)
             \/ FetchUserInfo(c) \/ GoogleFails(c)
      PROVE  Goal
  BY <1>0, <1>3 DEF RejectCallback, ConsumeRefused, Exchange, FetchUserInfo,
                    GoogleFails
<1>4. ASSUME NEW c \in Callbacks,
             \/ SelectUser(c) \/ SelectTokens(c) \/ Register(c)
             \/ UpdateLogin(c) \/ Link(c) \/ WriteFails(c)
      PROVE  Goal
  BY <1>0, <1>4 DEF SelectUser, SelectTokens, Register, UpdateLogin, Link, WriteFails
<1>5. CASE UNCHANGED callbackVars
  BY <1>0, <1>5
<1>6. CASE Crash
  BY <1>0, <1>6 DEF Crash
<1>. QED
  BY NextCases, <1>1, <1>2, <1>3, <1>4, <1>5, <1>6
  DEF RejectStart, AcceptStart, InsertOAuthState, InsertOAuthStateFails, Tick, vars

\* Callbacks under way or admitted keep matching their states.
LEMMA CallbacksStep ==
  ASSUME TypeOK, StatesMatchStarts, CallbacksMatchStates, [Next]_vars
  PROVE  CallbacksMatchStates'
<1>1. ASSUME NEW d \in Callbacks, Admitted(d)'
      PROVE  /\ AuthorisedFor(d, telegram[d])'
             /\ oauthStates'[ask'[d].state] # None
             /\ oauthStates'[ask'[d].state].consumedAt # None
  <2>1. CASE Admitted(d)
    <3>. DEFINE s == ask[d].state
    <3>1. /\ s \in Starts /\ startPc[s] = "302"
          /\ startArg[s].telegram = telegram[d] /\ now[d] < startArg[s].expiresAt
          /\ oauthStates[s] # None /\ oauthStates[s].consumedAt # None
      BY <2>1 DEF CallbacksMatchStates, AuthorisedFor
    <3>2. telegram'[d] = telegram[d] /\ ask'[d] = ask[d] /\ now'[d] = now[d]
      BY <2>1, AdmissionIsStable
    <3>3. startPc'[s] = "302" /\ startArg'[s] = startArg[s]
      BY <3>1, RedirectIsStable
    <3>4. oauthStates'[s] # None /\ oauthStates'[s].consumedAt # None
      BY <3>1, ConsumptionIsStable
    <3>. QED
      BY <3>1, <3>2, <3>3, <3>4 DEF AuthorisedFor
  <2>2. CASE ~Admitted(d)
    <3>. DEFINE s == ask[d].state
    <3>1. ConsumeOAuthState(d)
      BY NextCases, <1>1, <2>2
      DEF Admitted, TypeOK, callbackVars, RejectStart, AcceptStart,
          InsertOAuthState, InsertOAuthStateFails, RejectCallback,
          ReceiveCallback, ConsumeOAuthState, ConsumeRefused, Exchange,
          FetchUserInfo, GoogleFails, SelectUser, SelectTokens, Register,
          UpdateLogin, Link, WriteFails, Crash, Tick, vars
    <3>2. s \in Starts /\ startPc[s] = "302"
      BY <3>1 DEF ConsumeOAuthState, CallbacksMatchStates, Steps
    <3>3. /\ startPc' = startPc /\ startArg' = startArg
          /\ ask' = ask /\ now' = now
      BY <3>1 DEF ConsumeOAuthState, startVars
    <3>4. /\ oauthStates[s] # None
          /\ oauthStates[s].expiresAt > now[d]
          /\ telegram'[d] = oauthStates[s].telegram
          /\ oauthStates'[s] = Consumed(oauthStates[s], now[d])
          /\ oauthStates'[s] # None
      <4>1. telegram'[d] = oauthStates[s].telegram
        BY <3>1, <1>1, <2>2 DEF ConsumeOAuthState, TypeOK, Admitted
      <4>2. /\ oauthStates[s] # None
            /\ oauthStates[s].expiresAt > now[d]
            /\ oauthStates'[s] = Consumed(oauthStates[s], now[d])
        BY <3>1, <3>2 DEF ConsumeOAuthState, Consumable, TypeOK
      <4>3. oauthStates'[s] \in StateRows
        BY <3>2, <4>2 DEF TypeOK, StateRows, Consumed
      <4>. QED
        BY <4>1, <4>2, <4>3, NoneAssumption
    <3>5. now[d] # None
      BY NoneAssumption DEF TypeOK
    <3>. QED
      BY <3>2, <3>3, <3>4, <3>5 DEF AuthorisedFor, StatesMatchStarts, Consumed, TypeOK
  <2>. QED
    BY <2>1, <2>2
<1>. QED
  BY <1>1, CallbackPcStep DEF CallbacksMatchStates, Admitted

\* Only consumeOAuthState admits a callback.
LEMMA AdmissionIsConsumption ==
  ASSUME TypeOK, [Next]_vars, NEW c \in Callbacks, Admitted(c)', ~Admitted(c)
  PROVE  ConsumeOAuthState(c)
  BY NextCases
  DEF Admitted, TypeOK, callbackVars, RejectStart, AcceptStart,
      InsertOAuthState, InsertOAuthStateFails, RejectCallback,
      ReceiveCallback, ConsumeOAuthState, ConsumeRefused, Exchange,
      FetchUserInfo, GoogleFails, SelectUser, SelectTokens, Register,
      UpdateLogin, Link, WriteFails, Crash, Tick, vars

\* A state that admitted a callback admits no other.
LEMMA UsedOnceStep ==
  ASSUME TypeOK, CallbacksMatchStates, StateUsedOnce, [Next]_vars
  PROVE  StateUsedOnce'
<1>1. ASSUME NEW c \in Callbacks, NEW d \in Callbacks, c # d,
             ~Admitted(c), Admitted(c)', Admitted(d)'
      PROVE  ask'[c].state # ask'[d].state
  <2>1. ConsumeOAuthState(c)
    BY <1>1, AdmissionIsConsumption
  <2>2. ask' = ask /\ Consumable(oauthStates[ask[c].state], now[c])
    BY <2>1 DEF ConsumeOAuthState
  <2>3. Admitted(d)
    BY <1>1, <2>1 DEF ConsumeOAuthState, Admitted, TypeOK
  <2>4. oauthStates[ask[d].state].consumedAt # None
    BY <2>3 DEF CallbacksMatchStates
  <2>. QED
    BY <2>2, <2>4 DEF Consumable
<1>2. ASSUME NEW c \in Callbacks, NEW d \in Callbacks, c # d,
             Admitted(c), Admitted(d)
      PROVE  ask'[c].state # ask'[d].state
  BY <1>2, AdmissionIsStable DEF StateUsedOnce
<1>. QED
  BY <1>1, <1>2 DEF StateUsedOnce

\* A token keeps its origin.
LEMMA OriginIsStable ==
  ASSUME TypeOK, CallbacksMatchStates, [Next]_vars,
         NEW r \in Callbacks, NEW g, GotBy(r, g)
  PROVE  GotBy(r, g)'
  BY AdmissionIsStable DEF GotBy, Admitted

\* The account a callback brings does not change under way.
LEMMA AccountIsStable ==
  ASSUME TypeOK, [Next]_vars, NEW c \in Callbacks, pc[c] # "new"
  PROVE  ask'[c] = ask[c]
  BY NextCases
  DEF TypeOK, callbackVars, RejectStart, AcceptStart, InsertOAuthState,
      InsertOAuthStateFails, RejectCallback, ReceiveCallback, ConsumeOAuthState,
      ConsumeRefused, Exchange, FetchUserInfo, GoogleFails, SelectUser,
      SelectTokens, Register, UpdateLogin, Link, WriteFails, Crash, Tick, vars

\* Users are never deleted.
LEMMA UsersOnlyGrow ==
  ASSUME [Next]_vars PROVE users \subseteq users'
  BY NextCases
  DEF tables, RejectStart, AcceptStart, InsertOAuthState, InsertOAuthStateFails,
      RejectCallback, ReceiveCallback, ConsumeOAuthState, ConsumeRefused,
      Exchange, FetchUserInfo, GoogleFails, SelectUser, SelectTokens, Register,
      UpdateLogin, Link, WriteFails, Crash, Tick, vars

\* What a row of google_oauth_tokens becomes in a step.
LEMMA TokenWrites ==
  ASSUME TypeOK, CallbacksMatchStates, [Next]_vars, NEW g \in Subs
  PROVE  \/ tokens'[g] = tokens[g]
         \/ \E c \in Callbacks :
              /\ Register(c) \/ UpdateLogin(c)
              /\ ask[c].sub = g
              /\ tokens'[g] = IF Register(c) THEN [access |-> c, refresh |-> refresh[c]]
                              ELSE Upsert(tokens[g], c, refresh[c])
              /\ tokens'[g] \in TokenRows
<1>1. CASE tokens' = tokens
  BY <1>1
<1>2. ASSUME NEW c \in Callbacks, Register(c) \/ UpdateLogin(c)
      PROVE  \/ tokens'[g] = tokens[g]
             \/ /\ ask[c].sub = g
                /\ tokens'[g] = IF Register(c)
                                THEN [access |-> c, refresh |-> refresh[c]]
                                ELSE Upsert(tokens[g], c, refresh[c])
                /\ tokens'[g] \in TokenRows
  <2>1. tokens[g] \in TokenRows \cup {None} /\ refresh[c] \in Callbacks \cup {None}
    BY DEF TypeOK
  <2>2. /\ [access |-> c, refresh |-> refresh[c]] \in TokenRows
        /\ Upsert(tokens[g], c, refresh[c]) \in TokenRows
    BY <2>1 DEF Upsert, TokenRows
  <2>3. ~(Register(c) /\ UpdateLogin(c))
    BY DEF Register, UpdateLogin
  <2>4. CASE Register(c)
    BY <2>2, <2>4 DEF Register, TypeOK
  <2>5. CASE UpdateLogin(c)
    BY <2>2, <2>3, <2>5 DEF UpdateLogin, TypeOK
  <2>. QED
    BY <1>2, <2>4, <2>5
<1>. QED
  BY NextCases, <1>1, <1>2
  DEF tables, RejectStart, AcceptStart, InsertOAuthState, InsertOAuthStateFails,
      RejectCallback, ReceiveCallback, ConsumeOAuthState, ConsumeRefused,
      Exchange, FetchUserInfo, GoogleFails, SelectUser, SelectTokens, Link,
      WriteFails, Crash, Tick, vars

\* What a callback is about to store came from its own Google account.
LEMMA PendingStep ==
  ASSUME TypeOK, CallbacksMatchStates, TokensMatchCallbacks, [Next]_vars,
         TypeOK', NEW d \in Callbacks
  PROVE  /\ pc'[d] \in {"new", "consume", "exchange"} => refresh'[d] = None
         /\ refresh'[d] # None => GotBy(refresh[d], ask[d].sub)'
         /\ pc'[d] \in {"tokens", "save", "link"} => config.key'
         /\ pc'[d] \in {"tokens", "save"} /\ known'[d] => ask'[d].sub \in users'
         /\ pc'[d] = "link" => ask'[d].sub \in users'
<1>. DEFINE Ready == /\ pc'[d] \in {"tokens", "save", "link"} => config.key'
                     /\ pc'[d] \in {"tokens", "save"} /\ known'[d] => ask'[d].sub \in users'
                     /\ pc'[d] = "link" => ask'[d].sub \in users'
            Empty == pc'[d] \in {"new", "consume", "exchange"} => refresh'[d] = None
            Origin == \/ refresh'[d] = refresh[d]
                      \/ refresh'[d] = None
                      \/ pc[d] # "new" /\ GotBy(refresh'[d], ask[d].sub)
<1>. USE DEF TypeOK, TokensMatchCallbacks, callbackVars, tables, Goto, GoOnOrAnswer
<1>1. ASSUME NEW c \in Callbacks,
             \/ RejectCallback(c) \/ ReceiveCallback(c)
             \/ ConsumeOAuthState(c) \/ ConsumeRefused(c)
             \/ FetchUserInfo(c) \/ GoogleFails(c)
      PROVE  Ready /\ Empty /\ Origin
  BY <1>1 DEF RejectCallback, ReceiveCallback, ConsumeOAuthState, ConsumeRefused,
              FetchUserInfo, GoogleFails
<1>2. ASSUME NEW c \in Callbacks, Exchange(c) PROVE Ready /\ Empty /\ Origin
  <2>1. Admitted(c)
    BY <1>2 DEF Exchange, CallbacksMatchStates, Steps
  <2>2. Ready /\ Empty
    BY <1>2 DEF Exchange
  <2>. QED
    BY <1>2, <2>1, <2>2 DEF Exchange, GotBy
<1>3. ASSUME NEW c \in Callbacks, SelectUser(c) PROVE Ready /\ Empty /\ Origin
  <2>1. PICK found \in BOOLEAN :
           /\ found => ask[c].sub \in users
           /\ known' = [known EXCEPT ![c] = found]
           /\ pc' = [pc EXCEPT ![c] = IF ~config.key THEN "500"
                       ELSE IF found /\ refresh[c] = None THEN "tokens" ELSE "save"]
    BY <1>3 DEF SelectUser
  <2>2. config' = config /\ users' = users /\ ask' = ask /\ refresh' = refresh
    BY <1>3 DEF SelectUser
  <2>. QED
    BY <2>1, <2>2
<1>4. ASSUME NEW c \in Callbacks, SelectTokens(c) PROVE Ready /\ Empty /\ Origin
  <2>1. Ready /\ Empty
    BY <1>4 DEF SelectTokens
  <2>2. ask[c].sub \in Subs
    BY <1>4 DEF SelectTokens, CallbacksMatchStates, Steps
  <2>. QED
    BY <1>4, <2>1, <2>2 DEF SelectTokens
<1>5. ASSUME NEW c \in Callbacks,
             \/ Register(c) \/ UpdateLogin(c) \/ Link(c) \/ WriteFails(c)
      PROVE  Ready /\ Empty /\ Origin
  BY <1>5 DEF Register, UpdateLogin, Link, WriteFails
<1>6. ASSUME UNCHANGED <<callbackVars, config, users>> PROVE Ready /\ Empty /\ Origin
  BY <1>6
<1>7. ASSUME Crash PROVE Ready /\ Empty /\ Origin
  BY <1>7 DEF Crash
<1>8. Ready /\ Empty /\ Origin
  BY NextCases, <1>1, <1>2, <1>3, <1>4, <1>5, <1>6, <1>7
  DEF RejectStart, AcceptStart, InsertOAuthState, InsertOAuthStateFails, Tick, vars
<1>9. ASSUME refresh'[d] # None PROVE GotBy(refresh[d], ask[d].sub)'
  <2>1. PICK r \in Callbacks : r = refresh'[d]
    BY <1>9
  <2>2. GotBy(r, ask[d].sub) /\ pc[d] # "new"
    BY <1>8, <1>9, <2>1
  <2>3. PICK g \in Subs \cup {None} : g = ask[d].sub
    OBVIOUS
  <2>4. ask'[d].sub = g
    BY <2>2, <2>3, AccountIsStable
  <2>5. GotBy(r, g)'
    BY <2>2, <2>3, OriginIsStable
  <2>. QED
    BY <2>1, <2>4, <2>5 DEF GotBy
<1>. QED
  BY <1>8, <1>9

\* The tokens of a user came from callbacks of the user's Google account.
LEMMA TokensStep ==
  ASSUME TypeOK, TypeOK', CallbacksMatchStates, TokensMatchCallbacks, [Next]_vars
  PROVE  TokensMatchCallbacks'
<1>1. config' = config
  BY NextCases
  DEF RejectStart, AcceptStart, InsertOAuthState, InsertOAuthStateFails,
      RejectCallback, ReceiveCallback, ConsumeOAuthState, ConsumeRefused,
      Exchange, FetchUserInfo, GoogleFails, SelectUser, SelectTokens, Register,
      UpdateLogin, Link, WriteFails, Crash, Tick, vars
<1>2. ASSUME NEW g \in Subs, tokens'[g] # None
      PROVE  /\ config.key
             /\ GotBy(tokens[g].access, g)'
             /\ tokens'[g].refresh # None => GotBy(tokens[g].refresh, g)'
  <2>1. PICK row \in TokenRows : row = tokens'[g]
    BY <1>2 DEF TypeOK
  <2>2. row.access \in Callbacks /\ row.refresh \in Callbacks \cup {None}
    BY <2>1 DEF TokenRows
  <2>3. /\ config.key
        /\ GotBy(row.access, g)
        /\ row.refresh # None => GotBy(row.refresh, g)
    <3>1. CASE tokens'[g] = tokens[g]
      BY <2>1, <3>1, <1>2 DEF TokensMatchCallbacks
    <3>2. ASSUME NEW c \in Callbacks, Register(c) \/ UpdateLogin(c), ask[c].sub = g,
                 tokens'[g] = IF Register(c) THEN [access |-> c, refresh |-> refresh[c]]
                              ELSE Upsert(tokens[g], c, refresh[c])
          PROVE  /\ config.key
                 /\ GotBy(row.access, g)
                 /\ row.refresh # None => GotBy(row.refresh, g)
      <4>1. pc[c] = "save"
        BY <3>2 DEF Register, UpdateLogin
      <4>2. config.key /\ GotBy(c, g)
        BY <3>2, <4>1 DEF TokensMatchCallbacks, CallbacksMatchStates, Steps, GotBy
      <4>3. row.access = c
        BY <2>1, <3>2 DEF Upsert
      <4>4. \/ row.refresh = refresh[c]
            \/ tokens[g] # None /\ row.refresh = tokens[g].refresh
        BY <2>1, <3>2 DEF Upsert
      <4>5. row.refresh # None => GotBy(row.refresh, g)
        BY <3>2, <4>4 DEF TokensMatchCallbacks
      <4>. QED
        BY <4>2, <4>3, <4>5
    <3>. QED
      BY <3>1, <3>2, TokenWrites
  <2>4. /\ GotBy(row.access, g)'
        /\ row.refresh # None => GotBy(row.refresh, g)'
    BY <2>2, <2>3, OriginIsStable
  <2>. QED
    BY <2>1, <2>3, <2>4 DEF GotBy, Admitted
<1>. QED
  BY <1>1, <1>2, PendingStep DEF TokensMatchCallbacks

\* No login is left half made.
LEMMA AccountsStep ==
  ASSUME TypeOK, CallbacksMatchStates, TokensMatchCallbacks, AccountsAreWhole,
         [Next]_vars
  PROVE  AccountsAreWhole'
<1>. USE DEF AccountsAreWhole, tables
<1>1. ASSUME NEW c \in Callbacks, Register(c) \/ UpdateLogin(c)
      PROVE  AccountsAreWhole'
  <2>. DEFINE g == ask[c].sub
  <2>1. pc[c] = "save" /\ g \in Subs /\ owner' = owner
    BY <1>1 DEF Register, UpdateLogin, CallbacksMatchStates, Steps
  <2>2. /\ Upsert(tokens[g], c, refresh[c]) # None
        /\ [access |-> c, refresh |-> refresh[c]] # None
    <3>1. /\ Upsert(tokens[g], c, refresh[c]) \in TokenRows
          /\ [access |-> c, refresh |-> refresh[c]] \in TokenRows
      BY <2>1 DEF Upsert, TypeOK, TokenRows
    <3>. QED
      BY <3>1, NoneAssumption
  <2>3. CASE Register(c)
    BY <2>1, <2>2, <2>3 DEF Register, TypeOK
  <2>4. CASE UpdateLogin(c)
    <3>1. g \in users /\ users' = users
      BY <2>1, <2>4 DEF UpdateLogin, TokensMatchCallbacks
    <3>. QED
      BY <2>1, <2>2, <2>4, <3>1 DEF UpdateLogin, TypeOK
  <2>. QED
    BY <1>1, <2>3, <2>4
<1>2. ASSUME NEW c \in Callbacks, Link(c) PROVE AccountsAreWhole'
  <2>1. ask[c].sub \in users
    BY <1>2 DEF Link, TokensMatchCallbacks
  <2>. QED
    BY <1>2, <2>1 DEF Link, Directory!Relink
<1>3. CASE UNCHANGED <<users, owner, tokens>>
  BY <1>3
<1>. QED
  BY NextCases, <1>1, <1>2, <1>3
  DEF RejectStart, AcceptStart, InsertOAuthState, InsertOAuthStateFails,
      RejectCallback, ReceiveCallback, ConsumeOAuthState, ConsumeRefused,
      Exchange, FetchUserInfo, GoogleFails, SelectUser, SelectTokens,
      WriteFails, Crash, Tick, vars

\* Authority, once given, is not lost.
LEMMA AuthorityIsStable ==
  ASSUME TypeOK, CallbacksMatchStates, [Next]_vars,
         NEW c \in Callbacks, NEW t \in Telegrams, AuthorisedFor(c, t)
  PROVE  AuthorisedFor(c, t)' /\ ask'[c] = ask[c]
<1>1. Admitted(c)
  BY NoneAssumption DEF AuthorisedFor, Admitted
<1>2. telegram'[c] = telegram[c] /\ ask'[c] = ask[c] /\ now'[c] = now[c]
  BY <1>1, AdmissionIsStable
<1>3. ask[c].state \in Starts /\ startPc[ask[c].state] = "302"
  BY DEF AuthorisedFor
<1>4. /\ startPc'[ask[c].state] = "302"
      /\ startArg'[ask[c].state] = startArg[ask[c].state]
  BY <1>3, RedirectIsStable
<1>. QED
  BY <1>2, <1>3, <1>4 DEF AuthorisedFor

\* A link is made by an authorised callback only.
LEMMA LinksStep ==
  ASSUME TypeOK, TypeOK', CallbacksMatchStates, LinksAreAuthorised, [Next]_vars
  PROVE  LinksAreAuthorised'
<1>. SUFFICES ASSUME NEW t \in Telegrams, owner'[t] # None
              PROVE  \E c \in Callbacks : AuthorisedFor(c, t)' /\ ask'[c].sub = owner'[t]
  BY DEF LinksAreAuthorised
<1>1. CASE owner'[t] = owner[t]
  <2>1. PICK c \in Callbacks : AuthorisedFor(c, t) /\ ask[c].sub = owner[t]
    BY <1>1 DEF LinksAreAuthorised
  <2>. QED
    BY <1>1, <2>1, AuthorityIsStable
<1>2. ASSUME NEW c \in Callbacks, Link(c), owner'[t] # owner[t]
      PROVE  \E d \in Callbacks : AuthorisedFor(d, t)' /\ ask'[d].sub = owner'[t]
  <2>1. Admitted(c) /\ AuthorisedFor(c, telegram[c])
    BY <1>2 DEF Link, CallbacksMatchStates, Steps
  <2>2. t = telegram[c] /\ owner'[t] = ask[c].sub
    BY <1>2 DEF Link, Directory!Relink
  <2>. QED
    BY <2>1, <2>2, AuthorityIsStable
<1>. QED
  BY NextCases, <1>1, <1>2
  DEF tables, RejectStart, AcceptStart, InsertOAuthState, InsertOAuthStateFails,
      RejectCallback, ReceiveCallback, ConsumeOAuthState, ConsumeRefused,
      Exchange, FetchUserInfo, GoogleFails, SelectUser, SelectTokens, Register,
      UpdateLogin, WriteFails, Crash, Tick, vars
-----------------------------------------------------------------------------
LEMMA Invariance == Spec => []LoginInv
<1>1. LoginInv /\ [Next]_vars => LoginInv'
  <2>. SUFFICES ASSUME LoginInv, [Next]_vars PROVE LoginInv'
    OBVIOUS
  <2>. USE DEF LoginInv
  <2>1. TypeOK'
    BY TypeStep
  <2>2. StatesMatchStarts' /\ CallbacksMatchStates'
    BY StatesStep, CallbacksStep
  <2>3. StateUsedOnce'
    BY UsedOnceStep
  <2>4. TokensMatchCallbacks' /\ AccountsAreWhole'
    BY <2>1, TokensStep, AccountsStep
  <2>5. LinksAreAuthorised'
    BY <2>1, LinksStep
  <2>. QED
    BY <2>1, <2>2, <2>3, <2>4, <2>5
<1>. QED
  BY <1>1, InitLoginInv, PTL DEF Spec

\* The variables of OAuthLogin keep their types.
THEOREM TypeCorrect == Spec => []TypeOK
<1>1. LoginInv => TypeOK
  BY DEF LoginInv
<1>. QED
  BY <1>1, Invariance, PTL

\* A state of /auth/google/start admits one callback at most.
THEOREM SingleUse == Spec => []StateUsedOnce
<1>1. LoginInv => StateUsedOnce
  BY DEF LoginInv
<1>. QED
  BY <1>1, Invariance, PTL

\* Telegram accounts are linked by authorised callbacks only.
THEOREM LinkProvenance == Spec => []LinksAreAuthorised
<1>1. LoginInv => LinksAreAuthorised
  BY DEF LoginInv
<1>. QED
  BY <1>1, Invariance, PTL

\* However a login fails, users, tokens and links stay consistent.
THEOREM Wholeness == Spec => []AccountsAreWhole
<1>1. LoginInv => AccountsAreWhole
  BY DEF LoginInv
<1>. QED
  BY <1>1, Invariance, PTL

\* Stored tokens come from authorised callbacks of their own account.
THEOREM TokenProvenance == Spec => []TokensAreAuthorised
<1>1. LoginInv => TokensAreAuthorised
  <2>. SUFFICES ASSUME LoginInv, NEW g \in Subs, tokens[g] # None,
                       NEW c \in {tokens[g].access, tokens[g].refresh} \ {None}
                PROVE  /\ config.key
                       /\ ask[c].sub = g
                       /\ \E t \in Telegrams : AuthorisedFor(c, t)
    BY DEF TokensAreAuthorised, LoginInv, TokensMatchCallbacks
  <2>1. config.key /\ GotBy(c, g)
    BY DEF LoginInv, TokensMatchCallbacks
  <2>2. tokens[g] \in TokenRows
    BY DEF LoginInv, TypeOK
  <2>3. c \in Callbacks
    BY <2>2 DEF TokenRows
  <2>4. AuthorisedFor(c, telegram[c]) /\ telegram[c] \in Telegrams
    BY <2>1, <2>3 DEF GotBy, Admitted, LoginInv, CallbacksMatchStates, TypeOK
  <2>. QED
    BY <2>1, <2>4 DEF GotBy
<1>. QED
  BY <1>1, Invariance, PTL

\* No step takes a user's last refresh token away.
THEOREM RefreshKept == Spec => RefreshIsKept
<1>1. LoginInv /\ [Next]_vars =>
        [\A g \in Subs : tokens[g] # None /\ tokens[g].refresh # None
            => tokens'[g] # None /\ tokens'[g].refresh # None]_vars
  <2>. SUFFICES ASSUME LoginInv, [Next]_vars, NEW g \in Subs,
                       tokens[g] # None, tokens[g].refresh # None
                PROVE  tokens'[g] # None /\ tokens'[g].refresh # None
    OBVIOUS
  <2>1. TypeOK /\ CallbacksMatchStates /\ AccountsAreWhole
    BY DEF LoginInv
  <2>2. CASE tokens'[g] = tokens[g]
    BY <2>2
  <2>3. ASSUME NEW c \in Callbacks, Register(c) \/ UpdateLogin(c), ask[c].sub = g,
               tokens'[g] = IF Register(c) THEN [access |-> c, refresh |-> refresh[c]]
                            ELSE Upsert(tokens[g], c, refresh[c]),
               tokens'[g] \in TokenRows
        PROVE  tokens'[g] # None /\ tokens'[g].refresh # None
    <3>1. ~Register(c)
      BY <2>1, <2>3 DEF Register, AccountsAreWhole
    <3>. QED
      BY <2>3, <3>1, NoneAssumption DEF Upsert
  <2>. QED
    BY <2>1, <2>2, <2>3, TokenWrites
<1>. QED
  BY <1>1, Invariance, PTL DEF Spec, RefreshIsKept

-----------------------------------------------------------------------------
(***************************************************************************)
(* Database::linkTelegramIdToUser, which a callback calls and which is one *)
(* step of module OAuthLogin, statement by statement: module TelegramLink. *)
(* For any users, accounts and calls the committed table never has a       *)
(* Telegram account twice, and the statements of a call implement the      *)
(* atomic directory of module TelegramDirectory.                           *)
(***************************************************************************)
\* Init establishes the inductive invariant.
LEMMA InitLinkInv == LinkInit => LinkInv
  BY NullAssumption
  DEF LinkInit, LinkInv, LinkTypeOK, UniqueTelegram, Distinct, CommitIsExclusive,
      LocksAreJustified, Args, LinkSteps

\* Every action keeps the types.
LEMMA LinkTypeStep == LinkTypeOK /\ [LinkNext]_linkVars => LinkTypeOK'
<1>. SUFFICES ASSUME LinkTypeOK, [LinkNext]_linkVars PROVE LinkTypeOK'
  OBVIOUS
<1>. USE DEF LinkTypeOK, LinkGoto, LinkSteps
<1>1. CASE UNCHANGED linkVars
  BY <1>1 DEF linkVars
<1>2. CASE LinkNext
  <2>1. PICK x \in Calls : Step(x) \/ DeadlockVictim(x) \/ ConnectionLost(x)
    BY <1>2 DEF LinkNext
  <2>2. CASE Begin(x)
    BY <2>2 DEF Begin
  <2>3. CASE ClearRow(x)
    BY <2>3 DEF ClearRow
  <2>4. CASE ClearNothing(x)
    BY <2>4 DEF ClearNothing
  <2>5. CASE SetRow(x)
    <3>1. arg[x].user \in Users /\ arg[x].telegram \in Accounts
      BY DEF Args
    <3>. QED
      BY <2>5, <3>1 DEF SetRow
  <2>6. CASE CheckIndex(x)
    BY <2>6 DEF CheckIndex
  <2>7. CASE Rollback(x)
    BY <2>7 DEF Rollback, ReleaseLocks
  <2>8. CASE Commit(x)
    BY <2>8 DEF Commit, ReleaseLocks, Current
  <2>. QED
    BY <2>1, <2>2, <2>3, <2>4, <2>5, <2>6, <2>7, <2>8
    DEF Step, UniqueViolation, DeadlockVictim, ConnectionLost
<1>. QED
  BY <1>1, <1>2

\* Every action keeps the rest of the inductive invariant.
LEMMA LinkInvStep == LinkInv /\ [LinkNext]_linkVars => LinkInv'
<1>. SUFFICES ASSUME LinkInv, [LinkNext]_linkVars PROVE LinkInv'
  OBVIOUS
<1>0. LinkTypeOK /\ LinkTypeOK'
  BY LinkTypeStep DEF LinkInv
<1>. USE <1>0
<1>. USE DEF LinkInv
<1>a. \A x \in Calls : arg[x].user \in Users /\ arg[x].telegram \in Accounts
  BY DEF LinkTypeOK, Args
<1>b. \A x \in Calls : x # Null
  BY NullAssumption
<1>c. \A t \in Accounts : t # Null
  BY NullAssumption
<1>1. CASE UNCHANGED linkVars
  BY <1>1 DEF linkVars, UniqueTelegram, Distinct, CommitIsExclusive,
              LocksAreJustified
<1>2. CASE LinkNext
  <2>1. PICK x \in Calls : Step(x) \/ DeadlockVictim(x) \/ ConnectionLost(x)
    BY <1>2 DEF LinkNext
  <2>2. CASE Begin(x)
    <3>. USE <2>2 DEF Begin, LinkGoto
    <3>1. UniqueTelegram'
      BY DEF UniqueTelegram, Distinct
    <3>2. CommitIsExclusive'
      BY DEF CommitIsExclusive, LinkTypeOK
    <3>3. LocksAreJustified'
      BY DEF LocksAreJustified, LinkTypeOK
    <3>. QED
      BY <3>1, <3>2, <3>3
  <2>3. CASE ClearRow(x)
    <3>. USE DEF LinkGoto
    <3>1. UniqueTelegram'
      BY <2>3 DEF ClearRow, UniqueTelegram, Distinct
    <3>2. PICK r \in Users : /\ lock[r] = Null
                             /\ telegramId[r] = arg[x].telegram
                             /\ lock' = [lock EXCEPT ![r] = x]
                             /\ draft' = [draft EXCEPT ![r] = Null]
      BY <2>3 DEF ClearRow, LinkTypeOK
    <3>3. CommitIsExclusive'
      BY <2>3, <3>2, <1>b DEF ClearRow, CommitIsExclusive, LinkTypeOK
    <3>4. LocksAreJustified'
      BY <2>3, <3>2, <1>a, <1>b DEF ClearRow, LocksAreJustified, LinkTypeOK
    <3>. QED
      BY <3>1, <3>3, <3>4
  <2>4. CASE ClearNothing(x)
    <3>. USE <2>4 DEF ClearNothing, LinkGoto
    <3>1. UniqueTelegram'
      BY DEF UniqueTelegram, Distinct
    <3>2. CommitIsExclusive'
      BY DEF CommitIsExclusive, LinkTypeOK
    <3>3. LocksAreJustified'
      BY DEF LocksAreJustified, LinkTypeOK
    <3>. QED
      BY <3>1, <3>2, <3>3
  <2>5. CASE SetRow(x)
    <3>. DEFINE u == arg[x].user
                t == arg[x].telegram
    <3>0. /\ u \in Users /\ t \in Accounts
          /\ linkPc[x] = "set"
          /\ lock[u] \in {Null, x}
          /\ lock' = [lock EXCEPT ![u] = x]
          /\ draft' = [draft EXCEPT ![u] = t]
          /\ linkPc' = [linkPc EXCEPT ![x] = IF Current(x, u) = t THEN "commit" ELSE "index"]
          /\ UNCHANGED <<telegramId, arg, hit, result>>
      BY <2>5, <1>a DEF SetRow, LinkGoto
    <3>1. UniqueTelegram'
      BY <3>0 DEF UniqueTelegram, Distinct
    <3>2. LocksAreJustified'
      BY <3>0, <1>a, <1>b DEF LocksAreJustified, LinkTypeOK
    <3>3. CommitIsExclusive'
      <4>1. CASE Current(x, u) # t
        BY <4>1, <3>0, <1>b DEF CommitIsExclusive, LinkTypeOK
      <4>2. CASE Current(x, u) = t
        <5>1. telegramId[u] = t /\ lock[u] = Null
          BY <4>2, <3>0, <1>b, <1>c DEF Current, LocksAreJustified, LinkTypeOK
        <5>2. \A v \in Users : telegramId[v] = t => v = u
          BY <5>1, <3>0, <1>c DEF UniqueTelegram, Distinct
        <5>3. \A y \in Calls : y # x /\ linkPc[y] = "commit" => arg[y].telegram # t
          BY <5>1, <3>0, <1>a, <1>b
          DEF CommitIsExclusive, LocksAreJustified, LinkTypeOK
        <5>. QED
          BY <5>2, <5>3, <3>0, <1>b DEF CommitIsExclusive, LinkTypeOK
      <4>. QED
        BY <4>1, <4>2
    <3>. QED
      BY <3>1, <3>2, <3>3 DEF LinkInv
  <2>6. CASE CheckIndex(x)
    <3>. USE <2>6 DEF CheckIndex, LinkGoto
    <3>1. UniqueTelegram'
      BY DEF UniqueTelegram, Distinct
    <3>2. LocksAreJustified'
      BY DEF LocksAreJustified, LinkTypeOK
    <3>3. \A u \in Users : telegramId[u] = arg[x].telegram
                             => u = arg[x].user \/ lock[u] = x
      BY DEF Conflict
    <3>4. ASSUME NEW y \in Calls, y # x, linkPc[y] = "commit",
                 arg[y].telegram = arg[x].telegram
          PROVE  FALSE
      <4>1. lock[arg[y].user] = y /\ draft[arg[y].user] = arg[y].telegram
        BY <3>4 DEF LocksAreJustified
      <4>2. lock[arg[x].user] = x
        BY DEF LocksAreJustified
      <4>3. Conflict(x, arg[y].user)
        BY <3>4, <4>1, <4>2 DEF Conflict
      <4>. QED
        BY <4>3, <1>a
    <3>5. CommitIsExclusive'
      BY <3>3, <3>4 DEF CommitIsExclusive, LinkTypeOK
    <3>. QED
      BY <3>1, <3>2, <3>5
  <2>7. CASE Rollback(x)
    <3>. USE <2>7, <1>b DEF Rollback, ReleaseLocks, LinkGoto
    <3>1. UniqueTelegram'
      BY DEF UniqueTelegram, Distinct
    <3>2. CommitIsExclusive'
      BY DEF CommitIsExclusive, LinkTypeOK
    <3>3. LocksAreJustified'
      BY <1>a DEF LocksAreJustified, LinkTypeOK
    <3>. QED
      BY <3>1, <3>2, <3>3
  <2>8. CASE Commit(x)
    <3>. DEFINE t == arg[x].telegram
    <3>. USE <2>8 DEF Commit, ReleaseLocks, LinkGoto
    <3>1. \A u \in Users : telegramId'[u] = Current(x, u)
      BY DEF LinkTypeOK
    <3>2. \A u \in Users : lock[u] = x =>
            \/ u = arg[x].user /\ Current(x, u) = t
            \/ Current(x, u) = Null
      BY DEF LocksAreJustified, Current
    <3>3. \A u \in Users : lock[u] # x =>
            Current(x, u) = telegramId[u] /\ telegramId[u] # t
      BY DEF CommitIsExclusive, LocksAreJustified, Current
    <3>4. UniqueTelegram'
      <4>. SUFFICES ASSUME NEW u \in Users, NEW v \in Users, u # v,
                           telegramId'[u] # Null, telegramId'[u] = telegramId'[v]
                    PROVE  FALSE
        BY DEF UniqueTelegram, Distinct
      <4>1. CASE lock[u] # x /\ lock[v] # x
        BY <4>1, <3>1, <3>3 DEF UniqueTelegram, Distinct
      <4>2. CASE lock[u] = x \/ lock[v] = x
        BY <4>2, <3>1, <3>2, <3>3
      <4>. QED
        BY <4>1, <4>2
    <3>5. CommitIsExclusive'
      <4>1. ASSUME NEW y \in Calls, linkPc'[y] = "commit", NEW u \in Users,
                   telegramId'[u] = arg'[y].telegram
            PROVE  u = arg'[y].user \/ lock'[u] = y
        <5>1. y # x /\ linkPc[y] = "commit" /\ arg' = arg
          BY <4>1 DEF LinkTypeOK
        <5>2. lock[u] # x
          BY <4>1, <5>1, <3>1, <3>2, <1>a, <1>c DEF CommitIsExclusive
        <5>3. telegramId[u] = arg[y].telegram /\ lock'[u] = lock[u]
          BY <4>1, <5>1, <5>2, <3>1, <3>3 DEF LinkTypeOK
        <5>. QED
          BY <5>1, <5>3 DEF CommitIsExclusive
      <4>. QED
        BY <4>1 DEF CommitIsExclusive, LinkTypeOK
    <3>6. LocksAreJustified'
      <4>1. \A u \in Users, y \in Calls : lock'[u] = y =>
              /\ y # x /\ lock[u] = y
              /\ draft'[u] = draft[u] /\ telegramId'[u] = telegramId[u]
        BY <3>1, <1>b DEF LinkTypeOK, Current
      <4>2. \A y \in Calls : linkPc'[y] \in {"index", "commit"} =>
              y # x /\ linkPc[y] = linkPc'[y]
        BY DEF LinkTypeOK
      <4>3. \A y \in Calls : y # x => linkPc'[y] = linkPc[y]
        BY DEF LinkTypeOK
      <4>4. \A y \in Calls, u \in Users : y # x /\ lock[u] = y =>
              lock'[u] = y /\ draft'[u] = draft[u]
        BY DEF LinkTypeOK
      <4>. QED
        BY <4>1, <4>2, <4>3, <4>4, <1>a DEF LocksAreJustified
    <3>. QED
      BY <3>4, <3>5, <3>6
  <2>. QED
    BY <2>1, <2>2, <2>3, <2>4, <2>5, <2>6, <2>7, <2>8
    DEF Step, UniqueViolation, DeadlockVictim, ConnectionLost
<1>. QED
  BY <1>1, <1>2

LEMMA LinkInvariance == LinkSpec => []LinkInv
<1>1. LinkInit => LinkInv
  BY InitLinkInv
<1>2. LinkInv /\ [LinkNext]_linkVars => LinkInv'
  BY LinkInvStep
<1>. QED
  BY <1>1, <1>2, PTL DEF LinkSpec

\* Under the unique constraint, OwnerIn inverts the column: it gives an
\* account to the row that has it.
LEMMA OwnerInInverts ==
  ASSUME NEW column \in [Users -> Accounts \cup {Null}], Distinct(column)
  PROVE  \A t \in Accounts, u \in Users : OwnerIn(column)[t] = u <=> column[u] = t
<1>. SUFFICES ASSUME NEW t \in Accounts, NEW u \in Users
              PROVE  OwnerIn(column)[t] = u <=> column[u] = t
  OBVIOUS
<1>1. CASE \E v \in Users : column[v] = t
  <2>1. \A v, w \in Users : column[v] = t /\ column[w] = t => v = w
    BY NullAssumption DEF Distinct
  <2>2. OwnerIn(column)[t] = CHOOSE v \in Users : column[v] = t
    BY <1>1 DEF OwnerIn
  <2>. QED
    BY <1>1, <2>1, <2>2
<1>2. CASE ~ \E v \in Users : column[v] = t
  <2>1. OwnerIn(column)[t] = Null
    BY <1>2 DEF OwnerIn
  <2>. QED
    BY <1>2, <2>1, NullAssumption
<1>. QED
  BY <1>1, <1>2

LEMMA OwnerInRange ==
  ASSUME NEW column
  PROVE  /\ OwnerIn(column) \in [Accounts -> Users \cup {Null}]
         /\ \A t \in Accounts : \/ OwnerIn(column)[t] \in Users
                                \/ OwnerIn(column)[t] = Null
<1>. SUFFICES \A t \in Accounts : OwnerIn(column)[t] \in Users \cup {Null}
  BY DEF OwnerIn
<1>. QED
  BY DEF OwnerIn

\* The initial table is a directory.
LEMMA InitRefines == LinkInit => Relinking!Init
<1>. SUFFICES ASSUME LinkInit PROVE Relinking!Init
  OBVIOUS
<1>1. telegramId \in [Users -> Accounts \cup {Null}] /\ Distinct(telegramId)
  BY DEF LinkInit
<1>2. Owner \in [Accounts -> Users \cup {Null}]
  BY OwnerInRange DEF Owner
<1>3. ASSUME NEW s \in Accounts, NEW t \in Accounts, s # t,
             Owner[s] # Null, Owner[s] = Owner[t]
      PROVE  FALSE
  <2>1. Owner[s] \in Users
    BY <1>3, OwnerInRange DEF Owner
  <2>2. telegramId[Owner[s]] = s /\ telegramId[Owner[s]] = t
    BY <1>1, <1>3, <2>1, OwnerInInverts DEF Owner
  <2>. QED
    BY <1>3, <2>2
<1>. QED
  BY <1>2, <1>3 DEF Relinking!Init, Relinking!Directories

\* A commit is one re-link of the directory.
LEMMA CommitRefines ==
  ASSUME LinkInv, LinkInv', NEW x \in Calls, Commit(x)
  PROVE  Relinking!Relink(arg[x].telegram, arg[x].user)
<1>. DEFINE t == arg[x].telegram
            u == arg[x].user
<1>1. /\ LinkTypeOK /\ LinkTypeOK'
      /\ Distinct(telegramId) /\ Distinct(telegramId')
  BY DEF LinkInv, UniqueTelegram
<1>2. u \in Users /\ t \in Accounts /\ x # Null /\ t # Null
  BY <1>1, NullAssumption DEF LinkTypeOK, Args
<1>3. \A v \in Users : telegramId'[v] = Current(x, v)
  BY <1>1 DEF Commit, LinkTypeOK
<1>4. \A s \in Accounts, v \in Users :
        /\ Owner[s] = v <=> telegramId[v] = s
        /\ Owner'[s] = v <=> telegramId'[v] = s
  BY <1>1, OwnerInInverts DEF LinkTypeOK, Owner
<1>5. \A s \in Accounts : /\ Owner[s] \in Users \/ Owner[s] = Null
                          /\ Owner'[s] \in Users \/ Owner'[s] = Null
  BY OwnerInRange DEF Owner
<1>6. lock[u] = x /\ draft[u] = t
  BY DEF Commit, LinkInv, LocksAreJustified
<1>7. \A v \in Users : v # u /\ lock[v] = x => draft[v] = Null /\ telegramId[v] = t
  BY DEF LinkInv, LocksAreJustified
<1>8. Owner'[t] = u
  BY <1>2, <1>3, <1>4, <1>6 DEF Current
<1>9. ASSUME NEW s \in Accounts, s # t
      PROVE  Owner'[s] = IF Owner[s] = u THEN Null ELSE Owner[s]
  <2>1. \A v \in Users : telegramId'[v] = s <=> telegramId[v] = s /\ v # u
    <3>. SUFFICES ASSUME NEW v \in Users
                  PROVE  telegramId'[v] = s <=> telegramId[v] = s /\ v # u
      OBVIOUS
    <3>1. s # Null
      BY NullAssumption
    <3>2. CASE v = u
      BY <3>2, <1>3, <1>6, <1>9 DEF Current
    <3>3. CASE v # u /\ lock[v] = x
      BY <3>3, <3>1, <1>3, <1>7, <1>9 DEF Current
    <3>4. CASE v # u /\ lock[v] # x
      BY <3>4, <1>3 DEF Current
    <3>. QED
      BY <3>2, <3>3, <3>4
  <2>2. Null \notin Users
    BY NullAssumption
  <2>. QED
    BY <2>1, <2>2, <1>2, <1>4, <1>5
<1>10. Owner' = [s \in Accounts |-> Owner'[s]]
  BY OwnerInRange DEF Owner
<1>. QED
  BY <1>8, <1>9, <1>10 DEF Relinking!Relink

\* No other step changes what the directory says.
LEMMA StepRefines ==
  ASSUME LinkInv, LinkInv', [LinkNext]_linkVars
  PROVE  [Relinking!Next]_Owner
<1>1. ASSUME UNCHANGED telegramId PROVE UNCHANGED Owner
  BY <1>1 DEF Owner, OwnerIn
<1>2. ASSUME NEW x \in Calls, Commit(x) PROVE Relinking!Next
  <2>1. arg[x].user \in Users /\ arg[x].telegram \in Accounts
    BY DEF LinkInv, LinkTypeOK, Args
  <2>. QED
    BY <1>2, <2>1, CommitRefines DEF Relinking!Next
<1>3. CASE UNCHANGED linkVars
  BY <1>1, <1>3 DEF linkVars
<1>4. CASE LinkNext
  <2>1. PICK x \in Calls : Step(x) \/ DeadlockVictim(x) \/ ConnectionLost(x)
    BY <1>4 DEF LinkNext
  <2>2. Commit(x) \/ UNCHANGED telegramId
    BY <2>1 DEF Step, DeadlockVictim, ConnectionLost, Begin, ClearRow,
                ClearNothing, SetRow, CheckIndex, UniqueViolation, Rollback
  <2>. QED
    BY <2>2, <1>1, <1>2
<1>. QED
  BY <1>3, <1>4

\* The variables of TelegramLink keep their types.
THEOREM LinkTypeCorrect == LinkSpec => []LinkTypeOK
<1>1. LinkInv => LinkTypeOK
  BY DEF LinkInv
<1>. QED
  BY <1>1, LinkInvariance, PTL

\* No Telegram account is ever committed in two rows of auth_users, however
\* many calls of linkTelegramIdToUser run at once.
THEOREM Uniqueness == LinkSpec => []UniqueTelegram
<1>1. LinkInv => UniqueTelegram
  BY DEF LinkInv
<1>. QED
  BY <1>1, LinkInvariance, PTL

\* A call about to commit has the account it links for itself.
THEOREM Exclusion == LinkSpec => []CommitIsExclusive
<1>1. LinkInv => CommitIsExclusive
  BY DEF LinkInv
<1>. QED
  BY <1>1, LinkInvariance, PTL

\* linkTelegramIdToUser, statement by statement, implements the atomic
\* re-link of TelegramDirectory.
THEOREM Refinement == LinkSpec => RelinkIsAtomic
<1>1. LinkInv /\ LinkInv' /\ [LinkNext]_linkVars => [Relinking!Next]_Owner
  BY StepRefines
<1>. QED
  BY <1>1, InitRefines, LinkInvariance, PTL
  DEF LinkSpec, RelinkIsAtomic, Relinking!Spec
=============================================================================
