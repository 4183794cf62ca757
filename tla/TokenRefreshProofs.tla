------------------------- MODULE TokenRefreshProofs -------------------------
(***************************************************************************)
(* For all margins, lives and time-outs, and however calls and logins of a *)
(* user overlap: the recorded expiry is late by one answer at most, so a   *)
(* token returned from the table is alive when answers are no longer than  *)
(* the margin; and a refresh token is never lost.                          *)
(***************************************************************************)
EXTENDS TokenRefresh, TLAPS

\* A step is one action of one request, or a tick of the clock.
LEMMA NextCases ==
  ASSUME [Next]_vars
  PROVE  \/ \E p \in Proxies :
              \/ CallManager(p) \/ SelectTokens(p) \/ ReturnCached(p)
              \/ NeedRefresh(p) \/ GiveUp(p) \/ GoogleRefreshes(p)
              \/ RefreshAnswered(p) \/ RefreshFails(p) \/ StoreRefreshed(p)
         \/ \E l \in Logins :
              GoogleExchanges(l) \/ LoginReady(l) \/ LoginFails(l) \/ StoreLogin(l)
         \/ Tick
         \/ UNCHANGED vars
  BY DEF Next, ProxyStep, LoginStep

LEMMA UpsertIsRow ==
  ASSUME NEW old \in Rows \cup {None}, NEW new \in Rows
  PROVE  Upsert(old, new) \in Rows
  BY DEF Upsert, Rows

LEMMA NewRowIsRow ==
  ASSUME TypeOK, NEW q \in Requests, NEW r \in Requests \cup {None}
  PROVE  NewRow(q, r) \in Rows
  BY NumberAssumption DEF NewRow, Rows, TypeOK, Times, Expiries

\* Every action keeps the types.
LEMMA TypeStep ==
  ASSUME TypeOK, RowsAreHonest, [Next]_vars
  PROVE  TypeOK'
<1>. USE DEF TypeOK, Goto, Steps, Answers
<1>0. Proxies \subseteq Requests /\ Logins \subseteq Requests
  BY DEF Requests
<1>1. ASSUME NEW p \in Proxies,
             \/ CallManager(p) \/ SelectTokens(p) \/ ReturnCached(p)
             \/ NeedRefresh(p) \/ GiveUp(p) \/ GoogleRefreshes(p)
             \/ RefreshFails(p)
      PROVE  TypeOK'
  BY <1>0, <1>1 DEF CallManager, SelectTokens, ReturnCached, NeedRefresh, GiveUp,
                    GoogleRefreshes, RefreshFails, Issue
<1>2. ASSUME NEW p \in Proxies, RefreshAnswered(p) PROVE TypeOK'
  <2>1. read[p] \in Rows
    BY <1>0, <1>2 DEF RefreshAnswered, RowsAreHonest
  <2>2. PICK r \in {p, read[p].refresh} : write' = [write EXCEPT ![p] = NewRow(p, r)]
    BY <1>2 DEF RefreshAnswered
  <2>3. NewRow(p, r) \in Rows
    BY <1>0, <2>1, <2>2, NewRowIsRow DEF Rows
  <2>. QED
    BY <1>0, <1>2, <2>2, <2>3 DEF RefreshAnswered
<1>3. ASSUME NEW l \in Logins, GoogleExchanges(l) \/ LoginFails(l) PROVE TypeOK'
  BY <1>0, <1>3 DEF GoogleExchanges, LoginFails, Issue
<1>4. ASSUME NEW l \in Logins, LoginReady(l) PROVE TypeOK'
  <2>1. PICK r \in {l, IF row = None THEN None ELSE row.refresh, None} :
          write' = [write EXCEPT ![l] = NewRow(l, r)]
    BY <1>4 DEF LoginReady
  <2>2. r \in Requests \cup {None}
    BY <1>0, <2>1 DEF Rows
  <2>3. NewRow(l, r) \in Rows
    BY <1>0, <2>2, NewRowIsRow
  <2>. QED
    BY <1>0, <1>4, <2>1, <2>3 DEF LoginReady
<1>5. ASSUME NEW q \in Requests, StoreRefreshed(q) \/ StoreLogin(q) PROVE TypeOK'
  <2>1. write[q] \in Rows
    BY <1>5 DEF StoreRefreshed, StoreLogin, RowsAreHonest
  <2>. QED
    BY <1>5, <2>1, UpsertIsRow DEF StoreRefreshed, StoreLogin
<1>6. CASE Tick
  BY <1>6, NumberAssumption DEF Tick, Times
<1>7. CASE UNCHANGED vars
  BY <1>7 DEF vars
<1>. QED
  BY NextCases, <1>0, <1>1, <1>2, <1>3, <1>4, <1>5, <1>6, <1>7

\* A token that has been stored keeps its time of issue.
LEMMA IssueIsStable ==
  ASSUME TypeOK, [Next]_vars, NEW q \in Requests, ~Unanswered(q)
  PROVE  issuedAt'[q] = issuedAt[q] /\ ~Unanswered(q)'
<1>. USE DEF TypeOK, Unanswered, Goto, Issue
<1>0. Proxies \subseteq Requests /\ Logins \subseteq Requests
  BY DEF Requests
<1>1. ASSUME NEW p \in Proxies,
             \/ CallManager(p) \/ SelectTokens(p) \/ ReturnCached(p)
             \/ NeedRefresh(p) \/ GiveUp(p) \/ GoogleRefreshes(p)
             \/ RefreshAnswered(p) \/ RefreshFails(p) \/ StoreRefreshed(p)
      PROVE  issuedAt'[q] = issuedAt[q] /\ ~Unanswered(q)'
  BY <1>0, <1>1 DEF CallManager, SelectTokens, ReturnCached, NeedRefresh, GiveUp,
                    GoogleRefreshes, RefreshAnswered, RefreshFails, StoreRefreshed
<1>2. ASSUME NEW l \in Logins,
             GoogleExchanges(l) \/ LoginReady(l) \/ LoginFails(l) \/ StoreLogin(l)
      PROVE  issuedAt'[q] = issuedAt[q] /\ ~Unanswered(q)'
  BY <1>0, <1>2 DEF GoogleExchanges, LoginReady, LoginFails, StoreLogin
<1>3. CASE UNCHANGED <<issuedAt, pc>>
  BY <1>3
<1>. QED
  BY NextCases, <1>1, <1>2, <1>3 DEF Tick, vars

\* A row stays honest once its token has been stored.
LEMMA HonestyIsStable ==
  ASSUME TypeOK, [Next]_vars, NEW r \in Rows, Honest(r), ~Unanswered(r.access)
  PROVE  Honest(r)' /\ ~Unanswered(r.access)'
<1>1. r.access \in Requests
  BY DEF Rows
<1>. QED
  BY <1>1, IssueIsStable DEF Honest

\* The expiry computed when an answer comes in time is late by that time.
LEMMA NewRowIsHonest ==
  ASSUME TypeOK, NEW q \in Requests, NEW r, InTime(q, Lateness(q))
  PROVE  Honest(NewRow(q, r))
<1>1. clock \in Nat /\ issuedAt[q] \in Nat /\ Lateness(q) \in Nat /\ Lifetime \in Nat
  BY NumberAssumption DEF TypeOK, Times, Lateness
<1>2. clock + Lifetime <= issuedAt[q] + Lifetime + Lateness(q)
  BY <1>1 DEF InTime
<1>. QED
  BY <1>2 DEF Honest, NewRow

\* A merged row has the access token and the expiry of the new one.
LEMMA UpsertIsHonest ==
  ASSUME NEW old, NEW new, new # None, Honest(new)
  PROVE  Honest(Upsert(old, new)) /\ Upsert(old, new).access = new.access
  BY DEF Upsert, Honest

\* What an action leaves in the row: what was there, or a merged new row.
LEMMA RowWrites ==
  ASSUME [Next]_vars
  PROVE  \/ row' = row
         \/ \E q \in Requests : /\ pc[q] = "store"
                                /\ row' = Upsert(row, write[q])
                                /\ \/ pc' = [pc EXCEPT ![q] = "fresh"]
                                   \/ pc' = [pc EXCEPT ![q] = "saved"]
  BY NextCases
  DEF Requests, Goto, CallManager, SelectTokens, ReturnCached, NeedRefresh,
      GiveUp, GoogleRefreshes, RefreshAnswered, RefreshFails, StoreRefreshed,
      GoogleExchanges, LoginReady, LoginFails, StoreLogin, Tick, vars

LEMMA RowStep ==
  ASSUME TypeOK, RowsAreHonest, [Next]_vars
  PROVE  Honest(row)' /\ (row' # None => ~Unanswered(row.access)')
<1>1. CASE row' = row
  <2>1. CASE row = None
    BY <1>1, <2>1 DEF Honest
  <2>2. CASE row # None
    <3>1. PICK r \in Rows : r = row
      BY <2>2 DEF TypeOK
    <3>2. Honest(r)' /\ ~Unanswered(r.access)'
      BY <2>2, <3>1, HonestyIsStable DEF RowsAreHonest
    <3>. QED
      BY <1>1, <3>1, <3>2 DEF Honest, Unanswered
  <2>. QED
    BY <2>1, <2>2
<1>2. ASSUME NEW q \in Requests, pc[q] = "store", row' = Upsert(row, write[q]),
             \/ pc' = [pc EXCEPT ![q] = "fresh"]
             \/ pc' = [pc EXCEPT ![q] = "saved"]
      PROVE  Honest(row)' /\ (row' # None => ~Unanswered(row.access)')
  <2>1. write[q] \in Rows /\ write[q] # None /\ write[q].access = q /\ Honest(write[q])
    BY <1>2 DEF RowsAreHonest, TypeOK
  <2>2. PICK r \in Rows : r = Upsert(row, write[q])
    BY <2>1, UpsertIsRow DEF TypeOK
  <2>3. Honest(r) /\ r.access = q
    BY <2>1, <2>2, UpsertIsHonest
  <2>4. ~Unanswered(q)
    BY <1>2 DEF Unanswered
  <2>5. Honest(r)' /\ ~Unanswered(r.access)'
    BY <2>3, <2>4, HonestyIsStable
  <2>. QED
    BY <1>2, <2>2, <2>5 DEF Honest, Unanswered
<1>. QED
  BY <1>1, <1>2, RowWrites

\* What a call has read.
LEMMA ReadStep ==
  ASSUME TypeOK, RowsAreHonest, [Next]_vars, NEW q \in Requests
  PROVE  Honest(read[q])' /\ (read'[q] # None => ~Unanswered(read[q].access)')
<1>1. read'[q] \in {read[q], row, None}
  BY NextCases
  DEF TypeOK, CallManager, SelectTokens, ReturnCached, NeedRefresh, GiveUp,
      GoogleRefreshes, RefreshAnswered, RefreshFails, StoreRefreshed,
      GoogleExchanges, LoginReady, LoginFails, StoreLogin, Tick, vars
<1>2. CASE read'[q] = None
  BY <1>2 DEF Honest
<1>3. CASE read'[q] # None
  <2>1. PICK r \in Rows : r = read'[q]
    BY <1>1, <1>3 DEF TypeOK
  <2>2. r = read[q] \/ r = row
    BY <1>1, <1>3, <2>1
  <2>3. Honest(r) /\ ~Unanswered(r.access)
    BY <2>2, NoneAssumption DEF RowsAreHonest
  <2>4. Honest(r)' /\ ~Unanswered(r.access)'
    BY <2>3, HonestyIsStable
  <2>. QED
    BY <2>1, <2>4 DEF Honest, Unanswered
<1>. QED
  BY <1>2, <1>3

\* What a request is about to store.
LEMMA WriteStep ==
  ASSUME TypeOK, RowsAreHonest, [Next]_vars, NEW q \in Requests
  PROVE  /\ Honest(write[q])'
         /\ write'[q] # None => write'[q].access = q
         /\ Unanswered(q)' => write'[q] = None
         /\ pc'[q] = "store" => write'[q] # None
<1>. USE DEF TypeOK, Unanswered, Goto
<1>0. Proxies \subseteq Requests /\ Logins \subseteq Requests
  BY DEF Requests
<1>a. ASSUME write'[q] = write[q], Unanswered(q)' => Unanswered(q),
             pc'[q] = "store" => pc[q] = "store"
      PROVE  /\ Honest(write[q])'
             /\ write'[q] # None => write'[q].access = q
             /\ Unanswered(q)' => write'[q] = None
             /\ pc'[q] = "store" => write'[q] # None
  <2>1. CASE write[q] = None
    BY <1>a, <2>1 DEF Honest, RowsAreHonest
  <2>2. CASE write[q] # None
    <3>1. PICK r \in Rows : r = write[q]
      BY <2>2
    <3>2. Honest(r) /\ r.access = q /\ ~Unanswered(q)
      BY <2>2, <3>1 DEF RowsAreHonest
    <3>3. Honest(r)'
      BY <3>2, HonestyIsStable
    <3>. QED
      BY <1>a, <2>2, <3>1, <3>2, <3>3 DEF Honest
  <2>. QED
    BY <2>1, <2>2
<1>1. ASSUME NEW p \in Proxies,
             \/ CallManager(p) \/ SelectTokens(p) \/ ReturnCached(p)
             \/ NeedRefresh(p) \/ GiveUp(p) \/ GoogleRefreshes(p)
             \/ RefreshFails(p) \/ StoreRefreshed(p)
      PROVE  /\ write'[q] = write[q]
             /\ Unanswered(q)' => Unanswered(q)
             /\ pc'[q] = "store" => pc[q] = "store"
  BY <1>0, <1>1 DEF CallManager, SelectTokens, ReturnCached, NeedRefresh, GiveUp,
                    GoogleRefreshes, RefreshFails, StoreRefreshed
<1>2. ASSUME NEW l \in Logins, GoogleExchanges(l) \/ LoginFails(l) \/ StoreLogin(l)
      PROVE  /\ write'[q] = write[q]
             /\ Unanswered(q)' => Unanswered(q)
             /\ pc'[q] = "store" => pc[q] = "store"
  BY <1>0, <1>2 DEF GoogleExchanges, LoginFails, StoreLogin
<1>3. ASSUME UNCHANGED <<pc, write>>
      PROVE  /\ write'[q] = write[q]
             /\ Unanswered(q)' => Unanswered(q)
             /\ pc'[q] = "store" => pc[q] = "store"
  BY <1>3
<1>4. ASSUME NEW o \in Requests, NEW r \in Requests \cup {None},
             pc[o] = "answer", InTime(o, Lateness(o)),
             pc' = [pc EXCEPT ![o] = "store"], issuedAt' = issuedAt,
             write' = [write EXCEPT ![o] = NewRow(o, r)]
      PROVE  /\ Honest(write[q])'
             /\ write'[q] # None => write'[q].access = q
             /\ Unanswered(q)' => write'[q] = None
             /\ pc'[q] = "store" => write'[q] # None
  <2>1. PICK n \in Rows : n = NewRow(o, r)
    BY NewRowIsRow
  <2>2. Honest(n) /\ n.access = o /\ n # None
    BY <1>4, <2>1, NewRowIsHonest, NoneAssumption DEF NewRow
  <2>3. CASE q = o
    BY <1>4, <2>1, <2>2, <2>3 DEF Honest
  <2>4. CASE q # o
    BY <1>4, <1>a, <2>4
  <2>. QED
    BY <2>3, <2>4
<1>5. ASSUME NEW p \in Proxies, RefreshAnswered(p)
      PROVE  \E r \in Requests \cup {None} :
               /\ pc[p] = "answer" /\ InTime(p, Lateness(p))
               /\ pc' = [pc EXCEPT ![p] = "store"] /\ issuedAt' = issuedAt
               /\ write' = [write EXCEPT ![p] = NewRow(p, r)]
  <2>1. read[p] \in Rows
    BY <1>0, <1>5 DEF RefreshAnswered, RowsAreHonest
  <2>2. {p, read[p].refresh} \subseteq Requests \cup {None}
    BY <1>0, <2>1 DEF Rows
  <2>3. Lateness(p) = RefreshTime
    BY RequestAssumption DEF Lateness
  <2>. QED
    BY <1>5, <2>2, <2>3 DEF RefreshAnswered
<1>6. ASSUME NEW l \in Logins, LoginReady(l)
      PROVE  \E r \in Requests \cup {None} :
               /\ pc[l] = "answer" /\ InTime(l, Lateness(l))
               /\ pc' = [pc EXCEPT ![l] = "store"] /\ issuedAt' = issuedAt
               /\ write' = [write EXCEPT ![l] = NewRow(l, r)]
  <2>1. {l, IF row = None THEN None ELSE row.refresh, None} \subseteq Requests \cup {None}
    BY <1>0 DEF Rows
  <2>2. Lateness(l) = LoginTime
    BY DEF Lateness
  <2>. QED
    BY <1>6, <2>1, <2>2 DEF LoginReady
<1>. QED
  BY NextCases, <1>0, <1>a, <1>1, <1>2, <1>3, <1>4, <1>5, <1>6 DEF Tick, vars

\* A call that refreshes has a refresh token in its hands.
LEMMA HandStep ==
  ASSUME TypeOK, RowsAreHonest, [Next]_vars, NEW q \in Requests, q \in Proxies,
         pc'[q] \in {"refresh", "answer"}
  PROVE  read'[q] # None /\ read'[q].refresh # None
<1>. USE DEF TypeOK, Goto
<1>0. Proxies \subseteq Requests /\ Logins \subseteq Requests
  BY DEF Requests
<1>1. CASE pc[q] \in {"refresh", "answer"} /\ read'[q] = read[q]
  BY <1>1 DEF RowsAreHonest
<1>2. ASSUME NEW p \in Proxies, NeedRefresh(p)
      PROVE  read'[q] # None /\ read'[q].refresh # None
  BY <1>0, <1>2 DEF NeedRefresh, RowsAreHonest
<1>3. ASSUME NEW p \in Proxies,
             \/ CallManager(p) \/ SelectTokens(p) \/ ReturnCached(p)
             \/ GiveUp(p) \/ GoogleRefreshes(p)
             \/ RefreshAnswered(p) \/ RefreshFails(p) \/ StoreRefreshed(p)
      PROVE  pc[q] \in {"refresh", "answer"} /\ read'[q] = read[q]
  BY <1>0, <1>3 DEF CallManager, SelectTokens, ReturnCached, GiveUp,
                    GoogleRefreshes, RefreshAnswered, RefreshFails, StoreRefreshed
<1>4. ASSUME NEW l \in Logins,
             GoogleExchanges(l) \/ LoginReady(l) \/ LoginFails(l) \/ StoreLogin(l)
      PROVE  pc[q] \in {"refresh", "answer"} /\ read'[q] = read[q]
  <2>1. l # q
    BY <1>4, RequestAssumption
  <2>. QED
    BY <1>0, <1>4, <2>1 DEF GoogleExchanges, LoginReady, LoginFails, StoreLogin
<1>5. CASE UNCHANGED <<pc, read>>
  BY <1>5 DEF RowsAreHonest
<1>6. CASE \E p \in Proxies :
           \/ CallManager(p) \/ SelectTokens(p) \/ ReturnCached(p)
           \/ NeedRefresh(p) \/ GiveUp(p) \/ GoogleRefreshes(p)
           \/ RefreshAnswered(p) \/ RefreshFails(p) \/ StoreRefreshed(p)
  BY <1>1, <1>2, <1>3, <1>6
<1>7. CASE \E l \in Logins :
           GoogleExchanges(l) \/ LoginReady(l) \/ LoginFails(l) \/ StoreLogin(l)
  BY <1>1, <1>4, <1>7
<1>. QED
  BY NextCases, <1>5, <1>6, <1>7 DEF Tick, vars
-----------------------------------------------------------------------------
LEMMA Invariance == Spec => [](TypeOK /\ RowsAreHonest)
<1>1. Init => TypeOK /\ RowsAreHonest
  <2>. SUFFICES ASSUME Init PROVE TypeOK /\ RowsAreHonest
    OBVIOUS
  <2>1. TypeOK
    BY NumberAssumption DEF Init, TypeOK, Times
  <2>2. RowsAreHonest
    BY DEF Init, RowsAreHonest, Honest, Unanswered, Requests
  <2>. QED
    BY <2>1, <2>2
<1>2. TypeOK /\ RowsAreHonest /\ [Next]_vars => TypeOK' /\ RowsAreHonest'
  <2>. SUFFICES ASSUME TypeOK, RowsAreHonest, [Next]_vars
                PROVE  TypeOK' /\ RowsAreHonest'
    OBVIOUS
  <2>1. TypeOK'
    BY TypeStep
  <2>2. RowsAreHonest'
    BY RowStep, ReadStep, WriteStep, HandStep DEF RowsAreHonest
  <2>. QED
    BY <2>1, <2>2
<1>. QED
  BY <1>1, <1>2, PTL DEF Spec

\* The variables of TokenRefresh keep their types.
THEOREM TypeCorrect == Spec => []TypeOK
  BY Invariance, PTL

\* Every stored expiry is late by one answer at most, however calls of
\* getValidAccessToken and logins overlap.
THEOREM Honesty == Spec => []RowsAreHonest
  BY Invariance, PTL

\* A token that getValidAccessToken takes from the table is alive for longer
\* than the margin less the lateness of its expiry.
THEOREM CachedTokensLive == Spec => CachedTokenLives
<1>1. TypeOK /\ RowsAreHonest /\ [Next]_vars =>
        [\A p \in Proxies : pc[p] # "cached" /\ pc'[p] = "cached" =>
           LET a == read[p].access
           IN issuedAt[a] + Lifetime + Lateness(a) > clock + Margin]_vars
  <2>. SUFFICES ASSUME TypeOK, RowsAreHonest, [Next]_vars, NEW p \in Proxies,
                       pc[p] # "cached", pc'[p] = "cached"
                PROVE  issuedAt[read[p].access] + Lifetime + Lateness(read[p].access)
                         > clock + Margin
    OBVIOUS
  <2>0. Proxies \subseteq Requests /\ Logins \subseteq Requests
    BY DEF Requests
  <2>1. ReturnCached(p)
    BY NextCases, <2>0
    DEF TypeOK, Goto, CallManager, SelectTokens, ReturnCached, NeedRefresh, GiveUp,
        GoogleRefreshes, RefreshAnswered, RefreshFails, StoreRefreshed,
        GoogleExchanges, LoginReady, LoginFails, StoreLogin, Tick, vars
  <2>2. /\ read[p] # None /\ read[p] \in Rows
        /\ read[p].expiresAt > clock + Margin
        /\ Honest(read[p])
    BY <2>0, <2>1 DEF ReturnCached, LongLived, RowsAreHonest, TypeOK
  <2>3. read[p].expiresAt <= issuedAt[read[p].access] + Lifetime + Lateness(read[p].access)
    BY <2>2 DEF Honest
  <2>4. /\ read[p].access \in Requests /\ read[p].expiresAt \in Nat
        /\ clock \in Nat /\ Margin \in Nat /\ Lifetime \in Nat
        /\ Lateness(read[p].access) \in Nat
    BY <2>2, NumberAssumption DEF Rows, Expiries, TypeOK, Times, Lateness
  <2>5. issuedAt[read[p].access] \in Nat
    BY <2>4 DEF TypeOK, Times
  <2>. QED
    BY <2>2, <2>3, <2>4, <2>5
<1>. QED
  BY <1>1, Invariance, PTL DEF Spec, CachedTokenLives

\* No call and no login takes a user's last refresh token away.
THEOREM RefreshKept == Spec => RefreshIsKept
<1>1. TypeOK /\ RowsAreHonest /\ [Next]_vars =>
        [row # None /\ row.refresh # None => row' # None /\ row'.refresh # None]_vars
  <2>. SUFFICES ASSUME TypeOK, RowsAreHonest, [Next]_vars, row # None, row.refresh # None
                PROVE  row' # None /\ row'.refresh # None
    OBVIOUS
  <2>1. ASSUME NEW q \in Requests, pc[q] = "store", row' = Upsert(row, write[q])
        PROVE  row' # None /\ row'.refresh # None
    <3>1. write[q] \in Rows /\ row \in Rows
      BY <2>1 DEF TypeOK, RowsAreHonest
    <3>2. row' \in Rows
      BY <2>1, <3>1, UpsertIsRow
    <3>. QED
      BY <2>1, <3>2, NoneAssumption DEF Upsert
  <2>. QED
    BY <2>1, RowWrites
<1>. QED
  BY <1>1, Invariance, PTL DEF Spec, RefreshIsKept
=============================================================================
