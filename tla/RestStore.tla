------------------------------- MODULE RestStore -------------------------------
(***************************************************************************)
(* DataBaseSession, the older client of the tables: a method is one HTTP   *)
(* request to PostgREST, insertDocument is two.  PostgREST carries out a   *)
(* request as one transaction.  What it answers may get lost, and a        *)
(* request the client has given up may still be carried out later.         *)
(*                                                                         *)
(* The tables are those of create.sql; rows of oauth_states and            *)
(* google_oauth_tokens may come from elsewhere.  Everything that expires   *)
(* does so at the end of the period 0; a method filters by the time it is  *)
(* given, not by the time of the database.                                 *)
(***************************************************************************)
EXTENDS Naturals, Sequences

CONSTANTS
  Calls,    \* calls of the methods
  MethodGroups, \* bound: the methods of a behaviour are those of one set
  Keys,     \* external_id, google_sub, user_id, session_hash or state_hash
  Contents, \* the sections of a document
  Nothing

VARIABLES
  documents, \* for each id the call whose row it is, or Nothing
  sections,  \* for each such row its sections
  users,     \* for each google_sub the call that inserted it, or Nothing
  logins,    \* for each user the call that wrote the row last
  tokens,    \* for each user the [access, refresh] tokens, by call
  sessions,  \* "none", "active" or "revoked"
  states,    \* "none", "unused" or "consumed"
  clock,     \* the period
  at,        \* what each call does next
  call,      \* its arguments and the time it began
  served,    \* what PostgREST answered it
  reply      \* what it returned, or Nothing

tables == <<documents, sections, users, logins, tokens, sessions, states>>
restVars == <<tables, clock, at, call, served, reply>>

Writes == {"insertDocument", "deleteDocument", "insertOAuthState", "consumeOAuthState", "insertAuthUser",
           "updateAuthUserLogin", "upsertGoogleOAuthTokens", "insertAppSession", "revokeAppSession",
           "updateAppSessionLastSeen"}
Reads == {"selectDocumentById", "selectAuthUser", "selectGoogleOAuthTokens", "selectActiveAppSession"}

ASSUME MethodAssumption == MethodGroups \subseteq SUBSET (Writes \cup Reads)

\* std::nullopt is no value and no answer, and the names of the calls are not
\* words of an answer.
ASSUME NothingAssumption ==
  /\ Nothing \notin Calls \cup Keys \cup Writes \cup Reads
  /\ Nothing # <<"true">> /\ "sections" \notin Calls

NoCall == [method |-> Nothing, key |-> Nothing, content |-> <<>>, refresh |-> FALSE, now |-> 0, before |-> {}]
NoTokens == [access |-> Nothing, refresh |-> Nothing]
NoRows == <<>>
Failed == <<"error">>
Rows(row) == <<"rows", row>>

RestTypeOK ==
  /\ documents \in [Keys -> Calls \cup {Nothing}] /\ sections \in [Calls -> Contents \cup {<<>>}]
  /\ users \in [Keys -> Calls \cup {Nothing}] /\ logins \in [Keys -> Calls \cup {Nothing}]
  /\ tokens \in [Keys -> [access : Calls \cup {Nothing}, refresh : Calls \cup {Nothing}]]
  /\ sessions \in [Keys -> {"none", "active", "revoked"}]
  /\ states \in [Keys -> {"none", "unused", "consumed"}]
  /\ at \in [Calls -> {"new", "request", "sections", "answer", "given up", "done"}]
  /\ \A k \in Keys : /\ documents[k] # Nothing => call[documents[k]].key = k
                     /\ (users[k] = Nothing) = (logins[k] = Nothing)
  /\ \A c \in Calls : sections[c] # <<>> => \E k \in Keys : documents[k] = c

RestInit ==
  /\ documents = [k \in Keys |-> Nothing] /\ sections = [c \in Calls |-> <<>>]
  /\ users = [k \in Keys |-> Nothing] /\ logins = [k \in Keys |-> Nothing]
  /\ tokens = [k \in Keys |-> NoTokens]
  /\ sessions = [k \in Keys |-> "none"]
  /\ states \in [Keys -> {"none", "unused"}]
  /\ clock = 0
  /\ at = [c \in Calls |-> "new"] /\ call = [c \in Calls |-> NoCall]
  /\ served = [c \in Calls |-> NoRows] /\ reply = [c \in Calls |-> Nothing]

-----------------------------------------------------------------------------
\* "before" remembers which calls had returned true when this one began.
BeginCall(c, method, key, content, refresh) ==
  /\ at[c] = "new"
  /\ call' = [call EXCEPT ![c] = [method |-> method, key |-> key, content |-> content, refresh |-> refresh,
                                  now |-> clock, before |-> {d \in Calls : reply[d] = <<"true">>}]]
  /\ at' = [at EXCEPT ![c] = "request"]
  /\ UNCHANGED <<tables, clock, served, reply>>

Expire == clock = 0 /\ clock' = 1 /\ UNCHANGED <<tables, at, call, served, reply>>

\* PostgREST has carried out a request; nobody waits for one given up.
CarryOut(c, answer) ==
  /\ served' = [served EXCEPT ![c] = answer]
  /\ at' = [at EXCEPT ![c] = IF at[c] = "given up" THEN "done" ELSE "answer"]
  /\ UNCHANGED <<clock, call, reply>>

\* A call that was given up before its second request never sends it.
Arrives(c, method) ==
  /\ call[c].method = method
  /\ at[c] = "request" \/ (at[c] = "given up" /\ served[c] = NoRows)
Unique(table, c) == table[call[c].key] = Nothing
IfFound(found, row) == IF found THEN Rows(row) ELSE NoRows

\* PostgREST refuses a request, or is not there.
Refuse(c) == at[c] \in {"request", "sections"} /\ CarryOut(c, Failed) /\ UNCHANGED tables

\* POST /documents?select=id
insertDocument(c) ==
  /\ Arrives(c, "insertDocument")
  /\ IF Unique(documents, c)
     THEN documents' = [documents EXCEPT ![call[c].key] = c] /\ CarryOut(c, Rows(c))
     ELSE CarryOut(c, Failed) /\ UNCHANGED documents
  /\ UNCHANGED <<sections, users, logins, tokens, sessions, states>>

\* POST /document_sections, all of them in one array, by the id of the row.
insertSections(c) ==
  /\ call[c].method = "insertDocument"
  /\ at[c] = "sections" \/ (at[c] = "given up" /\ served[c] = Rows(c))
  /\ IF documents[call[c].key] = c
     THEN sections' = [sections EXCEPT ![c] = call[c].content] /\ CarryOut(c, <<"rows", "sections">>)
     ELSE CarryOut(c, Failed) /\ UNCHANGED sections
  /\ UNCHANGED <<documents, users, logins, tokens, sessions, states>>

\* GET /documents with the sections embedded: one statement.
Embedded(row) == sections[row]
selectDocumentById(c) ==
  LET row == documents[call[c].key]
  IN /\ Arrives(c, "selectDocumentById")
     /\ CarryOut(c, IF row = Nothing THEN NoRows ELSE <<"rows", row, Embedded(row)>>)
     /\ UNCHANGED tables

\* The sections go with the row.
WithoutSections(row) == [d \in Calls |-> IF d = row THEN <<>> ELSE sections[d]]
deleteDocument(c) ==
  LET row == documents[call[c].key]
  IN /\ Arrives(c, "deleteDocument")
     /\ documents' = [documents EXCEPT ![call[c].key] = Nothing]
     /\ sections' = WithoutSections(row)
     /\ CarryOut(c, IfFound(row # Nothing, row))
     /\ UNCHANGED <<users, logins, tokens, sessions, states>>

\* The method sends no telegram_id, which the table requires.
insertOAuthState(c) == Arrives(c, "insertOAuthState") /\ CarryOut(c, Failed) /\ UNCHANGED tables

\* PATCH with consumed_at=is.null & expires_at=gt.now; a mutant leaves the
\* first condition out.
UsableAgain(c) == states[call[c].key] # "none" /\ call[c].now = 0
Usable(c) == states[call[c].key] = "unused" /\ call[c].now = 0
consumeOAuthState(c) ==
  LET key == call[c].key
  IN /\ Arrives(c, "consumeOAuthState")
     /\ states' = [states EXCEPT ![key] = IF Usable(c) THEN "consumed" ELSE states[key]]
     /\ CarryOut(c, IfFound(Usable(c), key))
     /\ UNCHANGED <<documents, sections, users, logins, tokens, sessions>>

\* selectAuthUserByGoogleSub and selectAuthUserById
selectAuthUser(c) ==
  /\ Arrives(c, "selectAuthUser")
  /\ CarryOut(c, IfFound(users[call[c].key] # Nothing, users[call[c].key]))
  /\ UNCHANGED tables

insertAuthUser(c) ==
  LET key == call[c].key
  IN /\ Arrives(c, "insertAuthUser")
     /\ IF Unique(users, c)
        THEN /\ users' = [users EXCEPT ![key] = c] /\ logins' = [logins EXCEPT ![key] = c]
             /\ CarryOut(c, Rows(c))
        ELSE CarryOut(c, Failed) /\ UNCHANGED <<users, logins>>
     /\ UNCHANGED <<documents, sections, tokens, sessions, states>>

\* PATCH changes rows and makes none.
LoginUpdated(c) == IF users[call[c].key] = Nothing THEN Nothing ELSE c
updateAuthUserLogin(c) ==
  LET key == call[c].key
  IN /\ Arrives(c, "updateAuthUserLogin")
     /\ logins' = [logins EXCEPT ![key] = LoginUpdated(c)]
     /\ CarryOut(c, IfFound(users[key] # Nothing, users[key]))
     /\ UNCHANGED <<documents, sections, users, tokens, sessions, states>>

\* merge-duplicates sets the columns that are sent: without a refresh token
\* the one that is there stays.
RefreshToken(c) == IF call[c].refresh THEN c ELSE tokens[call[c].key].refresh
upsertGoogleOAuthTokens(c) ==
  LET key == call[c].key
  IN /\ Arrives(c, "upsertGoogleOAuthTokens")
     /\ tokens' = [tokens EXCEPT ![key] = [access |-> c, refresh |-> RefreshToken(c)]]
     /\ CarryOut(c, NoRows)
     /\ UNCHANGED <<documents, sections, users, logins, sessions, states>>

selectGoogleOAuthTokens(c) ==
  LET row == tokens[call[c].key]
  IN /\ Arrives(c, "selectGoogleOAuthTokens")
     /\ CarryOut(c, IF row = NoTokens THEN NoRows ELSE <<"rows", row.access, row.refresh>>)
     /\ UNCHANGED tables

\* session_hash is unique.
insertAppSession(c) ==
  LET key == call[c].key
  IN /\ Arrives(c, "insertAppSession")
     /\ IF sessions[key] = "none"
        THEN sessions' = [sessions EXCEPT ![key] = "active"] /\ CarryOut(c, NoRows)
        ELSE CarryOut(c, Failed) /\ UNCHANGED sessions
     /\ UNCHANGED <<documents, sections, users, logins, tokens, states>>

\* GET with revoked_at=is.null & expires_at=gt.now
Active(c) == sessions[call[c].key] = "active" /\ call[c].now = 0
selectActiveAppSession(c) ==
  /\ Arrives(c, "selectActiveAppSession")
  /\ CarryOut(c, IfFound(Active(c), call[c].key))
  /\ UNCHANGED tables

\* PATCH of revoked_at, whatever it was; no row is no error.
revokeAppSession(c) ==
  LET key == call[c].key
  IN /\ Arrives(c, "revokeAppSession")
     /\ sessions' = [sessions EXCEPT ![key] = IF @ = "none" THEN "none" ELSE "revoked"]
     /\ CarryOut(c, NoRows)
     /\ UNCHANGED <<documents, sections, users, logins, tokens, states>>

\* PATCH of last_seen_at, which no method reads.
updateAppSessionLastSeen(c) == Arrives(c, "updateAppSessionLastSeen") /\ CarryOut(c, NoRows) /\ UNCHANGED tables

-----------------------------------------------------------------------------
\* The answer reaches the method: what it returns, or its second request.
NeedsRows == {"insertDocument", "consumeOAuthState", "insertAuthUser", "updateAuthUserLogin"} \cup Reads
FirstOfTwo(c) == served[c] = Rows(c) /\ call[c].method = "insertDocument"

Return(c, answer) ==
  /\ at' = [at EXCEPT ![c] = "done"]
  /\ reply' = [reply EXCEPT ![c] = answer]

\* isWriteSuccess of the status; a mutant does not look at it.
ReturnedAnyway(c) == IF call[c].method \in Reads THEN served[c] ELSE <<"true">>
Returned(c) ==
  IF served[c] = Failed THEN <<"false">>
  ELSE IF call[c].method \in Reads THEN served[c]
  ELSE IF call[c].method \in NeedsRows /\ served[c] = NoRows THEN <<"false">> ELSE <<"true">>

Receive(c) ==
  /\ at[c] = "answer"
  /\ IF FirstOfTwo(c) /\ call[c].content # <<>>
     THEN at' = [at EXCEPT ![c] = "sections"] /\ UNCHANGED reply
     ELSE Return(c, Returned(c))
  /\ UNCHANGED <<tables, clock, call, served>>

\* sendRequest throws: the request was not carried out, or will be, or was.
GiveUp(c) ==
  /\ at[c] \in {"request", "sections", "answer"}
  /\ at' = [at EXCEPT ![c] = IF at[c] = "answer" THEN "done" ELSE "given up"]
  /\ reply' = [reply EXCEPT ![c] = <<"exception">>]
  /\ UNCHANGED <<tables, clock, call, served>>

Request(c) ==
  \/ insertDocument(c) \/ insertSections(c) \/ selectDocumentById(c) \/ deleteDocument(c)
  \/ insertOAuthState(c) \/ consumeOAuthState(c)
  \/ selectAuthUser(c) \/ insertAuthUser(c) \/ updateAuthUserLogin(c)
  \/ upsertGoogleOAuthTokens(c) \/ selectGoogleOAuthTokens(c)
  \/ insertAppSession(c) \/ selectActiveAppSession(c) \/ revokeAppSession(c) \/ updateAppSessionLastSeen(c)

Start(c) ==
  \E group \in MethodGroups : \E method \in group, key \in Keys :
    /\ \A d \in Calls : call[d].method \in group \cup {Nothing}
    /\ \/ method = "insertDocument" /\ \E content \in Contents : BeginCall(c, method, key, content, FALSE)
       \/ method = "upsertGoogleOAuthTokens" /\ \E refresh \in BOOLEAN : BeginCall(c, method, key, <<>>, refresh)
       \/ method \notin {"insertDocument", "upsertGoogleOAuthTokens"} /\ BeginCall(c, method, key, <<>>, FALSE)

RestQuiet == (\A c \in Calls : at[c] \in {"given up", "done"}) /\ UNCHANGED restVars
RestNext == (\E c \in Calls : Start(c) \/ Request(c) \/ Refuse(c) \/ Receive(c) \/ GiveUp(c)) \/ Expire \/ RestQuiet

RestSpec == RestInit /\ [][RestNext]_restVars

-----------------------------------------------------------------------------
IsWhole(d) == sections[d] = call[d].content

\* What true and what a document that is read say of its sections.
TrueMeansWhole ==
  \A k \in Keys, d \in Calls : documents[k] = d /\ reply[d] = <<"true">> => IsWhole(d)

AllSectionsOrNone ==
  \A c \in Calls : call[c].method = "selectDocumentById" /\ reply[c] # Nothing /\ Len(reply[c]) = 3 =>
    LET d == reply[c][2] IN call[d].key = call[c].key /\ reply[c][3] \in {<<>>, call[d].content}

(***************************************************************************)
(* insertDocument returns true only for a document that has all its        *)
(* sections: the half that the second request left out, or that a deletion *)
(* between the two took away, is reported.  A half document stays, though, *)
(* and no later insert of the same file can complete it: selectDocumentById*)
(* returns the sections of one insert, all of them or none, also while the *)
(* document is inserted, deleted and inserted again.                       *)
(***************************************************************************)
HalvesAreReported == TrueMeansWhole /\ AllSectionsOrNone

\* The three tables the late requests write to.
ConsumedOnce ==
  \A c, d \in Calls :
    call[c].method = "consumeOAuthState" /\ reply[c] = <<"true">> =>
      /\ call[c].now = 0
      /\ c # d /\ call[d].method = "consumeOAuthState" /\ call[d].key = call[c].key => reply[d] # <<"true">>

RevokedStaysRevoked ==
  \A c, d, e \in Calls :
    /\ call[c].method = "insertAppSession" /\ call[d].method = "revokeAppSession"
    /\ call[e].method = "selectActiveAppSession"
    /\ call[c].key = call[d].key /\ call[d].key = call[e].key
    /\ c \in call[d].before /\ d \in call[e].before
    => reply[e] \in {Nothing, <<>>, <<"false">>, <<"exception">>}

RefreshTokenIsKept == \A k \in Keys : tokens[k].refresh # Nothing => tokens'[k].refresh # Nothing

(***************************************************************************)
(* Requests that are carried out after their caller gave up, or after later*)
(* ones, undo nothing: an OAuth state is accepted once, by all the calls   *)
(* that consume it and whichever answers are lost, and not after it has    *)
(* expired; after revokeAppSession has returned true for a session that    *)
(* exists no selectActiveAppSession that begins later finds it; and the    *)
(* refresh token of a user, which Google sends once, is never erased by an *)
(* answer that has none.                                                   *)
(***************************************************************************)
LateRequestsUndoNothing == [][ConsumedOnce' /\ RevokedStaysRevoked' /\ RefreshTokenIsKept]_restVars
=============================================================================
