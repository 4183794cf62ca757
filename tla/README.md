# TLA+ models of AntyCopyRightCppServer

The server (C++23, Boost.Asio coroutines) lets a Telegram bot and a web client
log users in with Google, read their Classroom data with their Google tokens,
and compare documents: it downloads them from Drive, cuts them into sections,
keeps them in PostgreSQL and sends them to an ML server.  This directory holds
TLA+ models of it, TLC runs on small instances, and proofs that hold for every
instance.  File names below are relative to the repository.

## 1. Inventory

| part | code | state | operations | what is hard | module |
|---|---|---|---|---|---|
| Telegram linking | `Database::linkTelegramIdToUser`, `auth_users.telegram_id` (`sql/create.sql`) | the account of each user | re-link | concurrent transactions, row and index waits, deadlock, lost COMMIT | `TelegramLink` |
| Google login | `authGoogleStartHandler`, `authGoogleCallbackHandler` (`src/Server.cpp`) | `oauth_states`, `auth_users`, `google_oauth_tokens` | start, callback | a dozen awaits, duplicated callbacks, crash between transactions, stale reads | `OAuthLogin` |
| Access tokens | `GoogleTokenManager::getValidAccessToken` | one row of `google_oauth_tokens` | return cached, refresh and store | concurrent refreshes, late answers, expiry margin | `TokenRefresh` |
| Google OAuth client | `src/Services/Auth/GoogleOAuthClient.cpp` | none | exchange, refresh, userinfo | time-outs, missing refresh token | outcomes in the two above |
| Document analysis | `analyzesHandler`, `handle_document_request`, `download_extract_store`, `saveDocumentsHandler` | the vector a request shares with its saver | look up, download, extract, save, send | parallel downloads, two threads on one vector, partial failure | `AnalyzePipeline` |
| Document store | `insertDocument`, `selectDocument`, `deleteDocument` | `documents`, `document_sections` | insert, select, delete | unique ids, reads of two statements | `DocumentStore` |
| Fragment analysis | `analyzesFragmentsHandler`, `selectTwoDocumentFragments` | none | pair two sections, ask the ML server | repeated titles | `DocumentStore` |
| App sessions | `authMeHandler`, `authLogoutHandler`, `getSessionFromCookie` | `app_sessions` | check, touch, revoke | check then use, ignored failures | `AppSessions` |
| Classroom proxy | `classroomProxyHandler` | none | identify, get token, forward | identity read before several awaits | `AppSessions`, `TokenRefresh` |
| Outgoing sessions | `SslSession`, `SimpleSession` | connection, host | connect, send, redirect | time-outs, redirect limit, reuse | `HttpClientSession` |
| Listener | `listen`, `doSession`, `requestHandler` | one coroutine per connection | accept, read, route, write | exceptions of handlers, keep-alive | `HttpSession` |
| DOCX reader | `DocReader.cpp`, `Walker.cpp`, `DocStyles.cpp` | walker, collector, style maps | collect titles, resolve styles, cut into sections | flags that outlive a paragraph, two readings that must agree | `DocxReader`, `DocWalker`, `SectionWalker`, `TocTitles`, `DocStyles` |
| PDF reader | `Walker.cpp`, `PdfReader` | walker | cut pages into sections | pages, its own copy of every predicate | `PdfWalker`, `SectionWalker` |
| ZIP reading | `zipReader`, `readZipEntry` | handles, buffer | open, read, release | failures between handles, growing buffer | `ZipReader` |
| PostgREST client | `src/Session/DataBaseSession.cpp` | none | the older database interface | two requests for one document, late requests | `RestStore` |
| Encryption | `src/Util/Encrypt.cpp` | none | encode, encrypt, hash | an int that overflows | `Base64Url` |
| Asynchronous execution | `src/Util/AsyncExecution.hpp`, thread pools | pools | run on a pool, resume | where code resumes | interleaving everywhere |
| Configuration, models, build | `src/Util`, `src/Models` | none | | | left out |

How the parts interact: every handler is a coroutine on the `io_context`; it
calls the database and Google and is suspended meanwhile, so handlers interleave
at every `co_await` and share nothing but the tables.  The exception is the
saver of an analysis, which runs on the pool `tp` and shares a vector with the
request that spawned it.  A login ends in a re-link; the analysis and the proxy
find the user by the link and then ask for an access token.  A downloaded file
goes through the ZIP reader and the two readings of the DOCX reader, or through
the PDF reader; its sections are what the store keeps and what the fragment
analysis compares.  Each handler runs inside a session of the listener, and
every call to another server inside an outgoing session.

## 2. Plan

Done: the five modules of the handlers with their proofs or runs
(`TelegramDirectory`, `TelegramLink`, `OAuthLogin`, `TokenRefresh`,
`AnalyzePipeline`, `AppSessions`); the readers (`DocText`, `SectionWalker`,
`DocWalker`, `PdfWalker`, `DocStyles`, `TocTitles`, `DocxReader`, `ZipReader`);
the store and the directory it implements (`DocumentStore`, `DocumentDirectory`);
both ends of HTTP (`HttpClientSession`, `HttpSession`); the older client
(`RestStore`); the encoding of tokens (`Base64Url`).

Every safety property that a run checks is proved.  Left: the type correctness
of the two readers as a theorem, and a second look at the bounds of the liveness
runs, which rest on TLC alone.

## 3. Modules

`TelegramLink` has one action per statement of `linkTelegramIdToUser` and per
thing PostgreSQL does with it: `Begin` takes the snapshot of the first UPDATE,
`ClearRow`/`ClearNothing` finish it once the row lock is free, `SetRow` is the
second UPDATE, `CheckIndex` and `UniqueViolation` its passage through the unique
index, `Commit`, `Rollback`, `DeadlockVictim`, `ConnectionLost`.  `telegramId` is
the committed column; `lock` and `draft` are the uncommitted rows.  The
semantics of READ COMMITTED, of row locks and of the unique index are
PostgreSQL's and are marked external.

`TelegramDirectory` is what a caller may rely on: `Relink(t, u)` in one step.
`TelegramLink` implements it with `owner <- Owner`, computed from the committed
column.  `OAuthLogin` uses `Relink` itself, so the refinement is what justifies
the single step there.

`OAuthLogin` has an action per database call and per call to Google of the two
handlers.  A write either fails without effect, or takes effect and is reported
as success or as failure (a lost answer to COMMIT).  `Crash` drops all requests
under way.  The `state` of a callback is any state a start has sent a browser
away with; guesses of other values find no row and are the same as
`ConsumeRefused`.  A user's id is its `google_sub`; a token is named by the
callback that got it, which makes provenance a property of states.

`TokenRefresh` follows one user's row.  `issuedAt` is when Google issued a
token, which the program does not know; `NewRow` computes the expiry the way it
does, from the arrival of the answer.  `InTime` bounds how late an answer is
accepted; for a login this spans the exchange, the userinfo call and two
queries (`LoginTime`).

`AnalyzePipeline` models a request's loop over its files, its parallel
downloads, the shared vector and the saver.  Its `freed` records that an append
moved the vector while a saver iterates over it.  Reading it then is undefined
behaviour in C++; the outcomes taken are a crash, an exception that ends the
saver, and an insertion of a moved-from document (`blank`).  Whether an append
reallocates depends on the library, so it is a choice.  `ReceiveRequest` puts
together identification and the token lookup, which change no state here.

`AppSessions` follows the requests that name a user by a cookie or a
`telegram_id`: authMe, logout, and the proxy (the analysis identifies its user
the same way).  `Receive` reads what the client sent and the clock;
`SelectSession`, `SelectOwner` and `Unauthorised` are the outcomes of the
lookup, `Touch` and `Revoke` the two UPDATEs, which may fail without the handler
minding, and `GetToken` and `Forward` what the proxy does for the user it found.
No handler calls `insertAppSession`, so the sessions are there from the start.
`ended` and `owners` are history variables: what was revoked when a request came
in, and whom its account has belonged to since.  A lookup is one step: with READ
COMMITTED it reads the rows as of one moment between call and return.

`DocumentStore` has one action per statement of `insertDocument`,
`selectDocument` and `selectTwoDocumentFragments`; an insert is seen by others at
its COMMIT and waits for another of the same id.  `deleteDocument`, which no
handler calls, is one statement with a cascade.  `DocumentDirectory` is what a
caller may rely on: every call takes one step, and it says precisely what is not
promised.  The refinement maps `stored` to the committed row and its sections.
`AnalyzePipeline` uses the table in single steps as the directory allows.

`DocText` has the alphabet of the readers and the predicates both walkers are
made of. A text is a sequence of words of one class (numbers, Cyrillic and Latin
in three cases, dots, known words), not of characters, since `checkText`,
`normalizeTitle` and the heading tests tell nothing else apart. `SectionWalker`
is what both walkers have: the complete sections, the one that goes on, and what
the sections of a whole document are (`Cut`). `DocWalker` has one action per
node `for_each` is called with, and the end of a `w:p` and the edges of a table
of contents as environment steps that the walker does not see; `doc` keeps the
document as it really is, so a property compares what the walker made of the
nodes with what a look at the whole document finds.  A bookmark begins in a
paragraph (`bookmark`) or between two (`behind`, of the one before), and the
fonts of a `w:sdt` stand between paragraphs too. `PdfWalker` takes a page,
then its lines one by one, and remembers all lines it has read. `TocTitles`
takes a paragraph per step through `collectTopLevelTocTitles`. `DocxReader`
composes the two readings: the titles of the first decide the headings of the
second when there are no heading styles. `DocStyles` is `parseStyles` with
`resolveOutlineLevel` one call per step, so that circles of styles can be
followed. `MCDocumentReader` adds the choice `DocumentReaderFromRaw` makes
between the formats.

`ZipReader` follows the handles of `zipReader`, each call of minizip with its
failure, and the loop of `readZipEntry` on lengths.  The code takes any error of
`mz_zip_locate_entry` for a missing entry; `LocateFails` is that, for an entry
that is there and for one that is not.  `Base64Url` keeps the width
of the `int`, a constant, since it overflows after a few bytes (the overflow
happens in shifts of an int that the compiler wraps).  `MCLoops` composes the
three loops over data of any size: a behaviour takes the steps of one of them.

`HttpClientSession` is the common control of `SslSession` and `SimpleSession`:
`connectToSender` (`Reuse`, `StopOther`, `Connect`), the exchange (`Write`,
`Read`, `Fail`), and the redirect loop (`Follow`).  The peer answers anything,
closes when it likes, and hosts redirect anywhere.  A session may do several
operations.  `HttpSession` is `listen` and `doSession`: the numbers of the
requests stand for their bytes, `inbox` includes the session's buffer, and a
handler gives an answer with a length, one without, or an exception.  A client
reads its answers, has stopped reading (`"full"`: a write to it only ends by its
limit of 10 seconds), or is gone; one that stopped may go on.  A
`system_error` and any other exception end the connection alike; only
`async_accept` throwing ends the listener.

`RestStore` is `DataBaseSession` against PostgREST: `CarryOut` carries a request
out in one transaction, `GiveUp` is the client's time-out, after which the
request may still be carried out.  `now` is the time a method was given, since
the filters use the caller's time.  The server creates no `DataBaseSession`; it
stands beside `Database` with the same interface.

A remark on threads: `AsyncExecute` posts to a pool with `use_awaitable`, and
Asio resumes a coroutine on its own executor after the hop.  A process with one
`io_context` thread may therefore run the database functions of its handlers one
after another on that thread.  The models do not rely on it: database calls of
different handlers, or of several server processes, may run at once.

Modules named `MC...` are the instances for TLC; `...Proofs` hold theorems.
Operators described as mutants are slips a programmer could make, used to see
that the properties notice them; no specification contains them.

## 4. Runs

| run | instance | what it shows |
|---|---|---|
| `TelegramLink.cfg` | 2 users, 2 accounts, 3 calls | `UniqueTelegram`, `RelinkIsAtomic`, `EveryCallReturns` |
| `OAuthLogin.cfg` | 2 Google and 2 Telegram accounts, 2 starts, 2 callbacks, a state lives one of two ticks | `StateUsedOnce`, `LinksAreAuthorised`, `TokensAreAuthorised`, `AccountsAreWhole`, `RefreshIsKept`, `CallbacksAreAnswered` |
| `TokenRefresh.cfg` | 2 calls, 2 logins, tokens live 2 ticks, clock to 3 | `CachedTokenLives`, `RefreshIsKept`, `ProxiesAreAnswered` |
| `AnalyzePipeline.cfg` | 2 requests, 2 files, lists of up to 2 | `PayloadIsComplete`, `TextsAreAuthentic`, `StoredFromWholeRequests`, `BlankNeedsMixedRequest` |
| `AnalyzePipelineLive.cfg` | 2 requests for one file, 1 pool thread | `WorkEnds` |
| `AppSessions.cfg` | 2 requests, 1 session, 1 account, 2 users, 2 moments | `LogoutIsFinal`, `ActsForItsUser`, `RevokedStaysRevoked`, `RequestsAreAnswered` |
| `DocumentReader.cfg` | 4 paragraphs of 11 kinds read twice; 6 nodes of any shape; 3 pages | `SectionsMatchDocument`, `CollectedTitlesAreListed`, `ContentsMatchSections`, `PdfSectionsMatch` |
| `Loops.cfg` | entries of 0 to 9 bytes in a buffer of 2; 3 styles; 5 bytes in an int of 16 bits | `HandlesAreReleased`, `EntriesAreWhole`, `HeadingsAreInherited`, `EncodesEveryBit`, `LoopsEnd` |
| `HttpClientSession.cfg` | 2 operations, 3 hosts, 3 redirects | `RequestsReachTheirHost`, `RedirectLimit`, `OperationsEnd` |
| `HttpSession.cfg` | 2 connections of 3 requests, 1 descriptor, clients that stop reading or leave | `AnswersInOrder`, `AtMostOneUnanswered`, `ServiceGoesOn` |
| `DocumentStore.cfg` | 3 calls, 2 ids, documents with a repeated title | `ImplementsDirectory`, `CallsReturn` |
| `RestStore.cfg` | 3 calls about one key, one group of tables at a time | `HalvesAreReported`, `LateRequestsUndoNothing` |

Why the bounds are enough.  Three calls over two rows contain a chain of two
waits, two calls that want the same account and two that swap accounts; a ring
of waits needs two calls.  Two callbacks are enough to use a state twice, to
register an account twice at once, and to update it from a stale read.  The
clocks pass every comparison on both sides of its boundary.  Two files and two
requests give every mixture of cached and new files, a file listed twice, and two
savers of the same file.  The instances without symmetry are those that check
liveness as well; they are small because their safety properties are proved for
every instance (section 6), and the runs are there to show that the models reach
the cases the properties speak of.  The two requests of `AppSessions.cfg` are one
in the middle of its awaits and a logout, or a logout and one that comes in
later; a third that comes in after both is covered by the proof alone.

A document of six nodes has two paragraphs with a heading in two runs, or a
paragraph inside another that goes on; four paragraphs are a heading of contents,
a row, an end and a title.  Three pages let a section begin on one page, skip one
and end on the last.  A buffer of two bytes is filled exactly, outgrown once and
outgrown twice by nine.  Three styles make circles of every length and two
definitions of one style.  An int of 16 bits overflows with the second byte, and
five bytes leave every remainder modulo three.  Three requests fill the gap
between one in hand and one that waits; one descriptor is exhausted by two
connections.  Three calls of the store are two inserts and a deletion, or a
deletion and an insert inside a read.  The groups of methods in `RestStore.cfg`
touch disjoint tables, so a behaviour that mixes them is two that do not.

Deadlock is not checked in the runs whose requests all end and whose models make
no others; the other modules have an explicit step for that.

What the runs show of the code's limits:

- `CachedTokenLives` bounds the remaining life of a token from below by the
  margin (300 s) less the time its row was late.  A refresh is read within five
  minutes, but resolving and connecting have no time limit of the program's own
  and a login makes two calls and two queries first, so the margin is not
  always enough.
- `RefreshIsKept` says a user keeps *a* refresh token.  An older one may be
  written over a newer one: `getValidAccessToken` and the callback both write
  back what they read before several awaits.
- Two simultaneous first logins of one account both try to register; the second
  gets an error (500) though the account exists.  `AccountsAreWhole` shows no
  harm is left behind.
- A request for cached and new files may let its saver read freed memory
  (`freed`, `blank`).  `BlankNeedsMixedRequest` shows it takes such a request.
- A request that has been let in goes on after a logout or after its account was
  linked to another user; `LogoutIsFinal` and `ActsForItsUser` speak of what was
  so when it came in, or since.  A logout whose UPDATE fails answers 204 all the
  same.
- Without a thread in `tp` (a machine with one core) analyses with new files
  never end.  No property covers this: the liveness run takes one thread.
- What a saver does after a reallocation is what C++ leaves undefined.
  `TextsAreAuthentic` holds for the outcomes listed in section 3, none of which
  stores a torn copy.
- The clause of `LateRequestsUndoNothing` about revoked sessions takes all three
  calls of `RestStore.cfg`, so no request is late there in the run; the theorem
  `LateRequestsAreHarmless` covers it.
- `DocWalker` joins what follows a text box to the paragraph of the box
  (`resumed`), and misses Cyrillic letters behind a small Latin letter or a
  symbol, because `checkText` stops there (`hidden`).  `SectionsMatchDocument`
  excepts these documents.
- A `_Toc` bookmark between two paragraphs, where it marks the second, counts
  for the first, which has ended and is not flushed yet, and may make that a
  heading.  `SectionsMatchDocument` spells this out (`behind`), and shows that
  nothing else of one paragraph reaches another.
- The collection takes a typed row with dots for a row of the contents, the
  walker wants a page number as well.  A row without one is listed, not dropped,
  and so begins a section of its own.  `ContentsMatchSections` shows that these
  are the only rows about which the two differ (`Numberless`).  The walker in turn
  drops a paragraph with a tab of dots, or with dots and a number, wherever it
  stands in the body.
- Styles are left out without a word when `mz_zip_locate_entry` fails for
  `word/styles.xml`: `EntriesAreWhole` speaks of the entries that locate finds.
- The PDF walker takes known words in any case for headings, the DOCX walker
  only in capitals, and they differ about an appendix without a letter; for all
  other lines `PdfSectionsMatch` shows the same titles.
- `maxRedirect` counts requests: a chain of exactly that many redirects is
  refused although its target would answer (`RedirectLimit`).
- The catch of `listen` is outside its loop: the first `async_accept` that throws
  is the last one (`ServiceGoesOn`).
- Two sections with one title in a document may make both rows of
  `selectTwoDocumentFragments`; the other fragment is then empty.  A document that
  is deleted between the two statements of `selectDocument` is returned without
  sections.  `DocumentDirectory` has both as actions.  Sections are read without
  ORDER BY, so their order is not promised either.
- `DataBaseSession::insertDocument` leaves a half document when its second
  request fails; it says so, but no later insert of that file can succeed.  Its
  `insertOAuthState` sends no `telegram_id` and always fails.
- A document is cached by its file id for ever, and the fragment analysis answers
  200 whatever the ML server said; the repository promises nothing else.

## 5. Fairness

Weak fairness of each request's steps, never of arrivals, crashes, the clock
or lost connections.  It stands for: the `io_context` and the pools keep running
their queues; PostgreSQL runs a statement whose locks are free and its deadlock
detector; and every network operation ends, by its time limit or that of the
operating system, with an answer or an exception.  Each handler has an action
for the exception (`GoogleFails`, `WriteFails`, `RefreshFails`, `Unauthorised`, `Download`
to `"failed"`), so fairness never assumes success.

`HttpClientSession` assumes it of the steps of an operation, since
`expires_after` bounds each; `HttpSession` of accepting and of each session,
since a read that gets nothing ends after 30 seconds and a write that nobody
takes after 10, and not of the clients, which may be silent or stop reading for
ever; `DocumentStore` of the statements and not of `Fail`, so that `CallsReturn`
rests on no statement failing; `ZipReader` and `DocStyles` of the steps of a
sequential program. `RestStore` has no liveness property: a request that is
given up may be carried out late or never.

## 6. Proofs

The theorems hold for any constants that satisfy the named assumptions: `NULL`
(`None`) is no proper value, the bounds are naturals (a buffer has at least one
byte), and in `TokenRefresh` no request is both a call and a login. Each proof
module also has the type correctness of its module, as `TypeCorrect` or in its
invariant, which is why no run repeats it; for the two readers (`ReaderProofs`)
only the types that their invariants need are proved. `CommitIsExclusive` and
`RowsAreHonest` are proved and not run either.

`LoginProofs` extends `OAuthLogin` and `TelegramLink`, whose names differ.
For the linking (`LinkSpec`) the invariant is `LinkInv`.  Uniqueness alone is not
inductive: a commit keeps it only if no other row holds the account then, which
is `CommitIsExclusive`, and that in turn needs `LocksAreJustified`: a row is
locked by a call that has cleared the account from it or has written it there,
and past its second UPDATE a call holds its own row.  `Refinement` adds that the
column's `Owner` changes in a `Commit` alone, and there exactly as `Relink` says.

For the login (`Spec` of `OAuthLogin`) it is `LoginInv`.  `StateUsedOnce` follows since
an admitted callback's state is consumed (`CallbacksMatchStates`) and a consumed
state admits nobody.  `LinksAreAuthorised` needs that rows of `oauth_states`
are what their start computed (`StatesMatchStarts`), `TokensAreAuthorised` that
the tokens a callback carries came from callbacks of its own account
(`TokensMatchCallbacks`).  `RefreshKept` is an action property from the same
invariant: the one write without COALESCE is the INSERT of a new user, who by
`AccountsAreWhole` has no tokens.

`TokenRefreshProofs`.  `RowsAreHonest` is inductive with `TypeOK`: the expiry of
a new row is computed at a time `InTime` bounds, and a token in a row is one
Google will not issue again.  `CachedTokensLive` and `RefreshKept` are action
properties from it.

`AppSessionsProofs`.  The invariant is `SessionInv`.  `LogoutIsFinal` holds when
a lookup succeeds because the sessions of `ended` still are revoked
(`RequestsMatchRows`), which rests on `RowsStep`: a step keeps a row's user and
its revocation.  `RevocationKept` is that lemma under the invariant.  The proof
takes one request at a time (`Settled`): the request that moves becomes settled,
the others stay so whatever it writes (`StaysSettled`).

`HttpProofs`, outgoing sessions.  The invariant is `OperationInv`.
`RequestsReachTheirHost` looks at the log of an operation; to be inductive it
needs that an operation under way has followed every answer, that `req` is the
host the log calls for (`Exchanges`), and that past `connect` the socket goes to
`req`.  `RedirectLimit` needs that `redirectCount` counts the answers so far
(`RedirectsFollowed`).

`HttpProofs`, the listener (`ListenerSpec`, module `HttpSession`).  The
invariant is `ConnectionInv`, of one connection at a
time: the requests sent are the answered ones, the one in hand, and those in
`inbox`, numbered without a gap (`Waiting`), and what was answered and handled
follows (`Answered`, `HandledUpTo`).  The connections that do not move keep
theirs (`OtherConnections`).

`AnalyzePipelineProofs`.  The invariant is `PipelineInv`.  `Staged` says what the
place a request has come to implies for its downloads, its saver and the saver's
range.  `Sources` follows the texts: what the table and the cached documents
hold was stored by a request all of whose downloads were (`Settled`), and the
vector holds besides that only the request's own downloads (`Held`); a stored
download stays stored and the list it is of stays as it is (`DownloadsKept`), so
no step of any request disturbs this.  `Balance` counts: the files looked up are
the cached and the wanted ones, the vector holds one document for every stored
download, and after the append the cached ones as well.  It is stated for every
set of files: for one file it gives `PayloadIsComplete`, for all of them the
length of the vector, which bounds the saver's range.  `BlankNeedsMixedRequest`
follows from `Staged`, by which memory is freed only under a saver at work, and
only by cached documents.

`LoopsProofs`, about `MCLoops`, which has the three loops side by side.

- `ZipReader`: the invariant is `ReaderInv`: at which step which handle is open
  and deleted how often (`HandlesFollow`), and that an entry is read only after
  the one before it was read whole (`ReadSoFar`).
- `DocStyles`: the invariant is `StylesInv`.  The map has the first style of each
  id (`MapInv`), and what `resolveOutlineLevel` came through is a line of descent
  without a level (`Path`).  A line is determined by where it begins
  (`LinesAgree`), so every line that `LevelOf` looks at follows that one: where
  the search finds a level each other line is shorter and has none
  (`LevelFound`), and where it gives up in a circle no line gets out of `visiting`
  (`LevelMissing`).  That the lines need be no longer than there are ids is the
  pigeonhole in `LevelFound`.
- `Base64Url`: the invariant is `EncodeInv`: the low bits of `val` are the bits of
  `data` that are not yet written (`Waiting`), and what is written are the groups
  before them (`Written`).  It survives overflow because at most 13 bits wait and
  `AsInt` changes a number by a multiple of 2^16 (`Overflow`).

`DocumentStoreProofs`.  The invariant is `StoreInv`: one call at most is past the
unique index for a file and has not committed (`OneWriter`), rows that are seen
were committed (`RowsWereCommitted`), a call that found a document holds one that
is stored or was deleted (`RowsAreRead`).  `StoreImplementsDirectory` maps the
commit of an insert, the statement of a deletion, the last statement of a read
and the query for two fragments to the steps of the directory, a failure or an
answer without rows to `Refuse`, and the other statements to stutters.  The
document of the header may be gone when its sections are read: by `RowsAreRead`
and `RowsWereCommitted` it is then the directory's `SelectDeleted`.

`HttpProofs`, the older client (`RestSpec`, module `RestStore`).  `CallInv` is
the course of a call, with the calls that had returned true before it began.
`HalvesReported` rests on `DocumentsInv`: which
sections a document has at which point of its insert, and that a read in hand has
all sections of one insert or none.  `LateRequestsAreHarmless` rests on two
invariants that tie the tables to the answers: a state is consumed for a call
that was accepted, and for one call alone (`StatesInv`); a session is revoked for
good once a call that knew it existed has revoked it, and a lookup that began
after that is served nothing (`SessionsInv`).  `RestTypeCorrect` adds that a user
and its login come together (`UsersInv`) and that sections go with their document
(`SectionsHaveRows`).

`ReaderProofs`, about `MCDocumentReader`, for documents of any length.  The
properties compare a walk with a definition over the whole document, so the
invariants say what a walk has come to in terms of what it has read.

- A set of places of a sequence has a first, a second and a last one (`NthPlace`,
  `LastPlace`), and `Picked` gives what stands there; a place beyond the others
  adds one value at the end (`PickedAdded`).
- `TocInv`: the flags of `collectTopLevelTocTitles` say of the paragraphs read
  whether a typed table began, had a row and ended (`FlagsFollow`).  Whether a
  paragraph is listed depends on no later one (`ListedGrows`), so a step adds a
  title exactly when its paragraph is listed (`NewRow`).
- `PdfInv`, `WalkerInv`: `result` and `currentSection` are what the lines or the
  paragraphs before come to (`SectionsAre`): a heading completes the last section
  and begins one (`CutHead`), a line goes to the last one (`CutLine`).  In a DOCX
  file a paragraph is only flushed by the next, so the walker's flags describe the
  last paragraph of the document (`Latest`) and its text (`FlagsDescribeText`);
  the latter is why `hidden` and the former why `resumed` are excepted.  The flag
  of the bookmark says whether one began in the last paragraph or behind it
  (`BookmarkOf`).  That PDF
  headings are DOCX headings rests on `SameHeading`.
- `ReadInv`, of a document read twice: the sections are those of the paragraphs as
  the walker reads them (`Reads`, `Begins`), letters that `checkText` misses
  included.  `ContentsMatch` follows: a heading of the body has something to
  compare (`MatchableWord`) and a listed title was collected (`ListedIsCollected`).
  A row's clean text is a stretch of its text (`CleanIsPart`), so dots in the one
  are dots in the other, and the walker drops a row of the collection unless it
  has no page number (`RowsDropped`).  The k-th section is that of the k-th
  heading (`SectionsBegin`), which is a paragraph of the body or such a row, so no
  title occurs more often than these have it (`NoMoreThanMayStart`).

Only model-checked: the liveness properties, which are beyond the prover.

## 7. Not modelled

- The calls of OpenSSL in `Encrypt.cpp` (AES-GCM, SHA-256, random bytes): single
  calls of a library; a token that does not decrypt is an outcome of the calls
  that read it.
- Poppler and pugixml themselves, and minizip beyond the outcomes of its calls.
- `src/Models` and the JSON and forms exchanged with Google and the ML server:
  records without control.
- `ConfigParser`, cookies, the paths `verifPath` lets through and the rewriting of
  the proxy's target: string parsing without state.
- Which handler a path and a method select: it changes nothing in the session.
- Paragraphs inside paragraphs in the collection of titles, a marked table
  inside a text box (`DocWalker` has the paragraphs, and marked tables outside
  of them), entries of 2 GB and more, the reuse of a TLS stream after its
  shutdown (that it is refused is a failure of `Connect`).
- Build files and deployment.
