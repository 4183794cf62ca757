---------------------------- MODULE TelegramLink ----------------------------
(***************************************************************************)
(* Database::linkTelegramIdToUser, statement by statement. A call is one   *)
(* PostgreSQL transaction at READ COMMITTED: it clears the telegram_id of  *)
(* the row that has it, sets it in the user's own row, and commits. Calls  *)
(* run at the same time on the threads AsyncExecute gives them and in the  *)
(* server processes that share the database, so the model keeps what       *)
(* PostgreSQL does between the two statements: an UPDATE takes its         *)
(* snapshot first and waits for the row lock after, it tests its WHERE     *)
(* clause again once it has the lock, and an insertion into the unique     *)
(* index of telegram_id waits for every unfinished transaction that holds  *)
(* the same key.                                                           *)
(***************************************************************************)
EXTENDS FiniteSets

CONSTANTS Users,      \* rows of auth_users, by id; no code deletes one
          Accounts,  \* Telegram account ids
          Calls,      \* calls of linkTelegramIdToUser
          Null       \* SQL NULL, and "no transaction" for a row lock

ASSUME NullAssumption == Null \notin Users \cup Accounts \cup Calls

VARIABLES telegramId, \* the committed column auth_users.telegram_id
          lock,       \* the transaction that has updated a row, if any
          draft,      \* the uncommitted telegram_id of a locked row
          linkPc,     \* what each call does next
          arg,        \* its arguments userId and telegramId
          hit,        \* rows its first UPDATE found in its snapshot
          result      \* what it returned

linkVars == <<telegramId, lock, draft, linkPc, arg, hit, result>>

Args == [user : Users, telegram : Accounts]
LinkSteps == {"begin", "clear", "set", "index", "commit", "done"}
Running == {"clear", "set", "index", "commit"}

LinkTypeOK ==
  /\ telegramId \in [Users -> Accounts \cup {Null}]
  /\ lock \in [Users -> Calls \cup {Null}]
  /\ draft \in [Users -> Accounts \cup {Null}]
  /\ linkPc \in [Calls -> LinkSteps]
  /\ arg \in [Calls -> Args]
  /\ hit \in [Calls -> SUBSET Users]
  /\ result \in [Calls -> {"none", "true", "false"}]

\* No Telegram account in two rows: the unique constraint.
Distinct(column) ==
  \A u, v \in Users : u # v /\ column[u] # Null => column[u] # column[v]

LinkInit ==
  /\ telegramId \in [Users -> Accounts \cup {Null}]
  /\ Distinct(telegramId)
  /\ lock = [u \in Users |-> Null]
  /\ draft = [u \in Users |-> Null]
  /\ linkPc = [x \in Calls |-> "begin"]
  /\ arg \in [Calls -> Args]
  /\ hit = [x \in Calls |-> {}]
  /\ result = [x \in Calls |-> "none"]

-----------------------------------------------------------------------------
LinkGoto(x, step) == linkPc' = [linkPc EXCEPT ![x] = step]

\* The telegram_id transaction x itself sees in row u.
Current(x, u) == IF lock[u] = x THEN draft[u] ELSE telegramId[u]

\* A transaction ends: the rows it locked are free again.
ReleaseLocks(x) ==
  /\ lock' = [u \in Users |-> IF lock[u] = x THEN Null ELSE lock[u]]
  /\ draft' = [u \in Users |-> IF lock[u] = x THEN Null ELSE draft[u]]

\* Mutant of Rollback: the transaction is left open on a kept connection.
LeaveOpen(x) ==
  /\ LinkGoto(x, "done")
  /\ result' = [result EXCEPT ![x] = "false"]
  /\ UNCHANGED <<telegramId, lock, draft, arg, hit>>

\* The catch blocks: the transaction object is destroyed without a commit.
Rollback(x) ==
  /\ ReleaseLocks(x)
  /\ LinkGoto(x, "done")
  /\ result' = [result EXCEPT ![x] = "false"]
  /\ UNCHANGED <<telegramId, arg, hit>>

-----------------------------------------------------------------------------
\* The call opens its transaction and its first UPDATE takes a snapshot.
Begin(x) ==
  /\ linkPc[x] = "begin"
  /\ hit' = [hit EXCEPT ![x] = {u \in Users : telegramId[u] = arg[x].telegram}]
  /\ LinkGoto(x, "clear")
  /\ UNCHANGED <<telegramId, lock, draft, arg, result>>

\* Mutant of ClearRow: the first UPDATE is a transaction of its own.
ClearRowAndCommit(x) ==
  /\ linkPc[x] = "clear"
  /\ \E u \in hit[x] :
       /\ lock[u] = Null
       /\ telegramId[u] = arg[x].telegram
       /\ telegramId' = [telegramId EXCEPT ![u] = Null]
  /\ LinkGoto(x, "set")
  /\ UNCHANGED <<lock, draft, arg, hit, result>>

\* The first UPDATE reaches a row of its snapshot and, once it has the row
\* lock, tests WHERE telegram_id = $1 against the newest committed version.
ClearRow(x) ==
  /\ linkPc[x] = "clear"
  /\ \E u \in hit[x] :
       /\ lock[u] = Null
       /\ telegramId[u] = arg[x].telegram
       /\ lock' = [lock EXCEPT ![u] = x]
       /\ draft' = [draft EXCEPT ![u] = Null]
  /\ LinkGoto(x, "set")
  /\ UNCHANGED <<telegramId, arg, hit, result>>

\* It found no row, or the one it found no longer has the account.
ClearNothing(x) ==
  /\ linkPc[x] = "clear"
  /\ \A u \in hit[x] : lock[u] = Null /\ telegramId[u] # arg[x].telegram
  /\ LinkGoto(x, "set")
  /\ UNCHANGED <<telegramId, lock, draft, arg, hit, result>>

\* The second UPDATE gets the user's row.  Only a changed key goes through
\* the unique index.
SetRow(x) ==
  LET u == arg[x].user
      t == arg[x].telegram
  IN /\ linkPc[x] = "set"
     /\ lock[u] \in {Null, x}
     /\ lock' = [lock EXCEPT ![u] = x]
     /\ draft' = [draft EXCEPT ![u] = t]
     /\ LinkGoto(x, IF Current(x, u) = t THEN "commit" ELSE "index")
     /\ UNCHANGED <<telegramId, arg, hit, result>>

\* Mutant of Conflict: uniqueness is looked up in the committed rows alone,
\* as a SELECT before the UPDATE would do.
CommittedConflict(x, u) ==
  /\ u # arg[x].user
  /\ lock[u] # x
  /\ telegramId[u] = arg[x].telegram

\* The key x inserts is in the index for another row: that of its committed
\* version, or that of the version an unfinished call has put in the index.
Conflict(x, u) ==
  /\ u # arg[x].user
  /\ lock[u] # x
  /\ \/ telegramId[u] = arg[x].telegram
     \/ \E y \in Calls : /\ lock[u] = y
                        /\ linkPc[y] = "commit"
                        /\ draft[u] = arg[x].telegram

CheckIndex(x) ==
  /\ linkPc[x] = "index"
  /\ \A u \in Users : ~Conflict(x, u)
  /\ LinkGoto(x, "commit")
  /\ UNCHANGED <<telegramId, lock, draft, arg, hit, result>>

\* The conflicting row is committed and nobody is changing it: the error
\* of the unique constraint.
UniqueViolation(x) ==
  /\ linkPc[x] = "index"
  /\ \E u \in Users : Conflict(x, u) /\ lock[u] = Null
  /\ Rollback(x)

\* txn.commit() takes effect; its row count was one.
Commit(x) ==
  /\ linkPc[x] = "commit"
  /\ telegramId' = [u \in Users |-> Current(x, u)]
  /\ ReleaseLocks(x)
  /\ LinkGoto(x, "done")
  /\ \E answer \in {"true", "false"} : \* "false": the answer to COMMIT is lost
       result' = [result EXCEPT ![x] = answer]
  /\ UNCHANGED <<arg, hit>>

-----------------------------------------------------------------------------
\* y is a transaction x waits for.
Waits(x, y) ==
  /\ x # y
  /\ \/ linkPc[x] = "clear" /\ \E u \in hit[x] : lock[u] = y
     \/ linkPc[x] = "set" /\ lock[arg[x].user] = y
     \/ linkPc[x] = "index" /\ \E u \in Users : Conflict(x, u) /\ lock[u] = y

\* Every transaction of the ring waits for one of them and is waited for.
Ring(ring) ==
  /\ \A x \in ring : \E y \in ring : Waits(x, y)
  /\ \A y \in ring : \E x \in ring : Waits(x, y)

\* PostgreSQL's deadlock detector aborts a transaction of the ring.
DeadlockVictim(x) ==
  /\ \E ring \in SUBSET Calls : x \in ring /\ Ring(ring)
  /\ Rollback(x)

\* The connection breaks before the commit takes effect.
ConnectionLost(x) ==
  /\ linkPc[x] \in Running \cup {"begin"}
  /\ Rollback(x)

Step(x) == \/ Begin(x)
           \/ ClearRow(x)
           \/ ClearNothing(x)
           \/ SetRow(x)
           \/ CheckIndex(x)
           \/ UniqueViolation(x)
           \/ Commit(x)

LinkNext == \E x \in Calls : Step(x) \/ DeadlockVictim(x) \/ ConnectionLost(x)

\* A statement that can run is run, and the deadlock detector runs.
LinkFairness == \A x \in Calls : WF_linkVars(Step(x)) /\ WF_linkVars(DeadlockVictim(x))

LinkSpec == LinkInit /\ [][LinkNext]_linkVars /\ LinkFairness

-----------------------------------------------------------------------------
\* No Telegram account is ever committed in the rows of two users, however
\* the statements of concurrent calls of linkTelegramIdToUser interleave.
UniqueTelegram == Distinct(telegramId)

\* A call that has passed the unique index commits alone: the account it
\* links is in no row but its own and those it has locked, and no other
\* call is about to commit the same account.
CommitIsExclusive ==
  \A x \in Calls : linkPc[x] = "commit" =>
    /\ \A u \in Users : telegramId[u] = arg[x].telegram
                          => u = arg[x].user \/ lock[u] = x
    /\ \A y \in Calls : y # x /\ linkPc[y] = "commit"
                          => arg[y].telegram # arg[x].telegram

\* Why that is so.  A row is locked by a call that cleared its account there
\* or wrote it there, and a call past its second UPDATE holds its own row.
LocksAreJustified ==
  /\ \A u \in Users, x \in Calls : lock[u] = x =>
       \/ /\ linkPc[x] \in {"set", "index", "commit"}
          /\ draft[u] = Null
          /\ telegramId[u] = arg[x].telegram
       \/ /\ linkPc[x] \in {"index", "commit"}
          /\ u = arg[x].user
          /\ draft[u] = arg[x].telegram
  /\ \A x \in Calls : linkPc[x] \in {"index", "commit"} =>
       /\ lock[arg[x].user] = x
       /\ draft[arg[x].user] = arg[x].telegram

LinkInv == /\ LinkTypeOK
           /\ UniqueTelegram
           /\ CommitIsExclusive
           /\ LocksAreJustified

\* The user a column telegram_id gives for every Telegram account.
OwnerIn(column) ==
  [t \in Accounts |-> IF \E u \in Users : column[u] = t
                      THEN CHOOSE u \in Users : column[u] = t
                      ELSE Null]

Owner == OwnerIn(telegramId)

Relinking == INSTANCE TelegramDirectory WITH owner <- Owner, Telegrams <- Accounts, None <- Null

\* Concurrent calls re-link accounts one at a time: a reader such as
\* selectAuthUserByTelegramId never sees an account between the two UPDATEs
\* of a call, and no call undoes part of another.
RelinkIsAtomic == Relinking!Spec

\* Calls that wait for each other's rows or keys do not wait for ever: every
\* call of linkTelegramIdToUser returns.
EveryCallReturns == \A x \in Calls : linkPc[x] = "begin" ~> linkPc[x] = "done"
=============================================================================
