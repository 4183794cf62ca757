\* Three calls over two users and two accounts: a chain of waiting transactions,
\* and two that swap the accounts of the users.  No symmetry: the run checks a
\* liveness property too.
CONSTANTS
  Users = {u1, u2}
  Accounts = {t1, t2}
  Calls = {c1, c2, c3}
  Null = Null
SPECIFICATION LinkSpec
INVARIANTS UniqueTelegram
PROPERTIES RelinkIsAtomic EveryCallReturns
\* Every call ends and the model makes no other.
CHECK_DEADLOCK FALSE
