\* Two accounts on each side and two requests of each kind: two logins of one
\* account at once, or of different ones.  No symmetry: the run checks a liveness
\* property too.
CONSTANTS
  Subs = {g1, g2}
  Telegrams = {t1, t2}
  Starts = {s1, s2}
  Callbacks = {c1, c2}
  Ttl = 1
  MaxTime = 1
  None = None
SPECIFICATION Spec
INVARIANTS StateUsedOnce LinksAreAuthorised TokensAreAuthorised AccountsAreWhole
PROPERTIES RefreshIsKept CallbacksAreAnswered
\* Every request ends and the model makes no other.
CHECK_DEADLOCK FALSE
