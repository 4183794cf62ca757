\* Two calls and two logins over one row.  The clock runs past the life of a
\* token, so that calls refresh it while others still return it.  No symmetry:
\* the run checks a liveness property too.
CONSTANTS
  Proxies = {p1, p2}
  Logins = {l1, l2}
  Lifetime = 2
  Margin = 1
  RefreshTime = 1
  LoginTime = 1
  MaxTime = 3
  None = None
SPECIFICATION Spec
PROPERTIES CachedTokenLives RefreshIsKept ProxiesAreAnswered
\* Every request ends and the model makes no other.
CHECK_DEADLOCK FALSE
