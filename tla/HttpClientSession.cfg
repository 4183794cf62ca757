\* Two operations of one session among three hosts.  No symmetry: the run
\* checks a liveness property too.
CONSTANTS
  Hosts = {h1, h2, h3}
  MaxRedirect = 3
  MaxOperations = 2
  None = None
SPECIFICATION FairSpec
INVARIANTS RequestsReachTheirHost RedirectLimit
PROPERTIES OperationsEnd
