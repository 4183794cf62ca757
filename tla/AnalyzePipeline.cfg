\* Two requests for up to two of two files: a mixed request, a request for one
\* file twice, two savers of the same file.
CONSTANTS
  Requests = {r1, r2}
  Files = {f1, f2}
  MaxFiles = 2
  CpuThreads = 1
  None = None
SPECIFICATION Spec
SYMMETRY Symmetry
INVARIANTS PayloadIsComplete TextsAreAuthentic StoredFromWholeRequests BlankNeedsMixedRequest
\* Every request ends and the model makes no other.
CHECK_DEADLOCK FALSE
