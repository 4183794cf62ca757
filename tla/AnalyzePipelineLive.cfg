\* Two requests for one file, which a request may list twice; no symmetry.
CONSTANTS
  Requests = {r1, r2}
  Files = {f1}
  MaxFiles = 2
  CpuThreads = 1
  None = None
SPECIFICATION Spec
PROPERTIES WorkEnds
\* Every request ends and the model makes no other.
CHECK_DEADLOCK FALSE
