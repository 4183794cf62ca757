\* Two connections, of which the process may have one open, or both one after
\* the other.  No symmetry: the run checks liveness properties too.
CONSTANTS
  Conns = {c1, c2}
  MaxRequests = 3
  MaxOpen = 1
SPECIFICATION FairListenerSpec
INVARIANTS AnswersInOrder AtMostOneUnanswered
PROPERTIES ServiceGoesOn
