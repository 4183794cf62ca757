\* Two requests for one session or one account of two users: one in the middle of
\* its awaits while the other logs out, or one that comes in after it.  No
\* symmetry: the run checks a liveness property too.
CONSTANTS
  Users = {u1, u2}
  Sessions = {s1}
  Telegrams = {t1}
  Requests = {q1, q2}
  MaxTime = 1
  None = None
SPECIFICATION Spec
INVARIANTS LogoutIsFinal ActsForItsUser
PROPERTIES RevokedStaysRevoked RequestsAreAnswered
\* Every request ends and the model makes no other.
CHECK_DEADLOCK FALSE
