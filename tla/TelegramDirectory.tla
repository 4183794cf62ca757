-------------------------- MODULE TelegramDirectory --------------------------
(***************************************************************************)
(* What linkTelegramIdToUser promises its callers: a directory that knows, *)
(* for every Telegram account, the one user it belongs to, and an          *)
(* operation that gives an account to a user in a single step.  The user   *)
(* gives up the account it had, the account leaves the user that had it,   *)
(* and nobody ever sees a moment in between.                               *)
(***************************************************************************)
CONSTANTS Users, Telegrams, None

VARIABLE owner

\* A directory gives no user two accounts.
Directories ==
  {f \in [Telegrams -> Users \cup {None}] :
     \A s, t \in Telegrams : s # t /\ f[s] # None => f[s] # f[t]}

Init == owner \in Directories

Relink(t, u) ==
  owner' = [s \in Telegrams |-> IF s = t THEN u
                                ELSE IF owner[s] = u THEN None ELSE owner[s]]

Next == \E t \in Telegrams, u \in Users : Relink(t, u)

Spec == Init /\ [][Next]_owner
=============================================================================
