---------------------------- MODULE Credentials ----------------------------
(***************************************************************************)
(* What the session machinery promises, without tables, Redis or request   *)
(* interleavings: a token pair is granted to one account, is alive until   *)
(* it is exchanged or revoked, and is never alive again afterwards.        *)
(* Sessions.tla is shown to implement this module.                         *)
(***************************************************************************)
CONSTANTS User,      \* accounts
          Token,     \* token pairs (access token + refresh token)
          NoUser     \* holder of a pair that was never issued

VARIABLES holder,    \* holder[t]: the account a pair was issued to
          alive      \* the pairs some stored session accepts

vars == <<holder, alive>>

Init == /\ holder = [t \in Token |-> NoUser]
        /\ alive = {}

Unissued == {t \in Token : holder[t] = NoUser}

\* A sign-in issues a fresh pair.
Grant(t, u) == /\ t \in Unissued
               /\ holder' = [holder EXCEPT ![t] = u]
               /\ alive' = alive \cup {t}

\* A refresh trades an alive pair for a fresh one of the same account.
Exchange(old, new) == /\ old \in alive
                      /\ new \in Unissued
                      /\ holder' = [holder EXCEPT ![new] = holder[old]]
                      /\ alive' = (alive \ {old}) \cup {new}

\* A logout revokes one pair.
Revoke(t) == /\ t \in alive
             /\ alive' = alive \ {t}
             /\ UNCHANGED holder

\* A logout everywhere, or a block, revokes every pair of one account.
RevokeAll(u) == /\ alive' = {t \in alive : holder[t] # u}
                /\ UNCHANGED holder

Next == \/ \E t \in Token, u \in User : Grant(t, u)
        \/ \E old, new \in Token : Exchange(old, new)
        \/ \E t \in Token : Revoke(t)
        \/ \E u \in User : RevokeAll(u)

Spec == Init /\ [][Next]_vars
=============================================================================
