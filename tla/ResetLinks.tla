----------------------------- MODULE ResetLinks -----------------------------
(***************************************************************************)
(* What password reset by e-mail promises, without rows, hashes or the     *)
(* round trips of its handlers.  A link is good until it is used, runs out *)
(* or is replaced, and never again after that; an account has one good     *)
(* link at most; only a link that was good when it was presented changes a *)
(* password; and when that is answered, the link is dead.                  *)
(* PasswordReset.tla is shown to implement this module.                    *)
(***************************************************************************)
CONSTANTS User,      \* accounts
          Token,     \* links
          NoUser     \* owner of a link that was never issued

VARIABLES link,      \* link[t]: whether it would be accepted
          owner,     \* owner[t]: the account it is for
          pending,   \* links that were accepted and will change a password
          spent,     \* links that have changed a password
          closed     \* links whose confirmation has been answered

vars == <<link, owner, pending, spent, closed>>

Init == /\ link = [t \in Token |-> "none"]
        /\ owner = [t \in Token |-> NoUser]
        /\ pending = {}
        /\ spent = {}
        /\ closed = {}

Good == {t \in Token : link[t] = "good"}
LinksOf(u) == {t \in Token : owner[t] = u}

\* The links once those in S, as far as they are good, have died.
Without(S) == [t \in Token |-> IF t \in S \cap Good THEN "dead" ELSE link[t]]

\* A new link replaces the one the account had.  It may be dead at birth: a
\* confirmation that is still under way can mark the row that it is put into.
Issue(t, u) == /\ link[t] = "none"
               /\ \E fate \in {"good", "dead"} :
                    link' = [Without(LinksOf(u)) EXCEPT ![t] = fate]
               /\ owner' = [owner EXCEPT ![t] = u]
               /\ UNCHANGED <<pending, spent, closed>>

\* A good link is presented to confirm a new password.
Accept(t) == /\ t \in Good
             /\ pending' = pending \cup {t}
             /\ UNCHANGED <<link, owner, spent, closed>>

\* It changes the password; others that presented it may still do so.
Change(t) == /\ t \in pending
             /\ pending' \in {pending, pending \ {t}}
             /\ spent' = spent \cup {t}
             /\ UNCHANGED <<link, owner, closed>>

\* It fails before that.
GiveUp(t) == /\ t \in pending
             /\ pending' = pending \ {t}
             /\ UNCHANGED <<link, owner, spent, closed>>

\* The answer, after which the link is dead.  A link that has replaced it in
\* the meantime may die with it, but none of another account.
Close(t) == /\ t \in spent
            /\ \E S \in SUBSET LinksOf(owner[t]) : link' = Without(S \cup {t})
            /\ closed' = closed \cup {t}
            /\ UNCHANGED <<owner, pending, spent>>

\* A link runs out.
Die(t) == /\ t \in Good
          /\ link' = Without({t})
          /\ UNCHANGED <<owner, pending, spent, closed>>

Next == \/ \E t \in Token, u \in User : Issue(t, u)
        \/ \E t \in Token : Accept(t) \/ Change(t) \/ GiveUp(t) \/ Close(t) \/ Die(t)

Spec == Init /\ [][Next]_vars

\* However requests for links race, an account has one good link at most.
OneLink == \A t, x \in Good : owner[t] = owner[x] => t = x
=============================================================================
