----------------------------- MODULE MCAccounts -----------------------------
(* Accounts.tla for TLC.                                                    *)
EXTENDS Accounts, TLC

Symmetry == Permutations(Id) \cup Permutations(Email) \cup Permutations(Name)
              \cup Permutations(Request)
=============================================================================
