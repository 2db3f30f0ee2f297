-------------------------- MODULE MCPasswordReset --------------------------
(* PasswordReset.tla for TLC.                                               *)
EXTENDS PasswordReset, TLC

Symmetry == Permutations(User) \cup Permutations(Token) \cup Permutations(RowId)
              \cup Permutations(Request)
=============================================================================
