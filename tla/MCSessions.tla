----------------------------- MODULE MCSessions -----------------------------
(* Sessions.tla for TLC: the constants are model values, interchangeable    *)
(* where no action or property tells them apart.                            *)
EXTENDS Sessions, TLC

Symmetry == Permutations(Token) \cup Permutations(Session) \cup Permutations(Request)
=============================================================================
