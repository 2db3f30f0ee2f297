---------------------------- MODULE MCPhotoTags ----------------------------
(* PhotoTags.tla for TLC: three names, one of them spelt in two ways, and a *)
(* blank string.                                                            *)
EXTENDS PhotoTags, TLC

MCForm == [x \in Raw |-> IF x = " " THEN NoName ELSE IF x = "A" THEN "a" ELSE x]

Symmetry == Permutations(Photo) \cup Permutations(Request)
=============================================================================
