------------------------------ MODULE MCPhotos ------------------------------
(* Photos.tla for TLC.                                                      *)
EXTENDS Photos, TLC

Symmetry == Permutations(Photo) \cup Permutations(Comment) \cup Permutations(Request)
=============================================================================
