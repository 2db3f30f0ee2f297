----------------------------- MODULE MCListings -----------------------------
(* Listings.tla for TLC: two tags, one of them searched for, and searches   *)
(* by date and by rating.                                                   *)
EXTENDS Listings, TLC

CONSTANTS t1, t2

All == [of |-> "search", by |-> "date", asc |-> FALSE, tags |-> Tag \cup {NoTag},
        from |-> 1, to |-> 2, min |-> 0, max |-> 5]

MCQueries == {[All EXCEPT !.of = "photos"], [All EXCEPT !.of = "users"],
              [All EXCEPT !.of = "comments"], [All EXCEPT !.of = "ratings"],
              [All EXCEPT !.tags = {t1}, !.asc = TRUE],
              [All EXCEPT !.by = "rating"],
              [All EXCEPT !.from = 2, !.min = 2]}

Symmetry == Permutations(Rater)
=============================================================================
