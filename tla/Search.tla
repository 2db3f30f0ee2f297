------------------------------- MODULE Search -------------------------------
(***************************************************************************)
(* The statement behind GET /photos: photos joined with their ratings and  *)
(* their tags, filtered, grouped again by photo, filtered by the average   *)
(* of the group, and ordered.  A table is a function from primary keys to  *)
(* rows, Fresh (a key not given out yet) or Removed.                       *)
(*                                                                         *)
(* The filters on other columns of the photo and of its author (text, user *)
(* name) select rows as the one on the date does and are left out.         *)
(***************************************************************************)
EXTENDS Integers, FiniteSetsExt

CONSTANTS Id,              \* primary keys, never reused
          Time,            \* the values of created_at
          Tag, NoTag,      \* tags, and the tag columns of a photo without one
          Rater, NoRater,  \* who may rate, and the columns without a rating
          Star,            \* the ratings
          Fresh, Removed

ASSUME SearchAssumption ==
  /\ Id \subseteq Nat /\ Time \subseteq Nat /\ Star \subseteq Nat \ {0}
  /\ IsFiniteSet(Id) /\ IsFiniteSet(Tag) /\ IsFiniteSet(Rater)
  /\ NoTag \notin Tag /\ NoRater \notin Rater

\* A photo; `stars` is 0 for those who did not rate it.  The rows of the other
\* tables that are listed have no tags and no stars.
Row == [created : Time, tags : SUBSET Tag, stars : [Rater -> Star \cup {0}]]

ASSUME MarksAssumption == Fresh \notin Row /\ Removed \notin Row /\ Fresh # Removed

Tables == [Id -> Row \cup {Fresh, Removed}]

Rows(tb) == {i \in Id : tb[i] \notin {Fresh, Removed}}
Raters(row) == {w \in Rater : row.stars[w] # 0}

-----------------------------------------------------------------------------
(* What a client asks for                                                  *)

\* `of` is the endpoint; the rest is for the search: the field and direction of
\* the order, the tags whose name contains the text after `#` (all of them, and
\* NoTag, when the search is not for tags), and the ranges of date and rating.
Query == [of : {"photos", "search", "users", "comments", "ratings"},
          by : {"date", "rating"}, asc : BOOLEAN,
          tags : (SUBSET Tag) \cup {Tag \cup {NoTag}},
          from : Nat, to : Nat, min : Nat, max : Nat]

\* 400 when a range is upside down.
Sound(q) == q.min <= q.max /\ q.from <= q.to

-----------------------------------------------------------------------------
(* FROM, JOIN and WHERE                                                    *)

\* Variant of Outer for an inner join.
Inner(S, none) == S

\* An outer join keeps a row that has no partner.
Outer(S, none) == IF S = {} THEN {none} ELSE S

\* The joined and selected rows that are grouped for a photo.
Group(row, q) ==
  IF row.created \in q.from..q.to
    THEN Outer(Raters(row), NoRater) \X (Outer(row.tags, NoTag) \cap q.tags)
    ELSE {}

-----------------------------------------------------------------------------
(* GROUP BY and HAVING                                                     *)

\* Fractions, as <<numerator, denominator>>.
Less(a, b) == a[1] * b[2] < b[1] * a[2]
Equal(a, b) == a[1] * b[2] = b[1] * a[2]

\* coalesce(avg(rating), 0) over the joined rows of a photo.
Average(row, q) ==
  LET rated == {j \in Group(row, q) : j[1] # NoRater}
  IN IF rated = {} THEN <<0, 1>>
     ELSE <<MapThenSumSet(LAMBDA j : row.stars[j[1]], rated), Cardinality(rated)>>

Within(avg, q) == ~ Less(avg, <<q.min, 1>>) /\ ~ Less(<<q.max, 1>>, avg)

Matches(tb, q) ==
  {i \in Rows(tb) : Group(tb[i], q) # {} /\ Within(Average(tb[i], q), q)}

\* count_filtered_photos_by_keyword_or_tag(): the rows of the grouped statement.
Counted(tb, q) == Cardinality(Matches(tb, q))

-----------------------------------------------------------------------------
(* ORDER BY                                                                *)

Newer(row, other) == row.created > other.created

\* By average, then by date; or by date twice.
Higher(row, other, q) ==
  IF q.by = "date" THEN Newer(row, other)
  ELSE LET avg == Average(row, q)
           otherAvg == Average(other, q)
       IN \/ Less(otherAvg, avg)
          \/ Equal(otherAvg, avg) /\ Newer(row, other)

FoundOrder(row, other, q) == IF q.asc THEN Higher(other, row, q) ELSE Higher(row, other, q)

-----------------------------------------------------------------------------
(* What it should find                                                     *)

\* The average of a photo's own ratings, as get_photo_average_rating() has it.
PlainAverage(row) ==
  IF Raters(row) = {} THEN <<0, 1>>
  ELSE <<MapThenSumSet(LAMBDA w : row.stars[w], Raters(row)), Cardinality(Raters(row))>>

Wanted(tb, q) ==
  {i \in Rows(tb) :
     /\ q.tags = Tag \cup {NoTag} \/ q.tags \cap tb[i].tags # {}
     /\ tb[i].created \in q.from..q.to
     /\ Within(PlainAverage(tb[i]), q)}
=============================================================================
