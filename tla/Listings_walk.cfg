CONSTANTS
  Id = {1, 2, 3}
  Time = {1, 2}
  t1 = t1
  t2 = t2
  Tag = {t1, t2}
  NoTag = NoTag
  Rater = {w1, w2}
  NoRater = NoRater
  Star = {1, 2}
  Fresh = Fresh
  Removed = Removed
  Queries <- MCQueries
  PerPage = {2}
  MaxWeight = 4
  MaxSearched = 2
  MaxDisturbed = 2
SPECIFICATION Spec
SYMMETRY Symmetry
INVARIANTS TypeOK SearchIsExact MissedArePaidFor RepeatsArePaidFor
