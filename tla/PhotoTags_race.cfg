CONSTANTS
  Raw = {"a", "A", "b", "c", " "}
  Name = {"a", "b", "c"}
  NoName = NoName
  Form <- MCForm
  MaxTags = 2
  Photo = {p1}
  NoPhoto = NoPhoto
  Request = {r1, r2}
  Env = {"abort", "cloudFails"}
SPECIFICATION Spec
SYMMETRY Symmetry
INVARIANTS TypeOK LinksResolve NamesHeldOnce NobodyStalls LimitHolds
PROPERTIES NewTagsAreUsed LoneReplacementIsExact
