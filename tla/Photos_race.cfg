CONSTANTS
  User = {u1, u2}
  Admin = {u2}
  Moderator = {}
  Photo = {p1, p2}
  Comment = {c1}
  Request = {r1, r2}
  Env = {"abort", "cloudFails"}
  NoUser = NoUser
  NoPhoto = NoPhoto
  NoComment = NoComment
SPECIFICATION Spec
SYMMETRY Symmetry
INVARIANTS TypeOK ChildrenHavePhoto ImageLossExplained
PROPERTIES DeletedForGood ImplementsGallery
