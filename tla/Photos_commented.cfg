CONSTANTS
  User = {u1}
  Admin = {}
  Moderator = {}
  Photo = {p1}
  Comment = {c1}
  Request = {r1}
  Env = {}
  NoUser = NoUser
  NoPhoto = NoPhoto
  NoComment = NoComment
SPECIFICATION Spec
INVARIANTS ImageBehindRow
