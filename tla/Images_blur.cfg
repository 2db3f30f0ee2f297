CONSTANTS
  Photo = {p}
  Body <- MCBody
  Unset = Unset
  LastSecond = 1
  User = {u}
  Name = {n1, n2}
  NoName = NoName
  LastVersion = 2
  Request = {r1, r2}
  Env = {}
  NoPhoto = NoPhoto
  NoBody = NoBody
  NoQr = NoQr
  NoUrl = NoUrl
  NoUser = NoUser
SPECIFICATION Spec
PROPERTIES NewLinkIsSaved
