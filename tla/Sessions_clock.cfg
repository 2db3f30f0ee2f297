CONSTANTS
  User = {u}
  Admin = {}
  Session = {s1, s2}
  Token = {t1, t2}
  Request = {r1, r2}
  Ops = {"signin", "refresh", "use", "logout", "logoutAll"}
  Env = {"clock", "redisLoss"}
  NoUser = NoUser
  NoToken = NoToken
  NoSession = NoSession
SPECIFICATION Spec
SYMMETRY Symmetry
INVARIANTS LoggedOutRejected
