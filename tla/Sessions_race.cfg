CONSTANTS
  User = {adm, u}
  Admin = {adm}
  Session = {s1, s2}
  Token = {t1, t2, t3}
  Request = {r1, r2}
  Ops = {"signin", "refresh", "use", "logout", "logoutAll", "block", "unblock"}
  Env = {}
  NoUser = NoUser
  NoToken = NoToken
  NoSession = NoSession
SPECIFICATION Spec
SYMMETRY Symmetry
INVARIANTS TypeOK TableConsistent CallerOwnsRow OnlyLiveCredentialsAct
PROPERTIES SpentStaysSpent ImplementsCredentials SerialLogout SerialRotation
