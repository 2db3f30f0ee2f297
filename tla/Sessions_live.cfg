CONSTANTS
  User = {adm, u}
  Admin = {adm}
  Session = {s1, s2}
  Token = {t1, t2}
  Request = {r1, r2}
  Ops = {"signin", "block", "unblock"}
  Env = {"abort"}
  NoUser = NoUser
  NoToken = NoToken
  NoSession = NoSession
SPECIFICATION FairSpec
INVARIANTS PurgeComplete
PROPERTIES BlockedIsPurged
