CONSTANTS
  User = {u1, u2}
  Token = {t1, t2, t3}
  RowId = {i1, i2, i3}
  Request = {r1, r2}
  Env = {"abort", "mailLoss"}
  NoUser = NoUser
  NoToken = NoToken
  NoRow = NoRow
SPECIFICATION Spec
SYMMETRY Symmetry
INVARIANTS TypeOK RowsStayTheirs SerialOneTime UsedWasUsed LatestLinkWorks
PROPERTIES ImplementsLinks
