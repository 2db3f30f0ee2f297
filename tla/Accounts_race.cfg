CONSTANTS
  Id = {i1, i2}
  Email = {e1, e2}
  Name = {n1, n2}
  Request = {r1, r2, r3}
  Env = {"abort", "mailLoss"}
  NoId = NoId
  NoEmail = NoEmail
  NoName = NoName
SPECIFICATION Spec
SYMMETRY Symmetry
INVARIANTS TypeOK SomeAdmin ManagerStillAdmin
PROPERTIES AdminsUntouchable
