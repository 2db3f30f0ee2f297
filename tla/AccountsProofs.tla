--------------------------- MODULE AccountsProofs ---------------------------
(***************************************************************************)
(* Theorems about Accounts.tla for every set of rows, addresses, names and *)
(* requests, whatever Env lets happen.                                     *)
(***************************************************************************)
EXTENDS Accounts, TLAPS

-----------------------------------------------------------------------------
(* The inductive invariant                                                 *)

\* What a handler learnt about the table is still so when it acts on it.
HandlerMemory(r) ==
  /\ req[r].pc \in {"name", "any", "insert", "mail"} => req[r].email \in Email
  /\ At(r, "insert") /\ ~ req[r].first => Stored # {}
  /\ At(r, "confirm") => req[r].id \in Stored
  /\ At(r, "update") => req[r].id \in Stored \ Admins /\ req[r].wish # "admin"

HandlersOK == \A r \in Request : HandlerMemory(r)

IInv == TypeOK /\ SomeAdmin /\ ManagerStillAdmin /\ HandlersOK

\* What no step does to the accounts that are stored.
Steady ==
  \A i \in Stored :
    /\ users'[i].stored
    /\ users'[i].role = "admin" <=> users[i].role = "admin"
    /\ users[i].role = "admin" => users'[i].blocked = users[i].blocked

-----------------------------------------------------------------------------
(* The ways in which a handler's record changes                            *)

LEMMA IdleType == Idle \in Handler /\ Idle.pc = "idle"
BY DEF Idle, Handler, Wishes, Roles

LEMMA GotoType ==
  ASSUME TypeOK, NEW r \in Request, Goto(r, "mail") \/ Goto(r, "any") \/ Goto(r, "update")
  PROVE  req' \in [Request -> Handler]
BY DEF TypeOK, Goto, Handler

LEMMA FinishType ==
  ASSUME TypeOK, NEW r \in Request, Finish(r)
  PROVE  req' \in [Request -> Handler]
BY IdleType DEF TypeOK, Finish

LEMMA StartType ==
  ASSUME TypeOK, NEW r \in Request, NEW h \in Handler, Start(r, h)
  PROVE  req' \in [Request -> Handler]
BY DEF TypeOK, Start

\* A request in flight is touched by its own steps only.
OthersWait(r) == \A x \in Request \ {r} : req'[x] = req[x]

LEMMA Touches ==
  ASSUME TypeOK, NEW r \in Request, Arrive(r) \/ Step(r) \/ Abort(r)
  PROVE  OthersWait(r)
BY DEF TypeOK, OthersWait, Arrive, Refuse, Resend, ConfirmLookup, SignUpEmail, Manage,
       Start, Step, SignUpName, SignUpAny, SignUpInsert, Mail, ConfirmCommit,
       ManageTarget, ManageUpdate, Abort, Check, Goto, Finish, vars

-----------------------------------------------------------------------------
(* Types                                                                   *)

LEMMA ArriveType ==
  ASSUME TypeOK, NEW r \in Request, Arrive(r)
  PROVE  TypeOK'
<1>1. CASE Refuse(r) BY <1>1 DEF Refuse, vars, TypeOK
<1>2. ASSUME NEW e \in Email, Resend(r, e) PROVE TypeOK'
  <2>1. [Idle EXCEPT !.pc = "mail", !.email = e] \in Handler
    BY DEF Idle, Handler, Wishes, Roles
  <2>2. req' \in [Request -> Handler] BY <1>2, <2>1, StartType DEF Resend
  <2>3. QED BY <1>2, <2>2 DEF Resend, Reads, TypeOK
<1>3. ASSUME NEW e \in Email, ConfirmLookup(r, e) PROVE TypeOK'
  <2>1. PICK i \in Id : Start(r, [Idle EXCEPT !.pc = "confirm", !.id = i])
    BY <1>3 DEF ConfirmLookup, WithEmail, Stored
  <2>2. [Idle EXCEPT !.pc = "confirm", !.id = i] \in Handler
    BY DEF Idle, Handler, Wishes, Roles
  <2>3. req' \in [Request -> Handler] BY <2>1, <2>2, StartType
  <2>4. QED BY <1>3, <2>3 DEF ConfirmLookup, Reads, TypeOK
<1>4. ASSUME NEW e \in Email, NEW n \in Name, SignUpEmail(r, e, n) PROVE TypeOK'
  <2>1. [Idle EXCEPT !.pc = "name", !.email = e, !.name = n] \in Handler
    BY DEF Idle, Handler, Wishes, Roles
  <2>2. req' \in [Request -> Handler] BY <1>4, <2>1, StartType DEF SignUpEmail
  <2>3. QED BY <1>4, <2>2 DEF SignUpEmail, Reads, TypeOK
<1>5. ASSUME NEW c \in Id, NEW i \in Id, NEW w \in Wishes, Manage(r, c, i, w)
      PROVE  TypeOK'
  <2>1. [Idle EXCEPT !.pc = "target", !.caller = c, !.id = i, !.wish = w] \in Handler
    BY DEF Idle, Handler
  <2>2. req' \in [Request -> Handler] BY <1>5, <2>1, StartType DEF Manage
  <2>3. QED BY <1>5, <2>2 DEF Manage, Reads, TypeOK
<1>6. QED BY <1>1, <1>2, <1>3, <1>4, <1>5 DEF Arrive

LEMMA StepType ==
  ASSUME TypeOK, HandlersOK, NEW r \in Request, Step(r)
  PROVE  TypeOK'
<1>1. CASE SignUpName(r)
  <2>1. req' \in [Request -> Handler] BY <1>1, GotoType, FinishType DEF SignUpName, Check
  <2>2. QED BY <1>1, <2>1 DEF SignUpName, Reads, TypeOK
<1>2. CASE SignUpAny(r)
  <2>1. [req[r] EXCEPT !.pc = "insert", !.first = (Stored = {})] \in Handler
    BY DEF TypeOK, Handler
  <2>2. req' \in [Request -> Handler] BY <1>2, <2>1 DEF SignUpAny, TypeOK
  <2>3. QED BY <1>2, <2>2 DEF SignUpAny, Reads, TypeOK
<1>3. CASE SignUpInsert(r)
  <2>1. req' \in [Request -> Handler] BY <1>3, GotoType, FinishType DEF SignUpInsert
  <2>2. [stored |-> TRUE, email |-> req[r].email, name |-> req[r].name,
         role |-> IF req[r].first THEN "admin" ELSE "user",
         confirmed |-> FALSE, blocked |-> FALSE] \in Account
    BY DEF TypeOK, Account, Handler, Roles
  <2>3. users' \in [Id -> Account] BY <1>3, <2>2 DEF SignUpInsert, TypeOK
  <2>4. QED BY <1>3, <2>1, <2>3 DEF SignUpInsert, TypeOK
<1>4. CASE Mail(r)
  <2>1. req' \in [Request -> Handler] BY <1>4, FinishType DEF Mail
  <2>2. req[r].email \in Email BY <1>4 DEF HandlersOK, HandlerMemory, Mail, At
  <2>3. QED BY <1>4, <2>1, <2>2 DEF Mail, TypeOK
<1>5. CASE ConfirmCommit(r)
  <2>1. req' \in [Request -> Handler] BY <1>5, FinishType DEF ConfirmCommit
  <2>2. users' \in [Id -> Account] BY <1>5 DEF ConfirmCommit, TypeOK, Account
  <2>3. QED BY <1>5, <2>1, <2>2 DEF ConfirmCommit, TypeOK
<1>6. CASE ManageTarget(r)
  <2>1. req' \in [Request -> Handler] BY <1>6, GotoType, FinishType DEF ManageTarget, Check
  <2>2. QED BY <1>6, <2>1 DEF ManageTarget, Reads, TypeOK
<1>7. CASE ManageUpdate(r)
  <2>1. req' \in [Request -> Handler] BY <1>7, FinishType DEF ManageUpdate
  <2>2. ASSUME NEW a \in Account
        PROVE  (IF req[r].wish \in Roles THEN [a EXCEPT !.role = req[r].wish]
                  ELSE [a EXCEPT !.blocked = (req[r].wish = "block")]) \in Account
    BY DEF Account
  <2>3. users' \in [Id -> Account] BY <1>7, <2>2 DEF ManageUpdate, TypeOK
  <2>4. QED BY <1>7, <2>1, <2>3 DEF ManageUpdate, TypeOK
<1>8. QED BY <1>1, <1>2, <1>3, <1>4, <1>5, <1>6, <1>7 DEF Step

LEMMA TypeStep ==
  ASSUME TypeOK, HandlersOK, [Next]_vars
  PROVE  TypeOK'
<1>1. ASSUME NEW r \in Request, Abort(r) PROVE TypeOK'
  BY <1>1, FinishType DEF Abort, Reads, TypeOK
<1>2. ASSUME NEW e \in Email, LinkExpires(e) PROVE TypeOK'
  BY <1>2 DEF LinkExpires, TypeOK
<1>3. CASE UNCHANGED vars BY <1>3 DEF vars, TypeOK
<1>4. QED BY <1>1, <1>2, <1>3, ArriveType, StepType DEF Next

-----------------------------------------------------------------------------
(* The stored accounts                                                     *)

\* Every action is an INSERT of a new row, an UPDATE of a row that is no
\* administrator's, a confirmation, or leaves the table alone.
LEMMA StepSteady ==
  ASSUME IInv, [Next]_vars
  PROVE  Steady
<1>0. TypeOK BY DEF IInv
<1>1. CASE UNCHANGED users BY <1>1 DEF Steady, Stored
<1>2. ASSUME NEW r \in Request, SignUpInsert(r) PROVE Steady
  BY <1>0, <1>2 DEF SignUpInsert, TypeOK, Account, Steady, Stored
<1>3. ASSUME NEW r \in Request, ConfirmCommit(r) PROVE Steady
  BY <1>0, <1>3 DEF ConfirmCommit, TypeOK, Account, Steady, Stored
<1>4. ASSUME NEW r \in Request, ManageUpdate(r) PROVE Steady
  <2>1. req[r].id \in Stored \ Admins /\ req[r].wish # "admin"
    BY <1>4 DEF IInv, HandlersOK, HandlerMemory, ManageUpdate
  <2>2. QED BY <1>0, <1>4, <2>1 DEF ManageUpdate, TypeOK, Account, Steady, Stored, Admins
<1>5. ASSUME NEW r \in Request, Arrive(r) PROVE UNCHANGED users
  BY <1>5 DEF Arrive, Refuse, Resend, ConfirmLookup, SignUpEmail, Manage, Reads, vars
<1>6. ASSUME NEW r \in Request, Step(r) PROVE Steady
  BY <1>1, <1>2, <1>3, <1>4, <1>6
  DEF Step, SignUpName, SignUpAny, Mail, ManageTarget, Reads
<1>7. QED BY <1>1, <1>5, <1>6 DEF Next, Abort, LinkExpires, Reads, vars

LEMMA SteadySets ==
  ASSUME Steady
  PROVE  Stored \subseteq Stored' /\ Admins \subseteq Admins'
         /\ Stored \ Admins \subseteq Stored' \ Admins'
BY DEF Steady, Stored, Admins

LEMMA SomeAdminStep ==
  ASSUME IInv, [Next]_vars
  PROVE  SomeAdmin'
<1>0. TypeOK /\ SomeAdmin /\ HandlersOK BY DEF IInv
<1>1. CASE Stored # {}
  BY <1>0, <1>1, StepSteady, SteadySets DEF SomeAdmin
<1>2. CASE Stored = {} /\ UNCHANGED users
  BY <1>2 DEF SomeAdmin, Stored, Admins
<1>3. ASSUME Stored = {}, NEW r \in Request, SignUpInsert(r) PROVE SomeAdmin'
  <2>1. req[r].first BY <1>0, <1>3 DEF HandlersOK, HandlerMemory, SignUpInsert
  <2>2. CASE UNCHANGED users BY <1>3, <2>2 DEF SomeAdmin, Stored, Admins
  <2>3. CASE \E i \in Id \ Stored : users'[i].stored /\ users'[i].role = "admin"
    BY <2>3 DEF SomeAdmin, Stored, Admins
  <2>4. QED BY <1>0, <1>3, <2>1, <2>2, <2>3 DEF SignUpInsert, TypeOK
<1>4. ASSUME Stored = {}, NEW r \in Request, ConfirmCommit(r) \/ ManageUpdate(r)
      PROVE  FALSE
  BY <1>0, <1>4 DEF HandlersOK, HandlerMemory, ConfirmCommit, ManageUpdate
<1>5. ASSUME NEW r \in Request, Arrive(r) PROVE UNCHANGED users
  BY <1>5 DEF Arrive, Refuse, Resend, ConfirmLookup, SignUpEmail, Manage, Reads, vars
<1>6. ASSUME Stored = {}, NEW r \in Request, Step(r) PROVE SomeAdmin'
  BY <1>2, <1>3, <1>4, <1>6
  DEF Step, SignUpName, SignUpAny, Mail, ManageTarget, Reads
<1>7. QED BY <1>1, <1>2, <1>5, <1>6 DEF Next, Abort, LinkExpires, Reads, vars

-----------------------------------------------------------------------------
(* The handlers                                                            *)

\* What a handler knows, its caller's rights included.
HandlerOK(r) ==
  /\ HandlerMemory(r)
  /\ At(r, "target") \/ At(r, "update") =>
       req[r].caller \in Admins /\ ~ users[req[r].caller].blocked

LEMMA WaitingHandler ==
  ASSUME Steady, NEW x \in Request, HandlerOK(x), req'[x] = req[x]
  PROVE  HandlerOK(x)'
<1>1. HandlerMemory(x)' BY SteadySets DEF HandlerOK, HandlerMemory, At
<1>2. QED BY <1>1, SteadySets DEF HandlerOK, Steady, Admins, Stored, At

LEMMA FinishedHandler ==
  ASSUME NEW r \in Request, req'[r].pc = "idle"
  PROVE  HandlerOK(r)'
BY DEF HandlerOK, HandlerMemory, At

LEMMA ArrivedHandler ==
  ASSUME IInv, NEW r \in Request, Arrive(r), ~ Refuse(r)
  PROVE  HandlerOK(r)'
<1>0. TypeOK BY DEF IInv
<1>1. ASSUME NEW e \in Email, Resend(r, e) PROVE HandlerOK(r)'
  BY <1>0, <1>1 DEF Resend, Start, TypeOK, Idle, HandlerOK, HandlerMemory, At
<1>2. ASSUME NEW e \in Email, ConfirmLookup(r, e) PROVE HandlerOK(r)'
  BY <1>0, <1>2 DEF ConfirmLookup, WithEmail, Stored, Reads, Start, TypeOK, Idle,
                    HandlerOK, HandlerMemory, At
<1>3. ASSUME NEW e \in Email, NEW n \in Name, SignUpEmail(r, e, n) PROVE HandlerOK(r)'
  BY <1>0, <1>3 DEF SignUpEmail, Start, TypeOK, Idle, HandlerOK, HandlerMemory, At
<1>4. ASSUME NEW c \in Id, NEW i \in Id, NEW w \in Wishes, Manage(r, c, i, w)
      PROVE  HandlerOK(r)'
  BY <1>0, <1>4 DEF Manage, Reads, Admins, Stored, Start, TypeOK, Idle,
                    HandlerOK, HandlerMemory, At
<1>5. QED BY <1>1, <1>2, <1>3, <1>4 DEF Arrive

LEMMA SteppedHandler ==
  ASSUME IInv, NEW r \in Request, Step(r)
  PROVE  HandlerOK(r)'
<1>0. TypeOK /\ HandlerOK(r)
  BY DEF IInv, HandlersOK, ManagerStillAdmin, HandlerOK
<1> USE <1>0
<1>1. ASSUME Finish(r) PROVE HandlerOK(r)'
  BY <1>1, IdleType, FinishedHandler DEF Finish, TypeOK
<1>2. CASE SignUpName(r)
  BY <1>1, <1>2 DEF SignUpName, Check, Goto, TypeOK, Handler, HandlerOK, HandlerMemory, At
<1>3. CASE SignUpAny(r)
  BY <1>3 DEF SignUpAny, Reads, Stored, TypeOK, Handler, HandlerOK, HandlerMemory, At
<1>4. CASE SignUpInsert(r)
  BY <1>1, <1>4 DEF SignUpInsert, Goto, TypeOK, Handler, HandlerOK, HandlerMemory, At
<1>5. CASE Mail(r) BY <1>1, <1>5 DEF Mail
<1>6. CASE ConfirmCommit(r) BY <1>1, <1>6 DEF ConfirmCommit
<1>7. CASE ManageTarget(r)
  BY <1>1, <1>7 DEF ManageTarget, Check, Goto, Reads, Stored, Admins, TypeOK, Handler,
                    HandlerOK, HandlerMemory, At
<1>8. CASE ManageUpdate(r) BY <1>1, <1>8 DEF ManageUpdate
<1>9. QED BY <1>2, <1>3, <1>4, <1>5, <1>6, <1>7, <1>8 DEF Step

LEMMA HandlersStep ==
  ASSUME IInv, [Next]_vars
  PROVE  \A x \in Request : HandlerOK(x)'
<1>0. /\ TypeOK /\ Steady
      /\ \A x \in Request : HandlerOK(x)
  BY StepSteady DEF IInv, HandlersOK, ManagerStillAdmin, HandlerOK
<1> SUFFICES ASSUME NEW x \in Request PROVE HandlerOK(x)'
  OBVIOUS
<1>1. CASE req'[x] = req[x] BY <1>0, <1>1, WaitingHandler
<1>2. ASSUME NEW r \in Request, Arrive(r) \/ Step(r) \/ Abort(r), req'[x] # req[x]
      PROVE  HandlerOK(x)'
  <2>1. x = r BY <1>0, <1>2, Touches DEF OthersWait
  <2>2. CASE Arrive(r) /\ ~ Refuse(r) BY <2>1, <2>2, ArrivedHandler
  <2>3. CASE Refuse(r) BY <1>2, <2>3 DEF Refuse, vars
  <2>4. CASE Step(r) BY <2>1, <2>4, SteppedHandler
  <2>5. CASE Abort(r)
    BY <1>0, <2>1, <2>5, IdleType, FinishedHandler DEF Abort, Finish, TypeOK
  <2>6. QED BY <1>2, <2>2, <2>3, <2>4, <2>5
<1>3. QED BY <1>1, <1>2 DEF Next, LinkExpires, vars

-----------------------------------------------------------------------------
(* The theorems                                                            *)

LEMMA InitOK == Init => IInv
BY IdleType DEF Init, IInv, TypeOK, SomeAdmin, ManagerStillAdmin, HandlersOK, HandlerMemory,
   NoAccount, Account, Roles, Stored, At

LEMMA NextOK == IInv /\ [Next]_vars => IInv'
<1> SUFFICES ASSUME IInv, [Next]_vars PROVE IInv'
  OBVIOUS
<1>1. TypeOK' BY TypeStep DEF IInv
<1>2. SomeAdmin' BY SomeAdminStep
<1>3. ManagerStillAdmin' BY HandlersStep DEF HandlerOK, ManagerStillAdmin
<1>4. HandlersOK' BY HandlersStep DEF HandlerOK, HandlersOK
<1>5. QED BY <1>1, <1>2, <1>3, <1>4 DEF IInv

LEMMA Invariance == Spec => []IInv
BY InitOK, NextOK, PTL DEF Spec

\* Every variable keeps its type in every reachable state.
THEOREM TypeCorrect == Spec => []TypeOK
<1>1. IInv => TypeOK BY DEF IInv
<1>2. QED BY <1>1, Invariance, PTL

\* From the first sign-up on there is an administrator: create_user() makes
\* one, and the checks of the management routes outlast the await that
\* separates them from the UPDATE.
THEOREM AlwaysSomeAdmin == Spec => []SomeAdmin
<1>1. IInv => SomeAdmin BY DEF IInv
<1>2. QED BY <1>1, Invariance, PTL

\* The caller of a management route still has the rights it was checked for
\* when the UPDATE is sent.
THEOREM RightsOutlastTheCheck == Spec => []ManagerStillAdmin
<1>1. IInv => ManagerStillAdmin BY DEF IInv
<1>2. QED BY <1>1, Invariance, PTL

\* No step takes the role from an administrator, blocks one, or makes one of
\* an account that is stored, whatever was in flight when its target was read.
THEOREM AdminsStayUntouched == Spec => AdminsUntouchable
<1>1. IInv /\ [Next]_vars =>
        [/\ \A i \in Admins : /\ users'[i].role = "admin"
                              /\ users'[i].blocked = users[i].blocked
         /\ \A i \in Stored \ Admins : users'[i].role # "admin"]_vars
  BY StepSteady DEF Steady, Stored, Admins
<1>2. QED BY <1>1, Invariance, PTL DEF Spec, AdminsUntouchable
=============================================================================
