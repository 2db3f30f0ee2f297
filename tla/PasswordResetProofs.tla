------------------------ MODULE PasswordResetProofs ------------------------
(***************************************************************************)
(* Theorems about PasswordReset.tla for every set of accounts, rows,       *)
(* tokens and requests, whatever Env lets happen and whenever the cleanup  *)
(* job runs.                                                               *)
(***************************************************************************)
EXTENDS PasswordReset, TLAPS

-----------------------------------------------------------------------------
(* The inductive invariant                                                 *)

\* The rows hold issued tokens, no two of them the same.
RowsOK == /\ \A i \in Stored : table[i].user \in User /\ table[i].hash \in Issued
          /\ \A i, j \in Stored : table[i].hash = table[j].hash => i = j

\* What a handler learnt stays true while it waits.  Rows change hands never
\* and a token that has left its row does not come back, so a handler about to
\* mark a row knows every row that can still carry its token.
HandlerMemory(r) ==
  /\ req[r].pc \in {"pick", "store"} => req[r].user \in User
  /\ req[r].pc = "store" /\ req[r].row \in RowId => table[req[r].row].status # "free"
  /\ req[r].pc = "store" /\ req[r].row \in Stored
       => table[req[r].row].user = req[r].user
  /\ req[r].pc \in {"mail", "password", "find", "mark"} => req[r].tok \in Issued
  /\ req[r].pc = "mark" => \A i \in ByHash(req[r].tok) : i = req[r].row

HandlersOK == \A r \in Request : HandlerMemory(r)

IInv == /\ TypeOK /\ RowsOK /\ HandlersOK /\ RowsStayTheirs
        /\ retired \subseteq Issued /\ RetiredStaysDead

\* What no step does: take an issued token from its account, hand a row to
\* another account or revive it, put an issued token into a row, clear used_at
\* under the same token, or turn back the clock.
Steady ==
  /\ \A t \in Issued : owner'[t] = owner[t]
  /\ expired \subseteq expired'
  /\ \A i \in RowId : table[i].status # "free" => table'[i].status # "free"
  /\ \A i \in Stored' : table[i].status # "free" =>
       i \in Stored /\ table'[i].user = table[i].user
  /\ \A i \in Stored' : table'[i].hash \in Issued =>
       /\ i \in Stored /\ table'[i].hash = table[i].hash
       /\ table[i].used => table'[i].used

-----------------------------------------------------------------------------
(* The ways in which a handler's record changes                            *)

LEMMA IdleType == Idle \in Handler /\ Idle.pc = "idle"
BY DEF Idle, Handler

LEMMA FinishType ==
  ASSUME TypeOK, NEW r \in Request, Finish(r)
  PROVE  /\ req' \in [Request -> Handler] /\ req'[r].pc = "idle"
         /\ UNCHANGED serial
BY IdleType DEF TypeOK, Finish

LEMMA StartType ==
  ASSUME TypeOK, NEW r \in Request, NEW h \in Handler, Start(r, h)
  PROVE  req' \in [Request -> Handler] /\ req'[r] = h /\ serial' \in BOOLEAN
<1>1. req' \in [Request -> Handler] /\ req'[r] = h BY DEF TypeOK, Start
<1>2. serial' \in BOOLEAN BY DEF Start
<1>3. QED BY <1>1, <1>2

LEMMA LoadType ==
  ASSUME TypeOK, NEW r \in Request, NEW pc \in {"store", "mark"},
         NEW i \in RowId \cup {NoRow}, NEW u \in BOOLEAN, Load(r, pc, i, u)
  PROVE  /\ req' \in [Request -> Handler]
         /\ req'[r].pc = pc /\ req'[r].row = i
         /\ req'[r].user = req[r].user /\ req'[r].tok = req[r].tok
         /\ UNCHANGED serial
<1>1. [req[r] EXCEPT !.pc = pc, !.row = i, !.sawUsed = u] \in Handler
  BY DEF TypeOK, Handler
<1>2. req'[r] = [req[r] EXCEPT !.pc = pc, !.row = i, !.sawUsed = u]
  BY DEF TypeOK, Load
<1>3. QED BY <1>1, <1>2 DEF TypeOK, Load, Handler

LEMMA GotoType ==
  ASSUME TypeOK, NEW r \in Request, Goto(r, "find")
  PROVE  /\ req' \in [Request -> Handler]
         /\ req'[r].pc = "find" /\ req'[r].tok = req[r].tok
         /\ UNCHANGED serial
<1>1. [req[r] EXCEPT !.pc = "find"] \in Handler BY DEF TypeOK, Handler
<1>2. req' = [req EXCEPT ![r] = [req[r] EXCEPT !.pc = "find"]] BY DEF Goto
<1>3. QED BY <1>1, <1>2 DEF TypeOK, Handler, Goto

\* A request in flight is touched by its own steps only.
LEMMA Touches ==
  ASSUME TypeOK, NEW r \in Request, Arrive(r) \/ Step(r) \/ Abort(r)
  PROVE  \A x \in Request \ {r} : req'[x] = req[x]
BY DEF TypeOK, Arrive, Refuse, Ask, Validate, Start, Step, PickRow, StoreToken, Load,
       Mail, ChangePassword, FindUsed, MarkUsed, Answer, Abort, Goto, Finish, vars

-----------------------------------------------------------------------------
(* What a stored request writes                                            *)

\* The new token `t` goes into row `i`, a free one or the one loaded.
Written(r, t, i) ==
  /\ t \in Token \ Issued
  /\ i \in RowId
  /\ table' \in [RowId -> Row]
  /\ table'[i].status = "stored" /\ table'[i].user = req[r].user /\ table'[i].hash = t
  /\ \A j \in RowId \ {i} : table'[j] = table[j]
  /\ owner' = [owner EXCEPT ![t] = req[r].user]
  /\ latest' = [latest EXCEPT ![req[r].user] = t]
  /\ req' = [req EXCEPT ![r] = [Idle EXCEPT !.pc = "mail", !.tok = t]]
  /\ UNCHANGED serial
  /\ i \in Stored => table[i].user = req[r].user
  /\ table[i].status # "deleted"
  /\ i \in Stored \/ NoRowOf(req[r].user)

LEMMA StoreEffect ==
  ASSUME IInv, NEW r \in Request, StoreToken(r)
  PROVE  \/ \E t \in Token, i \in RowId : Written(r, t, i)
         \/ Finish(r) /\ UNCHANGED <<table, owner, latest>>
<1>0. TypeOK /\ req[r].user \in User
  BY DEF IInv, HandlersOK, HandlerMemory, StoreToken, At
<1>1. ASSUME NEW t \in Token \ Issued, NEW i \in FreeRows, NoRowOf(req[r].user),
             table' = [table EXCEPT ![i] = [status |-> "stored", user |-> req[r].user,
                                            hash |-> t, used |-> FALSE]],
             owner' = [owner EXCEPT ![t] = req[r].user],
             latest' = [latest EXCEPT ![req[r].user] = t],
             req' = [req EXCEPT ![r] = [Idle EXCEPT !.pc = "mail", !.tok = t]],
             UNCHANGED serial
      PROVE  Written(r, t, i)
  <2>1. i \in RowId /\ table[i].status = "free" BY DEF FreeRows
  <2>2. [status |-> "stored", user |-> req[r].user, hash |-> t, used |-> FALSE] \in Row
    BY <1>0 DEF Row
  <2>3. QED BY <1>0, <1>1, <2>1, <2>2 DEF TypeOK, Written, Stored
<1>2. ASSUME NEW t \in Token \ Issued, req[r].row \in Stored,
             table' = [table EXCEPT ![req[r].row].hash = t,
                                    ![req[r].row].used = @ /\ ~ req[r].sawUsed],
             owner' = [owner EXCEPT ![t] = req[r].user],
             latest' = [latest EXCEPT ![req[r].user] = t],
             req' = [req EXCEPT ![r] = [Idle EXCEPT !.pc = "mail", !.tok = t]],
             UNCHANGED serial
      PROVE  Written(r, t, req[r].row)
  <2>1. /\ req[r].row \in RowId /\ table[req[r].row].status = "stored"
        /\ table[req[r].row].user = req[r].user
    BY <1>2 DEF Stored, IInv, HandlersOK, HandlerMemory, StoreToken, At
  <2>2. table[req[r].row] \in Row BY <1>0, <2>1 DEF TypeOK
  <2>3. /\ table' \in [RowId -> Row]
        /\ \A j \in RowId \ {req[r].row} : table'[j] = table[j]
        /\ table'[req[r].row].status = "stored" /\ table'[req[r].row].hash = t
        /\ table'[req[r].row].user = req[r].user
    BY <1>0, <1>2, <2>1, <2>2 DEF TypeOK, Row, Handler
  <2>4. QED BY <1>2, <2>1, <2>3 DEF Written
<1>3. ASSUME NEW t \in Token \ Issued,
             \/ /\ NoRowOf(req[r].user)
                /\ \E i \in FreeRows :
                     table' = [table EXCEPT ![i] =
                       [status |-> "stored", user |-> req[r].user, hash |-> t,
                        used |-> FALSE]]
             \/ /\ req[r].row \in Stored
                /\ table' = [table EXCEPT ![req[r].row].hash = t,
                                          ![req[r].row].used = @ /\ ~ req[r].sawUsed],
             owner' = [owner EXCEPT ![t] = req[r].user],
             latest' = [latest EXCEPT ![req[r].user] = t],
             req' = [req EXCEPT ![r] = [Idle EXCEPT !.pc = "mail", !.tok = t]],
             UNCHANGED serial
      PROVE  \E i \in RowId : Written(r, t, i)
  <2>1. CASE /\ NoRowOf(req[r].user)
             /\ \E i \in FreeRows :
                  table' = [table EXCEPT ![i] =
                    [status |-> "stored", user |-> req[r].user, hash |-> t,
                     used |-> FALSE]]
    BY <1>1, <1>3, <2>1 DEF FreeRows
  <2>2. CASE /\ req[r].row \in Stored
             /\ table' = [table EXCEPT ![req[r].row].hash = t,
                                       ![req[r].row].used = @ /\ ~ req[r].sawUsed]
    BY <1>2, <1>3, <2>2 DEF Stored
  <2>3. QED BY <1>3, <2>1, <2>2
<1>4. QED BY <1>3 DEF StoreToken, Fresh

-----------------------------------------------------------------------------
(* Types                                                                   *)

LEMMA ArriveType ==
  ASSUME TypeOK, NEW r \in Request, Arrive(r)
  PROVE  TypeOK'
<1>1. CASE Refuse(r) BY <1>1 DEF Refuse, vars, TypeOK
<1>2. ASSUME NEW u \in User, Ask(r, u) PROVE TypeOK'
  <2>1. [Idle EXCEPT !.pc = "pick", !.user = u] \in Handler BY DEF Idle, Handler
  <2>2. req' \in [Request -> Handler] /\ serial' \in BOOLEAN
    BY <1>2, <2>1, StartType DEF Ask
  <2>3. QED BY <1>2, <2>2 DEF Ask, Reads, rest, TypeOK
<1>3. ASSUME NEW t \in Token, Validate(r, t) PROVE TypeOK'
  <2>1. [Idle EXCEPT !.pc = "password", !.tok = t] \in Handler BY DEF Idle, Handler
  <2>2. req' \in [Request -> Handler] /\ serial' \in BOOLEAN
    BY <1>3, <2>1, StartType DEF Validate
  <2>3. QED BY <1>3, <2>2 DEF Validate, Reads, rest, TypeOK
<1>4. QED BY <1>1, <1>2, <1>3 DEF Arrive

LEMMA StepType ==
  ASSUME IInv, NEW r \in Request, Step(r)
  PROVE  TypeOK'
<1>0. TypeOK /\ HandlerMemory(r) BY DEF IInv, HandlersOK
<1>1. CASE PickRow(r)
  <2>1. ASSUME NEW i \in RowId, Load(r, "store", i, table[i].used)
        PROVE  req' \in [Request -> Handler] /\ UNCHANGED serial
    <3>1. table[i].used \in BOOLEAN BY <1>0 DEF TypeOK, Row
    <3>2. QED BY <1>0, <2>1, <3>1, LoadType
  <2>2. ASSUME Load(r, "store", NoRow, FALSE) PROVE req' \in [Request -> Handler] /\ UNCHANGED serial
    BY <1>0, <2>2, LoadType
  <2>3. req' \in [Request -> Handler] /\ UNCHANGED serial
    BY <1>1, <2>1, <2>2 DEF PickRow, RowsOf, Stored
  <2>4. QED BY <1>0, <1>1, <2>3 DEF PickRow, Reads, rest, TypeOK
<1>2. CASE StoreToken(r)
  <2>1. ASSUME NEW t \in Token, NEW i \in RowId, Written(r, t, i)
        PROVE  /\ req' \in [Request -> Handler] /\ UNCHANGED serial /\ table' \in [RowId -> Row]
               /\ owner' \in [Token -> User \cup {NoUser}]
               /\ latest' \in [User -> Token \cup {NoToken}]
    <3>1. [Idle EXCEPT !.pc = "mail", !.tok = t] \in Handler BY DEF Idle, Handler
    <3>2. req[r].user \in User \cup {NoUser} BY <1>0 DEF TypeOK, Handler
    <3>3. QED BY <1>0, <2>1, <3>1, <3>2 DEF Written, TypeOK
  <2>2. UNCHANGED <<expired, inbox, changes, retired>> BY <1>2 DEF StoreToken
  <2>3. QED BY <1>0, <1>2, <2>1, <2>2, StoreEffect, FinishType DEF TypeOK
<1>3. CASE Mail(r)
  <2>1. req[r].tok \in Token BY <1>0, <1>3 DEF HandlerMemory, Mail, At, Issued
  <2>2. QED BY <1>0, <1>3, <2>1, FinishType DEF Mail, rest, TypeOK
<1>4. CASE ChangePassword(r)
  <2>1. req' \in [Request -> Handler] /\ UNCHANGED serial
    BY <1>0, <1>4, GotoType DEF ChangePassword
  <2>2. changes' \in [Token -> 0..2]
    <3>1. \A c \in 0..2 : (IF c < 2 THEN c + 1 ELSE c) \in 0..2 OBVIOUS
    <3>2. QED BY <1>0, <1>4, <3>1 DEF ChangePassword, TypeOK
  <2>3. QED BY <1>0, <1>4, <2>1, <2>2 DEF ChangePassword, TypeOK
<1>5. CASE FindUsed(r)
  <2>1. req[r].tok \in Token BY <1>0, <1>5 DEF HandlerMemory, FindUsed, At, Issued
  <2>2. ASSUME NEW i \in RowId, Load(r, "mark", i, table[i].used)
        PROVE  req' \in [Request -> Handler] /\ UNCHANGED serial
    <3>1. table[i].used \in BOOLEAN BY <1>0 DEF TypeOK, Row
    <3>2. QED BY <1>0, <2>2, <3>1, LoadType
  <2>3. QED BY <1>0, <1>5, <2>1, <2>2, FinishType
            DEF FindUsed, ByHash, Stored, Answer, TypeOK
<1>6. CASE MarkUsed(r)
  <2>1. req[r].tok \in Token BY <1>0, <1>6 DEF HandlerMemory, MarkUsed, At, Issued
  <2>2. table' \in [RowId -> Row]
    <3>1. \A i \in RowId : [table[i] EXCEPT !.used = TRUE] \in Row
      BY <1>0 DEF TypeOK, Row
    <3>2. QED BY <1>0, <1>6, <3>1 DEF MarkUsed, Stored, TypeOK
  <2>3. QED BY <1>0, <1>6, <2>1, <2>2, FinishType DEF MarkUsed, Answer, TypeOK
<1>7. QED BY <1>1, <1>2, <1>3, <1>4, <1>5, <1>6 DEF Step

LEMMA TypeStep ==
  ASSUME IInv, [Next]_vars
  PROVE  TypeOK'
<1>0. TypeOK BY DEF IInv
<1>1. ASSUME NEW r \in Request, Abort(r) PROVE TypeOK'
  <2>1. req' \in [Request -> Handler] BY <1>0, <1>1, IdleType DEF Abort, TypeOK
  <2>2. QED BY <1>0, <1>1, <2>1 DEF Abort, Reads, rest, TypeOK
<1>2. ASSUME NEW t \in Token, Expire(t) PROVE TypeOK'
  BY <1>0, <1>2 DEF Expire, rest, TypeOK
<1>3. CASE Cleanup
  <2>1. [FreeRow EXCEPT !.status = "deleted"] \in Row BY DEF FreeRow, Row
  <2>2. QED BY <1>0, <1>3, <2>1 DEF Cleanup, rest, TypeOK
<1>4. CASE UNCHANGED vars BY <1>0, <1>4 DEF vars, TypeOK
<1>5. QED BY <1>0, <1>1, <1>2, <1>3, <1>4, ArriveType, StepType DEF Next

-----------------------------------------------------------------------------
(* What every step leaves as it was                                        *)

LEMMA StepSteady ==
  ASSUME PasswordResetAssumption, IInv, [Next]_vars
  PROVE  Steady
<1>0. TypeOK BY DEF IInv
<1>1. CASE UNCHANGED <<table, owner>> /\ expired \subseteq expired'
  BY <1>1 DEF Steady, Stored
<1>2. ASSUME NEW r \in Request, Arrive(r) PROVE UNCHANGED <<table, owner, expired>>
  BY <1>2 DEF Arrive, Refuse, Ask, Validate, Reads, vars
<1>3. ASSUME NEW r \in Request, NEW t \in Token, NEW i \in RowId, Written(r, t, i),
             UNCHANGED expired
      PROVE  Steady
  <2>1. \A x \in Issued : owner'[x] = owner[x]
    BY <1>0, <1>3 DEF Written, TypeOK, Issued
  <2>2. \A j \in RowId \ {i} : table'[j] = table[j] BY <1>3 DEF Written
  <2>3. /\ table'[i].status = "stored" /\ table'[i].hash \notin Issued
        /\ table[i].status # "free" => i \in Stored /\ table'[i].user = table[i].user
    BY <1>0, <1>3 DEF Written, Stored, TypeOK, Row
  <2>4. QED BY <1>3, <2>1, <2>2, <2>3 DEF Steady, Stored
<1>4. ASSUME NEW r \in Request, StoreToken(r) PROVE Steady
  BY <1>1, <1>3, <1>4, StoreEffect DEF IInv, StoreToken
<1>5. ASSUME NEW r \in Request, MarkUsed(r) PROVE Steady
  <2>1. \A i \in RowId : /\ table'[i].status = table[i].status
                         /\ table'[i].user = table[i].user
                         /\ table'[i].hash = table[i].hash
                         /\ table[i].used => table'[i].used
    BY <1>0, <1>5 DEF MarkUsed, TypeOK, Row, Stored
  <2>2. UNCHANGED <<owner, expired>> BY <1>5 DEF MarkUsed
  <2>3. QED BY <2>1, <2>2 DEF Steady, Stored
<1>6. CASE Cleanup
  <2>1. \A i \in RowId : table'[i] = table[i] \/ table'[i].status = "deleted"
    BY <1>0, <1>6 DEF Cleanup, FreeRow, TypeOK
  <2>2. QED BY <1>6, <2>1 DEF Cleanup, Steady, Stored
<1>7. ASSUME NEW r \in Request, Step(r) PROVE Steady
  BY <1>1, <1>4, <1>5, <1>7 DEF Step, PickRow, Mail, ChangePassword, FindUsed, Reads
<1>8. ASSUME NEW r \in Request, Abort(r) PROVE Steady
  BY <1>1, <1>8 DEF Abort, Reads
<1>9. ASSUME NEW t \in Token, Expire(t) PROVE Steady BY <1>1, <1>9 DEF Expire
<1>10. CASE UNCHANGED vars BY <1>1, <1>10 DEF vars
<1>11. QED BY <1>1, <1>2, <1>6, <1>7, <1>8, <1>9, <1>10 DEF Next

LEMMA SteadyIssued ==
  ASSUME TypeOK, Steady
  PROVE  Issued \subseteq Issued'
BY DEF TypeOK, Steady, Issued

-----------------------------------------------------------------------------
(* The rows                                                                *)

\* All rows but those of a new token are as good as before.
LEMMA OldRows ==
  ASSUME IInv, Steady, NEW i \in Stored', table'[i].hash \in Issued
  PROVE  /\ table'[i].user \in User /\ table'[i].hash \in Issued'
         /\ owner'[table'[i].hash] = table'[i].user
         /\ \A j \in Stored' : table'[i].hash = table'[j].hash => i = j
<1>1. i \in Stored /\ table'[i].hash = table[i].hash BY DEF Steady, Stored
<1>2. table'[i].user = table[i].user BY <1>1 DEF Steady, Stored
<1>3. \A j \in Stored' : table'[i].hash = table'[j].hash => j \in Stored
        /\ table[j].hash = table[i].hash
  BY <1>1 DEF Steady, Stored
<1>4. QED BY <1>1, <1>2, <1>3, SteadyIssued DEF IInv, RowsOK, RowsStayTheirs, Steady

LEMMA RowsStep ==
  ASSUME PasswordResetAssumption, IInv, [Next]_vars
  PROVE  RowsOK' /\ \A i \in Stored' : owner'[table'[i].hash] = table'[i].user
<1>0. TypeOK /\ RowsOK /\ Steady BY StepSteady DEF IInv
<1>1. CASE \A i \in Stored' : table'[i].hash \in Issued
  BY <1>0, <1>1, OldRows DEF RowsOK
<1>2. ASSUME NEW r \in Request, NEW t \in Token, NEW i \in RowId, Written(r, t, i),
             req[r].user \in User
      PROVE  RowsOK' /\ \A j \in Stored' : owner'[table'[j].hash] = table'[j].user
  <2>1. t \in Issued' /\ owner'[t] = req[r].user
    BY <1>0, <1>2 DEF PasswordResetAssumption, Written, TypeOK, Issued
  <2>2. /\ table'[i].user = req[r].user /\ table'[i].hash = t /\ t \notin Issued
        /\ \A j \in Stored' : j # i => table'[j].hash \in Issued
    BY <1>0, <1>2 DEF Written, Stored, RowsOK
  <2>3. QED BY <1>0, <1>2, <2>1, <2>2, OldRows DEF RowsOK
<1>3. ASSUME NEW r \in Request, StoreToken(r)
      PROVE  RowsOK' /\ \A j \in Stored' : owner'[table'[j].hash] = table'[j].user
  <2>1. req[r].user \in User
    BY <1>3 DEF IInv, HandlersOK, HandlerMemory, StoreToken, At
  <2>2. CASE UNCHANGED table BY <1>0, <1>1, <2>2 DEF RowsOK, Stored
  <2>3. QED BY <1>2, <1>3, <2>1, <2>2, StoreEffect
<1>4. CASE \A i \in Stored' : i \in Stored /\ table'[i].hash = table[i].hash
  BY <1>0, <1>1, <1>4 DEF RowsOK
<1>5. ASSUME NEW r \in Request, MarkUsed(r)
      PROVE  \A i \in Stored' : i \in Stored /\ table'[i].hash = table[i].hash
  BY <1>0, <1>5 DEF MarkUsed, TypeOK, Row, Stored
<1>6. CASE Cleanup
  <2>1. \A i \in Stored' : i \in Stored /\ table'[i] = table[i]
    BY <1>0, <1>6 DEF Cleanup, FreeRow, TypeOK, Stored
  <2>2. QED BY <1>4, <2>1
<1>7. CASE UNCHANGED table BY <1>4, <1>7 DEF Stored
<1>8. ASSUME NEW r \in Request, Arrive(r) PROVE UNCHANGED table
  BY <1>8 DEF Arrive, Refuse, Ask, Validate, Reads, vars
<1>9. ASSUME NEW r \in Request, Step(r), ~ StoreToken(r), ~ MarkUsed(r)
      PROVE  UNCHANGED table
  BY <1>9 DEF Step, PickRow, Mail, ChangePassword, FindUsed, Reads
<1>10. QED BY <1>3, <1>4, <1>5, <1>6, <1>7, <1>8, <1>9
           DEF Next, Abort, Expire, Reads, vars

-----------------------------------------------------------------------------
(* The handlers                                                            *)

LEMMA WaitingHandler ==
  ASSUME IInv, Steady, NEW x \in Request, req'[x] = req[x]
  PROVE  HandlerMemory(x)'
<1>1. TypeOK /\ HandlerMemory(x) BY DEF IInv, HandlersOK
<1>2. req[x].pc = "store" /\ req[x].row \in RowId => table'[req[x].row].status # "free"
  BY <1>1 DEF HandlerMemory, Steady
<1>3. req[x].pc = "store" /\ req[x].row \in Stored'
        => table'[req[x].row].user = req[x].user
  <2>1. SUFFICES ASSUME req[x].pc = "store", req[x].row \in Stored'
                 PROVE  table'[req[x].row].user = req[x].user
    OBVIOUS
  <2>2. req[x].row \in RowId BY <2>1 DEF Stored
  <2>3. req[x].row \in Stored /\ table'[req[x].row].user = table[req[x].row].user
    BY <1>1, <2>1, <2>2 DEF HandlerMemory, Steady
  <2>4. QED BY <1>1, <2>1, <2>3 DEF HandlerMemory
<1>4. req[x].pc = "mark" => \A i \in Stored' : table'[i].hash = req[x].tok => i = req[x].row
  BY <1>1 DEF HandlerMemory, Steady, ByHash
<1>5. QED BY <1>1, <1>2, <1>3, <1>4, SteadyIssued DEF HandlerMemory, ByHash

LEMMA FinishedHandler ==
  ASSUME NEW r \in Request, req'[r].pc = "idle"
  PROVE  HandlerMemory(r)'
BY DEF HandlerMemory

LEMMA ArrivedHandler ==
  ASSUME IInv, NEW r \in Request, Arrive(r), ~ Refuse(r)
  PROVE  HandlerMemory(r)'
<1>0. TypeOK /\ RowsOK BY DEF IInv
<1>1. ASSUME NEW u \in User, Ask(r, u) PROVE HandlerMemory(r)'
  BY <1>0, <1>1 DEF Ask, Start, TypeOK, Idle, HandlerMemory
<1>2. ASSUME NEW t \in Token, Validate(r, t) PROVE HandlerMemory(r)'
  <2>1. t \in Issued' BY <1>0, <1>2 DEF Validate, ByHash, RowsOK, Reads, Issued
  <2>2. req'[r].pc = "password" /\ req'[r].tok = t
    BY <1>0, <1>2 DEF Validate, Start, TypeOK, Idle
  <2>3. QED BY <2>1, <2>2 DEF HandlerMemory
<1>3. QED BY <1>1, <1>2 DEF Arrive

LEMMA SteppedHandler ==
  ASSUME PasswordResetAssumption, IInv, NEW r \in Request, Step(r)
  PROVE  HandlerMemory(r)'
<1>0. TypeOK /\ RowsOK /\ HandlerMemory(r) BY DEF IInv, HandlersOK
<1>1. ASSUME Finish(r) PROVE HandlerMemory(r)'
  BY <1>0, <1>1, FinishType, FinishedHandler
<1>2. CASE PickRow(r)
  <2>1. req[r].user \in User BY <1>0, <1>2 DEF PickRow, HandlerMemory, At
  <2>2. ASSUME NEW i \in RowsOf(req[r].user), Load(r, "store", i, table[i].used)
        PROVE  HandlerMemory(r)'
    <3>1. /\ i \in RowId /\ i \in Stored /\ table[i].status = "stored"
          /\ table[i].user = req[r].user /\ table[i].used \in BOOLEAN
      BY <1>0 DEF RowsOf, Stored, TypeOK, Row
    <3>2. req'[r].pc = "store" /\ req'[r].row = i /\ req'[r].user = req[r].user
      BY <1>0, <2>2, <3>1, LoadType
    <3>3. table' = table BY <1>2 DEF PickRow, Reads
    <3>4. QED BY <2>1, <3>1, <3>2, <3>3 DEF HandlerMemory
  <2>3. ASSUME Load(r, "store", NoRow, FALSE) PROVE HandlerMemory(r)'
    <3>1. req'[r].pc = "store" /\ req'[r].row = NoRow /\ req'[r].user = req[r].user
      BY <1>0, <2>3, LoadType
    <3>2. QED BY <2>1, <3>1 DEF PasswordResetAssumption, HandlerMemory, Stored
  <2>4. QED BY <1>2, <2>2, <2>3 DEF PickRow
<1>3. CASE StoreToken(r)
  <2>1. req[r].user \in User BY <1>0, <1>3 DEF HandlerMemory, StoreToken, At
  <2>2. ASSUME NEW t \in Token, NEW i \in RowId, Written(r, t, i)
        PROVE  HandlerMemory(r)'
    <3>1. req'[r].pc = "mail" /\ req'[r].tok = t
      BY <1>0, <2>2 DEF Written, TypeOK, Idle
    <3>2. t \in Issued'
      BY <1>0, <2>1, <2>2 DEF PasswordResetAssumption, Written, TypeOK, Issued
    <3>3. QED BY <3>1, <3>2 DEF HandlerMemory
  <2>3. QED BY <1>1, <1>3, <2>2, StoreEffect
<1>4. CASE Mail(r) BY <1>1, <1>4 DEF Mail
<1>5. CASE ChangePassword(r)
  <2>1. req'[r].pc = "find" /\ req'[r].tok = req[r].tok
    BY <1>0, <1>5, GotoType DEF ChangePassword
  <2>2. req[r].tok \in Issued' /\ owner' = owner
    BY <1>0, <1>5 DEF ChangePassword, HandlerMemory, At, Issued
  <2>3. QED BY <2>1, <2>2 DEF HandlerMemory
<1>6. CASE FindUsed(r)
  <2>1. ASSUME NEW i \in ByHash(req[r].tok), Load(r, "mark", i, table[i].used)
        PROVE  HandlerMemory(r)'
    <3>1. i \in RowId /\ table[i].used \in BOOLEAN BY <1>0 DEF ByHash, Stored, TypeOK, Row
    <3>2. req'[r].pc = "mark" /\ req'[r].row = i /\ req'[r].tok = req[r].tok
      BY <1>0, <2>1, <3>1, LoadType
    <3>3. \A j \in ByHash(req[r].tok) : j = i BY <1>0 DEF RowsOK, ByHash
    <3>4. req[r].tok \in Issued /\ table' = table /\ owner' = owner
      BY <1>0, <1>6 DEF FindUsed, HandlerMemory, At
    <3>5. QED BY <3>2, <3>3, <3>4 DEF HandlerMemory, ByHash, Stored, Issued
  <2>2. QED BY <1>1, <1>6, <2>1 DEF FindUsed, Answer
<1>7. CASE MarkUsed(r) BY <1>1, <1>7 DEF MarkUsed, Answer
<1>8. QED BY <1>2, <1>3, <1>4, <1>5, <1>6, <1>7 DEF Step

LEMMA HandlersStep ==
  ASSUME PasswordResetAssumption, IInv, [Next]_vars
  PROVE  HandlersOK'
<1>0. TypeOK /\ Steady BY StepSteady DEF IInv
<1> SUFFICES ASSUME NEW x \in Request PROVE HandlerMemory(x)'
  BY DEF HandlersOK
<1>1. CASE req'[x] = req[x] BY <1>0, <1>1, WaitingHandler
<1>2. ASSUME NEW r \in Request, Arrive(r) \/ Step(r) \/ Abort(r), req'[x] # req[x]
      PROVE  HandlerMemory(x)'
  <2>1. x = r BY <1>0, <1>2, Touches
  <2>2. CASE Arrive(r) /\ ~ Refuse(r) BY <2>1, <2>2, ArrivedHandler
  <2>3. CASE Refuse(r) BY <1>2, <2>3 DEF Refuse, vars
  <2>4. CASE Step(r) BY <2>1, <2>4, SteppedHandler
  <2>5. CASE Abort(r)
    <3>1. req'[r].pc = "idle" BY <1>0, <2>5, IdleType DEF Abort, TypeOK
    <3>2. QED BY <2>1, <3>1, FinishedHandler
  <2>6. QED BY <1>2, <2>2, <2>3, <2>4, <2>5
<1>3. QED BY <1>1, <1>2 DEF Next, Expire, Cleanup, vars

-----------------------------------------------------------------------------
(* The answered confirmations                                              *)

LEMMA DeadStep ==
  ASSUME TypeOK, Steady, NEW t \in Issued, NEW i \in RowId,
         table'[i].hash = t, Usable(i)'
  PROVE  i \in ByHash(t) /\ Usable(i)
<1>1. i \in Stored' /\ ~ table'[i].used /\ t \notin expired' BY DEF Usable
<1>2. i \in Stored /\ table[i].hash = t /\ ~ table[i].used BY <1>1 DEF Steady
<1>3. QED BY <1>1, <1>2 DEF Steady, ByHash, Usable

LEMMA RetiredStep ==
  ASSUME PasswordResetAssumption, IInv, [Next]_vars
  PROVE  (retired \subseteq Issued)' /\ RetiredStaysDead'
<1>0. /\ TypeOK /\ RowsOK /\ HandlersOK /\ Steady
      /\ retired \subseteq Issued /\ RetiredStaysDead
  BY StepSteady DEF IInv
<1>1. \A i \in RowId : Usable(i)' => table'[i].hash \notin retired
  <2>1. SUFFICES ASSUME NEW i \in RowId, Usable(i)', table'[i].hash \in retired
                 PROVE  FALSE
    OBVIOUS
  <2>2. i \in ByHash(table'[i].hash) /\ Usable(i) BY <1>0, <2>1, DeadStep
  <2>3. QED BY <1>0, <2>1, <2>2 DEF RetiredStaysDead, ByHash
<1>2. CASE UNCHANGED retired
  BY <1>0, <1>1, <1>2, SteadyIssued DEF RetiredStaysDead
<1>3. ASSUME NEW r \in Request, retired' = retired \cup {req[r].tok},
             req[r].tok \in Issued,
             \A i \in RowId : Usable(i)' => table'[i].hash # req[r].tok
      PROVE  (retired \subseteq Issued)' /\ RetiredStaysDead'
  BY <1>0, <1>1, <1>3, SteadyIssued DEF RetiredStaysDead
<1>4. ASSUME NEW r \in Request, FindUsed(r)
      PROVE  (retired \subseteq Issued)' /\ RetiredStaysDead'
  <2>1. req[r].tok \in Issued
    BY <1>0, <1>4 DEF HandlersOK, HandlerMemory, FindUsed, At
  <2>2. CASE ByHash(req[r].tok) = {} /\ Answer(r)
    <3>1. \A i \in RowId : Usable(i)' => table'[i].hash # req[r].tok
      BY <1>0, <2>1, <2>2, DeadStep
    <3>2. QED BY <1>3, <2>1, <2>2, <3>1 DEF Answer
  <2>3. QED BY <1>2, <1>4, <2>2 DEF FindUsed
<1>5. ASSUME NEW r \in Request, MarkUsed(r)
      PROVE  (retired \subseteq Issued)' /\ RetiredStaysDead'
  <2>1. /\ req[r].tok \in Issued
        /\ \A i \in ByHash(req[r].tok) : i = req[r].row
    BY <1>0, <1>5 DEF HandlersOK, HandlerMemory, MarkUsed, At
  <2>2. ASSUME NEW i \in RowId, Usable(i)', table'[i].hash = req[r].tok
        PROVE  FALSE
    <3>1. i \in ByHash(req[r].tok) BY <1>0, <2>1, <2>2, DeadStep
    <3>2. i = req[r].row /\ req[r].row \in Stored BY <2>1, <3>1 DEF ByHash
    <3>3. table'[i].used
      BY <1>0, <1>5, <3>2 DEF MarkUsed, TypeOK, Row, Stored
    <3>4. QED BY <2>2, <3>3 DEF Usable
  <2>3. QED BY <1>3, <1>5, <2>1, <2>2 DEF MarkUsed, Answer
<1>6. ASSUME NEW r \in Request, Arrive(r) PROVE UNCHANGED retired
  BY <1>6 DEF Arrive, Refuse, Ask, Validate, Reads, rest, vars
<1>7. ASSUME NEW r \in Request, Step(r), ~ FindUsed(r), ~ MarkUsed(r)
      PROVE  UNCHANGED retired
  BY <1>7 DEF Step, PickRow, StoreToken, Mail, ChangePassword, Reads, rest
<1>8. QED BY <1>2, <1>4, <1>5, <1>6, <1>7
          DEF Next, Abort, Expire, Cleanup, Reads, rest, vars

-----------------------------------------------------------------------------
(* The theorems                                                            *)

LEMMA InitOK == PasswordResetAssumption /\ Init => IInv
BY IdleType DEF Init, IInv, TypeOK, RowsOK, HandlersOK, HandlerMemory, RowsStayTheirs,
   RetiredStaysDead, Usable, FreeRow, Row, Stored, Idle, At

LEMMA NextOK == PasswordResetAssumption /\ IInv /\ [Next]_vars => IInv'
<1> SUFFICES ASSUME PasswordResetAssumption, IInv, [Next]_vars PROVE IInv'
  OBVIOUS
<1>1. RowsStayTheirs'
  BY RowsStep, HandlersStep DEF RowsStayTheirs, HandlersOK, HandlerMemory, At
<1>2. QED BY <1>1, TypeStep, RowsStep, HandlersStep, RetiredStep DEF IInv

LEMMA Invariance == Spec => []IInv
BY InitOK, NextOK, PasswordResetAssumption, PTL DEF Spec

\* Every variable keeps its type in every reachable state.
THEOREM TypeCorrect == Spec => []TypeOK
<1>1. IInv => TypeOK BY DEF IInv
<1>2. QED BY <1>1, Invariance, PTL

\* A confirmation that has been answered leaves its token dead, although the
\* row is looked up by hash, updated by id, and may be replaced or cleaned up
\* in between.
THEOREM AnsweredTokensAreDead == Spec => []RetiredStaysDead
<1>1. IInv => RetiredStaysDead BY DEF IInv
<1>2. QED BY <1>1, Invariance, PTL

\* Rows and the handlers that will update them by id never cross accounts.
THEOREM RowsKeepTheirOwner == Spec => []RowsStayTheirs
<1>1. IInv => RowsStayTheirs BY DEF IInv
<1>2. QED BY <1>1, Invariance, PTL

\* No step makes a token usable again.
THEOREM NoTokenRevives == Spec => DeadStaysDead
<1>1. IInv /\ [Next]_vars =>
        [\A t \in Issued : (\A i \in ByHash(t) : ~ Usable(i))
           => \A i \in RowId : table'[i].hash = t => ~ Usable(i)']_vars
  BY StepSteady, DeadStep, PasswordResetAssumption DEF IInv
<1>2. QED BY <1>1, Invariance, PTL DEF Spec, DeadStaysDead
-----------------------------------------------------------------------------
(* Requests that do not overlap: the strengthened invariant                *)

\* A token has no history before it is issued, and the last one stored for an
\* account is the account's.
TokensOK == /\ expired \subseteq Issued
            /\ \A t \in Token \ Issued : changes[t] = 0
            /\ \A u \in User : latest[u] # NoToken => owner[latest[u]] = u

\* At most one handler is in flight.
Alone == \A r, q \in Request : r # q => At(r, "idle") \/ At(q, "idle")

\* What the handler in flight knows: nobody but the cleanup job has touched
\* the row it loaded, and nobody has used its token before it.
SerialMemory(r) ==
  /\ req[r].pc = "store" /\ req[r].row \in Stored
       => req[r].sawUsed = table[req[r].row].used
  /\ req[r].pc = "password" => changes[req[r].tok] = 0
  /\ req[r].pc \in {"find", "mark"} => changes[req[r].tok] > 0
  /\ req[r].pc = "mark" /\ req[r].row \in Stored
       => table[req[r].row].hash = req[r].tok

\* A handler is between the password and the mark of this token.
Marking(t) == \E r \in Request : req[r].pc \in {"find", "mark"} /\ req[r].tok = t

\* A row that still accepts a token that changed the password is about to be
\* marked.
SpentIsMarked == \A i \in RowId :
  Usable(i) /\ changes[table[i].hash] > 0 => Marking(table[i].hash)

SerialInv == /\ Alone
             /\ \A r \in Request : SerialMemory(r)
             /\ SpentIsMarked
             /\ OneTime

\* All of it: what always holds, and what holds while `serial` is true.
FullInv == IInv /\ TokensOK /\ (serial => SerialInv) /\ UsedWasUsed /\ LatestLinkWorks

-----------------------------------------------------------------------------
(* What each step does to the tokens                                       *)

LEMMA TokensStep ==
  ASSUME PasswordResetAssumption, IInv, TokensOK, [Next]_vars
  PROVE  TokensOK'
<1>0. TypeOK /\ Steady /\ Issued \subseteq Issued'
  BY StepSteady, SteadyIssued DEF IInv
<1>1. CASE UNCHANGED <<owner, expired, changes, latest>>
  BY <1>1 DEF TokensOK, Issued
<1>2. ASSUME NEW r \in Request, StoreToken(r) PROVE TokensOK'
  <2>1. UNCHANGED <<expired, changes>> BY <1>2 DEF StoreToken
  <2>2. req[r].user \in User
    BY <1>2 DEF IInv, HandlersOK, HandlerMemory, StoreToken, At
  <2>3. ASSUME NEW t \in Token, NEW i \in RowId, Written(r, t, i) PROVE TokensOK'
    <3>1. owner'[t] = req[r].user /\ t \notin Issued /\ latest'[req[r].user] = t
      BY <1>0, <2>2, <2>3 DEF Written, TypeOK
    <3>2. \A u \in User : u # req[r].user => latest'[u] = latest[u]
      BY <1>0, <2>3 DEF Written, TypeOK
    <3>3. \A x \in Token : x # t => owner'[x] = owner[x]
      BY <1>0, <2>3 DEF Written, TypeOK
    <3>4. ASSUME NEW u \in User, latest'[u] # NoToken PROVE owner'[latest'[u]] = u
      <4>1. CASE u = req[r].user BY <3>1, <4>1
      <4>2. CASE u # req[r].user
        <5>1. latest[u] \in Token /\ owner[latest[u]] = u
          BY <1>0, <3>2, <3>4, <4>2 DEF TokensOK, TypeOK
        <5>2. latest[u] \in Issued
          BY <5>1 DEF PasswordResetAssumption, Issued
        <5>3. QED BY <3>1, <3>2, <3>3, <4>2, <5>1, <5>2
      <4>3. QED BY <4>1, <4>2
    <3>5. QED BY <1>0, <2>1, <3>4 DEF TokensOK
  <2>4. QED BY <1>1, <1>2, <2>1, <2>3, StoreEffect
<1>3. ASSUME NEW r \in Request, ChangePassword(r) PROVE TokensOK'
  <2>1. req[r].tok \in Issued
    BY <1>3 DEF IInv, HandlersOK, HandlerMemory, ChangePassword, At
  <2>2. \A t \in Token \ Issued : changes'[t] = changes[t]
    BY <1>0, <1>3, <2>1 DEF ChangePassword, TypeOK
  <2>3. QED BY <1>3, <2>2 DEF ChangePassword, TokensOK, Issued
<1>4. ASSUME NEW t \in Token, Expire(t) PROVE TokensOK'
  BY <1>4 DEF Expire, rest, TokensOK, Issued
<1>5. ASSUME NEW r \in Request, Arrive(r) PROVE TokensOK'
  BY <1>1, <1>5 DEF Arrive, Refuse, Ask, Validate, Reads, rest, vars
<1>6. ASSUME NEW r \in Request, Step(r), ~ StoreToken(r), ~ ChangePassword(r)
      PROVE  TokensOK'
  BY <1>1, <1>6 DEF Step, PickRow, Mail, FindUsed, MarkUsed, Answer, Reads, rest
<1>7. CASE Cleanup BY <1>1, <1>7 DEF Cleanup, rest
<1>8. ASSUME NEW r \in Request, Abort(r) PROVE TokensOK'
  BY <1>1, <1>8 DEF Abort, Reads, rest
<1>9. CASE UNCHANGED vars BY <1>1, <1>9 DEF vars
<1>10. QED BY <1>2, <1>3, <1>4, <1>5, <1>6, <1>7, <1>8, <1>9 DEF Next

-----------------------------------------------------------------------------
(* One handler at a time                                                   *)

\* A step taken while no requests overlap leaves all other handlers idle.
LEMMA OthersIdle ==
  ASSUME FullInv, serial', NEW r \in Request, (Arrive(r) /\ ~ Refuse(r)) \/ Step(r)
  PROVE  /\ serial
         /\ \A x \in Request \ {r} : req[x].pc = "idle" /\ req'[x] = req[x]
<1>0. TypeOK BY DEF FullInv, IInv
<1>1. CASE Arrive(r) /\ ~ Refuse(r)
  <2>1. serial /\ \A x \in Request : req[x].pc = "idle"
    BY <1>1 DEF Arrive, Ask, Validate, Start, At
  <2>2. QED BY <1>0, <1>1, <2>1, Touches
<1>2. CASE Step(r)
  <2>1. serial
    BY <1>2 DEF Step, PickRow, StoreToken, Mail, ChangePassword, FindUsed, MarkUsed,
                Answer, Load, Goto, Finish
  <2>2. req[r].pc # "idle"
    BY <1>2 DEF Step, PickRow, StoreToken, Mail, ChangePassword, FindUsed, MarkUsed, At
  <2>3. QED BY <1>0, <1>2, <2>1, <2>2, Touches DEF FullInv, SerialInv, Alone, At
<1>3. QED BY <1>1, <1>2

LEMMA AloneStep ==
  ASSUME NEW r \in Request, \A x \in Request \ {r} : req[x].pc = "idle" /\ req'[x] = req[x]
  PROVE  Alone'
BY DEF Alone, At

\* It is enough to know what the acting handler knows.
LEMMA SerialMemories ==
  ASSUME NEW r \in Request, SerialMemory(r)',
         \A x \in Request \ {r} : req[x].pc = "idle" /\ req'[x] = req[x]
  PROVE  \A x \in Request : SerialMemory(x)'
BY DEF SerialMemory

\* Steps that touch neither rows nor passwords.
LEMMA ReadingStep ==
  ASSUME FullInv, UNCHANGED <<table, expired, changes, latest>>, serial' => serial
  PROVE  UsedWasUsed' /\ LatestLinkWorks' /\ (serial' => OneTime')
BY DEF FullInv, SerialInv, UsedWasUsed, LatestLinkWorks, OneTime, Stored, ByHash, Usable

-----------------------------------------------------------------------------
(* What each step leaves of the facts about a handler in flight alone      *)

SerialOK == SerialInv /\ UsedWasUsed /\ LatestLinkWorks

LEMMA MarkingIsMine ==
  ASSUME NEW r \in Request, \A x \in Request \ {r} : req[x].pc = "idle",
         NEW t, Marking(t)
  PROVE  req[r].pc \in {"find", "mark"} /\ req[r].tok = t
BY DEF Marking

\* Steps of a handler that is not about to mark, and that read only.
LEMMA QuietStep ==
  ASSUME FullInv, serial, serial', NEW r \in Request,
         \A x \in Request \ {r} : req[x].pc = "idle" /\ req'[x] = req[x],
         UNCHANGED <<table, expired, changes, latest>>,
         req[r].pc \notin {"find", "mark"}, SerialMemory(r)'
  PROVE  SerialOK'
<1>1. Alone' /\ \A x \in Request : SerialMemory(x)' BY AloneStep, SerialMemories
<1>2. SpentIsMarked'
  BY MarkingIsMine DEF FullInv, SerialInv, SpentIsMarked, Usable, Stored
<1>3. QED BY <1>1, <1>2, ReadingStep DEF SerialOK, SerialInv

LEMMA ArriveSerial ==
  ASSUME FullInv, serial', NEW r \in Request, Arrive(r), ~ Refuse(r)
  PROVE  SerialOK'
<1>0. /\ TypeOK /\ serial
      /\ \A x \in Request \ {r} : req[x].pc = "idle" /\ req'[x] = req[x]
  BY OthersIdle DEF FullInv, IInv
<1>1. req[r].pc = "idle" /\ UNCHANGED <<table, expired, changes, latest>>
  BY DEF Arrive, Ask, Validate, Start, At, Reads, rest
<1>2. ASSUME NEW u \in User, Ask(r, u) PROVE SerialMemory(r)'
  BY <1>0, <1>2 DEF Ask, Start, TypeOK, Idle, SerialMemory
<1>3. ASSUME NEW t \in Token, Validate(r, t) PROVE SerialMemory(r)'
  <2>1. req'[r].pc = "password" /\ req'[r].tok = t
    BY <1>0, <1>3 DEF Validate, Start, TypeOK, Idle
  <2>2. PICK i \in ByHash(t) : Usable(i) BY <1>3 DEF Validate
  <2>3. i \in RowId /\ table[i].hash = t BY <2>2 DEF ByHash, Stored
  <2>4. ~ Marking(t) BY <1>0, <1>1 DEF Marking
  <2>5. ~ (changes[t] > 0)
    BY <1>0, <2>2, <2>3, <2>4 DEF FullInv, SerialInv, SpentIsMarked
  <2>6. changes[t] = 0 BY <1>0, <2>5 DEF TypeOK
  <2>7. QED BY <1>1, <2>1, <2>6 DEF SerialMemory
<1>4. SerialMemory(r)' BY <1>2, <1>3 DEF Arrive
<1>5. QED BY <1>0, <1>1, <1>4, QuietStep

LEMMA PickSerial ==
  ASSUME FullInv, serial', NEW r \in Request, PickRow(r)
  PROVE  SerialOK'
<1>0. /\ TypeOK /\ serial
      /\ \A x \in Request \ {r} : req[x].pc = "idle" /\ req'[x] = req[x]
  BY OthersIdle DEF FullInv, IInv, Step
<1>1. req[r].pc = "pick" /\ UNCHANGED <<table, expired, changes, latest>>
  BY DEF PickRow, At, Reads, rest
<1>2. ASSUME NEW i \in RowsOf(req[r].user), Load(r, "store", i, table[i].used)
      PROVE  SerialMemory(r)'
  <2>1. req'[r].pc = "store" /\ req'[r].row = i /\ req'[r].sawUsed = table[i].used
    BY <1>0, <1>2 DEF Load, TypeOK, Handler
  <2>2. QED BY <1>1, <2>1 DEF SerialMemory
<1>3. ASSUME Load(r, "store", NoRow, FALSE) PROVE SerialMemory(r)'
  <2>1. req'[r].pc = "store" /\ req'[r].row = NoRow
    BY <1>0, <1>3 DEF Load, TypeOK, Handler
  <2>2. QED BY <2>1, PasswordResetAssumption DEF SerialMemory, Stored
<1>4. SerialMemory(r)' BY <1>2, <1>3 DEF PickRow
<1>5. QED BY <1>0, <1>1, <1>4, QuietStep

\* A new token works from the moment it is stored, and no other account's
\* token leaves its row.
LEMMA StoreSerial ==
  ASSUME FullInv, serial', NEW r \in Request, StoreToken(r)
  PROVE  SerialOK'
<1>0. /\ TypeOK /\ serial /\ IInv /\ Steady
      /\ \A x \in Request \ {r} : req[x].pc = "idle" /\ req'[x] = req[x]
  BY OthersIdle, StepSteady, PasswordResetAssumption DEF FullInv, IInv, Step, Next
<1>1. /\ req[r].pc = "store" /\ req[r].user \in User
      /\ UNCHANGED <<expired, changes>>
  BY <1>0 DEF StoreToken, At, HandlersOK, HandlerMemory, IInv
<1>2. CASE Finish(r) /\ UNCHANGED <<table, owner, latest>>
  <2>1. SerialMemory(r)' BY <1>0, <1>2, FinishType DEF SerialMemory
  <2>2. QED BY <1>0, <1>1, <1>2, <2>1, QuietStep
<1>3. ASSUME NEW t \in Token \ Issued, NEW i \in RowId, Written(r, t, i),
             ~ table'[i].used
      PROVE  SerialOK'
  <2>1. /\ req'[r].pc = "mail" /\ table'[i].hash = t /\ i \in Stored'
        /\ changes[t] = 0 /\ t \notin expired
        /\ \A j \in RowId \ {i} : table'[j] = table[j]
        /\ latest'[req[r].user] = t
        /\ \A u \in User : u # req[r].user => latest'[u] = latest[u]
    BY <1>0, <1>1, <1>3 DEF Written, TypeOK, Idle, Stored, FullInv, TokensOK
  <2>2. SerialMemory(r)' BY <2>1 DEF SerialMemory
  <2>3. Alone' /\ \A x \in Request : SerialMemory(x)'
    BY <1>0, <2>2, AloneStep, SerialMemories
  <2>4. SpentIsMarked'
    <3>1. \A j \in RowId : Usable(j) => ~ (changes[table[j].hash] > 0)
      BY <1>0, <1>1, MarkingIsMine DEF FullInv, SerialInv, SpentIsMarked
    <3>2. \A j \in RowId : Usable(j)' => ~ (changes[table'[j].hash] > 0)
      BY <1>1, <2>1, <3>1 DEF Usable, Stored
    <3>3. QED BY <1>1, <3>2 DEF SpentIsMarked
  <2>5. OneTime' BY <1>0, <1>1 DEF FullInv, SerialInv, OneTime
  <2>6. UsedWasUsed'
    BY <1>0, <1>1, <1>3, <2>1 DEF FullInv, UsedWasUsed, Stored
  <2>7. ASSUME NEW u \in User, latest'[u] # NoToken, latest'[u] \notin expired',
               changes'[latest'[u]] = 0
        PROVE  \E j \in Stored' : table'[j].hash = latest'[u] /\ Usable(j)'
    <3>1. CASE u = req[r].user
      BY <1>1, <1>3, <2>1, <3>1 DEF Usable
    <3>2. CASE u # req[r].user
      <4>1. latest'[u] = latest[u] BY <2>1, <3>2
      <4>2. PICK j \in ByHash(latest[u]) : Usable(j)
        BY <1>0, <1>1, <2>7, <4>1 DEF FullInv, LatestLinkWorks
      <4>3. j \in Stored /\ table[j].hash = latest[u] BY <4>2 DEF ByHash
      <4>4. table[j].user = u
        BY <1>0, <2>7, <4>1, <4>3 DEF FullInv, TokensOK, IInv, RowsStayTheirs
      <4>5. j # i BY <1>3, <3>2, <4>3, <4>4 DEF Written
      <4>6. table'[j] = table[j] BY <2>1, <4>3, <4>5 DEF Stored
      <4>7. QED BY <1>1, <4>1, <4>2, <4>3, <4>6 DEF ByHash, Usable, Stored
    <3>3. QED BY <3>1, <3>2
  <2>8. LatestLinkWorks' BY <2>7 DEF LatestLinkWorks, ByHash
  <2>9. QED BY <2>3, <2>4, <2>5, <2>6, <2>8 DEF SerialOK, SerialInv
<1>4. ASSUME NEW t \in Token, NEW i \in RowId, Written(r, t, i) PROVE ~ table'[i].used
  <2>1. table'[i].hash \notin Issued /\ table'[i] # table[i]
    <3>1. table'[i].hash = t /\ t \notin Issued BY <1>4 DEF Written
    <3>2. i \in Stored => table[i].hash \in Issued BY <1>0 DEF IInv, RowsOK
    <3>3. table'[i].status = "stored" BY <1>4 DEF Written
    <3>4. QED BY <3>1, <3>2, <3>3 DEF Stored
  <2>2. ASSUME NEW j \in FreeRows, NEW x \in Token,
               table' = [table EXCEPT ![j] = [status |-> "stored", user |-> req[r].user,
                                              hash |-> x, used |-> FALSE]]
        PROVE  ~ table'[i].used
    BY <1>0, <2>1, <2>2 DEF TypeOK, FreeRows
  <2>3. ASSUME NEW x \in Token, req[r].row \in Stored,
               table' = [table EXCEPT ![req[r].row].hash = x,
                                      ![req[r].row].used = @ /\ ~ req[r].sawUsed]
        PROVE  ~ table'[i].used
    <3>1. i = req[r].row BY <1>0, <2>1, <2>3 DEF TypeOK, Stored
    <3>2. req[r].sawUsed = table[i].used
      BY <1>0, <1>1, <2>3, <3>1 DEF FullInv, SerialInv, SerialMemory
    <3>3. table[i] \in Row BY <1>0 DEF TypeOK
    <3>4. [table[i] EXCEPT !.hash = x].used = table[i].used BY <3>3 DEF Row
    <3>5. ([table[i] EXCEPT !.hash = x].used /\ ~ req[r].sawUsed) = FALSE
      BY <3>2, <3>4, Zenon
    <3>6. table'[i] = [table[i] EXCEPT !.hash = x, !.used = FALSE]
      <4>1. i \in DOMAIN table BY <1>0 DEF TypeOK
      <4>2. QED BY <2>3, <3>1, <3>5, <4>1, Zenon
    <3>7. QED BY <3>3, <3>6 DEF Row
  <2>4. table' # table BY <2>1
  <2>5. QED BY <2>2, <2>3, <2>4 DEF StoreToken, Fresh
<1>5. QED BY <1>2, <1>3, <1>4, StoreEffect, <1>0 DEF Written

LEMMA MailSerial ==
  ASSUME FullInv, serial', NEW r \in Request, Mail(r)
  PROVE  SerialOK'
<1>0. /\ TypeOK /\ serial
      /\ \A x \in Request \ {r} : req[x].pc = "idle" /\ req'[x] = req[x]
  BY OthersIdle DEF FullInv, IInv, Step
<1>1. req[r].pc = "mail" /\ UNCHANGED <<table, expired, changes, latest>>
  BY DEF Mail, At, rest
<1>2. SerialMemory(r)' BY <1>0, FinishType DEF Mail, SerialMemory
<1>3. QED BY <1>0, <1>1, <1>2, QuietStep

\* The first confirmation with a token: whoever is to mark its row is at work.
LEMMA PasswordSerial ==
  ASSUME FullInv, serial', NEW r \in Request, ChangePassword(r)
  PROVE  SerialOK'
<1>0. /\ TypeOK /\ serial
      /\ \A x \in Request \ {r} : req[x].pc = "idle" /\ req'[x] = req[x]
  BY OthersIdle DEF FullInv, IInv, Step
<1>1. /\ req[r].pc = "password" /\ req[r].tok \in Token /\ changes[req[r].tok] = 0
      /\ UNCHANGED <<table, expired, latest>>
  BY <1>0 DEF ChangePassword, At, FullInv, IInv, HandlersOK, HandlerMemory, Issued,
              SerialInv, SerialMemory
<1>2. /\ changes'[req[r].tok] = 1
      /\ \A t \in Token : t # req[r].tok => changes'[t] = changes[t]
  BY <1>0, <1>1 DEF ChangePassword, TypeOK
<1>3. req'[r].pc = "find" /\ req'[r].tok = req[r].tok
  BY <1>0, GotoType DEF ChangePassword
<1>4. \A i \in Stored : table[i].hash \in Token
  BY DEF FullInv, IInv, RowsOK, Issued
<1>5. SerialMemory(r)' BY <1>2, <1>3 DEF SerialMemory
<1>6. Alone' /\ \A x \in Request : SerialMemory(x)'
  BY <1>0, <1>5, AloneStep, SerialMemories
<1>7. SpentIsMarked'
  <2>1. SUFFICES ASSUME NEW i \in RowId, Usable(i)', changes'[table[i].hash] > 0
                 PROVE  Marking(table[i].hash)'
    BY <1>1 DEF SpentIsMarked
  <2>2. Usable(i) /\ table[i].hash \in Token BY <1>1, <1>4, <2>1 DEF Usable, Stored
  <2>3. CASE table[i].hash = req[r].tok BY <1>1, <1>3, <2>3 DEF Marking
  <2>4. CASE table[i].hash # req[r].tok
    <3>1. Marking(table[i].hash)
      BY <1>0, <1>2, <2>1, <2>2, <2>4 DEF FullInv, SerialInv, SpentIsMarked
    <3>2. QED BY <1>0, <1>1, <3>1, MarkingIsMine
  <2>5. QED BY <2>3, <2>4
<1>8. OneTime' BY <1>0, <1>2 DEF FullInv, SerialInv, OneTime
<1>9. UsedWasUsed'
  BY <1>0, <1>1, <1>2, <1>4 DEF FullInv, UsedWasUsed, Stored
<1>10. LatestLinkWorks'
  <2>1. \A u \in User : latest[u] # NoToken /\ changes'[latest[u]] = 0
                        => changes[latest[u]] = 0
    BY <1>0, <1>2 DEF TypeOK
  <2>2. QED BY <1>0, <1>1, <2>1 DEF FullInv, LatestLinkWorks, ByHash, Usable, Stored
<1>11. QED BY <1>6, <1>7, <1>8, <1>9, <1>10 DEF SerialOK, SerialInv

\* Looking the row up again: it is there to be marked, or nobody will accept
\* the token any more.
LEMMA FindSerial ==
  ASSUME FullInv, serial', NEW r \in Request, FindUsed(r)
  PROVE  SerialOK'
<1>0. /\ TypeOK /\ serial
      /\ \A x \in Request \ {r} : req[x].pc = "idle" /\ req'[x] = req[x]
  BY OthersIdle DEF FullInv, IInv, Step
<1>1. /\ req[r].pc = "find" /\ changes[req[r].tok] > 0
      /\ UNCHANGED <<table, expired, changes, latest>>
  BY <1>0 DEF FindUsed, At, FullInv, SerialInv, SerialMemory
<1>2. \A i \in RowId : Usable(i) /\ changes[table[i].hash] > 0
                        => table[i].hash = req[r].tok
  BY <1>0, MarkingIsMine DEF FullInv, SerialInv, SpentIsMarked
<1>3. ASSUME NEW i \in ByHash(req[r].tok), Load(r, "mark", i, table[i].used)
      PROVE  SerialMemory(r)' /\ SpentIsMarked'
  <2>1. i \in Stored /\ i \in RowId /\ table[i].hash = req[r].tok BY DEF ByHash, Stored
  <2>2. req'[r].pc = "mark" /\ req'[r].row = i /\ req'[r].tok = req[r].tok
    BY <1>0, <1>3 DEF Load, TypeOK, Handler
  <2>3. SerialMemory(r)' BY <1>1, <2>1, <2>2 DEF SerialMemory
  <2>4. SpentIsMarked'
    BY <1>1, <1>2, <2>2 DEF SpentIsMarked, Marking, Usable, Stored
  <2>5. QED BY <2>3, <2>4
<1>4. ASSUME ByHash(req[r].tok) = {}, Answer(r)
      PROVE  SerialMemory(r)' /\ SpentIsMarked'
  <2>1. SerialMemory(r)' BY <1>0, <1>4, FinishType DEF Answer, SerialMemory
  <2>2. \A i \in RowId : ~ (Usable(i) /\ changes[table[i].hash] > 0)
    BY <1>2, <1>4 DEF Usable, ByHash
  <2>3. QED BY <1>1, <2>1, <2>2 DEF SpentIsMarked, Usable, Stored
<1>5. SerialMemory(r)' /\ SpentIsMarked' BY <1>3, <1>4 DEF FindUsed
<1>6. Alone' /\ \A x \in Request : SerialMemory(x)'
  BY <1>0, <1>5, AloneStep, SerialMemories
<1>7. QED BY <1>0, <1>1, <1>5, <1>6, ReadingStep DEF SerialOK, SerialInv

\* The mark goes to the row of the token, the only one that still accepts it.
LEMMA MarkSerial ==
  ASSUME FullInv, serial', NEW r \in Request, MarkUsed(r)
  PROVE  SerialOK'
<1>0. /\ TypeOK /\ serial
      /\ \A x \in Request \ {r} : req[x].pc = "idle" /\ req'[x] = req[x]
  BY OthersIdle DEF FullInv, IInv, Step
<1>1. /\ req[r].pc = "mark" /\ changes[req[r].tok] > 0
      /\ req[r].row \in Stored => table[req[r].row].hash = req[r].tok
      /\ \A i \in ByHash(req[r].tok) : i = req[r].row
      /\ UNCHANGED <<expired, changes, latest>>
  BY <1>0 DEF MarkUsed, At, FullInv, SerialInv, SerialMemory, IInv, HandlersOK,
              HandlerMemory
<1>2. \A i \in RowId :
        /\ table'[i].status = table[i].status /\ table'[i].hash = table[i].hash
        /\ i # req[r].row => table'[i].used = table[i].used
        /\ i = req[r].row /\ i \in Stored => table'[i].used
  BY <1>0 DEF MarkUsed, TypeOK, Row, Stored
<1>3. SerialMemory(r)' BY <1>0, FinishType DEF MarkUsed, Answer, SerialMemory
<1>4. Alone' /\ \A x \in Request : SerialMemory(x)'
  BY <1>0, <1>3, AloneStep, SerialMemories
<1>5. SpentIsMarked'
  <2>1. SUFFICES ASSUME NEW i \in RowId, Usable(i)', changes[table[i].hash] > 0
                 PROVE  FALSE
    BY <1>1, <1>2 DEF SpentIsMarked
  <2>2. i \in Stored /\ i # req[r].row BY <1>2, <2>1 DEF Usable, Stored
  <2>3. Usable(i) BY <1>1, <1>2, <2>1, <2>2 DEF Usable
  <2>4. table[i].hash = req[r].tok
    BY <1>0, <2>1, <2>3, MarkingIsMine DEF FullInv, SerialInv, SpentIsMarked
  <2>5. QED BY <1>1, <2>2, <2>4 DEF ByHash
<1>6. OneTime' BY <1>0, <1>1 DEF FullInv, SerialInv, OneTime
<1>7. UsedWasUsed'
  <2>1. SUFFICES ASSUME NEW i \in RowId, i \in Stored, table'[i].used
                 PROVE  changes[table[i].hash] > 0
    BY <1>1, <1>2 DEF UsedWasUsed, Stored
  <2>2. CASE i = req[r].row BY <1>1, <2>1, <2>2
  <2>3. CASE i # req[r].row BY <1>0, <1>2, <2>1, <2>3 DEF FullInv, UsedWasUsed
  <2>4. QED BY <2>2, <2>3
<1>8. LatestLinkWorks'
  <2>1. SUFFICES ASSUME NEW u \in User, latest[u] # NoToken, latest[u] \notin expired,
                        changes[latest[u]] = 0
                 PROVE  \E i \in Stored' : table'[i].hash = latest[u] /\ Usable(i)'
    BY <1>1 DEF LatestLinkWorks, ByHash
  <2>2. PICK i \in ByHash(latest[u]) : Usable(i)
    BY <1>0, <2>1 DEF FullInv, LatestLinkWorks
  <2>3. i \in Stored /\ i \in RowId /\ table[i].hash = latest[u] BY <2>2 DEF ByHash, Stored
  <2>4. i # req[r].row BY <1>1, <2>1, <2>3
  <2>5. QED BY <1>1, <1>2, <2>2, <2>3, <2>4 DEF Usable, Stored
<1>9. QED BY <1>4, <1>5, <1>6, <1>7, <1>8 DEF SerialOK, SerialInv

\* The cleanup job and the clock: a row whose token is still good is not old.
LEMMA AroundSerial ==
  ASSUME FullInv, serial', Cleanup \/ \E t \in Token : Expire(t)
  PROVE  SerialOK'
<1>0. /\ TypeOK /\ serial /\ expired \subseteq expired'
      /\ UNCHANGED <<req, changes, latest>>
  BY DEF FullInv, IInv, Cleanup, Expire, rest
<1>1. \A i \in Stored' : i \in Stored /\ table'[i] = table[i]
  BY <1>0 DEF Cleanup, Expire, FreeRow, TypeOK, Stored
<1>2. \A i \in RowId : Usable(i) /\ table[i].hash \notin expired'
                        => table'[i] = table[i]
  BY <1>0 DEF Cleanup, Expire, TypeOK, Usable, Old
<1>3. \A i \in RowId : Usable(i)' => Usable(i) /\ table'[i] = table[i]
  BY <1>0, <1>1 DEF Usable
<1>4. Alone' BY <1>0 DEF FullInv, SerialInv, Alone, At
<1>5. \A x \in Request : SerialMemory(x)'
  BY <1>0, <1>1 DEF FullInv, SerialInv, SerialMemory
<1>6. SpentIsMarked'
  BY <1>0, <1>3 DEF FullInv, SerialInv, SpentIsMarked, Marking
<1>7. OneTime' BY <1>0 DEF FullInv, SerialInv, OneTime
<1>8. UsedWasUsed' BY <1>0, <1>1 DEF FullInv, UsedWasUsed
<1>9. LatestLinkWorks'
  <2>1. SUFFICES ASSUME NEW u \in User, latest[u] # NoToken, latest[u] \notin expired',
                        changes[latest[u]] = 0
                 PROVE  \E i \in Stored' : table'[i].hash = latest[u] /\ Usable(i)'
    BY <1>0 DEF LatestLinkWorks, ByHash
  <2>2. PICK i \in ByHash(latest[u]) : Usable(i)
    BY <1>0, <2>1 DEF FullInv, LatestLinkWorks
  <2>3. i \in RowId /\ table[i].hash = latest[u] BY <2>2 DEF ByHash, Stored
  <2>4. table'[i] = table[i] BY <1>2, <2>1, <2>2, <2>3
  <2>5. QED BY <2>1, <2>2, <2>3, <2>4 DEF Usable, Stored
<1>10. QED BY <1>4, <1>5, <1>6, <1>7, <1>8, <1>9 DEF SerialOK, SerialInv

LEMMA SerialStep ==
  ASSUME FullInv, [Next]_vars, serial'
  PROVE  SerialOK'
<1>1. CASE UNCHANGED vars
  <2>1. serial BY <1>1 DEF vars
  <2>2. UNCHANGED <<table, req, expired, changes, latest>> BY <1>1 DEF vars
  <2>3. Alone' BY <2>1, <2>2 DEF FullInv, SerialInv, Alone, At
  <2>4. \A x \in Request : SerialMemory(x)'
    BY <2>1, <2>2 DEF FullInv, SerialInv, SerialMemory, Stored
  <2>5. SpentIsMarked'
    BY <2>1, <2>2 DEF FullInv, SerialInv, SpentIsMarked, Marking, Usable, Stored
  <2>6. QED BY <2>1, <2>2, <2>3, <2>4, <2>5, ReadingStep DEF SerialOK, SerialInv
<1>2. ASSUME NEW r \in Request, Step(r) PROVE SerialOK'
  BY <1>2, PickSerial, StoreSerial, MailSerial, PasswordSerial, FindSerial, MarkSerial
     DEF Step
<1>3. ASSUME NEW r \in Request, Arrive(r) PROVE SerialOK'
  BY <1>1, <1>3, ArriveSerial DEF Refuse
<1>4. ASSUME NEW r \in Request, Abort(r) PROVE FALSE
  BY <1>4 DEF Abort
<1>5. QED BY <1>1, <1>2, <1>3, <1>4, AroundSerial DEF Next

-----------------------------------------------------------------------------
(* The theorems about requests that do not overlap                         *)

LEMMA FullInvariance == Spec => []FullInv
<1>1. Init => FullInv
  <2>1. SUFFICES ASSUME Init PROVE FullInv
    OBVIOUS
  <2>2. IInv BY <2>1, InitOK, PasswordResetAssumption
  <2>3. Stored = {} /\ \A r \in Request : req[r].pc = "idle"
    BY <2>1 DEF Init, Stored, FreeRow, Idle
  <2>4. TokensOK BY <2>1 DEF Init, TokensOK, Issued
  <2>5. SerialInv
    BY <2>1, <2>3 DEF Init, SerialInv, Alone, At, SerialMemory, SpentIsMarked, Usable,
                      OneTime
  <2>6. UsedWasUsed /\ LatestLinkWorks
    BY <2>1, <2>3 DEF Init, UsedWasUsed, LatestLinkWorks
  <2>7. QED BY <2>2, <2>4, <2>5, <2>6 DEF FullInv
<1>2. FullInv /\ [Next]_vars => FullInv'
  <2>1. SUFFICES ASSUME FullInv, [Next]_vars PROVE FullInv'
    OBVIOUS
  <2>2. IInv' /\ TokensOK'
    BY <2>1, NextOK, TokensStep, PasswordResetAssumption DEF FullInv
  <2>3. serial' => SerialOK' BY <2>1, SerialStep
  <2>4. ~ serial' => UsedWasUsed' /\ LatestLinkWorks'
    BY DEF UsedWasUsed, LatestLinkWorks
  <2>5. QED BY <2>2, <2>3, <2>4 DEF FullInv, SerialOK
<1>3. QED BY <1>1, <1>2, PTL DEF Spec

\* The links are one-time as long as requests do not overlap, although the
\* password is changed before the row is marked and the cleanup job may take
\* the row away in between.
THEOREM SerialLinksAreOneTime == Spec => []SerialOneTime
<1>1. FullInv => SerialOneTime BY DEF FullInv, SerialInv, SerialOneTime
<1>2. QED BY <1>1, FullInvariance, PTL

\* As long as requests do not overlap, a row is marked used only for a token
\* that changed the password: used_at is reset with every new token, and the
\* mark, by primary key, does not hit a newer one.
THEOREM MarksAreTrue == Spec => []UsedWasUsed
<1>1. FullInv => UsedWasUsed BY DEF FullInv
<1>2. QED BY <1>1, FullInvariance, PTL

\* As long as requests do not overlap, nothing but its use and its time takes
\* the link of the last answered request away.
THEOREM LatestLinkStays == Spec => []LatestLinkWorks
<1>1. FullInv => LatestLinkWorks BY DEF FullInv
<1>2. QED BY <1>1, FullInvariance, PTL

-----------------------------------------------------------------------------
(* One row per account                                                     *)

OneRow == \A i, j \in Stored : table[i].user = table[j].user => i = j

\* A row comes into being only for an account that has none.
LEMMA NewRow ==
  ASSUME IInv, [Next]_vars, NEW i \in Stored', i \notin Stored
  PROVE  /\ \A j \in Stored : table[j].user # table'[i].user
         /\ \A j \in Stored' : j # i => j \in Stored
<1>0. TypeOK /\ i \in RowId BY DEF IInv, Stored
<1>1. PICK r \in Request : StoreToken(r) /\ table' # table
  <2>1. ASSUME UNCHANGED table PROVE FALSE BY <2>1 DEF Stored
  <2>2. ASSUME NEW r \in Request, MarkUsed(r) PROVE FALSE
    <3>1. table'[i].status = table[i].status
      BY <1>0, <2>2 DEF MarkUsed, TypeOK, Row, Stored
    <3>2. QED BY <3>1 DEF Stored
  <2>3. CASE Cleanup
    <3>1. table'[i] = table[i] \/ table'[i].status = "deleted"
      BY <1>0, <2>3 DEF Cleanup, FreeRow, TypeOK
    <3>2. QED BY <3>1 DEF Stored
  <2>4. ASSUME NEW r \in Request, Step(r), ~ StoreToken(r), ~ MarkUsed(r)
        PROVE  UNCHANGED table
    BY <2>4 DEF Step, PickRow, Mail, ChangePassword, FindUsed, Reads
  <2>5. ASSUME NEW r \in Request, Arrive(r) \/ Abort(r) PROVE UNCHANGED table
    BY <2>5 DEF Arrive, Refuse, Ask, Validate, Abort, Reads, vars
  <2>6. QED BY <2>1, <2>2, <2>3, <2>4, <2>5 DEF Next, Expire, vars
<1>2. PICK t \in Token, k \in RowId : Written(r, t, k) BY <1>1, StoreEffect
<1>3. \A j \in RowId \ {k} : table'[j] = table[j] BY <1>2 DEF Written
<1>4. i = k BY <1>0, <1>3 DEF Stored
<1>5. QED BY <1>2, <1>3, <1>4 DEF Written, NoRowOf, RowsOf, Stored

LEMMA OneRowStep ==
  ASSUME PasswordResetAssumption, IInv, OneRow, [Next]_vars
  PROVE  OneRow'
<1>0. TypeOK /\ Steady BY StepSteady DEF IInv
<1>1. SUFFICES ASSUME NEW i \in Stored', NEW j \in Stored', i # j,
                      table'[i].user = table'[j].user
               PROVE  FALSE
  BY DEF OneRow
<1>2. \A k \in Stored' : k \in Stored => table'[k].user = table[k].user
  BY <1>0 DEF Steady, Stored
<1>3. CASE i \in Stored /\ j \in Stored BY <1>1, <1>2, <1>3 DEF OneRow
<1>4. CASE i \notin Stored BY <1>1, <1>2, <1>4, NewRow
<1>5. CASE j \notin Stored BY <1>1, <1>2, <1>5, NewRow
<1>6. QED BY <1>3, <1>4, <1>5

-----------------------------------------------------------------------------
(* Confirmations under way                                                 *)

\* A handler looks for its row when the password has been changed; the row that
\* it will mark is its account's, whatever token that carries by then.
Confirmation(r) ==
  /\ req[r].pc \in {"find", "mark"} => changes[req[r].tok] > 0
  /\ req[r].pc = "mark" /\ req[r].row \in RowId => table[req[r].row].status # "free"
  /\ req[r].pc = "mark" /\ req[r].row \in Stored
       => table[req[r].row].user = owner[req[r].tok]

LinksInv == IInv /\ OneRow /\ \A r \in Request : Confirmation(r)

LEMMA ChangesGrow ==
  ASSUME TypeOK, [Next]_vars, NEW t \in Token, changes[t] > 0
  PROVE  changes'[t] > 0
<1>1. ASSUME NEW r \in Request, ChangePassword(r) PROVE changes'[t] > 0
  <2>1. changes[t] \in 0..2 BY DEF TypeOK
  <2>2. changes'[t] = changes[t] \/ changes'[t] = IF changes[t] < 2 THEN changes[t] + 1
                                                  ELSE changes[t]
    BY <1>1 DEF ChangePassword, TypeOK
  <2>3. QED BY <2>1, <2>2
<1>2. ASSUME NEW r \in Request, Step(r), ~ ChangePassword(r) PROVE UNCHANGED changes
  BY <1>2 DEF Step, PickRow, StoreToken, Mail, FindUsed, MarkUsed, Reads, rest
<1>3. ASSUME NEW r \in Request, Arrive(r) \/ Abort(r) PROVE UNCHANGED changes
  BY <1>3 DEF Arrive, Refuse, Ask, Validate, Abort, Reads, rest, vars
<1>4. QED BY <1>1, <1>2, <1>3 DEF Next, Expire, Cleanup, rest, vars

LEMMA WaitingConfirmation ==
  ASSUME LinksInv, [Next]_vars, Steady, NEW x \in Request, req'[x] = req[x]
  PROVE  Confirmation(x)'
<1>0. TypeOK /\ HandlerMemory(x) /\ Confirmation(x) BY DEF LinksInv, IInv, HandlersOK
<1>1. req[x].pc \in {"find", "mark"} => changes'[req[x].tok] > 0
  BY <1>0, ChangesGrow DEF HandlerMemory, Confirmation, Issued
<1>2. req[x].pc = "mark" /\ req[x].row \in RowId => table'[req[x].row].status # "free"
  BY <1>0 DEF Confirmation, Steady
<1>3. ASSUME req[x].pc = "mark", req[x].row \in Stored'
      PROVE  table'[req[x].row].user = owner'[req[x].tok]
  <2>1. req[x].row \in RowId /\ req[x].tok \in Issued
    BY <1>0, <1>3 DEF Stored, HandlerMemory
  <2>2. req[x].row \in Stored /\ table'[req[x].row].user = table[req[x].row].user
    BY <1>0, <1>3, <2>1 DEF Confirmation, Steady
  <2>3. QED BY <1>0, <1>3, <2>1, <2>2 DEF Confirmation, Steady
<1>4. QED BY <1>1, <1>2, <1>3 DEF Confirmation

LEMMA SteppedConfirmation ==
  ASSUME LinksInv, NEW r \in Request, Step(r)
  PROVE  Confirmation(r)'
<1>0. /\ TypeOK /\ RowsStayTheirs /\ RowsOK
      /\ HandlerMemory(r) /\ Confirmation(r)
  BY DEF LinksInv, IInv, HandlersOK
<1>1. ASSUME req'[r].pc \notin {"find", "mark"} PROVE Confirmation(r)'
  BY <1>1 DEF Confirmation
<1>2. ASSUME Finish(r) PROVE Confirmation(r)' BY <1>0, <1>1, <1>2, FinishType
<1>3. CASE PickRow(r)
  <2>1. ASSUME NEW i, NEW u, Load(r, "store", i, u) PROVE req'[r].pc = "store"
    BY <1>0, <2>1 DEF Load, TypeOK, Handler
  <2>2. QED BY <1>1, <1>3, <2>1 DEF PickRow
<1>4. CASE StoreToken(r)
  <2>1. ASSUME NEW t \in Token, NEW i \in RowId, Written(r, t, i)
        PROVE  req'[r].pc = "mail"
    BY <1>0, <2>1 DEF Written, TypeOK, Idle
  <2>2. QED BY <1>1, <1>2, <1>4, <2>1, StoreEffect DEF LinksInv
<1>5. CASE Mail(r) BY <1>2, <1>5 DEF Mail
<1>6. CASE ChangePassword(r)
  <2>1. req'[r].pc = "find" /\ req'[r].tok = req[r].tok
    BY <1>0, <1>6, GotoType DEF ChangePassword
  <2>2. req[r].tok \in Token
    BY <1>0, <1>6 DEF ChangePassword, HandlerMemory, At, Issued
  <2>3. changes'[req[r].tok] > 0
    <3>1. changes[req[r].tok] \in 0..2 BY <1>0, <2>2 DEF TypeOK
    <3>2. changes'[req[r].tok] = IF changes[req[r].tok] < 2 THEN changes[req[r].tok] + 1
                                 ELSE changes[req[r].tok]
      BY <1>0, <1>6, <2>2 DEF ChangePassword, TypeOK
    <3>3. QED BY <3>1, <3>2
  <2>4. QED BY <2>1, <2>3 DEF Confirmation
<1>7. CASE FindUsed(r)
  <2>1. ASSUME NEW i \in ByHash(req[r].tok), Load(r, "mark", i, table[i].used)
        PROVE  Confirmation(r)'
    <3>1. /\ i \in RowId /\ i \in Stored /\ table[i].hash = req[r].tok
          /\ table[i].used \in BOOLEAN /\ table[i].status = "stored"
      BY <1>0 DEF ByHash, Stored, TypeOK, Row
    <3>2. req'[r].pc = "mark" /\ req'[r].row = i /\ req'[r].tok = req[r].tok
      BY <1>0, <2>1, <3>1, LoadType
    <3>3. UNCHANGED <<table, owner, changes>> /\ req[r].pc = "find"
      BY <1>7 DEF FindUsed, At
    <3>4. table[i].user = owner[req[r].tok] BY <1>0, <3>1 DEF RowsStayTheirs
    <3>5. QED BY <1>0, <3>1, <3>2, <3>3, <3>4 DEF Confirmation
  <2>2. QED BY <1>2, <1>7, <2>1 DEF FindUsed, Answer
<1>8. CASE MarkUsed(r) BY <1>2, <1>8 DEF MarkUsed, Answer
<1>9. QED BY <1>3, <1>4, <1>5, <1>6, <1>7, <1>8 DEF Step

LEMMA LinksInvStep == LinksInv /\ [Next]_vars => LinksInv'
<1> SUFFICES ASSUME LinksInv, [Next]_vars PROVE LinksInv'
  OBVIOUS
<1>0. IInv /\ OneRow /\ TypeOK /\ Steady
  BY StepSteady, PasswordResetAssumption DEF LinksInv, IInv
<1>1. IInv' /\ OneRow' BY <1>0, NextOK, OneRowStep, PasswordResetAssumption
<1>2. ASSUME NEW x \in Request PROVE Confirmation(x)'
  <2>1. CASE req'[x] = req[x] BY <1>0, <2>1, WaitingConfirmation
  <2>2. ASSUME NEW r \in Request, Arrive(r) \/ Step(r) \/ Abort(r), req'[x] # req[x]
        PROVE  Confirmation(x)'
    <3>1. x = r BY <1>0, <2>2, Touches
    <3>2. CASE Step(r) BY <3>1, <3>2, SteppedConfirmation
    <3>3. CASE Arrive(r) \/ Abort(r)
      <4>1. req'[r].pc \in {"idle", "pick", "password"}
        BY <1>0, <2>2, <3>1, <3>3, IdleType
           DEF Arrive, Refuse, Ask, Validate, Abort, Start, TypeOK, Idle, vars
      <4>2. QED BY <3>1, <4>1 DEF Confirmation
    <3>4. QED BY <2>2, <3>2, <3>3
  <2>3. QED BY <2>1, <2>2 DEF Next, Expire, Cleanup, vars
<1>3. QED BY <1>1, <1>2 DEF LinksInv

LEMMA LinksInvariance == Spec => []LinksInv
<1>1. Init => LinksInv
  <2> SUFFICES ASSUME Init PROVE LinksInv
    OBVIOUS
  <2>1. Stored = {} /\ \A r \in Request : req[r].pc = "idle"
    BY DEF Init, Stored, FreeRow, Idle
  <2>2. QED BY <2>1, InitOK, PasswordResetAssumption DEF LinksInv, OneRow, Confirmation
<1>2. QED BY <1>1, LinksInvStep, PTL DEF Spec

-----------------------------------------------------------------------------
(* The promise                                                             *)

\* Whether a link would be accepted.
Works(t) == \E i \in Stored : table[i].hash = t /\ Usable(i)

LEMMA LinkTable ==
  ASSUME RowsOK
  PROVE  /\ \A t \in Token : t \in Links!Good <=> Works(t)
         /\ \A t \in Token : LinkState[t] = "none" <=> t \notin Issued
BY DEF RowsOK, Links!Good, LinkState, Works, ByHash

\* A step that issues nothing can only let links die.
LEMMA LinksDie ==
  ASSUME IInv, Steady, UNCHANGED owner, NEW S,
         \A t \in Issued : Works(t) => (Works(t)' <=> t \notin S)
  PROVE  LinkState' = Links!Without(S)
<1>0. TypeOK /\ RowsOK BY DEF IInv
<1>1. Issued' = Issued BY DEF Issued
<1>2. \A t \in Issued : Works(t)' => Works(t)
  BY <1>0, DeadStep DEF Works, ByHash, Stored
<1>3. \A t \in Token : LinkState'[t] = IF t \notin Issued THEN "none"
                                       ELSE IF Works(t)' THEN "good" ELSE "dead"
  BY <1>1 DEF LinkState, Works, ByHash
<1>4. \A t \in Token : LinkState[t] = IF t \notin Issued THEN "none"
                                      ELSE IF Works(t) THEN "good" ELSE "dead"
  BY DEF LinkState, Works, ByHash
<1>5. \A t \in Token : LinkState'[t] = IF t \in S \cap Links!Good THEN "dead"
                                       ELSE LinkState[t]
  <2>1. TAKE t \in Token
  <2>2. t \in Links!Good <=> t \in Issued /\ Works(t)
    BY <1>0, LinkTable DEF RowsOK, Works
  <2>3. QED BY <1>2, <1>3, <1>4, <2>2
<1>6. QED BY <1>5 DEF LinkState, Links!Without

LEMMA LinksStay ==
  ASSUME IInv, UNCHANGED <<table, owner, expired>>
  PROVE  LinkState' = LinkState
BY DEF LinkState, Issued, ByHash, Usable, Stored

\* Who has presented a link.
LEMMA AcceptedStay ==
  ASSUME NEW r \in Request, \A x \in Request \ {r} : req'[x] = req[x],
         req[r].pc # "password", req'[r].pc # "password"
  PROVE  Accepted' = Accepted
BY DEF Accepted, At

LEMMA AcceptedLeave ==
  ASSUME NEW r \in Request, \A x \in Request \ {r} : req'[x] = req[x],
         req[r].pc = "password", req'[r].pc # "password"
  PROVE  Accepted' \in {Accepted, Accepted \ {req[r].tok}}
<1>1. \A t \in Token : t # req[r].tok => (t \in Accepted' <=> t \in Accepted)
  BY DEF Accepted, At
<1>2. Accepted' \subseteq Accepted BY DEF Accepted, At
<1>3. Accepted \subseteq Token BY DEF Accepted
<1>4. QED BY <1>1, <1>2, <1>3

LEMMA InitLinks == Init => Links!Init
<1> SUFFICES ASSUME Init PROVE Links!Init
  OBVIOUS
<1>1. Issued = {} BY DEF Init, Issued
<1>2. LinkState = [t \in Token |-> "none"] BY <1>1 DEF LinkState
<1>3. Accepted = {} /\ Spent = {} BY DEF Init, Accepted, At, Idle, Spent
<1>4. QED BY <1>2, <1>3 DEF Init, Links!Init

\* A step that leaves the rows, the clock and the confirmations alone.
LEMMA OtherStep ==
  ASSUME IInv, UNCHANGED <<table, owner, expired, changes, retired>>,
         Accepted' = Accepted
  PROVE  UNCHANGED Links!vars
BY LinksStay DEF Links!vars, Spent

LEMMA ArriveLinks ==
  ASSUME LinksInv, NEW r \in Request, Arrive(r)
  PROVE  [Links!Next]_(Links!vars)
<1>0. IInv /\ TypeOK /\ RowsOK BY DEF LinksInv, IInv
<1>1. \A x \in Request \ {r} : req'[x] = req[x] BY <1>0, Touches
<1>2. CASE Refuse(r)
  <2>1. Accepted' = Accepted BY <1>2 DEF Refuse, vars, Accepted, At
  <2>2. QED BY <1>0, <1>2, <2>1, OtherStep DEF Refuse, vars
<1>3. ASSUME NEW u \in User, Ask(r, u) PROVE UNCHANGED Links!vars
  <2>1. req[r].pc = "idle" /\ req'[r].pc = "pick"
    BY <1>0, <1>3 DEF Ask, Start, At, TypeOK, Idle
  <2>2. Accepted' = Accepted BY <1>1, <2>1, AcceptedStay
  <2>3. QED BY <1>0, <1>3, <2>2, OtherStep DEF Ask, Reads, rest
<1>4. ASSUME NEW t \in Token, Validate(r, t) PROVE Links!Accept(t)
  <2>1. req[r].pc = "idle" /\ req'[r].pc = "password" /\ req'[r].tok = t
    BY <1>0, <1>4 DEF Validate, Start, At, TypeOK, Idle
  <2>2. Accepted' = Accepted \cup {t} BY <1>1, <2>1 DEF Accepted, At
  <2>3. t \in Links!Good BY <1>0, <1>4, LinkTable DEF Validate, Works, ByHash
  <2>4. UNCHANGED <<LinkState, owner, Spent, retired>>
    BY <1>0, <1>4, LinksStay DEF Validate, Reads, rest, Spent
  <2>5. QED BY <2>2, <2>3, <2>4 DEF Links!Accept
<1>5. QED BY <1>2, <1>3, <1>4 DEF Arrive, Links!Next

\* A new link takes the place of the account's good one, if there was one: both
\* are in the row of the account.
LEMMA StoreLinks ==
  ASSUME LinksInv, NEW r \in Request, StoreToken(r)
  PROVE  [Links!Next]_(Links!vars)
<1>0. /\ IInv /\ TypeOK /\ RowsOK /\ RowsStayTheirs /\ OneRow
      /\ req[r].user \in User /\ req[r].pc = "store"
  BY DEF LinksInv, IInv, HandlersOK, HandlerMemory, StoreToken, At
<1>1. UNCHANGED <<expired, changes, retired>> BY DEF StoreToken
<1>2. \A x \in Request \ {r} : req'[x] = req[x] BY <1>0, Touches DEF Step
<1>3. CASE Finish(r) /\ UNCHANGED <<table, owner, latest>>
  <2>1. Accepted' = Accepted BY <1>0, <1>2, <1>3, FinishType, AcceptedStay
  <2>2. QED BY <1>0, <1>1, <1>3, <2>1, OtherStep
<1>4. ASSUME NEW t \in Token, NEW i \in RowId, Written(r, t, i)
      PROVE  Links!Issue(t, req[r].user)
  <2> DEFINE u == req[r].user
  <2>1. /\ t \notin Issued /\ owner' = [owner EXCEPT ![t] = u]
        /\ table'[i].status = "stored" /\ table'[i].user = u /\ table'[i].hash = t
        /\ \A j \in RowId \ {i} : table'[j] = table[j]
        /\ i \in Stored => table[i].user = u
        /\ i \in Stored \/ RowsOf(u) = {}
    BY <1>4 DEF Written, NoRowOf
  <2>2. Issued' = Issued \cup {t}
    BY <1>0, <2>1, PasswordResetAssumption DEF PasswordResetAssumption, TypeOK, Issued
  <2>3. \A x \in Issued : x # t BY <2>1
  <2>4. \A x \in Issued : Works(x)' <=> \E j \in Stored : /\ j # i /\ table[j].hash = x
                                                          /\ Usable(j)
    BY <1>1, <2>1, <2>3 DEF Works, Usable, Stored
  <2>5. \A j \in Stored : j # i => table[j].user # u
    BY <1>0, <2>1 DEF OneRow, RowsOf
  <2>6. \A x \in Issued : Works(x)' <=> Works(x) /\ owner[x] # u
    <3>1. \A j \in Stored : owner[table[j].hash] = table[j].user
      BY <1>0 DEF RowsStayTheirs
    <3>2. i \in Stored => table[i].user = u BY <2>1
    <3>3. QED BY <2>4, <2>5, <3>1, <3>2 DEF Works
  <2>7. PICK fate \in {"good", "dead"} : fate = IF Works(t)' THEN "good" ELSE "dead"
    OBVIOUS
  <2>8. \A x \in Token : LinkState'[x] = IF x \notin Issued' THEN "none"
                                         ELSE IF Works(x)' THEN "good" ELSE "dead"
    BY DEF LinkState, Works, ByHash
  <2>9. \A x \in Token : LinkState[x] = IF x \notin Issued THEN "none"
                                        ELSE IF Works(x) THEN "good" ELSE "dead"
    BY DEF LinkState, Works, ByHash
  <2>10. \A x \in Token : Links!Without(Links!LinksOf(u))[x] =
                            IF owner[x] = u /\ Works(x) THEN "dead" ELSE LinkState[x]
    BY <1>0, LinkTable DEF Links!Without, Links!LinksOf
  <2>11. \A x \in Token : LinkState'[x] = IF x = t THEN fate
                                          ELSE Links!Without(Links!LinksOf(u))[x]
    <3>1. \A x \in Token : Works(x) => x \in Issued BY <1>0 DEF Works, RowsOK
    <3>2. QED BY <2>2, <2>6, <2>7, <2>8, <2>9, <2>10, <3>1
  <2>12. LinkState' = [Links!Without(Links!LinksOf(u)) EXCEPT ![t] = fate]
    BY <2>11 DEF LinkState, Links!Without
  <2>13. req'[r].pc = "mail" BY <1>0, <1>4 DEF Written, TypeOK, Idle
  <2>14. Accepted' = Accepted BY <1>0, <1>2, <2>13, AcceptedStay
  <2>15. LinkState[t] = "none" BY <2>1, <2>9
  <2> HIDE DEF u
  <2>16. QED BY <1>1, <2>1, <2>12, <2>14, <2>15 DEF Links!Issue, Spent, u
<1>5. QED BY <1>0, <1>3, <1>4, StoreEffect DEF Links!Next

LEMMA PasswordLinks ==
  ASSUME LinksInv, NEW r \in Request, ChangePassword(r)
  PROVE  Links!Next
<1>0. IInv /\ TypeOK /\ HandlerMemory(r) BY DEF LinksInv, IInv, HandlersOK
<1>1. req[r].pc = "password" /\ req[r].tok \in Token
  BY <1>0 DEF ChangePassword, At, HandlerMemory, Issued
<1>2. req'[r].pc = "find" BY <1>0, GotoType DEF ChangePassword
<1>3. Accepted' \in {Accepted, Accepted \ {req[r].tok}}
  BY <1>0, <1>1, <1>2, AcceptedLeave, Touches DEF Step
<1>4. req[r].tok \in Accepted BY <1>1 DEF Accepted, At
<1>5. Spent' = Spent \cup {req[r].tok}
  <2>1. changes[req[r].tok] \in 0..2 BY <1>0, <1>1 DEF TypeOK
  <2>2. changes'[req[r].tok] = IF changes[req[r].tok] < 2 THEN changes[req[r].tok] + 1
                               ELSE changes[req[r].tok]
    BY <1>0, <1>1 DEF ChangePassword, TypeOK
  <2>3. changes'[req[r].tok] > 0 BY <2>1, <2>2
  <2>4. \A t \in Token : t # req[r].tok => changes'[t] = changes[t]
    BY <1>0 DEF ChangePassword, TypeOK
  <2>5. QED BY <1>1, <2>3, <2>4 DEF Spent
<1>6. UNCHANGED <<LinkState, owner, retired>>
  BY <1>0, LinksStay DEF ChangePassword
<1>7. Links!Change(req[r].tok) BY <1>3, <1>4, <1>5, <1>6 DEF Links!Change
<1>8. QED BY <1>1, <1>7 DEF Links!Next

\* Nothing to mark: the link is dead already.
LEMMA FindLinks ==
  ASSUME LinksInv, NEW r \in Request, FindUsed(r)
  PROVE  [Links!Next]_(Links!vars)
<1>0. /\ IInv /\ TypeOK /\ RowsOK /\ HandlerMemory(r) /\ Confirmation(r)
      /\ req[r].pc = "find"
  BY DEF LinksInv, IInv, HandlersOK, FindUsed, At
<1>1. \A x \in Request \ {r} : req'[x] = req[x] BY <1>0, Touches DEF Step
<1>2. UNCHANGED <<table, owner, expired, inbox, changes, latest>> BY DEF FindUsed
<1>3. ASSUME NEW i \in ByHash(req[r].tok), Load(r, "mark", i, table[i].used),
             UNCHANGED retired
      PROVE  UNCHANGED Links!vars
  <2>1. req'[r].pc = "mark" BY <1>0, <1>3 DEF Load, TypeOK, Handler
  <2>2. Accepted' = Accepted BY <1>0, <1>1, <2>1, AcceptedStay
  <2>3. QED BY <1>0, <1>2, <1>3, <2>2, OtherStep
<1>4. ASSUME ByHash(req[r].tok) = {}, Answer(r) PROVE Links!Next
  <2>1. req[r].tok \in Token /\ req[r].tok \in Spent
    BY <1>0 DEF HandlerMemory, Confirmation, Issued, Spent
  <2>2. req[r].tok \notin Links!Good
    BY <1>0, <1>4, <2>1, LinkTable DEF Works, ByHash
  <2>3. Links!Without({} \cup {req[r].tok}) = LinkState
    BY <2>2 DEF Links!Without, LinkState
  <2>4. LinkState' = LinkState BY <1>0, <1>2, LinksStay
  <2>5. Accepted' = Accepted BY <1>0, <1>1, <1>4, FinishType, AcceptedStay DEF Answer
  <2>6. Links!Close(req[r].tok)
    BY <1>2, <1>4, <2>1, <2>3, <2>4, <2>5 DEF Links!Close, Answer, Spent
  <2>7. QED BY <2>1, <2>6 DEF Links!Next
<1>5. QED BY <1>3, <1>4 DEF FindUsed

\* The mark hits the link that the row carries by now, of the same account; if
\* that is not the link that was used, then that one is dead already.
LEMMA MarkLinks ==
  ASSUME LinksInv, NEW r \in Request, MarkUsed(r)
  PROVE  Links!Next
<1>0. /\ IInv /\ TypeOK /\ RowsOK /\ RowsStayTheirs /\ Steady
      /\ HandlerMemory(r) /\ Confirmation(r) /\ req[r].pc = "mark"
  BY StepSteady, PasswordResetAssumption
     DEF LinksInv, IInv, HandlersOK, MarkUsed, At, Next, Step
<1>1. req[r].tok \in Token /\ req[r].tok \in Spent
  BY <1>0 DEF HandlerMemory, Confirmation, Issued, Spent
<1>2. UNCHANGED <<owner, expired, changes>> /\ Answer(r) BY DEF MarkUsed
<1>3. Accepted' = Accepted
  BY <1>0, <1>2, Touches, FinishType, AcceptedStay DEF Answer, Step
<1>4. Spent' = Spent BY <1>2 DEF Spent
<1>5. \A i \in Stored : table[i].hash = req[r].tok => i = req[r].row
  BY <1>0 DEF HandlerMemory, ByHash
<1>6. \E S \in SUBSET Links!LinksOf(owner[req[r].tok]) :
        LinkState' = Links!Without(S \cup {req[r].tok})
  <2>1. CASE req[r].row \notin Stored
    <3>1. ~ Works(req[r].tok) BY <1>5, <2>1 DEF Works
    <3>2. UNCHANGED table BY <2>1 DEF MarkUsed
    <3>3. \A t \in Issued : Works(t) => (Works(t)' <=> t \notin {} \cup {req[r].tok})
      BY <1>2, <3>1, <3>2 DEF Works, Usable, Stored
    <3>4. LinkState' = Links!Without({} \cup {req[r].tok})
      BY <1>0, <1>2, <3>3, LinksDie
    <3>5. QED BY <3>4
  <2>2. CASE req[r].row \in Stored
    <3>0. PICK k, x, used : k = req[r].row /\ x = table[k].hash /\ used = req[r].tok
      OBVIOUS
    <3>1. /\ k \in RowId /\ x \in Issued /\ owner[x] = table[k].user
          /\ table[k].user = owner[used]
      BY <1>0, <2>2, <3>0 DEF Stored, RowsOK, RowsStayTheirs, Confirmation
    <3>2. table' = [table EXCEPT ![k].used = TRUE]
      BY <2>2, <3>0 DEF MarkUsed
    <3>3. /\ \A i \in RowId \ {k} : table'[i] = table[i]
          /\ table'[k].used /\ table'[k].hash = x /\ Stored' = Stored
      BY <1>0, <3>0, <3>1, <3>2 DEF TypeOK, Row, Stored
    <3>4. \A t \in Issued : Works(t)' <=> \E i \in Stored : /\ i # k /\ table[i].hash = t
                                                            /\ Usable(i)
      BY <1>2, <3>1, <3>3 DEF Works, Usable, Stored
    <3>5. \A i \in Stored : i # k => table[i].hash # x
      BY <1>0, <2>2, <3>0 DEF RowsOK
    <3>6. \A t \in Issued : Works(t) => (Works(t)' <=> t \notin {x} \cup {used})
      <4>1. ~ Works(x)' BY <3>1, <3>4, <3>5
      <4>2. Works(used) => used = x BY <1>5, <2>2, <3>0 DEF Works
      <4>3. \A t \in Issued : t # x /\ Works(t) => Works(t)' BY <3>0, <3>4 DEF Works
      <4>4. QED BY <4>1, <4>2, <4>3
    <3>7. LinkState' = Links!Without({x} \cup {used})
      BY <1>0, <1>2, <3>6, LinksDie
    <3>8. {x} \in SUBSET Links!LinksOf(owner[used])
      BY <3>1 DEF Links!LinksOf, Issued
    <3>9. QED BY <3>0, <3>7, <3>8
  <2>3. QED BY <2>1, <2>2
<1>7. Links!Close(req[r].tok)
  BY <1>1, <1>2, <1>3, <1>4, <1>6 DEF Links!Close, Answer
<1>8. QED BY <1>1, <1>7 DEF Links!Next

LEMMA AbortLinks ==
  ASSUME LinksInv, NEW r \in Request, Abort(r)
  PROVE  [Links!Next]_(Links!vars)
<1>0. IInv /\ TypeOK /\ HandlerMemory(r) BY DEF LinksInv, IInv, HandlersOK
<1>1. /\ \A x \in Request \ {r} : req'[x] = req[x]
      /\ req'[r].pc = "idle"
  BY <1>0, IdleType DEF Abort, TypeOK
<1>2. UNCHANGED <<table, owner, expired, changes, retired>> BY DEF Abort, Reads, rest
<1>3. CASE req[r].pc # "password"
  BY <1>0, <1>1, <1>2, <1>3, AcceptedStay, OtherStep
<1>4. CASE req[r].pc = "password"
  <2>1. req[r].tok \in Token BY <1>0, <1>4 DEF HandlerMemory, Issued
  <2>2. Accepted' \in {Accepted, Accepted \ {req[r].tok}}
    BY <1>1, <1>4, AcceptedLeave
  <2>3. CASE Accepted' = Accepted BY <1>0, <1>2, <2>3, OtherStep
  <2>4. CASE Accepted' = Accepted \ {req[r].tok}
    <3>1. req[r].tok \in Accepted BY <1>4, <2>1 DEF Accepted, At
    <3>2. UNCHANGED <<LinkState, Spent>> BY <1>0, <1>2, LinksStay DEF Spent
    <3>3. Links!GiveUp(req[r].tok) BY <1>2, <2>4, <3>1, <3>2 DEF Links!GiveUp
    <3>4. QED BY <2>1, <3>3 DEF Links!Next
  <2>5. QED BY <2>2, <2>3, <2>4
<1>5. QED BY <1>3, <1>4

\* The clock, and the cleanup job, which removes only what is dead.
LEMMA AroundLinks ==
  ASSUME LinksInv, Cleanup \/ \E t \in Token : Expire(t)
  PROVE  [Links!Next]_(Links!vars)
<1>0. /\ IInv /\ TypeOK /\ RowsOK /\ Steady
      /\ UNCHANGED <<owner, changes, retired>> /\ Accepted' = Accepted
      /\ Spent' = Spent
  BY StepSteady, PasswordResetAssumption
     DEF LinksInv, IInv, Next, Cleanup, Expire, rest, Accepted, At, Spent
<1>1. CASE Cleanup
  <2>1. UNCHANGED expired BY <1>1 DEF Cleanup
  <2>2. \A i \in Stored : Usable(i) => table'[i] = table[i]
    BY <1>1 DEF Cleanup, Usable, Old, Stored
  <2>3. \A t \in Issued : Works(t) => (Works(t)' <=> t \notin {})
    BY <2>1, <2>2 DEF Works, Usable, Stored
  <2>4. LinkState' = Links!Without({}) BY <1>0, <2>3, LinksDie
  <2>5. Links!Without({}) = LinkState BY DEF Links!Without, LinkState
  <2>6. QED BY <1>0, <2>4, <2>5 DEF Links!vars
<1>2. ASSUME NEW t \in Token, Expire(t) PROVE [Links!Next]_(Links!vars)
  <2>1. expired' = expired \cup {t} /\ UNCHANGED table BY <1>2 DEF Expire
  <2>2. \A x \in Issued : Works(x) => (Works(x)' <=> x \notin {t})
    BY <2>1 DEF Works, Usable, Stored
  <2>3. LinkState' = Links!Without({t}) BY <1>0, <2>2, LinksDie
  <2>4. CASE t \in Links!Good
    <3>1. Links!Die(t) BY <1>0, <2>3, <2>4 DEF Links!Die
    <3>2. QED BY <3>1 DEF Links!Next
  <2>5. CASE t \notin Links!Good
    <3>1. Links!Without({t}) = LinkState BY <2>5 DEF Links!Without, LinkState
    <3>2. QED BY <1>0, <2>3, <3>1 DEF Links!vars
  <2>6. QED BY <2>4, <2>5
<1>3. QED BY <1>1, <1>2

LEMMA LinksStep ==
  ASSUME LinksInv, [Next]_vars
  PROVE  [Links!Next]_(Links!vars)
<1>0. IInv /\ TypeOK BY DEF LinksInv, IInv
<1>1. CASE UNCHANGED vars
  <2>1. Accepted' = Accepted BY <1>1 DEF vars, Accepted, At
  <2>2. QED BY <1>0, <1>1, <2>1, OtherStep DEF vars
<1>2. ASSUME NEW r \in Request, PickRow(r) \/ Mail(r) PROVE UNCHANGED Links!vars
  <2>1. \A x \in Request \ {r} : req'[x] = req[x] BY <1>0, <1>2, Touches DEF Step
  <2>2. req[r].pc \in {"pick", "mail"} BY <1>2 DEF PickRow, Mail, At
  <2>3. req'[r].pc # "password"
    <3>1. ASSUME NEW i, NEW u, Load(r, "store", i, u) PROVE req'[r].pc = "store"
      BY <1>0, <3>1 DEF Load, TypeOK, Handler
    <3>2. QED BY <1>0, <1>2, <3>1, FinishType DEF PickRow, Mail
  <2>4. Accepted' = Accepted BY <2>1, <2>2, <2>3, AcceptedStay
  <2>5. QED BY <1>0, <1>2, <2>4, OtherStep DEF PickRow, Mail, Reads, rest
<1>3. ASSUME NEW r \in Request, Step(r) PROVE [Links!Next]_(Links!vars)
  BY <1>2, <1>3, StoreLinks, PasswordLinks, FindLinks, MarkLinks DEF Step
<1>4. QED BY <1>1, <1>3, ArriveLinks, AbortLinks, AroundLinks DEF Next

\* The rows, the handlers, the cleanup job and the clock implement ResetLinks:
\* a link lives once, an account has one, a password is changed only by a link
\* that was good when presented, and the answer finds it dead.
THEOREM ResetImplementsLinks == Spec => ImplementsLinks
BY InitLinks, LinksStep, LinksInvariance, PTL DEF Spec, ImplementsLinks, Links!Spec

\* However many requests of an account race, it has one link at most that works.
THEOREM OneLinkEach == Spec => []OneLinkPerAccount
<1>1. LinksInv => OneLinkPerAccount
  <2> SUFFICES ASSUME LinksInv, NEW t \in Links!Good, NEW x \in Links!Good,
                      owner[t] = owner[x]
               PROVE  t = x
    BY DEF OneLinkPerAccount, Links!OneLink
  <2>0. RowsOK /\ RowsStayTheirs /\ OneRow BY DEF LinksInv, IInv
  <2>1. t \in Token /\ x \in Token /\ Works(t) /\ Works(x)
    BY <2>0, LinkTable DEF Links!Good
  <2>2. PICK i \in Stored : table[i].hash = t BY <2>1 DEF Works
  <2>3. PICK j \in Stored : table[j].hash = x BY <2>1 DEF Works
  <2>4. i = j BY <2>0, <2>2, <2>3 DEF RowsStayTheirs, OneRow
  <2>5. QED BY <2>2, <2>3, <2>4
<1>2. QED BY <1>1, LinksInvariance, PTL
\* What a reader of ResetLinks may rely on: an answered confirmation leaves its
\* link dead, a link that was never issued has changed no password, and an
\* account has one good link at most.
LinksPromised ==
  /\ owner \in [Token -> User \cup {NoUser}]
  /\ \A t \in Token : /\ t \in Accepted \cup Spent \cup retired => LinkState[t] # "none"
                      /\ t \in retired => LinkState[t] = "dead"
  /\ Links!OneLink

\* These follow from ResetLinks alone, with nothing of rows or handlers; nor
\* does a dead link ever become good again there.
THEOREM LinksKeepTheirPromise ==
  ImplementsLinks =>
    /\ []LinksPromised
    /\ [][\A t \in Token : LinkState[t] = "dead" => LinkState'[t] = "dead"]_(Links!vars)
<1>d. LinkState = [t \in Token |-> LinkState[t]] BY DEF LinkState
<1>1. Links!Init => LinksPromised
  BY DEF Links!Init, LinksPromised, Links!OneLink, Links!Good
<1>2. ASSUME LinksPromised, [Links!Next]_(Links!vars)
      PROVE  /\ LinksPromised'
             /\ [\A t \in Token : LinkState[t] = "dead" => LinkState'[t] = "dead"]_(Links!vars)
  <2>1. CASE UNCHANGED Links!vars
    BY <1>2, <2>1 DEF Links!vars, LinksPromised, Links!OneLink, Links!Good
  <2>2. ASSUME NEW t \in Token, NEW u \in User, Links!Issue(t, u)
        PROVE  LinksPromised' /\ \A x \in Token : LinkState[x] = "dead" => LinkState'[x] = "dead"
    <3>1. PICK fate \in {"good", "dead"} :
            LinkState' = [Links!Without(Links!LinksOf(u)) EXCEPT ![t] = fate]
      BY <2>2 DEF Links!Issue
    <3>2. /\ LinkState'[t] = fate /\ LinkState[t] = "none"
          /\ \A x \in Token \ {t} :
               LinkState'[x] = IF owner[x] = u /\ LinkState[x] = "good"
                                 THEN "dead" ELSE LinkState[x]
      BY <2>2, <3>1 DEF Links!Issue, Links!Without, Links!LinksOf, Links!Good
    <3>3. /\ owner' = [owner EXCEPT ![t] = u]
          /\ Accepted' = Accepted /\ Spent' = Spent /\ retired' = retired
      BY <2>2 DEF Links!Issue
    <3>4. /\ owner' \in [Token -> User \cup {NoUser}] /\ owner'[t] = u
          /\ \A x \in Token \ {t} : owner'[x] = owner[x]
      BY <1>2, <3>3 DEF LinksPromised
    <3>5. Links!OneLink' BY <1>2, <3>2, <3>4 DEF LinksPromised, Links!OneLink, Links!Good
    <3>6. \A x \in Token :
            /\ x \in (Accepted \cup Spent \cup retired)' => LinkState'[x] # "none"
            /\ x \in retired' => LinkState'[x] = "dead"
      BY <1>2, <3>2, <3>3 DEF LinksPromised
    <3>7. QED BY <3>2, <3>4, <3>5, <3>6 DEF LinksPromised
  <2>3. ASSUME NEW t \in Token,
               Links!Accept(t) \/ Links!Change(t) \/ Links!GiveUp(t) \/ Links!Close(t) \/ Links!Die(t)
        PROVE  LinksPromised' /\ \A x \in Token : LinkState[x] = "dead" => LinkState'[x] = "dead"
    <3>1. PICK S : /\ LinkState' = Links!Without(S)
                   /\ retired' \ retired \subseteq S \cap Spent
      <4>1. CASE Links!Close(t) BY <4>1 DEF Links!Close
      <4>2. CASE Links!Die(t) BY <4>2 DEF Links!Die
      <4>3. CASE Links!Accept(t) \/ Links!Change(t) \/ Links!GiveUp(t)
        <5>1. LinkState' = Links!Without({})
          BY <1>d, <4>3 DEF Links!Accept, Links!Change, Links!GiveUp, Links!Without
        <5>2. QED BY <4>3, <5>1 DEF Links!Accept, Links!Change, Links!GiveUp
      <4>4. QED BY <2>3, <4>1, <4>2, <4>3
    <3>2. \A x \in Token : LinkState'[x] = IF x \in S /\ LinkState[x] = "good"
                                             THEN "dead" ELSE LinkState[x]
      BY <3>1 DEF Links!Without, Links!Good
    <3>3. /\ owner' = owner
          /\ (Accepted \cup Spent)' \subseteq Accepted \cup Spent \cup Links!Good
          /\ retired' \subseteq retired \cup Spent
      BY <2>3 DEF Links!Accept, Links!Change, Links!GiveUp, Links!Close, Links!Die
    <3>4. \A x \in Token :
            /\ x \in (Accepted \cup Spent \cup retired)' => LinkState'[x] # "none"
            /\ x \in retired' => LinkState'[x] = "dead"
      <4> SUFFICES ASSUME NEW x \in Token
                   PROVE  /\ x \in (Accepted \cup Spent \cup retired)' => LinkState'[x] # "none"
                          /\ x \in retired' => LinkState'[x] = "dead"
        OBVIOUS
      <4>1. x \in Accepted \cup Spent \cup retired \cup Links!Good => LinkState[x] # "none"
        BY <1>2 DEF LinksPromised, Links!Good
      <4>2. LinkState[x] \in {"none", "good", "dead"} BY DEF LinkState
      <4>3. x \in (Accepted \cup Spent \cup retired)' => LinkState'[x] # "none"
        BY <3>2, <3>3, <4>1
      <4>4. x \in retired' => LinkState'[x] = "dead"
        BY <1>2, <3>1, <3>2, <4>1, <4>2 DEF LinksPromised
      <4>5. QED BY <4>3, <4>4
    <3>5. Links!OneLink' BY <1>2, <3>2, <3>3 DEF LinksPromised, Links!OneLink, Links!Good
    <3>6. QED BY <1>2, <3>2, <3>3, <3>4, <3>5 DEF LinksPromised
  <2>4. QED BY <1>2, <2>1, <2>2, <2>3 DEF Links!Next
<1>3. QED BY <1>1, <1>2, PTL DEF ImplementsLinks, Links!Spec
=============================================================================
