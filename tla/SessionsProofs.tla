--------------------------- MODULE SessionsProofs ---------------------------
(***************************************************************************)
(* Theorems about Sessions.tla for every set of accounts, rows, tokens and *)
(* requests, whatever operations are sent and whatever Env lets happen.    *)
(***************************************************************************)
EXTENDS Sessions, TLAPS

-----------------------------------------------------------------------------
(* The inductive invariant                                                 *)

BlockPCs == {"target", "update", "reload", "purge"}
BearerPCs == {"session", "user"} \cup Authorised
BearerOps == {"use", "logout", "logoutAll", "block", "unblock"}

\* Redis holds the key of the token, or needs it no more, or has forgotten it.
Kept(t) == age[t] = "valid" => t \in blacklist \cup forgotten

\* What a handler has established by the time it waits at its pc.
HandlerShape(r) ==
  /\ req[r].pc \notin {"idle", "insert"} => req[r].tok \in Issued
  /\ req[r].sid \in Session => req[r].tok \in Issued
  /\ req[r].pc = "insert" => req[r].user \in User
  /\ req[r].op \in {"block", "unblock"} => req[r].user \in User
  /\ req[r].pc \in BearerPCs => req[r].op \in BearerOps
  /\ req[r].pc \in BlockPCs => req[r].op \in {"block", "unblock"}

\* What it remembers of the table and of the token stays true while it waits.
HandlerMemory(r) ==
  /\ req[r].sid \in Session => session[req[r].sid].status # "free"
  /\ req[r].sid \in Live => session[req[r].sid].user = Caller(r)
  /\ req[r].pc \in BearerPCs /\ ~ req[r].was => req[r].tok \notin LiveTokens
  /\ req[r].pc \in BearerPCs \ {"session"} => req[r].was
  /\ req[r].pc \in BearerPCs /\ req[r].revoked /\ req[r].tok \notin forgotten
       => age[req[r].tok] # "valid"
  /\ req[r].pc \in {"delete", "deleteAll"} => Kept(req[r].tok)

HandlersOK == \A r \in Request : HandlerShape(r) /\ HandlerMemory(r)

RevokedKept == \A t \in out : Kept(t)

IInv == TypeOK /\ TableConsistent /\ HandlersOK /\ RevokedKept

\* What no step does: change the holder of an issued pair, revive a row or
\* hand it to another account, accept a pair again, turn back the clock, or
\* drop the key of a valid token without a restart of Redis.
Steady ==
  /\ \A t \in Issued : holder'[t] = holder[t]
  /\ \A s \in Session : session[s].status # "free" =>
       /\ session'[s].status # "free"
       /\ session'[s].status = "live" =>
            /\ session[s].status = "live"
            /\ session'[s].user = session[s].user
            /\ session'[s].raced = session[s].raced
  /\ Issued \cap LiveTokens' \subseteq LiveTokens
  /\ \A t \in Token : age'[t] = "valid" => age[t] = "valid"
  /\ \A t \in Token : Kept(t) => Kept(t)'
  /\ forgotten \subseteq forgotten'

-----------------------------------------------------------------------------
(* The ways in which a handler's record changes keep its type              *)

LEMMA GotoType ==
  ASSUME TypeOK, NEW r \in Request, NEW pc \in PCs, Goto(r, pc)
  PROVE  req' \in [Request -> Handler] /\ UNCHANGED serial
BY DEF TypeOK, Goto, Handler

LEMMA FinishType ==
  ASSUME TypeOK, NEW r \in Request, Finish(r)
  PROVE  req' \in [Request -> Handler] /\ UNCHANGED serial
<1>1. Idle \in Handler BY DEF Idle, Handler, PCs, AllOps
<1>2. QED BY <1>1 DEF TypeOK, Finish

LEMMA CheckType ==
  ASSUME TypeOK, NEW r \in Request, NEW ok, NEW pc \in PCs, Check(r, ok, pc)
  PROVE  req' \in [Request -> Handler] /\ UNCHANGED serial
BY GotoType, FinishType DEF Check

LEMMA StartType ==
  ASSUME TypeOK, NEW r \in Request, NEW op \in AllOps, NEW pc \in PCs,
         NEW t \in Token \cup {NoToken}, NEW c \in Token \cup {NoToken},
         NEW u \in User \cup {NoUser}, Start(r, op, pc, t, c, u)
  PROVE  req' \in [Request -> Handler] /\ serial' \in BOOLEAN
<1>1. req' \in [Request -> Handler] BY DEF TypeOK, Start, Handler
<1>2. serial' \in BOOLEAN BY DEF Start
<1>3. QED BY <1>1, <1>2

LEMMA FoundType ==
  ASSUME TypeOK, NEW r \in Request, NEW s \in Session, NEW pc \in PCs,
         Found(r, s, pc)
  PROVE  req' \in [Request -> Handler] /\ UNCHANGED serial
<1>1. [req[r] EXCEPT !.pc = pc, !.sid = s] \in Handler
  BY DEF TypeOK, Handler
<1>2. QED BY <1>1 DEF TypeOK, Found

\* A DELETE leaves the rows it does not name, and only those, alive.
LEMMA DeleteEffect ==
  ASSUME TypeOK, NEW rows, Delete(rows)
  PROVE  /\ session' \in [Session -> Row]
         /\ \A s \in Session \ rows : session'[s] = session[s]
         /\ \A s \in Session \cap rows : session'[s].status = "deleted"
<1>1. Gone \in Row /\ Gone.status = "deleted" BY DEF Gone, NoRow, Row
<1>2. QED BY <1>1 DEF TypeOK, Delete

\* What a sign-in and a rotation write.
Inserted(r, t, s) ==
  /\ session[s].status = "free"
  /\ req[r].user \in User
  /\ session' \in [Session -> Row]
  /\ session'[s] = [status |-> "live", user |-> req[r].user, refresh |-> t,
                    access |-> t, raced |-> req[r].user \in blocked]
  /\ \A x \in Session \ {s} : session'[x] = session[x]
  /\ holder' \in [Token -> User \cup {NoUser}]
  /\ holder'[t] = req[r].user
  /\ \A x \in Token \ {t} : holder'[x] = holder[x]

Rotated(r, t) ==
  /\ req[r].tok \in Issued
  /\ session[req[r].sid].user = Caller(r)
  /\ session' \in [Session -> Row]
  /\ session'[req[r].sid] = [session[req[r].sid] EXCEPT !.refresh = t, !.access = t]
  /\ \A x \in Session \ {req[r].sid} : session'[x] = session[x]
  /\ holder' \in [Token -> User \cup {NoUser}]
  /\ holder'[t] = Caller(r)
  /\ \A x \in Token \ {t} : holder'[x] = holder[x]

LEMMA InsertEffect ==
  ASSUME IInv, NEW r \in Request, SignInInsert(r)
  PROVE  \E t \in Token \ Issued, s \in Session : Inserted(r, t, s)
<1>1. PICK t \in Token \ Issued, s \in FreeRows :
        /\ session' = [session EXCEPT ![s] =
             [status |-> "live", user |-> req[r].user, refresh |-> t,
              access |-> t, raced |-> req[r].user \in blocked]]
        /\ holder' = [holder EXCEPT ![t] = req[r].user]
  BY DEF SignInInsert
<1>2. s \in Session /\ session[s].status = "free" BY DEF FreeRows
<1>3. req[r].user \in User BY DEF IInv, HandlersOK, HandlerShape, SignInInsert, At
<1>4. /\ session \in [Session -> Row]
      /\ holder \in [Token -> User \cup {NoUser}]
  BY DEF IInv, TypeOK
<1>5. [status |-> "live", user |-> req[r].user, refresh |-> t,
       access |-> t, raced |-> req[r].user \in blocked] \in Row
  BY <1>3 DEF Row, Issued
<1>6. QED BY <1>1, <1>2, <1>3, <1>4, <1>5 DEF Inserted

LEMMA RotateEffect ==
  ASSUME IInv, NEW r \in Request, RefreshRotate(r), req[r].sid \in Live
  PROVE  \E t \in Token \ Issued : Rotated(r, t)
<1>1. PICK t \in Token \ Issued :
        /\ session' = [session EXCEPT ![req[r].sid].refresh = t,
                                      ![req[r].sid].access = t]
        /\ holder' = [holder EXCEPT ![t] = Caller(r)]
  BY DEF RefreshRotate
<1>2. req[r].sid \in Session BY DEF Live
<1>3. req[r].tok \in Issued /\ session[req[r].sid].user = Caller(r)
  BY DEF IInv, HandlersOK, HandlerShape, HandlerMemory, RefreshRotate, At
<1>4. Caller(r) \in User \cup {NoUser}
  BY <1>3 DEF IInv, TypeOK, Issued, Caller
<1>5. TypeOK BY DEF IInv
<1>6. PICK row \in Row : row = session[req[r].sid]
  BY <1>2, <1>5 DEF TypeOK
<1>7. [row EXCEPT !.refresh = t, !.access = t] \in Row
  BY DEF Row
<1>8. session' = [session EXCEPT ![req[r].sid] = [row EXCEPT !.refresh = t, !.access = t]]
  BY <1>1, <1>2, <1>5, <1>6 DEF TypeOK, Row
<1>9. /\ session' \in [Session -> Row]
      /\ session'[req[r].sid] = [session[req[r].sid] EXCEPT !.refresh = t, !.access = t]
      /\ \A x \in Session \ {req[r].sid} : session'[x] = session[x]
  BY <1>2, <1>5, <1>6, <1>7, <1>8 DEF TypeOK
<1>10. /\ holder' \in [Token -> User \cup {NoUser}]
       /\ holder'[t] = Caller(r)
       /\ \A x \in Token \ {t} : holder'[x] = holder[x]
  BY <1>1, <1>4, <1>5 DEF TypeOK
<1>11. QED BY <1>3, <1>9, <1>10 DEF Rotated

-----------------------------------------------------------------------------
(* No step is unsteady                                                     *)

LEMMA DeleteSteady ==
  ASSUME TypeOK, NEW rows, Delete(rows), UNCHANGED tokens
  PROVE  Steady
<1>1. /\ \A s \in Session \ rows : session'[s] = session[s]
      /\ \A s \in Session \cap rows : session'[s].status = "deleted"
  BY DeleteEffect
<1>2. QED BY <1>1 DEF Steady, LiveTokens, Live, Kept, tokens, redis

LEMMA SteadyStep ==
  ASSUME SessionsAssumption, IInv, [Next]_vars
  PROVE  Steady
<1> USE DEF tokens, redis, history
<1>0. TypeOK BY DEF IInv
<1>1. CASE UNCHANGED <<session, holder, age, redis>>
  BY <1>1 DEF Steady, LiveTokens, Live, Kept
<1>2. ASSUME NEW r \in Request, SignInInsert(r) PROVE Steady
  <2>1. PICK t \in Token \ Issued, s \in Session : Inserted(r, t, s)
    BY <1>2, InsertEffect
  <2>2. UNCHANGED <<age, redis>> BY <1>2 DEF SignInInsert
  <2>3. Issued \cap LiveTokens' \subseteq LiveTokens
    <3>1. session'[s].status = "live" /\ session'[s].access = t BY <2>1 DEF Inserted
    <3>2. \A x \in Live' : x # s => x \in Live /\ session'[x] = session[x]
      BY <2>1 DEF Live, Inserted
    <3>3. QED BY <3>1, <3>2 DEF LiveTokens
  <2>4. QED BY <2>1, <2>2, <2>3 DEF Steady, Issued, Inserted, Kept
<1>3. ASSUME NEW r \in Request, RefreshRotate(r) PROVE Steady
  <2>1. CASE req[r].sid \notin Live BY <1>1, <1>3, <2>1 DEF RefreshRotate
  <2>2. CASE req[r].sid \in Live
    <3>1. PICK t \in Token \ Issued : Rotated(r, t)
      BY <1>3, <2>2, RotateEffect
    <3>2. PICK s \in Session : s = req[r].sid /\ session[s] \in Row
      BY <1>0, <2>2 DEF Live, TypeOK
    <3>3. /\ session'[s].status = session[s].status
          /\ session'[s].user = session[s].user
          /\ session'[s].raced = session[s].raced
          /\ session'[s].access = t
      BY <3>1, <3>2 DEF Row, Rotated
    <3>4. UNCHANGED <<age, redis>> BY <1>3 DEF RefreshRotate
    <3>5. Issued \cap LiveTokens' \subseteq LiveTokens
      BY <3>1, <3>2, <3>3 DEF LiveTokens, Live, Rotated
    <3>6. QED BY <3>1, <3>2, <3>3, <3>4, <3>5 DEF Steady, Issued, Rotated, Kept
  <2>3. QED BY <2>1, <2>2
<1>4. ASSUME NEW r \in Request, LogoutDelete(r) PROVE Steady
  BY <1>0, <1>4, DeleteSteady DEF LogoutDelete
<1>5. ASSUME NEW r \in Request, LogoutDeleteAll(r) PROVE Steady
  BY <1>0, <1>5, DeleteSteady DEF LogoutDeleteAll
<1>6. ASSUME NEW r \in Request, BlockPurge(r) PROVE Steady
  BY <1>0, <1>6, DeleteSteady DEF BlockPurge
<1>7. ASSUME NEW t \in Token, Tick(t) PROVE Steady
  <2>1. /\ UNCHANGED <<session, holder, redis>>
        /\ \A x \in Token : age'[x] = "valid" => age[x] = "valid"
    BY <1>0, <1>7 DEF Tick, Ageing, TypeOK
  <2>2. QED BY <2>1 DEF Steady, LiveTokens, Live, Kept
<1>8. CASE /\ UNCHANGED <<session, holder, age>>
           /\ \A t \in Token : Kept(t) => Kept(t)'
           /\ forgotten \subseteq forgotten'
  <2>1. LiveTokens' = LiveTokens BY <1>8 DEF LiveTokens, Live
  <2>2. QED BY <1>8, <2>1 DEF Steady
<1>9. ASSUME NEW r \in Request, LogoutRevoke(r) PROVE Steady
  BY <1>8, <1>9 DEF LogoutRevoke, Kept
<1>10. ASSUME NEW r \in Request, Arrive(r) PROVE UNCHANGED <<session, holder, age, redis>>
  BY <1>10 DEF Arrive, Refuse, vars, SignInLookup, RefreshFind, Use, Logout, LogoutAll,
              Block, Unblock, BearerToken, Reads
<1>11. ASSUME NEW r \in Request, Step(r) PROVE Steady
  BY <1>1, <1>2, <1>3, <1>4, <1>5, <1>6, <1>11, <1>9
     DEF Step, RefreshOwner, RefreshRecheck, RefreshSelect, BearerSession, BearerUser,
         Serve, BlockTarget, BlockUpdate, BlockReload, Reads
<1>12. CASE Surroundings
  BY <1>1, <1>7, <1>12, <1>8 DEF Surroundings, Abort, KeyLapses, RedisRestart, Kept
<1>13. CASE UNCHANGED vars BY <1>1, <1>13 DEF vars
<1>14. QED BY <1>1, <1>10, <1>11, <1>12, <1>13 DEF Next

-----------------------------------------------------------------------------
(* Type correctness                                                        *)

LEMMA InitIInv == ASSUME SessionsAssumption, Init PROVE IInv /\ PurgeComplete
<1>1. TypeOK
  BY DEF SessionsAssumption, Init, TypeOK, Row, NoRow, Handler, Idle, PCs, AllOps, Ages
<1>2. Live = {} BY DEF Init, Live, NoRow
<1>3. \A r \in Request : HandlerShape(r) /\ HandlerMemory(r)
  BY DEF SessionsAssumption, Init, HandlerShape, HandlerMemory, Idle, BearerPCs,
         BlockPCs, Authorised, Live
<1>4. QED BY <1>1, <1>2, <1>3
          DEF IInv, TableConsistent, HandlersOK, RevokedKept, PurgeComplete, Init

\* A request that comes in changes no more than its own record.
LEMMA ArriveEffect ==
  ASSUME SessionsAssumption, TypeOK, NEW r \in Request, Arrive(r)
  PROVE  /\ req' \in [Request -> Handler]
         /\ serial' \in BOOLEAN
         /\ UNCHANGED <<blocked, session, tokens, history>>
<1>1. CASE Refuse(r) BY <1>1 DEF Refuse, vars, TypeOK, tokens, redis, history
<1>2. ASSUME NEW u \in User, SignInLookup(r, u) PROVE req' \in [Request -> Handler] /\ serial' \in BOOLEAN
  BY <1>2, StartType DEF SignInLookup, AllOps, PCs
<1>3. ASSUME NEW t \in Token, RefreshFind(r, t) PROVE req' \in [Request -> Handler] /\ serial' \in BOOLEAN
  BY <1>3, StartType DEF RefreshFind, AllOps, PCs
<1>4. ASSUME NEW t \in Token, NEW c \in Token \cup {NoToken}, NEW op \in AllOps,
             NEW u \in User \cup {NoUser}, BearerToken(r, op, t, c, u)
      PROVE  req' \in [Request -> Handler] /\ serial' \in BOOLEAN
  BY <1>4, StartType DEF BearerToken, PCs
<1>5. req' \in [Request -> Handler] /\ serial' \in BOOLEAN
  BY <1>1, <1>2, <1>3, <1>4 DEF Arrive, Use, Logout, LogoutAll, Block, Unblock, AllOps
<1>6. QED BY <1>1, <1>5 DEF Arrive, SignInLookup, RefreshFind, Use, Logout, LogoutAll,
                 Block, Unblock, BearerToken, Reads

\* Neither does a handler that only looks something up.
LookUp(r) == \/ RefreshOwner(r) \/ RefreshRecheck(r) \/ RefreshSelect(r)
             \/ BearerSession(r) \/ BearerUser(r) \/ Serve(r)
             \/ BlockTarget(r) \/ BlockReload(r)

LEMMA LookUpEffect ==
  ASSUME TypeOK, NEW r \in Request, LookUp(r)
  PROVE  /\ req' \in [Request -> Handler]
         /\ UNCHANGED <<blocked, session, tokens, history, serial>>
<1> USE DEF PCs
<1>1. CASE RefreshOwner(r) BY <1>1, CheckType DEF RefreshOwner, Reads
<1>2. CASE RefreshRecheck(r) BY <1>2, CheckType DEF RefreshRecheck, Reads
<1>3. CASE RefreshSelect(r)
  BY <1>3, FinishType, FoundType DEF RefreshSelect, Reads, ByRefresh, Live
<1>4. CASE BearerSession(r)
  BY <1>4, FinishType, FoundType DEF BearerSession, Reads, ByAccess, Live
<1>5. CASE BearerUser(r)
  <2>1. Entry(r) \in PCs BY DEF Entry
  <2>2. QED BY <1>5, <2>1, CheckType DEF BearerUser, Reads
<1>6. CASE Serve(r) BY <1>6, FinishType DEF Serve, Reads
<1>7. CASE BlockTarget(r) BY <1>7, CheckType DEF BlockTarget, Reads
<1>8. CASE BlockReload(r) BY <1>8, CheckType DEF BlockReload, Reads
<1>9. QED BY <1>1, <1>2, <1>3, <1>4, <1>5, <1>6, <1>7, <1>8 DEF LookUp

LEMMA StepType ==
  ASSUME IInv, NEW r \in Request, Step(r)
  PROVE  TypeOK'
<1> USE DEF tokens, redis, history
<1>0. /\ TypeOK
      /\ At(r, "update") \/ At(r, "purge") => req[r].user \in User
      /\ At(r, "revoke") \/ At(r, "delete") \/ At(r, "deleteAll") => req[r].tok \in Token
  BY DEF IInv, HandlersOK, HandlerShape, At, BlockPCs, Issued
<1>1. CASE LookUp(r) BY <1>0, <1>1, LookUpEffect DEF TypeOK
<1>2. CASE SignInInsert(r)
  <2>1. PICK t \in Token \ Issued, s \in Session : Inserted(r, t, s) BY <1>2, InsertEffect
  <2>2. QED BY <1>0, <1>2, <2>1, FinishType DEF TypeOK, SignInInsert, Inserted
<1>3. CASE RefreshRotate(r)
  <2>1. CASE req[r].sid \in Live
    <3>1. PICK t \in Token \ Issued : Rotated(r, t) BY <1>3, <2>1, RotateEffect
    <3>2. QED BY <1>0, <1>3, <3>1, FinishType DEF TypeOK, RefreshRotate, Rotated
  <2>2. CASE req[r].sid \notin Live
    BY <1>0, <1>3, <2>2, FinishType DEF TypeOK, RefreshRotate
  <2>3. QED BY <2>1, <2>2
<1>4. CASE LogoutRevoke(r)
  <2>1. req' \in [Request -> Handler] /\ UNCHANGED serial
    BY <1>0, <1>4, FinishType, GotoType DEF LogoutRevoke, PCs
  <2>2. blacklist' \subseteq Token /\ out' \subseteq Token
    BY <1>0, <1>4 DEF LogoutRevoke, LoggedOut, TypeOK
  <2>3. QED BY <1>0, <1>4, <2>1, <2>2 DEF TypeOK, LogoutRevoke
<1>5. CASE LogoutDelete(r)
  BY <1>0, <1>5, FinishType, DeleteEffect DEF TypeOK, LogoutDelete, LoggedOut
<1>6. CASE LogoutDeleteAll(r)
  BY <1>0, <1>6, FinishType, DeleteEffect DEF TypeOK, LogoutDeleteAll, LoggedOut
<1>7. CASE BlockUpdate(r)
  BY <1>0, <1>7, GotoType DEF TypeOK, BlockUpdate, PCs
<1>8. CASE BlockPurge(r)
  BY <1>0, <1>8, FinishType, DeleteEffect DEF TypeOK, BlockPurge
<1>9. QED BY <1>1, <1>2, <1>3, <1>4, <1>5, <1>6, <1>7, <1>8 DEF Step, LookUp

LEMMA SurroundingsType ==
  ASSUME IInv, Surroundings
  PROVE  TypeOK'
<1> USE DEF tokens, redis, history
<1>0. TypeOK BY DEF IInv
<1>1. ASSUME NEW r \in Request, Abort(r) PROVE TypeOK'
  <2>1. Purging(r) => req[r].user \in User
    BY DEF IInv, HandlersOK, HandlerShape, Purging
  <2>2. req' \in [Request -> Handler]
    BY <1>0, <1>1 DEF TypeOK, Abort, Idle, Handler, PCs, AllOps
  <2>3. QED BY <1>0, <1>1, <2>1, <2>2 DEF TypeOK, Abort
<1>2. ASSUME NEW t \in Token, Tick(t) PROVE TypeOK' BY <1>0, <1>2 DEF TypeOK, Tick
<1>3. ASSUME NEW t \in Token, KeyLapses(t) PROVE TypeOK'
  BY <1>0, <1>3 DEF TypeOK, KeyLapses
<1>4. CASE RedisRestart BY <1>0, <1>4 DEF TypeOK, RedisRestart
<1>5. QED BY <1>1, <1>2, <1>3, <1>4 DEF Surroundings

LEMMA TypeStep ==
  ASSUME SessionsAssumption, IInv, [Next]_vars
  PROVE  TypeOK'
<1>1. ASSUME NEW r \in Request, Arrive(r) PROVE TypeOK'
  BY <1>1, ArriveEffect DEF IInv, TypeOK, tokens, redis, history
<1>2. CASE UNCHANGED vars BY <1>2 DEF IInv, TypeOK, vars
<1>3. QED BY <1>1, <1>2, StepType, SurroundingsType DEF Next

-----------------------------------------------------------------------------
(* What the handlers know                                                  *)

HandlerOK(r) == HandlerShape(r) /\ HandlerMemory(r)

\* A steady step does not unsettle a handler whose own record stays put.
LEMMA WaitingHandler ==
  ASSUME IInv, Steady, NEW x \in Request, req'[x] = req[x]
  PROVE  HandlerOK(x)'
<1>1. HandlerShape(x) /\ HandlerMemory(x) BY DEF IInv, HandlersOK
<1>2. \A t \in Issued : t \in Issued' /\ holder'[t] = holder[t]
  BY DEF Steady, Issued
<1>3. req[x].pc \in BearerPCs => req[x].tok \in Issued
  BY <1>1 DEF HandlerShape, BearerPCs, Authorised
<1>4. HandlerShape(x)' BY <1>1, <1>2 DEF HandlerShape
<1>5. HandlerMemory(x)'
  <2>1. req[x].sid \in Session => session'[req[x].sid].status # "free"
    BY <1>1 DEF HandlerMemory, Steady
  <2>2. req[x].sid \in Live' => session'[req[x].sid].user = holder'[req[x].tok]
    BY <1>1, <1>2 DEF HandlerMemory, HandlerShape, Steady, Live, Caller
  <2>3. req[x].pc \in BearerPCs /\ ~ req[x].was => req[x].tok \notin LiveTokens'
    BY <1>1, <1>3 DEF HandlerMemory, Steady
  <2>4. req[x].pc \in BearerPCs /\ req[x].revoked /\ req[x].tok \notin forgotten'
          => age'[req[x].tok] # "valid"
    BY <1>1, <1>3 DEF HandlerMemory, Steady, Issued
  <2>5. req[x].pc \in {"delete", "deleteAll"} => Kept(req[x].tok)'
    BY <1>1, <1>3 DEF HandlerMemory, Steady, Issued, BearerPCs, Authorised
  <2>6. QED BY <1>1, <2>1, <2>2, <2>3, <2>4, <2>5 DEF HandlerMemory, Caller
<1>6. QED BY <1>4, <1>5 DEF HandlerOK

LEMMA IdleHandler ==
  ASSUME SessionsAssumption, NEW r \in Request, req'[r] = Idle
  PROVE  HandlerOK(r)'
BY DEF SessionsAssumption, HandlerOK, HandlerShape, HandlerMemory, Idle, BearerPCs,
       BlockPCs, Authorised, Live

LEMMA FinishedHandler ==
  ASSUME SessionsAssumption, TypeOK, NEW r \in Request, Finish(r)
  PROVE  HandlerOK(r)'
<1>1. req'[r] = Idle BY DEF TypeOK, Finish
<1>2. QED BY <1>1, IdleHandler

\* Moving on keeps what is known, if the new pc claims nothing new.
LEMMA MovedHandler ==
  ASSUME IInv, Steady, NEW r \in Request, NEW pc \in PCs, Goto(r, pc),
         req[r].pc \notin {"idle", "insert"}, pc \notin {"idle", "insert"},
         pc \in BearerPCs => req[r].pc \in BearerPCs \ {"session"} /\ pc # "session",
         pc \in BlockPCs => req[r].op \in {"block", "unblock"},
         pc \in {"delete", "deleteAll"} /\ age[req[r].tok] = "valid"
           => req[r].tok \in blacklist'
  PROVE  HandlerOK(r)'
<1>1. /\ HandlerShape(r) /\ HandlerMemory(r)
      /\ req'[r] = [req[r] EXCEPT !.pc = pc]
      /\ req[r] \in Handler
  BY DEF IInv, HandlersOK, TypeOK, Goto
<1>2. /\ req'[r].pc = pc /\ req'[r].op = req[r].op /\ req'[r].tok = req[r].tok
      /\ req'[r].user = req[r].user /\ req'[r].sid = req[r].sid
      /\ req'[r].was = req[r].was /\ req'[r].revoked = req[r].revoked
  BY <1>1 DEF Handler
<1>3. \A t \in Issued : t \in Issued' /\ holder'[t] = holder[t]
  BY DEF Steady, Issued
<1>4. req[r].tok \in Issued BY <1>1 DEF HandlerShape
<1>5. HandlerShape(r)' BY <1>1, <1>2, <1>3, <1>4 DEF HandlerShape
<1>6. HandlerMemory(r)'
  <2>1. req[r].sid \in Session => session'[req[r].sid].status # "free"
    BY <1>1 DEF HandlerMemory, Steady
  <2>2. req[r].sid \in Live' => session'[req[r].sid].user = holder'[req[r].tok]
    BY <1>1, <1>3, <1>4 DEF HandlerMemory, Steady, Live, Caller
  <2>3. pc \in BearerPCs => req[r].was
    BY <1>1 DEF HandlerMemory
  <2>4. pc \in BearerPCs /\ req[r].revoked /\ req[r].tok \notin forgotten'
          => age'[req[r].tok] # "valid"
    BY <1>1, <1>4 DEF HandlerMemory, Steady, Issued
  <2>5. pc \in {"delete", "deleteAll"} /\ age'[req[r].tok] = "valid"
          => req[r].tok \in blacklist'
    BY <1>4 DEF Steady, Issued
  <2>6. QED BY <1>2, <2>1, <2>2, <2>3, <2>4, <2>5 DEF HandlerMemory, Caller, Kept
<1>7. QED BY <1>5, <1>6 DEF HandlerOK

\* A handler that has just read a row of its token's knows the row's owner.
LEMMA FoundHandler ==
  ASSUME IInv, UNCHANGED <<session, holder, age, redis>>, NEW r \in Request, NEW pc \in PCs,
         NEW s \in ByRefresh(req[r].tok) \cup ByAccess(req[r].tok), Found(r, s, pc),
         \/ pc = "rotate"
         \/ pc = "user" /\ req[r].pc = "session" /\ s \in ByAccess(req[r].tok)
  PROVE  HandlerOK(r)'
<1>1. /\ HandlerShape(r) /\ HandlerMemory(r)
      /\ req'[r] = [req[r] EXCEPT !.pc = pc, !.sid = s]
      /\ req[r] \in Handler
  BY DEF IInv, HandlersOK, TypeOK, Found
<1>2. /\ req'[r].pc = pc /\ req'[r].op = req[r].op /\ req'[r].tok = req[r].tok
      /\ req'[r].user = req[r].user /\ req'[r].sid = s
      /\ req'[r].was = req[r].was /\ req'[r].revoked = req[r].revoked
  BY <1>1 DEF Handler
<1>3. /\ s \in Live /\ s \in Session /\ session[s].status # "free"
      /\ req[r].tok \in Issued /\ session[s].user = Caller(r)
      /\ session[s].access = req[r].tok
  BY DEF IInv, TableConsistent, ByRefresh, ByAccess, Live, Caller
<1>4. req[r].tok \in LiveTokens BY <1>3 DEF LiveTokens
<1>5. HandlerShape(r)' BY <1>1, <1>2, <1>3 DEF HandlerShape, Issued, BlockPCs, BearerPCs, Authorised
<1>6. pc \in BearerPCs => req[r].was /\ req[r].pc \in BearerPCs
  BY <1>1, <1>4 DEF HandlerMemory, BearerPCs, Authorised
<1>7. HandlerMemory(r)' BY <1>1, <1>2, <1>3, <1>6 DEF HandlerMemory, Caller, Live, redis
<1>8. QED BY <1>5, <1>7 DEF HandlerOK

LEMMA ArrivedHandler ==
  ASSUME SessionsAssumption, IInv, NEW r \in Request, Arrive(r)
  PROVE  HandlerOK(r)'
<1> USE DEF tokens, redis, history
<1>1. UNCHANGED <<session, holder, age, redis, out>> /\ TypeOK
  BY ArriveEffect DEF IInv
<1>2. CASE Refuse(r)
  BY <1>1, <1>2, WaitingHandler, SteadyStep DEF Refuse, vars
<1>3. ASSUME NEW u \in User, SignInLookup(r, u) PROVE HandlerOK(r)'
  <2>1. req'[r] = [op |-> "signin", pc |-> "insert", tok |-> NoToken, cookie |-> NoToken,
                   user |-> u, sid |-> NoSession, was |-> NoToken \in LiveTokens,
                   revoked |-> NoToken \in out]
    BY <1>1, <1>3 DEF SignInLookup, Start, TypeOK
  <2>2. QED BY <2>1 DEF SessionsAssumption, HandlerOK, HandlerShape, HandlerMemory,
                    BearerPCs, BlockPCs, Authorised, Live
<1>4. ASSUME NEW t \in Token, RefreshFind(r, t) PROVE HandlerOK(r)'
  <2>1. /\ t \in Issued
        /\ req'[r] = [op |-> "refresh", pc |-> "owner", tok |-> t, cookie |-> NoToken,
                      user |-> NoUser, sid |-> NoSession, was |-> t \in LiveTokens,
                      revoked |-> t \in out]
    BY <1>1, <1>4 DEF RefreshFind, Start, TypeOK
  <2>2. QED BY <1>1, <2>1 DEF SessionsAssumption, HandlerOK, HandlerShape, HandlerMemory,
                         BearerPCs, BlockPCs, Authorised, Live, Issued
<1>5. ASSUME NEW t \in Token, NEW c \in Token \cup {NoToken}, NEW op \in AllOps,
             NEW u \in User \cup {NoUser}, BearerToken(r, op, t, c, u),
             op \in BearerOps, op \in {"block", "unblock"} => u \in User
      PROVE  HandlerOK(r)'
  <2>1. /\ t \in Issued /\ t \notin blacklist
        /\ req'[r] = [op |-> op, pc |-> "session", tok |-> t, cookie |-> c,
                      user |-> u, sid |-> NoSession, was |-> t \in LiveTokens,
                      revoked |-> t \in out]
    BY <1>1, <1>5 DEF BearerToken, Accepted, Start, TypeOK
  <2>2. t \in out /\ t \notin forgotten => age[t] # "valid"
    BY <2>1 DEF IInv, RevokedKept, Kept
  <2>3. HandlerShape(r)'
    BY <1>1, <1>5, <2>1 DEF SessionsAssumption, HandlerShape, BlockPCs, Issued
  <2>4. HandlerMemory(r)'
    <3>1. /\ req'[r].pc = "session" /\ req'[r].sid = NoSession /\ req'[r].tok = t
          /\ req'[r].was = (t \in LiveTokens) /\ req'[r].revoked = (t \in out)
      BY <2>1
    <3>2. LiveTokens' = LiveTokens BY <1>1 DEF LiveTokens, Live
    <3>3. NoSession \notin Session /\ NoSession \notin Live'
      BY DEF SessionsAssumption, Live
    <3>4. QED BY <1>1, <2>2, <3>1, <3>2, <3>3 DEF HandlerMemory
  <2>5. QED BY <2>3, <2>4 DEF HandlerOK
<1>6. QED BY <1>2, <1>3, <1>4, <1>5
          DEF Arrive, Use, Logout, LogoutAll, Block, Unblock, AllOps, BearerOps

LEMMA CheckedHandler ==
  ASSUME SessionsAssumption, IInv, Steady, NEW r \in Request, NEW ok, NEW pc \in PCs,
         Check(r, ok, pc), pc \notin {"delete", "deleteAll"},
         req[r].pc \notin {"idle", "insert"}, pc \notin {"idle", "insert"},
         pc \in BearerPCs => req[r].pc \in BearerPCs \ {"session"} /\ pc # "session",
         pc \in BlockPCs => req[r].op \in {"block", "unblock"}
  PROVE  HandlerOK(r)'
<1>1. CASE Finish(r) BY <1>1, FinishedHandler DEF IInv
<1>2. CASE Goto(r, pc) BY <1>2, MovedHandler
<1>3. QED BY <1>1, <1>2 DEF Check

LEMMA SteppedHandler ==
  ASSUME SessionsAssumption, IInv, Steady, NEW r \in Request, Step(r)
  PROVE  HandlerOK(r)'
<1> USE DEF At, PCs, BearerPCs, BlockPCs, Authorised
<1>0. TypeOK /\ HandlerShape(r) /\ HandlerMemory(r) BY DEF IInv, HandlersOK
<1>1. CASE RefreshOwner(r) BY <1>1, CheckedHandler DEF RefreshOwner
<1>2. CASE RefreshRecheck(r) BY <1>2, CheckedHandler DEF RefreshRecheck
<1>3. CASE RefreshSelect(r)
  BY <1>0, <1>3, FinishedHandler, FoundHandler DEF RefreshSelect, Reads, tokens
<1>4. CASE BearerSession(r)
  BY <1>0, <1>4, FinishedHandler, FoundHandler DEF BearerSession, Reads, tokens
<1>5. CASE BearerUser(r)
  <2>1. /\ Entry(r) \in {"handler", "revoke", "target"}
        /\ Entry(r) = "target" => req[r].op \in {"block", "unblock"}
    BY <1>0, <1>5 DEF BearerUser, HandlerShape, BearerOps, Entry
  <2>2. QED BY <1>5, <2>1, CheckedHandler DEF BearerUser
<1>6. CASE \/ SignInInsert(r) \/ RefreshRotate(r) \/ Serve(r) \/ LogoutDelete(r)
           \/ LogoutDeleteAll(r) \/ BlockPurge(r)
  BY <1>0, <1>6, FinishedHandler
     DEF SignInInsert, RefreshRotate, Serve, LogoutDelete, LogoutDeleteAll, BlockPurge
<1>7. CASE LogoutRevoke(r)
  BY <1>0, <1>7, FinishedHandler, MovedHandler DEF LogoutRevoke
<1>8. CASE BlockTarget(r)
  BY <1>0, <1>8, CheckedHandler DEF BlockTarget, HandlerShape
<1>9. CASE BlockUpdate(r)
  BY <1>0, <1>9, MovedHandler DEF BlockUpdate, HandlerShape
<1>10. CASE BlockReload(r)
  BY <1>0, <1>10, CheckedHandler DEF BlockReload, HandlerShape
<1>11. QED BY <1>1, <1>2, <1>3, <1>4, <1>5, <1>6, <1>7, <1>8, <1>9, <1>10 DEF Step

LEMMA HandlersStep ==
  ASSUME SessionsAssumption, IInv, [Next]_vars
  PROVE  HandlersOK'
<1>0. TypeOK /\ Steady BY SteadyStep DEF IInv
<1> SUFFICES ASSUME NEW x \in Request PROVE HandlerOK(x)'
  BY DEF HandlersOK, HandlerOK
<1>1. ASSUME req'[x] = req[x] PROVE HandlerOK(x)' BY <1>0, <1>1, WaitingHandler
<1>2. ASSUME NEW r \in Request, Arrive(r) PROVE HandlerOK(x)'
  <2>1. CASE x = r BY <1>2, <2>1, ArrivedHandler
  <2>2. CASE x # r
    <3>1. req'[x] = req[x]
      BY <1>0, <1>2, <2>2 DEF Arrive, Refuse, vars, SignInLookup, RefreshFind, Use, Logout,
         LogoutAll, Block, Unblock, BearerToken, Start, TypeOK
    <3>2. QED BY <1>1, <3>1
  <2>3. QED BY <2>1, <2>2
<1>3. ASSUME NEW r \in Request, Step(r) PROVE HandlerOK(x)'
  <2>1. CASE x = r BY <1>0, <1>3, <2>1, SteppedHandler
  <2>2. CASE x # r
    <3>1. req'[x] = req[x]
      BY <1>0, <1>3, <2>2
         DEF Step, SignInInsert, RefreshOwner, RefreshRecheck, RefreshSelect, RefreshRotate,
             BearerSession, BearerUser, Serve, LogoutRevoke, LogoutDelete, LogoutDeleteAll,
             BlockTarget, BlockUpdate, BlockReload, BlockPurge,
             Check, Goto, Finish, Found, TypeOK
    <3>2. QED BY <1>1, <3>1
  <2>3. QED BY <2>1, <2>2
<1>4. CASE Surroundings
  <2>1. ASSUME NEW r \in Request, Abort(r) PROVE HandlerOK(x)'
    <3>1. CASE x = r
      <4>1. req'[r] = Idle BY <1>0, <2>1 DEF Abort, TypeOK
      <4>2. QED BY <3>1, <4>1, IdleHandler
    <3>2. CASE x # r
      <4>1. req'[x] = req[x] BY <1>0, <2>1, <3>2 DEF Abort, TypeOK
      <4>2. QED BY <1>1, <4>1
    <3>3. QED BY <3>1, <3>2
  <2>2. CASE req' = req BY <1>1, <2>2
  <2>3. QED BY <1>4, <2>1, <2>2 DEF Surroundings, Tick, KeyLapses, RedisRestart
<1>5. CASE UNCHANGED vars BY <1>1, <1>5 DEF vars
<1>6. QED BY <1>2, <1>3, <1>4, <1>5 DEF Next

-----------------------------------------------------------------------------
(* The table and the blacklist                                             *)

LEMMA TableStep ==
  ASSUME SessionsAssumption, IInv, [Next]_vars
  PROVE  TableConsistent'
<1> USE DEF tokens, redis, history
<1>0. TypeOK /\ TableConsistent BY DEF IInv
<1>1. CASE UNCHANGED <<session, holder>>
  BY <1>0, <1>1 DEF TableConsistent, Live, Issued
<1>2. ASSUME NEW rows, Delete(rows), UNCHANGED holder PROVE TableConsistent'
  <2>1. \A s \in Live' : s \in Live /\ session'[s] = session[s]
    BY <1>0, <1>2, DeleteEffect DEF Live
  <2>2. QED BY <1>0, <1>2, <2>1 DEF TableConsistent, Issued
<1>3. ASSUME NEW r \in Request, SignInInsert(r) PROVE TableConsistent'
  <2>1. PICK t \in Token \ Issued, s \in Session : Inserted(r, t, s)
    BY <1>3, InsertEffect
  <2>2. \A x \in Live' : x # s => x \in Live /\ session'[x] = session[x]
    BY <2>1 DEF Inserted, Live
  <2>3. /\ session'[s].refresh = t /\ session'[s].access = t
        /\ session'[s].user = holder'[t] /\ t \in Issued'
    BY <2>1 DEF Inserted, SessionsAssumption, Issued
  <2>4. \A x \in Issued : x # t /\ x \in Issued' /\ holder'[x] = holder[x]
    BY <2>1 DEF Inserted, Issued
  <2>5. QED BY <1>0, <2>2, <2>3, <2>4 DEF TableConsistent
<1>4. ASSUME NEW r \in Request, RefreshRotate(r), req[r].sid \in Live
      PROVE  TableConsistent'
  <2>1. PICK t \in Token \ Issued : Rotated(r, t) BY <1>4, RotateEffect
  <2>2. PICK s \in Live : s = req[r].sid /\ session[s] \in Row
    BY <1>0, <1>4 DEF Live, TypeOK
  <2>3. \A x \in Live' : x # s => x \in Live /\ session'[x] = session[x]
    BY <2>1, <2>2 DEF Rotated, Live
  <2>4. /\ session'[s].refresh = t /\ session'[s].access = t
        /\ session'[s].user = session[s].user
    BY <2>1, <2>2 DEF Rotated, Row
  <2>5. session[s].user # NoUser
    BY <1>0, <2>2 DEF TableConsistent, Issued
  <2>6. session'[s].user = holder'[t] /\ t \in Issued'
    BY <2>1, <2>2, <2>4, <2>5 DEF Rotated, Issued
  <2>7. \A x \in Issued : x # t /\ x \in Issued' /\ holder'[x] = holder[x]
    BY <2>1 DEF Rotated, Issued
  <2>8. QED BY <1>0, <2>3, <2>4, <2>6, <2>7 DEF TableConsistent
<1>5. ASSUME NEW r \in Request, Step(r) PROVE TableConsistent'
  BY <1>1, <1>2, <1>3, <1>4, <1>5
     DEF Step, RefreshOwner, RefreshRecheck, RefreshSelect, RefreshRotate, BearerSession,
         BearerUser, Serve, LogoutRevoke, LogoutDelete, LogoutDeleteAll, BlockTarget,
         BlockUpdate, BlockReload, BlockPurge, Reads
<1>6. ASSUME NEW r \in Request, Arrive(r) PROVE TableConsistent'
  BY <1>0, <1>1, <1>6, ArriveEffect
<1>7. CASE Surroundings
  BY <1>1, <1>7 DEF Surroundings, Abort, Tick, KeyLapses, RedisRestart
<1>8. CASE UNCHANGED vars BY <1>1, <1>8 DEF vars
<1>9. QED BY <1>5, <1>6, <1>7, <1>8 DEF Next

LEMMA RevokedStep ==
  ASSUME SessionsAssumption, IInv, [Next]_vars
  PROVE  RevokedKept'
<1> USE DEF tokens, redis, history
<1> SUFFICES ASSUME NEW t \in out' PROVE Kept(t)'
  BY DEF RevokedKept
<1>0. TypeOK /\ Steady /\ TypeOK' BY SteadyStep, TypeStep DEF IInv
<1>1. t \in Token BY <1>0 DEF TypeOK
<1>2. t \in out => Kept(t)' BY <1>0, <1>1 DEF IInv, RevokedKept, Steady
<1>3. CASE UNCHANGED out BY <1>2, <1>3
<1>4. ASSUME NEW r \in Request, LogoutRevoke(r) PROVE Kept(t)'
  BY <1>2, <1>4 DEF LogoutRevoke, LoggedOut, Kept
<1>5. ASSUME NEW r \in Request, LogoutDelete(r) \/ LogoutDeleteAll(r)
      PROVE  Kept(t)'
  <2>1. HandlerMemory(r) BY DEF IInv, HandlersOK
  <2>2. t \in out \/ Kept(t)
    BY <1>5, <2>1 DEF LogoutDelete, LogoutDeleteAll, LoggedOut, HandlerMemory, At
  <2>3. QED BY <1>0, <1>1, <1>2, <2>2 DEF Steady
<1>6. ASSUME NEW r \in Request, Step(r) PROVE Kept(t)'
  BY <1>3, <1>4, <1>5, <1>6
     DEF Step, SignInInsert, RefreshOwner, RefreshRecheck, RefreshSelect, RefreshRotate,
         BearerSession, BearerUser, Serve, BlockTarget, BlockUpdate, BlockReload,
         BlockPurge, Reads
<1>7. ASSUME NEW r \in Request, Arrive(r) PROVE Kept(t)'
  BY <1>0, <1>3, <1>7, ArriveEffect
<1>8. CASE Surroundings
  BY <1>3, <1>8 DEF Surroundings, Abort, Tick, KeyLapses, RedisRestart
<1>9. CASE UNCHANGED vars BY <1>3, <1>9 DEF vars
<1>10. QED BY <1>6, <1>7, <1>8, <1>9 DEF Next

LEMMA IInvStep ==
  ASSUME SessionsAssumption, IInv, [Next]_vars PROVE IInv'
BY TypeStep, HandlersStep, TableStep, RevokedStep DEF IInv

-----------------------------------------------------------------------------
(* Blocks                                                                  *)

\* A handler that owes a purge, unless it gives it up, owes it after the step.
Owed(u) == \E r \in Request : Purging(r) /\ req[r].user = u

LEMMA PurgeStep ==
  ASSUME SessionsAssumption, IInv, PurgeComplete, [Next]_vars
  PROVE  PurgeComplete'
<1> USE DEF tokens, redis, history
<1>0. TypeOK /\ Steady BY SteadyStep DEF IInv
<1> SUFFICES ASSUME NEW u \in blocked' \ lost', ~ Owed(u)'
             PROVE  \A s \in RowsOf(u)' : session'[s].raced
  BY DEF PurgeComplete, Owed
<1>1. ASSUME u \in blocked \ lost, ~ Owed(u),
             \A s \in Live' : s \in Live
      PROVE  \A s \in RowsOf(u)' : session'[s].raced
  BY <1>0, <1>1 DEF PurgeComplete, Owed, RowsOf, Steady, Live
<1>2. ASSUME NEW r \in Request, SignInInsert(r)
      PROVE  \A s \in RowsOf(u)' : session'[s].raced
  <2>1. PICK t \in Token \ Issued, s \in Session : Inserted(r, t, s)
    BY <1>2, InsertEffect
  <2>2. u \in blocked \ lost BY <1>2 DEF SignInInsert
  <2>3. ~ Owed(u)
    BY <1>0, <1>2 DEF Owed, Purging, SignInInsert, Finish, At, TypeOK
  <2>4. \A x \in RowsOf(u) : session[x].raced
    BY <2>2, <2>3 DEF PurgeComplete, Owed
  <2>5. session'[s].raced = (session'[s].user \in blocked) BY <2>1 DEF Inserted
  <2>6. \A x \in RowsOf(u)' : x # s => x \in RowsOf(u) /\ session'[x] = session[x]
    BY <2>1 DEF Inserted, RowsOf, Live
  <2>7. QED BY <2>2, <2>4, <2>5, <2>6 DEF RowsOf
\* A handler whose pc is not that of a purge leaves the others' duties alone.
<1>3. ASSUME NEW r \in Request, \A x \in Request \ {r} : req'[x] = req[x],
             Purging(r) /\ req[r].user = u => Purging(r)' /\ req'[r].user = u
      PROVE  ~ Owed(u)
  BY <1>3 DEF Owed, Purging
<1>4. ASSUME NEW r \in Request, Arrive(r)
      PROVE  \A s \in RowsOf(u)' : session'[s].raced
  <2>1. UNCHANGED <<blocked, session, lost>> BY <1>0, <1>4, ArriveEffect
  <2>2. CASE Refuse(r) BY <1>1, <2>1, <2>2 DEF Refuse, vars, Live, Owed, Purging
  <2>3. CASE ~ Refuse(r)
    <3>1. At(r, "idle") /\ \A x \in Request \ {r} : req'[x] = req[x]
      BY <1>0, <1>4, <2>3 DEF Arrive, SignInLookup, RefreshFind, Use, Logout, LogoutAll,
         Block, Unblock, BearerToken, Start, TypeOK
    <3>2. ~ Owed(u) BY <1>3, <3>1 DEF Purging, At
    <3>3. QED BY <1>1, <2>1, <3>2 DEF Live
  <2>4. QED BY <2>2, <2>3
<1>5. ASSUME NEW r \in Request, LookUp(r)
      PROVE  \A s \in RowsOf(u)' : session'[s].raced
  <2>1. UNCHANGED <<blocked, session, lost>> BY <1>0, <1>5, LookUpEffect
  <2>2. \A x \in Request \ {r} : req'[x] = req[x]
    BY <1>0, <1>5 DEF LookUp, RefreshOwner, RefreshRecheck, RefreshSelect, BearerSession,
       BearerUser, Serve, BlockTarget, BlockReload, Check, Goto, Finish, Found, TypeOK
  <2>3. Purging(r) /\ req[r].user = u => Purging(r)' /\ req'[r].user = u
    <3>1. CASE BlockReload(r)
      <4>1. Purging(r) /\ req[r].user = u => Goto(r, "purge")
        BY <2>1, <3>1 DEF BlockReload, Check
      <4>2. QED BY <1>0, <4>1 DEF Purging, Goto, TypeOK, Handler
    <3>2. CASE ~ BlockReload(r)
      BY <1>5, <3>2 DEF LookUp, RefreshOwner, RefreshRecheck, RefreshSelect,
         BearerSession, BearerUser, Serve, BlockTarget, At, Purging
    <3>3. QED BY <3>1, <3>2
  <2>4. ~ Owed(u) BY <1>3, <2>2, <2>3
  <2>5. QED BY <1>1, <2>1, <2>4 DEF Live
<1>6. ASSUME NEW r \in Request, RefreshRotate(r) \/ LogoutRevoke(r) \/ LogoutDelete(r)
      PROVE  \A s \in RowsOf(u)' : session'[s].raced
  <2>1. ~ Owed(u)
    BY <1>0, <1>3, <1>6 DEF RefreshRotate, LogoutRevoke, LogoutDelete, Goto, Finish, At,
       Purging, TypeOK
  <2>2. \A s \in Live' : s \in Live
    <3>1. CASE RefreshRotate(r)
      <4>1. CASE req[r].sid \notin Live BY <3>1, <4>1 DEF RefreshRotate, Live
      <4>2. CASE req[r].sid \in Live
        <5>1. PICK t \in Token \ Issued : Rotated(r, t) BY <3>1, <4>2, RotateEffect
        <5>2. QED BY <4>2, <5>1 DEF Rotated, Live
      <4>3. QED BY <4>1, <4>2
    <3>2. CASE LogoutRevoke(r) BY <3>2 DEF LogoutRevoke, Live
    <3>3. CASE LogoutDelete(r) BY <1>0, <3>3, DeleteEffect DEF LogoutDelete, Live
    <3>4. QED BY <1>6, <3>1, <3>2, <3>3
  <2>3. QED BY <1>1, <1>6, <2>1, <2>2 DEF RefreshRotate, LogoutRevoke, LogoutDelete
<1>7. ASSUME NEW r \in Request, NEW v, Delete(RowsOf(v)), Finish(r),
             lost' = lost \ {v}, UNCHANGED blocked,
             Purging(r) => req[r].user = v
      PROVE  \A s \in RowsOf(u)' : session'[s].raced
  <2>1. /\ \A s \in Session \ RowsOf(v) : session'[s] = session[s]
        /\ \A s \in Session \cap RowsOf(v) : session'[s].status = "deleted"
    BY <1>0, <1>7, DeleteEffect
  <2>2. CASE u = v BY <2>1, <2>2 DEF RowsOf, Live
  <2>3. CASE u # v
    <3>1. ~ Owed(u) BY <1>0, <1>3, <1>7, <2>3 DEF Finish, TypeOK
    <3>2. \A s \in Live' : s \in Live BY <2>1 DEF Live
    <3>3. QED BY <1>1, <1>7, <2>3, <3>1, <3>2
  <2>4. QED BY <2>2, <2>3
<1>8. ASSUME NEW r \in Request, LogoutDeleteAll(r) \/ BlockPurge(r)
      PROVE  \A s \in RowsOf(u)' : session'[s].raced
  BY <1>7, <1>8 DEF LogoutDeleteAll, BlockPurge, Purging, At
<1>9. ASSUME NEW r \in Request, BlockUpdate(r)
      PROVE  \A s \in RowsOf(u)' : session'[s].raced
  <2>1. /\ req'[r].pc = "reload" /\ req'[r].op = req[r].op /\ req'[r].user = req[r].user
        /\ \A x \in Request \ {r} : req'[x] = req[x]
    BY <1>0, <1>9 DEF BlockUpdate, Goto, TypeOK, Handler
  <2>2. ~ (Wanted(r) /\ req[r].user = u) BY <2>1 DEF Owed, Purging, Wanted
  <2>3. u \in blocked /\ u \notin lost BY <1>9, <2>2 DEF BlockUpdate
  <2>4. ~ Owed(u) BY <1>3, <1>9, <2>1 DEF BlockUpdate, At, Purging
  <2>5. QED BY <1>1, <1>9, <2>3, <2>4 DEF BlockUpdate, Live
<1>10. CASE Surroundings
  <2>1. ASSUME NEW r \in Request, Abort(r)
        PROVE  \A s \in RowsOf(u)' : session'[s].raced
    <3>1. u \notin lost /\ ~ (Purging(r) /\ req[r].user = u)
      BY <2>1 DEF Abort
    <3>2. ~ Owed(u) BY <1>0, <1>3, <2>1, <3>1 DEF Abort, TypeOK
    <3>3. QED BY <1>1, <2>1, <3>1, <3>2 DEF Abort, Live
  <2>2. CASE UNCHANGED <<blocked, session, req, lost>>
    BY <1>1, <2>2 DEF Live, Owed, Purging
  <2>3. QED BY <1>10, <2>1, <2>2 DEF Surroundings, Tick, KeyLapses, RedisRestart
<1>11. CASE UNCHANGED vars BY <1>1, <1>11 DEF vars, Live, Owed, Purging
<1>12. ASSUME NEW r \in Request, Step(r) PROVE \A s \in RowsOf(u)' : session'[s].raced
  BY <1>2, <1>5, <1>6, <1>8, <1>9, <1>12 DEF Step, LookUp
<1>13. QED BY <1>4, <1>10, <1>11, <1>12 DEF Next

-----------------------------------------------------------------------------
(* The promise                                                             *)

LEMMA InitPromise == ASSUME Init PROVE Promise!Init
BY DEF Init, Promise!Init, LiveTokens, Live, NoRow

\* Every step of the handlers is a step, or a stutter, of Credentials.
LEMMA PromiseStep ==
  ASSUME SessionsAssumption, IInv, [Next]_vars
  PROVE  [Promise!Next]_(Promise!vars)
<1> USE DEF tokens, redis, history
<1>0. TypeOK /\ TableConsistent BY DEF IInv
<1>1. CASE UNCHANGED <<session, holder>>
  <2>1. LiveTokens' = LiveTokens BY <1>1 DEF LiveTokens, Live
  <2>2. QED BY <1>1, <2>1 DEF Promise!vars
<1>2. ASSUME NEW r \in Request, SignInInsert(r) PROVE Promise!Next
  <2>1. PICK t \in Token \ Issued, s \in Session : Inserted(r, t, s)
    BY <1>2, InsertEffect
  <2>2. holder' = [holder EXCEPT ![t] = req[r].user]
    BY <1>0, <2>1 DEF Inserted, TypeOK
  <2>3. Live' = Live \cup {s} /\ s \notin Live
    BY <2>1 DEF Inserted, Live
  <2>4. /\ session'[s].access = t
        /\ \A x \in Live : session'[x].access = session[x].access
    BY <2>1, <2>3 DEF Inserted, Live
  <2>5. LiveTokens' = LiveTokens \cup {t}
    BY <2>3, <2>4 DEF LiveTokens
  <2>6. Promise!Grant(t, req[r].user)
    BY <2>1, <2>2, <2>5 DEF Promise!Grant, Promise!Unissued, Issued
  <2>7. QED BY <2>1, <2>6 DEF Promise!Next, Inserted
<1>3. ASSUME NEW r \in Request, RefreshRotate(r), req[r].sid \in Live
      PROVE  Promise!Next
  <2>1. PICK t \in Token \ Issued : Rotated(r, t) BY <1>3, RotateEffect
  <2>2. PICK s \in Live : s = req[r].sid /\ s \in Session /\ session[s] \in Row
    BY <1>0, <1>3 DEF Live, TypeOK
  <2>3. DEFINE old == session[s].access
  <2>4. old \in Issued /\ old \in LiveTokens /\ holder[old] = Caller(r)
    BY <1>0, <2>1, <2>2 DEF TableConsistent, LiveTokens, Rotated
  <2>5. holder' = [holder EXCEPT ![t] = holder[old]]
    BY <1>0, <2>1, <2>4 DEF Rotated, TypeOK
  <2>6. Live' = Live /\ session'[s].access = t
    <3>1. session'[s].status = session[s].status /\ session'[s].access = t
      BY <2>1, <2>2 DEF Rotated, Row
    <3>2. \A x \in Session : x # s => session'[x] = session[x]
      BY <2>1, <2>2 DEF Rotated
    <3>3. QED BY <2>2, <3>1, <3>2 DEF Live
  <2>7. \A x \in Live : x # s => session'[x].access = session[x].access
                                 /\ session[x].access # old
    <3>1. \A x \in Live : x # s => session'[x] = session[x]
      BY <2>1, <2>2 DEF Rotated, Live
    <3>2. \A x \in Live : x # s => session[x].access # old
      BY <1>0, <2>2 DEF TableConsistent
    <3>3. QED BY <3>1, <3>2
  <2>8. t \notin LiveTokens BY <1>0, <2>1 DEF TableConsistent, LiveTokens
  <2>9. LiveTokens' = (LiveTokens \ {old}) \cup {t}
    BY <2>2, <2>6, <2>7, <2>8 DEF LiveTokens
  <2>10. Promise!Exchange(old, t)
    BY <2>1, <2>4, <2>5, <2>9 DEF Promise!Exchange, Promise!Unissued, Issued
  <2>11. QED BY <2>1, <2>4, <2>10 DEF Promise!Next, Issued
<1>4. ASSUME NEW rows, rows \subseteq Live, Delete(rows)
      PROVE  /\ Live' = Live \ rows
             /\ \A x \in Live' : session'[x] = session[x]
  <2>1. /\ \A s \in Session \ rows : session'[s] = session[s]
        /\ \A s \in Session \cap rows : session'[s].status = "deleted"
    BY <1>0, <1>4, DeleteEffect
  <2>2. QED BY <1>4, <2>1 DEF Live
<1>5. ASSUME NEW u, Delete(RowsOf(u)), UNCHANGED holder
      PROVE  LiveTokens' = {t \in LiveTokens : holder[t] # u}
  <2>1. /\ Live' = Live \ RowsOf(u)
        /\ \A x \in Live' : session'[x] = session[x]
    BY <1>4, <1>5 DEF RowsOf
  <2>2. \A x \in Live : session[x].user = holder[session[x].access]
    BY <1>0 DEF TableConsistent
  <2>3. QED BY <2>1, <2>2 DEF LiveTokens, RowsOf
<1>6. ASSUME NEW r \in Request, LogoutDelete(r)
      PROVE  [Promise!Next]_(Promise!vars)
  <2>1. DEFINE c == req[r].cookie
  <2>2. /\ Live' = Live \ ByRefresh(c)
        /\ \A x \in Live' : session'[x] = session[x]
        /\ holder' = holder
    BY <1>4, <1>6 DEF LogoutDelete, ByRefresh
  <2>3. \A x \in Live : x \in ByRefresh(c) <=> session[x].access = c
    BY <1>0 DEF TableConsistent, ByRefresh
  <2>4. LiveTokens' = LiveTokens \ {c}
    BY <2>2, <2>3 DEF LiveTokens
  <2>5. CASE c \in LiveTokens
    <3>1. c \in Token BY <1>0, <2>5 DEF LiveTokens, TableConsistent, Issued
    <3>2. Promise!Revoke(c) BY <2>2, <2>4, <2>5 DEF Promise!Revoke
    <3>3. QED BY <3>1, <3>2 DEF Promise!Next
  <2>6. CASE c \notin LiveTokens BY <2>2, <2>4, <2>6 DEF Promise!vars
  <2>7. QED BY <2>5, <2>6
<1>7. ASSUME NEW r \in Request, LogoutDeleteAll(r) \/ BlockPurge(r)
      PROVE  Promise!Next
  <2>1. PICK u \in User : Delete(RowsOf(u))
    <3>1. HandlerShape(r) BY DEF IInv, HandlersOK
    <3>2. CASE LogoutDeleteAll(r)
      <4>1. Caller(r) \in User
        BY <1>0, <3>1, <3>2 DEF LogoutDeleteAll, HandlerShape, At, Issued, Caller, TypeOK
      <4>2. QED BY <3>2, <4>1 DEF LogoutDeleteAll
    <3>3. CASE BlockPurge(r)
      BY <3>1, <3>3 DEF BlockPurge, HandlerShape, At, BlockPCs
    <3>4. QED BY <1>7, <3>2, <3>3
  <2>2. holder' = holder BY <1>7 DEF LogoutDeleteAll, BlockPurge
  <2>3. Promise!RevokeAll(u) BY <1>5, <2>1, <2>2 DEF Promise!RevokeAll
  <2>4. QED BY <2>3 DEF Promise!Next
<1>8. ASSUME NEW r \in Request, Step(r) PROVE [Promise!Next]_(Promise!vars)
  BY <1>1, <1>2, <1>3, <1>6, <1>7, <1>8
     DEF Step, RefreshOwner, RefreshRecheck, RefreshSelect, RefreshRotate, BearerSession,
         BearerUser, Serve, LogoutRevoke, BlockTarget, BlockUpdate, BlockReload, Reads
<1>9. ASSUME NEW r \in Request, Arrive(r) PROVE [Promise!Next]_(Promise!vars)
  BY <1>0, <1>1, <1>9, ArriveEffect
<1>10. CASE Surroundings
  BY <1>1, <1>10 DEF Surroundings, Abort, Tick, KeyLapses, RedisRestart
<1>11. CASE UNCHANGED vars BY <1>1, <1>11 DEF vars
<1>12. QED BY <1>8, <1>9, <1>10, <1>11 DEF Next

-----------------------------------------------------------------------------
(* The theorems                                                            *)

\* The invariant behind all of them holds in every reachable state.
LEMMA Invariance == Spec => [](IInv /\ PurgeComplete)
<1>1. Init => IInv /\ PurgeComplete BY InitIInv, SessionsAssumption
<1>2. IInv /\ PurgeComplete /\ [Next]_vars => (IInv /\ PurgeComplete)'
  BY IInvStep, PurgeStep, SessionsAssumption
<1>3. QED BY <1>1, <1>2, PTL DEF Spec

\* Every variable keeps its type, and so does every handler's record.
THEOREM TypeCorrect == Spec => []TypeOK
<1>1. IInv => TypeOK BY DEF IInv
<1>2. QED BY <1>1, Invariance, PTL

\* Each row of user_sessions holds one pair, issued to the row's account and
\* in no other row.
THEOREM TableStaysConsistent == Spec => []TableConsistent
<1>1. IInv => TableConsistent BY DEF IInv
<1>2. QED BY <1>1, Invariance, PTL

\* Every handler waits on a row of its caller's, or on one that is gone.
THEOREM RowsOfCallers == Spec => []CallerOwnsRow
<1>1. IInv => CallerOwnsRow BY DEF IInv, HandlersOK, HandlerMemory, CallerOwnsRow
<1>2. QED BY <1>1, Invariance, PTL

\* get_current_user() never authorises a token that no session accepted when
\* the request arrived, for any interleaving of any number of handlers.
THEOREM OnlyLiveAct == Spec => []OnlyLiveCredentialsAct
<1>1. IInv => OnlyLiveCredentialsAct
  BY DEF IInv, HandlersOK, HandlerMemory, OnlyLiveCredentialsAct, BearerPCs, Authorised
<1>2. QED BY <1>1, Invariance, PTL

\* A completed logout shuts its access token out until the token's last second,
\* unless a restart of Redis has forgotten its key.
THEOREM LogoutShutsOut == Spec => []LoggedOutRejected
<1>1. IInv => LoggedOutRejected
  BY DEF IInv, HandlersOK, HandlerMemory, LoggedOutRejected, BearerPCs
<1>2. QED BY <1>1, Invariance, PTL

\* A block leaves no session behind except the ones that a racing sign-in
\* inserted, or that an error left by ending the block before its purge.
THEOREM BlockPurges == Spec => []PurgeComplete
BY Invariance, PTL

\* A pair rotated away or revoked is never accepted again.
THEOREM SpentForever == Spec => SpentStaysSpent
<1>1. IInv /\ [Next]_vars => [(Issued \ LiveTokens) \cap LiveTokens' = {}]_vars
  BY SteadyStep, SessionsAssumption DEF Steady
<1>2. QED BY <1>1, Invariance, PTL DEF Spec, SpentStaysSpent

\* A row deleted by a logout or a block is never written again.
THEOREM NoRowReturns == Spec => GoneStaysGone
<1>1. IInv /\ [Next]_vars => [\A s \in Session : session[s].status = "deleted"
                                   => session'[s].status = "deleted"]_vars
  <2> SUFFICES ASSUME IInv, [Next]_vars, NEW s \in Session, session[s].status = "deleted"
               PROVE  session'[s].status = "deleted"
    OBVIOUS
  <2>1. TypeOK' /\ Steady BY TypeStep, SteadyStep, SessionsAssumption
  <2>2. QED BY <2>1 DEF TypeOK, Row, Steady
<1>2. QED BY <1>1, Invariance, PTL DEF Spec, GoneStaysGone

\* The tables, Redis and the interleaved handlers implement Credentials.
THEOREM SessionsImplementCredentials == Spec => ImplementsCredentials
<1>1. Init => Promise!Init BY InitPromise
<1>2. IInv /\ [Next]_vars => [Promise!Next]_(Promise!vars)
  BY PromiseStep, SessionsAssumption
<1>3. QED BY <1>1, <1>2, Invariance, PTL DEF Spec, ImplementsCredentials, Promise!Spec

-----------------------------------------------------------------------------
(* Requests that do not overlap                                            *)

\* At most one handler is in flight, no other remembers a row, and the row it
\* read still holds the token presented: nobody can have rotated it since.
Alone == \A r, q \in Request : r # q => At(r, "idle") \/ At(q, "idle")
IdleKnowsNoRow == \A r \in Request : At(r, "idle") => req[r].sid = NoSession
HoldsItsRow(r) ==
  /\ req[r].sid \in Live => session[req[r].sid].refresh = req[r].tok
  /\ req[r].pc \in BearerPCs \ {"session"} => req[r].sid \in Session

SerialInv == serial => Alone /\ IdleKnowsNoRow /\ \A r \in Request : HoldsItsRow(r)

\* A step ends its handler, or moves it on, or finds it a row of its token;
\* in the last two cases the table of sessions stays as it is.
LEMMA StepCourse ==
  ASSUME NEW r \in Request, Step(r)
  PROVE  /\ req[r].pc # "idle"
         /\ \/ Finish(r)
            \/ /\ UNCHANGED session
               /\ \E pc \in PCs \ {"idle"} :
                    /\ Goto(r, pc)
                    /\ pc \in BearerPCs => req[r].pc \in BearerPCs \ {"session"}
            \/ /\ UNCHANGED session
               /\ \E pc \in PCs \ {"idle"} :
                    \E s \in ByRefresh(req[r].tok) \cup ByAccess(req[r].tok) : Found(r, s, pc)
<1> USE DEF PCs, BearerPCs, Authorised, At
<1>1. CASE RefreshOwner(r) BY <1>1 DEF RefreshOwner, Check, Reads
<1>2. CASE RefreshRecheck(r) BY <1>2 DEF RefreshRecheck, Check, Reads
<1>3. CASE RefreshSelect(r) BY <1>3 DEF RefreshSelect, Reads
<1>4. CASE BearerSession(r) BY <1>4 DEF BearerSession, Reads
<1>5. CASE BearerUser(r)
  <2>1. Entry(r) \in {"handler", "revoke", "target"} BY DEF Entry
  <2>2. QED BY <1>5, <2>1 DEF BearerUser, Check, Reads
<1>6. CASE LogoutRevoke(r) BY <1>6 DEF LogoutRevoke
<1>7. CASE BlockTarget(r) BY <1>7 DEF BlockTarget, Check, Reads
<1>8. CASE BlockUpdate(r) BY <1>8 DEF BlockUpdate
<1>9. CASE BlockReload(r) BY <1>9 DEF BlockReload, Check, Reads
<1>10. CASE SignInInsert(r) \/ RefreshRotate(r) \/ Serve(r) \/ LogoutDelete(r)
             \/ LogoutDeleteAll(r) \/ BlockPurge(r)
  BY <1>10 DEF SignInInsert, RefreshRotate, Serve, LogoutDelete, LogoutDeleteAll, BlockPurge
<1>11. QED BY <1>1, <1>2, <1>3, <1>4, <1>5, <1>6, <1>7, <1>8, <1>9, <1>10 DEF Step

\* The step of one handler, all others being idle, keeps the invariant.
LEMMA LoneStep ==
  ASSUME SessionsAssumption, SerialInv, serial, NEW r \in Request,
         \A x \in Request \ {r} : At(x, "idle") /\ req'[x] = req[x],
         HoldsItsRow(r)', At(r, "idle")' => req'[r].sid = NoSession
  PROVE  SerialInv'
<1>1. \A x \in Request \ {r} : req'[x].pc = "idle" /\ req'[x].sid = NoSession
  BY DEF SerialInv, IdleKnowsNoRow, At
<1>2. \A x \in Request \ {r} : HoldsItsRow(x)'
  BY <1>1 DEF SessionsAssumption, HoldsItsRow, BearerPCs, Authorised, Live
<1>3. QED BY <1>1, <1>2 DEF SerialInv, Alone, IdleKnowsNoRow, At

LEMMA SerialStep ==
  ASSUME SessionsAssumption, IInv, SerialInv, [Next]_vars
  PROVE  SerialInv'
<1> SUFFICES ASSUME serial' PROVE SerialInv'
  BY DEF SerialInv
<1>0. TypeOK /\ TableConsistent BY DEF IInv
<1>1. CASE UNCHANGED <<session, req, serial>>
  BY <1>1 DEF SerialInv, Alone, IdleKnowsNoRow, HoldsItsRow, At, Live
<1>2. ASSUME NEW r \in Request, NEW op, NEW pc, NEW t, NEW c, NEW u,
             Start(r, op, pc, t, c, u), pc \in {"insert", "owner", "session"}
      PROVE  SerialInv'
  <2>1. /\ req'[r].sid = NoSession /\ req'[r].pc = pc /\ serial
        /\ \A x \in Request \ {r} : At(x, "idle") /\ req'[x] = req[x]
    BY <1>0, <1>2 DEF Start, TypeOK
  <2>2. HoldsItsRow(r)'
    BY <1>2, <2>1 DEF SessionsAssumption, HoldsItsRow, Live, BearerPCs, Authorised
  <2>3. QED BY <1>2, <2>1, <2>2, LoneStep
<1>3. ASSUME NEW r \in Request, Arrive(r) PROVE SerialInv'
  BY <1>1, <1>2, <1>3 DEF Arrive, Refuse, vars, SignInLookup, RefreshFind, Use, Logout,
     LogoutAll, Block, Unblock, BearerToken
<1>4. ASSUME NEW r \in Request, Step(r) PROVE SerialInv'
  <2>1. req[r].pc # "idle" /\ serial
    BY <1>4, StepCourse DEF Finish, Goto, Found
  <2>2. \A x \in Request \ {r} : At(x, "idle") /\ req'[x] = req[x]
    <3>1. \A x \in Request \ {r} : req'[x] = req[x]
      BY <1>0, <1>4, StepCourse DEF Finish, Goto, Found, TypeOK
    <3>2. QED BY <2>1, <3>1 DEF SerialInv, Alone, At
  <2>3. HoldsItsRow(r) BY <2>1 DEF SerialInv
  <2>4. CASE Finish(r)
    <3>1. req'[r].pc = "idle" /\ req'[r].sid = NoSession
      BY <1>0, <2>4 DEF Finish, TypeOK, Idle
    <3>2. HoldsItsRow(r)'
      BY <3>1 DEF SessionsAssumption, HoldsItsRow, Live, BearerPCs, Authorised
    <3>3. QED BY <2>1, <2>2, <3>1, <3>2, LoneStep
  <2>5. ASSUME UNCHANGED session, NEW pc \in PCs \ {"idle"}, Goto(r, pc),
               pc \in BearerPCs => req[r].pc \in BearerPCs \ {"session"}
        PROVE  SerialInv'
    <3>1. req'[r].pc = pc /\ req'[r].sid = req[r].sid /\ req'[r].tok = req[r].tok
      BY <1>0, <2>5 DEF Goto, TypeOK, Handler
    <3>2. HoldsItsRow(r)' BY <2>3, <2>5, <3>1 DEF HoldsItsRow, Live
    <3>3. QED BY <2>1, <2>2, <2>5, <3>1, <3>2, LoneStep DEF At
  <2>6. ASSUME UNCHANGED session, NEW pc \in PCs \ {"idle"},
               NEW s \in ByRefresh(req[r].tok) \cup ByAccess(req[r].tok), Found(r, s, pc)
        PROVE  SerialInv'
    <3>1. s \in Live /\ s \in Session /\ session[s].refresh = req[r].tok
      BY <1>0 DEF ByRefresh, ByAccess, TableConsistent, Live
    <3>2. req'[r].pc = pc /\ req'[r].sid = s /\ req'[r].tok = req[r].tok
      BY <1>0, <2>6 DEF Found, TypeOK, Handler
    <3>3. HoldsItsRow(r)' BY <2>6, <3>1, <3>2 DEF HoldsItsRow, Live
    <3>4. QED BY <2>1, <2>2, <2>6, <3>2, <3>3, LoneStep DEF At
  <2>7. QED BY <1>4, <2>4, <2>5, <2>6, StepCourse
<1>5. CASE Surroundings
  BY <1>1, <1>5 DEF Surroundings, Abort, Tick, KeyLapses, RedisRestart
<1>6. CASE UNCHANGED vars BY <1>1, <1>6 DEF vars
<1>7. QED BY <1>3, <1>4, <1>5, <1>6 DEF Next

LEMMA SerialInvariance == Spec => []SerialInv
<1>1. Init => SerialInv
  BY SessionsAssumption
     DEF SessionsAssumption, Init, SerialInv, Alone, IdleKnowsNoRow, HoldsItsRow, At, Idle,
         Live, BearerPCs, Authorised
<1>2. IInv /\ SerialInv /\ [Next]_vars => SerialInv' BY SerialStep, SessionsAssumption
<1>3. QED BY <1>1, <1>2, Invariance, PTL DEF Spec

\* As long as requests do not overlap, a logout with the cookie of its own
\* session deletes the row that authorised it, although the row was found by
\* jti and is deleted by the cookie's hash.
THEOREM LoneLogoutDeletes == Spec => SerialLogout
<1>1. ASSUME IInv, SerialInv, serial, NEW r \in Request, LogoutDelete(r),
             req[r].cookie = req[r].tok
      PROVE  session'[req[r].sid].status # "live"
  <2>1. req[r].sid \in Session
    BY <1>1 DEF SerialInv, HoldsItsRow, LogoutDelete, At, BearerPCs, Authorised
  <2>2. CASE req[r].sid \in Live
    <3>1. req[r].sid \in ByRefresh(req[r].cookie)
      BY <1>1, <2>2 DEF SerialInv, HoldsItsRow, ByRefresh
    <3>2. QED BY <1>1, <2>1, <3>1, DeleteEffect DEF LogoutDelete, IInv
  <2>3. CASE req[r].sid \notin Live
    <3>1. req[r].sid \notin ByRefresh(req[r].cookie) BY <2>3 DEF ByRefresh
    <3>2. session'[req[r].sid] = session[req[r].sid]
      BY <1>1, <2>1, <3>1, DeleteEffect DEF LogoutDelete, IInv
    <3>3. QED BY <2>1, <2>3, <3>2 DEF Live
  <2>4. QED BY <2>2, <2>3
<1>2. IInv /\ SerialInv /\ [Next]_vars => [serial => \A r \in Request : RowGoes(r)]_vars
  BY <1>1 DEF RowGoes
<1>3. QED BY <1>2, Invariance, SerialInvariance, PTL DEF Spec, SerialLogout

\* As long as requests do not overlap, a rotation replaces the pair presented
\* and no other, although it updates by primary key.
THEOREM LoneRotationReplaces == Spec => SerialRotation
<1>1. IInv /\ SerialInv /\ [Next]_vars =>
        [\A r \in Request : serial /\ RefreshRotate(r) /\ req[r].sid \in Live
           => session[req[r].sid].refresh = req[r].tok]_vars
  BY DEF SerialInv, HoldsItsRow
<1>2. QED BY <1>1, Invariance, SerialInvariance, PTL DEF Spec, SerialRotation
=============================================================================
