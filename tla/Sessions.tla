------------------------------ MODULE Sessions ------------------------------
(***************************************************************************)
(* Authenticated sessions of the photo-share API: sign-in, token refresh,  *)
(* the bearer check in front of every protected route, both logouts, and   *)
(* the administrator's block and unblock.                                  *)
(*                                                                         *)
(* Every `await` of a handler is a point where the event loop may run      *)
(* another request, so a handler is a chain of actions, one per database   *)
(* or Redis round trip, and req[r].pc names the round trip that comes      *)
(* next.  A statement and the commit that follows it are one action:       *)
(* nothing that a transaction wrote is visible before the commit, and the  *)
(* row lock it holds makes a rival statement re-evaluate its WHERE after   *)
(* the commit.  All accounts exist, are confirmed and send the right       *)
(* password; the other refusals of sign-in change nothing.                 *)
(*                                                                         *)
(* An access token and the refresh token issued with it are one Token.     *)
(***************************************************************************)
EXTENDS Naturals, FiniteSets

CONSTANTS User,        \* accounts
          Admin,       \* the accounts with role admin
          Session,     \* ids of user_sessions rows; an id is never reused
          Token,       \* token pairs that can be issued
          Request,     \* slots for requests in flight at the same time
          Ops,         \* the operations clients send
          Env,         \* "abort", "clock" and "redisLoss", if they may happen
          NoUser, NoToken, NoSession

AllOps == {"signin", "refresh", "use", "logout", "logoutAll", "block", "unblock"}

ASSUME SessionsAssumption ==
  /\ Admin \subseteq User
  /\ NoUser \notin User /\ NoToken \notin Token /\ NoSession \notin Session
  /\ Ops \subseteq AllOps
  /\ Env \subseteq {"abort", "clock", "redisLoss"}

VARIABLES blocked,     \* users.blocked: the accounts with the flag set
          session,     \* the user_sessions table
          holder,      \* holder[t]: the `sub` of the pair, NoUser: not issued
          age,         \* where the pair is in its lifetime
          blacklist,   \* access tokens with a key in Redis
          req,         \* the handlers in flight
          out,         \* history: tokens that a completed logout presented
          lost,        \* history: accounts whose purge an abort cut short
          forgotten,   \* history: access tokens whose key a restart forgot
          serial       \* history: no handler has met another or been cut short

vars == <<blocked, session, holder, age, blacklist, req, out, lost, forgotten,
          serial>>

-----------------------------------------------------------------------------
(* State                                                                   *)

\* "closing" is the second exp itself: int(now) = exp, so jose still accepts
\* the access token while get_token_ttl() is already 0.
Ages == {"valid", "closing", "accessExpired", "expired"}

Decodable == {"valid", "closing"}      \* decode_token() takes the access token

PCs == {"idle", "insert", "owner", "recheck", "select", "rotate", "session",
        "user", "handler", "revoke", "delete", "deleteAll", "target",
        "update", "reload", "purge"}

\* `raced` is history: the account was already blocked at the INSERT.
Row == [status : {"free", "live", "deleted"}, user : User \cup {NoUser},
        refresh : Token \cup {NoToken}, access : Token \cup {NoToken},
        raced : BOOLEAN]

NoRow == [status |-> "free", user |-> NoUser, refresh |-> NoToken,
          access |-> NoToken, raced |-> FALSE]

Gone == [NoRow EXCEPT !.status = "deleted"]

\* A handler: `tok` is the token presented, `cookie` the refresh cookie sent
\* along, `user` the account signing in or the target of a block, `sid` the
\* session row read last.  History: `was` says that a stored session accepted
\* `tok` when the request came in, `revoked` that a logout had presented it.
Handler == [op : AllOps \cup {"none"}, pc : PCs, tok : Token \cup {NoToken},
            cookie : Token \cup {NoToken}, user : User \cup {NoUser},
            sid : Session \cup {NoSession}, was : BOOLEAN, revoked : BOOLEAN]

Idle == [op |-> "none", pc |-> "idle", tok |-> NoToken, cookie |-> NoToken,
         user |-> NoUser, sid |-> NoSession, was |-> FALSE, revoked |-> FALSE]

TypeOK == /\ blocked \subseteq User
          /\ session \in [Session -> Row]
          /\ holder \in [Token -> User \cup {NoUser}]
          /\ age \in [Token -> Ages]
          /\ blacklist \subseteq Token
          /\ req \in [Request -> Handler]
          /\ out \subseteq Token
          /\ lost \subseteq User
          /\ forgotten \subseteq Token
          /\ serial \in BOOLEAN

Init == /\ blocked = {}
        /\ session = [s \in Session |-> NoRow]
        /\ holder = [t \in Token |-> NoUser]
        /\ age = [t \in Token |-> "valid"]
        /\ blacklist = {}
        /\ req = [r \in Request |-> Idle]
        /\ out = {}
        /\ lost = {}
        /\ forgotten = {}
        /\ serial = TRUE

-----------------------------------------------------------------------------
(* The user_sessions table and the tokens                                  *)

Live == {s \in Session : session[s].status = "live"}
Issued == {t \in Token : holder[t] # NoUser}
ByRefresh(t) == {s \in Live : session[s].refresh = t}
AnyRow(t) == Live                      \* mutant of ByAccess: no WHERE
ByAccess(t) == {s \in Live : session[s].access = t}
LiveTokens == {session[s].access : s \in Live}
EveryRow(u) == Live                    \* mutant of RowsOf: no WHERE
RowsOf(u) == {s \in Live : session[s].user = u}

\* delete_user_session_by_refresh_token_hash, delete_all_user_sessions_...
Delete(rows) ==
  session' = [s \in Session |-> IF s \in rows THEN Gone ELSE session[s]]

\* Bound: a request that needs a fresh pair or row starts only if one is left
\* for it, so that no handler is ever stuck for want of identifiers.
Minting == {r \in Request : req[r].op \in {"signin", "refresh"}}
SigningIn == {r \in Request : req[r].op = "signin"}
TokenLeft == Cardinality(Token \ Issued) > Cardinality(Minting)
FreeRows == {s \in Session : session[s].status = "free"}
RowLeft == Cardinality(FreeRows) > Cardinality(SigningIn)

-----------------------------------------------------------------------------
(* The course of a handler                                                 *)

At(r, pc) == req[r].pc = pc
Goto(r, pc) == req' = [req EXCEPT ![r].pc = pc] /\ UNCHANGED serial
Finish(r) == req' = [req EXCEPT ![r] = Idle] /\ UNCHANGED serial  \* response sent
Found(r, s, pc) == /\ req' = [req EXCEPT ![r] = [@ EXCEPT !.pc = pc, !.sid = s]]
                   /\ UNCHANGED serial
Start(r, op, pc, t, c, u) ==
  /\ At(r, "idle")
  /\ op \in Ops
  /\ req' = [req EXCEPT ![r] =
               [op |-> op, pc |-> pc, tok |-> t, cookie |-> c, user |-> u,
                sid |-> NoSession, was |-> t \in LiveTokens,
                revoked |-> t \in out]]
  /\ serial' = (serial /\ \A q \in Request : At(q, "idle"))

RowId(r) == req[r].sid                 \* mutant of Caller: session.id for user.id
Caller(r) == holder[req[r].tok]        \* the `sub` claim of the bearer token

redis == <<blacklist, forgotten>>
tokens == <<holder, age, redis>>
history == <<out, lost>>

\* A round trip that only reads: the handler moves on, nothing else changes.
Reads == UNCHANGED <<blocked, session, tokens, history>>

\* A check that either lets the handler go on to `pc` or answers 401/403.
Check(r, ok, pc) == IF ok THEN Goto(r, pc) ELSE Finish(r)

-----------------------------------------------------------------------------
(* Sign-in                                                                 *)

\* get_user_by_email() and the checks on what it returned.
SignInLookup(r, u) == /\ TokenLeft /\ RowLeft
                      /\ u \notin blocked
                      /\ Start(r, "signin", "insert", NoToken, NoToken, u)
                      /\ Reads

\* Mutant of SignInInsert: token ids that are not unique.
InsertReusedPair(r) ==
  /\ At(r, "insert")
  /\ \E t \in Token \ LiveTokens, s \in FreeRows :
       /\ session' = [session EXCEPT ![s] =
            [status |-> "live", user |-> req[r].user, refresh |-> t,
             access |-> t, raced |-> req[r].user \in blocked]]
       /\ holder' = [holder EXCEPT ![t] = req[r].user]
  /\ Finish(r)
  /\ UNCHANGED <<blocked, age, redis, history>>

\* create_user_session(): INSERT and commit; the pair goes to the client.
SignInInsert(r) ==
  /\ At(r, "insert")
  /\ \E t \in Token \ Issued, s \in FreeRows :
       /\ session' = [session EXCEPT ![s] =
            [status |-> "live", user |-> req[r].user, refresh |-> t,
             access |-> t, raced |-> req[r].user \in blocked]]
       /\ holder' = [holder EXCEPT ![t] = req[r].user]
  /\ Finish(r)
  /\ UNCHANGED <<blocked, age, redis, history>>

-----------------------------------------------------------------------------
(* Refresh                                                                 *)

\* get_email_from_refresh_token(): decode, then SELECT by hash.
RefreshFind(r, t) == /\ TokenLeft
                     /\ t \in Issued /\ age[t] # "expired"
                     /\ ByRefresh(t) # {}
                     /\ Start(r, "refresh", "owner", t, NoToken, NoUser)
                     /\ Reads

\* get_user_by_email() and the check of the blocked flag.
RefreshOwner(r) == /\ At(r, "owner")
                   /\ Check(r, Caller(r) \notin blocked, "recheck")
                   /\ Reads

\* "Ensure that this exact user session still exists before rotation."
RefreshRecheck(r) == /\ At(r, "recheck")
                     /\ Check(r, ByRefresh(req[r].tok) # {}, "select")
                     /\ Reads

\* Mutant of RefreshSelect: the row is looked up by user instead of by hash.
SelectByUser(r) ==
  /\ At(r, "select")
  /\ \/ \E s \in RowsOf(Caller(r)) : Found(r, s, "rotate")
     \/ RowsOf(Caller(r)) = {} /\ Finish(r)
  /\ Reads

\* update_user_session_tokens() reads the row it will change.
RefreshSelect(r) ==
  /\ At(r, "select")
  /\ \/ \E s \in ByRefresh(req[r].tok) : Found(r, s, "rotate")
     \/ ByRefresh(req[r].tok) = {} /\ Finish(r)
  /\ Reads

\* Mutants of RefreshRotate: the jti is left as it was; a deleted row is
\* inserted again.
RotateHashOnly(r) ==
  /\ At(r, "rotate")
  /\ \/ /\ req[r].sid \in Live
        /\ \E t \in Token \ Issued :
             /\ session' = [session EXCEPT ![req[r].sid].refresh = t]
             /\ holder' = [holder EXCEPT ![t] = Caller(r)]
     \/ req[r].sid \notin Live /\ UNCHANGED <<session, holder>>
  /\ Finish(r)
  /\ UNCHANGED <<blocked, age, redis, history>>

\* ... and commits: UPDATE ... WHERE id = sid, whatever hash the row carries
\* by now.  No row: StaleDataError, 500, and the fresh pair is never sent.
RefreshRotate(r) ==
  /\ At(r, "rotate")
  /\ \/ /\ req[r].sid \in Live
        /\ \E t \in Token \ Issued :
             /\ session' = [session EXCEPT ![req[r].sid].refresh = t,
                                           ![req[r].sid].access = t]
             /\ holder' = [holder EXCEPT ![t] = Caller(r)]
     \/ /\ req[r].sid \notin Live
        /\ UNCHANGED <<session, holder>>
  /\ Finish(r)
  /\ UNCHANGED <<blocked, age, redis, history>>

-----------------------------------------------------------------------------
(* get_current_user(), in front of every protected route                   *)

\* The Redis lookup; then, without an await, the decoding of the JWT.
NotExpired(t) == t \in Issued /\ age[t] \in Decodable \* mutant: no blacklist
Accepted(t) == t \in Issued /\ t \notin blacklist /\ age[t] \in Decodable

\* Clients keep one account's tokens in a jar: the cookie is any refresh token
\* of the caller, the one of another device or an outdated one included.
Cookies(t) == {NoToken} \cup {c \in Issued : holder[c] = holder[t]}

BearerToken(r, op, t, c, u) == /\ Accepted(t)
                               /\ Start(r, op, "session", t, c, u)
                               /\ Reads

Use(r, t) == BearerToken(r, "use", t, NoToken, NoUser)
Logout(r, t, c) == c \in Cookies(t) /\ BearerToken(r, "logout", t, c, NoUser)
LogoutAll(r, t) == BearerToken(r, "logoutAll", t, NoToken, NoUser)
Block(r, t, u) == BearerToken(r, "block", t, NoToken, u)
Unblock(r, t, u) == BearerToken(r, "unblock", t, NoToken, u)

\* Mutant of BearerSession: a well-formed JWT is enough.
TrustJWT(r) == At(r, "session") /\ Goto(r, "user") /\ Reads

\* get_user_session_by_access_token_jti().
BearerSession(r) ==
  /\ At(r, "session")
  /\ \/ \E s \in ByAccess(req[r].tok) : Found(r, s, "user")
     \/ ByAccess(req[r].tok) = {} /\ Finish(r)
  /\ Reads

\* Where a handler goes once its caller is known; RoleAccess has no await.
Entry(r) == CASE req[r].op = "use" -> "handler"
              [] req[r].op \in {"logout", "logoutAll"} -> "revoke"
              [] OTHER -> "target"

Allowed(r) == /\ Caller(r) \notin blocked
              /\ req[r].op \in {"block", "unblock"} => Caller(r) \in Admin

\* get_user_by_email() by the `sub` claim, blocked flag, admin_only.
BearerUser(r) == /\ At(r, "user")
                 /\ Check(r, Allowed(r), Entry(r))
                 /\ Reads

\* Any other protected handler: what it does is modelled elsewhere.
Serve(r) == At(r, "handler") /\ Finish(r) /\ Reads

-----------------------------------------------------------------------------
(* Logout                                                                  *)

LoggedOut(r) == out' = out \cup {req[r].tok}

\* add_access_token_jti_to_blacklist(): no key when the ttl is not positive.
\* Without a refresh cookie the handler is done.
LogoutRevoke(r) ==
  /\ At(r, "revoke")
  /\ blacklist' = IF age[req[r].tok] = "valid"
                  THEN blacklist \cup {req[r].tok} ELSE blacklist
  /\ \/ req[r].op = "logoutAll" /\ Goto(r, "deleteAll") /\ UNCHANGED out
     \/ /\ req[r].op = "logout" /\ req[r].cookie # NoToken
        /\ Goto(r, "delete") /\ UNCHANGED out
     \/ /\ req[r].op = "logout" /\ req[r].cookie = NoToken
        /\ Finish(r) /\ LoggedOut(r)
  /\ UNCHANGED <<blocked, session, holder, age, forgotten, lost>>

\* Mutant of LogoutDelete: the commit is forgotten.
LogoutNoCommit(r) == /\ At(r, "delete")
                     /\ Finish(r) /\ LoggedOut(r)
                     /\ UNCHANGED <<blocked, session, tokens, lost>>

\* DELETE ... WHERE refresh_token_hash = the cookie's; zero rows is fine too.
LogoutDelete(r) == /\ At(r, "delete")
                   /\ Delete(ByRefresh(req[r].cookie))
                   /\ Finish(r) /\ LoggedOut(r)
                   /\ UNCHANGED <<blocked, tokens, lost>>

\* DELETE ... WHERE user_id = the caller's.
LogoutDeleteAll(r) == /\ At(r, "deleteAll")
                      /\ Delete(RowsOf(Caller(r)))
                      /\ Finish(r) /\ LoggedOut(r)
                      /\ lost' = lost \ {Caller(r)}
                      /\ UNCHANGED <<blocked, tokens>>

-----------------------------------------------------------------------------
(* Block and unblock                                                       *)

Wanted(r) == req[r].op = "block"       \* body.blocked

\* get_user_by_id(), the admin rules, and the refusal of a no-op.  The second
\* SELECT in the repository meets the row already loaded and changes nothing.
BlockTarget(r) ==
  /\ At(r, "target")
  /\ Check(r, /\ req[r].user # Caller(r)
              /\ req[r].user \notin Admin
              /\ Wanted(r) # (req[r].user \in blocked), "update")
  /\ Reads

\* UPDATE users SET blocked ... WHERE id, commit.
BlockUpdate(r) == /\ At(r, "update")
                  /\ blocked' = IF Wanted(r) THEN blocked \cup {req[r].user}
                                ELSE blocked \ {req[r].user}
                  /\ Goto(r, "reload")
                  /\ UNCHANGED <<session, tokens, history>>

\* db.refresh(user); the handler then looks at the flag it has just re-read.
BlockReload(r) == /\ At(r, "reload")
                  /\ Check(r, req[r].user \in blocked, "purge")
                  /\ Reads

\* Mutants of BlockPurge: the admin's own rows go; the commit is forgotten.
PurgeCaller(r) == /\ At(r, "purge")
                  /\ Delete(RowsOf(Caller(r)))
                  /\ Finish(r)
                  /\ UNCHANGED <<blocked, tokens, history>>

PurgeNoCommit(r) == At(r, "purge") /\ Finish(r) /\ Reads

\* delete_all_user_sessions_by_user_id() for the target.
BlockPurge(r) == /\ At(r, "purge")
                 /\ Delete(RowsOf(req[r].user))
                 /\ Finish(r)
                 /\ lost' = lost \ {req[r].user}
                 /\ UNCHANGED <<blocked, tokens, out>>

-----------------------------------------------------------------------------
(* What goes on around the handlers                                        *)

\* A block whose flag is set and whose purge has yet to come.
Purging(r) == req[r].op = "block" /\ req[r].pc \in {"reload", "purge"}

\* A handler ends between two round trips: the database or Redis answers with
\* an error (500), or the process stops.
Abort(r) ==
  /\ "abort" \in Env /\ ~ At(r, "idle")
  /\ lost' = IF Purging(r) THEN lost \cup {req[r].user} ELSE lost
  /\ req' = [req EXCEPT ![r] = Idle]
  /\ serial' = FALSE
  /\ UNCHANGED <<blocked, session, tokens, out>>

\* Time passes for one pair: the access token reaches exp, then is refused,
\* and later so is the refresh token.
Ageing == {<<"valid", "closing">>, <<"closing", "accessExpired">>,
           <<"accessExpired", "expired">>}

Tick(t) == /\ "clock" \in Env /\ t \in Issued
           /\ \E a \in Ages : <<age[t], a>> \in Ageing /\ age' = [age EXCEPT ![t] = a]
           /\ UNCHANGED <<blocked, session, holder, redis, req, history, serial>>

\* SET ... EX ttl at the fraction f of a second lapses at exp + f.
KeyLapses(t) == /\ "clock" \in Env
                /\ t \in blacklist /\ age[t] # "valid"
                /\ blacklist' = blacklist \ {t}
                /\ UNCHANGED <<blocked, session, holder, age, forgotten, req, history, serial>>

\* Redis runs without a volume: a restart forgets every key.
RedisRestart == /\ "redisLoss" \in Env /\ blacklist # {}
                /\ blacklist' = {}
                /\ forgotten' = forgotten \cup blacklist
                /\ UNCHANGED <<blocked, session, holder, age, req, history, serial>>

-----------------------------------------------------------------------------

\* A request that its first round trip turns away (wrong password, unknown or
\* blacklisted token, blocked account) leaves no trace.
Refuse(r) == At(r, "idle") /\ UNCHANGED vars

\* A request comes in and makes its first round trip.
Arrive(r) == \/ Refuse(r)
             \/ \E u \in User : SignInLookup(r, u)
             \/ \E t \in Token : \/ RefreshFind(r, t)
                                 \/ Use(r, t)
                                 \/ \E c \in Token \cup {NoToken} : Logout(r, t, c)
                                 \/ LogoutAll(r, t)
                                 \/ \E u \in User : Block(r, t, u) \/ Unblock(r, t, u)

\* A request in flight makes its next round trip.
Step(r) == \/ SignInInsert(r)
           \/ RefreshOwner(r) \/ RefreshRecheck(r) \/ RefreshSelect(r) \/ RefreshRotate(r)
           \/ BearerSession(r) \/ BearerUser(r) \/ Serve(r)
           \/ LogoutRevoke(r) \/ LogoutDelete(r) \/ LogoutDeleteAll(r)
           \/ BlockTarget(r) \/ BlockUpdate(r) \/ BlockReload(r) \/ BlockPurge(r)

Surroundings == \/ \E r \in Request : Abort(r)
                \/ \E t \in Token : Tick(t) \/ KeyLapses(t)
                \/ RedisRestart

Next == \/ \E r \in Request : Arrive(r) \/ Step(r)
        \/ Surroundings

Spec == Init /\ [][Next]_vars

\* The event loop resumes every handler whose round trip has come back.
FairSpec == Spec /\ \A r \in Request : WF_vars(Step(r))

-----------------------------------------------------------------------------
(* Properties                                                              *)

\* The pair in a row was issued to the row's account, and no two rows accept
\* the same pair.  Rows are written by two handlers that mint tokens from a
\* `sub` claim (services/auth.py), never from the row's user_id.
TableConsistent ==
  \A s \in Live :
    /\ session[s].refresh = session[s].access
    /\ session[s].access \in Issued
    /\ session[s].user = holder[session[s].access]
    /\ \A x \in Live : session[x].access = session[s].access => x = s

\* get_current_user() finds the row by jti and the account by `sub`;
\* refresh_token() finds the account first and updates the row by id later.
\* Whatever ran in between, the row, if still there, is the caller's.
CallerOwnsRow ==
  \A r \in Request : req[r].sid \in Live => session[req[r].sid].user = Caller(r)

Authorised == {"handler", "revoke", "delete", "deleteAll", "target", "update",
               "reload", "purge"}

\* A protected handler runs only for a token that some stored session accepted
\* when the request came in: a token rotated away or revoked before the
\* request was sent never authorises it, however the checks interleave.
OnlyLiveCredentialsAct ==
  \A r \in Request : req[r].pc \in Authorised => req[r].was

\* A completed logout keeps its access token out until the last second of the
\* token's life, with or without a cookie, unless a restart of Redis forgot it.
LoggedOutRejected ==
  \A r \in Request : /\ req[r].pc \in Authorised /\ req[r].revoked
                     /\ req[r].tok \notin forgotten
                     => age[req[r].tok] # "valid"

\* An account that is blocked has no session left, except rows inserted after
\* the flag was set, or while a block of it is under way, or when an error
\* ended a block before its purge.
PurgeComplete ==
  \A u \in blocked \ lost :
    \/ \E r \in Request : Purging(r) /\ req[r].user = u
    \/ \A s \in RowsOf(u) : session[s].raced

\* A pair no session accepts any more is never accepted again.
SpentStaysSpent ==
  [][(Issued \ LiveTokens) \cap LiveTokens' = {}]_vars

\* A deleted row never comes back: a rotation that read it before the delete
\* fails (StaleDataError) instead of writing it again.
GoneStaysGone ==
  [][\A s \in Session : session[s].status = "deleted" => session'[s].status = "deleted"]_vars

\* The tables, Redis and the handlers together implement Credentials.
Promise == INSTANCE Credentials WITH alive <- LiveTokens
ImplementsCredentials == Promise!Spec

\* As logout() says: it "removes the matching stored user-session record"
\* (routes/auth.py:243-244): the row that authorised it, when the cookie is
\* the refresh token issued together with the bearer token.
RowGoes(r) == LogoutDelete(r) /\ req[r].cookie = req[r].tok
                => session'[req[r].sid].status # "live"

\* It does as long as requests do not overlap, Redis or no Redis; a refresh that
\* rotates the row before the DELETE by hash leaves it alive.
SerialLogout == [][serial => \A r \in Request : RowGoes(r)]_vars

\* As update_user_session_tokens() says: it "finds the session by its current
\* refresh-token hash" (repository/auth.py:78), so a rotation replaces the
\* pair that was presented and no other, as long as requests do not overlap.
SerialRotation ==
  [][\A r \in Request : serial /\ RefreshRotate(r) /\ req[r].sid \in Live
        => session[req[r].sid].refresh = req[r].tok]_vars

\* Under FairSpec a block that no error ends gets to its purge: the account's
\* old rows go away, or it is unblocked first.
BlockedIsPurged ==
  \A u \in User : u \in blocked /\ RowsOf(u) # {}
                    ~> \/ u \notin blocked \/ u \in lost
                       \/ \A s \in RowsOf(u) : session[s].raced
=============================================================================
