---------------------------- MODULE PasswordReset ----------------------------
(***************************************************************************)
(* Password reset by e-mail: the request that issues a link and keeps one  *)
(* row per account in password_reset_tokens, the confirmation that changes *)
(* the password and then marks the row as used, and the daily cleanup job, *)
(* which is a process of its own.                                          *)
(*                                                                         *)
(* As in Sessions, a handler is a chain of actions, one per round trip.    *)
(* The ORM finds a row by a WHERE and updates it later by primary key, and *)
(* it writes only the columns whose value differs from the one it loaded.  *)
(***************************************************************************)
EXTENDS Naturals, FiniteSets

CONSTANTS User,        \* accounts; each may ask for a reset
          Token,       \* reset tokens that can be issued
          RowId,       \* primary keys of password_reset_tokens, never reused
          Request,     \* slots for requests in flight at the same time
          Env,         \* "abort" and "mailLoss", if they may happen
          NoUser, NoToken, NoRow

ASSUME PasswordResetAssumption ==
  /\ NoUser \notin User /\ NoToken \notin Token /\ NoRow \notin RowId
  /\ Env \subseteq {"abort", "mailLoss"}

VARIABLES table,     \* password_reset_tokens
          owner,     \* owner[t]: the `sub` of a token, NoUser: not issued
          expired,   \* tokens past exp; expires_at is the same instant
          inbox,     \* tokens whose link reached the owner
          req,       \* the handlers in flight
          changes,   \* how often users.password was set by a token, up to 2
          latest,    \* history: the last token stored for an account
          retired,   \* history: tokens whose confirmation has been answered
          serial     \* history: no handler has met another or been cut short

vars == <<table, owner, expired, inbox, req, changes, latest, retired, serial>>

-----------------------------------------------------------------------------
(* State                                                                   *)

Row == [status : {"free", "stored", "deleted"}, user : User \cup {NoUser},
        hash : Token \cup {NoToken}, used : BOOLEAN]

FreeRow == [status |-> "free", user |-> NoUser, hash |-> NoToken, used |-> FALSE]

\* A handler: `tok` the token it issued or was sent, `row` the row it loaded
\* and `sawUsed` what used_at was in it.
Handler == [pc : {"idle", "pick", "store", "mail", "password", "find", "mark"},
            user : User \cup {NoUser}, tok : Token \cup {NoToken},
            row : RowId \cup {NoRow}, sawUsed : BOOLEAN]

Idle == [pc |-> "idle", user |-> NoUser, tok |-> NoToken, row |-> NoRow,
         sawUsed |-> FALSE]

TypeOK == /\ table \in [RowId -> Row]
          /\ owner \in [Token -> User \cup {NoUser}]
          /\ expired \subseteq Token
          /\ inbox \subseteq Token
          /\ req \in [Request -> Handler]
          /\ changes \in [Token -> 0..2]
          /\ latest \in [User -> Token \cup {NoToken}]
          /\ retired \subseteq Token
          /\ serial \in BOOLEAN

Init == /\ table = [i \in RowId |-> FreeRow]
        /\ owner = [t \in Token |-> NoUser]
        /\ expired = {}
        /\ inbox = {}
        /\ req = [r \in Request |-> Idle]
        /\ changes = [t \in Token |-> 0]
        /\ latest = [u \in User |-> NoToken]
        /\ retired = {}
        /\ serial = TRUE

Stored == {i \in RowId : table[i].status = "stored"}
Issued == {t \in Token : owner[t] # NoUser}
RowsOf(u) == {i \in Stored : table[i].user = u}
ByHash(t) == {i \in Stored : table[i].hash = t}
FreeRows == {i \in RowId : table[i].status = "free"}

\* Variant of NoRowOf on a table without the constraint.
NotUnique(u) == TRUE

\* user_id is unique: whether a row for the account can be inserted.
NoRowOf(u) == RowsOf(u) = {}

\* Variant of Usable that forgets used_at.
NotExpired(i) == i \in Stored /\ table[i].hash \notin expired

\* What validate_password_reset_token() accepts.
Usable(i) == /\ i \in Stored
             /\ ~ table[i].used
             /\ table[i].hash \notin expired

At(r, pc) == req[r].pc = pc
Goto(r, pc) == req' = [req EXCEPT ![r].pc = pc] /\ UNCHANGED serial
Finish(r) == req' = [req EXCEPT ![r] = Idle] /\ UNCHANGED serial
Start(r, handler) == /\ At(r, "idle")
                     /\ req' = [req EXCEPT ![r] = handler]
                     /\ serial' = (serial /\ \A q \in Request : At(q, "idle"))
Load(r, pc, i, u) ==
  /\ req' = [req EXCEPT ![r] = [@ EXCEPT !.pc = pc, !.row = i, !.sawUsed = u]]
  /\ UNCHANGED serial

rest == <<changes, latest, retired>>
Reads == UNCHANGED <<table, owner, expired, inbox, rest>>

-----------------------------------------------------------------------------
(* Asking for a link                                                       *)

\* Bound: a request starts only if a token and a row are left for it.
Asking == {r \in Request : req[r].pc \in {"pick", "store"}}
Left == /\ Cardinality(Token \ Issued) > Cardinality(Asking)
        /\ Cardinality(FreeRows) > Cardinality(Asking)

\* get_user_by_email().
Ask(r, u) == /\ Left
             /\ Start(r, [Idle EXCEPT !.pc = "pick", !.user = u])
             /\ Reads

\* Variant of PickRow that forgets the WHERE on user_id.
PickAnyRow(r) ==
  /\ At(r, "pick")
  /\ \/ \E i \in Stored : Load(r, "store", i, table[i].used)
     \/ Stored = {} /\ Load(r, "store", NoRow, FALSE)
  /\ Reads

\* Variant of PickRow that takes user_id for the primary key.
PickUserId(r) == /\ At(r, "pick")
                 /\ Load(r, "store", req[r].user, FALSE)
                 /\ Reads

\* Variant of PickRow that does not see used_at, so that it is not reset.
PickUnused(r) ==
  /\ At(r, "pick")
  /\ \/ \E i \in RowsOf(req[r].user) : Load(r, "store", i, FALSE)
     \/ RowsOf(req[r].user) = {} /\ Load(r, "store", NoRow, FALSE)
  /\ Reads

\* create_password_reset_token() looks for the account's row.
PickRow(r) ==
  /\ At(r, "pick")
  /\ \/ \E i \in RowsOf(req[r].user) : Load(r, "store", i, table[i].used)
     \/ RowsOf(req[r].user) = {} /\ Load(r, "store", NoRow, FALSE)
  /\ Reads

\* Variant of Fresh that sends the link of the row once more.
SameLink(r) == IF req[r].row \in Stored THEN {table[req[r].row].hash}
                                        ELSE Token \ Issued

\* create_reset_password_token(): its jti makes every token a new one.
Fresh(r) == Token \ Issued

\* ... and inserts one (the unique user_id refuses the loser of a race), or
\* updates the one it loaded, by id: used_at = NULL is written only if it was
\* not NULL when loaded; no row any more: StaleDataError, 500.
StoreToken(r) ==
  /\ At(r, "store")
  /\ \/ \E t \in Fresh(r) :
          /\ \/ /\ req[r].row = NoRow /\ NoRowOf(req[r].user)
                /\ \E i \in FreeRows :
                     table' = [table EXCEPT ![i] =
                       [status |-> "stored", user |-> req[r].user, hash |-> t,
                        used |-> FALSE]]
             \/ /\ req[r].row \in Stored
                /\ table' = [table EXCEPT ![req[r].row].hash = t,
                                          ![req[r].row].used = @ /\ ~ req[r].sawUsed]
          /\ owner' = [owner EXCEPT ![t] = req[r].user]
          /\ latest' = [latest EXCEPT ![req[r].user] = t]
          /\ req' = [req EXCEPT ![r] = [Idle EXCEPT !.pc = "mail", !.tok = t]]
          /\ UNCHANGED serial
     \/ /\ \/ req[r].row = NoRow /\ ~ NoRowOf(req[r].user)
           \/ req[r].row # NoRow /\ req[r].row \notin Stored
        /\ Finish(r)
        /\ UNCHANGED <<table, owner, latest>>
  /\ UNCHANGED <<expired, inbox, changes, retired>>

\* The background task, after the response.  send_email() swallows errors.
Mail(r) == /\ At(r, "mail")
           /\ \/ inbox' = inbox \cup {req[r].tok}
              \/ "mailLoss" \in Env /\ UNCHANGED inbox
           /\ Finish(r)
           /\ UNCHANGED <<table, owner, expired, rest>>

-----------------------------------------------------------------------------
(* Confirming                                                              *)

\* Variant of Validate that looks at the signature of the token only.
ValidateSigned(r, t) == /\ t \in inbox \ expired
                        /\ Start(r, [Idle EXCEPT !.pc = "password", !.tok = t])
                        /\ Reads

\* validate_password_reset_token(): JWT, then the row by hash, then its state.
\* The verify route does this and no more.
Validate(r, t) == /\ t \in inbox
                  /\ \E i \in ByHash(t) : Usable(i)
                  /\ Start(r, [Idle EXCEPT !.pc = "password", !.tok = t])
                  /\ Reads

\* update_user_password(): the account by the token's `sub`; commit.
ChangePassword(r) ==
  /\ At(r, "password")
  /\ changes' = [changes EXCEPT ![req[r].tok] = IF @ < 2 THEN @ + 1 ELSE @]
  /\ Goto(r, "find")
  /\ UNCHANGED <<table, owner, expired, inbox, latest, retired>>

Answer(r) == Finish(r) /\ retired' = retired \cup {req[r].tok}

\* mark_password_reset_token_as_used() looks the row up again: replaced or
\* cleaned up by now, there is nothing to mark.
FindUsed(r) ==
  /\ At(r, "find")
  /\ \/ /\ \E i \in ByHash(req[r].tok) : Load(r, "mark", i, table[i].used)
        /\ UNCHANGED retired
     \/ ByHash(req[r].tok) = {} /\ Answer(r)
  /\ UNCHANGED <<table, owner, expired, inbox, changes, latest>>

\* Variant of MarkUsed without commit().
MarkNoCommit(r) == At(r, "mark") /\ Answer(r)
                   /\ UNCHANGED <<table, owner, expired, inbox, changes, latest>>

\* ... and writes used_at, by id; no row any more: StaleDataError, 500.
MarkUsed(r) ==
  /\ At(r, "mark")
  /\ \/ /\ req[r].row \in Stored
        /\ table' = [table EXCEPT ![req[r].row].used = TRUE]
     \/ req[r].row \notin Stored /\ UNCHANGED table
  /\ Answer(r)
  /\ UNCHANGED <<owner, expired, inbox, changes, latest>>

-----------------------------------------------------------------------------
(* Around the handlers                                                     *)

\* Variant of Old that forgets the condition on expires_at.
Anything(i) == TRUE

\* delete_old_password_reset_tokens() with RETENTION_DAYS = 0: the cutoff is
\* now, so a row is old when it is used or expired.
Old(i) == table[i].used \/ table[i].hash \in expired

Cleanup == /\ \E i \in Stored : Old(i)
           /\ table' = [i \in RowId |-> IF i \in Stored /\ Old(i)
                          THEN [FreeRow EXCEPT !.status = "deleted"] ELSE table[i]]
           /\ UNCHANGED <<owner, expired, inbox, req, rest, serial>>

Expire(t) == /\ t \in Issued \ expired
             /\ expired' = expired \cup {t}
             /\ UNCHANGED <<table, owner, inbox, req, rest, serial>>

\* The process or the database fails between two round trips.
Abort(r) == /\ "abort" \in Env /\ ~ At(r, "idle")
            /\ req' = [req EXCEPT ![r] = Idle]
            /\ serial' = FALSE
            /\ Reads

\* A request turned away by its first round trip leaves no trace.
Refuse(r) == At(r, "idle") /\ UNCHANGED vars

Arrive(r) == \/ Refuse(r)
             \/ \E u \in User : Ask(r, u)
             \/ \E t \in Token : Validate(r, t)

Step(r) == \/ PickRow(r) \/ StoreToken(r) \/ Mail(r)
           \/ ChangePassword(r) \/ FindUsed(r) \/ MarkUsed(r)

Next == \/ \E r \in Request : Arrive(r) \/ Step(r) \/ Abort(r)
        \/ \E t \in Token : Expire(t)
        \/ Cleanup

Spec == Init /\ [][Next]_vars

-----------------------------------------------------------------------------
(* Properties                                                              *)

\* Once a confirmation has been answered, with 204 or with the 500 of a row
\* that went away, its token is never usable again, whatever requests,
\* confirmations and cleanups were under way: the row is marked, or carries
\* another token, or is gone.
RetiredStaysDead == \A i \in RowId : Usable(i) => table[i].hash \notin retired

\* A token that is not usable (used, out of time, replaced, cleaned up) never
\* becomes usable again: no request resets used_at under the old hash, and no
\* update by id brings back what another handler has replaced.
DeadStaysDead ==
  [][\A t \in Issued : (\A i \in ByHash(t) : ~ Usable(i))
                        => \A i \in RowId : table'[i].hash = t => ~ Usable(i)']_vars

\* As long as requests do not overlap, the link of the last answered one works
\* until it changes a password or runs out: neither the cleanup job, which runs
\* at any moment, nor a failed request takes it away.
LatestLinkWorks ==
  serial => \A u \in User : /\ latest[u] # NoToken /\ latest[u] \notin expired
                             /\ changes[latest[u]] = 0
                             => \E i \in ByHash(latest[u]) : Usable(i)

\* A row that a request has loaded is not another account's by the time it is
\* updated by id, and holds a token of its own account.
RowsStayTheirs ==
  /\ \A i \in Stored : owner[table[i].hash] = table[i].user
  /\ \A r \in Request : At(r, "store") /\ req[r].row \in Stored
       => table[req[r].row].user = req[r].user

\* As the comment on PasswordResetToken says: the table is there "to make reset
\* links one-time" (entity/user.py:105).
OneTime == \A t \in Token : changes[t] <= 1

\* The links are one-time as long as requests do not overlap, whenever the
\* cleanup job runs: the row is marked before the next request comes in.
SerialOneTime == serial => OneTime

\* As create_password_reset_token() says: it stores the new token "and mark[s]
\* the token as not yet used" (repository/auth.py:170), so only a token that
\* changed the password is marked used, as long as requests do not overlap.
UsedWasUsed == serial => \A i \in Stored : table[i].used => changes[table[i].hash] > 0

-----------------------------------------------------------------------------
(* What it implements                                                      *)

\* The links behind the rows and the handlers.
LinkState ==
  [t \in Token |-> IF t \notin Issued THEN "none"
                   ELSE IF \E i \in ByHash(t) : Usable(i) THEN "good" ELSE "dead"]
Accepted == {t \in Token : \E r \in Request : At(r, "password") /\ req[r].tok = t}
Spent == {t \in Token : changes[t] > 0}

Links == INSTANCE ResetLinks
           WITH link <- LinkState, pending <- Accepted, spent <- Spent, closed <- retired

\* The rows, the handlers, the cleanup job and the clock implement ResetLinks.
ImplementsLinks == Links!Spec

\* Two requests of an account that race for its row, or find it gone, never
\* leave it with two links that work.
OneLinkPerAccount == Links!OneLink
=============================================================================
