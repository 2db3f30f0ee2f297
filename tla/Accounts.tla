------------------------------ MODULE Accounts ------------------------------
(***************************************************************************)
(* The users table: sign-up (two uniqueness checks, the question whether   *)
(* the table is empty, the INSERT), the confirmation e-mail sent by a      *)
(* background task after the response, the confirmation itself, and an     *)
(* administrator's changes of role and of the blocked flag.                *)
(*                                                                         *)
(* As in Sessions, a handler is a chain of actions, one per round trip.    *)
(* No route deletes an account.  The session checks in front of a          *)
(* management request are those of Sessions; here the request starts with  *)
(* the read of the caller's row.                                           *)
(***************************************************************************)
EXTENDS Naturals, FiniteSets

CONSTANTS Id,            \* primary keys, never reused
          Email, Name,   \* values of the two unique columns
          Request,       \* slots for requests in flight at the same time
          Env,           \* "abort" and "mailLoss", if they may happen
          NoId, NoEmail, NoName

ASSUME AccountsAssumption ==
  /\ NoId \notin Id /\ NoEmail \notin Email /\ NoName \notin Name
  /\ Env \subseteq {"abort", "mailLoss"}

VARIABLES users,   \* the users table
          inbox,   \* addresses whose owner holds a confirmation link in time
          req      \* the handlers in flight

vars == <<users, inbox, req>>

-----------------------------------------------------------------------------
(* State                                                                   *)

Roles == {"admin", "moderator", "user"}

\* What an administrator can ask for: a role of AssignableRole, or the blocked
\* flag on or off.
Wishes == {"moderator", "user", "block", "unblock"}

Account == [stored : BOOLEAN, email : Email \cup {NoEmail}, name : Name \cup {NoName},
            role : Roles, confirmed : BOOLEAN, blocked : BOOLEAN]

NoAccount == [stored |-> FALSE, email |-> NoEmail, name |-> NoName, role |-> "user",
              confirmed |-> FALSE, blocked |-> FALSE]

\* A handler: the submitted `email` and `name`, `first` what has_any_users()
\* told, `id` the row it will update, `caller` and `wish` of a management one.
Handler == [pc : {"idle", "name", "any", "insert", "mail", "confirm", "target", "update"},
            email : Email \cup {NoEmail}, name : Name \cup {NoName}, first : BOOLEAN,
            id : Id \cup {NoId}, caller : Id \cup {NoId}, wish : Wishes]

Idle == [pc |-> "idle", email |-> NoEmail, name |-> NoName, first |-> FALSE,
         id |-> NoId, caller |-> NoId, wish |-> "user"]

TypeOK == /\ users \in [Id -> Account]
          /\ inbox \subseteq Email
          /\ req \in [Request -> Handler]

Init == /\ users = [i \in Id |-> NoAccount]
        /\ inbox = {}
        /\ req = [r \in Request |-> Idle]

Stored == {i \in Id : users[i].stored}
Admins == {i \in Stored : users[i].role = "admin"}
WithEmail(e) == {i \in Stored : users[i].email = e}
WithName(n) == {i \in Stored : users[i].name = n}

At(r, pc) == req[r].pc = pc
Goto(r, pc) == req' = [req EXCEPT ![r].pc = pc]
Finish(r) == req' = [req EXCEPT ![r] = Idle]
Start(r, handler) == At(r, "idle") /\ req' = [req EXCEPT ![r] = handler]
Check(r, ok, pc) == IF ok THEN Goto(r, pc) ELSE Finish(r)
Reads == UNCHANGED <<users, inbox>>

-----------------------------------------------------------------------------
(* Sign-up                                                                 *)

\* Bound: a sign-up starts only if a primary key is left for it.
SigningUp == {r \in Request : req[r].pc \in {"name", "any", "insert"}}
IdLeft == Cardinality(Id \ Stored) > Cardinality(SigningUp)

\* get_user_by_email(): 409 when the address is taken.
SignUpEmail(r, e, n) ==
  /\ IdLeft /\ WithEmail(e) = {}
  /\ Start(r, [Idle EXCEPT !.pc = "name", !.email = e, !.name = n])
  /\ Reads

\* get_user_by_username(): 409 when the name is taken.
SignUpName(r) == /\ At(r, "name")
                 /\ Check(r, WithName(req[r].name) = {}, "any")
                 /\ Reads

\* has_any_users() decides the role of the account to come.
SignUpAny(r) ==
  /\ At(r, "any")
  /\ req' = [req EXCEPT ![r] = [@ EXCEPT !.pc = "insert", !.first = (Stored = {})]]
  /\ Reads

\* INSERT and commit.  The unique keys on email and username refuse the loser
\* of a race (IntegrityError, 500); the winner's link is mailed afterwards.
SignUpInsert(r) ==
  /\ At(r, "insert")
  /\ \/ /\ WithEmail(req[r].email) = {} /\ WithName(req[r].name) = {}
        /\ \E i \in Id \ Stored :
             users' = [users EXCEPT ![i] =
               [stored |-> TRUE, email |-> req[r].email, name |-> req[r].name,
                role |-> IF req[r].first THEN "admin" ELSE "user",
                confirmed |-> FALSE, blocked |-> FALSE]]
        /\ Goto(r, "mail")
     \/ /\ WithEmail(req[r].email) # {} \/ WithName(req[r].name) # {}
        /\ Finish(r) /\ UNCHANGED users
  /\ UNCHANGED inbox

-----------------------------------------------------------------------------
(* Confirmation                                                            *)

\* request_confirm_email(): a new link for an unconfirmed account.
Resend(r, e) == /\ \E i \in WithEmail(e) : ~ users[i].confirmed
                /\ Start(r, [Idle EXCEPT !.pc = "mail", !.email = e])
                /\ Reads

\* The background task, after the response.  send_email() swallows errors.
Mail(r) == /\ At(r, "mail")
           /\ \/ inbox' = inbox \cup {req[r].email}
              \/ "mailLoss" \in Env /\ UNCHANGED inbox
           /\ Finish(r)
           /\ UNCHANGED users

\* confirm_email(): the link's `sub` names the account; nothing to do when it
\* is confirmed already.
ConfirmLookup(r, e) ==
  /\ e \in inbox
  /\ \E i \in WithEmail(e) :
       /\ ~ users[i].confirmed
       /\ Start(r, [Idle EXCEPT !.pc = "confirm", !.id = i])
  /\ Reads

ConfirmCommit(r) == /\ At(r, "confirm")
                    /\ users' = [users EXCEPT ![req[r].id].confirmed = TRUE]
                    /\ Finish(r)
                    /\ UNCHANGED inbox

-----------------------------------------------------------------------------
(* Management                                                              *)

\* get_current_user() and admin_only on the caller's row.
Manage(r, c, i, w) ==
  /\ c \in Admins /\ users[c].confirmed /\ ~ users[c].blocked
  /\ Start(r, [Idle EXCEPT !.pc = "target", !.caller = c, !.id = i, !.wish = w])
  /\ Reads

\* Whether the row loaded by the handler already has what is wished for.
Fulfilled(i, w) == \/ w \in Roles /\ users[i].role = w
                   \/ w = "block" /\ users[i].blocked
                   \/ w = "unblock" /\ ~ users[i].blocked

\* Variant of ManageTarget that does not protect other administrators.
ManageTargetAnyRole(r) ==
  /\ At(r, "target")
  /\ Check(r, /\ req[r].id \in Stored \ {req[r].caller}
              /\ req[r].wish # "admin"
              /\ ~ Fulfilled(req[r].id, req[r].wish), "update")
  /\ Reads

\* get_user_by_id() and validate_admin_user_management_action().  A wish that
\* is fulfilled is refused (blocked) or answered without an UPDATE (role).
ManageTarget(r) ==
  /\ At(r, "target")
  /\ Check(r, /\ req[r].id \in Stored \ Admins
              /\ req[r].id # req[r].caller
              /\ req[r].wish # "admin"
              /\ ~ Fulfilled(req[r].id, req[r].wish), "update")
  /\ Reads

\* Variant of ManageUpdate that stores the wish in the role column as it came.
ManageUpdateRaw(r) ==
  /\ At(r, "update")
  /\ users' = [users EXCEPT ![req[r].id].role = req[r].wish]
  /\ Finish(r)
  /\ UNCHANGED inbox

\* UPDATE users SET role, or blocked, WHERE id; commit.
ManageUpdate(r) ==
  /\ At(r, "update")
  /\ users' = [users EXCEPT ![req[r].id] =
       IF req[r].wish \in Roles THEN [@ EXCEPT !.role = req[r].wish]
                                ELSE [@ EXCEPT !.blocked = (req[r].wish = "block")]]
  /\ Finish(r)
  /\ UNCHANGED inbox

-----------------------------------------------------------------------------
(* Around the handlers                                                     *)

\* A link runs out after email_confirm_token_expire_minutes.
LinkExpires(e) == e \in inbox /\ inbox' = inbox \ {e} /\ UNCHANGED <<users, req>>

\* The process or the database fails between two round trips, the background
\* task included.
Abort(r) == "abort" \in Env /\ ~ At(r, "idle") /\ Finish(r) /\ Reads

\* A request turned away by its first round trip leaves no trace.
Refuse(r) == At(r, "idle") /\ UNCHANGED vars

Arrive(r) == \/ Refuse(r)
             \/ \E e \in Email : Resend(r, e) \/ ConfirmLookup(r, e)
             \/ \E e \in Email, n \in Name : SignUpEmail(r, e, n)
             \/ \E c, i \in Id, w \in Wishes : Manage(r, c, i, w)

Step(r) == \/ SignUpName(r) \/ SignUpAny(r) \/ SignUpInsert(r)
           \/ Mail(r) \/ ConfirmCommit(r)
           \/ ManageTarget(r) \/ ManageUpdate(r)

Next == \/ \E r \in Request : Arrive(r) \/ Step(r) \/ Abort(r)
        \/ \E e \in Email : LinkExpires(e)

Spec == Init /\ [][Next]_vars

-----------------------------------------------------------------------------
(* Properties                                                              *)

\* The API is never left without an administrator: the first row is one, and
\* no management request, however stale its checks, takes the role away.
SomeAdmin == Stored # {} => Admins # {}

\* The checks on the target are made one round trip before the UPDATE; still
\* no step changes the role or the blocked flag of an administrator, and
\* nobody becomes one after the INSERT.
AdminsUntouchable ==
  [][/\ \A i \in Admins : /\ users'[i].role = "admin"
                          /\ users'[i].blocked = users[i].blocked
     /\ \A i \in Stored \ Admins : users'[i].role # "admin"]_vars

\* A management handler acts on the rights its caller had when it was checked;
\* the caller still has them at the UPDATE.
ManagerStillAdmin ==
  \A r \in Request : At(r, "target") \/ At(r, "update") =>
    req[r].caller \in Admins /\ ~ users[req[r].caller].blocked

\* As create_user() says: it assigns "the admin role only to the first
\* account" (repository/user.py:51).
OneFirstAdmin == \A i, j \in Admins : i = j
=============================================================================
