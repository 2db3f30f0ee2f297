---------------------------- MODULE ImagesProofs ----------------------------
(***************************************************************************)
(* Theorems about Images.tla for every set of photos, bodies, accounts and *)
(* requests, whatever Env lets happen.                                     *)
(***************************************************************************)
EXTENDS Images, TLAPS

-----------------------------------------------------------------------------
(* The inductive invariant                                                 *)

\* A QR code that was put once encodes this link.
Encodes(id, url) == puts[id] # 0 /\ (puts[id] = 1 => qr[id] = url)

RowsOK == \A t \in saved : Encodes(t.qr, t.url)

Saving(r) == req[r].pc \in {"qr", "insert"}

SavesOK ==
  \A r \in Request :
    /\ Saving(r) => req[r].photo \in Photo /\ req[r].body \in Body
    /\ At(r, "insert") => req[r].qr \in QrIds /\ Encodes(req[r].qr, Link(r))

Updating(r) == req[r].pc \in {"image", "profile"}

\* A request that has its account to itself knows the latest version.
UpdatesOK ==
  \A r \in Request :
    /\ Updating(r) <=> req[r].user # NoUser
    /\ req[r].alone => Updating(r) /\ \A x \in Request \ {r} : req[x].user # req[r].user
    /\ At(r, "profile") /\ req[r].file /\ req[r].alone
         => req[r].version = avatar[req[r].user]
    /\ At(r, "image") => req[r].file

IInv == TypeOK /\ RowsOK /\ SavesOK /\ UpdatesOK /\ AvatarIsLast

-----------------------------------------------------------------------------
(* The ways in which a handler's record changes                            *)

LEMMA IdleType == Idle \in Handler /\ Idle.pc = "idle" /\ Idle.user = NoUser /\ ~ Idle.alone
BY DEF Idle, Handler, Versions

LEMMA FinishType ==
  ASSUME TypeOK, NEW r \in Request, Finish(r)
  PROVE  req' \in [Request -> Handler]
BY IdleType DEF TypeOK, Finish

LEMMA FinishSaves ==
  ASSUME TypeOK, SavesOK, NEW r \in Request, Finish(r), UNCHANGED <<qr, puts>>
  PROVE  SavesOK'
BY IdleType DEF TypeOK, SavesOK, Finish, Saving, At, Encodes, Link

\* The record of request r changes, and at most its account's avatar.
LEMMA OneUpdates ==
  ASSUME TypeOK, UpdatesOK, NEW r \in Request,
         \A x \in Request \ {r} : req'[x] = req[x],
         \A u \in User : u # req[r].user => avatar'[u] = avatar[u],
         \/ ~ Updating(r)' /\ req'[r].user = NoUser /\ ~ req'[r].alone
         \/ /\ Updating(r) /\ Updating(r)' /\ req'[r].user = req[r].user
            /\ req'[r].alone => req[r].alone
            /\ At(r, "image")' => req'[r].file
            /\ At(r, "profile")' /\ req'[r].file /\ req'[r].alone
                 => req'[r].version = avatar'[req'[r].user]
  PROVE  UpdatesOK'
<1>1. req'[r].user \in {NoUser, req[r].user} OBVIOUS
<1>2. ASSUME NEW x \in Request \ {r}
      PROVE  /\ Updating(x)' <=> req'[x].user # NoUser
             /\ req'[x].alone => Updating(x)'
             /\ req'[x].alone => \A y \in Request \ {x} : req'[y].user # req'[x].user
             /\ At(x, "profile")' /\ req'[x].file /\ req'[x].alone
                  => req'[x].version = avatar'[req'[x].user]
             /\ At(x, "image")' => req'[x].file
  <2>1. req'[x] = req[x] OBVIOUS
  <2>2. Updating(x)' <=> req'[x].user # NoUser BY <2>1 DEF UpdatesOK, Updating
  <2>3. req'[x].alone => Updating(x)' BY <2>1 DEF UpdatesOK, Updating
  <2>4. req[x].alone => /\ req[x].user # NoUser /\ req[r].user # req[x].user
                        /\ req[x].user \in User
    BY DEF UpdatesOK, TypeOK, Handler
  <2>5. ASSUME req'[x].alone, NEW y \in Request \ {x} PROVE req'[y].user # req'[x].user
    <3>1. CASE y = r BY <1>1, <2>1, <2>4, <2>5, <3>1
    <3>2. CASE y # r BY <2>1, <2>5, <3>2 DEF UpdatesOK
    <3>3. QED BY <3>1, <3>2
  <2>6. At(x, "profile")' /\ req'[x].file /\ req'[x].alone
          => req'[x].version = avatar'[req'[x].user]
    BY <2>1, <2>4 DEF UpdatesOK, At
  <2>7. At(x, "image")' => req'[x].file BY <2>1 DEF UpdatesOK, At
  <2>8. QED BY <2>2, <2>3, <2>5, <2>6, <2>7
<1>3. /\ Updating(r)' <=> req'[r].user # NoUser
      /\ req'[r].alone => Updating(r)'
      /\ req'[r].alone => \A y \in Request \ {r} : req'[y].user # req'[r].user
      /\ At(r, "profile")' /\ req'[r].file /\ req'[r].alone
           => req'[r].version = avatar'[req'[r].user]
      /\ At(r, "image")' => req'[r].file
  BY DEF UpdatesOK, Updating, At
<1>4. QED BY <1>2, <1>3 DEF UpdatesOK

LEMMA FinishUpdates ==
  ASSUME TypeOK, UpdatesOK, NEW r \in Request, Finish(r),
         \A u \in User : u # req[r].user => avatar'[u] = avatar[u]
  PROVE  UpdatesOK'
<1>1. req'[r] = Idle /\ \A x \in Request \ {r} : req'[x] = req[x] BY DEF TypeOK, Finish
<1>2. ~ Updating(r)' /\ req'[r].user = NoUser /\ ~ req'[r].alone
  BY <1>1, IdleType DEF Updating
<1>3. QED BY <1>1, <1>2, OneUpdates

\* Every request other than r that uploads still does.
LEMMA OthersUpload ==
  ASSUME NEW r \in Request, \A x \in Request \ {r} : req'[x] = req[x],
         NEW u \in User, Uploading(u), ~ (At(r, "profile") /\ req[r].user = u /\ req[r].file)
  PROVE  Uploading(u)'
<1>1. PICK x \in Request : At(x, "profile") /\ req[x].user = u /\ req[x].file
  BY DEF Uploading
<1>2. req'[x] = req[x] BY <1>1
<1>3. QED BY <1>1, <1>2 DEF Uploading, At

-----------------------------------------------------------------------------
(* The first actions of the handlers                                       *)

LEMMA SaveStep ==
  ASSUME IInv, NEW r \in Request, NEW p \in Photo, NEW b \in Body, Save(r, p, b)
  PROVE  IInv'
<1> DEFINE h == [Idle EXCEPT !.pc = "qr", !.photo = p, !.body = b]
<1>1. /\ h \in Handler
      /\ h.pc = "qr" /\ h.user = NoUser /\ ~ h.alone /\ h.photo = p /\ h.body = b
  BY DEF Idle, Handler, Versions
<1>2. req' = [req EXCEPT ![r] = h] /\ req[r].pc = "idle" BY DEF Save, At
<1> HIDE DEF h
<1>3. req' \in [Request -> Handler] BY <1>1, <1>2 DEF IInv, TypeOK
<1>4. TypeOK' BY <1>3 DEF Save, photos, accounts, IInv, TypeOK
<1>5. RowsOK' BY DEF Save, photos, IInv, RowsOK, Encodes
<1>6. SavesOK'
  BY <1>1, <1>2 DEF Save, photos, IInv, TypeOK, SavesOK, Saving, At, Encodes, Link
<1>7. req'[r] = h /\ \A x \in Request \ {r} : req'[x] = req[x]
  BY <1>2 DEF IInv, TypeOK
<1>8. UpdatesOK'
  <2>1. ~ Updating(r)' /\ req'[r].user = NoUser /\ ~ req'[r].alone
    BY <1>1, <1>7 DEF Updating
  <2>2. avatar' = avatar BY DEF Save, accounts
  <2>3. QED BY <1>7, <2>1, <2>2, OneUpdates DEF IInv
<1>9. AvatarIsLast'
  <2>1. ASSUME NEW u \in User, Uploading(u) PROVE Uploading(u)'
    <3>1. ~ At(r, "profile") BY <1>2 DEF At
    <3>2. QED BY <1>7, <2>1, <3>1, OthersUpload
  <2>2. QED BY <2>1 DEF Save, accounts, IInv, AvatarIsLast
<1>10. QED BY <1>4, <1>5, <1>6, <1>8, <1>9 DEF IInv

LEMMA UpdateStep ==
  ASSUME IInv, NEW r \in Request, NEW u \in User, NEW file \in BOOLEAN,
         NEW n \in Name \cup {NoName}, Update(r, u, file, n)
  PROVE  IInv'
<1> DEFINE h == [Idle EXCEPT !.pc = IF file THEN "image" ELSE "profile", !.user = u,
                             !.name = n, !.had = profile[u].name, !.file = file,
                             !.alone = Rivals(u) = {}]
<1>1. profile[u].name \in Name \cup {NoName} BY DEF IInv, TypeOK
<1>2. h \in Handler BY <1>1 DEF Idle, Handler, Versions
<1>3. /\ h.pc \in {"image", "profile"} /\ h.user = u /\ u # NoUser
      /\ h.alone => Rivals(u) = {}
      /\ h.pc = "profile" => ~ h.file
      /\ h.pc = "image" => h.file
  BY ImagesAssumption DEF Idle
<1>4. /\ req' = [x \in Request |-> IF x = r THEN h
                                   ELSE IF x \in Rivals(u) THEN [req[x] EXCEPT !.alone = FALSE]
                                   ELSE req[x]]
      /\ req[r].pc = "idle"
  BY DEF Update, At
<1> HIDE DEF h
<1>5. \A x \in Request \ {r} :
        /\ req'[x] \in Handler
        /\ req'[x].pc = req[x].pc /\ req'[x].photo = req[x].photo
        /\ req'[x].body = req[x].body /\ req'[x].qr = req[x].qr
        /\ req'[x].user = req[x].user /\ req'[x].file = req[x].file
        /\ req'[x].version = req[x].version
        /\ req'[x].alone => req[x].alone /\ req[x].user # u
  <2> TAKE x \in Request \ {r}
  <2>1. req[x] \in Handler BY DEF IInv, TypeOK
  <2>2. CASE x \in Rivals(u) BY <1>4, <2>1, <2>2 DEF Handler
  <2>3. CASE x \notin Rivals(u) BY <1>4, <2>1, <2>3 DEF Rivals
  <2>4. QED BY <2>2, <2>3
<1>6. req'[r] = h BY <1>4
<1>7. req' \in [Request -> Handler] BY <1>2, <1>4, <1>5, <1>6
<1>8. TypeOK' BY <1>7 DEF Update, photos, accounts, IInv, TypeOK
<1>9. RowsOK' BY DEF Update, photos, IInv, RowsOK, Encodes
<1>10. SavesOK'
  <2>1. \A x \in Request \ {r} :
          /\ Saving(x)' => Saving(x) /\ (At(x, "insert")' => At(x, "insert"))
          /\ Link(x)' = Link(x) /\ req'[x].qr = req[x].qr
          /\ req'[x].photo = req[x].photo /\ req'[x].body = req[x].body
    BY <1>5 DEF Saving, At, Link
  <2>2. ~ Saving(r)' /\ ~ At(r, "insert")' BY <1>3, <1>6 DEF Saving, At
  <2>3. \A id, url : Encodes(id, url) => Encodes(id, url)' BY DEF Update, photos, Encodes
  <2>4. ASSUME NEW x \in Request \ {r}
        PROVE  /\ Saving(x)' => req'[x].photo \in Photo /\ req'[x].body \in Body
               /\ At(x, "insert")' => req'[x].qr \in QrIds /\ Encodes(req[x].qr, Link(x))'
    BY <2>1, <2>3, <2>4 DEF IInv, SavesOK, At, Saving
  <2>5. QED BY <2>1, <2>2, <2>4 DEF SavesOK, Encodes
<1>11. UpdatesOK'
  <2>1. avatar' = avatar BY DEF Update, accounts
  <2>2. req[r].user = NoUser BY <1>4 DEF IInv, UpdatesOK, Updating
  <2>3. \A x \in Request \ {r} : req[x].user = u => x \in Rivals(u) BY DEF Rivals
  <2>4. /\ Updating(r)' /\ req'[r].user # NoUser
        /\ At(r, "profile")' => ~ req'[r].file
        /\ At(r, "image")' => req'[r].file
        /\ req'[r].alone => \A x \in Request \ {r} : req'[x].user # req'[r].user
    BY <1>3, <1>5, <1>6, <2>3 DEF Updating, At
  <2>5. ASSUME NEW x \in Request \ {r}
        PROVE  /\ Updating(x)' <=> req'[x].user # NoUser
               /\ req'[x].alone => Updating(x)'
               /\ req'[x].alone => \A y \in Request \ {x} : req'[y].user # req'[x].user
               /\ At(x, "profile")' /\ req'[x].file /\ req'[x].alone
                    => req'[x].version = avatar'[req'[x].user]
               /\ At(x, "image")' => req'[x].file
    <3>1. Updating(x)' <=> req'[x].user # NoUser BY <1>5 DEF IInv, UpdatesOK, Updating
    <3>2. req'[x].alone => Updating(x)' BY <1>5 DEF IInv, UpdatesOK, Updating
    <3>3. ASSUME req'[x].alone, NEW y \in Request \ {x} PROVE req'[y].user # req'[x].user
      <4>1. CASE y = r BY <1>3, <1>5, <1>6, <3>3, <4>1
      <4>2. CASE y # r BY <1>5, <3>3, <4>2 DEF IInv, UpdatesOK
      <4>3. QED BY <4>1, <4>2
    <3>4. At(x, "profile")' /\ req'[x].file /\ req'[x].alone
            => req'[x].version = avatar'[req'[x].user]
      BY <1>5, <2>1 DEF IInv, UpdatesOK, At
    <3>5. At(x, "image")' => req'[x].file BY <1>5 DEF IInv, UpdatesOK, At
    <3>6. QED BY <3>1, <3>2, <3>3, <3>4, <3>5
  <2>6. QED BY <2>4, <2>5 DEF UpdatesOK
<1>12. AvatarIsLast'
  <2>1. \A v \in User : Uploading(v) => Uploading(v)'
    <3>1. TAKE v \in User
    <3>2. HAVE Uploading(v)
    <3>3. PICK x \in Request : At(x, "profile") /\ req[x].user = v /\ req[x].file
      BY <3>2 DEF Uploading
    <3>4. x # r BY <1>4, <3>3 DEF At
    <3>5. QED BY <1>5, <3>3, <3>4 DEF Uploading, At
  <2>2. QED BY <2>1 DEF Update, accounts, IInv, AvatarIsLast
<1>13. QED BY <1>8, <1>9, <1>10, <1>11, <1>12 DEF IInv

-----------------------------------------------------------------------------
(* The later steps of a save                                               *)

LEMMA PutKeeps ==
  ASSUME IInv, NEW r \in Request, At(r, "qr"), Put(r), saved' = saved
  PROVE  /\ qr' \in [QrIds -> Urls \cup {NoUrl}] /\ puts' \in [QrIds -> 0..2]
         /\ \A id \in QrIds, url \in Urls : Encodes(id, url) => Encodes(id, url)'
         /\ \E id \in QrIds, url \in Urls :
              id = QrId(req[r].photo, now) /\ url = Link(r) /\ Encodes(id, url)'
<1>1. req[r].photo \in Photo /\ req[r].body \in Body
  BY DEF IInv, SavesOK, Saving, At
<1>2. PICK id : id = <<req[r].photo, now>> BY Zenon
<1>3. PICK url : url = Link(r) BY Zenon
<1>4. id \in QrIds BY <1>1, <1>2 DEF IInv, TypeOK, QrIds
<1>5. url \in Urls BY <1>1, <1>3 DEF Link, Urls
<1>6. qr' = [qr EXCEPT ![id] = url] /\ puts' = [puts EXCEPT ![id] = IF @ = 0 THEN 1 ELSE 2]
  BY <1>2, <1>3 DEF Put, QrId
<1>7. qr' \in [QrIds -> Urls \cup {NoUrl}] /\ puts' \in [QrIds -> 0..2]
  BY <1>4, <1>5, <1>6 DEF IInv, TypeOK
<1>8. ASSUME NEW i \in QrIds, NEW v \in Urls, Encodes(i, v) PROVE Encodes(i, v)'
  <2>1. CASE i = id BY <1>4, <1>6, <1>8, <2>1 DEF Encodes, IInv, TypeOK
  <2>2. CASE i # id BY <1>4, <1>6, <1>8, <2>2 DEF Encodes, IInv, TypeOK
  <2>3. QED BY <2>1, <2>2
<1>9. puts'[id] # 0 /\ qr'[id] = url BY <1>4, <1>6 DEF IInv, TypeOK
<1>10. Encodes(id, url)' BY <1>9 DEF Encodes
<1>11. QED BY <1>2, <1>3, <1>4, <1>5, <1>7, <1>8, <1>10 DEF QrId

\* Steps of saves leave the accounts alone.
LEMMA SavesApart ==
  ASSUME IInv, NEW r \in Request, Saving(r), UNCHANGED accounts,
         \A x \in Request \ {r} : req'[x] = req[x],
         req'[r].user = NoUser, ~ req'[r].alone, ~ Updating(r)'
  PROVE  UpdatesOK' /\ AvatarIsLast'
<1>1. UpdatesOK' BY OneUpdates DEF IInv, accounts
<1>2. ~ At(r, "profile") BY DEF Saving, At
<1>3. \A u \in User : Uploading(u) => Uploading(u)' BY <1>2, OthersUpload
<1>4. QED BY <1>1, <1>3 DEF IInv, AvatarIsLast, accounts

LEMMA RowTypes ==
  ASSUME TypeOK, NEW t \in saved
  PROVE  t.photo \in Photo /\ t.qr \in QrIds /\ t.url \in Urls
BY DEF TypeOK

LEMMA LinkType ==
  ASSUME IInv, NEW r \in Request, Saving(r)
  PROVE  Link(r) \in Urls /\ req[r].photo \in Photo /\ req[r].body \in Body
BY DEF IInv, SavesOK, Link, Urls

\* What a step that only adds to the meaning of QR codes keeps.
LEMMA MeaningKept ==
  ASSUME IInv, NEW r \in Request, saved' = saved,
         \A x \in Request \ {r} : req'[x] = req[x],
         \A id \in QrIds, url \in Urls : Encodes(id, url) => Encodes(id, url)',
         Saving(r)' => req'[r].photo \in Photo /\ req'[r].body \in Body,
         At(r, "insert")' => req'[r].qr \in QrIds /\ Encodes(req[r].qr, Link(r))'
  PROVE  RowsOK' /\ SavesOK'
<1>1. RowsOK'
  <2>1. ASSUME NEW t \in saved PROVE Encodes(t.qr, t.url)'
    <3>1. PICK id, url : id = t.qr /\ url = t.url OBVIOUS
    <3>2. Encodes(id, url) /\ id \in QrIds /\ url \in Urls
      BY <3>1, RowTypes DEF IInv, RowsOK
    <3>3. Encodes(id, url)' BY <3>2
    <3>4. QED BY <3>1, <3>3 DEF Encodes
  <2>2. QED BY <2>1 DEF RowsOK, Encodes
<1>2. ASSUME NEW x \in Request \ {r}, Saving(x)'
      PROVE  /\ req'[x].photo \in Photo /\ req'[x].body \in Body
             /\ At(x, "insert")' => req'[x].qr \in QrIds /\ Encodes(req[x].qr, Link(x))'
  <2>1. req'[x] = req[x] /\ Saving(x) BY <1>2 DEF Saving
  <2>2. Link(x) \in Urls /\ req[x].photo \in Photo /\ req[x].body \in Body
    BY <2>1, LinkType
  <2>3. PICK id, url : id = req[x].qr /\ url = Link(x) OBVIOUS
  <2>4. ASSUME At(x, "insert")' PROVE id \in QrIds /\ Encodes(id, url)'
    <3>1. At(x, "insert") BY <2>1, <2>4 DEF At
    <3>2. id \in QrIds /\ Encodes(id, url) BY <3>1, <2>3 DEF IInv, SavesOK
    <3>3. QED BY <2>2, <2>3, <3>2
  <2>5. req'[x].qr = id /\ Link(x)' = url BY <2>1, <2>3 DEF Link
  <2>6. QED BY <2>1, <2>2, <2>4, <2>5 DEF Encodes
<1>3. QED BY <1>1, <1>2 DEF SavesOK, Saving, At, Encodes

LEMMA PutQrStep ==
  ASSUME IInv, NEW r \in Request, PutQr(r)
  PROVE  IInv'
<1>1. At(r, "qr") /\ UNCHANGED <<stored, saved, now, accounts>> BY DEF PutQr
<1>2. Saving(r) /\ req[r] \in Handler BY <1>1 DEF Saving, At, IInv, TypeOK
<1>3. req[r].user = NoUser /\ ~ req[r].alone
  BY <1>2 DEF IInv, UpdatesOK, Updating, Saving
<1>4. CASE Finish(r) /\ (Put(r) \/ UNCHANGED <<qr, puts>>)
  <2>1. req' \in [Request -> Handler] BY <1>4, FinishType DEF IInv
  <2>2. req'[r] = Idle /\ \A x \in Request \ {r} : req'[x] = req[x]
    BY <1>4 DEF Finish, IInv, TypeOK
  <2>3. /\ qr' \in [QrIds -> Urls \cup {NoUrl}] /\ puts' \in [QrIds -> 0..2]
        /\ \A id \in QrIds, url \in Urls : Encodes(id, url) => Encodes(id, url)'
    <3>1. CASE Put(r) BY <1>1, <3>1, PutKeeps
    <3>2. CASE UNCHANGED <<qr, puts>> BY <3>2 DEF IInv, TypeOK, Encodes
    <3>3. QED BY <1>4, <3>1, <3>2
  <2>4. TypeOK' BY <1>1, <2>1, <2>3 DEF IInv, TypeOK, accounts
  <2>5. ~ Saving(r)' /\ ~ Updating(r)' BY <2>2, IdleType DEF Saving, Updating
  <2>6. ~ At(r, "insert")' BY <2>5 DEF At, Saving
  <2>7. RowsOK' /\ SavesOK' BY <1>1, <2>2, <2>3, <2>5, <2>6, MeaningKept
  <2>8. UpdatesOK' /\ AvatarIsLast' BY <1>1, <1>2, <2>2, <2>5, IdleType, SavesApart
  <2>9. QED BY <2>4, <2>7, <2>8 DEF IInv
<1>5. CASE /\ Put(r)
           /\ req' = [req EXCEPT ![r] = [@ EXCEPT !.pc = "insert",
                                                  !.qr = QrId(req[r].photo, now)]]
  <2>1. PICK id \in QrIds, url \in Urls :
          id = QrId(req[r].photo, now) /\ url = Link(r) /\ Encodes(id, url)'
    BY <1>1, <1>5, PutKeeps
  <2>2. PICK h : h = [req[r] EXCEPT !.pc = "insert", !.qr = id] OBVIOUS
  <2>3. /\ h \in Handler /\ h.pc = "insert" /\ h.qr = id /\ h.photo = req[r].photo
        /\ h.body = req[r].body /\ h.user = req[r].user /\ h.alone = req[r].alone
    BY <1>2, <2>2 DEF Handler
  <2>4. req' = [req EXCEPT ![r] = h] BY <1>5, <2>1, <2>2
  <2>5. /\ req' \in [Request -> Handler]
        /\ req'[r] = h /\ \A x \in Request \ {r} : req'[x] = req[x]
    BY <2>3, <2>4 DEF IInv, TypeOK
  <2>6. /\ qr' \in [QrIds -> Urls \cup {NoUrl}] /\ puts' \in [QrIds -> 0..2]
        /\ \A i \in QrIds, v \in Urls : Encodes(i, v) => Encodes(i, v)'
    BY <1>1, <1>5, PutKeeps
  <2>7. TypeOK' BY <1>1, <2>5, <2>6 DEF IInv, TypeOK, accounts
  <2>8. req'[r].photo \in Photo /\ req'[r].body \in Body
    BY <1>2, <2>3, <2>5, LinkType
  <2>9. req'[r].qr \in QrIds /\ Encodes(req[r].qr, Link(r))'
    <3>1. req'[r].qr = id /\ Link(r)' = url BY <2>1, <2>3, <2>5 DEF Link
    <3>2. QED BY <2>1, <3>1 DEF Encodes
  <2>10. RowsOK' /\ SavesOK' BY <1>1, <2>5, <2>6, <2>8, <2>9, MeaningKept
  <2>11. ~ Updating(r)' BY <2>3, <2>5 DEF Updating
  <2>12. UpdatesOK' /\ AvatarIsLast'
    BY <1>1, <1>2, <1>3, <2>3, <2>5, <2>11, SavesApart
  <2>13. QED BY <2>7, <2>10, <2>12 DEF IInv
<1>6. QED BY <1>4, <1>5 DEF PutQr

LEMMA InsertStep ==
  ASSUME IInv, NEW r \in Request, InsertSaved(r)
  PROVE  IInv'
<1>1. /\ At(r, "insert") /\ Finish(r)
      /\ UNCHANGED <<stored, qr, now, puts, accounts>>
  BY DEF InsertSaved
<1>2. Saving(r) BY <1>1 DEF Saving, At
<1>3. PICK row : row = [photo |-> req[r].photo, url |-> Link(r), qr |-> req[r].qr] OBVIOUS
<1>4. saved' \subseteq saved \cup {row} BY <1>3 DEF InsertSaved
<1>5. /\ row.qr = req[r].qr /\ row.url = Link(r)
      /\ row \in [photo : Photo, url : Urls, qr : QrIds]
  BY <1>1, <1>2, <1>3, LinkType DEF IInv, SavesOK
<1>6. /\ req' \in [Request -> Handler]
      /\ req'[r] = Idle /\ \A x \in Request \ {r} : req'[x] = req[x]
  BY <1>1, FinishType DEF IInv, TypeOK, Finish
<1>7. TypeOK'
  <2>1. saved' \subseteq [photo : Photo, url : Urls, qr : QrIds]
    BY <1>4, <1>5 DEF IInv, TypeOK
  <2>2. QED BY <1>1, <1>6, <2>1 DEF IInv, TypeOK, accounts
<1>8. RowsOK'
  <2>1. Encodes(row.qr, row.url) BY <1>1, <1>5 DEF IInv, SavesOK
  <2>2. QED BY <1>1, <1>4, <2>1 DEF IInv, RowsOK, Encodes
<1>9. SavesOK' BY <1>1, FinishSaves DEF IInv
<1>10. ~ Updating(r)' BY <1>6, IdleType DEF Updating
<1>11. UpdatesOK' /\ AvatarIsLast' BY <1>1, <1>2, <1>6, <1>10, IdleType, SavesApart
<1>12. QED BY <1>7, <1>8, <1>9, <1>11 DEF IInv

-----------------------------------------------------------------------------
(* The later steps of an update                                            *)

\* Steps of updates leave the photos and the saves alone.
LEMMA UpdatesApart ==
  ASSUME IInv, NEW r \in Request, UNCHANGED photos,
         \A x \in Request \ {r} : req'[x] = req[x], ~ Saving(r)'
  PROVE  RowsOK' /\ SavesOK'
<1>1. \A id \in QrIds, url \in Urls : Encodes(id, url) => Encodes(id, url)'
  BY DEF photos, Encodes
<1>2. ~ At(r, "insert")' BY DEF At, Saving
<1>3. QED BY <1>1, <1>2, MeaningKept DEF photos

LEMMA PutAvatarStep ==
  ASSUME IInv, NEW r \in Request, PutAvatar(r)
  PROVE  IInv'
<1> PICK u : u = req[r].user OBVIOUS
<1>1. At(r, "image") /\ UNCHANGED <<photos, profile>> BY DEF PutAvatar
<1>2. Updating(r) /\ req[r] \in Handler BY <1>1 DEF Updating, At, IInv, TypeOK
<1>3. u \in User BY <1>2 DEF IInv, UpdatesOK, Handler
<1>4. ~ At(r, "profile") BY <1>1 DEF At
<1>5. CASE /\ avatar' = [avatar EXCEPT ![u] = @ + 1] /\ unsure' = unsure
           /\ req' = [req EXCEPT ![r] = [@ EXCEPT !.pc = "profile",
                                                  !.version = avatar[u] + 1]]
  <2>1. PICK h : h = [req[r] EXCEPT !.pc = "profile", !.version = avatar[u] + 1] OBVIOUS
  <2>2. avatar[u] + 1 \in Nat BY <1>3 DEF IInv, TypeOK, Versions
  <2>3. /\ h \in Handler /\ h.pc = "profile" /\ h.version = avatar[u] + 1
        /\ h.user = u /\ h.file = req[r].file /\ h.alone = req[r].alone
    BY <1>2, <2>1, <2>2 DEF Handler, Versions
  <2>4. req' = [req EXCEPT ![r] = h] BY <1>5, <2>1
  <2>5. /\ req' \in [Request -> Handler]
        /\ req'[r] = h /\ \A x \in Request \ {r} : req'[x] = req[x]
    BY <2>3, <2>4 DEF IInv, TypeOK
  <2>6. /\ avatar' \in [User -> Nat] /\ avatar'[u] = avatar[u] + 1
        /\ \A v \in User : v # u => avatar'[v] = avatar[v]
    BY <1>3, <1>5, <2>2 DEF IInv, TypeOK, Versions
  <2>7. TypeOK' BY <1>1, <1>5, <2>5, <2>6 DEF IInv, TypeOK, photos, Versions
  <2>8. ~ Saving(r)' /\ Updating(r)' BY <2>3, <2>5 DEF Saving, Updating
  <2>9. RowsOK' /\ SavesOK' BY <1>1, <2>5, <2>8, UpdatesApart
  <2>10. UpdatesOK'
    <3>1. /\ req'[r].user = u /\ (req'[r].alone => req[r].alone)
          /\ req'[r].version = avatar'[req'[r].user] /\ ~ At(r, "image")'
      BY <2>3, <2>5, <2>6 DEF At
    <3>2. QED BY <1>2, <2>5, <2>6, <2>8, <3>1, OneUpdates DEF IInv
  <2>11. \A v \in User : Uploading(v) => Uploading(v)' BY <1>4, <2>5, OthersUpload
  <2>12. req[r].file BY <1>1 DEF IInv, UpdatesOK
  <2>13. Uploading(u)' BY <2>3, <2>5, <2>12 DEF Uploading, At
  <2>14. AvatarIsLast' BY <1>1, <1>5, <2>6, <2>11, <2>13 DEF IInv, AvatarIsLast
  <2>15. QED BY <2>7, <2>9, <2>10, <2>14 DEF IInv
<1>6. CASE /\ Finish(r)
           /\ \/ avatar' = [avatar EXCEPT ![u] = @ + 1] /\ Unsure(u)
              \/ UNCHANGED <<avatar, unsure>>
  <2>1. /\ req' \in [Request -> Handler]
        /\ req'[r] = Idle /\ \A x \in Request \ {r} : req'[x] = req[x]
    BY <1>6, FinishType DEF IInv, TypeOK, Finish
  <2>2. /\ avatar' \in [User -> Nat] /\ unsure' \subseteq User /\ unsure \subseteq unsure'
        /\ \A v \in User : v # u => avatar'[v] = avatar[v]
        /\ u \in unsure' \/ avatar' = avatar
    BY <1>3, <1>6 DEF Unsure, IInv, TypeOK, Versions
  <2>3. TypeOK' BY <1>1, <2>1, <2>2 DEF IInv, TypeOK, photos, Versions
  <2>4. ~ Saving(r)' BY <2>1, IdleType DEF Saving
  <2>5. RowsOK' /\ SavesOK' BY <1>1, <2>1, <2>4, UpdatesApart
  <2>6. UpdatesOK' BY <1>6, <2>2, FinishUpdates DEF IInv
  <2>7. \A v \in User : Uploading(v) => Uploading(v)' BY <1>4, <2>1, OthersUpload
  <2>8. AvatarIsLast' BY <1>1, <2>2, <2>7 DEF IInv, AvatarIsLast
  <2>9. QED BY <2>3, <2>5, <2>6, <2>8 DEF IInv
<1>7. QED BY <1>5, <1>6 DEF PutAvatar

LEMMA SaveProfileStep ==
  ASSUME IInv, NEW r \in Request, SaveProfile(r)
  PROVE  IInv'
<1> PICK u : u = req[r].user OBVIOUS
<1>1. At(r, "profile") /\ Finish(r) /\ UNCHANGED <<photos, avatar>>
  BY DEF SaveProfile
<1>2. Updating(r) /\ req[r] \in Handler BY <1>1 DEF Updating, At, IInv, TypeOK
<1>3. u \in User BY <1>2 DEF IInv, UpdatesOK, Handler
<1>4. /\ req' \in [Request -> Handler]
      /\ req'[r] = Idle /\ \A x \in Request \ {r} : req'[x] = req[x]
  BY <1>1, FinishType DEF IInv, TypeOK, Finish
<1>5. PICK w : w = Written(r) BY Zenon
<1>6. profile[u] \in [avatar : Nat, name : Name \cup {NoName}] BY <1>3 DEF IInv, TypeOK, Versions
<1>7. /\ w \in [avatar : Nat, name : Name \cup {NoName}]
      /\ w.avatar = IF req[r].file THEN req[r].version ELSE profile[u].avatar
  BY <1>2, <1>5, <1>6 DEF Written, Handler, Versions
<1>8. /\ profile' \in [User -> [avatar : Nat, name : Name \cup {NoName}]]
      /\ profile'[u] = w /\ \A v \in User : v # u => profile'[v] = profile[v]
  BY <1>3, <1>5, <1>7 DEF SaveProfile, IInv, TypeOK, Versions
<1>9. /\ unsure' \subseteq User /\ \A v \in User : v # u => (v \in unsure <=> v \in unsure')
      /\ req[r].file => (u \in unsure' \/ req[r].alone)
      /\ ~ req[r].file => unsure' = unsure
  BY <1>3 DEF SaveProfile, IInv, TypeOK
<1>10. TypeOK' BY <1>1, <1>4, <1>8, <1>9 DEF IInv, TypeOK, photos, Versions
<1>11. ~ Saving(r)' BY <1>4, IdleType DEF Saving
<1>12. RowsOK' /\ SavesOK' BY <1>1, <1>4, <1>11, UpdatesApart
<1>13. UpdatesOK' BY <1>1, FinishUpdates DEF IInv
<1>14. AvatarIsLast'
  <2>1. ASSUME NEW v \in User \ unsure', v # u
        PROVE  profile'[v].avatar = avatar'[v] \/ Uploading(v)'
    <3>1. Uploading(v) => Uploading(v)' BY <1>4, <2>1, OthersUpload
    <3>2. QED BY <1>1, <1>8, <1>9, <2>1, <3>1 DEF IInv, AvatarIsLast
  <2>2. ASSUME u \notin unsure' PROVE profile'[u].avatar = avatar'[u] \/ Uploading(u)'
    <3>1. CASE req[r].file
      <4>1. req[r].version = avatar[u] BY <1>1, <1>9, <2>2, <3>1 DEF IInv, UpdatesOK
      <4>2. QED BY <1>1, <1>7, <1>8, <3>1, <4>1
    <3>2. CASE ~ req[r].file
      <4>1. Uploading(u) => Uploading(u)' BY <1>3, <1>4, <3>2, OthersUpload
      <4>2. profile'[u].avatar = profile[u].avatar /\ u \notin unsure
        BY <1>7, <1>8, <1>9, <2>2, <3>2
      <4>3. QED BY <1>1, <1>3, <4>1, <4>2 DEF IInv, AvatarIsLast
    <3>3. QED BY <3>1, <3>2
  <2>3. QED BY <2>1, <2>2 DEF AvatarIsLast
<1>15. QED BY <1>10, <1>12, <1>13, <1>14 DEF IInv

-----------------------------------------------------------------------------
(* The steps around the handlers                                           *)

LEMMA AbortStep ==
  ASSUME IInv, NEW r \in Request, Abort(r)
  PROVE  IInv'
<1>1. Finish(r) /\ UNCHANGED <<photos, profile, avatar>> BY DEF Abort
<1>2. /\ req' \in [Request -> Handler]
      /\ req'[r] = Idle /\ \A x \in Request \ {r} : req'[x] = req[x]
  BY <1>1, FinishType DEF IInv, TypeOK, Finish
<1>3. /\ unsure' \subseteq User /\ unsure \subseteq unsure'
      /\ At(r, "profile") /\ req[r].file => req[r].user \in unsure'
  <2>1. req[r] \in Handler BY DEF IInv, TypeOK
  <2>2. At(r, "profile") => req[r].user \in User
    BY <2>1 DEF IInv, UpdatesOK, Updating, At, Handler
  <2>3. QED BY <2>2 DEF Abort, Unsure, IInv, TypeOK
<1>4. TypeOK' BY <1>1, <1>2, <1>3 DEF IInv, TypeOK, photos
<1>5. ~ Saving(r)' BY <1>2, IdleType DEF Saving
<1>6. RowsOK' /\ SavesOK' BY <1>1, <1>2, <1>5, UpdatesApart
<1>7. UpdatesOK' BY <1>1, FinishUpdates DEF IInv
<1>8. ASSUME NEW u \in User \ unsure' PROVE Uploading(u) => Uploading(u)'
  BY <1>2, <1>3, <1>8, OthersUpload
<1>9. AvatarIsLast' BY <1>1, <1>3, <1>8 DEF IInv, AvatarIsLast
<1>10. QED BY <1>4, <1>6, <1>7, <1>9 DEF IInv

LEMMA AroundStep ==
  ASSUME IInv, Tick \/ (\E p \in Photo : Remove(p)) \/ UNCHANGED vars
  PROVE  IInv'
<1>1. /\ UNCHANGED <<qr, puts, req, accounts>>
      /\ stored' \subseteq stored /\ saved' \subseteq saved
      /\ now' \in Seconds
  BY ImagesAssumption DEF Tick, Remove, vars, accounts, IInv, TypeOK, Seconds
<1>2. TypeOK' BY <1>1 DEF IInv, TypeOK, accounts
<1>3. RowsOK' BY <1>1 DEF IInv, RowsOK, Encodes
<1>4. SavesOK' BY <1>1 DEF IInv, SavesOK, Saving, At, Encodes, Link
<1>5. UpdatesOK' BY <1>1 DEF IInv, UpdatesOK, Updating, At, accounts
<1>6. AvatarIsLast' BY <1>1 DEF IInv, AvatarIsLast, Uploading, At, accounts
<1>7. QED BY <1>2, <1>3, <1>4, <1>5, <1>6 DEF IInv

-----------------------------------------------------------------------------
(* Theorems                                                                *)

LEMMA Initially == Init => IInv
<1> SUFFICES ASSUME Init PROVE IInv OBVIOUS
<1>1. TypeOK
  BY ImagesAssumption, IdleType DEF Init, TypeOK, Seconds, Versions
<1>2. \A r \in Request : req[r] = Idle BY DEF Init
<1>3. SavesOK /\ UpdatesOK BY <1>2, IdleType DEF SavesOK, UpdatesOK, Saving, Updating, At
<1>4. RowsOK /\ AvatarIsLast BY DEF Init, RowsOK, AvatarIsLast
<1>5. QED BY <1>1, <1>3, <1>4 DEF IInv

LEMMA Inductive == IInv /\ [Next]_vars => IInv'
<1> SUFFICES ASSUME IInv, [Next]_vars PROVE IInv' OBVIOUS
<1>1. ASSUME NEW r \in Request, Step(r) PROVE IInv'
  BY <1>1, PutQrStep, InsertStep, PutAvatarStep, SaveProfileStep DEF Step
<1>2. ASSUME NEW r \in Request, Refuse(r) PROVE IInv'
  BY <1>2, AroundStep DEF Refuse
<1>3. QED BY <1>1, <1>2, SaveStep, UpdateStep, AbortStep, AroundStep DEF Next

LEMMA Invariance == Spec => []IInv
BY Initially, Inductive, PTL DEF Spec

\* Rows refer to uploads that were made, and handlers remember what they may.
THEOREM TypeCorrect == Spec => []TypeOK
<1>1. IInv => TypeOK BY DEF IInv
<1>2. QED BY <1>1, Invariance, PTL

\* However saves of the same photo interleave, fail or come after one another,
\* a QR code that was put alone in its second encodes the link of its row.
THEOREM QrLeads == Spec => []QrLeadsToLink
<1>1. IInv => QrLeadsToLink BY DEF IInv, RowsOK, Encodes, QrLeadsToLink
<1>2. QED BY <1>1, Invariance, PTL

\* Updates of an account that do not overlap leave its row with the avatar that
\* Cloudinary has, whatever updates of other accounts do.
THEOREM AvatarLast == Spec => []AvatarIsLast
<1>1. IInv => AvatarIsLast BY DEF IInv
<1>2. QED BY <1>1, Invariance, PTL
=============================================================================
