---------------------------- MODULE PhotosProofs ----------------------------
(***************************************************************************)
(* Theorems about Photos.tla for every set of accounts, photos, comments   *)
(* and requests, whatever Env lets happen.                                 *)
(***************************************************************************)
EXTENDS Photos, TLAPS

-----------------------------------------------------------------------------
(* The inductive invariant                                                 *)

GonePhoto == [FreePhoto EXCEPT !.status = "deleted"]
GoneComment == [FreeComment EXCEPT !.status = "deleted"]

\* A deleted row is empty, so that deleting it once more changes nothing.
GoneIsEmpty ==
  /\ \A p \in Photo : photo[p].status = "deleted" => photo[p] = GonePhoto
  /\ \A c \in Comment : comment[c].status = "deleted" => comment[c] = GoneComment

\* What a handler learnt stays true while it waits: an upload owns an image
\* without a row, a deletion past its first call knows that the image is gone,
\* and the rest know that the row they loaded is, or was, a stored one.
HandlerMemory(r) ==
  /\ req[r].pc \in {"upload", "store", "comment", "check", "rate"} => req[r].user \in User
  /\ req[r].pc = "store" => /\ req[r].photo \in asset
                            /\ photo[req[r].photo].status = "free"
  /\ req[r].pc \in {"destroy", "gather", "erase", "describe", "comment", "check", "rate"}
       => req[r].photo \in Photo /\ photo[req[r].photo].status # "free"
  /\ req[r].pc \in {"gather", "erase"} => req[r].photo \notin asset
  /\ req[r].pc \in {"check", "rate"} /\ req[r].photo \in Stored
       => photo[req[r].photo].owner # req[r].user
  /\ req[r].pc \in {"edit", "remove"}
       => req[r].comment \in Comment /\ comment[req[r].comment].status # "free"

HandlersOK == \A r \in Request : HandlerMemory(r)

\* No two uploads hold the same image.
UploadsDiffer == \A r, x \in Request :
  At(r, "store") /\ At(x, "store") /\ req[r].photo = req[x].photo => r = x

IInv == /\ TypeOK /\ GoneIsEmpty /\ HandlersOK /\ UploadsDiffer
        /\ ChildrenHavePhoto /\ DeletedHasNoAsset /\ ImageLossExplained

\* What no step does: forget or revive a row, give a photo to another owner,
\* or bring back the image of a photo that has or had a row.
Steady ==
  /\ \A p \in Photo : photo[p].status # "free" =>
       /\ photo'[p].status # "free"
       /\ p \in asset' => p \in asset
       /\ photo'[p].status = "stored" => /\ photo[p].status = "stored"
                                         /\ photo'[p].owner = photo[p].owner
  /\ \A c \in Comment : comment[c].status # "free" => comment'[c].status # "free"

\* The uploads of the other handlers are left alone as well.
UploadsKept(r) ==
  \A x \in Request \ {r} : At(x, "store") =>
    req[x].photo \in asset' /\ photo'[req[x].photo].status = "free"

-----------------------------------------------------------------------------
(* The ways in which a handler's record changes                            *)

LEMMA IdleType == Idle \in Handler /\ Idle.pc = "idle"
BY DEF Idle, Handler

LEMMA FinishType ==
  ASSUME TypeOK, NEW r \in Request, Finish(r)
  PROVE  req' \in [Request -> Handler] /\ req'[r].pc = "idle"
BY IdleType DEF TypeOK, Finish

LEMMA GotoType ==
  ASSUME TypeOK, NEW r \in Request, NEW pc \in {"gather", "erase", "rate"}, Goto(r, pc)
  PROVE  /\ req' \in [Request -> Handler]
         /\ req'[r].pc = pc /\ req'[r].user = req[r].user /\ req'[r].photo = req[r].photo
<1>1. [req[r] EXCEPT !.pc = pc] \in Handler BY DEF TypeOK, Handler
<1>2. req' = [req EXCEPT ![r] = [req[r] EXCEPT !.pc = pc]] BY DEF Goto
<1>3. QED BY <1>1, <1>2 DEF TypeOK, Handler

\* A request in flight is touched by its own steps only.
LEMMA Touches ==
  ASSUME TypeOK, NEW r \in Request, Arrive(r) \/ Step(r) \/ Abort(r)
  PROVE  \A x \in Request \ {r} : req'[x] = req[x]
<1>1. CASE Arrive(r)
  BY <1>1 DEF TypeOK, Arrive, Refuse, Upload, Delete, Describe, Write, Rate, Edit, Remove,
     Unrate, Start, vars
<1>2. CASE Step(r)
  BY <1>2 DEF TypeOK, Step, UploadAsset, UploadStore, DeleteAsset, DeleteGather, DeleteRow,
     DescribeUpdate, WriteInsert, EditUpdate, RemoveRow, RateCheck, RateInsert, Check,
     Goto, Finish, Fail
<1>3. CASE Abort(r) BY <1>3 DEF TypeOK, Abort, Finish, Fail
<1>4. QED BY <1>1, <1>2, <1>3

-----------------------------------------------------------------------------
(* What the handlers write                                                 *)

\* A request that comes in loads a row; only delete_rating() writes at once.
LEMMA ArriveEffect ==
  ASSUME PhotosAssumption, IInv, NEW r \in Request, Arrive(r)
  PROVE  /\ req' \in [Request -> Handler]
         /\ UNCHANGED <<photo, asset, comment, torn>> /\ rating' \subseteq rating
         /\ At(r, "idle")
         /\ req'[r].pc \notin {"store", "gather", "erase"}
         /\ HandlerMemory(r)'
<1> USE DEF Reads, rows
<1>0. TypeOK BY DEF IInv
<1>1. CASE Refuse(r)
  BY <1>0, <1>1 DEF Refuse, vars, TypeOK, At, HandlerMemory
<1>2. ASSUME NEW u \in User, NEW o \in User, Upload(r, u, o)
      PROVE  /\ req' \in [Request -> Handler]
             /\ req'[r].pc \notin {"store", "gather", "erase"} /\ HandlerMemory(r)'
  <2>1. /\ req' \in [Request -> Handler]
        /\ req'[r] = [pc |-> "upload", user |-> o, photo |-> NoPhoto, comment |-> NoComment]
    BY <1>0, <1>2 DEF Upload, Start, TypeOK, Handler
  <2>2. req'[r].pc = "upload" /\ req'[r].user = o BY <2>1
  <2>3. QED BY <2>1, <2>2 DEF HandlerMemory
<1>3. ASSUME NEW u \in User, NEW p \in Stored, NEW pc \in {"destroy", "describe", "comment"},
             Start(r, pc, u, p, NoComment), UNCHANGED photo
      PROVE  /\ req' \in [Request -> Handler]
             /\ req'[r].pc \notin {"store", "gather", "erase"} /\ HandlerMemory(r)'
  <2>1. /\ req' \in [Request -> Handler]
        /\ req'[r] = [pc |-> pc, user |-> u, photo |-> p, comment |-> NoComment]
    BY <1>0, <1>3 DEF Stored, Start, TypeOK, Handler
  <2>2. req'[r].pc = pc /\ req'[r].user = u /\ req'[r].photo = p BY <2>1
  <2>3. p \in Photo /\ photo'[p].status # "free" BY <1>3 DEF Stored
  <2>4. QED BY <2>1, <2>2, <2>3 DEF HandlerMemory
<1>4. ASSUME NEW u \in User, NEW p \in Photo, Rate(r, u, p)
      PROVE  /\ req' \in [Request -> Handler]
             /\ req'[r].pc \notin {"store", "gather", "erase"} /\ HandlerMemory(r)'
  <2>1. /\ req' \in [Request -> Handler]
        /\ req'[r] = [pc |-> "check", user |-> u, photo |-> p, comment |-> NoComment]
    BY <1>0, <1>4 DEF Rate, Start, TypeOK, Handler
  <2>2. req'[r].pc = "check" /\ req'[r].user = u /\ req'[r].photo = p BY <2>1
  <2>3. /\ p \in Photo /\ photo'[p].status # "free" /\ photo'[p].owner # u
    BY <1>4 DEF Rate, Stored
  <2>4. QED BY <2>1, <2>2, <2>3 DEF HandlerMemory
<1>5. ASSUME NEW u \in User, NEW c \in Comment, Edit(r, u, c) \/ Remove(r, u, c)
      PROVE  /\ req' \in [Request -> Handler]
             /\ req'[r].pc \notin {"store", "gather", "erase"} /\ HandlerMemory(r)'
  <2>1. PICK pc \in {"edit", "remove"} : Start(r, pc, u, NoPhoto, c)
    BY <1>5 DEF Edit, Remove
  <2>2. /\ req' \in [Request -> Handler]
        /\ req'[r] = [pc |-> pc, user |-> u, photo |-> NoPhoto, comment |-> c]
    BY <1>0, <2>1 DEF Start, TypeOK, Handler
  <2>3. c \in Comments /\ comment' = comment BY <1>5 DEF Edit, Remove
  <2>4. req'[r].pc = pc /\ req'[r].comment = c BY <2>2
  <2>5. c \in Comment /\ comment'[c].status # "free" BY <2>3 DEF Comments
  <2>6. QED BY <2>2, <2>4, <2>5 DEF HandlerMemory
<1>6. ASSUME NEW u \in User, NEW pu \in Photo \X User, Unrate(r, u, pu)
      PROVE  /\ req' \in [Request -> Handler]
             /\ req'[r].pc \notin {"store", "gather", "erase"} /\ HandlerMemory(r)'
  BY <1>0, <1>6 DEF Unrate, TypeOK, At, HandlerMemory
<1>7. ASSUME NEW u \in User, NEW p \in Photo, Delete(r, u, p) \/ Describe(r, u, p) \/ Write(r, u, p)
      PROVE  /\ req' \in [Request -> Handler]
             /\ req'[r].pc \notin {"store", "gather", "erase"} /\ HandlerMemory(r)'
  BY <1>3, <1>7 DEF Delete, Describe, Write, MayChange
<1>8. /\ UNCHANGED <<photo, asset, comment, torn>> /\ rating' \subseteq rating
      /\ At(r, "idle")
  BY DEF Arrive, Refuse, Upload, Delete, Describe, Write, Rate, Edit, Remove, Unrate, Start, vars
<1>9. QED BY <1>1, <1>2, <1>4, <1>5, <1>6, <1>7, <1>8 DEF Arrive

\* A step of a handler keeps the types.
LEMMA StepType ==
  ASSUME PhotosAssumption, IInv, NEW r \in Request, Step(r) \/ Abort(r)
  PROVE  TypeOK'
<1>0. TypeOK /\ HandlerMemory(r) BY DEF IInv, HandlersOK
<1>f. Finish(r) => req' \in [Request -> Handler] BY <1>0, FinishType
<1>g. FreePhoto \in PhotoRow /\ GonePhoto \in PhotoRow
  BY DEF FreePhoto, GonePhoto, PhotoRow
<1>h. FreeComment \in CommentRow /\ GoneComment \in CommentRow
  BY DEF FreeComment, GoneComment, CommentRow
<1> USE DEF rows, Reads
<1>1. CASE UploadAsset(r)
  <2>1. PICK p \in Unused :
          \/ /\ asset' = asset \cup {p}
             /\ req' = [req EXCEPT ![r] = [req[r] EXCEPT !.pc = "store", !.photo = p]]
          \/ asset' \in {asset, asset \cup {p}} /\ Finish(r)
    BY <1>1 DEF UploadAsset
  <2>2. p \in Photo BY DEF Unused
  <2>3. [req[r] EXCEPT !.pc = "store", !.photo = p] \in Handler
    BY <1>0, <2>2 DEF TypeOK, Handler
  <2>4. req' \in [Request -> Handler] BY <1>0, <1>f, <2>1, <2>3 DEF TypeOK
  <2>5. QED BY <1>0, <1>1, <2>1, <2>2, <2>4 DEF UploadAsset, TypeOK
<1>2. CASE UploadStore(r)
  <2>1. req[r].photo \in Photo /\ req[r].user \in User
    BY <1>0, <1>2 DEF UploadStore, At, HandlerMemory, TypeOK
  <2>2. [status |-> "stored", owner |-> req[r].user, described |-> FALSE] \in PhotoRow
    BY <2>1 DEF PhotoRow
  <2>3. photo' \in [Photo -> PhotoRow] BY <1>0, <1>2, <2>2 DEF UploadStore, TypeOK
  <2>4. QED BY <1>0, <1>2, <1>f, <2>3 DEF UploadStore, TypeOK
<1>3. CASE DeleteAsset(r)
  <2>1. req' \in [Request -> Handler]
    BY <1>0, <1>3, <1>f, GotoType DEF DeleteAsset, Fail
  <2>2. asset' \subseteq Photo /\ torn' \subseteq Photo
    BY <1>0, <1>3 DEF DeleteAsset, Fail, TypeOK, Stored
  <2>3. QED BY <1>0, <1>3, <2>1, <2>2 DEF DeleteAsset, TypeOK
<1>4. CASE DeleteGather(r)
  <2>1. req' \in [Request -> Handler]
    BY <1>0, <1>4, <1>f, GotoType DEF DeleteGather, Fail
  <2>2. torn' \subseteq Photo BY <1>0, <1>4 DEF DeleteGather, Fail, TypeOK, Stored
  <2>3. QED BY <1>0, <1>4, <2>1, <2>2 DEF DeleteGather, TypeOK
<1>5. CASE DeleteRow(r)
  <2>1. photo' \in [Photo -> PhotoRow]
    BY <1>0, <1>5, <1>g DEF DeleteRow, GonePhoto, TypeOK
  <2>2. comment' \in [Comment -> CommentRow]
    BY <1>0, <1>5, <1>h DEF DeleteRow, GoneComment, TypeOK
  <2>3. rating' \subseteq rating BY <1>5 DEF DeleteRow
  <2>4. QED BY <1>0, <1>5, <1>f, <2>1, <2>2, <2>3 DEF DeleteRow, TypeOK
<1>6. CASE DescribeUpdate(r)
  <2>1. \A p \in Photo : [photo[p] EXCEPT !.described = TRUE] \in PhotoRow
    BY <1>0 DEF TypeOK, PhotoRow
  <2>2. photo' \in [Photo -> PhotoRow] BY <1>0, <1>6, <2>1 DEF DescribeUpdate, TypeOK
  <2>3. QED BY <1>0, <1>6, <1>f, <2>2 DEF DescribeUpdate, TypeOK
<1>7. CASE WriteInsert(r)
  <2>1. req[r].photo \in Photo /\ req[r].user \in User
    BY <1>0, <1>7 DEF WriteInsert, At, HandlerMemory
  <2>2. [status |-> "stored", photo |-> req[r].photo, user |-> req[r].user,
         edited |-> FALSE] \in CommentRow
    BY <2>1 DEF CommentRow
  <2>3. comment' \in [Comment -> CommentRow] BY <1>0, <1>7, <2>2 DEF WriteInsert, TypeOK
  <2>4. QED BY <1>0, <1>7, <1>f, <2>3 DEF WriteInsert, TypeOK
<1>8. CASE EditUpdate(r)
  <2>1. \A c \in Comment : [comment[c] EXCEPT !.edited = TRUE] \in CommentRow
    BY <1>0 DEF TypeOK, CommentRow
  <2>2. comment' \in [Comment -> CommentRow] BY <1>0, <1>8, <2>1 DEF EditUpdate, TypeOK
  <2>3. QED BY <1>0, <1>8, <1>f, <2>2 DEF EditUpdate, TypeOK
<1>9. CASE RemoveRow(r)
  <2>1. comment' \in [Comment -> CommentRow]
    BY <1>0, <1>9, <1>h DEF RemoveRow, GoneComment, TypeOK
  <2>2. QED BY <1>0, <1>9, <1>f, <2>1 DEF RemoveRow, TypeOK
<1>10. CASE RateCheck(r)
  <2>1. req' \in [Request -> Handler]
    BY <1>0, <1>10, <1>f, GotoType DEF RateCheck, Check
  <2>2. QED BY <1>0, <1>10, <2>1 DEF RateCheck, TypeOK
<1>11. CASE RateInsert(r)
  <2>1. req[r].photo \in Photo /\ req[r].user \in User
    BY <1>0, <1>11 DEF RateInsert, At, HandlerMemory
  <2>2. rating' \subseteq Photo \X User BY <1>0, <1>11, <2>1 DEF RateInsert, TypeOK
  <2>3. QED BY <1>0, <1>11, <1>f, <2>2 DEF RateInsert, TypeOK
<1>12. CASE Abort(r)
  <2>1. torn' \subseteq Photo BY <1>0, <1>12 DEF Abort, Fail, TypeOK, Stored
  <2>2. QED BY <1>0, <1>12, <1>f, <2>1 DEF Abort, Fail, TypeOK
<1>13. QED BY <1>1, <1>2, <1>3, <1>4, <1>5, <1>6, <1>7, <1>8, <1>9, <1>10, <1>11, <1>12 DEF Step

\* No step revives a row, moves a photo to another owner, or disturbs an upload.
LEMMA StepSteady ==
  ASSUME PhotosAssumption, IInv, NEW r \in Request, Step(r) \/ Abort(r)
  PROVE  Steady /\ UploadsKept(r)
<1>0. TypeOK /\ HandlerMemory(r) /\ UploadsDiffer /\ HandlersOK BY DEF IInv, HandlersOK
<1>1. \A x \in Request : At(x, "store") => /\ req[x].photo \in asset
                                           /\ photo[req[x].photo].status = "free"
  BY <1>0 DEF At, HandlersOK, HandlerMemory
<1> USE DEF rows, Reads
<1>2. CASE UploadAsset(r)
  BY <1>0, <1>1, <1>2 DEF UploadAsset, Unused, Steady, UploadsKept
<1>3. CASE UploadStore(r)
  <2>1. /\ At(r, "store") /\ photo[req[r].photo].status = "free"
        /\ req[r].photo \in Photo
        /\ \A x \in Request \ {r} : At(x, "store") => req[x].photo # req[r].photo
    BY <1>0, <1>1, <1>3 DEF UploadStore, UploadsDiffer, TypeOK
  <2>2. \A p \in Photo \ {req[r].photo} : photo'[p] = photo[p]
    BY <1>0, <1>3, <2>1 DEF UploadStore, TypeOK
  <2>3. \A x \in Request \ {r} : At(x, "store") =>
          req[x].photo \in Photo /\ req[x].photo \in asset'
    BY <1>0, <1>1, <1>3 DEF UploadStore, TypeOK
  <2>4. asset' = asset /\ comment' = comment BY <1>3 DEF UploadStore
  <2>5. UploadsKept(r) BY <1>1, <2>1, <2>2, <2>3 DEF UploadsKept
  <2>6. \A p \in Photo : photo[p].status # "free" => photo'[p] = photo[p]
    BY <2>1, <2>2
  <2>7. QED BY <2>4, <2>5, <2>6 DEF Steady
<1>4. CASE DeleteAsset(r)
  <2>1. /\ photo' = photo /\ comment' = comment /\ asset' \subseteq asset
        /\ \A p \in asset : p = req[r].photo \/ p \in asset'
    BY <1>4 DEF DeleteAsset
  <2>2. photo[req[r].photo].status # "free" BY <1>0, <1>4 DEF DeleteAsset, At, HandlerMemory
  <2>3. QED BY <1>1, <2>1, <2>2 DEF Steady, UploadsKept
<1>5. CASE DeleteRow(r)
  <2>1. /\ req[r].photo \in Photo /\ photo[req[r].photo].status # "free"
    BY <1>0, <1>5 DEF DeleteRow, At, HandlerMemory
  <2>2. /\ \A p \in Photo \ {req[r].photo} : photo'[p] = photo[p]
        /\ photo'[req[r].photo].status = "deleted" /\ asset' = asset
    BY <1>0, <1>5, <2>1 DEF DeleteRow, TypeOK, FreePhoto
  <2>3. \A c \in Comment : comment'[c] = comment[c] \/ comment'[c].status = "deleted"
    BY <1>0, <1>5 DEF DeleteRow, TypeOK, FreeComment
  <2>4. UploadsKept(r)
    <3>1. \A x \in Request : At(x, "store") => req[x].photo \in Photo
      BY <1>0, <1>1 DEF TypeOK
    <3>2. QED BY <1>1, <2>1, <2>2, <3>1 DEF UploadsKept
  <2>5. QED BY <2>2, <2>3, <2>4 DEF Steady
<1>6. CASE DescribeUpdate(r)
  <2>1. \A p \in Photo : /\ photo'[p].status = photo[p].status
                         /\ photo'[p].owner = photo[p].owner
    BY <1>0, <1>6 DEF DescribeUpdate, TypeOK, PhotoRow
  <2>2. asset' = asset /\ comment' = comment BY <1>6 DEF DescribeUpdate
  <2>3. \A x \in Request : At(x, "store") => req[x].photo \in Photo
    BY <1>0, <1>1 DEF TypeOK
  <2>4. QED BY <1>1, <2>1, <2>2, <2>3 DEF Steady, UploadsKept
<1>7. CASE WriteInsert(r)
  <2>1. \A c \in Comment : comment'[c] = comment[c] \/ comment[c].status = "free"
    BY <1>0, <1>7 DEF WriteInsert, FreeComments, TypeOK
  <2>2. photo' = photo /\ asset' = asset BY <1>7 DEF WriteInsert
  <2>3. QED BY <1>1, <2>1, <2>2 DEF Steady, UploadsKept
<1>8. CASE EditUpdate(r)
  <2>1. \A c \in Comment : comment'[c].status = comment[c].status
    BY <1>0, <1>8 DEF EditUpdate, TypeOK, CommentRow
  <2>2. photo' = photo /\ asset' = asset BY <1>8 DEF EditUpdate
  <2>3. QED BY <1>1, <2>1, <2>2 DEF Steady, UploadsKept
<1>9. CASE RemoveRow(r)
  <2>1. \A c \in Comment : comment'[c] = comment[c] \/ comment'[c].status = "deleted"
    BY <1>0, <1>9 DEF RemoveRow, TypeOK, FreeComment
  <2>2. photo' = photo /\ asset' = asset BY <1>9 DEF RemoveRow
  <2>3. QED BY <1>1, <2>1, <2>2 DEF Steady, UploadsKept
<1>10. CASE DeleteGather(r) \/ RateCheck(r) \/ RateInsert(r) \/ Abort(r)
  <2>1. photo' = photo /\ asset' = asset /\ comment' = comment
    BY <1>10 DEF DeleteGather, RateCheck, RateInsert, Abort
  <2>2. QED BY <1>1, <2>1 DEF Steady, UploadsKept
<1>11. QED BY <1>2, <1>3, <1>4, <1>5, <1>6, <1>7, <1>8, <1>9, <1>10 DEF Step

\* What a waiting handler knows survives the steps of the others.
LEMMA WaitingHandler ==
  ASSUME TypeOK, NEW r \in Request, NEW x \in Request \ {r}, HandlerMemory(x),
         Steady, UploadsKept(r), req'[x] = req[x]
  PROVE  HandlerMemory(x)'
<1>1. req[x].pc = "store" => /\ req[x].photo \in asset'
                             /\ photo'[req[x].photo].status = "free"
  BY DEF UploadsKept, At
<1>2. req[x].pc \in {"gather", "erase"} => req[x].photo \notin asset'
  BY DEF HandlerMemory, Steady
<1>3. req[x].pc \in {"destroy", "gather", "erase", "describe", "comment", "check", "rate"}
        => req[x].photo \in Photo /\ photo'[req[x].photo].status # "free"
  BY DEF HandlerMemory, Steady
<1>4. req[x].pc \in {"check", "rate"} /\ req[x].photo \in Stored'
        => photo'[req[x].photo].owner # req[x].user
  BY DEF HandlerMemory, Steady, Stored
<1>5. req[x].pc \in {"edit", "remove"}
        => req[x].comment \in Comment /\ comment'[req[x].comment].status # "free"
  BY DEF HandlerMemory, Steady
<1>6. QED BY <1>1, <1>2, <1>3, <1>4, <1>5 DEF HandlerMemory

\* A handler's own step establishes what its next round trip relies on.
LEMMA SteppedHandler ==
  ASSUME PhotosAssumption, IInv, NEW r \in Request, Step(r) \/ Abort(r)
  PROVE  HandlerMemory(r)'
<1>0. TypeOK /\ HandlerMemory(r) BY DEF IInv, HandlersOK
<1>f. Finish(r) => HandlerMemory(r)' BY <1>0, FinishType DEF HandlerMemory
<1> USE DEF rows, Reads
<1>1. CASE UploadAsset(r)
  <2>1. PICK p \in Unused :
          \/ /\ asset' = asset \cup {p}
             /\ req' = [req EXCEPT ![r] = [req[r] EXCEPT !.pc = "store", !.photo = p]]
          \/ Finish(r)
    BY <1>1 DEF UploadAsset
  <2>2. CASE ~ Finish(r)
    <3>1. req'[r].pc = "store" /\ req'[r].photo = p /\ req'[r].user = req[r].user
      <4>1. req[r] \in Handler BY <1>0 DEF TypeOK
      <4>2. req'[r] = [req[r] EXCEPT !.pc = "store", !.photo = p]
        BY <1>0, <2>1, <2>2 DEF TypeOK
      <4>3. QED BY <4>1, <4>2 DEF Handler
    <3>2. p \in asset' /\ photo'[p].status = "free" /\ req[r].user \in User
      BY <1>0, <1>1, <2>1, <2>2 DEF UploadAsset, Unused, At, HandlerMemory
    <3>3. QED BY <3>1, <3>2 DEF HandlerMemory
  <2>3. QED BY <1>f, <2>2
<1>2. CASE DeleteAsset(r)
  <2>1. CASE ~ Finish(r)
    <3>1. req'[r].pc = "gather" /\ req'[r].photo = req[r].photo
      BY <1>0, <1>2, <2>1, GotoType DEF DeleteAsset, Fail
    <3>2. req[r].photo \in Photo /\ photo'[req[r].photo].status # "free"
      BY <1>0, <1>2 DEF DeleteAsset, At, HandlerMemory
    <3>3. req[r].photo \notin asset' BY <1>2, <2>1 DEF DeleteAsset, Fail
    <3>4. QED BY <3>1, <3>2, <3>3 DEF HandlerMemory
  <2>2. QED BY <1>f, <2>1
<1>3. CASE DeleteGather(r)
  <2>1. CASE ~ Finish(r)
    <3>1. req'[r].pc = "erase" /\ req'[r].photo = req[r].photo
      BY <1>0, <1>3, <2>1, GotoType DEF DeleteGather, Fail
    <3>2. /\ req[r].photo \in Photo /\ photo'[req[r].photo].status # "free"
          /\ req[r].photo \notin asset'
      BY <1>0, <1>3 DEF DeleteGather, At, HandlerMemory
    <3>3. QED BY <3>1, <3>2 DEF HandlerMemory
  <2>2. QED BY <1>f, <2>1
<1>4. CASE RateCheck(r)
  <2>1. CASE ~ Finish(r)
    <3>1. /\ req'[r].pc = "rate" /\ req'[r].photo = req[r].photo
          /\ req'[r].user = req[r].user
      BY <1>0, <1>4, <2>1, GotoType DEF RateCheck, Check
    <3>2. /\ req[r].photo \in Photo /\ photo'[req[r].photo].status # "free"
          /\ req[r].user \in User
          /\ req[r].photo \in Stored' => photo'[req[r].photo].owner # req[r].user
      BY <1>0, <1>4 DEF RateCheck, At, HandlerMemory, Stored
    <3>3. QED BY <3>1, <3>2 DEF HandlerMemory
  <2>2. QED BY <1>f, <2>1
<1>5. CASE UploadStore(r) \/ DeleteRow(r) \/ DescribeUpdate(r) \/ WriteInsert(r)
            \/ EditUpdate(r) \/ RemoveRow(r) \/ RateInsert(r) \/ Abort(r)
  BY <1>f, <1>5 DEF UploadStore, DeleteRow, DescribeUpdate, WriteInsert, EditUpdate,
     RemoveRow, RateInsert, Abort, Fail
<1>6. QED BY <1>1, <1>2, <1>3, <1>4, <1>5 DEF Step

-----------------------------------------------------------------------------
(* The invariant is inductive                                              *)

\* Every handler still knows what it knew, or knows what its step found out.
LEMMA HandlersStep ==
  ASSUME PhotosAssumption, IInv, NEW r \in Request, Arrive(r) \/ Step(r) \/ Abort(r)
  PROVE  Steady /\ HandlersOK'
<1>0. TypeOK /\ HandlersOK BY DEF IInv
<1>1. Steady /\ UploadsKept(r) /\ HandlerMemory(r)'
  <2>1. CASE Arrive(r)
    <3>1. UNCHANGED <<photo, asset, comment>> /\ HandlerMemory(r)' BY <2>1, ArriveEffect
    <3>2. QED BY <1>0, <3>1 DEF Steady, UploadsKept, HandlersOK, HandlerMemory, At
  <2>2. CASE Step(r) \/ Abort(r) BY <2>2, StepSteady, SteppedHandler
  <2>3. QED BY <2>1, <2>2
<1>2. ASSUME NEW x \in Request \ {r} PROVE HandlerMemory(x)'
  <2>1. req'[x] = req[x] BY <1>0, Touches
  <2>2. HandlerMemory(x) BY <1>0 DEF HandlersOK
  <2>3. QED BY <1>0, <1>1, <2>1, <2>2, WaitingHandler
<1>3. QED BY <1>1, <1>2 DEF HandlersOK

\* An upload takes an image that no handler holds yet.
LEMMA UploadsStep ==
  ASSUME PhotosAssumption, IInv, NEW r \in Request, Arrive(r) \/ Step(r) \/ Abort(r)
  PROVE  UploadsDiffer'
<1>0. TypeOK /\ UploadsDiffer /\ HandlersOK BY DEF IInv
<1>1. \A x \in Request \ {r} : req'[x] = req[x] BY <1>0, Touches
<1>2. At(r, "store")' => \A x \in Request \ {r} : At(x, "store") => req[x].photo # req'[r].photo
  <2>1. CASE Arrive(r) BY <2>1, ArriveEffect DEF At
  <2>2. CASE UploadAsset(r)
    <3>1. PICK p \in Unused :
            \/ req' = [req EXCEPT ![r] = [req[r] EXCEPT !.pc = "store", !.photo = p]]
            \/ Finish(r)
      BY <2>2 DEF UploadAsset
    <3>2. CASE Finish(r) BY <1>0, <3>2, FinishType DEF At
    <3>3. CASE ~ Finish(r)
      <4>1. req[r] \in Handler /\ req'[r] = [req[r] EXCEPT !.pc = "store", !.photo = p]
        BY <1>0, <3>1, <3>3 DEF TypeOK
      <4>2. req'[r].photo = p BY <4>1 DEF Handler
      <4>3. \A x \in Request : At(x, "store") => req[x].photo \in asset
        BY <1>0 DEF HandlersOK, HandlerMemory, At
      <4>4. QED BY <4>2, <4>3 DEF Unused
    <3>4. QED BY <3>2, <3>3
  <2>3. CASE DeleteAsset(r) \/ DeleteGather(r) \/ RateCheck(r)
    BY <1>0, <2>3, FinishType, GotoType DEF DeleteAsset, DeleteGather, RateCheck, Check, Fail, At
  <2>4. CASE UploadStore(r) \/ DeleteRow(r) \/ DescribeUpdate(r) \/ WriteInsert(r)
              \/ EditUpdate(r) \/ RemoveRow(r) \/ RateInsert(r) \/ Abort(r)
    BY <1>0, <2>4, FinishType DEF UploadStore, DeleteRow, DescribeUpdate, WriteInsert,
       EditUpdate, RemoveRow, RateInsert, Abort, Fail, At
  <2>5. QED BY <2>1, <2>2, <2>3, <2>4 DEF Step
<1>3. QED BY <1>0, <1>1, <1>2 DEF UploadsDiffer, At

\* A deleted row is not written again, and a deletion leaves an empty one.
LEMMA GoneStep ==
  ASSUME PhotosAssumption, IInv, NEW r \in Request, Arrive(r) \/ Step(r) \/ Abort(r)
  PROVE  /\ \A p \in Photo : photo[p].status = "deleted" => photo'[p] = photo[p]
         /\ \A c \in Comment : comment[c].status = "deleted" => comment'[c] = comment[c]
         /\ GoneIsEmpty'
<1>0. TypeOK /\ GoneIsEmpty /\ HandlerMemory(r) BY DEF IInv, HandlersOK
<1>p. \A p \in Photo : \/ photo'[p] = photo[p]
                       \/ photo[p].status # "deleted" /\ photo'[p].status # "deleted"
                       \/ photo[p].status # "free" /\ photo'[p] = GonePhoto
  <2>1. CASE UploadStore(r)
    <3>1. photo[req[r].photo].status = "free"
      BY <1>0, <2>1 DEF UploadStore, At, HandlerMemory
    <3>2. QED BY <1>0, <2>1, <3>1 DEF UploadStore, TypeOK
  <2>2. CASE DeleteRow(r)
    <3>1. photo[req[r].photo].status # "free"
      BY <1>0, <2>2 DEF DeleteRow, At, HandlerMemory
    <3>2. QED BY <1>0, <2>2, <3>1 DEF DeleteRow, TypeOK, GonePhoto
  <2>3. CASE DescribeUpdate(r)
    BY <1>0, <2>3 DEF DescribeUpdate, TypeOK, PhotoRow, Stored
  <2>4. CASE photo' = photo BY <2>4
  <2>5. QED BY <2>1, <2>2, <2>3, <2>4, ArriveEffect DEF Step, UploadAsset, DeleteAsset,
        DeleteGather, WriteInsert, EditUpdate, RemoveRow, RateCheck, RateInsert, Abort, Reads, rows
<1>c. \A c \in Comment : \/ comment'[c] = comment[c]
                         \/ comment[c].status # "deleted" /\ comment'[c].status # "deleted"
                         \/ comment[c].status # "free" /\ comment'[c] = GoneComment
  <2>1. CASE WriteInsert(r)
    BY <1>0, <2>1 DEF WriteInsert, FreeComments, TypeOK
  <2>2. CASE EditUpdate(r)
    BY <1>0, <2>2 DEF EditUpdate, TypeOK, CommentRow, Comments
  <2>3. CASE RemoveRow(r)
    <3>1. comment[req[r].comment].status # "free"
      BY <1>0, <2>3 DEF RemoveRow, At, HandlerMemory
    <3>2. QED BY <1>0, <2>3, <3>1 DEF RemoveRow, TypeOK, GoneComment
  <2>4. CASE DeleteRow(r)
    BY <1>0, <2>4 DEF DeleteRow, TypeOK, CommentsOf, Comments, GoneComment
  <2>5. CASE comment' = comment BY <2>5
  <2>6. QED BY <2>1, <2>2, <2>3, <2>4, <2>5, ArriveEffect DEF Step, UploadAsset, UploadStore,
        DeleteAsset, DeleteGather, DescribeUpdate, RateCheck, RateInsert, Abort, Reads, rows
<1>e. GonePhoto.status = "deleted" /\ GoneComment.status = "deleted"
  BY DEF GonePhoto, GoneComment, FreePhoto, FreeComment
<1>1. \A p \in Photo : photo[p].status = "deleted" => photo'[p] = photo[p]
  BY <1>0, <1>p DEF GoneIsEmpty
<1>2. \A c \in Comment : comment[c].status = "deleted" => comment'[c] = comment[c]
  BY <1>0, <1>c DEF GoneIsEmpty
<1>3. GoneIsEmpty' BY <1>0, <1>p, <1>c, <1>e DEF GoneIsEmpty
<1>4. QED BY <1>1, <1>2, <1>3

\* Only the second half of a deletion takes a row out of the table.
LEMMA StoredStay ==
  ASSUME PhotosAssumption, IInv, NEW r \in Request, Arrive(r) \/ Step(r) \/ Abort(r),
         ~ DeleteRow(r)
  PROVE  \A p \in Stored : p \in Stored' /\ photo'[p].owner = photo[p].owner
<1>0. TypeOK /\ HandlerMemory(r) BY DEF IInv, HandlersOK
<1>1. CASE UploadStore(r)
  <2>1. photo[req[r].photo].status = "free"
    BY <1>0, <1>1 DEF UploadStore, At, HandlerMemory
  <2>2. QED BY <1>0, <1>1, <2>1 DEF UploadStore, TypeOK, Stored
<1>2. CASE DescribeUpdate(r) BY <1>0, <1>2 DEF DescribeUpdate, TypeOK, PhotoRow, Stored
<1>3. CASE photo' = photo BY <1>3 DEF Stored
<1>4. QED BY <1>1, <1>2, <1>3, ArriveEffect DEF Step, UploadAsset, DeleteAsset,
      DeleteGather, WriteInsert, EditUpdate, RemoveRow, RateCheck, RateInsert, Abort, Reads, rows

LEMMA ChildrenStep ==
  ASSUME PhotosAssumption, IInv, NEW r \in Request, Arrive(r) \/ Step(r) \/ Abort(r)
  PROVE  ChildrenHavePhoto'
<1>0. TypeOK /\ HandlerMemory(r) /\ ChildrenHavePhoto BY DEF IInv, HandlersOK
<1>1. CASE DeleteRow(r)
  <2>1. \A p \in Photo \ {req[r].photo} : photo'[p] = photo[p]
    BY <1>0, <1>1 DEF DeleteRow, TypeOK
  <2>2. \A c \in Comments' : /\ c \in Comments /\ comment'[c] = comment[c]
                             /\ comment[c].photo # req[r].photo
    BY <1>0, <1>1 DEF DeleteRow, TypeOK, Comments, CommentsOf, FreeComment
  <2>3. \A pu \in rating' : pu \in rating /\ pu[1] # req[r].photo
    BY <1>1 DEF DeleteRow
  <2>4. QED BY <1>0, <2>1, <2>2, <2>3 DEF ChildrenHavePhoto, Stored
<1>2. CASE ~ DeleteRow(r)
  <2>1. \A p \in Stored : p \in Stored' /\ photo'[p].owner = photo[p].owner
    BY <1>2, StoredStay
  <2>2. \A c \in Comments' : \/ c \in Comments /\ comment'[c].photo = comment[c].photo
                             \/ comment'[c].photo \in Stored'
    <3>1. CASE WriteInsert(r)
      <4>1. /\ photo' = photo
            /\ \/ comment' = comment
               \/ req[r].photo \in Stored
        BY <3>1 DEF WriteInsert
      <4>2. ASSUME NEW c \in Comments' PROVE comment'[c] = comment[c] \/ comment'[c].photo = req[r].photo
        BY <1>0, <3>1 DEF WriteInsert, TypeOK, Comments
      <4>3. QED BY <4>1, <4>2 DEF Stored, Comments
    <3>2. CASE EditUpdate(r)
      BY <1>0, <3>2 DEF EditUpdate, TypeOK, CommentRow, Comments
    <3>3. CASE RemoveRow(r)
      BY <1>0, <3>3 DEF RemoveRow, TypeOK, Comments, FreeComment
    <3>4. CASE comment' = comment BY <3>4 DEF Comments
    <3>5. QED BY <1>2, <3>1, <3>2, <3>3, <3>4, ArriveEffect DEF Step, UploadAsset, UploadStore,
          DeleteAsset, DeleteGather, DescribeUpdate, RateCheck, RateInsert, Abort, Reads, rows
  <2>3. \A pu \in rating' : \/ pu \in rating
                            \/ pu[1] \in Stored' /\ photo'[pu[1]].owner # pu[2]
    <3>1. CASE RateInsert(r)
      <4>1. /\ photo' = photo
            /\ \A pu \in rating' : \/ pu \in rating
                                   \/ req[r].photo \in Stored /\ pu = <<req[r].photo, req[r].user>>
        BY <3>1 DEF RateInsert
      <4>2. req[r].photo \in Stored => photo[req[r].photo].owner # req[r].user
        BY <1>0, <3>1 DEF RateInsert, At, HandlerMemory
      <4>3. QED BY <4>1, <4>2 DEF Stored
    <3>2. CASE rating' \subseteq rating BY <3>2
    <3>3. QED BY <1>2, <3>1, <3>2, ArriveEffect DEF Step, UploadAsset, UploadStore, DeleteAsset,
          DeleteGather, DescribeUpdate, WriteInsert, EditUpdate, RemoveRow, RateCheck, Abort,
          Reads, rows
  <2>4. QED BY <1>0, <2>1, <2>2, <2>3 DEF ChildrenHavePhoto
<1>3. QED BY <1>1, <1>2

LEMMA DeletedStep ==
  ASSUME PhotosAssumption, IInv, NEW r \in Request, Arrive(r) \/ Step(r) \/ Abort(r)
  PROVE  DeletedHasNoAsset'
<1>0. TypeOK /\ HandlerMemory(r) /\ DeletedHasNoAsset BY DEF IInv, HandlersOK
<1>1. \A p \in Photo : photo[p].status # "free" /\ p \in asset' => p \in asset
  BY HandlersStep DEF Steady
<1>2. \A p \in Photo : photo'[p].status = "deleted" =>
        photo[p].status # "free" /\ (photo[p].status = "deleted" \/ p \notin asset)
  <2>1. CASE DeleteRow(r)
    <3>1. photo[req[r].photo].status # "free" /\ req[r].photo \notin asset
      BY <1>0, <2>1 DEF DeleteRow, At, HandlerMemory
    <3>2. QED BY <1>0, <2>1, <3>1 DEF DeleteRow, TypeOK
  <2>2. CASE UploadStore(r) BY <1>0, <2>2 DEF UploadStore, TypeOK
  <2>3. CASE DescribeUpdate(r) BY <1>0, <2>3 DEF DescribeUpdate, TypeOK, PhotoRow
  <2>4. CASE photo' = photo BY <2>4
  <2>5. QED BY <2>1, <2>2, <2>3, <2>4, ArriveEffect DEF Step, UploadAsset, DeleteAsset,
        DeleteGather, WriteInsert, EditUpdate, RemoveRow, RateCheck, RateInsert, Abort, Reads, rows
<1>3. QED BY <1>0, <1>1, <1>2 DEF DeletedHasNoAsset

\* A deletion between its two halves goes on, erases the row, or is torn.
LEMMA LossStep ==
  ASSUME PhotosAssumption, IInv, NEW r \in Request, Arrive(r) \/ Step(r) \/ Abort(r)
  PROVE  ImageLossExplained'
<1>0. TypeOK /\ HandlerMemory(r) /\ ImageLossExplained BY DEF IInv, HandlersOK
<1>1. \A q : Deleting(q) => \/ Deleting(q)'
                            \/ req[r].pc \in {"gather", "erase"} /\ req[r].photo = q
  BY <1>0, Touches DEF Deleting
<1>u. ASSUME Stored' = Stored, asset \subseteq asset', torn \subseteq torn',
             req[r].pc \notin {"gather", "erase"}
      PROVE  ImageLossExplained'
  BY <1>0, <1>1, <1>u DEF ImageLossExplained
<1>2. CASE Arrive(r)
  <2>1. UNCHANGED <<photo, asset, torn>> /\ At(r, "idle") BY <1>2, ArriveEffect
  <2>2. QED BY <1>u, <2>1 DEF Stored, At
<1>3. CASE UploadStore(r)
  <2>1. /\ asset' = asset /\ torn' = torn /\ req[r].photo \in asset /\ At(r, "store")
        /\ \A p \in Photo \ {req[r].photo} : photo'[p] = photo[p]
    BY <1>0, <1>3 DEF UploadStore, At, HandlerMemory, TypeOK
  <2>2. Stored' \ asset' \subseteq Stored \ asset BY <2>1 DEF Stored
  <2>3. QED BY <1>0, <1>1, <2>1, <2>2 DEF ImageLossExplained, At
<1>4. CASE DeleteAsset(r)
  <2>1. /\ photo' = photo /\ torn \subseteq torn' /\ At(r, "destroy")
        /\ \A p \in asset : p = req[r].photo \/ p \in asset'
    BY <1>4 DEF DeleteAsset, Fail, rows
  <2>2. \A p \in Stored \ asset' : p = req[r].photo => Deleting(p)' \/ p \in torn'
    <3>1. CASE Goto(r, "gather")
      BY <1>0, <3>1, GotoType DEF Deleting
    <3>2. CASE Fail(r, asset') BY <3>2 DEF Fail
    <3>3. QED BY <1>4, <3>1, <3>2 DEF DeleteAsset
  <2>3. Stored' = Stored BY <2>1 DEF Stored
  <2>4. QED BY <1>0, <1>1, <2>1, <2>2, <2>3 DEF ImageLossExplained, At
<1>5. CASE DeleteGather(r)
  <2>1. /\ photo' = photo /\ asset' = asset /\ torn \subseteq torn'
    BY <1>5 DEF DeleteGather, Fail, rows
  <2>2. \A p \in Stored \ asset : p = req[r].photo => Deleting(p)' \/ p \in torn'
    <3>1. CASE Goto(r, "erase")
      BY <1>0, <3>1, GotoType DEF Deleting
    <3>2. CASE Fail(r, asset) BY <3>2 DEF Fail
    <3>3. QED BY <1>5, <3>1, <3>2 DEF DeleteGather
  <2>3. Stored' = Stored BY <2>1 DEF Stored
  <2>4. QED BY <1>0, <1>1, <2>1, <2>2, <2>3 DEF ImageLossExplained
<1>6. CASE DeleteRow(r)
  <2>1. /\ asset' = asset /\ torn' = torn /\ req[r].photo \notin Stored'
        /\ \A p \in Photo \ {req[r].photo} : photo'[p] = photo[p]
    BY <1>0, <1>6 DEF DeleteRow, TypeOK, Stored, FreePhoto
  <2>2. QED BY <1>0, <1>1, <2>1 DEF ImageLossExplained, Stored
<1>7. CASE DescribeUpdate(r)
  <2>1. Stored' = Stored BY <1>0, <1>7 DEF DescribeUpdate, TypeOK, PhotoRow, Stored
  <2>2. QED BY <1>7, <1>u, <2>1 DEF DescribeUpdate, At
<1>8. CASE Abort(r)
  <2>1. photo' = photo /\ asset' = asset /\ Stored' = Stored BY <1>8 DEF Abort, rows, Stored
  <2>2. CASE req[r].pc \in {"gather", "erase"}
    <3>1. torn' = torn \cup ({req[r].photo} \cap (Stored \ asset))
      BY <1>8, <2>2 DEF Abort, Fail
    <3>2. QED BY <1>0, <1>1, <2>1, <3>1 DEF ImageLossExplained
  <2>3. CASE req[r].pc \notin {"gather", "erase"}
    BY <1>8, <1>u, <2>1, <2>3 DEF Abort
  <2>4. QED BY <2>2, <2>3
<1>9. CASE UploadAsset(r)
  BY <1>9, <1>u DEF UploadAsset, At, rows, Stored
<1>10. CASE WriteInsert(r) \/ EditUpdate(r) \/ RemoveRow(r) \/ RateCheck(r) \/ RateInsert(r)
  <2>1. UNCHANGED <<photo, asset, torn>> /\ req[r].pc \notin {"gather", "erase"}
    BY <1>10 DEF WriteInsert, EditUpdate, RemoveRow, RateCheck, RateInsert, At, Reads, rows
  <2>2. QED BY <1>u, <2>1 DEF Stored
<1>11. QED BY <1>2, <1>3, <1>4, <1>5, <1>6, <1>7, <1>8, <1>9, <1>10 DEF Step

LEMMA InitOK == PhotosAssumption /\ Init => IInv
<1> SUFFICES ASSUME PhotosAssumption, Init PROVE IInv OBVIOUS
<1>1. TypeOK
  BY DEF Init, TypeOK, PhotoRow, CommentRow, Handler, FreePhoto, FreeComment, Idle
<1>2. /\ \A p \in Photo : photo[p].status = "free"
      /\ \A c \in Comment : comment[c].status = "free"
      /\ \A r \in Request : req[r].pc = "idle"
  BY DEF Init, FreePhoto, FreeComment, Idle
<1>3. GoneIsEmpty BY <1>2 DEF GoneIsEmpty
<1>4. HandlersOK /\ UploadsDiffer BY <1>2 DEF HandlersOK, HandlerMemory, UploadsDiffer, At
<1>5. ChildrenHavePhoto /\ DeletedHasNoAsset /\ ImageLossExplained
  BY <1>2 DEF Init, ChildrenHavePhoto, DeletedHasNoAsset, ImageLossExplained, Comments, Stored
<1>6. QED BY <1>1, <1>3, <1>4, <1>5 DEF IInv

LEMMA NextOK == PhotosAssumption /\ IInv /\ [Next]_vars => IInv'
<1> SUFFICES ASSUME PhotosAssumption, IInv, [Next]_vars PROVE IInv' OBVIOUS
<1>1. CASE UNCHANGED vars
  BY <1>1 DEF IInv, TypeOK, GoneIsEmpty, HandlersOK, HandlerMemory, UploadsDiffer,
     ChildrenHavePhoto, DeletedHasNoAsset, ImageLossExplained, Deleting, Comments, Stored, At, vars
<1>2. ASSUME NEW r \in Request, Arrive(r) \/ Step(r) \/ Abort(r) PROVE IInv'
  <2>1. TypeOK'
    <3>1. CASE Arrive(r)
      <4>1. /\ req' \in [Request -> Handler] /\ rating' \subseteq rating
            /\ UNCHANGED <<photo, asset, comment, torn>>
        BY <3>1, ArriveEffect
      <4>2. QED BY <4>1 DEF IInv, TypeOK
    <3>2. QED BY <1>2, <3>1, StepType
  <2>2. QED BY <1>2, <2>1, HandlersStep, UploadsStep, GoneStep, ChildrenStep, DeletedStep,
        LossStep DEF IInv
<1>3. QED BY <1>1, <1>2 DEF Next

LEMMA Invariance == Spec => []IInv
<1>1. PhotosAssumption BY PhotosAssumption
<1>2. QED BY <1>1, InitOK, NextOK, PTL DEF Spec

-----------------------------------------------------------------------------
(* Every step is one of Gallery, or none                                   *)

SameRows == \A p \in Photo : photo'[p].status = photo[p].status
SameHung(S) == \A p \in S : HungOn(p)' = HungOn(p)
GalleryStep == [Promise!Next]_(Promise!vars)

LEMMA GalleryStutters ==
  ASSUME SameRows, asset' = asset, SameHung(Photo)
  PROVE  GalleryStep
<1>1. UNCHANGED Promise!vars BY DEF Promise!vars, SameRows, SameHung
<1>2. QED BY <1>1 DEF GalleryStep

LEMMA GalleryPuts ==
  ASSUME NEW p \in Photo, photo[p].status = "free", p \notin asset,
         asset' = asset \cup {p}, SameRows, SameHung(Photo)
  PROVE  GalleryStep
<1>1. Promise!Put(p) BY DEF Promise!Put, SameRows, SameHung
<1>2. QED BY <1>1 DEF GalleryStep, Promise!Next

LEMMA GalleryEnters ==
  ASSUME NEW p \in Photo, photo[p].status = "free", p \in asset, asset' = asset,
         photo'[p].status = "stored", \A q \in Photo \ {p} : photo'[q] = photo[q],
         SameHung(Photo)
  PROVE  GalleryStep
<1>1. Promise!Enter(p) BY DEF Promise!Enter, SameHung
<1>2. QED BY <1>1 DEF GalleryStep, Promise!Next

LEMMA GalleryLoses ==
  ASSUME NEW p \in Stored, asset' = asset \ {p}, SameRows, SameHung(Photo)
  PROVE  GalleryStep
<1>1. Promise!Lose(p) BY DEF Promise!Lose, SameRows, SameHung, Stored
<1>2. QED BY <1>1 DEF GalleryStep, Promise!Next, Stored

LEMMA GalleryErases ==
  ASSUME NEW p \in Stored, p \notin asset, asset' = asset,
         photo'[p].status = "deleted", \A q \in Photo \ {p} : photo'[q] = photo[q],
         HungOn(p)' = {}, SameHung(Photo \ {p})
  PROVE  GalleryStep
<1>1. Promise!Erase(p) BY DEF Promise!Erase, SameHung, Stored
<1>2. QED BY <1>1 DEF GalleryStep, Promise!Next, Stored

LEMMA GalleryHangs ==
  ASSUME NEW p \in Stored, NEW i \in Item, asset' = asset, SameRows,
         HungOn(p)' = HungOn(p) \cup {i}, SameHung(Photo \ {p})
  PROVE  GalleryStep
<1>1. Promise!Hang(p, i) BY DEF Promise!Hang, SameRows, SameHung, Stored
<1>2. QED BY <1>1 DEF GalleryStep, Promise!Next, Stored

LEMMA GalleryTakesDown ==
  ASSUME NEW p \in Photo, NEW i \in Item, i \in HungOn(p), asset' = asset, SameRows,
         HungOn(p)' = HungOn(p) \ {i}, SameHung(Photo \ {p})
  PROVE  GalleryStep
<1>1. Promise!TakeDown(p, i) BY DEF Promise!TakeDown, SameRows, SameHung
<1>2. QED BY <1>1 DEF GalleryStep, Promise!Next

\* Nothing is hung or taken down while no comment changes its place and no
\* rating comes or goes.
LEMMA HungStays ==
  ASSUME rating' = rating,
         \A c \in Comment : /\ comment'[c].status = comment[c].status
                            /\ comment'[c].photo = comment[c].photo
  PROVE  SameHung(Photo)
<1>1. \A p : CommentsOf(p)' = CommentsOf(p) BY DEF CommentsOf, Comments
<1>2. QED BY <1>1 DEF SameHung, HungOn

LEMMA CommentHangs ==
  ASSUME PhotosAssumption, IInv, NEW r \in Request, WriteInsert(r)
  PROVE  GalleryStep
<1>0. TypeOK /\ HandlerMemory(r) BY DEF IInv, HandlersOK
<1>1. SameRows /\ asset' = asset /\ rating' = rating BY DEF WriteInsert, SameRows
<1>2. CASE comment' = comment
  <2>1. SameHung(Photo) BY <1>1, <1>2, HungStays
  <2>2. QED BY <1>1, <2>1, GalleryStutters
<1>3. CASE comment' # comment
  <2>1. PICK c \in FreeComments :
          /\ req[r].photo \in Stored
          /\ comment' = [comment EXCEPT ![c] =
               [status |-> "stored", photo |-> req[r].photo, user |-> req[r].user,
                edited |-> FALSE]]
    BY <1>3 DEF WriteInsert
  <2>2. PICK p \in Stored : p = req[r].photo BY <2>1
  <2>3. /\ c \in Comment /\ comment[c].status = "free"
        /\ comment'[c].status = "stored" /\ comment'[c].photo = p
        /\ \A d \in Comment \ {c} : comment'[d] = comment[d]
    BY <1>0, <2>1, <2>2 DEF TypeOK, FreeComments
  <2>4. CommentsOf(p)' = CommentsOf(p) \cup {c} BY <2>3 DEF CommentsOf, Comments
  <2>5. \A q \in Photo \ {p} : CommentsOf(q)' = CommentsOf(q)
    BY <2>3 DEF CommentsOf, Comments
  <2>6. HungOn(p)' = HungOn(p) \cup {<<"comment", c>>} BY <1>1, <2>4 DEF HungOn
  <2>7. SameHung(Photo \ {p}) BY <1>1, <2>5 DEF HungOn, SameHung
  <2>8. <<"comment", c>> \in Item BY <2>3 DEF Item
  <2>9. QED BY <1>1, <2>6, <2>7, <2>8, GalleryHangs
<1>4. QED BY <1>2, <1>3

LEMMA CommentGoes ==
  ASSUME PhotosAssumption, IInv, NEW r \in Request, RemoveRow(r)
  PROVE  GalleryStep
<1>0. TypeOK /\ GoneIsEmpty /\ ChildrenHavePhoto /\ HandlerMemory(r)
  BY DEF IInv, HandlersOK
<1>1. SameRows /\ asset' = asset /\ rating' = rating BY DEF RemoveRow, SameRows
<1>2. PICK c \in Comment : c = req[r].comment /\ comment[c].status # "free"
  BY <1>0 DEF RemoveRow, At, HandlerMemory
<1>3. comment' = [comment EXCEPT ![c] = GoneComment]
  BY <1>2 DEF RemoveRow, GoneComment
<1>4. CASE comment[c].status = "deleted"
  <2>1. comment' = comment BY <1>0, <1>3, <1>4 DEF GoneIsEmpty, TypeOK
  <2>2. SameHung(Photo) BY <1>1, <2>1, HungStays
  <2>3. QED BY <1>1, <2>2, GalleryStutters
<1>5. CASE comment[c].status = "stored"
  <2>1. PICK p \in Stored : p = comment[c].photo
    BY <1>0, <1>5 DEF ChildrenHavePhoto, Comments
  <2>2. /\ comment'[c].status = "deleted"
        /\ \A d \in Comment \ {c} : comment'[d] = comment[d]
    BY <1>0, <1>3 DEF TypeOK, GoneComment, FreeComment
  <2>3. CommentsOf(p)' = CommentsOf(p) \ {c} BY <2>2 DEF CommentsOf, Comments
  <2>4. \A q \in Photo \ {p} : CommentsOf(q)' = CommentsOf(q)
    BY <2>1, <2>2 DEF CommentsOf, Comments
  <2>5. HungOn(p)' = HungOn(p) \ {<<"comment", c>>} BY <1>1, <2>3 DEF HungOn
  <2>6. SameHung(Photo \ {p}) BY <1>1, <2>4 DEF HungOn, SameHung
  <2>7. <<"comment", c>> \in Item BY DEF Item
  <2>8. <<"comment", c>> \in HungOn(p)
    BY <1>5, <2>1 DEF HungOn, CommentsOf, Comments
  <2>9. QED BY <1>1, <2>1, <2>5, <2>6, <2>7, <2>8, GalleryTakesDown DEF Stored
<1>6. QED BY <1>0, <1>2, <1>4, <1>5 DEF TypeOK, CommentRow

LEMMA RatingHangs ==
  ASSUME PhotosAssumption, IInv, NEW r \in Request, RateInsert(r)
  PROVE  GalleryStep
<1>0. TypeOK /\ HandlerMemory(r) BY DEF IInv, HandlersOK
<1>1. SameRows /\ asset' = asset /\ comment' = comment BY DEF RateInsert, SameRows
<1>2. CASE rating' = rating
  <2>1. SameHung(Photo) BY <1>1, <1>2, HungStays
  <2>2. QED BY <1>1, <2>1, GalleryStutters
<1>3. CASE rating' # rating
  <2>1. PICK p \in Stored, u \in User : p = req[r].photo /\ u = req[r].user
    BY <1>0, <1>3 DEF RateInsert, At, HandlerMemory
  <2>2. rating' = rating \cup {<<p, u>>} BY <1>3, <2>1 DEF RateInsert
  <2>3. \A q : CommentsOf(q)' = CommentsOf(q) BY <1>1 DEF CommentsOf, Comments
  <2>4. HungOn(p)' = HungOn(p) \cup {<<"rating", u>>} BY <2>2, <2>3 DEF HungOn
  <2>5. SameHung(Photo \ {p}) BY <2>2, <2>3 DEF HungOn, SameHung
  <2>6. <<"rating", u>> \in Item BY DEF Item
  <2>7. QED BY <1>1, <2>4, <2>5, <2>6, GalleryHangs
<1>4. QED BY <1>2, <1>3

LEMMA RatingGoes ==
  ASSUME PhotosAssumption, IInv, NEW r \in Request, NEW u \in User,
         NEW pu \in Photo \X User, Unrate(r, u, pu)
  PROVE  GalleryStep
<1>1. SameRows /\ asset' = asset /\ comment' = comment BY DEF Unrate, SameRows
<1>2. PICK p \in Photo, w \in User : pu = <<p, w>> OBVIOUS
<1>3. <<p, w>> \in rating /\ rating' = rating \ {<<p, w>>} BY <1>2 DEF Unrate
<1>4. \A q : CommentsOf(q)' = CommentsOf(q) BY <1>1 DEF CommentsOf, Comments
<1>5. HungOn(p)' = HungOn(p) \ {<<"rating", w>>} BY <1>3, <1>4 DEF HungOn
<1>6. SameHung(Photo \ {p}) BY <1>3, <1>4 DEF HungOn, SameHung
<1>7. <<"rating", w>> \in Item BY DEF Item
<1>8. <<"rating", w>> \in HungOn(p) BY <1>3 DEF HungOn
<1>9. QED BY <1>1, <1>5, <1>6, <1>7, <1>8, GalleryTakesDown

\* The row goes after the image, with all that hangs on it; if another deletion
\* was faster there is nothing left to go.
LEMMA PhotoGoes ==
  ASSUME PhotosAssumption, IInv, NEW r \in Request, DeleteRow(r)
  PROVE  GalleryStep
<1>0. TypeOK /\ GoneIsEmpty /\ ChildrenHavePhoto /\ HandlerMemory(r)
  BY DEF IInv, HandlersOK
<1>1. PICK p \in Photo : /\ p = req[r].photo /\ photo[p].status # "free"
                         /\ p \notin asset
  BY <1>0 DEF DeleteRow, At, HandlerMemory
<1>2. /\ photo' = [photo EXCEPT ![p] = GonePhoto]
      /\ comment' = [c \in Comment |-> IF c \in CommentsOf(p) THEN GoneComment ELSE comment[c]]
      /\ rating' = {pu \in rating : pu[1] # p}
      /\ asset' = asset
  BY <1>1 DEF DeleteRow, GonePhoto, GoneComment
<1>3. \A c \in Comment : comment'[c] = IF c \in CommentsOf(p) THEN GoneComment ELSE comment[c]
  BY <1>2
<1>4. GoneComment.status = "deleted" BY DEF GoneComment, FreeComment
<1>5. CommentsOf(p)' = {} BY <1>3, <1>4 DEF CommentsOf, Comments
<1>6. \A q \in Photo \ {p} : CommentsOf(q)' = CommentsOf(q)
  BY <1>3, <1>4 DEF CommentsOf, Comments
<1>7. CASE photo[p].status = "deleted"
  <2>1. SameRows BY <1>0, <1>2, <1>7 DEF GoneIsEmpty, TypeOK, SameRows
  <2>2. CommentsOf(p) = {} /\ \A pu \in rating : pu[1] # p
    BY <1>0, <1>7 DEF ChildrenHavePhoto, CommentsOf, Stored
  <2>3. rating' = rating BY <1>2, <2>2
  <2>4. SameHung(Photo) BY <1>5, <1>6, <2>2, <2>3 DEF HungOn, SameHung
  <2>5. QED BY <1>2, <2>1, <2>4, GalleryStutters
<1>8. CASE photo[p].status = "stored"
  <2>1. /\ photo'[p].status = "deleted"
        /\ \A q \in Photo \ {p} : photo'[q] = photo[q]
    BY <1>0, <1>2 DEF TypeOK, GonePhoto, FreePhoto
  <2>2. \A u \in User : <<p, u>> \notin rating' BY <1>2
  <2>3. HungOn(p)' = {} BY <1>5, <2>2 DEF HungOn
  <2>4. \A q \in Photo \ {p}, u \in User : <<q, u>> \in rating' <=> <<q, u>> \in rating
    BY <1>2
  <2>5. SameHung(Photo \ {p}) BY <1>6, <2>4 DEF HungOn, SameHung
  <2>6. p \in Stored BY <1>8 DEF Stored
  <2>7. QED BY <1>1, <1>2, <2>1, <2>3, <2>5, <2>6, GalleryErases
<1>9. QED BY <1>0, <1>1, <1>7, <1>8 DEF TypeOK, PhotoRow

\* Uploads: an image where nothing was, then the row for that image.
LEMMA PhotoComes ==
  ASSUME PhotosAssumption, IInv, NEW r \in Request, UploadAsset(r) \/ UploadStore(r)
  PROVE  GalleryStep
<1>0. TypeOK /\ HandlerMemory(r) BY DEF IInv, HandlersOK
<1>1. comment' = comment /\ rating' = rating BY DEF UploadAsset, UploadStore, rows
<1>2. SameHung(Photo) BY <1>1, HungStays
<1>3. CASE UploadAsset(r)
  <2>1. PICK p \in Unused : asset' \in {asset, asset \cup {p}} BY <1>3 DEF UploadAsset
  <2>2. p \in Photo /\ photo[p].status = "free" /\ p \notin asset BY DEF Unused
  <2>3. SameRows BY <1>3 DEF UploadAsset, SameRows, rows
  <2>4. QED BY <1>2, <2>1, <2>2, <2>3, GalleryPuts, GalleryStutters
<1>4. CASE UploadStore(r)
  <2>1. PICK p \in Photo : /\ p = req[r].photo /\ p \in asset
                           /\ photo[p].status = "free"
    BY <1>0, <1>4 DEF UploadStore, At, HandlerMemory, TypeOK
  <2>2. /\ photo'[p].status = "stored" /\ asset' = asset
        /\ \A q \in Photo \ {p} : photo'[q] = photo[q]
    BY <1>0, <1>4, <2>1 DEF UploadStore, TypeOK
  <2>3. QED BY <1>2, <2>1, <2>2, GalleryEnters
<1>5. QED BY <1>3, <1>4

\* The image goes while the row is there; with the row gone it had gone before.
LEMMA ImageGoes ==
  ASSUME PhotosAssumption, IInv, NEW r \in Request, DeleteAsset(r)
  PROVE  GalleryStep
<1>0. TypeOK /\ HandlerMemory(r) /\ DeletedHasNoAsset BY DEF IInv, HandlersOK
<1>1. PICK p \in Photo : p = req[r].photo /\ photo[p].status # "free"
  BY <1>0 DEF DeleteAsset, At, HandlerMemory
<1>2. UNCHANGED <<photo, comment, rating>> /\ asset' \in {asset, asset \ {p}}
  BY <1>1 DEF DeleteAsset, rows
<1>3. SameRows /\ SameHung(Photo) BY <1>2, HungStays DEF SameRows
<1>4. CASE p \in Stored BY <1>2, <1>3, <1>4, GalleryLoses, GalleryStutters
<1>5. CASE p \notin Stored
  <2>1. photo[p].status = "deleted" BY <1>0, <1>1, <1>5 DEF TypeOK, PhotoRow, Stored
  <2>2. p \notin asset BY <1>0, <2>1 DEF DeletedHasNoAsset
  <2>3. QED BY <1>2, <1>3, <2>2, GalleryStutters
<1>6. QED BY <1>4, <1>5

\* The rest changes neither which rows there are nor what hangs on them.
LEMMA NothingMoves ==
  ASSUME PhotosAssumption, IInv, NEW r \in Request,
         \/ DeleteGather(r) \/ DescribeUpdate(r) \/ EditUpdate(r) \/ RateCheck(r) \/ Abort(r)
  PROVE  GalleryStep
<1>0. TypeOK BY DEF IInv
<1>1. SameRows
  <2>1. CASE DescribeUpdate(r) BY <1>0, <2>1 DEF DescribeUpdate, TypeOK, PhotoRow, SameRows
  <2>2. CASE photo' = photo BY <2>2 DEF SameRows
  <2>3. QED BY <2>1, <2>2 DEF DeleteGather, EditUpdate, RateCheck, Abort, Reads, rows
<1>2. \A c \in Comment : /\ comment'[c].status = comment[c].status
                         /\ comment'[c].photo = comment[c].photo
  <2>1. CASE EditUpdate(r) BY <1>0, <2>1 DEF EditUpdate, TypeOK, CommentRow
  <2>2. CASE comment' = comment BY <2>2
  <2>3. QED BY <2>1, <2>2 DEF DeleteGather, DescribeUpdate, RateCheck, Abort, Reads, rows
<1>3. rating' = rating /\ asset' = asset
  BY DEF DeleteGather, DescribeUpdate, EditUpdate, RateCheck, Abort, Reads, rows
<1>4. QED BY <1>1, <1>2, <1>3, HungStays, GalleryStutters

LEMMA RequestMovesNothing ==
  ASSUME PhotosAssumption, IInv, NEW r \in Request, Arrive(r)
  PROVE  GalleryStep
<1>1. CASE \E u \in User, pu \in Photo \X User : Unrate(r, u, pu)
  BY <1>1, RatingGoes
<1>2. CASE rating' = rating
  <2>1. UNCHANGED <<photo, asset, comment>> BY ArriveEffect
  <2>2. SameRows /\ SameHung(Photo) BY <1>2, <2>1, HungStays DEF SameRows
  <2>3. QED BY <2>1, <2>2, GalleryStutters
<1>3. QED BY <1>1, <1>2 DEF Arrive, Refuse, Upload, Delete, Describe, Write, Rate, Edit,
      Remove, Reads, rows, vars

LEMMA GalleryInit == Init => Promise!Init
<1> SUFFICES ASSUME Init PROVE Promise!Init OBVIOUS
<1>1. \A p \in Photo : photo[p].status = "free" BY DEF Init, FreePhoto
<1>2. Comments = {} BY DEF Init, FreeComment, Comments
<1>3. \A p \in Photo : HungOn(p) = {} BY <1>2 DEF Init, HungOn, CommentsOf
<1>4. asset = {} BY DEF Init
<1>5. QED BY <1>1, <1>3, <1>4 DEF Promise!Init

LEMMA GalleryNext == PhotosAssumption /\ IInv /\ [Next]_vars => GalleryStep
<1> SUFFICES ASSUME PhotosAssumption, IInv, [Next]_vars PROVE GalleryStep OBVIOUS
<1>1. CASE UNCHANGED vars
  <2>1. /\ UNCHANGED <<photo, asset, comment, rating>> BY <1>1 DEF vars
  <2>2. SameRows /\ SameHung(Photo) BY <2>1, HungStays DEF SameRows
  <2>3. QED BY <2>1, <2>2, GalleryStutters
<1>2. ASSUME NEW r \in Request, Arrive(r) \/ Step(r) \/ Abort(r) PROVE GalleryStep
  BY <1>2, RequestMovesNothing, PhotoComes, ImageGoes, PhotoGoes, CommentHangs, CommentGoes,
     RatingHangs, NothingMoves DEF Step
<1>3. QED BY <1>1, <1>2 DEF Next

-----------------------------------------------------------------------------
(* Theorems                                                                *)

\* Rows, images and handlers keep their types (entity/photo.py,
\* entity/comment.py, entity/photo_rating.py).
THEOREM TypeCorrect == Spec => []TypeOK
<1>1. IInv => TypeOK BY DEF IInv
<1>2. QED BY <1>1, Invariance, PTL

\* Whatever inserts race with a deletion, what hangs on a photo goes with it.
THEOREM NothingHangsOnNothing == Spec => []ChildrenHavePhoto
<1>1. IInv => ChildrenHavePhoto BY DEF IInv
<1>2. QED BY <1>1, Invariance, PTL

\* No image outlives the row of its photo, however many deletions run or fail.
THEOREM NoImageOutlivesItsRow == Spec => []DeletedHasNoAsset
<1>1. IInv => DeletedHasNoAsset BY DEF IInv
<1>2. QED BY <1>1, Invariance, PTL

\* A row loses its image only to a deletion, running or torn.
THEOREM OnlyDeletionsLoseImages == Spec => []ImageLossExplained
<1>1. IInv => ImageLossExplained BY DEF IInv
<1>2. QED BY <1>1, Invariance, PTL

\* No handler writes a row again that was deleted after it had loaded it.
THEOREM DeletedStaysDeleted == Spec => DeletedForGood
<1>1. PhotosAssumption /\ IInv /\ [Next]_vars =>
        [/\ \A p \in Photo : photo[p].status = "deleted" => photo'[p] = photo[p]
         /\ \A c \in Comment : comment[c].status = "deleted" => comment'[c] = comment[c]]_vars
  BY GoneStep DEF Next
<1>2. PhotosAssumption BY PhotosAssumption
<1>3. QED BY <1>1, <1>2, Invariance, PTL DEF Spec, DeletedForGood

\* Every photo goes through the life that Gallery describes: image, row, loss of
\* the image, loss of the row with all that hangs on it.
THEOREM PhotosImplementGallery == Spec => ImplementsGallery
<1>1. PhotosAssumption BY PhotosAssumption
<1>2. PhotosAssumption /\ IInv /\ [Next]_vars => [Promise!Next]_(Promise!vars)
  BY GalleryNext DEF GalleryStep
<1>3. QED BY <1>1, <1>2, GalleryInit, Invariance, PTL DEF Spec, ImplementsGallery, Promise!Spec
\* Whatever goes through that life leaves no image behind a deleted row, and
\* nothing that hangs on a row that is not there.
LifeInv == \A p \in Photo : /\ photo[p].status = "deleted" => p \notin asset
                            /\ HungOn(p) # {} => photo[p].status = "stored"

\* The two follow from Gallery alone: they need nothing of the handlers.
THEOREM GalleryLeavesNothingBehind == ImplementsGallery => []LifeInv
<1>1. Promise!Init => LifeInv
  <2> SUFFICES ASSUME Promise!Init, NEW p \in Photo
               PROVE  photo[p].status = "free" /\ HungOn(p) = {}
    BY DEF LifeInv
  <2>1. /\ [q \in Photo |-> photo[q].status][p] = "free"
        /\ [q \in Photo |-> HungOn(q)][p] = {}
    BY DEF Promise!Init
  <2>2. QED BY <2>1
<1>2. LifeInv /\ [Promise!Next]_(Promise!vars) => LifeInv'
  <2> SUFFICES ASSUME LifeInv, [Promise!Next]_(Promise!vars) PROVE LifeInv'
    OBVIOUS
  <2>1. CASE UNCHANGED Promise!vars
    <3>1. asset' = asset BY <2>1 DEF Promise!vars
    <3>2. \A p \in Photo : photo'[p].status = photo[p].status /\ HungOn(p)' = HungOn(p)
      <4> SUFFICES ASSUME NEW p \in Photo
                   PROVE  photo'[p].status = photo[p].status /\ HungOn(p)' = HungOn(p)
        OBVIOUS
      <4>1. /\ [q \in Photo |-> photo'[q].status][p] = [q \in Photo |-> photo[q].status][p]
            /\ [q \in Photo |-> HungOn(q)'][p] = [q \in Photo |-> HungOn(q)][p]
        BY <2>1 DEF Promise!vars
      <4>2. QED BY <4>1
    <3>3. QED BY <3>1, <3>2 DEF LifeInv
  <2>2. ASSUME NEW p \in Photo, NEW i,
               \/ Promise!Put(p) \/ Promise!Enter(p) \/ Promise!Lose(p) \/ Promise!Erase(p)
               \/ Promise!Hang(p, i) \/ Promise!TakeDown(p, i)
        PROVE  LifeInv'
    <3>1. \A q \in Photo \ {p} : /\ photo'[q].status = photo[q].status
                                 /\ HungOn(q)' = HungOn(q)
                                 /\ q \in asset' <=> q \in asset
      BY <2>2 DEF Promise!Put, Promise!Enter, Promise!Lose, Promise!Erase, Promise!Hang,
         Promise!TakeDown
    <3>2. /\ photo'[p].status = "deleted" => p \notin asset'
          /\ HungOn(p)' # {} => photo'[p].status = "stored"
      BY <2>2 DEF LifeInv, Promise!Put, Promise!Enter, Promise!Lose, Promise!Erase,
         Promise!Hang, Promise!TakeDown
    <3>3. QED BY <3>1, <3>2 DEF LifeInv
  <2>3. QED BY <2>1, <2>2 DEF Promise!Next
<1>3. QED BY <1>1, <1>2, PTL DEF ImplementsGallery, Promise!Spec
=============================================================================
