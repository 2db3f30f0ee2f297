------------------------------- MODULE Photos -------------------------------
(***************************************************************************)
(* Photos with their Cloudinary asset, their comments and their ratings.   *)
(* An upload stores the asset first and the row afterwards; a deletion     *)
(* destroys the asset first and the row afterwards; the two stores share   *)
(* no transaction.  Comments and ratings hang on the row by foreign keys   *)
(* with ON DELETE CASCADE.                                                 *)
(*                                                                         *)
(* As in Sessions, a handler is a chain of actions, one per round trip.    *)
(* The session checks in front of it are those of Sessions, and no account *)
(* is ever deleted.  A public id is a fresh UUID, so a photo and its asset *)
(* are named by one value.                                                 *)
(***************************************************************************)
EXTENDS Naturals, FiniteSets

CONSTANTS User, Admin, Moderator,   \* accounts, and those with a staff role
          Photo,     \* public ids that can be generated, a row's name as well
          Comment,   \* primary keys of comments, never reused
          Request,   \* slots for requests in flight at the same time
          Env,       \* "abort" and "cloudFails", if they may happen
          NoUser, NoPhoto, NoComment

ASSUME PhotosAssumption ==
  /\ Admin \subseteq User /\ Moderator \subseteq User
  /\ NoUser \notin User /\ NoPhoto \notin Photo /\ NoComment \notin Comment
  /\ Env \subseteq {"abort", "cloudFails"}

VARIABLES photo,     \* the photos table
          asset,     \* the images in Cloudinary
          comment,   \* the comments table
          rating,    \* <<photo, user>> of the rows of photo_ratings
          req,       \* the handlers in flight
          torn       \* history: photos whose deletion failed half way

vars == <<photo, asset, comment, rating, req, torn>>

-----------------------------------------------------------------------------
(* State                                                                   *)

Staff == Admin \cup Moderator

PhotoRow == [status : {"free", "stored", "deleted"}, owner : User \cup {NoUser},
             described : BOOLEAN]
CommentRow == [status : {"free", "stored", "deleted"}, photo : Photo \cup {NoPhoto},
               user : User \cup {NoUser}, edited : BOOLEAN]

FreePhoto == [status |-> "free", owner |-> NoUser, described |-> FALSE]
FreeComment == [status |-> "free", photo |-> NoPhoto, user |-> NoUser, edited |-> FALSE]

\* A handler: `user` the caller, of an upload the owner to be; `photo` and
\* `comment` the rows it has loaded.
Handler == [pc : {"idle", "upload", "store", "destroy", "gather", "erase", "describe",
                  "comment", "edit", "remove", "check", "rate"},
            user : User \cup {NoUser}, photo : Photo \cup {NoPhoto},
            comment : Comment \cup {NoComment}]

Idle == [pc |-> "idle", user |-> NoUser, photo |-> NoPhoto, comment |-> NoComment]

TypeOK == /\ photo \in [Photo -> PhotoRow]
          /\ asset \subseteq Photo
          /\ comment \in [Comment -> CommentRow]
          /\ rating \subseteq Photo \X User
          /\ req \in [Request -> Handler]
          /\ torn \subseteq Photo

Init == /\ photo = [p \in Photo |-> FreePhoto]
        /\ asset = {}
        /\ comment = [c \in Comment |-> FreeComment]
        /\ rating = {}
        /\ req = [r \in Request |-> Idle]
        /\ torn = {}

Stored == {p \in Photo : photo[p].status = "stored"}
Comments == {c \in Comment : comment[c].status = "stored"}
CommentsOf(p) == {c \in Comments : comment[c].photo = p}
FreeComments == {c \in Comment : comment[c].status = "free"}

\* get_photo_for_owner_or_admin().
MayChange(u, p) == p \in Stored /\ (photo[p].owner = u \/ u \in Admin)

At(r, pc) == req[r].pc = pc
Goto(r, pc) == req' = [req EXCEPT ![r].pc = pc]
Finish(r) == req' = [req EXCEPT ![r] = Idle]
Check(r, ok, pc) == IF ok THEN Goto(r, pc) ELSE Finish(r)
Start(r, pc, u, p, c) ==
  /\ At(r, "idle")
  /\ req' = [req EXCEPT ![r] = [pc |-> pc, user |-> u, photo |-> p, comment |-> c]]

rows == <<photo, comment, rating>>
Reads == UNCHANGED <<rows, asset, torn>>

-----------------------------------------------------------------------------
(* Upload                                                                  *)

\* resolve_photo_owner_id(): an administrator may upload for somebody else.
\* Bound: an upload starts only if a public id is left for it.
Unused == {p \in Photo : photo[p].status = "free" /\ p \notin asset}
Uploading == {r \in Request : req[r].pc \in {"upload", "store"}}

Upload(r, u, owner) ==
  /\ owner = u \/ u \in Admin
  /\ Cardinality(Unused) > Cardinality(Uploading)
  /\ Start(r, "upload", owner, NoPhoto, NoComment)
  /\ Reads

\* Variant of UploadAsset that goes on after an error of the call.
UploadAssetAnyway(r) ==
  /\ At(r, "upload")
  /\ \E p \in Unused :
       /\ asset' = asset \cup {p} \/ ("cloudFails" \in Env /\ UNCHANGED asset)
       /\ req' = [req EXCEPT ![r] = [@ EXCEPT !.pc = "store", !.photo = p]]
  /\ UNCHANGED <<rows, torn>>

\* cloudinary_upload() under a fresh public id.  An error of the call ends the
\* request with 502, whether or not Cloudinary has stored the image.
UploadAsset(r) ==
  /\ At(r, "upload")
  /\ \E p \in Unused :
       \/ /\ asset' = asset \cup {p}
          /\ req' = [req EXCEPT ![r] = [@ EXCEPT !.pc = "store", !.photo = p]]
       \/ /\ "cloudFails" \in Env
          /\ asset' \in {asset, asset \cup {p}}
          /\ Finish(r)
  /\ UNCHANGED <<rows, torn>>

\* create_photo().
UploadStore(r) ==
  /\ At(r, "store")
  /\ photo' = [photo EXCEPT ![req[r].photo] =
       [status |-> "stored", owner |-> req[r].user, described |-> FALSE]]
  /\ Finish(r)
  /\ UNCHANGED <<asset, comment, rating, torn>>

-----------------------------------------------------------------------------
(* Deletion                                                                *)

Delete(r, u, p) == MayChange(u, p) /\ Start(r, "destroy", u, p, NoComment) /\ Reads

\* A deletion fails; it is torn if a row stays and its image is not left.
Fail(r, left) == /\ Finish(r)
                 /\ torn' = torn \cup ({req[r].photo} \cap (Stored \ left))

\* Variant of DeleteAsset that goes on after an error of the call.
DeleteAssetAnyway(r) ==
  /\ At(r, "destroy")
  /\ asset' = asset \ {req[r].photo} \/ ("cloudFails" \in Env /\ UNCHANGED asset)
  /\ Goto(r, "gather")
  /\ UNCHANGED <<rows, torn>>

\* cloudinary_delete(): "ok" and "not found" are both fine.  An error of the
\* call ends the request with 502, whether or not the image is gone.
DeleteAsset(r) ==
  /\ At(r, "destroy")
  /\ \/ /\ asset' = asset \ {req[r].photo}
        /\ Goto(r, "gather")
        /\ UNCHANGED torn
     \/ /\ "cloudFails" \in Env
        /\ asset' \in {asset, asset \ {req[r].photo}}
        /\ Fail(r, asset')
  /\ UNCHANGED rows

\* delete_photo(), first half: the flush loads the comments of the photo, for
\* the backref has no cascade, and sets their photo_id, which is NOT NULL, to
\* NULL: IntegrityError, 500.
DeleteGather(r) ==
  /\ At(r, "gather")
  /\ \/ CommentsOf(req[r].photo) = {} /\ Goto(r, "erase") /\ UNCHANGED torn
     \/ CommentsOf(req[r].photo) # {} /\ Fail(r, asset)
  /\ UNCHANGED <<rows, asset>>

\* Variant of DeleteRow on tables without ON DELETE CASCADE.
DeleteRowOnly(r) ==
  /\ At(r, "erase")
  /\ photo' = [photo EXCEPT ![req[r].photo] = [FreePhoto EXCEPT !.status = "deleted"]]
  /\ Finish(r)
  /\ UNCHANGED <<asset, comment, rating, torn>>

\* Second half: DELETE FROM photos, which takes along what hangs on the row by
\* now; no row any more is only a warning.
DeleteRow(r) ==
  /\ At(r, "erase")
  /\ LET p == req[r].photo
     IN /\ photo' = [photo EXCEPT ![p] = [FreePhoto EXCEPT !.status = "deleted"]]
        /\ comment' = [c \in Comment |-> IF c \in CommentsOf(p)
                         THEN [FreeComment EXCEPT !.status = "deleted"] ELSE comment[c]]
        /\ rating' = {pu \in rating : pu[1] # p}
  /\ Finish(r)
  /\ UNCHANGED <<asset, torn>>

-----------------------------------------------------------------------------
(* Description                                                             *)

Describe(r, u, p) == MayChange(u, p) /\ Start(r, "describe", u, p, NoComment) /\ Reads

\* Variant of DescribeUpdate that merges the object it loaded into the table.
DescribeMerge(r) ==
  /\ At(r, "describe")
  /\ photo' = [photo EXCEPT ![req[r].photo].status = "stored",
                            ![req[r].photo].described = TRUE]
  /\ Finish(r)
  /\ UNCHANGED <<asset, comment, rating, torn>>

\* UPDATE photos by id; no row any more: StaleDataError, 500.
DescribeUpdate(r) ==
  /\ At(r, "describe")
  /\ photo' = [p \in Photo |-> IF p = req[r].photo /\ p \in Stored
                 THEN [photo[p] EXCEPT !.described = TRUE] ELSE photo[p]]
  /\ Finish(r)
  /\ UNCHANGED <<asset, comment, rating, torn>>

-----------------------------------------------------------------------------
(* Comments                                                                *)

\* get_photo_or_404().
Write(r, u, p) == /\ p \in Stored
                  /\ Cardinality(FreeComments) > Cardinality({x \in Request : At(x, "comment")})
                  /\ Start(r, "comment", u, p, NoComment)
                  /\ Reads

\* INSERT; no photo any more: foreign key violation, 500.
WriteInsert(r) ==
  /\ At(r, "comment")
  /\ \/ /\ req[r].photo \in Stored
        /\ \E c \in FreeComments :
             comment' = [comment EXCEPT ![c] =
               [status |-> "stored", photo |-> req[r].photo, user |-> req[r].user,
                edited |-> FALSE]]
     \/ req[r].photo \notin Stored /\ UNCHANGED comment
  /\ Finish(r)
  /\ UNCHANGED <<photo, asset, rating, torn>>

\* get_comment_by_id(): the author's own comments only.
Edit(r, u, c) == /\ c \in Comments /\ comment[c].user = u
                 /\ Start(r, "edit", u, NoPhoto, c)
                 /\ Reads

\* UPDATE by id; no row any more: StaleDataError, 500.
EditUpdate(r) ==
  /\ At(r, "edit")
  /\ comment' = [c \in Comment |-> IF c = req[r].comment /\ c \in Comments
                   THEN [comment[c] EXCEPT !.edited = TRUE] ELSE comment[c]]
  /\ Finish(r)
  /\ UNCHANGED <<photo, asset, rating, torn>>

\* delete_photo_comment(), for staff.
Remove(r, u, c) == /\ u \in Staff /\ c \in Comments
                   /\ Start(r, "remove", u, NoPhoto, c)
                   /\ Reads

\* DELETE by id; no row any more is only a warning.
RemoveRow(r) ==
  /\ At(r, "remove")
  /\ comment' = [comment EXCEPT ![req[r].comment] = [FreeComment EXCEPT !.status = "deleted"]]
  /\ Finish(r)
  /\ UNCHANGED <<photo, asset, rating, torn>>

-----------------------------------------------------------------------------
(* Ratings                                                                 *)

\* create_photo_rating(): the photo, and nobody rates an own one.
Rate(r, u, p) == /\ p \in Stored /\ photo[p].owner # u
                 /\ Start(r, "check", u, p, NoComment)
                 /\ Reads

RateCheck(r) == /\ At(r, "check")
                /\ Check(r, <<req[r].photo, req[r].user>> \notin rating, "rate")
                /\ Reads

\* Variant of RateInsert with the two keys swapped.
RateSwapped(r) ==
  /\ At(r, "rate")
  /\ rating' = IF req[r].photo \in Stored
                 THEN rating \cup {<<req[r].user, req[r].photo>>} ELSE rating
  /\ Finish(r)
  /\ UNCHANGED <<photo, asset, comment, torn>>

\* INSERT; the unique pair refuses the loser of a race and the foreign key a
\* photo that is gone (IntegrityError, 500).
RateInsert(r) ==
  /\ At(r, "rate")
  /\ rating' = IF req[r].photo \in Stored
                 THEN rating \cup {<<req[r].photo, req[r].user>>} ELSE rating
  /\ Finish(r)
  /\ UNCHANGED <<photo, asset, comment, torn>>

\* delete_rating() is one statement.
Unrate(r, u, pu) == /\ At(r, "idle") /\ u \in Staff /\ pu \in rating
                    /\ rating' = rating \ {pu}
                    /\ UNCHANGED <<photo, asset, comment, req, torn>>

-----------------------------------------------------------------------------
(* Around the handlers                                                     *)

\* The process or the database fails between two round trips.
Abort(r) ==
  /\ "abort" \in Env /\ ~ At(r, "idle")
  /\ IF req[r].pc \in {"gather", "erase"} THEN Fail(r, asset)
                                        ELSE Finish(r) /\ UNCHANGED torn
  /\ UNCHANGED <<rows, asset>>

\* A request turned away by its first round trip leaves no trace.
Refuse(r) == At(r, "idle") /\ UNCHANGED vars

Arrive(r) ==
  \/ Refuse(r)
  \/ \E u, o \in User : Upload(r, u, o)
  \/ \E u \in User, p \in Photo : \/ Delete(r, u, p) \/ Describe(r, u, p)
                                  \/ Write(r, u, p) \/ Rate(r, u, p)
  \/ \E u \in User, c \in Comment : Edit(r, u, c) \/ Remove(r, u, c)
  \/ \E u \in User, pu \in Photo \X User : Unrate(r, u, pu)

Step(r) == \/ UploadAsset(r) \/ UploadStore(r)
           \/ DeleteAsset(r) \/ DeleteGather(r) \/ DeleteRow(r)
           \/ DescribeUpdate(r)
           \/ WriteInsert(r) \/ EditUpdate(r) \/ RemoveRow(r)
           \/ RateCheck(r) \/ RateInsert(r)

Next == \E r \in Request : Arrive(r) \/ Step(r) \/ Abort(r)

Spec == Init /\ [][Next]_vars

-----------------------------------------------------------------------------
(* What the module promises                                                *)

\* What hangs on a photo: its comments and, by user, its ratings.
Item == ({"comment"} \X Comment) \cup ({"rating"} \X User)

HungOn(p) == ({"comment"} \X CommentsOf(p))
               \cup ({"rating"} \X {u \in User : <<p, u>> \in rating})

Promise == INSTANCE Gallery WITH row <- [p \in Photo |-> photo[p].status],
                                 image <- asset,
                                 hung <- [p \in Photo |-> HungOn(p)]

\* Two stores that share no transaction, and a cascade that nobody awaits:
\* still, whatever races or fails, every photo goes through the life that
\* Gallery describes.
ImplementsGallery == Promise!Spec

-----------------------------------------------------------------------------
(* Properties                                                              *)

\* Whatever inserts race with a deletion, a comment or a rating hangs on a
\* photo that is stored, and no rating is the owner's.
ChildrenHavePhoto ==
  /\ \A c \in Comments : comment[c].photo \in Stored
  /\ \A pu \in rating : pu[1] \in Stored /\ photo[pu[1]].owner # pu[2]

\* The asset goes before the row, so an image never outlives a deleted photo,
\* however many deletions of it run or fail.
DeletedHasNoAsset == \A p \in Photo : photo[p].status = "deleted" => p \notin asset

Deleting(p) == \E r \in Request : req[r].photo = p /\ req[r].pc \in {"gather", "erase"}

\* A row without its image is one that a deletion is about to take away, or
\* was left by a deletion that failed half way: no race of deletions, uploads
\* and other updates produces one otherwise.
ImageLossExplained == \A p \in Stored \ asset : Deleting(p) \/ p \in torn

\* A photo or comment that is deleted stays as it is: a handler that loaded the
\* row before does not write it again.
DeletedForGood ==
  [][/\ \A p \in Photo : photo[p].status = "deleted" => photo'[p] = photo[p]
     /\ \A c \in Comment : comment[c].status = "deleted" => comment'[c] = comment[c]]_vars

\* As remove_photo() says: it "removes the image from Cloudinary, and then
\* deletes the photo record" (routes/photo.py:423-424), so without an error no
\* record is left without its image.
ImageBehindRow == \A p \in Stored \ asset : Deleting(p)
=============================================================================
