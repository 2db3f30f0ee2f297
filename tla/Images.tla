------------------------------- MODULE Images -------------------------------
(***************************************************************************)
(* Images that Cloudinary keeps under a public id which may be uploaded to *)
(* more than once: the QR code of a saved transformation, whose id is the  *)
(* photo and the second of the request, and the avatar of an account,      *)
(* whose id is the account.  Both are put before the row that refers to    *)
(* them is written, and a later put replaces what the id stands for.       *)
(*                                                                         *)
(* As in Sessions, a handler is a chain of actions, one per round trip.    *)
(* The session checks in front of it are those of Sessions; photos are     *)
(* uploaded and removed by Photos, of which the commit of a removal is     *)
(* kept.  Reads of saved transformations and previews change nothing.      *)
(***************************************************************************)
EXTENDS Naturals, FiniteSets

CONSTANTS Photo,         \* primary keys of photos, never reused
          Body,          \* the bodies of requests for a transformation
          Unset,         \* a field that a body leaves out
          LastSecond,    \* bound: the clock stops there
          User,          \* accounts
          Name, NoName,  \* display names that pass validation
          LastVersion,   \* bound: the number of avatars of an account
          Request,       \* slots for requests in flight at the same time
          Env,           \* "abort", "cloudFails" and "removal", if they may happen
          NoPhoto, NoBody, NoQr, NoUrl, NoUser

Type == {"resize", "crop", "rotate", "blur", "grayscale"}
Field == {"width", "height", "x", "y", "angle", "expand", "background",
          "blur_mode", "blur_radius"}

ASSUME ImagesAssumption ==
  /\ \A b \in Body : /\ b.type \in Type
                     /\ DOMAIN b.given = Field
  /\ LastSecond \in Nat /\ LastVersion \in Nat
  /\ NoPhoto \notin Photo /\ NoBody \notin Body /\ NoUser \notin User /\ NoName \notin Name
  /\ Env \subseteq {"abort", "cloudFails", "removal"}

-----------------------------------------------------------------------------
(* Transformations                                                         *)

\* The parameters of a type, and those that it cannot do without.
Parameters == [resize |-> {"width", "height"},
               crop |-> {"width", "height", "x", "y"},
               rotate |-> {"angle", "expand", "background"},
               blur |-> {"blur_mode", "blur_radius"},
               grayscale |-> {}]

Optional == {"x", "y", "expand", "background", "blur_mode"}

\* build_transformation_params(): 400 when a parameter is missing.
Accepted(b) == \A f \in Parameters[b.type] \ Optional : b.given[f] # Unset

\* build_cloudinary_transformation_options() has no use for these.
Ignored == {"expand", "blur_mode"}

\* A corner of a crop that is left out is 0.
Value(b, f) == IF f \in {"x", "y"} /\ b.given[f] = Unset THEN "0" ELSE b.given[f]

Options(b) == [f \in Parameters[b.type] \ Ignored |-> Value(b, f)]

\* build_transformed_photo_url().
Url(p, b) == <<p, b.type, Options(b)>>

\* json.dumps() refuses a member of BlurMode, which is not a str.
Serialisable(b) == "blur_mode" \notin Parameters[b.type]

Urls == {Url(p, b) : p \in Photo, b \in Body}
Seconds == 0..LastSecond
Versions == Nat

\* Variant of QrId without the second.
QrIdOfPhoto(p, s) == <<p, 0>>

\* The public id of a QR code (the owner in it is that of the photo).
QrId(p, s) == <<p, s>>
QrIds == Photo \X Seconds

-----------------------------------------------------------------------------
(* State                                                                   *)

VARIABLES stored,    \* the rows of the photos table
          saved,     \* the rows of photo_transformations
          qr,        \* the link that the QR code under a public id encodes
          now,       \* the second on the clock
          profile,   \* users.avatar, by version, and users.display_name
          avatar,    \* the version of the avatar in Cloudinary, 0: none
          req,       \* the handlers in flight
          puts,      \* history: how many QR codes were put in a second, 2: several
          unsure     \* history: accounts whose last uploads overlapped or failed

vars == <<stored, saved, qr, now, profile, avatar, req, puts, unsure>>

photos == <<stored, saved, qr, now, puts>>
accounts == <<profile, avatar, unsure>>

\* A handler: of a save the photo, the body and the QR code it has put; of an
\* update of a profile the account, the name asked for, the one loaded with the
\* session check, whether there is a file and the version it became; and, as
\* history, whether it had the account to itself so far.
Handler == [pc : {"idle", "qr", "insert", "image", "profile"},
            photo : Photo \cup {NoPhoto}, body : Body \cup {NoBody}, qr : QrIds \cup {NoQr},
            user : User \cup {NoUser}, name : Name \cup {NoName}, had : Name \cup {NoName},
            file : BOOLEAN, version : Versions, alone : BOOLEAN]

Idle == [pc |-> "idle", photo |-> NoPhoto, body |-> NoBody, qr |-> NoQr, user |-> NoUser,
         name |-> NoName, had |-> NoName, file |-> FALSE, version |-> 0, alone |-> FALSE]

TypeOK == /\ stored \subseteq Photo
          /\ saved \subseteq [photo : Photo, url : Urls, qr : QrIds]
          /\ qr \in [QrIds -> Urls \cup {NoUrl}]
          /\ now \in Seconds
          /\ profile \in [User -> [avatar : Versions, name : Name \cup {NoName}]]
          /\ avatar \in [User -> Versions]
          /\ req \in [Request -> Handler]
          /\ puts \in [QrIds -> 0..2]
          /\ unsure \subseteq User

Init == /\ stored = Photo
        /\ saved = {}
        /\ qr = [id \in QrIds |-> NoUrl]
        /\ now = 0
        /\ profile = [u \in User |-> [avatar |-> 0, name |-> NoName]]
        /\ avatar = [u \in User |-> 0]
        /\ req = [r \in Request |-> Idle]
        /\ puts = [id \in QrIds |-> 0]
        /\ unsure = {}

At(r, pc) == req[r].pc = pc
Finish(r) == req' = [req EXCEPT ![r] = Idle]

-----------------------------------------------------------------------------
(* Saving a transformation                                                 *)

\* get_photo_for_owner_or_admin(), then build_transformation_params().
Save(r, p, b) ==
  /\ At(r, "idle") /\ p \in stored /\ Accepted(b)
  /\ req' = [req EXCEPT ![r] = [Idle EXCEPT !.pc = "qr", !.photo = p, !.body = b]]
  /\ UNCHANGED <<photos, accounts>>

\* Variant of Link that encodes the photo itself.
LinkOriginal(r) == req[r].photo

\* The link that the row will hold and the QR code encodes.
Link(r) == Url(req[r].photo, req[r].body)

\* The upload replaces the image that it finds under the public id.
Put(r) == /\ qr' = [qr EXCEPT ![QrId(req[r].photo, now)] = Link(r)]
          /\ puts' = [puts EXCEPT ![<<req[r].photo, now>>] = IF @ = 0 THEN 1 ELSE 2]

\* generate_qr_code_url(), without an await.  An error of the call ends the
\* request with 502, whether or not Cloudinary has stored the image.
PutQr(r) ==
  /\ At(r, "qr")
  /\ \/ /\ Put(r)
        /\ req' = [req EXCEPT ![r] = [@ EXCEPT !.pc = "insert",
                                               !.qr = QrId(req[r].photo, now)]]
     \/ /\ "cloudFails" \in Env
        /\ Put(r) \/ UNCHANGED <<qr, puts>>
        /\ Finish(r)
  /\ UNCHANGED <<stored, saved, now, accounts>>

Taken(url) == \E t \in saved : t.url = url

\* Whether the INSERT succeeds: the parameters become JSON, the photo is still
\* there (foreign key), and the link is not saved yet (unique).
Insertable(r) == /\ Serialisable(req[r].body)
                 /\ req[r].photo \in stored
                 /\ ~ Taken(Link(r))

\* create_photo_transformation() of the repository: INSERT and commit, or 500.
InsertSaved(r) ==
  /\ At(r, "insert")
  /\ saved' = IF Insertable(r)
                THEN saved \cup {[photo |-> req[r].photo, url |-> Link(r), qr |-> req[r].qr]}
                ELSE saved
  /\ Finish(r)
  /\ UNCHANGED <<stored, qr, now, puts, accounts>>

\* The commit of remove_photo() takes the saved transformations along and
\* leaves their QR codes.
Remove(p) == /\ "removal" \in Env /\ p \in stored
             /\ stored' = stored \ {p}
             /\ saved' = {t \in saved : t.photo # p}
             /\ UNCHANGED <<qr, now, puts, req, accounts>>

Tick == /\ now < LastSecond
        /\ now' = now + 1
        /\ UNCHANGED <<stored, saved, qr, puts, req, accounts>>

-----------------------------------------------------------------------------
(* Updating a profile                                                      *)

Rivals(u) == {x \in Request : req[x].user = u}

\* Bound: an upload starts only if a version is left for it.
VersionLeft(u) == avatar[u] + Cardinality({x \in Rivals(u) : At(x, "image")}) < LastVersion

\* get_current_user() loads the account; 400 when there is nothing to update.
Update(r, u, file, n) ==
  /\ At(r, "idle")
  /\ file \/ n # NoName
  /\ file => VersionLeft(u)
  /\ LET h == [Idle EXCEPT !.pc = IF file THEN "image" ELSE "profile", !.user = u,
                           !.name = n, !.had = profile[u].name, !.file = file,
                           !.alone = Rivals(u) = {}]
     IN req' = [x \in Request |-> IF x = r THEN h
                                  ELSE IF x \in Rivals(u) THEN [req[x] EXCEPT !.alone = FALSE]
                                  ELSE req[x]]
  /\ UNCHANGED <<photos, accounts>>

Unsure(u) == unsure' = unsure \cup {u}

\* cloudinary_upload() under the account's own public id.  An error of the call
\* ends the request with 502, whether or not the avatar was replaced.
PutAvatar(r) ==
  LET u == req[r].user
  IN /\ At(r, "image")
     /\ \/ /\ avatar' = [avatar EXCEPT ![u] = @ + 1]
           /\ req' = [req EXCEPT ![r] = [@ EXCEPT !.pc = "profile", !.version = avatar[u] + 1]]
           /\ UNCHANGED unsure
        \/ /\ "cloudFails" \in Env
           /\ \/ avatar' = [avatar EXCEPT ![u] = @ + 1] /\ Unsure(u)
              \/ UNCHANGED <<avatar, unsure>>
           /\ Finish(r)
     /\ UNCHANGED <<photos, profile>>

\* The columns that the unit of work writes: the avatar of a new version, and
\* a name if it differs from the one that was loaded.
Written(r) == [avatar |-> IF req[r].file THEN req[r].version ELSE profile[req[r].user].avatar,
               name |-> IF req[r].name \in {NoName, req[r].had}
                          THEN profile[req[r].user].name ELSE req[r].name]

\* Variant of SaveProfile that writes the columns as they were loaded.
SaveProfileWhole(r) ==
  LET u == req[r].user
  IN /\ At(r, "profile")
     /\ profile' = [profile EXCEPT ![u] = [avatar |-> req[r].version, name |-> req[r].name]]
     /\ unsure' = IF ~ req[r].file THEN unsure
                  ELSE IF req[r].alone THEN unsure \ {u} ELSE unsure \cup {u}
     /\ Finish(r)
     /\ UNCHANGED <<photos, avatar>>

\* update_own_user_profile() of the repository: UPDATE and commit.
SaveProfile(r) ==
  LET u == req[r].user
  IN /\ At(r, "profile")
     /\ profile' = [profile EXCEPT ![u] = Written(r)]
     /\ unsure' = IF ~ req[r].file THEN unsure
                  ELSE IF req[r].alone THEN unsure \ {u} ELSE unsure \cup {u}
     /\ Finish(r)
     /\ UNCHANGED <<photos, avatar>>

-----------------------------------------------------------------------------
(* Around the handlers                                                     *)

\* The process or the database fails between two round trips.
Abort(r) ==
  /\ "abort" \in Env /\ ~ At(r, "idle")
  /\ IF At(r, "profile") /\ req[r].file THEN Unsure(req[r].user) ELSE UNCHANGED unsure
  /\ Finish(r)
  /\ UNCHANGED <<photos, profile, avatar>>

\* A request turned away by its first checks leaves no trace.
Refuse(r) == At(r, "idle") /\ UNCHANGED vars

Step(r) == PutQr(r) \/ InsertSaved(r) \/ PutAvatar(r) \/ SaveProfile(r)

Next == \/ \E r \in Request :
             \/ \E p \in Photo, b \in Body : Save(r, p, b)
             \/ \E u \in User, file \in BOOLEAN, n \in Name \cup {NoName} :
                  Update(r, u, file, n)
             \/ Step(r) \/ Abort(r) \/ Refuse(r)
        \/ \E p \in Photo : Remove(p)
        \/ Tick

Spec == Init /\ [][Next]_vars

-----------------------------------------------------------------------------
(* Properties                                                              *)

\* As generate_qr_code_url() says, a QR code "points to the transformed image
\* URL" (services/photo.py:596): whatever saves run and fail beside it, the
\* one behind a row does, unless two were put for the photo in that second.
QrLeadsToLink == \A t \in saved : puts[t.qr] = 1 => qr[t.qr] = t.url

Uploading(u) == \E r \in Request : At(r, "profile") /\ req[r].user = u /\ req[r].file

\* users.avatar is the version that Cloudinary has, also after updates of the
\* name that overlap: it lags only while an upload is about to be stored, or
\* after one that overlapped another update or failed half way.
AvatarIsLast == \A u \in User \ unsure : profile[u].avatar = avatar[u] \/ Uploading(u)

\* As the route says, it is there to "Create and save a transformed photo link
\* with a QR code" (routes/photo.py:605), of any type whose parameters are
\* given: with the photo there and the link new, the INSERT leaves the row.
NewLinkIsSaved ==
  [][\A r \in Request :
       At(r, "insert") /\ ~ At(r, "insert")' /\ req[r].photo \in stored /\ ~ Taken(Link(r))
         => \E t \in saved' : t.url = Link(r)]_vars
=============================================================================
