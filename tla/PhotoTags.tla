----------------------------- MODULE PhotoTags -----------------------------
(***************************************************************************)
(* Tags and their links to photos.  A request resolves its tags one after  *)
(* the other, creating those that do not exist, in the transaction that    *)
(* commits with the links.  Hence a new tag stays invisible to the others  *)
(* for several round trips, while its unique name makes whoever inserts    *)
(* the same one wait for that transaction.                                 *)
(*                                                                         *)
(* A handler is a chain of actions, one per round trip.  The checks of the *)
(* caller's session and rights and the image are those of Sessions and     *)
(* Photos.  Tags are never deleted, so a name stands for its row.          *)
(***************************************************************************)
EXTENDS Naturals, Sequences, FiniteSets

CONSTANTS Raw,       \* the strings a client may send
          Name,      \* what is left of them after strip() and lower()
          NoName,    \* what is left of a blank string
          Form,      \* strip() and lower()
          MaxTags,   \* MAX_NUMBER_TAGS
          Photo,     \* primary keys of photos, never reused
          NoPhoto,
          Request,   \* slots for requests in flight at the same time
          Env        \* "abort" and "cloudFails", if they may happen

ASSUME PhotoTagsAssumption ==
  /\ Form \in [Raw -> Name \cup {NoName}] /\ NoName \notin Name
  /\ MaxTags \in Nat /\ NoPhoto \notin Photo
  /\ Env \subseteq {"abort", "cloudFails"}

VARIABLES tags,    \* the committed names of the tags table
          link,    \* <<photo, name>> of the committed rows of photo_tags
          photo,   \* the photos table
          req,     \* the handlers in flight
          mixed    \* history: photos whose last replacement overlapped another one

vars == <<tags, link, photo, req, mixed>>
rows == <<tags, link, photo, mixed>>

-----------------------------------------------------------------------------
(* State                                                                   *)

\* A handler: its photo, of an upload NoPhoto; the links loaded with it; the
\* names to resolve and those resolved; the tags inserted by its transaction;
\* and, as history, whether it had the photo to itself so far.
Handler == [pc : {"idle", "lookup", "insert", "cloud", "save"},
            photo : Photo \cup {NoPhoto}, loaded : SUBSET Name,
            todo : Seq(Name), list : SUBSET Name, made : SUBSET Name, alone : BOOLEAN]

Idle == [pc |-> "idle", photo |-> NoPhoto, loaded |-> {}, todo |-> <<>>, list |-> {},
         made |-> {}, alone |-> FALSE]

TypeOK == /\ tags \subseteq Name
          /\ link \subseteq Photo \X Name
          /\ photo \in [Photo -> {"free", "stored", "deleted"}]
          /\ req \in [Request -> Handler]
          /\ mixed \subseteq Photo

Init == /\ tags = {}
        /\ link = {}
        /\ photo = [p \in Photo |-> "free"]
        /\ req = [r \in Request |-> Idle]
        /\ mixed = {}

Stored == {p \in Photo : photo[p] = "stored"}
TagsOf(p) == {n \in Name : <<p, n>> \in link}

At(r, pc) == req[r].pc = pc

\* Variant of Finish that leaves the transaction of the request open.
FinishOpen(r) == req' = [req EXCEPT ![r] = [Idle EXCEPT !.made = req[r].made]]

\* The end of a request rolls back what was not committed.
Finish(r) == req' = [req EXCEPT ![r] = Idle]

-----------------------------------------------------------------------------
(* Normalisation of the tags a client sends                                *)

Normal(s) == LET t == [i \in 1..Len(s) |-> Form[s[i]]]
             IN SelectSeq(t, LAMBDA n : n # NoName)

Names(t) == {t[i] : i \in 1..Len(t)}

\* Variant of Accepted with the limit off by one.
AcceptedOneMore(t) == Len(t) <= MaxTags + 1 /\ Cardinality(Names(t)) = Len(t)

\* normalize_image_tags(): not too many, and none twice once normalised.
Accepted(t) == Len(t) <= MaxTags /\ Cardinality(Names(t)) = Len(t)

\* The lists that some strings sent amount to.  AddTagsSchema wants at least one
\* string, which may be blank.  Bound: at most one string too many is sent.
Lists(S) == UNION {[1..n -> S] : n \in 0..MaxTags + 1}
Sent == {t \in Lists(Name) : \E s \in Lists(Raw) : t = Normal(s)}

-----------------------------------------------------------------------------
(* Requests that come in                                                   *)

\* The round trip after a name is resolved, or after none was sent.
Turn(h) == [h EXCEPT !.pc = IF h.todo # <<>> THEN "lookup"
                            ELSE IF h.photo = NoPhoto THEN "cloud" ELSE "save"]

\* An upload takes any tags, also none.  Bound: one starts only if a primary
\* key is left for it.
FreePhotos == {p \in Photo : photo[p] = "free"}
Uploads == {x \in Request : ~ At(x, "idle") /\ req[x].photo = NoPhoto}

Upload(r, t) ==
  /\ At(r, "idle") /\ Cardinality(FreePhotos) > Cardinality(Uploads)
  /\ Accepted(t)
  /\ req' = [req EXCEPT ![r] = Turn([Idle EXCEPT !.todo = t])]
  /\ UNCHANGED rows

\* A replacement loads the photo with its tags first.
Rivals(p) == {x \in Request : req[x].photo = p}

Replace(r, p, t) ==
  /\ At(r, "idle") /\ p \in Stored /\ Accepted(t)
  /\ LET h == [Idle EXCEPT !.photo = p, !.loaded = TagsOf(p), !.todo = t,
                           !.alone = Rivals(p) = {}]
     IN req' = [x \in Request |-> IF x = r THEN Turn(h)
                                  ELSE IF x \in Rivals(p) THEN [req[x] EXCEPT !.alone = FALSE]
                                  ELSE req[x]]
  /\ UNCHANGED rows

-----------------------------------------------------------------------------
(* get_or_create_tag(), for one name after the other                       *)

Wanted(r) == Head(req[r].todo)

\* The next name is resolved, by a row found or by one just inserted.
Resolve(r, new) ==
  LET h == req[r]
  IN req' = [req EXCEPT ![r] =
       Turn([h EXCEPT !.todo = Tail(h.todo), !.list = @ \cup {Wanted(r)}, !.made = @ \cup new])]

\* Variant of Visible that reads what others have not committed.
VisibleDirty(r) == tags \cup UNION {req[x].made : x \in Request}

\* What a SELECT of the transaction sees.
Visible(r) == tags \cup req[r].made

Lookup(r) ==
  /\ At(r, "lookup")
  /\ \/ Wanted(r) \in Visible(r) /\ Resolve(r, {})
     \/ Wanted(r) \notin Visible(r) /\ req' = [req EXCEPT ![r].pc = "insert"]
  /\ UNCHANGED rows

\* Two transactions cannot hold one name: the later INSERT waits.
Waits(r, x) == x # r /\ At(r, "insert") /\ Wanted(r) \in req[x].made

\* Variant of Insert whose transaction commits at once.
InsertCommit(r) ==
  /\ At(r, "insert") /\ \A x \in Request : ~ Waits(r, x)
  /\ IF Wanted(r) \in tags THEN Finish(r) /\ UNCHANGED tags
                        ELSE Resolve(r, {}) /\ tags' = tags \cup {Wanted(r)}
  /\ UNCHANGED <<link, photo, mixed>>

\* Variant of Insert on a table whose names are not unique.
InsertAnyway(r) == At(r, "insert") /\ Resolve(r, {Wanted(r)}) /\ UNCHANGED rows

\* flush(): INSERT INTO tags.  It fails if the name was committed meanwhile:
\* IntegrityError, 500.
Insert(r) ==
  /\ At(r, "insert") /\ \A x \in Request : ~ Waits(r, x)
  /\ IF Wanted(r) \in tags THEN Finish(r) ELSE Resolve(r, {Wanted(r)})
  /\ UNCHANGED rows

\* Transactions that wait for one another in a cycle, or in several.
Deadlocked(S) == /\ S # {}
                 /\ \A x \in S : (\E y \in S : Waits(x, y)) /\ (\E y \in S : Waits(y, x))

\* PostgreSQL detects a cycle of waiting transactions and ends one of them.
Victim(r) ==
  /\ \E S \in SUBSET Request : r \in S /\ Deadlocked(S)
  /\ Finish(r)
  /\ UNCHANGED rows

-----------------------------------------------------------------------------
(* The commit                                                              *)

\* cloudinary_upload(), with the transaction open; an error ends the request.
Cloud(r) ==
  /\ At(r, "cloud")
  /\ \/ req' = [req EXCEPT ![r].pc = "save"]
     \/ "cloudFails" \in Env /\ Finish(r)
  /\ UNCHANGED rows

\* Variant of SaveUpload with the two keys of a link swapped.
SaveUploadSwapped(r) ==
  /\ At(r, "save") /\ req[r].photo = NoPhoto
  /\ \E p \in FreePhotos :
       /\ photo' = [photo EXCEPT ![p] = "stored"]
       /\ link' = link \cup (req[r].list \X {p})
  /\ tags' = tags \cup req[r].made
  /\ Finish(r)
  /\ UNCHANGED mixed

\* create_photo(): the row, its links and the new tags.
SaveUpload(r) ==
  /\ At(r, "save") /\ req[r].photo = NoPhoto
  /\ \E p \in FreePhotos :
       /\ photo' = [photo EXCEPT ![p] = "stored"]
       /\ link' = link \cup ({p} \X req[r].list)
  /\ tags' = tags \cup req[r].made
  /\ Finish(r)
  /\ UNCHANGED mixed

\* Variant of Dropped for a collection that is extended.
DroppedNone(h) == {}

\* The links that the unit of work deletes and inserts: the differences between
\* the collection that was loaded and the one assigned.
Dropped(h) == h.loaded \ h.list
Added(h) == h.list \ h.loaded

\* add_photo_tags().  An INSERT of a link fails on the unique pair or on a photo
\* that is gone: IntegrityError, 500; a DELETE that finds no row passes.
SaveReplacement(r) ==
  LET h == req[r]
      p == h.photo
  IN /\ At(r, "save") /\ p # NoPhoto
     /\ \/ /\ Added(h) = {} \/ p \in Stored
           /\ Added(h) \cap TagsOf(p) = {}
           /\ link' = (link \ ({p} \X Dropped(h))) \cup ({p} \X Added(h))
           /\ tags' = tags \cup h.made
           /\ mixed' = IF h.alone THEN mixed \ {p} ELSE mixed \cup {p}
        \/ /\ (Added(h) # {} /\ p \notin Stored) \/ Added(h) \cap TagsOf(p) # {}
           /\ UNCHANGED <<link, tags, mixed>>
     /\ Finish(r)
     /\ UNCHANGED photo

-----------------------------------------------------------------------------
(* Around the handlers                                                     *)

\* The commit of remove_photo(), whose round trips are those of Photos.
Remove(p) == /\ p \in Stored
             /\ photo' = [photo EXCEPT ![p] = "deleted"]
             /\ link' = {pn \in link : pn[1] # p}
             /\ UNCHANGED <<tags, req, mixed>>

\* The process or the database fails between two round trips.
Abort(r) == "abort" \in Env /\ ~ At(r, "idle") /\ Finish(r) /\ UNCHANGED rows

\* A request turned away by its first checks, tags that are not accepted
\* included, leaves no trace.
Refuse(r) == At(r, "idle") /\ UNCHANGED vars

Step(r) == Lookup(r) \/ Insert(r) \/ Cloud(r) \/ SaveUpload(r) \/ SaveReplacement(r)

Next == \/ \E r \in Request : \/ \E t \in Sent : Upload(r, t)
                              \/ \E t \in Sent, p \in Photo : Replace(r, p, t)
                              \/ Step(r) \/ Victim(r) \/ Abort(r) \/ Refuse(r)
        \/ \E p \in Photo : Remove(p)

Spec == Init /\ [][Next]_vars

-----------------------------------------------------------------------------
(* Properties                                                              *)

\* However transactions that created tags end, a link names a stored photo and
\* a committed tag.
LinksResolve == \A pn \in link : pn[1] \in Stored /\ pn[2] \in tags

\* A name is in the table or held by one open transaction, of a request in
\* flight: whoever waits for it waits for a request that ends.
NamesHeldOnce ==
  \A r \in Request : /\ req[r].made \cap tags = {}
                     /\ At(r, "idle") => req[r].made = {}
                     /\ \A x \in Request \ {r} : req[r].made \cap req[x].made = {}

\* Nobody waits for ever: of any handlers that wait, one waits for a request
\* outside that is in flight, and so ends, or PostgreSQL finds a cycle to break.
Waiting == {r \in Request : \E x \in Request : Waits(r, x)}

NobodyStalls ==
  \A S \in SUBSET Waiting : S # {} =>
    \/ \E x \in S, y \in Request \ S : Waits(x, y) /\ ~ At(y, "idle")
    \/ \E C \in SUBSET S : Deadlocked(C)

\* prepare_photo_tags() creates missing tags in the transaction of the links:
\* no tag is committed without a photo that carries it.
NewTagsAreUsed == [][\A n \in tags' \ tags : \E p \in Photo : <<p, n>> \in link']_vars

\* A photo has more tags than allowed only after replacements that overlapped.
LimitHolds == \A p \in Stored \ mixed : Cardinality(TagsOf(p)) <= MaxTags

\* A replacement that had the photo to itself leaves exactly the tags it was
\* given, even if the one before it left too many, or fails and changes nothing.
LoneReplacementIsExact ==
  [][\A r \in Request, p \in Stored :
       At(r, "save") /\ req[r].photo = p /\ req[r].alone /\ ~ At(r, "save")'
         => TagsOf(p)' \in {TagsOf(p), req[r].list}]_vars
=============================================================================
