-------------------------- MODULE PhotoTagsProofs --------------------------
(***************************************************************************)
(* Theorems about PhotoTags.tla for every set of names, photos and         *)
(* requests, every limit, and whatever Env lets happen.                    *)
(***************************************************************************)
EXTENDS PhotoTags, FiniteSetTheorems, WellFoundedInduction, TLAPS

-----------------------------------------------------------------------------
(* The inductive invariant                                                 *)

\* What a handler in flight knows of the tables: the names it resolved are
\* committed or its own, those it loaded are committed, and a replacement that
\* has its photo to itself still has the links that are stored.
Knows(r) ==
  /\ req[r].list \subseteq tags \cup req[r].made
  /\ req[r].loaded \subseteq tags
  /\ req[r].photo # NoPhoto => photo[req[r].photo] # "free"
  /\ req[r].alone => /\ req[r].photo \in Photo
                     /\ \A x \in Request \ {r} : req[x].photo # req[r].photo
                     /\ req[r].photo \in Stored => req[r].loaded = TagsOf(req[r].photo)

\* What a handler keeps in order for itself: it created only names it will link,
\* and the names resolved and those left stay within the limit.
InOrder(h) ==
  /\ h.pc \in {"lookup", "insert"} => h.todo # <<>>
  /\ h.made \subseteq h.list
  /\ IsFiniteSet(h.list) /\ Cardinality(h.list) + Len(h.todo) <= MaxTags

\* The steps of one request.
Acts(r) == \/ \E t \in Sent : Upload(r, t)
           \/ \E t \in Sent, p \in Photo : Replace(r, p, t)
           \/ Step(r) \/ Victim(r) \/ Abort(r) \/ Refuse(r)

HandlersOK == \A r \in Request : Knows(r) /\ InOrder(req[r])

IInv == TypeOK /\ HandlersOK /\ NamesHeldOnce /\ LinksResolve /\ LimitHolds

\* What no step of r does: take a name or a photo's key back, revive a photo, or
\* touch the links of a photo that r has not loaded.
Steady(r) ==
  /\ tags \subseteq tags'
  /\ \A p \in Photo : photo[p] # "free" =>
       /\ photo'[p] # "free"
       /\ photo'[p] = "stored" => photo[p] = "stored"
  /\ \A p \in Stored \ {req[r].photo} : p \in Stored' => TagsOf(p)' = TagsOf(p)

\* All that a step of r may change of another handler is that it is not alone.
OthersKept(r) ==
  /\ \A x \in Request \ {r} :
       /\ req'[x].pc = req[x].pc /\ req'[x].photo = req[x].photo
       /\ req'[x].loaded = req[x].loaded /\ req'[x].todo = req[x].todo
       /\ req'[x].list = req[x].list /\ req'[x].made = req[x].made
       /\ req'[x].alone => req[x].alone
  /\ \/ req'[r].photo \in {NoPhoto, req[r].photo}
     \/ \A x \in Request \ {r} : req[x].photo = req'[r].photo => ~ req'[x].alone

-----------------------------------------------------------------------------
(* The ways in which a handler's record changes                            *)

LEMMA IdleType == PhotoTagsAssumption => Idle \in Handler /\ InOrder(Idle)
<1>1. IsFiniteSet({}) /\ Cardinality({}) = 0 BY FS_EmptySet
<1>2. Idle \in Handler BY DEF Idle, Handler
<1>3. /\ Idle.pc = "idle" /\ Idle.made = {} /\ Idle.list = {} /\ Idle.todo = <<>>
  BY DEF Idle
<1>4. Len(Idle.todo) = 0 BY <1>3
<1>5. QED BY <1>1, <1>2, <1>3, <1>4 DEF InOrder, PhotoTagsAssumption

LEMMA FinishEffect ==
  ASSUME PhotoTagsAssumption, TypeOK, NEW r \in Request, Finish(r)
  PROVE  /\ req' \in [Request -> Handler] /\ req'[r] = Idle
         /\ Knows(r)' /\ InOrder(req'[r])
         /\ OthersKept(r)
<1>1. req' \in [Request -> Handler] /\ req'[r] = Idle
  BY IdleType DEF TypeOK, Finish
<1>2. /\ req'[r].list = {} /\ req'[r].loaded = {} /\ req'[r].photo = NoPhoto
      /\ ~ req'[r].alone
  BY <1>1 DEF Idle
<1>3. Knows(r)' BY <1>2 DEF Knows
<1>4. \A x \in Request \ {r} : req'[x] = req[x] BY DEF Finish, TypeOK
<1>5. OthersKept(r) BY <1>2, <1>4 DEF OthersKept
<1>6. QED BY <1>1, <1>3, <1>5, IdleType

LEMMA TurnEffect ==
  ASSUME NEW h \in Handler
  PROVE  /\ Turn(h) \in Handler
         /\ Turn(h).pc \in {"lookup", "cloud", "save"}
         /\ Turn(h).pc = "lookup" => Turn(h).todo # <<>>
         /\ Turn(h).photo = h.photo /\ Turn(h).loaded = h.loaded /\ Turn(h).todo = h.todo
         /\ Turn(h).list = h.list /\ Turn(h).made = h.made /\ Turn(h).alone = h.alone
BY DEF Turn, Handler

\* The accepted lists are sequences of names within the limit.
LEMMA SentType ==
  ASSUME PhotoTagsAssumption, NEW t \in Sent
  PROVE  t \in Seq(Name)
<1>1. PICK n \in 0..MaxTags + 1 : t \in [1..n -> Name] BY DEF Sent, Lists
<1>2. n \in Nat BY <1>1 DEF PhotoTagsAssumption
<1>3. QED BY <1>1, <1>2

\* A request that starts with names to resolve, and nothing done.
LEMMA BeginEffect ==
  ASSUME PhotoTagsAssumption, NEW h \in Handler, h.todo \in Sent, Accepted(h.todo),
         h.list = {}, h.made = {}
  PROVE  /\ Turn(h) \in Handler /\ InOrder(Turn(h)) /\ Turn(h).pc # "idle"
         /\ Turn(h).photo = h.photo /\ Turn(h).loaded = h.loaded
         /\ Turn(h).list = {} /\ Turn(h).made = {} /\ Turn(h).alone = h.alone
<1>1. Len(h.todo) <= MaxTags /\ Len(h.todo) \in Nat BY SentType DEF Accepted
<1>2. IsFiniteSet({}) /\ Cardinality({}) = 0 BY FS_EmptySet
<1>3. /\ Turn(h) \in Handler
      /\ Turn(h).pc \in {"lookup", "cloud", "save"}
      /\ Turn(h).pc = "lookup" => Turn(h).todo # <<>>
      /\ Turn(h).photo = h.photo /\ Turn(h).loaded = h.loaded /\ Turn(h).todo = h.todo
      /\ Turn(h).list = {} /\ Turn(h).made = {} /\ Turn(h).alone = h.alone
  BY TurnEffect
<1>4. Cardinality({}) + Len(h.todo) <= MaxTags BY <1>1, <1>2 DEF PhotoTagsAssumption
<1>5. InOrder(Turn(h)) BY <1>2, <1>3, <1>4 DEF InOrder
<1>6. QED BY <1>3, <1>5

\* get_or_create_tag() returns: the name moves from the list to resolve to the
\* list resolved.
LEMMA ResolveEffect ==
  ASSUME PhotoTagsAssumption, TypeOK, NEW r \in Request, InOrder(req[r]),
         req[r].pc \in {"lookup", "insert"},
         NEW new \in SUBSET {Wanted(r)}, Resolve(r, new)
  PROVE  /\ req' \in [Request -> Handler] /\ InOrder(req'[r])
         /\ req'[r].pc # "idle"
         /\ req'[r].photo = req[r].photo /\ req'[r].loaded = req[r].loaded
         /\ req'[r].list = req[r].list \cup {Wanted(r)}
         /\ req'[r].made = req[r].made \cup new /\ req'[r].alone = req[r].alone
         /\ \A x \in Request \ {r} : req'[x] = req[x]
<1> DEFINE g == [req[r] EXCEPT !.todo = Tail(req[r].todo), !.list = @ \cup {Wanted(r)},
                               !.made = @ \cup new]
<1>1. /\ req[r] \in Handler /\ req[r].todo \in Seq(Name) /\ req[r].todo # <<>>
      /\ req[r].list \subseteq Name /\ req[r].made \subseteq Name
  BY DEF TypeOK, Handler, InOrder
<1>2. /\ Wanted(r) \in Name /\ Tail(req[r].todo) \in Seq(Name)
      /\ Len(req[r].todo) \in Nat /\ Len(Tail(req[r].todo)) = Len(req[r].todo) - 1
  BY <1>1 DEF Wanted
<1>3. /\ g \in Handler /\ g.todo = Tail(req[r].todo)
      /\ g.list = req[r].list \cup {Wanted(r)} /\ g.made = req[r].made \cup new
      /\ g.photo = req[r].photo /\ g.loaded = req[r].loaded /\ g.alone = req[r].alone
  BY <1>1, <1>2 DEF Handler
<1>4. req' = [req EXCEPT ![r] = Turn(g)] BY DEF Resolve
<1>5. /\ req'[r] = Turn(g) /\ \A x \in Request \ {r} : req'[x] = req[x]
  BY <1>4 DEF TypeOK
<1> HIDE DEF g
<1>6. /\ Turn(g) \in Handler
      /\ Turn(g).pc \in {"lookup", "cloud", "save"}
      /\ Turn(g).pc = "lookup" => Turn(g).todo # <<>>
      /\ Turn(g).photo = g.photo /\ Turn(g).loaded = g.loaded /\ Turn(g).todo = g.todo
      /\ Turn(g).list = g.list /\ Turn(g).made = g.made /\ Turn(g).alone = g.alone
  BY <1>3, TurnEffect
<1>7. IsFiniteSet(g.list) /\ Cardinality(g.list) + Len(g.todo) <= MaxTags
  <2>1. /\ IsFiniteSet(req[r].list)
        /\ Cardinality(req[r].list) + Len(req[r].todo) <= MaxTags
    BY DEF InOrder
  <2>2. LET L == req[r].list \cup {Wanted(r)}
        IN /\ IsFiniteSet(L)
           /\ Cardinality(L) = IF Wanted(r) \in req[r].list THEN Cardinality(req[r].list)
                               ELSE Cardinality(req[r].list) + 1
    <3>1. IsFiniteSet(req[r].list) BY <2>1
    <3>2. QED BY ONLY <3>1, FS_AddElement
  <2>3. Cardinality(req[r].list) \in Nat BY <2>1, FS_CardinalityType
  <2>4. QED BY <1>2, <1>3, <2>1, <2>2, <2>3 DEF PhotoTagsAssumption
<1>8. InOrder(Turn(g)) BY <1>3, <1>6, <1>7 DEF InOrder
<1>9. req' \in [Request -> Handler] BY <1>4, <1>6 DEF TypeOK
<1>10. QED BY <1>3, <1>5, <1>6, <1>8, <1>9

-----------------------------------------------------------------------------
(* What the steps of a request do                                          *)

\* A request that comes in knows what it has just loaded.
LEMMA UploadEffect ==
  ASSUME PhotoTagsAssumption, IInv, NEW r \in Request, NEW t \in Sent, Upload(r, t)
  PROVE  /\ req' \in [Request -> Handler] /\ InOrder(req'[r]) /\ Knows(r)'
         /\ OthersKept(r) /\ req'[r].made = {} /\ req'[r].pc # "idle" /\ UNCHANGED rows
<1> DEFINE h == [Idle EXCEPT !.todo = t]
<1>1. TypeOK BY DEF IInv
<1>2. /\ h \in Handler /\ h.todo = t /\ h.list = {} /\ h.made = {}
      /\ h.photo = NoPhoto /\ h.loaded = {} /\ h.alone = FALSE
  BY SentType DEF Idle, Handler
<1>3. req' = [req EXCEPT ![r] = Turn(h)] /\ UNCHANGED rows /\ Accepted(t) BY DEF Upload
<1> HIDE DEF h
<1>4. /\ Turn(h) \in Handler /\ InOrder(Turn(h)) /\ Turn(h).pc # "idle"
      /\ Turn(h).photo = NoPhoto /\ Turn(h).loaded = {} /\ Turn(h).alone = FALSE
      /\ Turn(h).list = {} /\ Turn(h).made = {}
  BY <1>2, <1>3, BeginEffect
<1>5. req' \in [Request -> Handler] /\ req'[r] = Turn(h) BY <1>1, <1>4, <1>3 DEF TypeOK
<1>6. \A x \in Request \ {r} : req'[x] = req[x] BY <1>1, <1>3 DEF TypeOK
<1>7. Knows(r)' BY <1>4, <1>5 DEF Knows
<1>8. OthersKept(r) BY <1>4, <1>5, <1>6 DEF OthersKept
<1>9. QED BY <1>4, <1>3, <1>5, <1>7, <1>8

LEMMA ReplaceEffect ==
  ASSUME PhotoTagsAssumption, IInv, NEW r \in Request, NEW t \in Sent, NEW p \in Photo,
         Replace(r, p, t)
  PROVE  /\ req' \in [Request -> Handler] /\ InOrder(req'[r]) /\ Knows(r)'
         /\ OthersKept(r) /\ req'[r].made = {} /\ req'[r].pc # "idle" /\ UNCHANGED rows
<1> DEFINE a == Rivals(p) = {}
           h == [Idle EXCEPT !.photo = p, !.loaded = TagsOf(p), !.todo = t, !.alone = a]
<1>1. TypeOK /\ LinksResolve /\ TagsOf(p) \subseteq Name BY DEF IInv, TagsOf
<1>2. /\ h \in Handler /\ h.todo = t /\ h.list = {} /\ h.made = {}
      /\ h.photo = p /\ h.loaded = TagsOf(p) /\ (h.alone => a)
  <2>1. a \in BOOLEAN OBVIOUS
  <2>2. TagsOf(p) \in SUBSET Name BY <1>1
  <2> HIDE DEF a
  <2>3. QED BY <2>1, <2>2, SentType DEF Idle, Handler
<1>3. /\ req' = [x \in Request |-> IF x = r THEN Turn(h)
                                   ELSE IF x \in Rivals(p) THEN [req[x] EXCEPT !.alone = FALSE]
                                   ELSE req[x]]
      /\ UNCHANGED rows /\ p \in Stored /\ At(r, "idle") /\ Accepted(t)
  BY DEF Replace
<1> HIDE DEF h
<1>4. /\ Turn(h) \in Handler /\ InOrder(Turn(h)) /\ Turn(h).pc # "idle"
      /\ Turn(h).photo = p /\ Turn(h).loaded = TagsOf(p) /\ (Turn(h).alone => a)
      /\ Turn(h).list = {} /\ Turn(h).made = {}
  <2> HIDE DEF a
  <2>1. h.todo \in Sent /\ Accepted(h.todo) BY <1>2, <1>3
  <2>2. /\ Turn(h) \in Handler /\ InOrder(Turn(h)) /\ Turn(h).pc # "idle"
        /\ Turn(h).photo = h.photo /\ Turn(h).loaded = h.loaded
        /\ Turn(h).list = {} /\ Turn(h).made = {} /\ Turn(h).alone = h.alone
    BY <1>2, <2>1, BeginEffect
  <2>3. Turn(h).photo = p /\ Turn(h).loaded = TagsOf(p) /\ (Turn(h).alone => a) BY ONLY <1>2, <2>2
  <2>4. QED BY <2>2, <2>3
<1>5. \A x \in Request : [req[x] EXCEPT !.alone = FALSE] \in Handler
  <2>1. \A g \in Handler : [g EXCEPT !.alone = FALSE] \in Handler BY DEF Handler
  <2>2. \A x \in Request : req[x] \in Handler BY <1>1 DEF TypeOK
  <2>3. QED BY <2>1, <2>2
<1>6. req' \in [Request -> Handler] /\ req'[r] = Turn(h) BY <1>1, <1>4, <1>3, <1>5 DEF TypeOK
<1>7. \A x \in Request \ {r} :
        /\ req'[x].pc = req[x].pc /\ req'[x].photo = req[x].photo
        /\ req'[x].loaded = req[x].loaded /\ req'[x].todo = req[x].todo
        /\ req'[x].list = req[x].list /\ req'[x].made = req[x].made
        /\ req'[x].alone => req[x].alone /\ req[x].photo # p
  <2>1. SUFFICES ASSUME NEW x \in Request \ {r}
                 PROVE  /\ req'[x].pc = req[x].pc /\ req'[x].photo = req[x].photo
                        /\ req'[x].loaded = req[x].loaded /\ req'[x].todo = req[x].todo
                        /\ req'[x].list = req[x].list /\ req'[x].made = req[x].made
                        /\ req'[x].alone => req[x].alone /\ req[x].photo # p
    OBVIOUS
  <2>2. req[x] \in Handler BY <1>1 DEF TypeOK
  <2>3. CASE x \in Rivals(p)
    <3>1. req'[x] = [req[x] EXCEPT !.alone = FALSE] BY <1>3, <2>3
    <3>2. QED BY <2>2, <3>1 DEF Handler
  <2>4. CASE x \notin Rivals(p)
    <3>1. req'[x] = req[x] /\ req[x].photo # p BY <1>3, <2>4 DEF Rivals
    <3>2. QED BY <3>1
  <2>5. QED BY <2>3, <2>4
<1>8. OthersKept(r) BY <1>4, <1>6, <1>7 DEF OthersKept
<1>9. Knows(r)'
  <2>1. /\ req'[r].list = {} /\ req'[r].loaded = TagsOf(p) /\ req'[r].photo = p
        /\ req'[r].alone => a
    BY <1>4, <1>6
  <2>2. tags' = tags /\ link' = link /\ photo' = photo BY <1>3 DEF rows
  <2>3. TagsOf(p) \subseteq tags BY <1>1 DEF TagsOf, LinksResolve
  <2>4. photo[p] # "free" BY <1>3 DEF Stored
  <2>5. a => \A x \in Request \ {r} : req'[x].photo # p BY <1>7 DEF Rivals
  <2>6. TagsOf(p)' = TagsOf(p) BY <2>2 DEF TagsOf
  <2>7. QED BY <2>1, <2>2, <2>3, <2>4, <2>5, <2>6 DEF Knows, TagsOf
<1>10. QED BY <1>4, <1>3, <1>6, <1>8, <1>9
-----------------------------------------------------------------------------
(* From what one request does to what all requests know                    *)

RowsOK == /\ tags \subseteq Name /\ link \subseteq Photo \X Name
          /\ photo \in [Photo -> {"free", "stored", "deleted"}] /\ mixed \subseteq Photo
          /\ LinksResolve /\ LimitHolds

\* The handlers that wait keep what they know.
LEMMA HandlersKept ==
  ASSUME PhotoTagsAssumption, IInv, NEW r \in Request,
         req' \in [Request -> Handler], InOrder(req'[r]), Knows(r)',
         OthersKept(r), Steady(r)
  PROVE  HandlersOK'
<1>1. SUFFICES ASSUME NEW x \in Request \ {r}
               PROVE  Knows(x)' /\ InOrder(req'[x])
  BY DEF HandlersOK
<1>2. /\ req'[x].pc = req[x].pc /\ req'[x].photo = req[x].photo
      /\ req'[x].loaded = req[x].loaded /\ req'[x].todo = req[x].todo
      /\ req'[x].list = req[x].list /\ req'[x].made = req[x].made
      /\ req'[x].alone => req[x].alone
  BY DEF OthersKept
<1>3. InOrder(req'[x]) BY <1>2 DEF IInv, HandlersOK, InOrder
<1>4. Knows(x) BY DEF IInv, HandlersOK
<1>5. tags \subseteq tags' BY DEF Steady
<1>6. req[x] \in Handler /\ req[x].photo \in Photo \cup {NoPhoto}
  BY DEF IInv, TypeOK, Handler
<1>7. req[x].photo # NoPhoto => photo'[req[x].photo] # "free"
  BY <1>4, <1>6 DEF Knows, Steady
<1>8. ASSUME req'[x].alone
      PROVE  /\ req[x].photo \in Photo
             /\ \A y \in Request \ {x} : req'[y].photo # req[x].photo
             /\ req[x].photo \in Stored' => req[x].loaded = TagsOf(req[x].photo)'
  <2>1. req[x].alone BY <1>2, <1>8
  <2>2. /\ req[x].photo \in Photo /\ req[x].photo # NoPhoto
        /\ \A y \in Request \ {x} : req[y].photo # req[x].photo
        /\ req[x].photo \in Stored => req[x].loaded = TagsOf(req[x].photo)
    BY <2>1, <1>4 DEF Knows, PhotoTagsAssumption
  <2>3. \A y \in Request \ {r} : req'[y].photo = req[y].photo BY DEF OthersKept
  <2>4. req'[r].photo # req[x].photo
    <3>1. CASE req'[r].photo \in {NoPhoto, req[r].photo} BY <3>1, <2>2
    <3>2. CASE \A y \in Request \ {r} : req[y].photo = req'[r].photo => ~ req'[y].alone
      BY <3>2, <1>8
    <3>3. QED BY <3>1, <3>2 DEF OthersKept
  <2>5. \A y \in Request \ {x} : req'[y].photo # req[x].photo BY <2>2, <2>3, <2>4
  <2>6. ASSUME req[x].photo \in Stored'
        PROVE  req[x].loaded = TagsOf(req[x].photo)'
    <3>0. PICK p : p = req[x].photo OBVIOUS
    <3>1. photo[p] # "free" BY <1>4, <2>2, <3>0 DEF Knows
    <3>2. p \in Photo /\ p \in Stored' /\ photo'[p] = "stored" BY <1>2, <2>2, <2>6, <3>0 DEF Stored
    <3>3. photo[p] = "stored" BY <3>1, <3>2 DEF Steady
    <3>4. p \in Stored \ {req[r].photo} BY <2>2, <3>0, <3>2, <3>3 DEF Stored
    <3>5. \A q \in Stored \ {req[r].photo} : q \in Stored' => TagsOf(q)' = TagsOf(q)
      BY DEF Steady
    <3>6. TagsOf(p)' = TagsOf(p) BY <3>2, <3>4, <3>5
    <3>7. req[x].loaded = TagsOf(p) BY <2>2, <3>0, <3>4
    <3>8. p = req'[x].photo BY <1>2, <3>0
    <3>9. QED BY <3>6, <3>7, <3>8 DEF TagsOf
  <2>7. QED BY <2>2, <2>5, <2>6
<1>9. Knows(x)' BY <1>2, <1>4, <1>5, <1>7, <1>8 DEF Knows, TagsOf
<1>10. QED BY <1>3, <1>9

\* Steps that leave the tables alone.
LEMMA RowsKept ==
  ASSUME IInv, UNCHANGED rows, NEW r \in Request
  PROVE  Steady(r) /\ RowsOK'
<1>1. tags' = tags /\ link' = link /\ photo' = photo /\ mixed' = mixed BY DEF rows
<1>2. Stored' = Stored /\ \A p \in Photo : TagsOf(p)' = TagsOf(p)
  BY <1>1 DEF Stored, TagsOf
<1>3. Steady(r) BY <1>1, <1>2 DEF Steady, Stored
<1>4. LinksResolve' BY <1>1, <1>2 DEF IInv, LinksResolve
<1>5. LimitHolds'
  <2>1. \A p \in Stored \ mixed : Cardinality(TagsOf(p)) <= MaxTags
    BY DEF IInv, LimitHolds
  <2>2. QED BY <1>1, <2>1 DEF LimitHolds, Stored, TagsOf
<1>6. QED BY <1>1, <1>3, <1>4, <1>5 DEF RowsOK, IInv, TypeOK

\* A request that holds names nobody else has, while no tag is committed.
LEMMA NamesKept ==
  ASSUME IInv, NEW r \in Request, OthersKept(r), tags' = tags,
         req'[r].made \cap tags = {}, req'[r].pc = "idle" => req'[r].made = {},
         \A x \in Request \ {r} : req'[r].made \cap req[x].made = {}
  PROVE  NamesHeldOnce'
<1>1. \A x \in Request \ {r} : req'[x].made = req[x].made /\ req'[x].pc = req[x].pc
  BY DEF OthersKept
<1>2. NamesHeldOnce BY DEF IInv
<1>3. QED BY <1>1, <1>2 DEF NamesHeldOnce, At

\* A request that ends without a trace.
LEMMA EndEffect ==
  ASSUME PhotoTagsAssumption, IInv, NEW r \in Request, Finish(r), UNCHANGED rows
  PROVE  /\ req' \in [Request -> Handler] /\ InOrder(req'[r]) /\ Knows(r)'
         /\ OthersKept(r) /\ NamesHeldOnce'
<1>1. TypeOK BY DEF IInv
<1>2. /\ req' \in [Request -> Handler] /\ req'[r] = Idle
      /\ Knows(r)' /\ InOrder(req'[r]) /\ OthersKept(r)
  BY <1>1, FinishEffect
<1>3. req'[r].made = {} BY <1>2 DEF Idle
<1>4. NamesHeldOnce' BY <1>2, <1>3, NamesKept DEF rows
<1>5. QED BY <1>2, <1>4

\* A request that goes on with the same photo and the same links loaded.
LEMMA MoveEffect ==
  ASSUME IInv, NEW r \in Request, UNCHANGED rows,
         req'[r].photo = req[r].photo, req'[r].loaded = req[r].loaded,
         req'[r].alone = req[r].alone, req'[r].list \subseteq tags \cup req'[r].made,
         \A x \in Request \ {r} : req'[x] = req[x]
  PROVE  Knows(r)' /\ OthersKept(r)
<1>1. Knows(r) BY DEF IInv, HandlersOK
<1>2. tags' = tags /\ link' = link /\ photo' = photo BY DEF rows
<1>3. Knows(r)' BY <1>1, <1>2 DEF Knows, Stored, TagsOf
<1>4. OthersKept(r) BY DEF OthersKept
<1>5. QED BY <1>3, <1>4

-----------------------------------------------------------------------------
(* The round trips before the commit                                       *)

LEMMA LookupEffect ==
  ASSUME PhotoTagsAssumption, IInv, NEW r \in Request, Lookup(r)
  PROVE  /\ req' \in [Request -> Handler] /\ InOrder(req'[r]) /\ Knows(r)'
         /\ OthersKept(r) /\ NamesHeldOnce'
<1>1. /\ TypeOK /\ InOrder(req[r]) /\ Knows(r) /\ NamesHeldOnce
      /\ UNCHANGED rows /\ tags' = tags
      /\ req[r].pc = "lookup"
  BY DEF IInv, HandlersOK, Lookup, At, rows
<1>2. CASE Wanted(r) \in Visible(r) /\ Resolve(r, {})
  <2>1. /\ req' \in [Request -> Handler] /\ InOrder(req'[r])
        /\ req'[r].pc # "idle"
        /\ req'[r].photo = req[r].photo /\ req'[r].loaded = req[r].loaded
        /\ req'[r].list = req[r].list \cup {Wanted(r)}
        /\ req'[r].made = req[r].made \cup {} /\ req'[r].alone = req[r].alone
        /\ \A x \in Request \ {r} : req'[x] = req[x]
    BY <1>1, <1>2, ResolveEffect
  <2>2. req'[r].list \subseteq tags \cup req'[r].made
    BY <1>1, <1>2, <2>1 DEF Knows, Visible
  <2>3. Knows(r)' /\ OthersKept(r) BY <1>1, <2>1, <2>2, MoveEffect
  <2>4. /\ req'[r].made \cap tags = {}
        /\ \A x \in Request \ {r} : req'[r].made \cap req[x].made = {}
    BY <1>1, <2>1 DEF NamesHeldOnce
  <2>5. NamesHeldOnce' BY <1>1, <2>1, <2>3, <2>4, NamesKept
  <2>6. QED BY <2>1, <2>3, <2>5
<1>3. CASE req' = [req EXCEPT ![r].pc = "insert"]
  <2>1. req[r] \in Handler BY <1>1 DEF TypeOK
  <2>2. req' = [req EXCEPT ![r] = [req[r] EXCEPT !.pc = "insert"]] BY <1>3
  <2>3. /\ [req[r] EXCEPT !.pc = "insert"] \in Handler
        /\ req'[r] = [req[r] EXCEPT !.pc = "insert"]
    BY <1>1, <2>1, <2>2 DEF TypeOK, Handler
  <2>4. req' \in [Request -> Handler] BY <1>1, <2>2, <2>3 DEF TypeOK
  <2>5. /\ req'[r].pc = "insert" /\ req'[r].todo = req[r].todo
        /\ req'[r].photo = req[r].photo /\ req'[r].loaded = req[r].loaded
        /\ req'[r].list = req[r].list /\ req'[r].made = req[r].made
        /\ req'[r].alone = req[r].alone
        /\ \A x \in Request \ {r} : req'[x] = req[x]
    BY <1>1, <2>1, <2>2, <2>3 DEF TypeOK, Handler
  <2>6. InOrder(req'[r]) BY <1>1, <2>5 DEF InOrder
  <2>7. req'[r].list \subseteq tags \cup req'[r].made BY <1>1, <2>5 DEF Knows
  <2>8. Knows(r)' /\ OthersKept(r) BY <1>1, <2>5, <2>7, MoveEffect
  <2>9. /\ req'[r].made \cap tags = {}
        /\ \A x \in Request \ {r} : req'[r].made \cap req[x].made = {}
    BY <1>1, <2>5 DEF NamesHeldOnce
  <2>10. NamesHeldOnce' BY <1>1, <2>5, <2>8, <2>9, NamesKept
  <2>11. QED BY <2>4, <2>6, <2>8, <2>10
<1>4. QED BY <1>2, <1>3 DEF Lookup

\* The request inserts a name that is neither committed nor held by another.
LEMMA InsertEffect ==
  ASSUME PhotoTagsAssumption, IInv, NEW r \in Request, Insert(r)
  PROVE  /\ req' \in [Request -> Handler] /\ InOrder(req'[r]) /\ Knows(r)'
         /\ OthersKept(r) /\ NamesHeldOnce'
<1>1. /\ TypeOK /\ InOrder(req[r]) /\ Knows(r) /\ NamesHeldOnce
      /\ UNCHANGED rows /\ tags' = tags
      /\ req[r].pc = "insert"
      /\ \A x \in Request \ {r} : Wanted(r) \notin req[x].made
  BY DEF IInv, HandlersOK, Insert, At, Waits, rows
<1>2. CASE Finish(r) BY <1>1, <1>2, EndEffect
<1>3. CASE Wanted(r) \notin tags /\ Resolve(r, {Wanted(r)})
  <2>1. /\ req' \in [Request -> Handler] /\ InOrder(req'[r])
        /\ req'[r].pc # "idle"
        /\ req'[r].photo = req[r].photo /\ req'[r].loaded = req[r].loaded
        /\ req'[r].list = req[r].list \cup {Wanted(r)}
        /\ req'[r].made = req[r].made \cup {Wanted(r)} /\ req'[r].alone = req[r].alone
        /\ \A x \in Request \ {r} : req'[x] = req[x]
    BY <1>1, <1>3, ResolveEffect
  <2>2. req'[r].list \subseteq tags \cup req'[r].made
    BY <1>1, <2>1 DEF Knows
  <2>3. Knows(r)' /\ OthersKept(r) BY <1>1, <2>1, <2>2, MoveEffect
  <2>4. /\ req'[r].made \cap tags = {}
        /\ \A x \in Request \ {r} : req'[r].made \cap req[x].made = {}
    BY <1>1, <1>3, <2>1 DEF NamesHeldOnce
  <2>5. NamesHeldOnce' BY <1>1, <2>1, <2>3, <2>4, NamesKept
  <2>6. QED BY <2>1, <2>3, <2>5
<1>4. QED BY <1>2, <1>3 DEF Insert

LEMMA CloudEffect ==
  ASSUME PhotoTagsAssumption, IInv, NEW r \in Request, Cloud(r)
  PROVE  /\ req' \in [Request -> Handler] /\ InOrder(req'[r]) /\ Knows(r)'
         /\ OthersKept(r) /\ NamesHeldOnce'
<1>1. /\ TypeOK /\ InOrder(req[r]) /\ Knows(r) /\ NamesHeldOnce
      /\ UNCHANGED rows /\ tags' = tags
  BY DEF IInv, HandlersOK, Cloud, rows
<1>2. CASE Finish(r) BY <1>1, <1>2, EndEffect
<1>3. CASE req' = [req EXCEPT ![r].pc = "save"]
  <2>1. req[r] \in Handler BY <1>1 DEF TypeOK
  <2>2. req' = [req EXCEPT ![r] = [req[r] EXCEPT !.pc = "save"]] BY <1>3
  <2>3. /\ [req[r] EXCEPT !.pc = "save"] \in Handler
        /\ req'[r] = [req[r] EXCEPT !.pc = "save"]
    BY <1>1, <2>1, <2>2 DEF TypeOK, Handler
  <2>4. req' \in [Request -> Handler] BY <1>1, <2>2, <2>3 DEF TypeOK
  <2>5. /\ req'[r].pc = "save" /\ req'[r].todo = req[r].todo
        /\ req'[r].photo = req[r].photo /\ req'[r].loaded = req[r].loaded
        /\ req'[r].list = req[r].list /\ req'[r].made = req[r].made
        /\ req'[r].alone = req[r].alone
        /\ \A x \in Request \ {r} : req'[x] = req[x]
    BY <1>1, <2>1, <2>2, <2>3 DEF TypeOK, Handler
  <2>6. InOrder(req'[r]) BY <1>1, <2>5 DEF InOrder
  <2>7. req'[r].list \subseteq tags \cup req'[r].made BY <1>1, <2>5 DEF Knows
  <2>8. Knows(r)' /\ OthersKept(r) BY <1>1, <2>5, <2>7, MoveEffect
  <2>9. /\ req'[r].made \cap tags = {}
        /\ \A x \in Request \ {r} : req'[r].made \cap req[x].made = {}
    BY <1>1, <2>5 DEF NamesHeldOnce
  <2>10. NamesHeldOnce' BY <1>1, <2>5, <2>8, <2>9, NamesKept
  <2>11. QED BY <2>4, <2>6, <2>8, <2>10
<1>4. QED BY <1>2, <1>3 DEF Cloud

-----------------------------------------------------------------------------
(* The commits                                                             *)

\* The names that were held are committed now.
LEMMA NamesCommitted ==
  ASSUME IInv, NEW r \in Request, OthersKept(r), tags' = tags \cup req[r].made,
         req'[r].made = {}
  PROVE  NamesHeldOnce'
<1>1. \A x \in Request \ {r} : req'[x].made = req[x].made /\ req'[x].pc = req[x].pc
  BY DEF OthersKept
<1>2. NamesHeldOnce BY DEF IInv
<1>3. \A x \in Request \ {r} : req[x].made \cap tags' = {}
  BY <1>2 DEF NamesHeldOnce
<1>4. QED BY <1>1, <1>2, <1>3 DEF NamesHeldOnce, At

LEMMA SaveUploadEffect ==
  ASSUME PhotoTagsAssumption, IInv, NEW r \in Request, SaveUpload(r)
  PROVE  /\ req' \in [Request -> Handler] /\ InOrder(req'[r]) /\ Knows(r)'
         /\ OthersKept(r) /\ NamesHeldOnce' /\ Steady(r) /\ RowsOK'
         /\ \A n \in tags' \ tags : \E p \in Photo : <<p, n>> \in link'
<1>1. TypeOK /\ InOrder(req[r]) /\ Knows(r) /\ LinksResolve /\ LimitHolds
  BY DEF IInv, HandlersOK
<1>2. PICK p \in Photo : /\ photo[p] = "free"
                         /\ photo' = [photo EXCEPT ![p] = "stored"]
                         /\ link' = link \cup ({p} \X req[r].list)
  BY DEF SaveUpload, FreePhotos
<1>3. tags' = tags \cup req[r].made /\ Finish(r) /\ mixed' = mixed /\ req[r].photo = NoPhoto
  BY DEF SaveUpload
<1>4. /\ req' \in [Request -> Handler] /\ req'[r] = Idle
      /\ Knows(r)' /\ InOrder(req'[r]) /\ OthersKept(r)
  BY <1>1, <1>3, FinishEffect
<1>5. NamesHeldOnce'
  <2>1. req'[r].made = {} BY <1>4 DEF Idle
  <2>2. QED BY <1>3, <1>4, <2>1, NamesCommitted
<1>6. /\ photo'[p] = "stored"
      /\ \A q \in Photo \ {p} : photo'[q] = photo[q]
      /\ photo' \in [Photo -> {"free", "stored", "deleted"}]
  BY <1>1, <1>2 DEF TypeOK
<1>7. /\ req[r].list \subseteq Name /\ req[r].made \subseteq Name
  BY <1>1 DEF TypeOK, Handler
<1>8. \A q \in Photo \ {p} : TagsOf(q)' = TagsOf(q) BY <1>2 DEF TagsOf
<1>9. TagsOf(p)' = req[r].list
  <2>1. \A n : <<p, n>> \notin link BY <1>1, <1>2 DEF LinksResolve, Stored
  <2>2. QED BY <1>2, <1>7, <2>1 DEF TagsOf
<1>10. Steady(r) BY <1>2, <1>3, <1>6, <1>8 DEF Steady, Stored
<1>11. LinksResolve'
  <2>1. SUFFICES ASSUME NEW pn \in link' PROVE pn[1] \in Stored' /\ pn[2] \in tags'
    BY DEF LinksResolve
  <2>2. CASE pn \in link
    <3>1. pn[1] \in Photo /\ photo[pn[1]] = "stored" /\ pn[2] \in tags
      BY <1>1, <2>2 DEF LinksResolve, Stored
    <3>2. QED BY <1>2, <1>3, <1>6, <3>1 DEF Stored
  <2>3. CASE pn \in {p} \X req[r].list BY <1>1, <1>3, <1>6, <2>3 DEF Knows, Stored
  <2>4. QED BY <1>2, <2>2, <2>3
<1>12. LimitHolds'
  <2>1. SUFFICES ASSUME NEW q \in Photo, q \in Stored', q \notin mixed'
                 PROVE  Cardinality(TagsOf(q)') <= MaxTags
    BY DEF LimitHolds, Stored, TagsOf
  <2>2. CASE q = p
    <3>1. /\ IsFiniteSet(req[r].list) /\ Len(req[r].todo) \in Nat
          /\ Cardinality(req[r].list) + Len(req[r].todo) <= MaxTags
      BY <1>1 DEF InOrder, TypeOK, Handler
    <3>2. Cardinality(req[r].list) \in Nat BY <3>1, FS_CardinalityType
    <3>3. Cardinality(req[r].list) <= MaxTags BY <3>1, <3>2 DEF PhotoTagsAssumption
    <3>4. TagsOf(q)' = req[r].list BY <1>9, <2>2 DEF TagsOf
    <3>5. QED BY <3>3, <3>4
  <2>3. CASE q # p
    <3>1. q \in Stored \ mixed /\ TagsOf(q)' = TagsOf(q)
      BY <1>3, <1>6, <1>8, <2>1, <2>3 DEF Stored
    <3>2. Cardinality(TagsOf(q)) <= MaxTags BY <1>1, <3>1 DEF LimitHolds
    <3>3. QED BY <3>1, <3>2
  <2>4. QED BY <2>2, <2>3
<1>13. RowsOK'
  <2>1. tags' \subseteq Name BY <1>1, <1>3, <1>7 DEF TypeOK
  <2>2. link' \subseteq Photo \X Name BY <1>1, <1>2, <1>7 DEF TypeOK
  <2>3. mixed' \subseteq Photo BY <1>1, <1>3 DEF TypeOK
  <2>4. QED BY <1>6, <1>11, <1>12, <2>1, <2>2, <2>3 DEF RowsOK
<1>14. \A n \in tags' \ tags : <<p, n>> \in link' BY <1>1, <1>2, <1>3 DEF InOrder
<1>15. QED BY <1>4, <1>5, <1>10, <1>13, <1>14

\* A photo that its replacement had to itself gets the tags that were asked for.
LEMMA SaveReplacementEffect ==
  ASSUME PhotoTagsAssumption, IInv, NEW r \in Request, SaveReplacement(r)
  PROVE  /\ req' \in [Request -> Handler] /\ InOrder(req'[r]) /\ Knows(r)'
         /\ OthersKept(r) /\ NamesHeldOnce' /\ Steady(r) /\ RowsOK'
         /\ \A n \in tags' \ tags : \E p \in Photo : <<p, n>> \in link'
         /\ \A p \in Stored : req[r].photo = p /\ req[r].alone
                                => TagsOf(p)' \in {TagsOf(p), req[r].list}
<1>1. TypeOK /\ InOrder(req[r]) /\ Knows(r) /\ LinksResolve /\ LimitHolds
  BY DEF IInv, HandlersOK
<1>2. PICK p : p = req[r].photo OBVIOUS
<1>3. /\ p \in Photo /\ Finish(r) /\ photo' = photo
      /\ req[r].list \subseteq Name /\ req[r].made \subseteq Name
      /\ req[r].loaded \subseteq Name
  BY <1>1, <1>2 DEF SaveReplacement, TypeOK, Handler
<1>4. /\ req' \in [Request -> Handler] /\ req'[r] = Idle
      /\ Knows(r)' /\ InOrder(req'[r]) /\ OthersKept(r)
  BY <1>1, <1>3, FinishEffect
<1>5. Stored' = Stored BY <1>3 DEF Stored
<1>6. CASE link' = link /\ tags' = tags /\ mixed' = mixed
  <2>1. UNCHANGED rows BY <1>3, <1>6 DEF rows
  <2>2. NamesHeldOnce' BY <1>3, <2>1, EndEffect
  <2>3. Steady(r) /\ RowsOK' BY <2>1, RowsKept
  <2>4. \A q \in Photo : TagsOf(q)' = TagsOf(q) BY <1>6 DEF TagsOf
  <2>5. QED BY <1>4, <1>6, <2>2, <2>3, <2>4 DEF Stored
<1>7. CASE /\ Added(req[r]) = {} \/ p \in Stored
           /\ link' = (link \ ({p} \X Dropped(req[r]))) \cup ({p} \X Added(req[r]))
           /\ tags' = tags \cup req[r].made
           /\ mixed' = IF req[r].alone THEN mixed \ {p} ELSE mixed \cup {p}
  <2>1. NamesHeldOnce'
    <3>1. req'[r].made = {} BY <1>4 DEF Idle
    <3>2. QED BY <1>4, <1>7, <3>1, NamesCommitted
  <2>2. \A q \in Photo \ {p} : TagsOf(q)' = TagsOf(q) BY <1>7 DEF TagsOf
  <2>3. Steady(r) BY <1>2, <1>3, <1>5, <1>7, <2>2 DEF Steady, Stored
  <2>4. LinksResolve'
    <3>1. SUFFICES ASSUME NEW pn \in link' PROVE pn[1] \in Stored' /\ pn[2] \in tags'
      BY DEF LinksResolve
    <3>2. CASE pn \in link BY <1>1, <1>5, <1>7, <3>2 DEF LinksResolve
    <3>3. CASE pn \in {p} \X Added(req[r])
      <4>1. pn[1] = p /\ pn[2] \in req[r].list /\ Added(req[r]) # {}
        BY <3>3 DEF Added
      <4>2. QED BY <1>1, <1>5, <1>7, <4>1 DEF Knows
    <3>4. QED BY <1>7, <3>2, <3>3
  <2>5. ASSUME req[r].alone, p \in Stored
        PROVE  TagsOf(p)' = req[r].list
    <3>1. TagsOf(p) = req[r].loaded BY <1>1, <1>2, <2>5 DEF Knows
    <3>2. TagsOf(p)' = (TagsOf(p) \ Dropped(req[r])) \cup Added(req[r])
      BY <1>3, <1>7 DEF TagsOf, Added
    <3>3. QED BY <3>1, <3>2 DEF Dropped, Added
  <2>6. LimitHolds'
    <3>1. SUFFICES ASSUME NEW q \in Photo, q \in Stored, q \notin mixed'
                   PROVE  Cardinality(TagsOf(q)') <= MaxTags
      BY <1>5 DEF LimitHolds, Stored, TagsOf
    <3>2. CASE q = p
      <4>1. req[r].alone BY <1>7, <3>1, <3>2
      <4>2. TagsOf(q)' = req[r].list BY <2>5, <3>1, <3>2, <4>1 DEF TagsOf
      <4>3. /\ IsFiniteSet(req[r].list) /\ Len(req[r].todo) \in Nat
            /\ Cardinality(req[r].list) + Len(req[r].todo) <= MaxTags
        BY <1>1 DEF InOrder, TypeOK, Handler
      <4>4. Cardinality(req[r].list) \in Nat BY <4>3, FS_CardinalityType
      <4>5. Cardinality(req[r].list) <= MaxTags BY <4>3, <4>4 DEF PhotoTagsAssumption
      <4>6. QED BY <4>2, <4>5
    <3>3. CASE q # p
      <4>1. q \in Stored \ mixed /\ TagsOf(q)' = TagsOf(q) BY <1>7, <2>2, <3>1, <3>3
      <4>2. Cardinality(TagsOf(q)) <= MaxTags BY <1>1, <4>1 DEF LimitHolds
      <4>3. QED BY <4>1, <4>2
    <3>4. QED BY <3>2, <3>3
  <2>7. RowsOK'
    <3>1. tags' \subseteq Name BY <1>1, <1>3, <1>7 DEF TypeOK
    <3>2. link' \subseteq Photo \X Name BY <1>1, <1>3, <1>7 DEF TypeOK, Added
    <3>3. mixed' \subseteq Photo BY <1>1, <1>3, <1>7 DEF TypeOK
    <3>4. photo' \in [Photo -> {"free", "stored", "deleted"}] BY <1>1, <1>3 DEF TypeOK
    <3>5. QED BY <2>4, <2>6, <3>1, <3>2, <3>3, <3>4 DEF RowsOK
  <2>8. \A n \in tags' \ tags : <<p, n>> \in link'
    <3>1. SUFFICES ASSUME NEW n \in tags' \ tags PROVE <<p, n>> \in link' OBVIOUS
    <3>2. n \in req[r].list /\ n \notin req[r].loaded BY <1>1, <1>7 DEF InOrder, Knows
    <3>3. QED BY <1>7, <3>2 DEF Added
  <2>9. QED BY <1>2, <1>3, <1>4, <2>1, <2>3, <2>5, <2>7, <2>8
<1>8. QED BY <1>2, <1>6, <1>7 DEF SaveReplacement

\* remove_photo() takes the links with the photo.
LEMMA RemoveEffect ==
  ASSUME PhotoTagsAssumption, IInv, NEW p \in Photo, Remove(p)
  PROVE  HandlersOK' /\ NamesHeldOnce' /\ RowsOK'
<1>1. TypeOK /\ HandlersOK /\ LinksResolve /\ LimitHolds /\ NamesHeldOnce
  BY DEF IInv
<1>2. /\ photo' = [photo EXCEPT ![p] = "deleted"] /\ photo[p] = "stored"
      /\ link' = {pn \in link : pn[1] # p}
      /\ tags' = tags /\ req' = req /\ mixed' = mixed
  BY DEF Remove, Stored
<1>3. /\ photo'[p] = "deleted" /\ \A q \in Photo \ {p} : photo'[q] = photo[q]
      /\ photo' \in [Photo -> {"free", "stored", "deleted"}]
  BY <1>1, <1>2 DEF TypeOK
<1>4. \A q \in Photo : q \in Stored' => q \in Stored \ {p} BY <1>2, <1>3 DEF Stored
<1>5. \A q \in Photo \ {p} : TagsOf(q)' = TagsOf(q) BY <1>2 DEF TagsOf
<1>6. HandlersOK'
  <2>1. SUFFICES ASSUME NEW x \in Request PROVE Knows(x)' /\ InOrder(req'[x])
    BY DEF HandlersOK
  <2>2. Knows(x) /\ InOrder(req[x]) BY <1>1 DEF HandlersOK
  <2>3. req[x].photo \in Photo \cup {NoPhoto} BY <1>1 DEF TypeOK, Handler
  <2>4. req[x].photo # NoPhoto => photo'[req[x].photo] # "free"
    BY <1>3, <2>2, <2>3 DEF Knows
  <2>5. ASSUME req[x].alone, NEW q, q = req[x].photo, q \in Stored'
        PROVE  req[x].loaded = TagsOf(q)'
    <3>1. q \in Photo BY <2>2, <2>5 DEF Knows
    <3>2. q \in Stored \ {p} BY <1>4, <2>5, <3>1
    <3>3. req[x].loaded = TagsOf(q) BY <2>2, <2>5, <3>2 DEF Knows
    <3>4. QED BY <1>5, <3>1, <3>2, <3>3
  <2>6. Knows(x)' BY <1>2, <2>2, <2>4, <2>5 DEF Knows, TagsOf
  <2>7. QED BY <1>2, <2>2, <2>6
<1>7. NamesHeldOnce' BY <1>1, <1>2 DEF NamesHeldOnce, At
<1>8. LinksResolve'
  <2>1. SUFFICES ASSUME NEW pn \in link' PROVE pn[1] \in Stored' /\ pn[2] \in tags'
    BY DEF LinksResolve
  <2>2. pn[1] \in Stored /\ pn[1] # p /\ pn[2] \in tags BY <1>1, <1>2 DEF LinksResolve
  <2>3. QED BY <1>2, <1>3, <2>2 DEF Stored
<1>9. LimitHolds'
  <2>1. SUFFICES ASSUME NEW q \in Photo, q \in Stored', q \notin mixed'
                 PROVE  Cardinality(TagsOf(q)') <= MaxTags
    BY DEF LimitHolds, Stored, TagsOf
  <2>2. q \in Stored \ mixed /\ TagsOf(q)' = TagsOf(q) BY <1>2, <1>4, <1>5, <2>1
  <2>3. Cardinality(TagsOf(q)) <= MaxTags BY <1>1, <2>2 DEF LimitHolds
  <2>4. QED BY <2>2, <2>3
<1>10. RowsOK' BY <1>1, <1>2, <1>3, <1>8, <1>9 DEF RowsOK, TypeOK
<1>11. QED BY <1>6, <1>7, <1>10

-----------------------------------------------------------------------------
(* Invariance                                                              *)

LEMMA ActsEffect ==
  ASSUME PhotoTagsAssumption, IInv, NEW r \in Request, Acts(r)
  PROVE  /\ req' \in [Request -> Handler] /\ InOrder(req'[r]) /\ Knows(r)'
         /\ OthersKept(r) /\ NamesHeldOnce' /\ Steady(r) /\ RowsOK'
<1>1. ASSUME UNCHANGED rows, req' \in [Request -> Handler], InOrder(req'[r]), Knows(r)',
             OthersKept(r), req'[r].made = {}, req'[r].pc # "idle"
      PROVE  NamesHeldOnce'
  BY <1>1, NamesKept DEF rows
<1>2. CASE \E t \in Sent : Upload(r, t)
  <2>1. PICK t \in Sent : Upload(r, t) BY <1>2
  <2>2. /\ req' \in [Request -> Handler] /\ InOrder(req'[r]) /\ Knows(r)'
        /\ OthersKept(r) /\ req'[r].made = {} /\ req'[r].pc # "idle" /\ UNCHANGED rows
    BY <2>1, UploadEffect
  <2>3. QED BY <1>1, <2>2, RowsKept
<1>3. CASE \E t \in Sent, p \in Photo : Replace(r, p, t)
  <2>1. PICK t \in Sent, p \in Photo : Replace(r, p, t) BY <1>3
  <2>2. /\ req' \in [Request -> Handler] /\ InOrder(req'[r]) /\ Knows(r)'
        /\ OthersKept(r) /\ req'[r].made = {} /\ req'[r].pc # "idle" /\ UNCHANGED rows
    BY <2>1, ReplaceEffect
  <2>3. QED BY <1>1, <2>2, RowsKept
<1>4. CASE Lookup(r)
  <2>1. UNCHANGED rows BY <1>4 DEF Lookup
  <2>2. QED BY <1>4, <2>1, LookupEffect, RowsKept
<1>5. CASE Insert(r)
  <2>1. UNCHANGED rows BY <1>5 DEF Insert
  <2>2. QED BY <1>5, <2>1, InsertEffect, RowsKept
<1>6. CASE Cloud(r)
  <2>1. UNCHANGED rows BY <1>6 DEF Cloud
  <2>2. QED BY <1>6, <2>1, CloudEffect, RowsKept
<1>7. CASE SaveUpload(r) BY <1>7, SaveUploadEffect
<1>8. CASE SaveReplacement(r) BY <1>8, SaveReplacementEffect
<1>9. CASE Finish(r) /\ UNCHANGED rows BY <1>9, EndEffect, RowsKept
<1>10. CASE UNCHANGED vars
  <2>1. UNCHANGED rows /\ req' = req BY <1>10 DEF vars, rows
  <2>2. TypeOK /\ Knows(r) /\ InOrder(req[r]) /\ NamesHeldOnce BY DEF IInv, HandlersOK
  <2>3. /\ req' \in [Request -> Handler] /\ InOrder(req'[r])
        /\ req'[r].list \subseteq tags \cup req'[r].made
    BY <2>1, <2>2 DEF TypeOK, Knows
  <2>4. Knows(r)' /\ OthersKept(r) BY <2>1, <2>3, MoveEffect
  <2>5. NamesHeldOnce' BY <2>1, <2>2 DEF NamesHeldOnce, At, rows
  <2>6. QED BY <2>1, <2>3, <2>4, <2>5, RowsKept
<1>11. QED
  BY <1>2, <1>3, <1>4, <1>5, <1>6, <1>7, <1>8, <1>9, <1>10
     DEF Acts, Step, Victim, Abort, Refuse

LEMMA InitOK == PhotoTagsAssumption /\ Init => IInv
<1> SUFFICES ASSUME PhotoTagsAssumption, Init PROVE IInv OBVIOUS
<1>1. TypeOK BY IdleType DEF Init, TypeOK
<1>2. \A r \in Request :
        /\ req[r] = Idle /\ req[r].pc = "idle" /\ req[r].list = {} /\ req[r].loaded = {}
        /\ req[r].made = {} /\ req[r].photo = NoPhoto /\ ~ req[r].alone
  BY DEF Init, Idle
<1>3. HandlersOK BY <1>2, IdleType DEF HandlersOK, Knows
<1>4. NamesHeldOnce BY <1>2 DEF NamesHeldOnce
<1>5. LinksResolve BY DEF Init, LinksResolve
<1>6. LimitHolds BY DEF Init, LimitHolds, Stored
<1>7. QED BY <1>1, <1>3, <1>4, <1>5, <1>6 DEF IInv

LEMMA NextOK == PhotoTagsAssumption /\ IInv /\ [Next]_vars => IInv'
<1> SUFFICES ASSUME PhotoTagsAssumption, IInv, [Next]_vars PROVE IInv' OBVIOUS
<1>1. ASSUME req' \in [Request -> Handler], RowsOK', HandlersOK', NamesHeldOnce'
      PROVE  IInv'
  BY <1>1 DEF IInv, TypeOK, RowsOK
<1>2. ASSUME NEW r \in Request, Acts(r) PROVE IInv'
  <2>1. /\ req' \in [Request -> Handler] /\ InOrder(req'[r]) /\ Knows(r)'
        /\ OthersKept(r) /\ NamesHeldOnce' /\ Steady(r) /\ RowsOK'
    BY <1>2, ActsEffect
  <2>2. HandlersOK' BY <2>1, HandlersKept
  <2>3. QED BY <1>1, <2>1, <2>2
<1>3. ASSUME NEW p \in Photo, Remove(p) PROVE IInv'
  <2>1. HandlersOK' /\ NamesHeldOnce' /\ RowsOK' BY <1>3, RemoveEffect
  <2>2. req' \in [Request -> Handler] BY <1>3 DEF Remove, IInv, TypeOK
  <2>3. QED BY <1>1, <2>1, <2>2
<1>4. CASE UNCHANGED vars
  <2>1. TypeOK' BY <1>4 DEF IInv, TypeOK, vars
  <2>2. HandlersOK'
    BY <1>4 DEF IInv, HandlersOK, Knows, InOrder, Stored, TagsOf, vars
  <2>3. NamesHeldOnce' BY <1>4 DEF IInv, NamesHeldOnce, At, vars
  <2>4. LinksResolve' BY <1>4 DEF IInv, LinksResolve, Stored, vars
  <2>5. LimitHolds' BY <1>4 DEF IInv, LimitHolds, Stored, TagsOf, vars
  <2>6. QED BY <2>1, <2>2, <2>3, <2>4, <2>5 DEF IInv
<1>5. QED BY <1>2, <1>3, <1>4 DEF Next, Acts

LEMMA Invariance == Spec => []IInv
<1>1. PhotoTagsAssumption BY PhotoTagsAssumption
<1>2. QED BY <1>1, InitOK, NextOK, PTL DEF Spec

-----------------------------------------------------------------------------
(* The theorems                                                            *)

\* The tables and the handlers keep their types.
THEOREM TypeCorrect == Spec => []TypeOK
<1>1. IInv => TypeOK BY DEF IInv
<1>2. QED BY <1>1, Invariance, PTL

\* However many requests create, assign and delete at once, and wherever they
\* end, a link names a stored photo and a committed tag.
THEOREM LinksAlwaysResolve == Spec => []LinksResolve
<1>1. IInv => LinksResolve BY DEF IInv
<1>2. QED BY <1>1, Invariance, PTL

\* get_or_create_tag(): a name is in the table or held by one open transaction.
THEOREM NamesAlwaysHeldOnce == Spec => []NamesHeldOnce
<1>1. IInv => NamesHeldOnce BY DEF IInv
<1>2. QED BY <1>1, Invariance, PTL

\* MAX_NUMBER_TAGS holds for every photo whose replacements did not overlap.
THEOREM LimitAlwaysHolds == Spec => []LimitHolds
<1>1. IInv => LimitHolds BY DEF IInv
<1>2. QED BY <1>1, Invariance, PTL

\* A commit that brings a new tag brings a photo that carries it.
THEOREM NewTagsAlwaysUsed == Spec => NewTagsAreUsed
<1>1. PhotoTagsAssumption /\ IInv /\ [Next]_vars
        => [\A n \in tags' \ tags : \E p \in Photo : <<p, n>> \in link']_vars
  <2> SUFFICES ASSUME PhotoTagsAssumption, IInv, Next
               PROVE  \A n \in tags' \ tags : \E p \in Photo : <<p, n>> \in link'
    OBVIOUS
  <2>1. CASE tags' = tags BY <2>1
  <2>2. ASSUME NEW r \in Request, SaveUpload(r)
        PROVE  \A n \in tags' \ tags : \E p \in Photo : <<p, n>> \in link'
    BY <2>2, SaveUploadEffect
  <2>3. ASSUME NEW r \in Request, SaveReplacement(r)
        PROVE  \A n \in tags' \ tags : \E p \in Photo : <<p, n>> \in link'
    BY <2>3, SaveReplacementEffect
  <2>4. QED
    BY <2>1, <2>2, <2>3
       DEF Next, Step, Upload, Replace, Lookup, Insert, Cloud, Victim, Abort, Refuse,
           Remove, rows, vars
<1>2. PhotoTagsAssumption BY PhotoTagsAssumption
<1>3. QED BY <1>1, <1>2, Invariance, PTL DEF NewTagsAreUsed, Spec

\* Whatever the others do, a replacement that had its photo to itself leaves the
\* tags it was given or none of its work.
THEOREM LoneReplacementAlwaysExact == Spec => LoneReplacementIsExact
<1> DEFINE Exact ==
      \A r \in Request, p \in Stored :
        At(r, "save") /\ req[r].photo = p /\ req[r].alone /\ ~ At(r, "save")'
          => TagsOf(p)' \in {TagsOf(p), req[r].list}
<1>1. PhotoTagsAssumption /\ IInv /\ [Next]_vars => [Exact]_vars
  <2> SUFFICES ASSUME PhotoTagsAssumption, IInv, Next,
                      NEW r \in Request, NEW p \in Stored,
                      At(r, "save"), req[r].photo = p, req[r].alone, ~ At(r, "save")'
               PROVE  TagsOf(p)' \in {TagsOf(p), req[r].list}
    OBVIOUS
  <2>1. p \in Photo /\ p # NoPhoto BY DEF Stored, PhotoTagsAssumption
  <2>2. CASE link' = link BY <2>2 DEF TagsOf
  <2>3. CASE SaveReplacement(r) BY <2>3, SaveReplacementEffect
  <2>4. ASSUME NEW x \in Request \ {r}, Acts(x) PROVE FALSE
    <3>1. OthersKept(x) BY <2>4, ActsEffect
    <3>2. req'[r].pc = req[r].pc BY <2>4, <3>1 DEF OthersKept
    <3>3. QED BY <3>2 DEF At
  <2>5. ASSUME NEW q \in Photo, Remove(q) PROVE FALSE
    BY <2>5 DEF Remove, At
  <2>6. ASSUME Acts(r) PROVE link' = link \/ SaveReplacement(r)
    BY <2>1, <2>6
       DEF Acts, Step, Upload, Replace, Lookup, Insert, Cloud, SaveUpload, Victim, Abort,
           Refuse, rows, vars
  <2>7. QED BY <2>2, <2>3, <2>4, <2>5, <2>6 DEF Next, Acts
<1>2. PhotoTagsAssumption BY PhotoTagsAssumption
<1>3. QED BY <1>1, <1>2, Invariance, PTL DEF LoneReplacementIsExact, Spec
\* Handlers that wait for nobody but one another: a smallest set of them has no
\* member that the others could do without, so everyone in it is waited for.
LEMMA ClosedWaitsDeadlock ==
  ASSUME NEW S, IsFiniteSet(S), S # {}, \A x \in S : \E y \in S : Waits(x, y)
  PROVE  \E C \in SUBSET S : Deadlocked(C)
<1> DEFINE Closed == {C \in SUBSET S : C # {} /\ \A x \in C : \E y \in C : Waits(x, y)}
<1>1. S \in Closed OBVIOUS
<1>2. IsWellFoundedOn(StrictSubsetOrdering(S), SUBSET S)
  BY FS_StrictSubsetOrderingWellFounded, FS_FiniteSubsetsOfFinite
<1>3. PICK C \in Closed : \A U \in Closed : ~ (<<U, C>> \in StrictSubsetOrdering(S))
  <2>1. Closed \subseteq SUBSET S /\ Closed # {} BY <1>1
  <2> HIDE DEF Closed
  <2>2. QED BY ONLY <1>2, <2>1, WFMin
<1>4. ASSUME NEW z \in C, \A x \in C : ~ Waits(x, z) PROVE FALSE
  <2>1. PICK y \in C : Waits(z, y) BY <1>3, <1>4
  <2>2. C \ {z} \in Closed
    <3>1. y \in C \ {z} BY <1>4, <2>1
    <3>2. \A x \in C \ {z} : \E w \in C \ {z} : Waits(x, w) BY <1>3, <1>4
    <3>3. QED BY <1>3, <3>1, <3>2
  <2>3. <<C \ {z}, C>> \in StrictSubsetOrdering(S)
    BY <1>3, <1>4 DEF StrictSubsetOrdering
  <2>4. QED BY <1>3, <2>2, <2>3
<1>5. Deadlocked(C) BY <1>3, <1>4 DEF Deadlocked
<1>6. QED BY <1>3, <1>5

\* Whatever names requests create in whatever orders, nobody waits for ever: a
\* name is held by a request in flight, and requests that all wait contain a
\* cycle, of which PostgreSQL ends one.  (There are finitely many requests.)
THEOREM NobodyEverStalls ==
  ASSUME IsFiniteSet(Request)
  PROVE  Spec => []NobodyStalls
<1>1. IInv => NobodyStalls
  <2> SUFFICES ASSUME IInv, NEW S \in SUBSET Waiting, S # {}
               PROVE  \/ \E x \in S, y \in Request \ S : Waits(x, y) /\ ~ At(y, "idle")
                      \/ \E C \in SUBSET S : Deadlocked(C)
    BY DEF NobodyStalls
  <2>1. IsFiniteSet(S) BY FS_Subset DEF Waiting
  <2>2. \A x, y \in Request : Waits(x, y) => ~ At(y, "idle")
    BY DEF IInv, NamesHeldOnce, Waits
  <2>3. CASE \A x \in S : \E y \in S : Waits(x, y)
    BY <2>1, <2>3, ClosedWaitsDeadlock
  <2>4. ASSUME NEW x \in S, \A y \in S : ~ Waits(x, y)
        PROVE  \E y \in Request \ S : Waits(x, y) /\ ~ At(y, "idle")
    <3>1. PICK y \in Request : Waits(x, y) BY DEF Waiting
    <3>2. QED BY <2>2, <2>4, <3>1 DEF Waiting
  <2>5. QED BY <2>3, <2>4
<1>2. QED BY <1>1, Invariance, PTL
=============================================================================
