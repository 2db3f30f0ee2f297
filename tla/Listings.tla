------------------------------ MODULE Listings ------------------------------
(***************************************************************************)
(* The five paginated listings: the photos of a user, the search, the      *)
(* accounts, and the comments and ratings of a photo.  A request checks    *)
(* that the parent is there, selects one page by offset and limit, reads   *)
(* figures for its rows, and counts all rows, each in a statement of its   *)
(* own with a snapshot of its own (READ COMMITTED).                        *)
(*                                                                         *)
(* A client walks through the pages while others insert, change and remove *)
(* rows: what it was shown can be judged only for the walk as a whole.     *)
(* `table` holds the rows of the listing that is walked.                   *)
(***************************************************************************)
EXTENDS Search

CONSTANTS Queries,       \* what clients ask for
          PerPage,       \* the sizes of a page
          MaxWeight,     \* bound: the tags and ratings in the table
          MaxSearched,   \* bound: those in a table that is being searched
          MaxDisturbed   \* bound: the rows that come or go during a walk

ASSUME ListingsAssumption ==
  /\ Queries \subseteq Query /\ Queries # {}
  /\ PerPage \subseteq Nat \ {0} /\ PerPage # {}
  /\ MaxWeight \in Nat /\ MaxSearched \in Nat /\ MaxDisturbed \in Nat

VARIABLES table,    \* the rows
          parent,   \* whether the user, or the photo, of the rows is there
          walk      \* the client's walk and, as history, what happened meanwhile

vars == <<table, parent, walk>>

-----------------------------------------------------------------------------
(* The rows of a listing and their order                                   *)

Listed(tb, q) == IF q.of = "search" THEN Matches(tb, q) ELSE Rows(tb)
Total(tb, q) == IF q.of = "search" THEN Counted(tb, q) ELSE Cardinality(Rows(tb))

\* get_photos_by_user_id(): created_at DESC, id DESC.
PhotoOrder(tb, i, j) == \/ Newer(tb[i], tb[j])
                        \/ tb[i].created = tb[j].created /\ i > j

\* get_all_comments_by_photo_id(): created_at DESC.
CommentOrder(tb, i, j) == Newer(tb[i], tb[j])

\* Whether the ORDER BY puts i before j; accounts and ratings have none.
Before(tb, q, i, j) == \/ q.of = "photos" /\ PhotoOrder(tb, i, j)
                       \/ q.of = "search" /\ FoundOrder(tb[i], tb[j], q)
                       \/ q.of = "comments" /\ CommentOrder(tb, i, j)

\* The orders in which a statement may return its rows: the ORDER BY leaves
\* open, at every statement anew, how ties are broken.
Positions(tb, q) ==
  LET S == Listed(tb, q)
  IN {pos \in [S -> 1..Cardinality(S)] :
        \A i, j \in S : /\ i # j => pos[i] # pos[j]
                        /\ Before(tb, q, i, j) => pos[i] < pos[j]}

\* Whether it leaves nothing open.
Ordered(tb, q) ==
  LET S == Listed(tb, q)
  IN /\ \A i, j \in S : i # j => Before(tb, q, i, j) \/ Before(tb, q, j, i)
     /\ \A i \in S : ~ Before(tb, q, i, i)
     /\ \A i, j, k \in S : Before(tb, q, i, j) /\ Before(tb, q, j, k) => Before(tb, q, i, k)

-----------------------------------------------------------------------------
(* Pages                                                                   *)

\* Variant of Offset that takes pages for rows.
OffsetInPages(page, per) == page - 1

\* Where a page begins.
Offset(page, per) == (page - 1) * per

\* OFFSET and LIMIT.
Page(pos, page, per) ==
  {i \in DOMAIN pos : Offset(page, per) < pos[i] /\ pos[i] <= Offset(page, per) + per}

\* Variant of TotalPages that rounds down.
TotalPagesFloor(total, per) == total \div per

\* math.ceil(total / per_page), or 0.
TotalPages(total, per) == IF total = 0 THEN 0 ELSE (total + per - 1) \div per

-----------------------------------------------------------------------------
(* State                                                                   *)

\* `page` is asked for next; `shown` what the pages so far held.  History:
\* `steady` are the rows listed from the start that stayed where they were,
\* `gone` and `come` count rows that left or entered the listing or moved in
\* it, `repeats` rows shown again, and `sure` says that its order left nothing
\* open so far.
Walk == [pc : {"idle", "check", "select", "count", "done"}, query : Queries,
         per : PerPage, page : Nat \ {0}, shown : SUBSET Id, steady : SUBSET Id,
         gone : Nat, come : Nat, repeats : Nat, sure : BOOLEAN]

TypeOK == /\ table \in Tables
          /\ parent \in BOOLEAN
          /\ walk \in Walk

NoWalk == [pc |-> "idle", query |-> CHOOSE q \in Queries : TRUE,
           per |-> CHOOSE n \in PerPage : TRUE, page |-> 1, shown |-> {}, steady |-> {},
           gone |-> 0, come |-> 0, repeats |-> 0, sure |-> TRUE]

Init == /\ table = [i \in Id |-> Fresh]
        /\ parent = TRUE
        /\ walk = NoWalk

Weight(tb) == MapThenSumSet(LAMBDA i : Cardinality(tb[i].tags) + Cardinality(Raters(tb[i])),
                            Rows(tb))

At(pc) == walk.pc = pc
Goto(pc) == walk' = [walk EXCEPT !.pc = pc]
Stop == walk' = NoWalk
Under(of) == walk.query.of \in of

-----------------------------------------------------------------------------
(* The client's requests                                                   *)

\* Where a request starts: the accounts and the search have no parent.
First(q) == IF q.of \in {"users", "search"} THEN "select" ELSE "check"

\* The other listings read no tags and no stars: they are walked over tables
\* that have none.
MostWeight(q) == IF q.of = "search" THEN MaxSearched ELSE 0

Begin(q, per) ==
  /\ At("idle") /\ Weight(table) <= MostWeight(q)
  /\ q.of = "search" => Sound(q)
  /\ walk' = [NoWalk EXCEPT !.pc = First(q), !.query = q, !.per = per,
                            !.steady = Listed(table, q), !.sure = Ordered(table, q)]
  /\ UNCHANGED <<table, parent>>

\* The user, or the photo, is looked up: 404 when there is none.
Check == /\ At("check")
         /\ IF parent THEN Goto("select") ELSE Stop
         /\ UNCHANGED <<table, parent>>

\* The statement that selects a page; the figures are read after it.
Select ==
  /\ At("select")
  /\ \E pos \in Positions(table, walk.query) :
       LET items == Page(pos, walk.page, walk.per)
       IN walk' = [walk EXCEPT !.pc = "count", !.shown = @ \cup items,
                               !.repeats = @ + Cardinality(items \cap walk.shown)]
  /\ UNCHANGED <<table, parent>>

\* The total, and the response; the client asks on while there are pages.
Count ==
  LET more == walk.page < TotalPages(Total(table, walk.query), walk.per)
  IN /\ At("count")
     /\ walk' = [walk EXCEPT !.pc = IF more THEN First(walk.query) ELSE "done",
                             !.page = IF more THEN @ + 1 ELSE @]
     /\ UNCHANGED <<table, parent>>

\* GET /photos/user/{user_id}
ListPhotos == Under({"photos"}) /\ (Check \/ Select \/ Count)

\* GET /photos
SearchPhotos == Under({"search"}) /\ (Select \/ Count)

\* GET /users/all
ListUsers == Under({"users"}) /\ (Select \/ Count)

\* GET /photos/{photo_id}/comments
ListComments == Under({"comments"}) /\ (Check \/ Select \/ Count)

\* GET /photos/{photo_id}/ratings
ListRatings == Under({"ratings"}) /\ (Check \/ Select \/ Count)

\* The client is done, gives up, or gets no answer.
Leave == ~ At("idle") /\ Stop /\ UNCHANGED <<table, parent>>

-----------------------------------------------------------------------------
(* The writers                                                             *)

Walking == walk.pc \in {"check", "select", "count"}

\* Row i was listed, and is, and changes its place relative to another row.
Moves(old, new, q, i) ==
  LET S == Listed(old, q) \cap Listed(new, q)
  IN /\ i \in S
     /\ \E j \in S \ {i} : ~ /\ Before(new, q, i, j) <=> Before(old, q, i, j)
                             /\ Before(new, q, j, i) <=> Before(old, q, j, i)

\* Row i leaves the listing, or its place in it; or comes into one.
Goes(old, new, q, i) ==
  i \in Listed(old, q) /\ (i \notin Listed(new, q) \/ Moves(old, new, q, i))
Comes(old, new, q, i) == Goes(new, old, q, i)

\* What becomes of the walk when row i of the table changes.
Noted(new, i) ==
  LET q == walk.query
      goes == Goes(table, new, q, i)
  IN [walk EXCEPT
        !.steady = IF goes THEN @ \ {i} ELSE @,
        !.gone = IF goes THEN @ + 1 ELSE @,
        !.come = IF Comes(table, new, q, i) THEN @ + 1 ELSE @,
        !.sure = @ /\ Ordered(new, q)]

\* (When the walk is done, it is judged before the next write.)
Write(i, row) ==
  LET tb == [table EXCEPT ![i] = row]
  IN /\ ~ At("done")
     /\ Weight(tb) <= IF Walking THEN MostWeight(walk.query) ELSE MaxWeight
     /\ Walking => walk.gone + walk.come < MaxDisturbed
     /\ table' = tb
     /\ walk' = IF Walking THEN Noted(tb, i) ELSE walk
     /\ UNCHANGED parent

\* created_at is the time at which the transaction began, which may have lasted
\* longer than others: a new row may come anywhere in the order.
Add(i) == /\ table[i] = Fresh /\ parent
          /\ \E c \in Time, T \in SUBSET Tag :
               Write(i, [created |-> c, tags |-> T, stars |-> [w \in Rater |-> 0]])

\* Accounts are never removed.
Remove(i) == /\ i \in Rows(table)
             /\ Walking => walk.query.of # "users"
             /\ Write(i, Removed)

\* Variant of Rate that adds a second rating to the first.
RateAgain(i) == /\ i \in Rows(table)
                /\ \E w \in Rater, s \in Star : Write(i, [table[i] EXCEPT !.stars[w] = @ + s])

\* A rating is given once, and taken back by staff.
Rate(i) == /\ i \in Rows(table)
           /\ \E w \in Rater, s \in Star :
                \/ table[i].stars[w] = 0 /\ Write(i, [table[i] EXCEPT !.stars[w] = s])
                \/ table[i].stars[w] = s /\ Write(i, [table[i] EXCEPT !.stars[w] = 0])

Retag(i) == /\ i \in Rows(table)
            /\ \E T \in SUBSET Tag : Write(i, [table[i] EXCEPT !.tags = T])

\* The photo is removed, and with it its ratings and the comments that came in
\* since the removal looked for them (Photos has it in detail: one that it sees
\* makes it fail).
RemoveParent ==
  /\ parent /\ Walking /\ Under({"ratings", "comments"})
  /\ parent' = FALSE
  /\ table' = [i \in Id |-> IF i \in Rows(table) THEN Removed ELSE table[i]]
  /\ walk' = [walk EXCEPT !.steady = {}, !.gone = @ + Cardinality(Rows(table))]

Next == \/ \E q \in Queries, per \in PerPage : Begin(q, per)
        \/ ListPhotos \/ SearchPhotos \/ ListUsers \/ ListComments \/ ListRatings
        \/ Leave
        \/ \E i \in Id : Add(i) \/ Remove(i) \/ Rate(i) \/ Retag(i)
        \/ RemoveParent

Spec == Init /\ [][Next]_vars

-----------------------------------------------------------------------------
(* Properties                                                              *)

\* The joins of _build_filtered_photos_stmt() fan out: a photo with two tags
\* and two ratings becomes four rows.  Still the page and the total are those
\* of the photos that match, and they are ordered by the averages of their own
\* ratings.
SearchIsExact ==
  \A q \in Queries : q.of = "search" =>
    /\ Matches(table, q) = Wanted(table, q)
    /\ Counted(table, q) = Cardinality(Wanted(table, q))
    /\ \A i \in Matches(table, q) : Equal(Average(table[i], q), PlainAverage(table[i]))
    /\ \A i, j \in Matches(table, q) : Less(Average(table[i], q), Average(table[j], q))
                                        <=> Less(PlainAverage(table[i]), PlainAverage(table[j]))

\* The order of the photos of a user is fixed by their keys; of another listing
\* it was fixed if no two of its rows were tied during the walk.
Fixed == walk.query.of = "photos" \/ walk.sure

\* Wherever rows are inserted and whichever are removed between two statements,
\* a client that asked for page after page has missed no more of the rows that
\* were there throughout than there were rows that left or moved.
MissedArePaidFor ==
  At("done") /\ Fixed => Cardinality(walk.steady \ walk.shown) <= walk.gone

\* And it was shown no more rows again than there were rows that came or moved.
RepeatsArePaidFor == Fixed => walk.repeats <= walk.come
=============================================================================
