# Photo Share REST API: a TLA+ verification project

The program is an asynchronous FastAPI service. A worker process runs one event
loop; every request is a coroutine that gives up control at each `await` of a
database, Redis or Cloudinary round trip. PostgreSQL (READ COMMITTED), Redis and
Cloudinary are shared by all workers and share no transaction with one another.
One module models one part of that, with one action per round trip.

Paths below are relative to `src/src/` of the repository.

## 1. Inventory

| Component | State | Operations | Interacts with |
|---|---|---|---|
| Sessions and access control (`routes/auth.py`, `services/auth.py`, `services/role.py`, `repository/auth.py`) | table `user_sessions` (user, refresh hash, access jti), tokens held by clients | sign-in, refresh, bearer check and role gate, logout, logout from all devices, block and unblock with the purge | reads `users`, writes Redis |
| Access-token blacklist (`services/token_blacklist.py`, `services/redis_client.py`) | one Redis key per revoked jti with a TTL | add, look up | read in front of every protected route |
| Accounts and user management (`repository/user.py`, `routes/user.py`, `services/user.py`) | table `users` (email, username, role, confirmed, blocked) | sign-up, confirmation and its resending, change of role, change of the blocked flag | e-mail task; the session checks |
| Password reset (`routes/auth.py`, `repository/auth.py`, `scripts/cleanup_password_reset_tokens.py`) | table `password_reset_tokens`, one row per account; `users.password` | request, verify, confirm, scheduled cleanup | e-mail task; the cleanup job is another process |
| Photos (`routes/photo.py`, `services/photo.py`, `repository/photo.py`) | table `photos`, images in Cloudinary | upload, delete, describe | Cloudinary, comments, ratings, tags |
| Comments (`routes/comment.py`, `repository/comment.py`) | table `comments`, FK to photo and user | write, edit, remove, list | deletion of the photo |
| Ratings (`routes/photo_rating.py`, `repository/photo_rating.py`) | table `photo_ratings`, unique (user, photo) | rate, remove, list, average | deletion of the photo |
| Tags (`services/photo.py`, `repository/photo.py`) | tables `tags` (unique name) and `photo_tags` | get or create, replace a photo's tags | upload, photos |
| Transformations (`routes/photo.py`, `services/photo.py`) | table `photo_transformations` (unique URL), QR images in Cloudinary | preview, save, list | Cloudinary, photos |
| Listings and search (`repository/photo.py`, `routes/*.py`) | none on the server; a client's walk through the pages | filter, sort, page, count, each statement with a snapshot of its own | all tables |
| Profile and avatar (`routes/user.py`) | `users` columns, avatar in Cloudinary | read, update | Cloudinary |
| E-mail (`services/email.py`) | none | a background task after the response; errors are swallowed | accounts, password reset |
| Rate limiters, settings, handlers, middleware, migrations | buckets in Redis; constants | refuse, format, set up | all routes |

Hard behaviours, each listed under `hazards` in `PROJECT.json` at the line where it bites:

* **Interleaving at `await`.** A handler reads a row, awaits, and writes by
  primary key. With `expire_on_commit=False` and an identity map per session it
  acts on the object it loaded first; a second SELECT in the same session does
  not refresh it.
* **Partial failure.** Several handlers commit twice (password, then mark; flag,
  then purge) or change two stores (image, then row).
* **Stale rows.** An UPDATE by id of a deleted row raises `StaleDataError`; a
  DELETE of one only warns; an UPDATE writes only the columns whose value
  differs from the one loaded.
* **Time.** Tokens expire while they are in use, Redis keys lapse within the
  last second, Redis has no volume and forgets everything at a restart.
* **A second process.** The cleanup job deletes rows under a running request.
* **Replaced images.** A QR code and an avatar are put under a public id that may
  be taken already, before the row that refers to them is written.
* **Moving pages.** Offsets are counted anew in every statement, while rows come
  and go.

What makes each component correct:

* Sessions: nothing that was rotated away, logged out or purged authorises again;
  a block leaves nothing of the account behind; each row belongs to the account
  its token names.
* Accounts: there is always an administrator; no stale check touches one.
* Password reset: a link changes one password once; the latest link works.
* Photos: what hangs on a photo goes with it; a row and its image come and go
  together, or a named failure explains the difference.
* Transformations and avatars: what a row refers to is what was put for it.
* Listings: the search finds, counts and averages each photo once however the
  joins multiply its rows; a client that walks through all pages sees every row
  once, except as many as moved under it.

## 2. Modules

| Module | Models | Checked by | Proofs |
|---|---|---|---|
| `Credentials` | what the session machinery promises: pairs are granted, exchanged, revoked, and never live again | refinement in `sessions_race` | refinement theorem |
| `Sessions` | `user_sessions`, blacklist, `users.blocked`, tokens and their age, the handlers of sign-in, refresh, bearer check, both logouts, block and unblock | `MCSessions` | `SessionsProofs` |
| `Accounts` | `users`, the confirmation mail, the handlers of sign-up, confirmation, role and blocked flag | `MCAccounts` | `AccountsProofs` |
| `ResetLinks` | what reset by e-mail promises: a link is good until used, replaced or out of time, and never again; an account has one; only a link that was good when presented changes a password | refinement in `reset_race` | refinement theorem |
| `PasswordReset` | `password_reset_tokens`, the reset mail, the handlers of request and confirmation, the cleanup job | `MCPasswordReset` | `PasswordResetProofs` |
| `Gallery` | what photos promise: the image before the row, at both ends of its life; what hangs on a row goes with it; nothing comes back | refinement in `photos_race` | refinement theorem |
| `Photos` | `photos`, images, `comments`, `photo_ratings`, and the handlers that write them | `MCPhotos` | `PhotosProofs` |
| `PhotoTags` | `tags`, `photo_tags`, normalisation, the open transactions of uploads and replacements | `MCPhotoTags` | `PhotoTagsProofs` |
| `Images` | `photo_transformations`, QR codes and avatars in Cloudinary, `users.avatar` and `users.display_name`, the handlers that save a transformation and update a profile | `MCImages` | `ImagesProofs` |
| `Search` | the statement of `GET /photos` as pure operators: joins, groups, filters, average, order, and what it should find | with `Listings` | `SearchProofs` |
| `Listings` | the five paginated listings, a client that walks through one, and the writers of its rows | `MCListings` | `ListingsProofs` |

**How state and actions correspond to the code.** A table is a function from
primary keys to rows with a `status` (`free`, `live` or `stored`, `deleted`): a
key is never used again, as with a sequence. `req` holds the handlers in flight;
`req[r].pc` names the next round trip and the other fields are the local
variables that survive an `await`. The first round trip of a request and its
guards are the action that starts it (`SignInLookup`, `Ask`, `Delete`, ...);
every later one is an action of `Step`. A statement and the commit after it are
one action: nothing a transaction wrote is visible before it commits, and in
these handlers a transaction writes in one statement. Only tags are written
earlier than they are committed: in `PhotoTags` a handler keeps the names its
transaction has inserted (`made`), whoever inserts one of them waits (`Waits`),
and `Victim` is PostgreSQL ending one transaction of a waiting cycle. `Finish` is the response. `Refuse` is a
request its first check turns away. `Abort` ends a handler between two round
trips: an error of the database or Redis answered with 500 and rolled back by
`get_session()`, or the process stopping. Variables marked *history* are read by
properties only: which logouts completed (`out`), whose keys a restart forgot
(`forgotten`), whose purge an error cut short (`lost`), whose confirmations were
answered (`retired`), which deletions failed half way (`torn`), which photos had
overlapping replacements of tags (`mixed`, and `alone` of a handler), how many QR
codes were put in a second (`puts`), whose uploads of an avatar overlapped or
failed half way (`unsure`), and
`serial`, true until two requests have overlapped or one was cut short.

**Abstractions.** A token pair is one value: hash, jti and claims are functions
of it. Passwords, names, descriptions and values of ratings are left out or
reduced to a bit. The clock is an order of ages of a token: `valid`, `closing`
(the second of `exp`, in which the decoder still accepts the token and
`get_token_ttl()` is 0), `accessExpired`, `expired`. Ids, tokens and rows are
finite sets; a request that needs one starts only if one is left for it, so that
no handler is stuck for a reason the program does not have. The deadlock check
is on in every run, but says little: a free slot can always refuse a request, so
it excludes only that all handlers are stuck at once. Where handlers do wait for
one another, on the name of a tag, `NamesHeldOnce` says for whom and `NobodyStalls`
that it does not last.

`Listings` differs from the others in having one actor that is watched, the
client, and writers without steps: each of them changes one row in one commit,
anywhere in the order, since `created_at` is when its transaction began. A page
judged alone shows nothing, so the walk keeps, as history, the rows listed from
its start that stayed in place (`steady`) and the numbers of those that left,
came or moved (`gone`, `come`). A listing ordered by keys that tie, or by none,
may be returned differently by each statement (`Positions`); `sure` says that
this did not arise. The other listings than the search read no tags and no
ratings, so they are walked over tables without. In `Search` a text filter, a
filter on the author and one on the description select rows as the one on the
date does, and are left out; a photo's rows after the joins are pairs of a
rating and a tag, and averages are fractions.

In `Images` a link is a function of the photo and of the options that the
transformation passes on, so that two bodies that differ in `expand` or
`blur_mode` alone have one link, and the clock is a number of seconds.

The modules overlap only in what they read: `Sessions` treats all accounts as
existing and confirmed, `Accounts` starts a management request after its bearer
check, `PasswordReset` and `Photos` after theirs, and no route deletes an
account.

## 3. Runs

| Run | Bounds | Shows |
|---|---|---|
| `sessions_race` | 2 accounts, 2 rows, 3 pairs, 2 handlers, all operations | Rows stay consistent with the tokens they accept (`TableConsistent`); a handler waits on its caller's row (`CallerOwnsRow`); only a token that a row accepted when the request arrived authorises (`OnlyLiveCredentialsAct`); spent pairs stay so; the module implements `Credentials`; while requests do not overlap, a logout deletes the row that authorised it and a rotation replaces the pair presented |
| `sessions_clock` | 1 account, 2 rows, 2 pairs, 2 handlers, tokens age, keys lapse, Redis restarts | a logged-out access token stays out until its last second, unless a restart forgot it (`LoggedOutRejected`) |
| `sessions_live` | 2 accounts, 2 rows, 2 pairs, 2 handlers, errors between round trips, fairness | what a block leaves behind is a racing sign-in's row or what an aborted purge left (`PurgeComplete`); every other block reaches its purge (`BlockedIsPurged`) |
| `accounts_race` | 2 accounts, 3 handlers, errors, lost mail | there is always an administrator; its role and flag are never touched; a manager has its rights at the UPDATE |
| `accounts_two_admins` | 2 handlers | *violated*: `OneFirstAdmin`, by two sign-ups that both find the table empty |
| `reset_race` | 2 accounts, 3 tokens, 3 rows, 2 handlers, errors, lost mail, cleanup and expiry at any time | the module implements `ResetLinks`: an answered confirmation leaves its link dead, no dead link revives, an account has one that works (`ImplementsLinks`); rows do not cross accounts; while requests do not overlap links are one-time, a fresh one is unused, and the latest one works |
| `photos_race` | 2 accounts (one administrator), 2 photos, 1 comment, 2 handlers, errors, failing Cloudinary calls | the module implements `Gallery` (`ImplementsGallery`); comments and ratings have their photo; a row without its image is explained by a deletion that runs or failed half way; deleted rows are not written again |
| `photos_commented` | 1 photo, 1 comment, 1 handler | *violated*: `ImageBehindRow`; deleting a photo with a comment destroys the image and then fails |
| `images_race` | 1 photo, 4 bodies (two of one link, a blur, one refused), 2 seconds, 1 account, 2 names, 2 avatars, 2 handlers, errors, failing Cloudinary calls, removal of the photo | a saved QR code leads to its row's link, unless two were put for the photo in that second (`QrLeadsToLink`); the avatar of a row is the one in Cloudinary, unless its upload overlapped another update or failed half way (`AvatarIsLast`) |
| `images_blur` | 2 handlers | *violated*: `NewLinkIsSaved`; a blur is accepted, its QR code is put, and its parameters cannot be stored |
| `listings_walk` | 3 rows, 2 dates, 2 tags, 2 raters, ratings 1 and 2, pages of 2, 7 queries, 4 tags and ratings at rest and 2 during a search, 2 rows that come, move or go during a walk | the joins neither lose nor multiply a photo in page, total, average or order (`SearchIsExact`); a finished walk has missed no more of the rows that stayed than rows left or moved (`MissedArePaidFor`), and none shown twice but for one that came or moved (`RepeatsArePaidFor`) |
| `tags_race` | 1 photo, 3 names sent in 5 spellings (one blank), limit 2, 2 handlers, errors, failing Cloudinary calls | links name stored photos and committed tags; a name is held by one open transaction; of requests that wait one waits for a request that will end, or PostgreSQL finds a cycle (`NobodyStalls`); no tag commits without a photo that carries it; a photo has too many tags only after replacements that overlapped, and a replacement alone leaves exactly its tags |

**Why the bounds are enough.** The handlers do not wait for one another, so what
one can see of the others is a finite sequence of writes to the rows it uses.
Two handlers give every pair of operations in every order; a third actor, where
one matters, is the environment (cleanup, clock, Redis, Cloudinary), which is
not bounded, or a request that has completed before and left its trace in the
tables. Three sign-ups or managers (`accounts_race`) cover a check made stale by
two others. Two rows and two accounts tell "the caller's" from "another's"; the
third token is the one issued while an earlier one is still remembered. Three
rows and pages of two give a full page, a last page that is partly filled and a
boundary for rows to cross in both directions, twice in a walk; two tags and two
ratings on one photo are the smallest product that an average or a count could
get wrong. Writes stop when a walk is done, since it is judged as a whole. The
theorems of section 5 have no such bounds.

**Fairness.** `FairSpec` of `Sessions` has weak fairness of each handler's next
round trip: the event loop resumes a coroutine whose result has come back, and
asyncpg, redis-py and the database answer or raise. It assumes nothing of
clients, of administrators, or of errors (`Abort` stays possible at any time and
its victims are excepted by `lost`).

**Symmetry** is declared over tokens, rows, request slots and the ids that no
action tells apart, and never in the run with a liveness property.

## 4. Disagreements between the code and its own texts

Each is a run that TLC refutes, listed under `findings` with the line it
contradicts:

* two first sign-ups both become administrator (`repository/user.py:53` against
  its docstring);
* a photo with a comment loses its image and cannot be deleted
  (`routes/photo.py:431` against its docstring);
* no blur can be saved: the parameters hold a member of `BlurMode`, a plain
  `Enum`, and the column is JSON (`services/photo.py:410` against
  `routes/photo.py:605-615`).

Others appear as the exceptions that the passing properties have to make. A
sign-in that read the account before a block inserts its session after the purge
(`raced` in `PurgeComplete`; `routes/auth.py:200` against the comment at
`routes/user.py:444`). A refresh between the bearer check of a logout and its
DELETE by hash leaves the session alive behind a 204 (`serial` in `SerialLogout`;
`routes/auth.py:260` against its docstring). Two confirmations of one reset link
that both validate before either marks both change the password (`serial` in
`SerialOneTime`; `routes/auth.py:649` against `entity/user.py:105`). An error between the commit of the blocked flag and the purge leaves the
sessions, and repeating the block is refused as a no-op (`lost` in
`PurgeComplete`); two refreshes with one cookie overwrite each other's pair
(`serial` in `SerialRotation`); in the second of `exp` a logout writes no key
while the decoder still accepts the token (`closing` in `LoggedOutRejected`). A
request for a reset link that loaded its row before a confirmation marked it
stores a token that is used from the start (`serial` in `UsedWasUsed`). And two
replacements of a photo's tags that overlap each delete only what they loaded,
so the photo may end with more than the five tags that `routes/photo.py:491`
allows (`mixed` in `LimitHolds`). Two saves for a photo in one second share the
public id of their QR codes, so the earlier row's code leads to the later link,
whether or not the later save succeeds (`puts` in `QrLeadsToLink`; the docstring
at `services/photo.py:596` promises the link of the row). An update of a profile
that uploads before another and commits after it leaves the older version in
`users.avatar` (`unsure` in `AvatarIsLast`). The listings of accounts and of
ratings have no ORDER BY, and the search and the comments no key that breaks
ties, so nothing is promised for them beyond what `sure` leaves.

These exceptions are races, failures and boundaries of the code as it stands, so
the properties do not catch them: they say that nothing else goes wrong. Where an
entry of `hazards` is such an exception, its note says so and says what the
property still covers. One more is the restart of Redis (`forgotten` in
`LoggedOutRejected`): `sessions_race`, which checks `OnlyLiveCredentialsAct`, has
no restarts, and there only the theorem `OnlyLiveAct` reaches them.

## 5. Proofs

All theorems hold for every set, finite or not, of accounts, rows, tokens and
handlers, whatever `Env` allows, from the named assumptions of each module
(sentinels are not members of the sets, administrators are accounts; the keys,
tags and raters of a listing are finitely many). `NobodyEverStalls` also supposes
finitely many requests.

* **`SessionsProofs`**: `TypeCorrect`, `TableStaysConsistent`, `RowsOfCallers`, `OnlyLiveAct`,
  `LogoutShutsOut`, `BlockPurges`, `SpentForever`, `NoRowReturns`,
  `SessionsImplementCredentials`, `LoneLogoutDeletes`, `LoneRotationReplaces`. The
  invariant `IInv` adds to the properties
  what a handler knows at each pc (`HandlerShape`, `HandlerMemory`: the row it
  read is its caller's or gone; a bearer token that no row accepted at arrival
  is accepted by none since; between the two writes of a logout Redis holds the
  key) and that Redis keeps the tokens of completed logouts (`RevokedKept`). The
  argument has two halves: `SteadyStep` shows once what *no* step does (revive a
  row, move a row to another account, accept an issued pair again, turn back the
  clock), so a waiting handler's knowledge survives every step of the others;
  `SteppedHandler` and `ArrivedHandler` show that a handler's own step
  establishes what its next pc claims. The refinement maps `alive` to the tokens
  of live rows; `PromiseStep` shows each action to be a step of `Credentials` or
  a stutter. For the last two, `SerialInv` says that while requests do not
  overlap the row a handler read is gone or still holds the token presented.
* **`AccountsProofs`**: `TypeCorrect`, `AlwaysSomeAdmin`, `RightsOutlastTheCheck`,
  `AdminsStayUntouched`. The same shape: a handler that will insert with
  `first = FALSE` knows that some row is stored, and one that will update knows
  that its target is no administrator and its caller is one; no step moves a
  stored account into or out of the role `admin`, or touches an administrator's
  flag (`Steady`), which keeps both true.
* **`PasswordResetProofs`**: `TypeCorrect`, `AnsweredTokensAreDead`,
  `RowsKeepTheirOwner`, `NoTokenRevives`, `SerialLinksAreOneTime`,
  `MarksAreTrue`, `LatestLinkStays`. Rows hold distinct issued tokens
  (`RowsOK`), and an issued token that left its row does not come back; hence a
  handler about to mark a row by id knows every row that can still carry its
  token, although it looked it up one round trip earlier. The last three hold
  while requests do not overlap, with the cleanup job and the clock still free
  to step in. `FullInv` says what the one handler in flight knows then
  (`SerialMemory`: the row it loaded has the `used_at` it saw; nobody changed the
  password with its token before it) and that a row which still accepts a spent
  token has its mark under way (`SpentIsMarked`), so the next confirmation, which
  finds everyone idle, finds an unspent token.
  `ResetImplementsLinks` maps a link to `none`, `good` or `dead` by the row that
  carries it. Its invariant `LinksInv` adds to `IInv` that an account has one row
  (`OneRow`, from the unique column) and that a confirmation
  which has changed the password marks a row of its own account, whatever token
  that carries by then (`Confirmation`): a request that replaces the
  hash of the one row then replaces every good link of the account, and a
  late mark can take a newer link with it, but none of another account.
  `LinksKeepTheirPromise` proves of `ResetLinks` alone that an answered link is
  dead, that no dead link revives, and that an account has one good link; so the
  refinement, which TLC checks, carries these three. `AnsweredTokensAreDead`,
  `NoTokenRevives` and `OneLinkEach` state them over rows.
* **`PhotosProofs`**: `TypeCorrect`, `NothingHangsOnNothing`,
  `NoImageOutlivesItsRow`, `OnlyDeletionsLoseImages`, `DeletedStaysDeleted`. The
  invariant adds that a deleted row is empty (`GoneIsEmpty`, so that a second
  DELETE changes nothing), that no two uploads hold one image (`UploadsDiffer`),
  and what a handler learnt (`HandlerMemory`): an upload about to insert owns an
  image without a row, a deletion past its first call knows that the image is
  gone, and one about to rate knows that the photo, if it is still there, is not
  the caller's. No step gives a photo to another owner or brings back the image
  of a photo that has or had a row (`Steady`), which keeps that true for the
  handlers that wait. `PhotosImplementGallery` needs no more than this: a deletion
  that finds its row gone changes nothing (`GoneIsEmpty`), one that finds it
  takes the comments and ratings of that moment with it, those included that came
  in after it looked. `GalleryLeavesNothingBehind` proves of `Gallery` alone that
  no image is left behind a deleted row and nothing hangs on a missing one.

* **`PhotoTagsProofs`**: `TypeCorrect`, `LinksAlwaysResolve`,
  `NamesAlwaysHeldOnce`, `LimitAlwaysHolds`, `NewTagsAlwaysUsed`,
  `LoneReplacementAlwaysExact`, for every limit and every normalisation. A
  handler knows (`Knows`) that the names it resolved are committed or its own,
  that those it loaded are committed, and, while it has its photo to itself, that
  the links it loaded are those stored; it creates only names that it will link
  and keeps resolved and remaining names within the limit (`InOrder`). No step
  takes back a name, revives a photo, or touches the links of a photo that its
  handler did not load (`Steady`), and a second replacement of a photo ends the
  solitude of the first (`OthersKept`), so a handler that waits keeps what it
  knows (`HandlersKept`). `NobodyEverStalls` supposes finitely many requests: a
  name is held by a request in flight, so handlers that wait for nobody outside
  have a smallest such set among them, in which everyone is waited for, too, or
  the others would be a smaller one.

* **`ImagesProofs`**: `TypeCorrect`, `QrLeads`, `AvatarLast`, for every set of
  photos, bodies and accounts. A handler about to insert knows that its QR code
  leads to its link unless a second was put under the id; one about to store an
  avatar, alone with its account, knows that its version is the last one. Both
  survive the others' steps because a put counts and an update ends the solitude
  of those it meets.

* **`ListingsProofs`**: `TypeCorrect`, `MissedPaid`, `RepeatsPaid`, for every
  table, query and size of a page, however many rows come and go. A row's *rank*
  is the number of rows that the order puts before it. The invariant `WalkOK`
  counts the rows that stayed, lie before the place up to which pages were
  fetched, and were not shown (`Owed`), and those that were shown and lie behind
  it (`Again`): the first are no more than left or moved, the second, together
  with the repeats so far, no more than came or moved. A write moves the others'
  ranks by one at most, hence one row at most over the boundary (`OwedAfter`,
  `AgainAfter`); a page is the rows of its ranks (`PageByRank`), and a client
  that stops has fetched as many places as there are rows (`LastPage`). Of the
  order nothing is used but that it compares two rows by themselves, so averages
  and joins stay closed here. `SearchCorrect` takes them up:

* **`SearchProofs`**: lemmas about `Search`, of which `SearchFinds` is the last:
  for every table, finite sets of tags, raters and photos, and every query, the
  statement finds and counts each matching photo once, its average over the joined
  rows is the plain one, and any two photos compare by it as by their plain
  averages. A sum over a set is determined by what it is for the empty set and how
  it grows by one element; that two such sums agree is shown by induction on
  finite sets. The prover cannot instantiate an induction theorem that takes a
  predicate, so the predicate is the *set* of the subsets that have it, and the
  induction is `WFMin` on the strict-subset order (`SubsetInduction`). From it come
  splitting, congruence, union and constant sums, and `SumFannedOut`: a sum over
  pairs of a rating and a tag that looks at the rating alone is the plain sum times
  the number of tags, a factor that stands in numerator and denominator of the
  average and cancels (`Cancels`, `AverageFansOut`). The outer joins' stand-ins
  (`NoTag`, `NoRater`) keep the factor from being 0.

Every invariant and action property that a passing run checks is stated by a
theorem. Only model-checked are the liveness property `BlockedIsPurged` (fairness
and ENABLED are outside the prover), the absence of deadlock, and the three
refutations of section 4, which are traces.

A property that the refinement of an abstract module implies is proved but not
checked a second time by a run: what `RetiredStaysDead`, `DeadStaysDead` and
`OneLinkPerAccount` say of rows (`PasswordReset`) and `DeletedHasNoAsset`
(`Photos`). Variants of the code that would break them break the refinement.

## 6. Not modelled

Input validation, formatting, e-mail templates, SMTP, settings, middleware,
exception handlers and migrations are pure or without state of their own. Rate
limiters only refuse requests, which `Refuse` allows at any time. Previews of
transformations and reads of saved ones, of profiles and of single photos and
ratings change nothing. `PROJECT.json` gives the reason for each component.

## 7. Plan

Done, in this order: `Credentials`, `Sessions`, `Accounts`, `PasswordReset`,
`Photos`, `PhotoTags`, `Images`, `Search` and `Listings`, then `ResetLinks` and
`Gallery`, with their proofs.

What could follow:

1. A composition of `Accounts` and `Sessions` over one `users` table, with role
   changes under running requests.
2. An abstract specification of an image that is replaced in place, which saved
   transformations and avatars (`Images`) are compared with.
3. One of a photo's tags as a set with a limit, which `PhotoTags` implements
   while replacements do not overlap.
