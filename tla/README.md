# Filmott: specifications and proofs

TLA+ models of Filmott (NestJS backend, Next.js frontend, one production host
deployed by shell scripts), checked with TLC and, where a result should hold for
every instance, proved with TLAPS. Paths below are relative to the repository.

## 1. Inventory

| part | state it keeps | operations | what is hard about it |
|---|---|---|---|
| blue-green deployment (`scripts/deploy-blue-green.sh`, `blue-green-smoke.sh`) | release file, uncertainty marker, three nginx upstream files, images and containers of two slots, what nginx has loaded, two background observers | deploy, roll back, signal handler | every command may fail; signals and kills between any two commands; nginx loads its file at its own time |
| operations scripts (`scripts/backup-db.sh`, `renew-ssl.sh`, `docker-cleanup.sh`, `init-ssl.sh`, `verify-db-backup.sh`) | dumps, certificates | share `filmott-ops.lock` with the deployment | exclusion only |
| sessions and accounts (`backend/src/auth`, `backend/src/users`) | `users` row (status, profile), `refresh_tokens` rows | login, refresh, logout, profile edit, deactivate, admin suspend/activate, cron cleanup | concurrent requests over one row; refresh rotates under a row lock while suspension deletes tokens; TypeORM `save` writes the difference between a stale entity and the row |
| social sign-up (`backend/src/auth/social`, `auth.service.ts:197-278`) | signed state and sign-up cookies | callback, completion | two sign-ups for one provider id |
| reviews and likes (`backend/src/reviews`) | `reviews` row with `likes_count`, `review_likes` rows | create, update, delete, toggle like | counter kept beside the rows it counts |
| review comments (`review-comments.service.ts`, `useComments.ts`, `ReviewCommentsModal.tsx`) | comments of a review; the pieces and the number the modal shows | create, delete, read a piece | pieces, new comments and deletions are answered in any order |
| administrator's lists (`UserManagement.tsx`, `ContentManagement.tsx`) | page, search and filter; the dialog that asks | turn pages, suspend or restore a user, block or allow a content | requests are not cancelled, and a list is read again after every decision |
| watchlist (`backend/src/watchlist`) | `watchlist` rows | add, upsert, update, remove | a review promotes the entry, and a review's existence forbids a status |
| content catalogue (`backend/src/contents`) | `contents` rows, negative cache, in-flight refreshes | find or fetch, refresh in background | duplicate fetches, caches filled from stale reads |
| adult filter (`contents/services/adult-content.service.ts`) | `adult` flags, cached block set | toggle, block a person's titles | cache filled by a read that began before an invalidation |
| rankings (`backend/src/rankings`) | `rankings` rows, sync state | scheduled sync, retries | overlapping syncs, partial replacement |
| chat (`backend/src/chat`) | none; one SSE stream per request | structured stream, progress, abort | partial JSON, client abort against a late answer |
| recommendations (`backend/src/recommendation`) | `content_metadata` | search with relaxation, candidate ranking | bounded retries of the search |
| browser session (`frontend/src/lib/auth-session.ts`, `contexts/AuthContext.tsx`) | access token, refresh in flight, tabs | refresh, broadcast, logout | tabs race for one refresh token |
| browser chat stream (`frontend/src/lib/chat-stream.ts`) | parser buffer | read, abort | events cut at chunk boundaries |
| ISR cache (`frontend/src/app/internal`, `backend/src/integrations/frontend-cache`) | tagged pages | revalidate | lost notifications |

What makes each of them correct (in code font: checked here):

- deployment: nginx only names a slot that runs (`ServingSlotsRun`), the recorded
  release runs (`ReleaseRuns`), whatever is uncertain is marked
  (`MarkerCoversDoubt`), a run that left no marker does not block the next one
  (`NextRunAccepted`);
- sessions: a login has at most one live token (`OneLiveTokenPerLogin`), once a
  suspension has completed no rotation begun before it issues one (`RefreshBarrier`), a
  session that has ended stays ended (`DeadSessionsStayDead`), every request ends;
- social sign-up: an identity has one account and a nickname one owner, and the
  sign-ins of two tabs do not disturb each other (`OneAccountEach`);
- reviews: the counter counts the likes (`LikesCounted`), one like per user
  (`NoDuplicateLike`);
- watchlist: what is reviewed has been watched (`ReviewedIsWatched`), each request is
  one change of the shelf (`ImplementsReviewedShelf`), transactions deadlock over the
  likes of the review and over nothing else (`RingsAreOverLikes`);
- catalogue and adult filter: what an administrator decided stands until an older
  copy is saved over it (`DecisionStands`), and the set that searches filter with
  knows it (`FilterKnowsDecisions`);
- person cache: its bytes are counted as they are (`BytesCounted`);
- rankings: a reader gets a whole list, the one saved last (`ListIsWhole`);
- chat: what is shown is one attempt, what is kept follows its question and is
  whole (`OneAttemptShown`), and every request ends (`Settles`);
- recommendations: relaxation never drops what the message asked for
  (`RequestIsKept`), a blocked content leaves the related ones when its entry ages
  out (`BlockedAgesOut`);
- browser session: a refresh is refused only when its session is gone
  (`RefusedMeansGone`), a tab that was signed out stays so (`ClearedTabStaysOut`),
  no page loads for ever (`Settles`);
- pages: a page at rest shows what is stored and what was asked for last
  (`PagesAgree`);
- ISR cache: a page shows every change within its revalidation time (not modelled).

Interactions: the browser calls the backend with a short-lived access token and
a refresh cookie; the backend's modules meet in PostgreSQL (READ COMMITTED, one
transaction per explicit `transaction`/`createQueryRunner`, otherwise one per
statement); cron jobs and background promises run beside requests in the same
process; nginx sits in front of both slots and follows one upstream file.

## 2. Blue-green deployment

`BlueGreenDeploy` models one production host. `pc` is the place in
`blue_green_deploy`; every command of the script is one action that succeeds, or
fails after doing all or nothing of its work, and then takes the branch the
script takes. `OnSignal` is `blue_green_on_signal` (armed traps, once), `Crash`
is a SIGKILL or a second signal, `NginxLoad` is nginx reading
`nginx/upstreams.conf`: after a reload, after its container restarts
(`docker-compose.prod.yml`, `restart: always`) or from `scripts/renew-ssl.sh`.
`ProbeStep` and `SseStep` are the two observers.

| variable | in the code |
|---|---|
| `release`, `uncertain` | `active-release`, `deployment-uncertain` in `.deploy-state` |
| `upstream`, `candidate`, `rollback` | `nginx/upstreams.conf`, `candidate.conf`, `rollback.conf`: slot, SHA and slot of the previous frontend |
| `nginx` | the configuration nginx answers with |
| `image[s]`, `container[s]` | the commit behind `filmott-*:s` and behind the running containers of slot `s` |
| `inactiveStarted`, `cutoverStarted`, `committed` | `BLUE_GREEN_INACTIVE_STARTED`, `..._CUTOVER_STARTED`, `..._COMMITTED` |
| `trapped` | the HUP/INT/TERM traps are armed |
| `requireSse` | `FILMOTT_REQUIRE_SSE_SMOKE` |
| `outcome` | how the last run ended (kept for the properties) |

`RecordedRelease` is what a deployment promises, in four variables: what is
recorded, what would be served after a restart of nginx, what is served, and
whether there is doubt. The record may be believed unless doubt is raised; traffic
is moved, there and back, only under doubt and only to what the upstream file
plans; only what is served is recorded; doubt is dropped only when the record, the
upstream file and nginx agree. `BlueGreenDeploy` implements it with
`recorded <- release`, `planned <- RouteOf(upstream)`, `served <- RouteOf(nginx)`,
`doubt <- uncertain`.

Abstractions: frontend and backend of a slot are one container (one compose
command creates and removes both); of an image only its commit is kept; reading
the upstream file and answering with it is one step of nginx, so a reload that
was already reading an older file when a rollback wrote the new one is not
modelled; HTTP checks (`TestCandidate`, `CaptureStatic`, `CheckStatic`,
`Revalidate`) may pass or fail at will.

Run `deploy` (`MCBlueGreenDeploy.cfg`): three commits, so that a run may find a
target, the head of main may move away from it, and the recorded release is a
third one; runs follow one another without bound. No counter needs a bound: the
state space is finite. Fairness: the shell executes its next command, nginx
answers a reload, the observers end by their own `--max-time` limits; signals,
kills and pushes are never fair.

When the last command of a rollback fails (358), the marker has already been
removed (357), although the message at line 367 says "preserving both slots and
uncertainty marker". The record and nginx agree by then, so `MarkerCoversDoubt`
holds all the same; the model follows the code.

### Proof

`BlueGreenDeployProofs` proves, for every set of commits, type correctness and
`ServingSlotsRun`, `ReleaseRuns`, `MarkerCoversDoubt`, `NextRunAccepted` and the
refinement of `RecordedRelease`. None of the invariants is inductive alone: that nginx
serves a running slot during a rollback depends on what `rollback.conf` holds, and
that in turn on the stretch of the script that wrote it. `IInv` therefore says, for
each stretch of program points, what the files, nginx, the flags and the containers
hold (`FlagsFollowPc`, `RecordFollowsPc`, `MarkerFollowsPc`, `FilesFollowPc`), and
each part of the script has a lemma that its steps keep `IInv`. The refinement follows
from `IInv`, from which steps write the files (`RecordWriters`) and from which move
traffic (`SwitchedUnderMarker`).

Its second half goes on from `IInv`, which is cited as a theorem.
`SuccessMeansCutover`, `PlainFailureUnblocked` and `FallbackRuns` follow from
`EndInv`, which adds that the old slot runs until it is retired (`OldSlotRuns`) and
where the marker is gone (`MarkerGone`). `NoOrphanObservers` needs `WatchInv`, which
says at each point of the script which observers are on and whether its exit trap
is set. `CommitIsFinal` follows from `IInv` and from which steps touch the routing.
Only `RunSettles` is model-checked alone (liveness is out of the prover's reach). It
says what three invariants leave out. A run ends, however often it is killed. What a
killed run leaves under way ends too, and with it the lock that its observers hold:
`NoOrphanObservers` excepts killed runs. And where nginx still names a removed slot as
its fallback, this ends. `FallbackRuns` cannot exclude that: before it retires the old
slot, the script checks the identity of the new one (slot and SHA), so nginx may not have
loaded the file without the old slot yet. No property says that a run which succeeds
serves the newest commit: `main` may move while the image is built, and again after
the script has looked (444); what is recorded is what was built and serves.

## 3. Sessions and accounts

`AccountSessions` models one row of `users`, the `refresh_tokens` of that user
and the requests that work on both. A request is a process with a place `pc`; one
action is what becomes visible to others at once.

| variable | in the code |
|---|---|
| `user` | `status`, the columns a login finds the account by (`login`: nickname, email, provider id, released by a withdrawal), any other column (`profile`) |
| `live`, `expired` | rows of `refresh_tokens`; those with `expires_at` in the past |
| `issued`, `root` | history: every token, and the login it descends from |
| `op`, `pc`, `tok` | the operation, its place, the cookie it was sent |
| `entity`, `dirty` | the entity that was read and changed; the columns `save` will write |
| `snap`, `held` | rows a `DELETE` has found; rows it has locked |
| `standing`, `sealed` | history: suspensions whose status has not been overwritten; one of them has completed |

| actions | in the code |
|---|---|
| `LoginRead`, `LoginIssue` | `handleSocialCallback` (197), `buildAuthSession` and `generateTokens` of `auth.service.ts` |
| `RefreshLock`, `RefreshCheck`, `RefreshRotate` | the transaction of `refreshTokens` (110-180) |
| `LogoutDelete` | `revokeRefreshToken` (183) |
| `BeginClean`, `Find`, `Take`, `Remove` | `cleanExpiredTokens` (188); `Find`, `Take`, `Remove` are also the `DELETE` of `deactivate` and `updateStatusByAdmin` of `users.service.ts` |
| `Guard`, `Read`, `Load`, `Write` | `JwtStrategy.validate`, then `update`, `deactivate` or `updateStatusByAdmin`: read the row, change the entity, `save` |
| `Deadlock`, `Take`, `Locked` | row locks and deadlock detection of PostgreSQL |

`After(o, done)` is the order of the statements of each handler: a withdrawal
deletes tokens and then saves, a suspension saves and then deletes. `save` is
two steps because TypeORM first selects the row, compares it with the entity and
then updates the columns that differ.

Abstractions: passwords, cookies and JWTs are left out (an access token is
believed for as long as it lasts, and only `Guard` looks at the account); social
sign-up, which creates the account, comes before the model starts (section 7); the
removal of the profile image by a withdrawal is a call that may fail (`Abort`); how
an image is uploaded and removed, and the connections a rotation needs, are in
`ProfileImage` and `RefreshPool` (section 7). A check of
the request itself that refuses it (nickname taken, wrong role) is an `Abort` as
well.

Runs. `sessions` (2 requests and the nightly job, 3 tokens) is large enough for a
replayed token, a second rotation of the rotated one and a suspension or a withdrawal
in between, whole or interrupted: a withdrawal that fails after it has deleted the
tokens leaves the account as it was, and a login or rotation that passes it issues a
token. No invariant forbids that, and no text of the repository. Edits of the
profile, with which this run is beyond what TLC finishes, are in the proofs (all `Ops`)
and in `suspended_until_restored`. Tokens bound the history: a request that finds none
left fails. `sessions_live` checks liveness without `CutOff`:
a process that is cut off again and again never finishes. Fairness is strong per
process because PostgreSQL queues waiters of a row lock in order, and weak for the job
because it runs every night. `ExpiredTokensGo` admits one excuse that the code has: a
`DELETE` that keeps being the victim of a deadlock with the `DELETE` of a suspension.

Two runs end in violations, each a disagreement of code and comment or test
(`findings` in `PROJECT.json`): `suspend_revokes`, a suspension does not revoke the
token of a login or rotation that commits while its `DELETE` runs;
`suspended_until_restored`, a profile edit overwrites `SUSPENDED` with `ACTIVE`. In
the same way a suspension that read the account before a withdrawal overwrites
`DELETED`; the model contains that step, and no text of the repository promises
otherwise. `RefusedTokenRemoved`, which no run checks, does not hold either: the
removal of a refused token is rolled back by the exception that refuses it.

### Proof

`AccountSessionsProofs` proves type correctness, `OneLiveTokenPerLogin`,
`RefreshBarrier` and `DeadSessionsStayDead` for any sets of requests, tokens and
cut-off processes. The inductive invariant adds to `TypeOK`:

- `Carried`: at each place, what a process carries (a refresh past its lock has a
  token, a request that saves has an entity);
- `Locks`: a row has at most one holder, and a refresh past its lock holds a row
  that is live. Without it the rotation could fork;
- `Roots`: live tokens have distinct roots, and the root of an issued token is an
  issued token;
- `Barrier`: while a suspension stands and its `DELETE` runs, a refresh that is
  about to rotate holds a row that the `DELETE` has found and cannot pass.

Liveness and the disagreements are model-checked only.

## 4. Reviews and likes

`ReviewLikes` models one row of `reviews`, the users who have a row in
`review_likes` for it, and requests that toggle a like, edit the review or delete
it.

| variable | in the code |
|---|---|
| `review` | rating and comment (`text`) and `likes_count`, or no row |
| `likes` | users with a row in `review_likes` |
| `entity`, `dirty` | the review as `update` has read and changed it; the columns `save` will write |
| `snap`, `doomed` | likes the `DELETE` of an edit has found; those it has deleted and not committed |
| `touched`, `blurred` | history: edits that overlap somebody else's change; one of them has been saved, and the counter has not been made anew since |

| actions | in the code (`reviews.service.ts`) |
|---|---|
| `ToggleLock`, `ToggleFind`, `ToggleInsert`, `ToggleRemove` | `toggleLike` (315): `SELECT ... FOR UPDATE`, look for the like, insert or delete it and move the counter |
| `Read`, `Find`, `Doom`, `Load`, `Write`, `Create` | `update` (81): read, `delete` of the likes when rating or comment differ, `save` (SELECT, then UPDATE, or INSERT of a row that is gone) |
| `Look`, `Erase`, `Cascade` | `delete` (144); the likes go with the review by `ON DELETE CASCADE` |

Abstractions: who may edit or delete (`ForbiddenException`) is an `Abort`; the
watchlist entry that `update` writes after its save keeps the transaction open
longer and touches neither row; an edit that changes only `watchedAt` does not
touch them either. A review that a deletion has removed and a user writes anew
is another row. Removing the title from the watchlist deletes the review by the
statement that `delete` uses; what its transaction locks beside is in section 5.

Runs. `likes` has 2 requests and 2 users: each request is a toggle of either user,
an edit or a deletion, and requests follow one another without bound, so that an
edit overlaps a toggle, a deletion or any number of them in turn. It also checks
that every request ends, under the same fairness as above; cutting a request off
is allowed there, because nothing retries and a request that is cut off has
ended. `MaxCount` bounds the counter, which an overlapped edit may leave above the
number of likes: a toggle beyond it fails. Two more statements are defined and do
not hold, so no run checks them: an edit that changes nothing writes a stale counter
back (`NoopEditKeepsLikes`); an edit brings a deleted review back
(`DeletedReviewStaysDeleted`).
A like toggled between the `DELETE` and the save of an edit stays while the counter
is zeroed: that is why `LikesCounted` speaks of edits that nothing has overlapped. It
speaks again (`Renews`) once the review has been deleted, or an edit that nobody
overlaps has deleted the likes: nothing else in the code repairs the counter.

### Proof

`ReviewLikesProofs` proves type correctness (the counter is never negative),
`LikesCounted` and `NoDuplicateLike` for any sets of requests, users and texts
(users finite, since the counter is compared with a cardinality). The invariant
adds `Carried`, `Exclusive` (one request at a time holds the review, and then
there is a row), `FreshAt` (an edit that nothing has overlapped carries the
review as it is, and its uncommitted deletions are all the likes there are) and
`LikeKnown` (a toggle's reading of its like stays right). `RequestsEnd` is
model-checked only.

## 5. Watchlist and reviews

`WatchlistReview` models the row of `watchlist` and the row of `reviews` that one
user has for one title, and the requests that work on both. `ReviewLikes` and this
module share the review: there its columns and likes matter, here that it exists.

| variable | in the code |
|---|---|
| `review` | the id of the review, or no row |
| `entry` | id, `status` and `watched_at` of the entry, or no row |
| `op`, `pc`, `given` | the request, its place, the status and date it was sent |
| `seen` | the review that `update` or `delete` has read |
| `entity`, `dirty` | the entry as it was read and changed; the columns `save` will write |
| `mine`, `next` | what the transaction has done and not committed: the review it has inserted, updated or deleted, and what it has made of the entry (`Keep`: nothing) |
| `shed` | the review whose likes the transaction has deleted |
| `touched`, `crossed` | history: requests that overlap a change by somebody else; one of them has made a change itself, and the title has not been removed since |

| actions | in the code |
|---|---|
| `Check` | `assertStatusTransitionAllowed` (`watchlist.service.ts:424`) |
| `Find`, `Load`, `Write`, `Insert` | `addToWatchlist` (38) and `upsertByContentId` (386): look for the entry, `save` it (SELECT, then UPDATE or INSERT) |
| `Pick` with `Changes` | `updateStatus` (123) |
| `Pick`, `RemoveReviews`, `Cascade`, `Unlist`, `Seal` in the order of `After` | `removeFromWatchlist` (165) |
| `Look`, `Plant`, `Peek`, `Seal` | `create` (`reviews.service.ts:43`) around the upsert |
| `ReadReview`, `Unlike`, `Hold`, `HoldFails`, `Seal` | `update` (81) with `watchedAt`, around the upsert: `Unlike` is its `DELETE` of the likes, `Hold` its save of the review |
| `Sight`, `DropReview`, `Cascade`, `Seal` | `delete` (144) |
| `Cascade` | `ON DELETE CASCADE` of `review-like.entity.ts:22`, within the `DELETE` of the review |
| `WaitsFor`, `Ring`, `Deadlock` | row locks and deadlock detection of PostgreSQL |

`ReviewedShelf` is what all this promises, without the requests: whether there is a
review, where the title is listed and on which day it was watched. `WatchlistReview`
implements it with `reviewed <- review # Nothing`, `listed` and `day` from `entry`,
and `torn <- crossed`: until two changes have crossed, each commit is one move of the
shelf, whole, and each move leaves a reviewed title watched. Crossed changes may tear the
shelf, and the removal of the title mends it (`Mend`).

`Put` is one statement on the entry: inside a transaction (`Transaction`) it waits
in `next` for `Seal`, outside it commits by itself. `Leave` is every end of a
request, with what it leaves in the tables.

Abstractions: `update` without `watchedAt` does not touch the entry and is in
`ReviewLikes`. Of the likes only their locks are here: a `DELETE` that looks for
likes may find some or none, and holds those it has found until its transaction ends.
Days are a small set, and today, which
`normalizeKoreaDateInput` takes when no date was sent, is any of them. A request
for an entry or review of somebody else ends like one for a row that is not there.
A `DELETE` that had to wait, of reviews or likes, is as one that began when the lock
was released. Ids come from sequences and are never given twice; since a row that is
gone and that no request remembers cannot be told from one that never was, an id
may be used again then (`FreshEntry`, `FreshReview`), and histories need no bound.

Run `watchlist`: 2 requests at a time, so that each pair of operations interleaves
in every way, following each other without bound; 3 ids each, since a row and two
requests know at most two others besides the new one; 2 days, so that one stored
and one sent date differ. The requests are symmetric, and so are ids and days.
`ReviewedIsWatched` is the promise of the transactions: a review that stands
without a watched entry needs two changes that cross. It stops speaking once they
have, because then the code does break it, and speaks again when the title has been
removed. `ImplementsReviewedShelf` says the same of the steps and not only of the states:
an upsert, a removal or a review with its entry changes the shelf once and as a whole.

Run `want_refused` shows how changes cross: a request for `want_to_watch` looks for a
review, finds none, and saves after one was committed. The check that refuses it
(`watchlist.service.ts:432`) and the save are not one transaction.

`RingsAreOverLikes` says which deadlocks there are. Every transaction takes the review
before the entry, but the likes are taken on either side of the review: an edit that changes
rating or comment deletes them and then saves the review (`reviews.service.ts:119-120`),
while a removal from the watchlist (`watchlist.service.ts:185`) or of the review deletes
the review and then, by cascade, the likes. These two can wait for each other, and the
database fails one of them (`Deadlock`): its transaction is rolled back and the request
ends with an error. Every ring has such a pair, and no other order of statements
closes one. In `ReviewLikes` the same ring does not keep requests from ending.

### Proof

`WatchlistReviewProofs` proves type correctness, `ReviewedIsWatched`,
`RingsAreOverLikes` and the refinement of `ReviewedShelf` for any sets of requests,
ids, days and cut-off requests. The invariant adds:

- `Carried`: at each place, what a request carries: it changes the entry last, so
  `next` is set only before its commit, and a new review is inserted before the
  entry is looked at;
- `Locked`: one request at a time has locked the review, and one that deletes it has
  locked the review there is. With `Carried` it gives `RingsAreOverLikes`
  (`RingsFromLocks`): whoever has changed the entry waits for nobody, whoever holds the review waits for those or, in its cascade, for likes; so a
  ring that goes on from a wait for the review comes to a cascade that waits for
  likes, and whoever holds these is an edit that wants the review;
- `Rightly`: until two changes cross, review and entry agree, and a request that
  no change of somebody else has overlapped (`Alone`) knows both as they are: the
  entity it saves has the id of the entry and a date that fits, the columns it
  writes are all in which they differ, and a removal holds the review there is.

Each action has a lemma that it keeps what its request carries (`...Moves`) and
one that it keeps what is known (`...Right`); `QuietRight` and `LoudRight` say what
the step of one request does to what the others know.

The refinement uses the invariant in the state before a step and in the one after.
`ChangesWhere` lists the steps that change the tables at all: a write of the entry
outside a transaction, a commit and the removal of a review. `PutMove`, `SealMove` and
`DropReviewMove` show that each of them is one move of the shelf.

## 6. Contents, the adult filter and the person cache

`Catalogue` models rows of `contents` and the operations that write them. Each of
them reads a row, waits for TMDB, and saves the copy it read: TypeORM's `save` writes
every column in which the copy differs from the row, so an old copy overwrites a
newer row, the `adult` flag included.

| variable | in the code |
|---|---|
| `row` | `contents`: `adult`, whether the details are there, whether they are young |
| `missing`, `blocked` | `missingDetailCache`; `blockedIdsCache` with the decisions made while it was read (`late`) |
| `task` | what each operation does, the copy it holds, and whether it is `behind` a decision |
| `adultAtTmdb` | what TMDB itself calls adult |
| `verdict`, `undone` | history: the administrator's last decision; contents whose decision an old copy has overwritten |

| actions | in the code |
|---|---|
| `GetDetail`, `Fetch`, `Merge`, `Save`, `SaveDetails` | `getContentDetail`, `refreshInBackground`, `fetchAndSave`, `upsertFromTmdb` of `content-catalog.service.ts` |
| `FindOrFetch`, `Fetch`, `Insert` | `findOrFetchByTmdbId`, `saveFromTmdb` |
| `ToggleAdult`, `ToggleSave` | `toggleAdult` of `adult-content.service.ts` |
| `BlockPerson`, `PersonNext`, `PersonUpdate` | `blockPersonContents` |
| `FillRead`, `FillAssign`, `BlockedExpires` | `getBlockedTmdbIds` |

The background refresh, the 404s kept for five minutes, the collision of two first
requests on the unique key, and the loss of the memory at a restart are in the model.
Both properties name their exception: a decision stands until an operation that had
read the row before writes it back (`undone`), and the filter learns late of what was
decided while its set was being read (`late`). Both exceptions happen in the code, and
both end: the first when the administrator decides again, the second when the set has
run out and is read anew.

`PersonCatalog` models `person-cache.ts` and `person-catalog.service.ts`: the order
of use, the eviction by entries and bytes, the age of an entry, the cleaning job, and
the one retry of a TMDB request that timed out (`tmdb.service.ts:122`). The details
and the filmography are two caches of one kind; one is modelled.

### Proof

`ServicesProofs` proves, for any contents and any operations at once, the types,
`DecisionStands` and `FilterKnowsDecisions`. The invariant `CatalogueInv` adds

- `Made`: a row that is adult, detailed or young is there;
- `OneRefresh`: a content is refreshed once at a time;
- `InHand`: what each operation holds (a save has a copy of a row, an operation on a
  person a set of contents);
- `Current`: a copy that is not `behind` agrees with the decision about its content,
  and the contents found so far are those the filter must know.

Without `Current` neither property is inductive: a save writes back what was read
several steps before. `Step` and `QuietStep` say what an operation's step leaves to
the others, `DecideKeeps` what a decision does to all of them; each action has a lemma.

`BytesAlwaysCounted` is proved of the person cache for any persons, requests and limits
(`PersonAssumption`: sizes and `MaxBytes` are natural numbers, the cache has a place). `PersonInv`
says that there is one entry per person, that `bytes` is the sum over the entries, and that
both limits hold. Without one entry per person the sum is not kept: an entry that is
replaced is taken out once. What the proof needs of sums is stated in lemmas on lists: what
`Total` is of a list to which an entry is appended (`TotalAppend`), of one that is cut in two
(`TotalConcat`), of the two parts of one that is filtered (`KeepSplits`), and that evicting
enough makes room (`RoomFits`).

## 7. Around the account

`SocialSignup`: tabs of one browser sign in with social accounts. `states`, `signup`
are the state cookies and the sign-up cookie of `auth.controller.ts`, `users` the
table with its two unique columns, `page` the callback page and
`NicknameSetupModal.tsx` with its delayed check. `Begin`, `Callback...`, `Submit`,
`CheckIdentity`, `CheckNickname`, `Insert` follow `setStateCookie`,
`handleSocialCallback`, `completeSocialSignup` and `createSocialUser`; the check and
the insertion are separate steps, so that another tab's sign-up comes in between.

All tabs share one sign-up cookie, and the server prefers it to the token in the form:
a form that is submitted after the callback of another tab signs up that tab's
identity. The model contains that step; `OneAccountEach` does not exclude it, since the
account is still the only one of its identity.

`ProfileImage`: the column, the objects of the bucket, and requests that upload or
remove (`users.service.ts:381-444`); each step may fail. Run `removed_image_gone` shows
that the removal leaves the column as it was.

`RefreshPool`: `refreshTokens` holds one pooled connection and asks for a second one.
With as many refreshes as connections everyone waits for everyone, and only the
timeout of the pool (`app.module.ts:48-55`) ends it.

### Proof

`ServicesProofs` proves, for any tabs, identities and nicknames, both conjuncts of the
run's `OneAccountEach` (`AlwaysOneAccountEach`). That an identity has one account and
a nickname one owner is inductive: only `Insert` adds a user, and checks both columns
as it does. `FlowsIndependent` is not: a callback is refused when it finds no state
cookie, so `SignupInv` says that whoever is at the provider has a cookie of its own
name or has spent it (`Waited`), and that a later page has spent it
(`SignedInFollows`). That a user has an identity and a nickname is not inductive
either: what is inserted was checked some steps before, and `SignupTypes` says of
every page that a nickname was typed before it is checked or signed up with
(`PageTyped`).

## 8. Rankings

`Rankings`: `stampOf` is the table, reduced to `fetchedAt` per category, rank and
date; `sync` the syncs that run, `reader` a `getRankings`, which asks twice, `edit` an
`updatePosterUrl`, which saves an entity read before. `BoxOfficeSync` and
`TrendingSync` are the jobs, retries and refreshes by hand of
`rankings-scheduler.service.ts` and `rankings-sync.service.ts`: fetch and stamp,
match, one upsert. `ListIsWhole` holds through shrinking lists, changing dates and
failed syncs. It stops speaking (`mixed`, `raced`) after two syncs of one category
have crossed, after a poster was saved over a row that had changed, or when a list
is written between a reader's two queries: then the code does show a mixture. A category
leaves `mixed` when a sync that nobody has crossed has written it: whoever asks then gets a
whole list again.
Times of day are left out, a job may run at any moment of its day.

### Proof

`ListAlwaysWhole` in `ServicesProofs` holds for any number of syncs, ranks, days and
fetches. What a reader gets says little of the table between its two queries;
`RankInv` therefore says of the table that the rows of a category with the latest stamp
are one list, of one date, with the ranks from 1 on (`LatestIs`), of a sync that has
fetched that it is newer than every row and than what an edit will write back (`Ahead`),
and of a reader between its queries that its stamp is still that of the latest list
(`ReaderSees`). `Ahead` is what crossing syncs lose, which is why the
invariant excepts those in `overlapped`: the one that fetched first may write last, and
then rows with an older stamp replace newer ones.

## 9. Chat and recommendations

`ChatSearch` is what happens before the model answers: `Analyze` validates the intent
(`intent-analyzer.ts`) and combines it with the user's preference into filters
(`chat.service.ts:104-263`, `user-preference.ts`), `Query` and `Relax` are
`searchWithFilters`, `Similar` the search for a user of whom nothing is known, `Select` the
choice of the candidates. A filter is a set of values; of the ranking only the
tiers and the limit remain. `PreferenceFollowsRequest`, a comment's claim that no run
checks, does not hold: a preferred country is added although the message excludes
countries.

`RelatedContents` is `related-content.service.ts`: the cache with its age, order of
use and bound, the load that requests share, and its queries one by one, between
which metadata arrives (`Describe`) or an administrator blocks a content (`Toggle`).

Two theorems of `ServicesProofs` are about these modules.

- `RequestAlwaysKept`: `SearchInv` says that while the search runs its filters are those
  it started from but for the fields in `tried`, that these were dropped in the order of
  `RelaxationSequence` (`Later`), and that the last one was dropped because the search
  before found too little (`DroppedWhenShort`). What is dropped is only what may be,
  and that is only preference; so a candidate has what the message asked for
  (`Granted`). `SearchAssumption` says that a search that found too little has found
  everything: `Enough <= SearchLimit`; in the code, `MINIMUM_FILTERED_RESULTS`, 5, and the 20 that
  `chat.service.ts` asks for.
- `BlockedAlwaysAgesOut`: `RelatedInv` bounds how long ago something shown may have been
  blocked by the age of its entry (`KeptEntries`), and for a load under way by the one
  tick that a load may live through (`LoadHolds`). That an answer repeats no content
  needs that established contents come from those with metadata and recent ones from the
  others, unless metadata arrived in between (`changed`).

`ChatTurn` is one conversation: `Prepare`, `Delta`, `Finish`, `Invalid`, `Broken` on the
server (`chat.service.ts:265-383`, `chat-response-stream.service.ts`,
`structured-chat-stream.ts`), `wire` the events of `chat.controller.ts` and
`chat-stream.ts`, and `ChatSection.tsx` in the browser. `ui` is React's state with the
queued updates, `shown` what was rendered, `due` the effects that have still to run
and `ref` the refs that callbacks and effects both write; `Effects`, `Render` and
`RestoreTimer` happen between any two events. `raced` marks that an effect or
timer has overwritten something newer; run `done_sees_latest` shows that it
happens, against the comment on the ref. Where frames are cut is left out, since the
parser of `chat-stream.ts` keeps what is incomplete.

`OneAttemptAlwaysShown` in `ClientsProofs` holds for any number of requests, pieces,
attempts and kept messages (`ChatAssumption`: at least one attempt and one kept
message). `ChatInv` has two parts beside the types:

- `TurnInv`: one request is under way at a time, and of the one that is answered the
  events on the wire continue what the page shows (`Conversation`): a delta is the
  next piece of the attempt shown, a reset is followed by the first piece of the next
  attempt, cards and `done` come last and carry what the text before them makes. Without
  the wire, `OneAttemptShown` is not inductive: nothing keeps the next event from
  belonging to another attempt.
- `KeptInv`, unless `raced`: messages in the state, in what was rendered, in the storage
  and in a restoration that has still to happen are all in place, since each of them may
  be copied over another later; the refs hold what the state holds; and the
  question that is being answered is the last message.

## 10. The browser

`BrowserSession`: tabs with one cookie jar. `tab` is what `AuthContext.tsx` and
`auth-session.ts` keep in each page, `queue` the refreshes and logouts that wait for the
Web Lock or hold it, as pairs that say which comes first (without the lock, only
among the operations of one tab),
`inbox` the undelivered messages of the channel, `live` the tokens the server
accepts. A request is sent and answered in separate steps, and a reload or a social
sign-in may come between. The counters that tell stale answers are kept as what
they decide (`current`).

`ContentPage`: the status button (`WatchlistStatusButton.tsx`), the card of the user's
review (`ReviewFormWrapper.tsx`, `ReviewForm.tsx`) and both forms
(`ReviewFormModal.tsx`) on the page of a title, with one copy each of what the server
stores. The button shows each answer as it comes, so one that was asked for before a write
may hide it until the next read; `PagesAgree` speaks of the button when the newest
read was the last to be answered. `ReviewList`: `ReviewListClient.tsx`, whose loads for
another viewer or order cancel each other. `WatchlistPage`: `profile/watchlist/page.tsx`, where nothing is
cancelled and the URL changes after the state; `PageSettles` therefore speaks only when
the newest request was the last to be answered. `ReviewRemovalIsAsked`, what a test
says of the button, does not hold when the review is written after the check; no run
checks it.

`CommentThread`: the comments of a review and the modal that shows them in pieces
(`useComments.ts`, `ReviewCommentsModal.tsx`, `CommentList.tsx`). Three things it contains
no text promises otherwise: a modal closed before its first answer sets the number
on the card to 0; a viewer who deletes all that was shown is offered no further piece;
a deletion between two pieces makes a gap. `ThreadAgrees` names the last two.

`AdminUsers` (`UserManagement.tsx`): when the last user of the second page leaves the
filter, the page is empty and hides its pagination. `AdminContents`
(`ContentManagement.tsx`): allowing the last content of the last page shows an empty page,
without buttons when one page remains. In both, nobody else changes the list
meanwhile; that is a bound of the model.

### Proof

`BrowserSessionProofs` proves three results for any number of tabs, sign-ins and
reloads; the assumption `Constants` is that `First` is a sign-in, `Nobody` is none and
`MaxTurns` and `MaxLoads` are natural numbers.

- `Shape` and `KnownInv`: pages, cookies, tokens and messages have their types, and
  every token the server accepts, and every one on its way, belongs to a session that
  was begun. The latter is what bounds `lost`: the session of a lost answer was begun.
- `ClearedTabStaysOut`, from `OutInv`: a page that was signed out has no restoration
  and no announced session whose answer still counts.
- `RefusedMeansGone` where the browser has locks. `OrderInv` says that the operations
  are ordered and the refresh that was sent is the one whose turn it is; `TokensInv`
  that of the session in the cookie the server accepts that very token, or its
  successor that is on its way, unless an answer was lost. Either alone is not kept: the
  second needs that no other refresh is sent meanwhile, the first says nothing of
  tokens.

`SessionInv` is all of it, and `SessionBegins` and `SessionGoesOn` its two facts. `ClientsProofs`
takes them for each of the three uses of the tabs in the run `clients`, so
that `RefusedMeansGone` and `ClearedTabStaysOut` are proved as the run states them.

The pages change through a few operators (`SignedOutPage`, `SignedInPage`,
`NewSessionGeneration`, ...), and `QuietPages` and `KeptRefresh` say once what each of
them leaves alone.

`PagesProofs` proves `PagesAgree`, for any users, titles, comments, contents, lengths of a
piece and numbers of requests. A page
shows what it should only when it is at rest, so none of the properties is inductive:
`PagesInv` also says what every request under way has read and what will become of it.

- `TitleInv`, for the page of a title: unless a write has taken effect of which the card has
  still to be told, the card has the stored review, and so have the loads it will show
  (`CardFresh`); the newest read of the button has found the stored entry, or has still to
  look (`ButtonFresh`).
- `ListInv`, for the reviews: a load asks for one viewer's list and carries that viewer's
  likes, and the active one asks for what the page wants (`LoadMatches`).
- `ShelfInv`, for the watchlist: the newest request of each kind is about the URL's year, the
  selected year or the list, and so is its answer (`YearsFollow`, `DataFollow`, `WantsFollow`);
  what ends the loading is under way, or will be asked for (`ShelfWaits`).
- `ThreadInv`, for the comments: until something crosses, what is shown is a beginning of the
  list once the deletions are left out that were made and are not answered yet
  (`Left`); the number exceeds the list by as many (`Agreed`). That requires that there is one
  submission under way at most (`SendsOnce`), and that a piece read since the last change is
  one of the list (`Fresh`).
- `UserInv` and `BlockInv`, for the administrators: a page that was read since the last decision
  is one of the list as it is, a decision that was made has a list that follows it, and
  there is one decision at a time.

What a filter leaves of a list, what a beginning of a list keeps when an element leaves both,
and that a finite set of numbers has a descending order (`DescendingOrder`, for the
`ORDER BY` of the users) are lemmas of their own.

## 11. The runs `stores` and `clients`

The components of sections 6 to 10 share no state at the level they are modelled at,
so each of these runs checks several of them: `part` (for the pages, `screen`) chooses
one in the initial state and never changes, the variables of the others stay at a
fixed value, and each property reads `part = ... => ...`. The behaviours are those of
the components one by one. `Services` composes `Catalogue`, `PersonCatalog`,
`SocialSignup`, `ProfileImage`, `Rankings`, `ChatSearch` and `RelatedContents`;
`Pages` the pages of section 10 but for the session; `Clients` composes
`BrowserSession`, `ChatTurn` and `RefreshPool`. They state the properties, for any
value of their constants; `ServicesProofs`, `PagesProofs` and `ClientsProofs` prove
about them. `Stores` puts `Services` and `Pages` into one run: a behaviour of `Stores`
is one of `Services` in which no page is open (`screen = "none"`), or one of `Pages`
in which no service runs (`part = "none"`), so that what is proved of `ServicesSpec`
and of `PagesSpec` holds in `StoresSpec`. `MCStores` and `MCClients` are the instances
that TLC checks, on the constants below; fairness and the liveness property `Settles`
are stated in `MCClients`, for its tabs, requests and refreshes.

`Arrays` has the array methods of the source that the components share. Those of
`SequencesExt` take an operator as an argument, about which nothing can be proved here, and
the components are instantiated side by side, where every instance repeats the module.

What the proofs assume of the constants: the bounds are natural numbers, an entry of
the cache of related contents lives for a tick and the cache has a place, its recent
contents fit among all it shows (`RankingAssumption`, `RelatedAssumption`,
`SignupAssumption`, `PersonAssumption`), a catalogue is finite (`SearchAssumption`),
users, titles and blocked contents are finitely many and a piece of a list has a place
(`ShelfAssumption`, `ThreadAssumption`, `UserAssumption`, `BlockAssumption`), nobody
is called `guest` (`ListAssumption`), writes and loads are counted
(`TitleAssumption`), the session of the start is one of the sign-ins and `Nobody` is
none (`SessionAssumption`), the refreshes that share the pool are finitely many
(`PoolAssumption`), and `ChatAssumption` of section 9.

`TypesAlwaysOK` is the type correctness of all components, in `ServicesProofs` of those on the
server and in `ClientsProofs` of `clients`. Of the server, `SearchTypes` bounds
the cards of an answer, and `RelatedTypes` says that the cache of related contents has one
entry for each content and no more than its limit. For the pool it says that no
connection is lost or handed out twice, and needs `PoolInv`: a refresh that waits is in
the queue once, and waits for its transaction or for the lookup within it; otherwise a
timeout would give back a connection that was served in the meantime. For the chat,
`ChatBounds` is kept beside `ChatInv`.

| run, part | constants | why enough |
|---|---|---|
| `stores`: box office, trending | 2 syncs; 1 or 2 categories; lists up to 2; 3 or 2 fetches; 2 days | two syncs cross, a list shrinks, dates change while a retry runs |
| search | 2 values a field, 4 users, every subset of 6 titles, 2 results are enough | every mixture of request and preference, up to four relaxations |
| related | 2 sources, 1 related content, cache of 1, 2 ticks to live | a load, an eviction and a block in every order |
| catalogue | 1 content, 2 operations | each property speaks of one content; proved for all |
| people | 3 persons, 2 requests, sizes 1, 2, 4 of 3 bytes, 2 entries | eviction by either limit, an answer too big to keep |
| sign-ups | 2 tabs; two identities and one nickname, or the reverse | each unique column is contended |
| image | 2 requests, 3 objects | type only; its property is in `removed_image_gone` |
| card form, button form, removal | 2 accepted writes, up to 1 failure, the uses named in `Uses` | two writes race the reads of each other |
| list | 2 users (1 administrator), 1 review, 2 loads | an old load against a newer one |
| comments | 3 kinds of viewer, pieces of 1, 2 comments, 3 requests | a piece, a new comment and a deletion in any order |
| users | 3 users (1 administrator), 2 searches, pages of 1, 3 requests | an older query answered last; a filter that the user shown leaves |
| blocked contents | 3 contents, 2 of one person, pages of 1, 3 requests | a decision between two pages |
| shelf | 2 years, 2 titles, pieces of 1, 4 requests, 1 change elsewhere | answers in any order, a list that changes between pieces, a change of year that comes to rest |
| `clients`: editing, sign-ins, offline | 2 tabs that edit, with 1 reload; 2 tabs and 2 sign-ins; 1 tab whose requests fail; 1 rotation, 1 undelivered message | refresh, logout and sign-in of two tabs overlap |
| chat | 2 requests, 2 pieces, 2 attempts, 3 stored messages | a retry, an abort and the trimming of the history |
| pool | 3 requests, 2 tokens, 2 connections | all connections held by refreshes that want another |

Bounds end behaviours, so deadlock is not checked in these runs.

Fairness of `clients`: per tab, request or refresh, weak fairness of what the server, the
model's service (30 s timeout of its client), the channel and the pool do
(`Proceeds`); strong fairness of the row lock in `RefreshPool`, which PostgreSQL grants
to its waiters in order. Users, reloads and lost connections are never fair.

## 12. Plan and what is left

Done: the modules of sections 2 to 11, and a proof of every safety property that a passing
run checks, the refinements of the abstract specifications among them.

Model-checked only:

- every liveness property (`RunSettles`, `ExpiredTokensGo`, `Settles` and the others of the
  live runs): fairness and ENABLED are out of the prover's reach;
- the disagreements of sections 3, 5, 7 and 9, of which TLC shows an instance.

The library's theorems on induction take an operator as an argument, which none of the
provers can instantiate. Where a lemma is about a list or a number of any length, it takes a
set instead: `SetInduction` and `ListInduction` say that a set that contains the first
and with each its next contains all, and follow from `WFMin`, which is about sets.

### Not modelled

- content indexing and discovery, sitemap, home and search pages: reads over TMDB and
  the tables whose results are not kept beyond a cache that expires;
- the like button outside the list: one request and one local state;
- frontend cache notifications: one POST per change, whose failure is logged, and
  nothing waits for it; the page then shows the change after its revalidation time;
- migrations, monitoring, helpers, configuration: no state of their own;
- operations scripts beyond the lock they share, proxy and CI: linear or declarative;
- parsing and formatting (prompts, partial JSON, JSON-LD, dates): pure functions on
  text; TMDB, KOBIS, OpenAI and OAuth are calls that answer, fail or time out.
