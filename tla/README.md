# EPTA: a verification project

EPTA is a social network: a NestJS backend over PostgreSQL (Prisma), Redis and
BullMQ, with a Socket.IO gateway; a React single-page client; four small FastAPI
services and the skeleton of a Telegram bot. Its hard part is not computation. It is
that every request handler is an `async` function over a shared database, that most
handlers *read, decide, and write in a later statement*, and that numbers shown to
users are kept in two places: as rows, and as counters beside them.

This directory holds TLA+ modules translated from that code, TLC configurations that
check them on small instances, and TLAPS proofs of the properties that matter most for
instances of every size. Paths below are relative to `src/backend/src/` unless they say
otherwise.

How to run: `tlc -config X.cfg MCModule.tla` (the module of each configuration is in the
table of runs), `tlapm ModuleProofs.tla`.


## 1. The system

| Component | State it keeps | Operations | What must hold |
|---|---|---|---|
| Refresh tokens and sessions (`auth/services/token.service.ts`, `auth/auth.service.ts`, `users/users.service.ts`) | `refresh_tokens` rows: owner, family, expiry, `revokedAt`, `replacedById`; `User.status`, `passwordHash` | login, refresh (rotate), logout, logout-all, change password, delete account | a session has one usable token; a replayed token ends the session; a closed session stays closed; a password change ends the older sessions |
| Browser session (`src/frontend/src/api/http.ts`, `api/tokenStore.ts`, `api/auth.ts`, `auth/AuthContext.tsx`) | tokens in `localStorage` | request with one refresh and retry, sign-in, sign-out, page load | an honest browser is never taken for a thief; every call settles; sign-out leaves nothing in the store, and nothing usable once the server has confirmed it |
| E-mail verification (`auth/services/email-verification.service.ts`) | code rows with attempts, expiry, `consumedAt`; `emailVerifiedAt` | register, resend, verify | one active code, five attempts, a dead code stays dead |
| Google sign-in (`auth/auth.service.ts`, `auth/guards/google-auth.guard.ts`, `auth/oauth-state.util.ts`, `AuthCallbackPage.tsx`) | `googleId`, e-mail and username of each account; a state cookie per browser | start, callback, link or create, land | one account per address; nobody gets into an account whose address or identity he does not hold; an undisturbed sign-in succeeds |
| Access control (`auth/strategies`, `common/guards`) | none; reads the account | the guard of each route | deleted accounts and unconfirmed addresses are refused |
| Reactions, bookmarks and the counters job (`reactions/`, `bookmarks/`, `queues/processors/counters.processor.ts`) | one row per user and post; `likesCount`, `bookmarksCount` | toggle, set, remove; recompute | counters equal the rows; decisions are taken on the row that is there |
| Follows and blocks (`follows/`, `users/services/block.service.ts`) | `follows`, `user_blocks`; two counters per profile | follow, unfollow, block, unblock | counters equal the follows; blocked users do not follow each other |
| Posts and comments (`posts/`) | posts, comments, soft deletion; `postsCount`, `repostsCount`, `commentsCount`, `repliesCount` | create, repost, update, remove; comment, reply, remove | counters equal the live rows; threads stay on their post; an edit changes what it was sent |
| Cursor pagination (`common/dto/pagination.dto.ts` and every list) | the client's cursor | first page, next page | nothing twice, nothing missed, the walk ends |
| Content moderation and Python bridge (`queues/processors/python.processor.ts`, `integrations/python`) | `moderationStatus`, jobs | enqueue, verdict, retry | what is approved has been judged; every job ends |
| Media pipeline (`media/`, `queues/processors/media.processor.ts`) | stored files, asset rows with a status, jobs | upload, process, attach | a row names a file that is there; a video is shown after a run of its job has let it pass; a refusal is taken back by a repetition only; every asset settles |
| Notifications (`notifications/`, `queues/processors/notifications.processor.ts`) | notification rows, jobs, pushes | notify, push, list, read | told once, or once per run of a job |
| Chats and gateway (`chats/`) | chats, members, messages, receipts; sockets and rooms | open, send, read, connect, join | receipts for every member, time moves forward, blocks are honoured |
| Feeds, profiles and visibility (`feeds/`, `profiles/`, `posts/`) | none; they read posts, blocks, follows, in two queries | lists, single reads, profiles | what stood against showing a post before a read began, and stands still, is honoured by the lists that ask for it, or that rely on blocks severing follows |
| Redis cache (`redis/redis.service.ts`) | trends, hashtags and leaderboard with a TTL | remember | a page forgets what left it within its TTL |
| Subscriptions (`subscriptions/`) | one row per user | read (creates), change tier, cancel | the row says what the user last chose |
| React components (`src/frontend/src/components`) | lists, forms, buttons | load, add, like | a late answer does not undo a newer one |
| Telegram bot service (`src/python-services/bot`, `shared/epta_common/app.py`) | webhook, session, polling task, clients | start, stop | everything is closed, and in order |
| Python HTTP services (`src/python-services`) | none (stubs) | score, moderate, recommend | no answer is an answer |

The components meet in the database. They call each other rarely (`notify()` after a
follow, `issue()` after a registration, `isBlockedEitherWay()` before a follow, a comment
or a chat), and otherwise share rows. Jobs go through BullMQ: at least once, retried with
back-off, in no order that matters. The client talks to the server over a network that may
drop a request or its answer.

What is hard here, in order of weight:

1. **Check-then-act over several statements.** The decisive read is outside of the
   transaction in nearly every handler. Sometimes the write repeats the question (a unique
   key, a `delete` by id) and sometimes it does not (`update` by id, `revokedAt`).
2. **Transactions that are not.** `rotate()` ignores the transaction client it is given;
   `unfollow()` deletes in one commit and decrements in another; `issue()` deletes and
   creates in two.
3. **Failure between two commits**, and jobs that run again.
4. **Row locks taken in an order that depends on the direction** of a follow.
5. **The client's side of rotation**: parallel calls, lost answers, sign-out.
6. **A list that changes while it is paged through.**
7. **Jobs**: enqueued after the commit they belong to, run again after they have taken effect,
   carrying data that has changed since.
8. **Each list has its own idea of what to hide.** There is no one predicate.
9. **Things that outlive what they were granted for**: sockets, cached pages, state cookies,
   answers on their way to a screen that has moved on.


## 2. Conventions of the models

* **One action is one database statement** (or one transaction that really is one) together
  with the local code up to the next `await`. Handlers occupy *slots* (`Requests`): a record
  with a program counter and the locals that later statements use. Whatever else a handler
  kept is dropped when it answers, so that states that behave alike are equal.
* **A transaction that goes through its client is one action**: it takes effect whole, or,
  when the row it names is gone (P2025) or the unique key is taken (P2002), not at all.
  PostgreSQL runs at its default isolation (read committed), so nothing that was read before
  is protected, and increments (`SET n = n + 1`) are never lost. Where the order in which a
  transaction takes its locks matters (follows), the locks are modelled.
* **UUIDs** are drawn fresh. Rows that are never deleted are numbered in order of creation.
* **Clocks** are bounded counters (`MaxTime`); a clock that has stopped is a clock that
  nobody asks again.
* **An answered handler leaves first.** In the `tokens` run (`MCReducedSpec`) a handler that has
  answered leaves its slot before anything else happens; no handler and no property looks at it.
  The theorems are about `Spec` and `MCSpec`, where it may stay.
* **Bounds** are constants: `MaxTokens`, `MaxCodes`, `MaxPosts`, `MaxComments`, `MaxRows`,
  `MaxPasswords`, `MaxTime`, `MaxMessages`, `MaxItems`, `FlowCount`, `CountBound`. At a bound a statement fails like a statement that
  the database refuses, or no new operation starts; no handler is left waiting at one.
* `CanFail`, `CanLose`: handlers may die at any `await` (what they committed stays), the
  network may drop an answer.
* **A job** is run up to `Attempts` times (two in the runs, `queues.module.ts` says three): a run
  that throws, or whose worker dies at any point, is repeated from its start.
* **One run for several components that do not meet.** `MCAccounts`, `MCContent`, `MCChats` and
  `MCEdges` extend several components. A variable (`topic`, `scope`) that is chosen in
  the initial state and never changes says which of them a behaviour is about; the others stay
  where they started. The components share no variable, so nothing is lost but the product of
  their states.
* Definitions named `X_Something` above a definition `X` are *faulty variants*: what `X` would
  be with a plausible bug. They are used by nothing; putting one in the place of `X` makes
  TLC find a violation of the property it is meant for, which shows that the property can tell.


## 3. Modules

### RefreshTokens, Sessions

`RefreshTokens` is `TokenService` with the handlers around it. `minted`, `grant`, `revoked`,
`replacedBy` are the table; `status` and `password` the two columns of `users` that decide who
may open a session; `epoch` remembers with which password a session was opened and is read by
properties only. `rotate()` is four actions: `RotateRead` (verify, read, decide),
`RotateInsert`, `RotateRetire` (its two writes: the code hands `$transaction` a function that
uses `this.prisma`, so each commits by itself) and `Respond`; a revoked token takes
`RevokeFamily` instead. `Login` checks on a snapshot and `OpenSession` inserts. `ChangePassword`
→ `WritePassword` → `RevokeAll`, `DeleteAccount` → `Tombstone` → `RevokeAll`, and `LogoutAll` →
`RevokeAll` are the handlers that end sessions; `Logout` verifies its token, `RevokeOne` revokes it in a
later step, and a handler that dies in between has ended nothing.

`Sessions` is what this promises a user: a session is opened, is held by one token at a time,
advances to a newer one, and once closed is never held again. `ImplementsSessions` is the
refinement, of behaviours in which handlers do not overlap: the holder of a family is its live
token, leaving out a parent between the two writes of a rotation.

### SessionClient

The browser composed with `RefreshTokens` (which it extends): `stored` is the refresh token in
`localStorage`, `valid` whether the access token still is, `call` what the page awaits on each
connection. Every token that reaches the server comes out of this store, so a replay is an
honest one. A call begins with the 401 it was answered; `TryRefresh` reads the store again,
`Refreshed` stores the answer *whatever the store holds by then* or clears it, `SignOut` sends
the token that is stored now, or its request is lost, and `SignedOut` clears the store whatever was
answered (`api/auth.ts:65` swallows every failure): `left` are the sessions the user has signed out
of, `ended` those whose end the server has confirmed. `RequestLost` and `AnswerLost` are a rejected
`fetch`: `tryRefresh` passes it on and leaves the store alone, a loading page
(`AuthContext.tsx:65-85`) and a sign-out clear it.

### EmailVerification

One account. `rows` is the table, ordered by number; `Issue` → `DeleteCodes` → `CreateCode` →
`SendMail` is `issue()`, three commits and a mail; `Submit` reads the newest outstanding row
and judges the digits by it, `CountWrong` and `Consume` are the two ends.

### Engagement

One post (posts do not interact here), a reaction row and a bookmark row per user, two
counters, and `RECOMPUTE_POST`: `CountReactions`, `CountBookmarks`, `WriteCounts`, with `JobFails`
(BullMQ starts it again). The job's id is keyed by post, so there is one at a time. Nothing in
the code enqueues this job today (`queue.producer.ts:32` has no caller); the documentation says
that it runs periodically. `Reconciles` says whether there are jobs: the run has them, the theorem
`Exactness` is about the code without.

### SocialGraph

`follow()` is check, insert, lock target, lock actor, commit, notify; `unfollow()` is delete
(which commits), then the same locks; `block()` is one transaction that severs both follows.
`Waits` says which transaction waits for which (a row lock, or an uncommitted row with the same
key) and `AbortDeadlocked` is PostgreSQL's detector. These two are external to the code and
modelled from PostgreSQL's documented behaviour.

### Publishing

Creation, reposts and quotes, comments and replies, and both removals, with the four counters.
`CheckBlocks` may refuse at any time: whether a block stands is `SocialGraph`'s subject.

### Pagination

A client walks through a list while rows are added, hidden (soft deletion, moderation, a
block), shown again, or deleted from the table. `findMany` is ORDER BY, OFFSET, LIMIT of
PostgreSQL under Prisma's cursor; `From(c)` keeps the rows not newer than the cursor row, also
when that row is filtered out, and nothing when it has been deleted (external, from Prisma's
documented behaviour). Two rows never share a time stamp.


### AccountLinking

Accounts as the unique keys see them (address, username, Google identity), with who set the
password: the holder of the address or somebody else who typed it in. A *flow* is one round trip
of one browser, `StartGoogle` → `Consent` → `Callback` → `FindByGoogle` → `FindByEmail` → `Link`,
or `ProbeUsername` → `CreateAccount`, → `IssuePair` → `Land`; the number of the flow is its nonce.
`RegisterAccount`, `VerifyEmail` and `DeleteAccount` run between any two of these.

### Subscriptions

One row, `getMine()` as query and insert, `cancel()` as query and update, `changeTier()` as the
one upsert it is. `word` remembers the last change that was answered.

### Queues

What jobs have in common, extended by the three modules below: `Attempts`, `CanFail` and
`AfterFailure`, the state of a job after a run that threw (`queues.module.ts`).

### Moderation, Feeds, CachedPages

`Moderation` is one post: `create()` commits it and enqueues its job in a later step that may
fail; `BeginEdit`, `WriteEdit` are `update()`, which writes back what it read of the fields it was
not sent; the job asks the service about the text *it carries*, takes silence for an end and
writes the verdict to whatever the row has become.

`Feeds` extends it by what readers get, and by the rows between one viewer and the author (`bond`),
which move as they do in `SocialGraph`. A read is two steps, as it is two queries in the code: `Ask`
keeps what the first one has seen (whom the viewer blocks or follows, or the row itself), `Answer`
decides by that and by what the rows are then, with one operator per list (`Timeline`, `ByLink`,
`Following`, `ByService`, `ByPopularity`, `Bookmarks`, `Profile`, `Bio`, ...). Anything may change in
between. `since` remembers what has spoken against showing the post ever since the read began.
`StandingRulesAreHonoured` says which of these each list honours. That of the following feed is
not in any guard: `following()` looks at no block, and hides the posts of a blocked author only because
`block()` deletes the follows, except one that was checked before and came in after.

`CachedPages` extends `Feeds` by `remember()`: `Miss`, `Query`, `Store` in front of the trends, the
hashtags and the leaderboard, each under a key of its own. A behaviour is about one of them. Nothing
that changes a post or an account touches the cache.

### MediaPipeline

`Upload` (signature, decoding), `Put` (file), `CreateAsset` (row), `EnqueueMedia` (job), each of
which may fail after the ones before; `StartMediaJob`, `MarkProcessing`, `JudgeMedia`,
`WriteStatus`, `MediaJobDone`, with `MediaJobFails` anywhere between them: a worker that dies after
the last write has its job repeated, and the repetition may turn a FAILED asset READY when the
service is silent by then. `CheckMedia` and `Attach` are a post that takes the asset, the check a
step before the write. What is uploaded is an image, a video, something that begins like one of
these and does not decode, or of no known type; pictures are decoded by the upload, videos are not.

### Notifications

`Notify` writes a row and lets go of its publication, which `Push` delivers or loses; `TellerFails`
runs a job again after it has written. `screen` is what the recipient's page has got.

### Chats

`getOrCreateDirect()` is check, query, insert under the unique key; `createGroup()` query and
insert; `sendMessage()` is `Send` (membership), `InsertMessage` (the time stamp), `Commit` (the
transaction with receipts and `lastMessageAt`) and `Push` by the gateway. Tokens, sockets and
rooms say who may call; `Account` is what other handlers do to blocks, status and tokens.

### PostScreen

The feed and each opening of the comments are *panels*: a list that is loaded once and a form
whose answer is appended, each of whose calls is sent, served at any later moment, and received or
lost. `heart` is the like button with its one call at a time. `user` and `account` are what the
page and the server know of the confirmation.

### BotLifecycle

`up` is what is open, `phase` how far start or stop has come, `config` what the settings enable.
Start is a straight line that an error leaves without closing anything (`StartFails`), stop a
straight line that a dead poller interrupts (`StopFails`).


## 4. Runs

Two kinds of statement are checked of most components. Some hold in *every* behaviour,
whatever overlaps, dies or gets lost. Others are what the comments of the code promise and
hold of handlers that do not overlap; for these the MC modules add a history variable: `calm`,
TRUE as long as no two handlers have overlapped and none has died, or `orderly` of the browser,
TRUE as long as no two calls have overlapped and the answer of no refresh was lost on an open page
(handlers may die; other requests and answers may get lost). The
property asks for them while it lasts; or the module itself remembers the one
thing that spoils the promise (`overlapped`, `overtaken`, `lateFill`, `disturbed`, `met`, `lost`).
One run of a component so checks both, on the same states.

Runs that pass:

| Run | Configuration, module | Question, and why the bounds are enough |
|---|---|---|
| `tokens` | `RefreshTokens`, MCRefreshTokens | Two handlers of two users, which may die anywhere; three rows allow a login and two rotations of one token, or two sessions; one password change. In every behaviour: `Lineage`, `ClosedSessionStaysClosed`, `DrainedCredentialStaysOut`, and a session comes to have two live tokens only when rotations overlap or one dies between its writes (`ForksOnlyByOverlapOrDeath`). While calm: `PasswordChangeEndsSessions` and the refinement of `Sessions`. The clock stands still here (`MaxTime` 0); expiry is exercised by `client`. |
| `client` | `SessionClient`, MCSessionClient | Two calls over a lossy network, two rows (a login and a rotation, or two logins), access and refresh tokens that expire. In every behaviour `EveryCallSettles`; while orderly the browser replays nothing (`OrderlyClientNeverReplays`), its stored token is the live one, and after a sign-out the store is empty and the session, *if the server has confirmed it*, ended (`OrderlyStoreAgrees`). A sign-out that is lost or dies leaves the session live, and the browser says nothing of it. |
| `accounts` | `Accounts`, MCAccounts | *Confirmation*: three handlers, two codes, a limit of two, so that three guesses overlap at the limit: `AttemptsBounded` allows the overrun by guesses that run at once and no other, `DeadCodeStaysDead`; while calm one code is outstanding and the newest mail holds it (`CalmNewestMailWorks`). *Google*: two flows, two accounts, two addresses, one identity that has moved from one address to the other and one that Google does not vouch for: `LinkedByHolder`. *Cookies*: two flows in one browser or two: `LoneSignInIsNotRefused`. *Subscription*: three calls: `SubscriptionIsLastWord`. |
| `engagement` | `Engagement`, MCEngagement | One user with two slots (double clicks, a switch racing a toggle), two types, and the job. Three ids: the row that is there, the row a second handler has seen, and a fresh one. `CountBound` keeps a counter that drifts run after run from growing for ever. Users do not share rows; that their increments commute is proved for any number of them. |
| `social_graph` | `SocialGraph`, MCSocialGraph | Two users, two handlers, all four routes, deaths and deadlocks. A lock cycle needs two users who act on each other, and two handlers. |
| `publishing` | `Publishing`, MCPublishing | One user who is also a moderator, two posts, two comments, two handlers: a repost, a reply that names a comment of the other post, a parent deleted on the way, double removals. `Consistent` is the types, `RepostsExact` and `ThreadsStayOnPost`. |
| `chats` | `Chats`, MCChats | Two users, two handlers, two chats (a direct one and a group, or two attempts at one pair), two messages that may overlap. A behaviour is about accounts, blocks, rooms or messages. `ChatsConsistent` (one direct chat per pair; a receipt for every other member; rooms hear what is in the history, and members only), `InOrderUnlessOverlapped`, `NoChatAcrossBlock`, `DeletedAccountFallsSilent`. When all are gone nothing more can happen. |
| `content` | `Content`, MCContent | *Edits*: a post with a good and a bad text, two editors, a job of two runs: `ApprovedUnlessEdited`. *Reads*, *bonds*: one read of ten kinds by a visitor, the author or a viewer, while the post is judged and removed and the author deleted, or while follows and blocks change: `StandingRulesAreHonoured`. Each rule is about one of these two, so they need not change in the same behaviour; the theorem `StandingRulesHold` is about all at once. *Pages*: the post or the author without edits, two fills of the cache, a TTL of two ticks (one for the leaderboard): `PagesForget`. *Media*: one upload of any kind, a job of two runs, two posts that take it: `ShownVideosWereCleared`, `RefusedStaysOut`. *Notifications*: three events, told by a handler, by a job, and to oneself: `ToldOncePerRun`. `JobsLand`: every job of a post or an upload ends with its result in the row, or without any if the service or all runs failed. Uploads and posts do not meet, so one of each is enough. |
| `edges` | `Edges`, MCEdges | *Walk*: page size two, six rows: three pages, with rows that come, hide and are deleted between them: `NewestFirst`, `OneMissAtABoundary`, `WalkEnds`. *Feed*, *comments*: two openings of one modal or the feed, an item of the user's and one of others' or two of his, calls served and lost in any order: `ScreenIsComplete`. *Heart*: `HeartIsTrueUnlessLost`. *Bot*: every setting, every fault: `StopsInOrder`. |

`Symmetry` (interchangeable users, slots and ids) is used by runs without liveness only. `content`,
`accounts`, `chats` and `edges` do not look for deadlocks: a finished job, a served sign-in, a
stopped bot are where the system may stop.

Runs that exhibit a disagreement between the code and what a comment says of it. Each is a small
instance, and the text quoted is in the comment of the property:

| Run | What happens |
|---|---|
| `parallel_refresh` | Two calls refused together refresh with the same token; the second counts as theft and ends the session of an honest user (`HonestClientNeverReplays`). |
| `blockers_in_timeline` | A viewer who blocks nobody asks for the timeline and is shown the post of an author who blocks him: `visibleWhere()` adds the clause about such authors only when the viewer blocks somebody himself (`posts.service.ts:235`) (`BlockersAreHidden`). |
| `pagination_loses_rows` | The cursor names a row that was not shown, and the next page skips it: the first row of every further page is lost (`WalkShowsEverything`). |

The same modules reach further behaviours that a careful reader of the code should know of. They
are the reason for the shape of the properties above (what is conditional, and which step is named
as the only cause of a drift):

* A rotation that dies between its two writes leaves two live tokens (`token.service.ts:82`: the
  transaction client is not used; `docs/SECURITY_AUDIT.md` lists this as known and open). One that
  is past its read inserts a live child into a family that reuse detection has just revoked.
* A rotation in progress while the password changes carries its session over the change
  (`users.service.ts:44`); `DrainedCredentialStaysOut` says what is true instead.
* When the answer of a refresh is lost, the next refresh counts as theft (`http.ts:65`); a refresh
  in flight at sign-out leaves a live token behind (`api/auth.ts:57`), and so does a sign-out whose
  request is lost or fails (`api/auth.ts:65`).
* Guesses that overlap count beyond the fifth (`email-verification.service.ts:73`), and two
  resends can leave two outstanding codes (`:39`).
* Two overlapping Google sign-ins of one browser can both fail: the first answer clears the
  cookie, whichever flow it belongs to (`auth.controller.ts:179`). A deleted account keeps its
  `googleId`, so its identity is refused from then on; an account that has no password cannot be
  deleted, since deletion asks for one.
* Nothing ends a subscription period: `currentPeriodEnd` is written and never read.
* The reconciliation job overwrites a like that committed while it counted
  (`counters.processor.ts:46`); `DriftOnlyByOvertakenJob`.
* Two users unfollow each other, and the deadlock victim has deleted its follow and never
  decrements (`follows.service.ts:67`). A block deletes follows and moves no counter
  (`block.service.ts:26`). `CountersNeverUndercount` is what is left.
* A follow past its check commits after the block (`follows.service.ts:28`);
  `SeveredPairStaysSevered` is about a pair without such a follow.
* Two removals of one row decrement twice (`posts.service.ts:149`, `comments.service.ts:126`);
  `DriftOnlyByDoubleRemoval`. Nothing ever decrements `repliesCount`.
* An edit is not judged: `update()` enqueues nothing and leaves the status alone, so an approved
  post may come to say anything (`ApprovedUnlessEdited`). An edit that overlaps another puts the old
  value back into the fields it was not sent.
* Direct links, images, bookmarks, hashtags and the recommendation service do not ask for the verdict,
  trends, following and the latter three for no block; profile visibility hides the bio and no post.
  `StandingRulesAreHonoured` says where each rule does hold.
* A page of trends that was queried before a removal and stored after it lives a whole TTL
  (`redis.service.ts:55`); `PagesForget`.
* A media job whose every run fails leaves its asset PROCESSING; one that is repeated after its last
  write may turn a refused asset READY. A picture is READY before it is judged, an asset may be
  refused between the check and the transaction of `create()`, and a post that took it keeps it.
* A repeated notification job tells twice (`notifications.processor.ts:32`).
* Blocks do not reach a chat that exists; the message that commits last sets `lastMessageAt`, even
  to an older time; a socket outlives account and token (`chat.gateway.ts:79`).
* A list that arrives after an item was appended drops the item or, when the server had it already,
  the form shows it twice (`CommentsModal.tsx:58`).
* A bot whose polling has died raises in `stop()`, and the user client, the back-end client, Redis
  and the engine stay open (`runner.py:93`).

Read together these say how far each promise reaches: sessions do behave as promised one handler
at a time, closed sessions stay closed in any interleaving, counters err in one direction only, a
walk misses one row per boundary and never more, jobs end.


## 5. Fairness

* `MCClientFairSpec` of MCSessionClient: the server runs the handlers it has started and the browser
  the continuations of its promises (weak fairness of `Continue`, per slot). New calls, lost
  answers, deaths and the clock are not fair.
* SocialGraph's `FairSpec`: handlers run on. A contended row lock may be taken and freed again
  and again while a handler waits, so weak fairness would not serve it; PostgreSQL queues waiters
  in order of arrival, hence strong fairness of `Proceed`. The deadlock detector runs after
  `deadlock_timeout`: weak fairness of `AbortDeadlocked`. New requests are not fair.
* `MCSpec` of MCEdges (and Pagination's `FairSpec`): the client keeps scrolling, weak fairness of
  `FirstPage` and `NextPage`. Nothing else of that run is fair.
* `MCSpec` of MCContent: BullMQ hands waiting jobs to workers and a worker that lives goes on
  (weak fairness of `Worker` and of `MediaWorker` of each asset). Requests, edits, failures and
  the clock are not fair.


## 6. Proofs

Each `...Proofs` module extends what it is about and TLAPS, the MC module included where the
theorem is about a history variable or a composition. Assumptions are the named `ASSUME`s
of the components: bounds are naturals, users and slots are finite where a cardinality is taken,
the values that stand for "none" are not users. No bound has a particular value, so a theorem
speaks of any number of users, handlers, rows, pages, retries and clock ticks. Every invariant
and every action property of a passing run is a theorem, and the refinement of `Sessions` too.

| Module | Theorems | Argument |
|---|---|---|
| `SessionProofs`, the server | `TypeCorrect`, `LineageCorrect`, `ClosedSessions`, `DrainedCredentials`, `ForksExplained` | `StepShape` reduces every step to six shapes as the sessions see it: a step that only revokes and moves one handler, one that admits a login or a rotation, an insertion, a retirement. `Lineage` is inductive with `TypeOK`; its part about handlers between the two writes (`RetiringOK`) is what makes it so: the link is stored one step after the child was, and must then still be legitimate. A closed session can only be reopened by an insertion, an insertion needs a rotation past its check, and such a rotation is what "closed" excludes; admission needs a live token. A second live token needs an insertion whose family has moved on, or the loss of the handler that was about to retire the parent. |
| `SessionProofs`, one handler at a time | `OldSessionsEnd`, `CalmRefinesSessions` | `CalmOK`, inductive while `calm` lasts: one handler is in progress, what it has checked is still so, and a live token is current or its owner's tokens are about to be revoked. The refinement is proved step by step: `OpenStep`, `AdvanceStep`, `CloseStep`, `RevokeStep` and `RetireStep` say which abstract step each kind of step is; `OneHolder` says that the holder is one token. |
| `SessionProofs`, the browser | `StoreAgrees`, `HonestClient` | `ServerMoves` and `BrowserMoves` say what each action does to rows, slot, call and store, once and for all. `ClientShape` ties the program counter of a slot to the call that owns it. `OrderlyOK` is the rest: the token a call works on, or that is stored while none is under way, is `Usable`: live, the only one of its family, and of a family that was not left; between the two writes of a rotation this holds of parent and child together (`Handed`); what was left is `Over`. A rotation that dies loses the live token with its answer, and the browser clears its store, so nothing is replayed. |
| `EngagementProofs` | `TypeCorrect`, `Healing`, `DriftCause`, `DecisionsAreCurrent`, `Exactness` | `Balanced`: a step of a handler keeps the distance between each counter and its rows. The job is the only step that does not. Without jobs the distance is zero for ever (`Exactness` assumes `~Reconciles`). With them, the counts are those of the rows unless a commit has set `overtaken`. |
| `SocialGraphProofs` | `TypeCorrect`, `NeverUndercount`, `SeveredPairs` | A deleted follow is owed by the handler that deleted it: `followers >= follows + owed` is inductive where `followers >= follows` is not. Every step moves follows and debts by the same amount, or loses a debt (a death, a deadlock), which only widens the gap. |
| `PublishingProofs` | `RowsAreConsistent`, `CountersDoNotOvercount`, `OnlyDoubleRemovalDrifts` | `IInv` adds to the checked invariants that rows refer to rows that exist and carry no count before they do (`RowsRefer`), and that a handler about to commit knows the post of the comment it answers or removes (`HandlersThreaded`), although its parent may be deleted by then. `OnlyDoubleRemovalDrifts` follows row by row: a removal takes one row and one count, except when the row has been taken before. |
| `AccountsProofs`, confirmation | `TypeCorrect`, `AttemptsCapped`, `DeadCodes`, `NewestMailWorks` | A guess that enters finds fewer than the limit; each further one that is counted was in a slot when the last was. Attempts plus guesses about to be counted stay below limit plus slots. For `NewestMailWorks`, `CalmInv`: what the one handler in progress has done so far (`HandlerSees`), and between handlers the one outstanding code is the one that was mailed last. |
| `AccountsProofs`, sign-in with Google | `OnlyTheHolderIsLinked`, `AloneMeansAccepted` | `LinkIInv`: an account that is confirmed, linked, signed in to *or held by a flow on its way there* is the holder's (`HeldByHolder`; without the flows it is not inductive, since `Link` writes two statements after the row was found); an undisturbed flow finds its own cookie, and two flows of one browser that are both under way have disturbed one another (`CookiesOK`). |
| `AccountsProofs`, subscription | `SubscriptionKeepsLastWord` | A call that is about to cancel has seen a row, and rows are not deleted. |
| `EdgesProofs`, lists | `TypeCorrect`, `PagesInOrder`, `OneRowPerBoundary` | While there is a next page, everything shown is above the cursor. What a walk has missed so far is what was listed all along, is not shown, and lies above the cursor (`Missed`): `MissInv` says it is at most one row per turn. A page is the `Limit` newest rows after the skipped one, so nothing inside it is missed (`NothingSkippedInside`), and skipping costs one row (`SkipOne`). |
| `EdgesProofs`, the screen | `ListsAreComplete`, `HeartIsTrue` | `PanelOK` is what holds of one panel, given the rows of the server: what was made after its list was read is not on it, unless load and form have met. It is stated of a record and proved for each change of a record; `ScreenInv` adds what holds between panels. An answer for the heart that is on its way says what the server has; otherwise the button does. |
| `EdgesProofs`, the bot | `BotStopsInOrder` | `BotInv`: what is open is bounded by `AtMost[phase]` from above and by the infrastructure from below. |
| `ContentProofs`, posts | `VerdictsApprove`, `EditsLeaveTheRest`, `StandingRulesHold`, `VerdictsApproveInFeeds`, `PagesForgetCorrect` | The verdict of a post: a job carries the post's text until somebody edits it, its verdict is the service's on that text, and an edit in progress that nobody overtook holds what it read of the fields it was not sent. Reads (`FeedInv`): what has spoken against the post ever since a read began does so now (`StillStands`), and the first query has seen as much of it as it looks at (`WasSeen`), so the second one or its guard refuses; a follow that is there together with a block came in after it (`FollowIsMarked`), which is why the following feed may do without looking at blocks. Each list then owes what `Honours` says of it. The cache (`PageOK`): a page that shows what has left it was stored by a call that queried before, and ends one lifetime after it was stored. Every step of the feeds is a step of `Moderation` or leaves its variables alone. |
| `ContentProofs`, media and notifications | `OnlyClearedVideosAreShown`, `RefusedMediaStaysOut`, `EventsAreToldOnce`, `ContentIsSafe` | `AssetOK`: how far an upload and its job have come says what there is of the asset; a video is READY only after a run that let it pass, and a job that takes a refusal back is past its first run. `FilmsCleared`: the same of a video on its way into a post, whatever has become of its status since it was checked. `TellersOK`: an event that is being told has a run for every row there is of it, and one more. |
| `ChatsProofs` | `ChatsConsistentCorrect`, `InOrderUnlessOverlappedCorrect`, `NoChatAcrossBlockCorrect`, `DeletedAccountFallsSilentCorrect` | `IInv` adds to the checked invariants what the record of a handler says of the rows (`RecordOK`: whom it tells, which message it is about to commit, that this is not yet in the history and, where sends have not overlapped, newer than all that is) and that two handlers do not commit the same message (`Apart`). A badge is bounded by the image of the messages under `m -> <<m, u>>`. A chat gets its key from a handler past its check, and a handler passes its check only when no block stands. |

Model-checked and not proved: liveness, which TLAPS does not prove under fairness
(`EveryCallSettles`, `EveryRequestEnds`, `WalkEnds`, and `JobsLand`, which is `EveryVerdictLands`
and `EveryAssetSettles`). The theorems about `calm` and `orderly` speak of
the MC modules' specifications, which only add the history variable; those about `MediaSpec` and
`MCSpec` of MCContent use no fairness. Two theorems have no run: `Healing` (of a job
that nothing overtakes) and `EditsLeaveTheRest` (of edits that nothing overtakes).


## 7. Not modelled, and what is left

Left out for good: JWT signing, password hashing, token strings, S3, SMTP, image decoding,
Swagger, configuration and health checks, rate limiting (a library with its options), the seed
script, the layout of the pages, the FastAPI stubs, roles (a lookup in a table that no handler
writes). They are pure functions or I/O and the properties do not depend on them.

Left out because nothing reaches them: `recomputeReputation()` and the fan-out of notifications
have processors and no caller (the same holds of `RECOMPUTE_POST`, which is modelled since the
documentation says that it runs); stories, comment reactions and leaving a chat exist in the schema
only.

Left out so far: `ConnectionPool` (rotations that each hold a connection and need a second one;
the pool's size and timeout are configuration), the other two counters of `RECOMPUTE_POST`, time
stamps that are equal.

Not modelled either: a worker that lost its BullMQ lock by stalling and goes on beside the run that
replaced it (a run ends before the next one starts here), so two runs of one job never write in
turns.

Modelled from outside of the code: PostgreSQL's locks and its deadlock detector, Prisma's cursor on
a row that has been deleted (it finds nothing), Google's consent, socket.io's disconnection,
aiogram's polling. BullMQ is taken to accept every job id; versions that refuse ids with a colon
would refuse those of `queue.producer.ts`.

To be proved next: that `orderly` behaviours of the browser refine `Sessions` as well although
handlers may die in them, with the session ending where the answer is lost; a bound on how far
`CountersNeverUndercount` can be from equality, in terms of the requests that died.
