# Nodist in TLA+

Nodist is an Express + TypeScript server with MongoDB, Redis, socket.io and web
push: accounts and sessions, e-mail verification and password reset, stored and
emitted notifications, device subscriptions, and a process that boots, serves and
shuts down.  This directory specifies what its handlers do when they interleave,
fail half way or meet a store that changed since they read it, how long a sign-in
lasts, and what the process does with a request from the first middleware to the
answer.  TLC checks it on small instances; TLAPS proves every safety invariant and
every action property, and the refinements, for any number of requests,
accounts, clients and documents.

Paths below are relative to the repository root.

## The system

| component | state it keeps | operations | who it talks to |
|---|---|---|---|
| `src/modules/auth` | Redis keys `refresh_token:<user>`, `email_verify:<hash>`, `password_reset:<hash>`, each with a TTL; cookies at the clients | register, login, refresh, logout, change-password, verify-email, forgot-password, reset-password, resend-verification, me | users in Mongo, Redis, mail, notifications |
| `src/common/middlewares/authenticate.ts` | none: the access token is only verified | guard of every signed-in route | - |
| `src/modules/user` | the `users` collection, unique index on `email`, a pre-save hook that hashes | list, get, update (name, isActive), remove | Mongo |
| `src/modules/notification` | the `notifications` collection | create, list by pages, mark one read, mark all read | Mongo, sockets, push |
| `src/sockets` | a room per user | token at the handshake, join, emit | the HTTP server |
| `src/modules/push`, `src/common/utils/webPush.ts` | the `pushsubscriptions` collection, unique index on `endpoint` | register, list, remove, send | Mongo, the browsers' push services |
| `src/server.ts`, `src/config`, `src/database/*/connection.ts` | the process, both store connections, the listening server, the shutdown timer | environment check, boot, shutdown | all of it |
| `src/common/middlewares/rateLimiter.ts` | counters per client and window, in memory | limit | - |
| `src/app.ts`, the routers, validation, error handler, health, loggers | none but the request under way | pass a request down the chain, answer it, log it | every handler |
| `src/common/utils/mailSender.ts` | none | send, errors swallowed | SMTP |

Node runs one turn at a time, so the hard behaviour is never inside a turn: it is
between two awaits.  Every handler is a sequence of store commands, none of them in
a transaction, and any other handler may run between two of them.  The recurring
shapes are

* check, then act: the password is compared and the tokens are issued later; a
  document's owner is tested and the document deleted later; an address is looked
  up and inserted later; a one-time key is read and deleted later;
* several writes that belong together: save the password and revoke the session;
  save the flag, create the welcome, drop the key; insert, emit, push;
* parallel commands of one handler (`Promise.all` in `send`), of which some fail;
* what outlives its subject: access tokens, Redis keys, subscriptions and cookies
  of a deleted account;
* four deadlines set by one sign-in, each from its own reading of the configuration;
* shutdown asked for twice, with websockets that nobody closes, while requests are at
  any point of the chain.

`PROJECT.json` lists each of these as a hazard at its line, with the properties
that would catch it going wrong.

### What makes each part correct

* **Sessions.** One session per user; a refresh token works once; a token that was
  rotated out, logged out, revoked or expired never works again; a session of an old
  password does not outlive the change that replaced it.
* **One-time links.** A used reset link is refused; a verification link is not
  given up before the welcome exists; one live account per address.
* **Push.** One document per browser; what was removed does not come back; a send
  forgets only endpoints that are gone for good; each write hands over, drops or
  subscribes one device, whatever its handler had loaded.
* **Notifications.** A tab that connects and then reads its list misses nothing, and
  paging skips nothing, but where two notifications share a millisecond; the counts of
  read-all add up.
* **Lifetimes.** What an access token may still do once its holder has signed out, was
  deleted or demoted ends within its own lifetime, unless a refresh had passed its check
  when the session ended; the JWT, the Redis key and the cookie of a session end together.
* **Requests.** The server blames itself only when a store is down, but for five errors
  that are named; a failure is logged once; the two routes that send mail
  share one budget; a client gets less than twice a limiter's budget in any span as long
  as its window, and is refused only when it has had the budget.
* **Process.** Exit code 0 means both stores were closed and every request that was
  still connected got its answer; shutdown ends, and
  so does boot unless Redis takes the connection and is silent.

## The modules

| module | models | lines of the code |
|---|---|---|
| `AuthService` | the nine handlers of auth that change state, with the user document and the three kinds of Redis key | `auth.service.ts`, `auth.controller.ts`, `authenticate.ts`, `user.model.ts`, `user.service.ts` |
| `SessionRegistry` | abstract: what `refresh_token:<user>` promises, with two operations, Open and Close | - |
| `AuthServiceProofs`, `AuthTokenProofs` | the inductive invariants and the theorems on `AuthService`: sessions, then one-time tokens and addresses | - |
| `PushProofs`, `NotificationsProofs`, `ServerProofs`, `HttpServerProofs`, `TokenLifetimesProofs`, `RateLimiterProofs` | the same for the module each is named after | - |
| `TokenLifetimes` | the clock: the deadlines of access token, refresh token, Redis key and cookie, the two readers of a configured lifetime, roles | `auth.service.ts`, `auth.utils.ts`, `auth.controller.ts`, `authenticate.ts`, `config/index.ts` |
| `PushSubscriptions` | register, remove and send, with the parallel pushes and deletions | `push.service.ts`, `push.repository.ts`, `webPush.ts` |
| `DeviceRegistry` | abstract: what the `pushsubscriptions` collection promises, with three operations, Subscribe, Transfer and Drop | - |
| `Notifications` | create (insert, then emit), rooms, paging, both read marks | `notification.*.ts`, `sockets/index.ts`, `BaseMongoRepository.ts` |
| `ServerLifecycle` | environment check, boot, connections, shutdown | `server.ts`, `env.ts`, `connection.ts` |
| `HttpServer` | composition: the chain of `app.ts`, all routes with their schemas and the ways their handlers end, rate limiters, error handler and loggers, over the connections and stores of `ServerLifecycle` | `app.ts`, `*.routes.ts`, `*.validation.ts`, `*.controller.ts`, `common/middlewares/*`, `AppError.ts`, `ApiResponse.ts` |
| `RateLimiter` | the clock of the two limiters: one client, and the fixed windows the store of express-rate-limit keeps for it | `rateLimiter.ts`, `app.ts`, `auth.routes.ts`, `config/index.ts` |
| `MCAuth`, `MCPush`, `MCNotifications`, `MCServer`, `MCHttp`, `MCClocks` | instances for TLC: symmetry, and who owns what | - |

### How actions correspond to the code

In `AuthService`, `PushSubscriptions` and `Notifications.Creating` a handler is a
process with a program counter.  **One action is one store command** - the moment it
takes effect - with the synchronous code from there to the next `await`: a `findOne`,
an `insert`, a `save`, one Redis command, one `bcrypt.compare` (which suspends the
handler as well).  Each action carries the branches its result decides, the error
answers included; an error answer ends the handler in `"failed"`, the way `catchAsync`
hands it to the error middleware, and `Fail` is a command that rejects.  A process that
dies is a `Fail` of every handler under way: the stores keep what was written, the
request is never answered.

`resetPassword` reads its key (`ResetGet`), loads the user (`ResetUser`), saves
(`ResetSave`), deletes the key (`ResetDelKey`) and revokes (`ResetRevoke`), in this
order; `changePassword` finds, compares, saves, revokes; `issueTokens` is one SET,
and the answer with its cookie is a step of its own (`Respond`), so a session can be
in force that no client was ever told of.

In `HttpServer` a request goes down the chain in one turn of the event loop
(`Arrive`): the chain is synchronous up to the handler, or to the first link that
stops it.  `Links` lists the links in the order of `app.ts` and the routers, each with
the condition that stops a request and the error it gives (express decodes the id of a
path while it matches the route, before `authenticate`); the limiters count what
reaches them.  The answer is a step of its own (`Answer`), so requests wait while
windows end, stores go down and the shutdown begins.  A handler is there the set of the
ways it may end, one table per module (`authThrows`, `authController`, ...); what it
does to the stores is in its own module.  `errorHandler` maps what was thrown to a
status, `requestLogger` and `ErrorLogged` are the two places that log.  `Request`,
`Respond` and `HangUp` of `ServerLifecycle` are conjuncts of `Arrive`, `Answer` and
`Leave`, and the process around them is `Process`.

In `TokenLifetimes` the two handlers that issue tokens are sequences of steps, and time
may pass between them: `refresh` gets the key (`RefreshGet`), finds the user
(`RefreshFind`) and issues (`IssueTokens`), `login` finds the user and issues.  So a
sign-out, a deletion or a change of role may come between a check and the SET that rests on
it.  What ends a session is one command each, and one step.  `Advance` jumps to a deadline
or to the second before it, the only moments at which anything changes.
`parseExpiryToSeconds` and `JwtSeconds` are the two readers of one configured text, the
second being the JWT library's as the code uses it.

In `Notifications` a page is what a query may answer: `Sorted` is the set of the orders that
agree with `createdAt`, and `Pages` the slices of them, so notifications of one millisecond
may stand either way round, and differently at each page.

In `RateLimiter` a request is one step: the library's memory store answers without
leaving the turn.  A hit that finds its entry's `resetTime` reached opens a new window;
any other counts in the window that is open and leaves its end alone.  A request for mail
comes to the sensitive limiter only if the global one lets it through.  `HttpServer` has
what else the chain does, and windows that end at any moment; `RateLimiter` has the
moments.

**Names.**  Everything the server makes up is fresh: an ObjectId, a jti (uuid), a
random token, a bcrypt hash with a new salt.  The model names each by the request
that made it, so a `jti`, a reset token and a new account are all members of
`Requests`, and there is no counter to bound.  An operation that takes a choice of
the caller (an address, a cookie, a mailed token) ranges over everything a client
could hold.

**History variables.**  `spent` (jtis that have left the registry), `late` (requests
past their check when a revocation came), `unrevoked` (password saves not yet
followed by a DEL), `takenFrom`, `base`, `early`, `served`, `owed`, `passed`, `ended` and
`demoted` of `TokenLifetimes`, the `entry` and `since` of a call there and the `took` of a
token are read by properties, or bound what an external service may do; no guard of a
handler reads one.

### What is abstracted

* In `AuthService` an access token is never refused: it is accepted as long as a cookie
  was issued with it, which allows more than the code does; and a key may expire in any
  state in which it is there.  `TokenLifetimes` has the expiry of both.
* A mail arrives or not, and `sendEmail` tells the handler neither.
* A requester may type any password; it matches if it is the one hashed.  A new
  password is always different from every earlier one.
* `save()` of a loaded document writes the changed fields and rejects when the
  document is gone, which is Mongoose's behaviour for an update that matches nothing.
* Push keys (`p256dh`, `auth`) and user agents are left out; so are the list routes
  of push and users, and the `total` and `unreadCount` beside a page: they read only.
* A notification's `createdAt` is the millisecond of the one before it or a later one;
  what matters of stamps is which are equal.
* The signing of tokens, the SET and the answer with its cookie are one step of
  `TokenLifetimes`: the seconds between them are not told apart from the moment of the SET.
* Redis may be silent in `ServerLifecycle` while the process boots.  Later a silent store
  is a request that waits: no property of `HttpServer` says it is answered.
* `Promise.all` over the deletions of `send` is a set of commands that take effect,
  or reject, one by one, and go on taking effect after the call has failed.
* A client that hangs up does not stop its handler, so a handler may still run when
  `close()` calls back; for the stores that is a `Fail` when the process exits.
* Time in `ServerLifecycle` is the fact that the timer was set; in `HttpServer`, that a
  limiter's window may end at any moment.
* A schema is the parts of the request it reads, and accepts or refuses them; what a
  token is good for is `none`, `user` or `admin`.
* A limiter counts up to one past its limit: larger counts are alike.  Its counters end
  with the process and belong to one process; `RateLimiter` is about that one.  Its clock
  does not go back.
* A client of `HttpServer` is an IP address with one connection and one request at a time.
* A role is only ever set on the database: no route writes it.

## The runs

| run | instance | checks |
|---|---|---|
| `auth` | one account with a session and three further requests, each any of the nine handlers; expiry, deletion, failures at every step | `TypeOK`, `NoStaleSession`, `UniqueEmail`, `SpentNeverAccepted`, `ImplementsRegistry`, `UsedResetTokenRefused`, `WelcomeNotLost` |
| `push` | five calls, two users, two endpoints | `TypeOK`, `UniqueEndpoint`, `RemovedStaysRemoved`, `SendDropsOnlyGone`, `ImplementsDevices` |
| `notifications` | three notifications with equal or later stamps, two recipients, one tab, two callers of read-all, pages of two; the tab and the callers share only the read marks, and each is explored while the other has not begun (`Apart`) | `TypeOK`, `NothingMissed`, `PagesSkipNothing`, `ModifiedOnce` |
| `server` | two clients, two causes of shutdown, every environment | `TypeOK`, `CleanExit`, `DrainedFirst`, `ShutdownEnds`, `BootEnds` |
| `http` | one client and every route, each limit one, all kinds of token and of fault, one cause of shutdown | `HTypeOK`, `MailBudget`, `LoggedOnce`, `BlamesItself` |
| `clocks` | `TokenLifetimes`: two browsers of one account, two issues of tokens; the default settings, or one of them changed: six lifetimes of the session, an access token that outlasts it, another prefix; `RateLimiter`: one client, windows of two and three moments with limits of three and two, at moments 0 to 7.  They share no state, and each is explored while the other has not begun | `TypeOK`, `PowerBounded`, `SignedOutBounded`, `SessionLasts`; `LTypeOK`, `SpanBudget`, `NoneRefusedEarly` |
| `auth_change_race`, `auth_reset_twice`, `auth_welcome_twice`, `push_remove_race`, `server_placeholder`, `server_port_in_use` | the smallest instances that show it | one promise of the documentation each, which TLC finds broken |

`CHECK_DEADLOCK FALSE` everywhere: a request is handled once, so an instance ends when
all are answered, and the process is meant to exit.

### Why these bounds

* **Auth.**  The names of requests are symmetric.  A stale session takes three
  parties: the session of the past (the registered account), a change, and a login or
  refresh that meets it; the third request lets a refresh follow a late login (how
  lateness is inherited), two changes overlap, or a logout cut in.  For resets: a
  forgot and two resets of its link.  For verification: the link of the past, a resend
  and a verification, or a second registration after a deletion.  All seven properties
  are proved for any number of requests.
* **Push.**  The races of two documents need two registrations of one endpoint, a
  removal, and a send that has found either; the fifth call re-registers what has gone.
  Two endpoints give a send two pushes and two deletions, of which one may reject.
* **Notifications.**  Three documents over pages of two give a full page, a short one
  and an insertion before, on and behind the page boundary; a late insertion under an
  older stamp is among them, and so are two or three notifications of one millisecond on
  both sides of the boundary, which is where TLC loses one if `Tied` is taken out of
  `PagesSkipNothing`.
* **Server.**  One cause closes while another comes; one client keeps a websocket while
  the other waits for an answer.
* **Requests.**  The answer of a client depends on its own request, its own counters and
  the process, so one client meets all of it; two are in `server`.  Limits of one put a
  request before, at and past both, in either order of the two windows' ends.  All four
  properties are proved for any limits and clients.
* **Lifetimes.**  Two issues let one browser displace the other, or refresh, log out and
  sign in again, or a refresh of the one cross a sign-out by the other.  The formats are
  both defaults, hours, a unit only the JWT library knows, a zero and text neither can
  read.  A session's life and an access token's do not meet but in which ends first, so
  one setting at a time differs from its default; the theorems hold for every pair.
* **Windows.**  Moments 0 to 7 hold three windows of the one limiter and two of the other,
  which begin anywhere in each other, with requests at any of the moments and as many as
  come.  Proved for any limits, lengths and horizon.

### Fairness

`ServerLifecycle` assumes only what ends on its own: `WF(Booting /\ redis # "silent")`,
because connecting to Mongo succeeds or gives up (`serverSelectionTimeoutMS` in
`mongodb/connection.ts`) and so does a Redis client that is refused or cannot reach its
server (the first failed `connect()` of the lazy client rejects); and `WF(Timeout)`,
because a Node timer that is due fires.  A Redis that takes the connection and never speaks
keeps the boot waiting, since ioredis asks for INFO before it is ready and no
`commandTimeout` is set (`redis/connection.ts:5-9`): nothing is assumed of it, and `BootEnds`
names it.  Nothing is assumed of clients, of pending close callbacks, or of disconnecting
from a store.  `ShutdownEnds` therefore rests on the 10 s timer alone, as it must while a
websocket is open.  The timer is unref'd, so it does not keep the process alive; if nothing
else does, the process ends without it.

The other modules assume no fairness.  That a handler ends is no promise of this code: a
command to a silent Redis has no timeout, nor has the request to a push service.  So no
property says that every request is answered.

## What is proved

`AuthServiceProofs` proves, for every set of requests, registered accounts and
addresses and every choice of operations, under `AuthAssumption` alone (the accounts of
the past are requests and addresses, the operations are those of the router, `None` is
no request):

* `TypeCorrectness`: `Spec => []TypeOK`;
* `SessionFreshness`: `Spec => []NoStaleSession`;
* `RotationIsFinal`: `Spec => SpentNeverAccepted`;
* `RegistryRefinement`: `Spec => ImplementsRegistry`, that is, every step of the
  handlers opens a session nobody ever had, closes one, or leaves the registry alone.

`NoStaleSession` alone is not inductive.  `IssueTokens` puts into force an authority
that was established steps before, so `CarryInv` asks of every request that has passed
its check what `NoStaleSession` asks of the session in force.  A save makes sessions
stale; `UnrevokedInv` says that its handler has then not ended and will still revoke, or
was cut short.  `SessionInv` ties a jti to its account and keeps it out of `spent`, which
needs `TokenInv` (what is spent was issued).  `AccountInv` and `HandlerInv` say that ids
in keys, cookies and handlers name accounts that were created, and that only handlers of
the three kinds reach the awaits where tokens are issued: without them a login could be
carried over to an account that a later request creates.  `IInv` is their conjunction;
one lemma per conjunct shows every step keeps it, with a case for each group of actions.

`AuthTokenProofs` adds, from the same assumption:

* `AddressesAreUnique`: `Spec => []UniqueEmail`;
* `UsedResetTokens`: `Spec => UsedResetTokenRefused`;
* `WelcomeComesFirst`: `Spec => WelcomeNotLost`.

They rest on `TokInv`.  A mailed token's key has been set and will not be set again
(`MailInv`), so it only ever goes away: a reset past its DEL has removed it for good
(`ResetInv`), and a verification keeps working for the account its link names
(`VerifyInv`).

`PushProofs` proves, for every set of calls, users and endpoints, `EndpointsAreUnique`
(`[]UniqueEndpoint`), `RemovalIsFinal` (`[]RemovedStaysRemoved`) and `OnlyGoneDropped`
(`SendDropsOnlyGone`).  The argument is that a document's endpoint never changes and a
registration that has ended does not start again (`DocInv`, `LoadedInv`), so whatever a
call has loaded can be re-assigned or go, but neither come back nor become another
browser's; `RemovedInv` says a send on its way has a deletion issued for each document it
reported that is still there.

`RegistryRefinement` (`Spec => ImplementsDevices`) shows the collection to be a
`DeviceRegistry`.  The mapping reads the document and the owner of each endpoint off the
collection, and takes for retired the documents that have an owner and are not there any
more; `MappingInv` says it is one document each, which is `UniqueEndpoint` put to use.  A
save by a handler that loaded its document long ago is a Transfer or changes nothing, an
insert is a Subscribe of a free device under an id nobody has had, because a document
that has an owner belongs to a registration that has ended (`DocInv`), and a deletion by
id, of a removal or a send, is the Drop of whichever device has that document.

`NotificationsProofs` proves, for any notifications, users, tabs, callers and page size,
`NothingIsMissed` (`[]NothingMissed`), `PagesAreComplete` (`[]PagesSkipNothing`) and
`CountsAddUp` (`[]ModifiedOnce`), the first two for every order that queries may give to
notifications of one `createdAt` (`Sorted`).  `SocketInv` says of a tab that was
connected before it read its list that whatever has been emitted reached it or was there
at its first page; `MarkInv` that a document
counted by one read-all is read.  Paging by offset needs an argument about the list:
a notification alone on its stamp has one place in all of those orders
(`UntiedHasOnePlace`), what arrives pushes it to the back and never to the front
(`RankGrows`), and a page that has something beyond it is full (`PageIsFull`) - were a place
before a notification empty, the ranks of what is newer would map more members into fewer
numbers (`PlacesAreTaken`).  So what was there at the first page and is not shown yet is
still beyond the pages read (`PageInv`), and the page on which turning stops leaves
nothing.

`TokenLifetimesProofs` proves, for any browsers and every pair of lifetimes,
`AdminPowerIsBounded` (`[]PowerBounded`), `SignedOutIsBounded` (`[]SignedOutBounded`) and
`SessionsLastAsConfigured` (`[]SessionLasts`).  The strengthenings say of every token
handed out that its end is within one access lifetime, and the time its issue took, of the
moment the admin was demoted (`AdminInv`), or within one of when the user signed out
(`EndedInv`); and of every call under way that the role it has read was the account's when
it read it, and that a call which was past its check at a sign-out is marked so.  A refresh
reads the role and the account anew, so nothing later can move that end, but for such a
call, whose SET opens a session again.  `CookieInv` ties the four
deadlines to the moment of issue, and `ReadersAgree` makes them one for seconds,
minutes, hours and days.

`HttpServerProofs` proves `DrainedUnderTraffic`, what was proved of the lifecycle under
any traffic; and `MailsWithinBudget` (`[]MailBudget`) for any limits, from `BudgetInv`: a
mail handler that ran has moved the count, and ran on a count within the limit.

It also proves `RequestsKeepTypes` (`[]HTypeOK`), `FailuresAreLoggedOnce`
(`[]LoggedOnce`) and `BlameIsDeserved` (`BlamesItself`), whatever subset of the routes is
called.  Lemmas settle the tables: no route is in two routers (`RoutesAreApart`), what a
handler of any route may end with (`EndingsAreKnown`), the status of each ending
(`StatusesAreKnown`), and that the two places that log split the endings between them
(`RepliesAreLogged`).  What stops a request in the chain is the error of one of its links
(`VerdictIsALinks`, `LinksRefuse`), so only a handler can fail with 500, or a body or
an id that cannot be read.  That a store which is not up is then *down*, and was not
closed by a shutdown under its handler, is `StoreIsDown`, from `ShutInv` and `BootInv` of
`ServerProofs`.  `HInv` carries this from the arrival, where the verdict is found, to
the answer, in another step, and past whatever the process does in between.

`RateLimiterProofs` proves, for any limits and any lengths of the windows,
`BudgetOfAnySpan` (`[]SpanBudget`) and `RefusedOnlyAtTheLimit` (`[]NoneRefusedEarly`).
`SpanBudget` is about all of a client's past, so the invariant (`Window`) remembers of it
what the next request is measured against: the last requests were let through in the
window that is open; the one that opened it, and all before, no later than it opened; and
the one that opened the window before it, and all before that, a whole length earlier
still, because a window opens with a hit and that hit is let through.  This is why the
bound is one less than twice the limit.  `WindowGoesOn` and `WindowOpens` show what a
further request makes of it, for one limiter; `HitKeepsWindow` puts them together.

Each of these modules also states its `TypeCorrectness`.

`ServerProofs` proves `ExitZeroIsClean` (`[]CleanExit`) and `StoresOutliveRequests`
(`[]DrainedFirst`) for any clients and causes, under `LifecycleAssumption` (an uncaught
exception is among the causes; `None` is no exit code).  `ShutInv` says what has been
closed by the time a call of shutdown stands where it stands, and that no connection is
left once any of them has come to the stores.

Only model-checked: liveness (`ShutdownEnds`, `BootEnds`), which under fairness is out of
the prover's reach.  The disagreements below are TLC's counterexamples, not theorems.

## Where code and documentation disagree

1. `auth_change_race`.  "Change password, revoke all refresh tokens" (README.md:196): a
   login that compared the old password before the save, and issues its tokens after the
   DEL, leaves a session of the old password in force.  `NoStaleSession` says precisely
   how far this goes: it is the only way, beside a change that was cut short.
2. `auth_reset_twice`.  "One-time tokens" (README.md:14): the reset key is read at
   `auth.service.ts:186` and deleted at `:195`; two calls in between both reset.  Once a
   call has ended the token is refused (`UsedResetTokenRefused`).
3. `auth_welcome_twice`.  "when the user's email is first verified"
   (docs/architecture.md:138): the notification is created outside the test of
   `isEmailVerified`.
4. `push_remove_race`.  "You can only remove your own push subscriptions"
   (`push.service.ts:52`): the owner is tested on a loaded document, the deletion goes by
   id, and the document may have been re-assigned to another user in between.
5. `server_placeholder`.  "The server won't boot with placeholder secrets" (README.md:316,
   SECURITY.md:41, CONTRIBUTING.md:34): the schema accepts placeholder VAPID keys, and
   `webPush.ts` catches their refusal.
6. `server_port_in_use`.  A start that fails is to be reported and to exit with 1
   (`server.ts:57-59`): a port in use becomes an uncaught exception, whose graceful
   shutdown exits with 0.

These are seen in the models and have no run of their own, because what they disagree
with is a setting or a single answer rather than a behaviour:

* "Refresh token lifetime" (README.md:142): a lifetime the JWT library reads and
  `parseExpiryToSeconds` does not, such as `2w`, gives the JWT two weeks and the Redis key
  and the cookie seven days.  `Agree` in `SessionLasts` excludes it.
* `API_PREFIX` (README.md:135) may be changed, the path of the refresh cookie is written
  out (`auth.controller.ts:26`): under another prefix no browser sends it.  The
  documentation says so itself (README.md:317); excluded by `Agree` as well.
* The live probe is "always 200" (README.md:168) but stands behind the global limiter,
  which answers it 429.
* Notifications of one millisecond: the list is sorted by `createdAt` alone
  (`BaseMongoRepository.ts:29`), so one of two may be on neither of two pages, while the
  other is on both.  `Tied` in `PagesSkipNothing` and `NothingMissed` excepts them.
* "Can be revoked on logout" (README.md:13): a refresh that has read the key
  (`auth.service.ts:100`) sets a new one (`:51`) after the logout's DEL, and the session
  goes on; `SignedOutBounded` excepts the call that does.
* Five errors are answered 500 with both stores up (`Blamed` in `BlamesItself`): a body
  that cannot be parsed and an id in a path that cannot be decoded, although the errors
  carry a 4xx status, which `errorHandler.ts` does not read; a recipient of `push/send` that
  is no ObjectId (`push.repository.ts:16`; `push.validation.ts:16` asks only for one
  character); the save of a document deleted since it was loaded; and a configured
  lifetime that `jwt.sign` or Redis refuses.  An answer of a limiter and the 503 of the
  ready probe are logged nowhere (those named in `LoggedOnce`).
* A Redis that accepts a command and does not answer it keeps its handler, and the client,
  waiting for ever: `redis/connection.ts:5-9` sets no `commandTimeout`.
* "Limited to 5 / 15 min" (README.md:198): the limiters' windows are fixed, so around the
  end of one a client may have more than 5 within 15 minutes; never more than 9
  (`SpanBudget`).

## Not modelled

* helmet, CORS, compression, static files and the configuration of pino: they change no
  state and no status of the routes.
* The handshake token of a socket: a socket is opened by a user and stays in its room.
* The effect of updating a user: `name` and `isActive` are read by no handler.  Its
  answers are in `HttpServer`.
* `src/scripts` and the service worker `src/public/sw.js`: a generator that prints two
  keys, and a sample browser script that shows a notification and keeps no state.
* A composition of verification, notification, push and exit as one module: the push of
  a notification is best effort by the documentation (docs/architecture.md:118), so no
  promise spans them, and its parts are in the modules above.

## Plan

In the order of work; all but 9 are done.

1. `AuthService`, with sessions first: the most state, the most interleavings.
2. `SessionRegistry`, the refinement, and `AuthServiceProofs`.
3. `PushSubscriptions`.
4. `Notifications` with the sockets.
5. `ServerLifecycle`.
6. `TokenLifetimes`: `parseExpiryToSeconds` and the deadlines that come of it.
7. `HttpServer`: the rate limiters, and with them the chain they stand in.
8. `DeviceRegistry` and its refinement, `RateLimiter`, and the proofs of the modules.
9. `Delivery`: a verification, the notification it creates and the push it starts, with
   the process that may exit in between; see above for why it is not there.
