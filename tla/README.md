# Verification of the Stories API

TLA+ specifications of the Stories service, the TLC configurations that check
them on small instances, and TLAPS proofs of the properties that matter most
for every value of the constants.

The service keeps *stories*: images that a user uploads to object storage and
confirms, which are shown to the user's audience for 24 hours. A story is
published at once and moderated afterwards. It runs on NestJS, with PostgreSQL
(through Prisma), S3 storage and Redis, beside three other services: Identity
(who follows whom), Catalog (which caches stories) and an image analyzer.

The repository has no tests. Its `README.md` and `docs/catalog-phase-1.md`
describe the Catalog service it was derived from, and say nothing of stories.
The models are translated from the source. Paths below are relative to the
repository; `stories.service.ts` is `src/stories/stories.service.ts`.

## 1. Inventory

| Component | State | Operations | Talks to |
|---|---|---|---|
| Story writers, `stories.service.ts` | `Story` rows; a timer; the local variables of every handler at an `await` | `confirmUpload`, `removeStory`, `updateAdminStoryStatus`, `adminDeleteStory`, `expireDueStories`, `moderateStoryAfterPublish` | database, storage, analyzer, Catalog, notifications API |
| Story reads, `stories.service.ts` | `StoryView` rows | `listFeed`, `listUserStories`, `markViewed`, `listMine`, `listAdminStories`, `getAdminMetrics` | database, Identity, signed URLs |
| Notices to owners, `stories.service.ts` 1040-1102 | notices on their way | `publishStoryModerationNotification` | notifications API |
| Catalog cache events, `common/catalog-cache-events.service.ts` | events in flight | `publish`, never awaited | Catalog |
| Object storage, `storage/storage.service.ts` | objects in a bucket | upload URL, HEAD, DELETE | S3 |
| Signed read URLs, `storage/storage.service.ts` | a Map per process, keys in Redis | `createStoryReadUrl`, `cacheReadUrl`, `getCachedReadUrl` | Redis |
| Redis client, `redis/` | a connection and its command queues | `onModuleInit`, `ping`, `getHealthSummary`, `onModuleDestroy` | Redis |
| Guards, `auth/`, `common/guards/` | a request's admin, between guards (rate limit counters in a library) | JWT, admin JWT, permissions, tracker | Identity |
| Rate limiting, `common/` | counters in a library | picks the key a request is counted under | – |
| Health, config, logger, bootstrap | none | probes, environment validation, wiring | all |
| Notifications, queue | – | not part of the build (`tsconfig.build.json:11-12`) | – |

### What makes each part hard, and correct

**Story writers.** Each handler is an async function: it reads a row, awaits,
and writes by id what it computed from the read. Between the two run other
requests, the sweep (every minute, and at the start of confirmations and
lists), a moderation that may take 15 seconds, an admin. Nothing is in a
transaction, nothing is locked, no update is conditional except the sweep's.
A handler that fails half way is not resumed, and a restart forgets what was in
memory, including the moderation of a story already published. Correct means:
one story per upload, of its uploader; no story shown under a rejection; a
hidden story comes back only with an approval, an ended one never; the image of
a live story exists; every story ends.

**Reads.** The stories and the audience are read at different moments, from
different services, one of which may be late or down. Correct means: what is
served, and what a view is recorded for, was shown and open to the viewer
during the call. The lists of the owner and of admins do not look at `expiresAt`:
that nothing overdue is shown as current rests on the sweep that each of them
awaits first. The metrics are separate counts beside the writers, over columns
that later writes move.

**Notices.** One POST after the verdict is stored, with a timeout, a log line for a
failure and no retry. Correct means: told once, and not told only for a reason one
can name; and what is told is so.

**Cache events.** Sent once, with a timeout of one second; a failure is logged.
Whether there is an event is decided by a row read earlier, and after a removal
it waits for S3. The lists that Catalog fills its cache from are queried first and
answered later, after calls of Identity and the signing of URLs, so that an event
may arrive between the query and the answer. Correct means: a stale copy in Catalog
is explained by an event in flight or lost, by such a decision, or by an answer
that an event has overtaken; and a removal gets there in the end, unless its event is
lost or overtakes an answer.

**Signed URLs.** Two caches, concurrent misses, writes that are not awaited and
may wait in the client's queue for any time. Correct means: a URL that is served is
still valid for long enough, given how long its SET waited, and the Map stays within
its limit.

**Redis client.** With `maxRetriesPerRequest: null` commands wait for Redis as long
as it is away. A Redis that is away at boot leaves the client *stranded* for the
life of the process: `disconnect()` in the `catch` of `onModuleInit`
(`redis.service.ts:33`) comes when the client is waiting for its next attempt to
connect, cancels that attempt, and leaves a client that neither connects nor
rejects. Correct means: what waits is asked once, and still there; no outage makes
a process give its client up; and unless the client is stranded, what waits is
answered when Redis is back, and shutdown comes to an end.

**Guards.** An admin's token names what was granted when it was issued; Identity
says what is granted now, and may be down, late or not configured. Correct means:
a handler runs for the bearer of the token only, and on what Identity grants
during the request; a request is decided even when Identity never answers.

## 2. The modules

| Module | What it is |
|---|---|
| `Stories` | the writers: table, bucket, handlers, moderations, events |
| `StoryLifecycle` | abstract: what users may see of a story, and the last verdict |
| `CatalogSync` | `Stories` composed with Catalog's cache |
| `OwnerLists` | `Stories` beside `listMine` and `listAdminStories` |
| `OwnerNotices` | `OwnerLists` composed with the notices to owners |
| `AdminMetrics` | the counts of `getAdminMetrics` beside the writes they count |
| `RedisClient` | boot, commands and shutdown while Redis comes and goes |
| `StoryReads` | the reads, over `StoryLifecycle` in place of the writers |
| `FeedAssembly` | the pure part of `listFeed`: groups, order, cut |
| `ReadUrlCache` | signed URLs in Redis and in a Map per process |
| `RequestGuards` | from a token to a handler: JWT, admin snapshot, permissions |
| `StoriesProofs` | the inductive invariant of `Stories`, the safety theorems, and that it implements `StoryLifecycle` |
| `CompositionProofs` | `CatalogSync`, and `OwnerNotices` with `OwnerLists`, on top of it: their invariants, and that they implement `StoryLifecycle` too |
| `RequestGuardsProofs`, `StoryReadsProofs`, `FeedAssemblyProofs`, `ReadUrlCacheProofs`, `RedisClientProofs`, `AdminMetricsProofs` | the inductive invariant of the module they are named after, and its safety theorems |
| `MC*` | values of the constants for TLC |

`Stories` implements `StoryLifecycle` (checked and proved), so `StoryReads` can
extend the small module instead of the large one: what it shows holds for reads
beside the real writers. `CatalogSync` needs to know which write is due which
event, and extends `Stories` itself.

### `Stories` and the code

An action is one awaited call with the synchronous code after it, up to the
next `await`; where a handler computes its update data synchronously after a
read, that is part of the action that reads.

| State | In the code |
|---|---|
| `rows[s]` | a row: `status`, `moderation` (`"none"` for null), `deleted` (`deletedAt` set), `owner`, `key` (`storagePath`), `ttl` (time left until `expiresAt`), `idle` (time since `updatedAt`) |
| `objects` | keys with an object in the bucket |
| `reqs[h]` | where handler `h` is, with its arguments and what it has computed from its reads; `h` is an HTTP request or the timer's sweep |
| `mods[s]` | where `moderateStoryAfterPublish` of `s` is, and the verdict it is about to store |
| `events` | owners with a cache event in flight |

| Code | Actions |
|---|---|
| `createUploadUrl`, then the client's PUT | `Upload` |
| `confirmUpload` 100-181 | `StartConfirm`, `SweepFindMany`/`SweepUpdateMany`/`AfterSweep`, `EnsureObjectExists`, `ConfirmLookup`, `CreateStory` or `CreateRefused` (the unique index) or `CreateUnanswered`, `StartModeration` |
| `removeStory` 364-399, `adminDeleteStory` 478-507 | `StartRemove`/`StartAdminDelete`, `DeletionFind`, `DeletionMark`, `DeletionCleanup` |
| `updateAdminStoryStatus` 430-476 | `StartAdminStatus`, `AdminFind`, `AdminWrite` or `AdminWriteUnanswered` (`StoreStatus`) |
| `expireDueStories` 831-907 | `SweepFindMany` (`Due`), `SweepUpdateMany` or `SweepUnanswered` (`ExpireDue`, `Expirable`) |
| `moderateStoryAfterPublish` 909-1001 | `ModerationFind`, `ModerationAnalyze` (`Verdict`), `ModerationWrite`, `ModerationWriteUnanswered`, `ModerationWriteFails`, `ModerationError` |
| a rejected `await` in any other handler | `Abandon` |
| `publishAsync` ends, either way | `EventSettles` |
| the process ends | `Crash` |

`Work` is what the code does when nothing goes wrong, `Fault` the rest.

Abstractions, each with what it leaves out:

- Ages instead of clocks. `Tick` makes every row older; `ttl` stops at 0 and
  `idle` at the retention of stale states, the only thresholds the code
  compares with. Handlers may be slow to any degree: a moderation can span
  several ticks, though the analyzer's timeout is 15 seconds. This adds
  behaviours and hides none.
- The events in flight are a set of owners: two events for one owner that are in
  flight together have the same effect on Catalog and settle as one.
- `story.created` and `story.expired` are not told apart, as both make Catalog
  drop what it has of the owner.
- One sweep of the timer at a time. Overlapping sweeps are covered by those that
  confirmations start.
- Captions, MIME types, sizes, risk levels, flags and messages are left out. The
  refusal of an empty caption is the unconditional branch of `ConfirmLookup`.
- `publishedAt` is set at creation and kept by every writer, so the condition at
  `stories.service.ts:461-464` depends on the status alone.
- The notice to the owner of a rejected story (969-972) is left to `OwnerNotices`:
  it is awaited last and swallows its failures (1090-1098), so that nothing of the
  table depends on it.

A commit whose answer is lost is a step of its own for every write (`...Unanswered`):
the row is written, and the handler fails as if it were not.

### `StoryLifecycle`

A story is absent, shown, hidden or ended, with a verdict pending, approved or
rejected. The mapping (`Phase`, `VerdictOn`) makes "shown" the `where` clause
that all lists share: ACTIVE, not past its 24 hours, not deleted. "Ended" is
absorbing; "hidden" is left only with an approval; a rejection hides.

### `CatalogSync`

`CatalogRead` is the query of `listFeed` or `listUserStories` (187, 287) for a
call of Catalog's, `CatalogFill` the arrival of the answer, and `EventDelivered` that
of an event; Catalog's side of them is external. Between query and answer the
handler awaits Identity and the signing of URLs, and anything may happen: `fills`
are the answers on their way, and an answer is `late` once an event for its owner
has arrived, was lost, or was left out since its query. `overtaken` are the owners of
whom Catalog has cached a late answer; it stays until the next answer or event.
`dropped` remembers the owners an event was lost for: it was in flight when it
failed or the process died, or the handler ended between its write and its
`publish`.

| Code | Actions |
|---|---|
| `listFeed`, `listUserStories`, asked by Catalog | `CatalogRead`, `CatalogFill` |
| `publishAsync` | `EventDelivered`, or `EventSettles` as a fault |
| everything of `Stories` | `ServiceWorks`, `ServiceFails` |

`stale` are the handlers whose row has changed status since they read it:
`updateAdminStoryStatus` between 434 and 442, the verdict between 910 and 946. Such
a handler compares the status it stores with one the row no longer has (461-464,
964), and may store a change and publish nothing; `misjudged` are the owners that
has happened to. These, `late`, `overtaken` and `dropped` are history: no action of
the service or of Catalog depends on them.

### `OwnerLists`

A list is its sweep (`ListSweep`, `ListExpire`), its query (`ListFind`) and the
signing of URLs (`ListEnds`). `due` are the stories its own sweep found overdue,
`revived` those that somebody put back after that sweep.

| Code | Actions |
|---|---|
| `listMine` 257-273 | `ListMine`, `ListExpire`, `ListFind`, `ListEnds` |
| `listAdminStories` 401-428 | `ListAdminStories`, `ListExpire`, `ListFind`, `ListEnds` |

### `OwnerNotices`

`outbox` has the notices on their way, `told` counts those that arrived, `untold`
remembers why one may be missing: a fault lost it, or the moderation found the
story BLOCKED already and does not tell (964). `rejected` are the stories whose
moderation has stored a rejection, SEND_TO_REVIEW (stored NEEDS_REVIEW) or
REMOVE_PRODUCT (stored BLOCKED): the row alone does not tell the second from an
admin's BLOCKED. The steps of `Stories` and the lists run unchanged beside it;
`VerdictStored` is the step that stores a verdict, `Notices` that which sends a notice.

### `AdminMetrics`

The writers are reduced to what they may do to the counted columns: insert a row,
store any status and perhaps `deletedAt`, record a view. A write takes its time
from the clock when it begins and is committed later (`Stamp`, `Commit`,
`Refused`). The call makes its counts one by one, in any order
(`GetAdminMetrics`, `CountAnswered`); `Counted` are the `where` clauses.
`first` is what the first call answered about a period that was over.

### `RedisClient`

`sent` and `offline` are the two queues of ioredis, which is external: what is
unanswered when the connection is lost goes back in front (`Reconnect`). `link` is
the client's status. A client has `"end"`ed, and rejects what it is asked, after QUIT
or a `disconnect()` while connected. It is `"stranded"` after a `disconnect()` between
two attempts to connect, which `onModuleInit` does when `connect()` is refused and
`quit()` when nothing is queued: ioredis then only cancels the timer of the next
attempt, its status stays `reconnecting`, and what it is asked is queued for ever.
`met` remembers that Redis has answered the ping of this boot.

| Code | Actions |
|---|---|
| `RedisService.onModuleInit` 25-46 | `BootConnect`, `BootPong` |
| `getCachedReadUrl`, `cacheReadUrl` | `StartCall`, `GetAnswered`, `SetAnswered` |
| `getHealthSummary` for the readiness probe | `StartCall`, `PingAnswered`, `StatsAnswered` |
| `onModuleDestroy` 75-85 | `Terminate`, `QuitAnswered` |
| Redis, the network | `RedisChanges`, `ConnectionLost`, `Reconnect` |

### `StoryReads`

The three calls as awaited steps. `audience` is Identity's, and
`AudienceAnswers` what `fetchStoryOwnerAudienceSummaries` returns: the truth at
that moment, or nobody. `during` is a history variable: what was shown, and who
was open to the viewer, at some moment since the call began.

### `FeedAssembly`

What `listFeed` computes once the stories and the audience are known (206-254), as
operators over the sequence the query returned, and a state machine of one step
that applies them to every input within the bounds. `createdAt` is `publishedAt` or
an instant later, as the insert comes after the clock was read; that is enough to
order two stories differently by the two. `InOrder` is JavaScript's stable `sort`, of
places in a sequence by a key.

### `ReadUrlCache`

A URL is its key and the time it is still valid. `redis` has the URL with its
remaining `EX`, `local` the Map of each process in insertion order, `sets` the
SETs on their way. A SET may wait for any time while Redis is away
(`maxRetriesPerRequest: null`). `waited` is history: how long the SET of a URL did,
recorded with the SET, with what Redis has, and with the answer served from there.
It is counted up to `UrlTtl`, when the URL has expired on the way.

### `RequestGuards`

A request goes through its guards step by step: `verify`, for admins `identity`
(the call is out), `snapshot` (the answer is on its way) and `permissions`, then
`handler` or `refused`. `granted` is Identity's: the permissions of an admin, or
none while suspended. A token may name any permissions, as it may be of any age;
that signature, expiry, `sub` and `sid` are in order or not is a choice
(`VerifyFails`). `config` is what the environment says: whether
`identity.baseUrl` is set, and whether this is production. All handlers of
`StoriesController` are one route, `"user"`, as they have the same guard.
`during` is a history variable: what the bearer was granted at some moment since
the request arrived.

| Code | Actions |
|---|---|
| `JwtAuthGuard.canActivate` | `VerifyUser`, `VerifyFails` |
| `AdminJwtAuthGuard.canActivate`, `resolveAdminSnapshot` | `VerifyAdmin` (`WithoutIdentity`), `IdentityFails`, `SnapshotArrives` (`WithAdmin`), `VerifyFails` |
| `AdminPermissionsGuard.canActivate`, `@RequireAdminPermissions` | `CheckPermissions` (`Suffices`, `Required`) |
| Identity | `IdentityAnswers`, `GrantsChange` |

## 3. What TLC checks

Run from this directory: `tlc -config MCStoriesSafety.cfg MCStories`, etc.

| Configuration | Instance | Checks |
|---|---|---|
| `MCStoriesSafety` | 2 users, 1 upload, 2 row ids, 2 requests, all operations, admin statuses but EXPIRED, `Lifetime` 2, `StaleRetention` 1 | `TypeOK`, `OneStoryPerUpload`, `ActiveNeverRejected`, `LiveMediaExists`, `ReturnsOnlyApproved` |
| `MCErrorKeepsVisible` | 1 row, moderation and the sweep only | `ErrorKeepsVisible`, **violated** |
| `MCCatalogSync` | 1 user, 1 upload, 1 row, 1 request (confirm, remove, admin status BLOCKED), 1 answer on its way, fairness | `SyncTypeOK`, `RemovalReachesCatalog`, `StaleCopyExplained`, `RemovalTakesEffect`, `EveryStoryEnds` |
| `MCStoryReads` | 2 users with a story each, 1 call | `ReadsTypeOK`, `ServedWithinCall`, `ViewsFromAudience` |
| `MCFeedAssembly` | 4 stories of 3 owners, 3 instants, all views and audiences, `take` 1 or 2 | `FeedTypeOK`, `FeedIsWhole`, `CutIsFair` |
| `MCReadUrlCache` | 1 process, 2 calls, 3 images, a Map of 2, at most 2 SETs that wait, `UrlTtl` 3, `CacheTtl` 1 | `CacheTypeOK`, `LocalCacheBounded`, `ServedUrlUsable` |
| `MCRedisClient` | 1 process, 3 calls, fairness | `RedisTypeOK`, `WaitersAreQueued`, `OutagesAreSurvived`, `CallsAnswered`, `LifecycleMoves` |
| `MCDegradedAnswers` | the same | `DegradedAnswers`, **violated** |
| `MCOwnerNotices` | 1 user, 1 row, 1 request (confirm, remove, admin status ACTIVE, BLOCKED or EXPIRED), 1 list | `NoticesTypeOK`, `ListsNothingDue`, `AtMostOneNotice`, `RejectionTold`, `ImplementsLifecycle` |
| `MCNoticeTellsTakedown` | 1 row, 1 request (confirm, remove) | `NoticeTellsTakedown`, **violated** |
| `MCAdminMetrics` | 1 story and its view, 1 writer, 3 instants, 2 periods, 4 of the 8 counts | `MetricsTypeOK`, `PastPeriodsOnlyShrink`, `TotalsRightButForWrites` |
| `MCRequestGuards` | 1 user, 2 admins, 1 permission and `*`, 1 request, fairness | `GuardsTypeOK`, `ActsForBearer`, `VouchedByIdentity`, `ActsOnGrant`, `EveryRequestDecided` |

Why these bounds are enough to be interesting:

- Two requests are what every race in the writers needs: two confirmations of
  one upload, two deletions of a story, an admin against an owner; the sweep and
  the moderation run beside them as actors of their own.
- An owner with two stories is what tells the oldest from the newest; three instants
  let the owners be ordered differently by each.
- Rows interact only through the unique key, for which two ids suffice. The other
  properties are about one row.
- `Lifetime` 2 and `StaleRetention` 1 keep the order of the real ones (24 hours,
  1 hour): a story can go stale before its time is over.
- A read call touches no state of another call but the views, which nobody reads
  back, so one call beside changing stories is enough.
- A second admin is whom Identity may answer for by mistake. Requests share no state, so
  one is enough; one permission tells the handler that requires it from the others.
- A Map of 2 for 3 images overflows; two calls can miss for the same image. A
  second process is to Redis what a second call is; it has a Map of its own.
- With Catalog, and with lists and notices, one request beside the sweep, the
  moderation and faults gives every order of two writers that they are about: a
  request against the verdict, the sweep against either. That two requests meet
  is the matter of `MCStoriesSafety`. `adminDeleteStory` differs from
  `removeStory` there only by who may ask.
- An admin who may only store BLOCKED is enough beside Catalog: it is the decision by
  a status that the row no longer has (461-464), and repeated for ever it puts a
  story's end off for ever. `MCStoriesSafety` has the statuses but EXPIRED, which the
  sweep stores too, and `MCOwnerNotices` those but UNDER_REVIEW, which the verdict
  stores too: of these two, an admin's update keeps the moderation status either way.
- One answer to Catalog on its way at a time (`MaxAnswers`) can be overtaken by any
  event, and can arrive again after it has arrived. With `StaleCopyExplained` and
  `RemovalReachesCatalog` proved for any number, the bound is one of liveness only.
- A SET that has waited for all of `UrlTtl` writes a URL that has expired. Three SETs
  that wait add nothing to two (`FewSets`): a SET touches its own key only.
- Three calls are a read URL, a probe and one more behind them in the queue.
- A `where` clause of a metric looks at one row, so that a count is a sum over
  stories and one story shows what each may contribute. The four counts are one
  of each kind: by a time that never changes, by the last write, by a view, by the
  present state; the others have the same clause with another status or column.
- Symmetry (requests, row ids, images) is used for invariants and step
  properties, not for liveness.

The theorems of section 4 remove these bounds for the safety properties of every module.

The specifications keep a few definitions marked *Mutant*: each is a definition
of the model with one plausible bug in it, used nowhere. Put in the place of the
definition that follows it, it makes TLC find the property it belongs to
violated, which shows that the property depends on that code. `PROJECT.json`
pairs them.

### Fairness

`EveryStoryEnds` assumes:

- `WF(Tick)`: time passes.
- `WF(SweepFindMany(Timer))`: `setInterval` (`stories.service.ts:74-79`) keeps
  starting sweeps. A sweep that fails is an unhandled rejection, which `main.ts:22-24`
  only logs, so the timer survives.
- `SF(SweepUpdateMany(Timer))`: a sweep may fail any number of times, but a
  database that is up again and again lets one complete again and again. Weak
  fairness would not do, as every failure disables the step.

`RemovalTakesEffect` (`SyncFairSpec`) assumes besides:

- `WF(EventEnds)`: the timer of `publishAsync` (`catalog-cache-events.service.ts:36`)
  ends every call of Catalog, answered or not.
- `WF(CleanupEnds)`: `deleteObject` is answered, or its connection fails. The S3
  client has no timeout, and the event is published only after it
  (`stories.service.ts:386`, `:497`).

`CallsAnswered` and `LifecycleMoves` (`RedisFairSpec`) assume `WF(BootConnect)`,
`SF(Reconnect)` and `SF(Answered)`: the process runs its hooks; the client retries
for ever, so if Redis is there again and again, the client is connected again and
is answered. If Redis stays away for ever, nothing is promised, and nothing on a
stranded client, which `Reconnect` rightly leaves alone: its timer is gone.

`EveryRequestDecided` assumes `WF(GuardStep(r))`: the event loop runs what is ready,
and the timer at `admin-jwt-auth.guard.ts:122` fires. Identity owes no answer.

Clients, moderation and admins owe nothing. An admin who sets the status of a
story for ever can keep it alive; the property says so.

### Three disagreements

When moderation fails, the code stores: "Tu historia sigue visible mientras lo
reintentamos" (`stories.service.ts:987`). Nothing retries it, and one hour later
the sweep takes the story down (863-866). `MCErrorKeepsVisible` shows it in a few
steps.

When Redis refuses the connection at boot, the service logs "Redis cache is
unavailable at bootstrap. Cache will run degraded" (`redis.service.ts:43`) and goes on.
But the client it has just disconnected (33) is stranded, not ended: every read URL
and every readiness probe of this process waits in its queue, and none is ever
answered, not even when Redis is back. `MCDegradedAnswers` shows a call that waits for
ever. It rests on what ioredis does with `disconnect()` between two attempts to
connect, which is external code.

Whether a story is deleted or EXPIRED is asked before the analysis (920-926), which
may take 15 seconds, and not after it. Its owner is told "Bajamos tu historia" (1072)
of a story that was not visible any more. `MCNoticeTellsTakedown` shows a story
that ends while it is analyzed.

## 4. What is proved

Each theorem holds for every value of the constants of its module: any users, stories,
rows, uploads, requests, calls, processes, lifetimes and limits, finite or not (but for the stories of `AdminMetrics` and `FeedAssembly`), under the module's
`ASSUME`. Every proof is checked to the last leaf by tlapm (SMT, Zenon, PTL);
nothing is assumed but the following.

| Assumption | Says | Because |
|---|---|---|
| `StoriesAssumption` | a key names one owner, the timer is no request, the operations and the statuses an admin may ask for are among those there are, lifetimes are positive, `None` is no identifier | the owner is a part of the key (`assertStoryOwnership`); the DTO; the rest is naming |
| `SyncAssumption` | `Requests` and `StoryIds` are disjoint | `stale` holds both, of either kind; naming |
| `ListsAssumption` | an admin's filter is a set of statuses | the query's DTO admits nothing else |
| `ReadsAssumption` | a story has one owner | a column |
| `CacheAssumption` | a call runs in one process, `CacheTtl` is positive, the Map has room for one, `None` is no key | 300 s and 2000 entries in the code (`storage.service.ts:29-30`); naming |
| `RedisAssumption` | boot is no call | naming |
| `FeedAssumption` | a story has one owner, a query finds finitely many; `take` is at least 1 | a column; a result set; the query's DTO |
| `MetricsAssumption` | there are finitely many stories; periods lie within the bound of the clock | a table has finitely many rows; `MaxTime` is a bound of the model, and may be any |
| `GuardsAssumption` | no account is both a user's and an admin's; `None` is no account | the two kinds of token are issued for different accounts |

| Theorem | States |
|---|---|
| `StoriesProofs!TypeCorrect` | `Spec => []TypeOK` |
| `StoriesProofs!UploadBacksOneStory` | `Spec => []OneStoryPerUpload` |
| `StoriesProofs!ActiveIsNeverRejected` | `Spec => []ActiveNeverRejected` |
| `StoriesProofs!MediaOutlivesStory` | `Spec => []LiveMediaExists` |
| `StoriesProofs!OnlyApprovalReturns` | `Spec => ReturnsOnlyApproved` |
| `StoriesProofs!StoriesImplementLifecycle` | `Spec => ImplementsLifecycle` |
| `CompositionProofs!SyncTypeCorrect` | `SyncSpec => []SyncTypeOK` |
| `CompositionProofs!RemovalIsAnnounced` | `SyncSpec => []RemovalReachesCatalog` |
| `CompositionProofs!StaleCopyHasReason` | `SyncSpec => []StaleCopyExplained` |
| `CompositionProofs!SyncImplementsStories` | `SyncSpec => Spec` |
| `CompositionProofs!SyncImplementsLifecycle` | `SyncSpec => ImplementsLifecycle` |
| `CompositionProofs!NoticesTypeCorrect` | `NoticesSpec => []NoticesTypeOK` |
| `CompositionProofs!ListsShowNothingDue` | `NoticesSpec => []ListsNothingDue` |
| `CompositionProofs!OneNoticeAtMost` | `NoticesSpec => []AtMostOneNotice` |
| `CompositionProofs!EveryRejectionTold` | `NoticesSpec => []RejectionTold` |
| `CompositionProofs!ListsKeepLifecycle` | `NoticesSpec => ImplementsLifecycle` |
| `StoryReadsProofs!ReadsTypeCorrect` | `ReadsSpec => []ReadsTypeOK` |
| `StoryReadsProofs!ServedIsWithinCall` | `ReadsSpec => []ServedWithinCall` |
| `StoryReadsProofs!ViewsAreFromAudience` | `ReadsSpec => ViewsFromAudience` |
| `FeedAssemblyProofs!FeedTypeCorrect` | `FeedSpec => []FeedTypeOK` |
| `FeedAssemblyProofs!FeedHasWholeOwners` | `FeedSpec => []FeedIsWhole` |
| `FeedAssemblyProofs!FeedIsCutFairly` | `FeedSpec => []CutIsFair` |
| `ReadUrlCacheProofs!CacheTypeCorrect` | `CacheSpec => []CacheTypeOK` |
| `ReadUrlCacheProofs!LocalCacheIsBounded` | `CacheSpec => []LocalCacheBounded` |
| `ReadUrlCacheProofs!ServedUrlIsUsable` | `CacheSpec => []ServedUrlUsable` |
| `RedisClientProofs!RedisTypeCorrect` | `RedisSpec => []RedisTypeOK` |
| `RedisClientProofs!NobodyWaitsInVain` | `RedisSpec => []WaitersAreQueued` |
| `RedisClientProofs!ClientOutlivesOutages` | `RedisSpec => []OutagesAreSurvived` |
| `AdminMetricsProofs!MetricsTypeCorrect` | `MetricsSpec => []MetricsTypeOK` |
| `AdminMetricsProofs!PastPeriodsNeverGrow` | `MetricsSpec => []PastPeriodsOnlyShrink` |
| `AdminMetricsProofs!TotalsAreRightButForWrites` | `MetricsSpec => []TotalsRightButForWrites` |
| `RequestGuardsProofs!GuardsTypeCorrect` | `GuardsSpec => []GuardsTypeOK` |
| `RequestGuardsProofs!HandlersActForBearer` | `GuardsSpec => []ActsForBearer` |
| `RequestGuardsProofs!AdminsAreVouchedFor` | `GuardsSpec => []VouchedByIdentity` |
| `RequestGuardsProofs!AdminsActOnGrants` | `GuardsSpec => []ActsOnGrant` |

None of the properties is inductive, because they say nothing of handlers and calls
that are half way. Each module has an invariant that adds what these may rely on although
the world has moved on since they read it. TLC found each to hold on the instances above
before it was proved.

**`Stories`: `IInv`.**

- Past the sweep, a confirmation has passed `assertStoryOwnership`; past the HEAD
  its object exists, or has become a story's and was removed with it (`KeyKept`).
  This carries `OneStoryPerUpload` and `LiveMediaExists` over the insert.
- A deletion knows the key of its row, and has marked the row before it deletes
  the object.
- An update that is about to store ACTIVE is about to store APPROVED with it, be
  it an admin's or the moderation's. This carries `ActiveNeverRejected`.

`Kept` says which facts never change once true (a row keeps its owner, key and
deletion; an object disappears only when its key is a story's), so that what one
handler knows survives the steps of the others. There is one lemma per action,
and `NextIInv` combines them.

**The refinement** sorts the steps by what they do to the table (`RowSteps`: create,
delete, rule, sweep, tick, or nothing), follows one row through each, and maps
each to `Publish`, `End`, `Judge`, `Retire`, `End` or a stutter.

**`CatalogSync`: `SyncInv`** is `IInv` with Catalog's side. Catalog files a story under its
owner (`FiledByOwner`). An answer on its way that is not `late` lists what is still shown,
or the event that will correct it is still to come (`AnswersOK`): what it finds out of date
when it arrives is then announced after it, or it was overtaken. And a handler about to
write, unless it is `stale`, knows whether its write is news (`DecisionsOK`). These are why
a copy can only be stale for a reason: a write that hides a story is announced, or its
handler is `stale` and its owner among the `misjudged`. A step of the composition is one of `Stories`
or a stutter, so that the theorems about `Stories` hold of it.

**`OwnerNotices`: `NoticesInv`** is `IInv` with the lists and the notices.
`ListsOK`: after the sweep of a list, a story that was due is EXPIRED, deleted or `revived`.
`OneSigner`: one request at most is about to start the moderation of a story, and only before it has run.
With `QuietUntilDone` that gives one notice at most. `VerdictsAccounted`: a moderation about to
store a rejection, of either kind, will tell or has its reason on record, and so has an admin who
stores a NEEDS_REVIEW again.
The sweeps of the lists are not steps of `Stories`, as no handler of its makes them;
`ListsKeepLifecycle` shows that they implement the lifecycle all the same.

**`StoryReads`: `ReadsInv`** says of a call, relative to its history, what it has found:
the feed knows stories that were shown before it knows whose are open, a user's list the other
way round. The history grows, so the steps of others take nothing away.

**`FeedAssembly`: `FeedInv`** adds only that a story is created when it is published or an
instant later; the work is in lemmas about the operators. `InOrderSorts` says that sorting
puts each pair somewhere, once, with rising keys. It needs no induction: what has fewer
pairs before it comes earlier (`AheadGrows`), so ranks differ, and as many different ranks
as there are pairs are all ranks (`RankIsBijection`, by counting). `StoriesOfOwner` and `GroupsAreSorted` apply it
to the stories of an owner and to the groups, `LatestIsNearOldest` ties the field the groups are
sorted by to the oldest story.

**`ReadUrlCache`: `CacheInv`** ties ages together: an entry with `ttl` left holds a URL
with at least `UrlTtl - CacheTtl + ttl` left (`FreshLocal`), in Redis less the time its SET waited (`FreshRedis`,
`FreshSet`). No bound on that wait is assumed, and none on the lifetimes. The Map is a sequence; that `EvictOldest`, an insert and the
deletion of an expired key keep a key once and the limit are lemmas of their own.

**`RedisClient`: `RedisInv`** ties what each sender waits for to one command in `sent` followed by `offline`
(`QueueOK`), and `LinkOK` says when the two are empty: a client that has not been asked
to connect, or has ended, has nothing and makes nobody wait. It also says who may have lost
the client for good: a client has ended or is stranded only in a process that Redis has not
answered, or that is over, which `OutagesAreSurvived` needs of the steps of a shutdown. The lemmas
on `QueueOK` are about any queue and any waiters (asking, answering, losing the
connection), and each action cites one.

**`AdminMetrics`: `MetricsInv`** ties each answer to what would be counted now.
A period that is settled stays settled (`SettledKept`), as whatever is dated anew is dated with
the clock (`ClockGoesOn`). A commit then finds nothing new for it (`OldOnly`): it moves the
last write of its story past the period, and what is published late was not there before (`WriteOK`).
So the number of an answer bounds what is found from then on (`Reported`), a later answer included.

**`RequestGuards`: `GInv`** says of each request what its guards have
established so far (`Sound`), relative to the history. The history only grows while
the request lasts (`SoundGrows`), so the steps of Identity and of other requests
take nothing away; `OneRequestMoves` reduces each action to its own request.

## 5. What is only model-checked

- `EveryStoryEnds`, `EveryRequestDecided`, `RemovalTakesEffect`, `CallsAnswered`,
  `LifecycleMoves`: liveness under fairness, and ENABLED, are beyond the prover.
- The three violations: a counterexample is TLC's to show.

## 6. What the models show about the code, and its limits

- A late approval writes back the status it read before calling the analyzer. It
  can undo an admin's BLOCKED, or revive a story the sweep has taken down.
  `StoryLifecycle` allows exactly this (an approval may show a hidden story).
- A late verdict on a deleted story leaves a row with `deletedAt` set and status
  ACTIVE. Lists filter on both, so it stays invisible.
- An event may be missing after concurrent changes of one story:
  `updateAdminStoryStatus` and the verdict compare with the row they read, not with
  the one they overwrite.
- An answer to Catalog that was queried before a story was removed or hidden, and arrives
  after the event for it, brings the story back into Catalog. No event is pending or
  lost then, and the copy stays until the next event or answer for the owner. The
  answer spans calls of Identity and of the signer, the event one call with a timeout of
  a second, so the order is possible although unlikely for a removal, whose event
  also waits for S3. `StaleCopyExplained` shows that this, the decisions above, a lost
  event and one in flight are the only ways to a stale copy.
- A notice that is lost is not sent again, and an owner is not told of a verdict,
  for review or for removal, on a story that an admin had BLOCKED before. There is no
  other way not to be told (`RejectionTold`).
- `listFeed` reads the stories newest first (199), and takes the first of an owner's
  as the preview and for `latestPublishedAt` (227, 235-236). But the sort at 223
  works in place, and has put the oldest in front by then: `latestPublishedAt` is the time of
  the oldest story. The order of the feed, and who is cut off at `take`, follow the
  oldest stories too; that is what `CutIsFair` states.
- `storiesBlocked`, `storiesExpired` and `storyViews` go by the last write of a row:
  the numbers of a past period fall. `storiesBlocked` falls to nothing, as the sweep
  makes BLOCKED stories EXPIRED after an hour. A story that changes between two
  counts may be in two totals of one answer, or in none.
- A process that found no Redis at boot never uses it again
  (`redis.service.ts:33`), and makes read URLs and the readiness probe wait for
  ever (`MCDegradedAnswers`); so does its shutdown when something waits, as `quit()` (81) is
  queued behind it. One that lost Redis later makes them wait until it is back.
- The tracker of rate limits prefers the user of a request to its address, but runs
  as a global guard, before `JwtAuthGuard` has set the user.
- Objects of stories that expire are never deleted; only removal deletes them.
- A SET that has waited in the client's queue for 55 minutes or more puts a URL
  into Redis that expires before its entry there does, or has expired already
  (`maxRetriesPerRequest: null` bounds nothing), and such URLs are served.
  `ServedUrlUsable` holds a URL to what its own SET has waited, and shows that no other
  delay adds to it.

Not modelled:

- the paging of `listAdminStories` by `skip` and `take` (403-425): a walk over a
  list that changes between pages may miss stories or repeat them, as nothing in
  the code guards against it;
- `OptionalJwtAuthGuard`: no controller uses it;
- rate limiting: the counters are a library's, the repository keeps no state;
- the notifications module and the queue: excluded from the build
  (`tsconfig.build.json:11-12`);
- configuration, logging, the exception filter, text and time-zone utilities: pure
  functions and wiring. The one consequence that matters, that an unhandled
  rejection is logged and the process goes on, is in the fairness of the sweep;
- in the health probes, all but the part that asks Redis.

## 7. Plan

In this order; all items are done.

1. `Stories`, its invariants, and `StoryLifecycle`.
2. `StoriesProofs`: the inductive invariant, and the safety theorems.
3. The refinement, in `StoriesProofs`.
4. `CatalogSync`: `Stories` composed with Catalog.
5. `StoryReads`: lists and views beside the abstract writers.
6. `ReadUrlCache`.
7. `FeedAssembly`: the pure part of `listFeed` (183-255): grouping, in-place
   sort, preview, order, cut at `take`, over all small inputs.
8. `RequestGuards` and `RequestGuardsProofs`.
9. `OwnerLists` and `AdminMetrics`: `listMine`, `listAdminStories` and
   `getAdminMetrics` beside the writers.
10. `RedisClient`: bootstrap, the command queues, a client that was refused at boot,
    and shutdown.
11. `OwnerNotices`, stale decisions and overtaken answers in `CatalogSync`, unanswered commits in
    `Stories`, and the end of a removal in Catalog under fairness.
12. Proofs: the invariants of `StoryReads`, `CatalogSync`, `ReadUrlCache`, `OwnerNotices`,
    `RedisClient` and `AdminMetrics`, and that the compositions implement `StoryLifecycle`.
13. Proofs of `FeedAssembly`, from what sorting yields.
