# A TLA+ verification of blogengine

blogengine is a self-hosted blog server in Go: pages rendered from markdown, a
SQLite database, an S3 object store, and images that a pool of workers turns into
WebP variants. This directory holds TLA+ models of its concurrent and
crash-prone parts, the TLC configurations that check them, and TLAPS proofs
about them. Paths below are relative to the repository (`internal/` is
`src/internal/`); `PROJECT.json` maps every definition to the lines it models.

## 1. Inventory

| component | state it keeps | operations | what is hard |
|---|---|---|---|
| image processor (`content/webp_processor.go`) | channel `jobs` of 25, `sync.Map` of marks `inFlight`, wait group | `Enqueue`, `worker`, `ProcessJob`, the closer goroutine | duplicates, marks of failed jobs, full channel, shutdown |
| asset manager (`content/assets.go`) | two maps (UUID to path and back) under an `RWMutex` | `Obfuscate`, `Retrieve`, `GetRelativePath`, `Exists` | double-checked locking, lost at a restart |
| asset handler (`handlers/assets.go`) | none of its own | `ServeHTTP` | store state changes between its calls; contexts; partial failure |
| seeder (`seeder/seeder.go`) | files, rows, objects (all persistent) | `SeedBlogs`, `SeedPosts` | crashes between three stores, retries at every start |
| object store client (`storage/s3_store.go`) | the bucket | `Open`, `Exists`, `Save`, `Delete` | every call may fail; errors and absence look alike in `Exists` |
| sqlite store (`storage/sqlite/`) | users, blogs, posts, comments, sessions | CRUD, `Bootstrap`, `WithTx` | unique indexes against soft deletes, error mapping |
| pages, accounts, comments (`handlers/`) | sessions | `HandlePost`, blog pages, register, login, comment | handlers of several store calls, with other requests and deletes between them |
| disk repository and post cache (`content/disk_loader.go`) | posts' metadata, cached HTML | `LoadLazyMetaFromDisk`, `GetContentWithMetrics` | double-checked locking around a render that takes the asset manager's lock |
| visitor statistics (`middleware/geostats.go`) | visitors, counts per country | `Record`, `cleanup`, `GetTopCountries` | asynchronous recording, the boundary of validity |
| rate limiter (`middleware/limiter.go`) | a token bucket per address | `Middleware`, `cleanup` | look ahead by Reserve and Cancel, the clock read before the bucket's mutex, buckets dropped while held |
| application (`cmd/blogengine/main.go`) | root context, server | start-up in order, `App.Run` | the order of shutdown |
| markdown renderer (`content/markdown.go`) | none | the walk over a post's images | an error in the middle of the walk is dropped |
| asset sync (`content/sync.go`) | none | uploads at a start | file I/O; only its effect is modelled |
| other middleware, router, configuration, telemetry, utilities, templates | none shared | per request, straight-line | nothing a model would add |

How they interact:

* `main` starts everything in a fixed order: bucket check, `SyncAssets`, asset
  manager, migrations, `Bootstrap`, the seeder (its failure is logged and the
  start goes on), limiter, statistics, image processor, server.
* Rendering a post calls `Obfuscate` for each of its local images. The page then
  refers to `/assets/<uuid>_<width>`, and the asset handler asks the *same* asset
  manager for the path. Only the object store outlives the process.
* The asset handler calls `Enqueue` on the processor three times per miss and
  answers with the source; the workers store the variants later.
* The seeder writes the rows and objects that the pages read.
* A page's handler asks the database several times, each time for the state of
  that moment. The sessions are rows of the same database and survive a restart.
* `GetContentWithMetrics` renders while it holds the post's lock, and the render
  takes the asset manager's: two locks, always in this order.
* Every request passes the limiter, then the statistics, which record it by a
  goroutine of its own, then the handlers. Both keep maps that a background
  goroutine cleans.
* One root context, cancelled by the signal, stops the server, the workers, the
  closer of the channel and the cleanup loops, all at the same moment.

What makes each component correct:

* *processor*: a job is never held twice; a held job is marked and a marked one
  is held; a job runs at most once and only its run stores its variant; `Enqueue`
  never blocks; accepted jobs are taken; a shutdown ends.
* *asset manager*: the maps are inverse to each other and readers never see half
  an entry; a UUID that was returned resolves; no way out keeps a lock.
* *asset handler*: an image that a page shows is served; clients cannot make
  work of images no post shows; a client that leaves stops nothing.
* *seeder*: no post is made twice however often the program stops and starts;
  directories, rows and objects stay linked by one id; a run without failures
  seeds everything; what is skipped as done is done.
* *post cache*: a post is rendered once, what is cached stays and its images can
  be looked up, and no call waits for ever on one of the two locks.
* *sqlite store*: a link that a listing shows opens what it shows, whatever was
  deleted, renamed or made again; texts of two posts never share a key; a deleted
  row is never changed.
* *pages, accounts, comments*: whoever is shown a Delete button may use it;
  comments belong to posts that could be read; a missing page is a 404; the site
  starts in every state that earlier runs leave behind.
* *limiter*: whatever the cleanup drops and however requests overlap, no more are
  admitted than one bucket for each address would admit, with two exceptions that
  the abstract specification names: an address that was idle, and a time that a
  later reader of the clock has overtaken.
* *statistics*: forgetting old visitors changes no count; what the limiter refuses
  is not counted.

## 2. Modules

```
VariantLifecycle  <--implements--  ImageProcessor  <--INSTANCE--  AssetPipeline
RWMutex  <--INSTANCE--  AssetRegistry  <--EXTENDS--  PostCache
SiteStore  <--EXTENDS--  Site                                  Seeder
TokenBuckets  <--implements--  RateLimiter  \
                                             >--EXTENDS--  Traffic
VisitCounts   <--implements--  GeoStats     /       (all over Clock)
```

A module `XProofs` extends the module `X` and the proofs of what that is built on.

`MC*` modules give the constants of a small instance. In every module a
definition with the suffix `_Mutant...` is a plausible slip of the code. No
action uses it; each is paired with the property that must catch it.

### ImageProcessor, VariantLifecycle, ImageProcessorProofs

`webp_processor.go`. Each goroutine is a program counter; a step is what happens
between two points at which another goroutine can be seen or can interfere.

| state | code |
|---|---|
| `jobs`, `closed`, `inFlight` | the channel, whether it is closed, the keys of the `sync.Map` |
| `ctxDone` | the root context |
| `variants` | WebP objects in the store |
| `cpc`, `cjob`, `cres` | each request in `Enqueue`: before the select, undoing its mark; its job; what it returned |
| `wpc`, `wjob` | each worker: `idle` at its select, then the calls of `ProcessJob`, then the `Delete` |
| `closer` | the goroutine that closes the channel and waits for the workers |

Keys keep the form the code gives them: `Enqueue` marks `EnqueueKey(j)`
(`"%s_%d"`), the worker deletes `WorkerKey(j)` (`"%s_%d.webp"`), two different
keys. The select of `Enqueue` is modelled as Go defines it: any ready case may be
taken, a send on a closed channel is ready and panics, `default` only when no
case is ready. `VariantLifecycle` is the abstract specification: what one
variant goes through, without channel, map or goroutines. The refinement mapping
`life` reads a job's life off its holders and its mark.

### RWMutex, AssetRegistry

`assets.go` at the grain of its lock: the check under the read lock, the gap, the
announced writer, the second check, the two assignments as two steps. `RWMutex`
models Go's lock from outside (a waiting writer keeps later readers out).

### PostCache, PostCacheProofs

`Post.GetContentWithMetrics` for one post (each post has a lock of its own), over a
second `RWMutex` and composed with `AssetRegistry`: a goroutine that renders is at
the same time one of the registry's goroutines, and the others obfuscate and look
up images meanwhile. `content` is nil or the number of images that the cached page
names by a UUID, which is less than the post has where `Obfuscate` refused an empty
path and the renderer dropped the error. In the code of this commit the pages take
their texts from the object store, and no production code calls
`GetContentWithMetrics`; it is modelled for its own sake and as a user of the
registry's lock.

### AssetPipeline, AssetPipelineProofs

`handlers/assets.go` composed with `ImageProcessor` (`P`, its callers are the
requests), with the registry as a set (that it behaves like one is what
`AssetRegistry` shows), and with the store. Clients leave, the ten seconds pass,
store calls fail, the signal comes, and the process restarts at any point: only
the store survives. `Exists` answers false for an absent object and for a failed
call, as `S3Store.Exists` does.

### Seeder

`seeder.go` over the three persistent stores: files (`manifest`, `file`),
database (`owners`, `blogRows`, `rows`), bucket (`objects`). `loop` and `step`
are where the run is, `todo` what its loop has listed. Every step has a failing
alternative, and `Stop` may come between any two steps. What one run remembers
(`processed`, `existing`) dies with it. `clean`, `due` and `skipped` are history
variables for the properties. Authors write files and owners register while the
seeder is not running: a file written during a run is seen by a loop or by the
next start.

### SiteStore, SiteStoreProofs

The tables of `storage/sqlite`, as sequences of rows (`AUTOINCREMENT` ids, no row
is ever removed), and the calls of `storage.Store`: an action for each statement,
its guard the `WHERE`, the unique indexes and the `CHECK`s of `migrations/`, and an
operator for each query. The pool has one connection, so a statement is a step;
`CreatePost` reads the blog's slug and inserts in two (`draft` is what it holds in
between). `StoreSpec` is the store under any caller.

### Site, SiteProofs

The handlers over `SiteStore`, and the start of `main`.

| state | code |
|---|---|
| `phase` | `down`, `serving`, or `refused`: `Bootstrap` failed |
| `sess` | each browser's session, kept in the database: user id, and the name as typed |
| `pc`, `arg` | a handler between two of its calls, and what it holds then |
| `writes` | a bound: the statements that changed a table |

A browser has one request at a time; between two calls of its handler everything
else may happen: other browsers, deletes, renames, the end of the session or of the
process. What a page answers is a function of the tables (`HandlePost`,
`HandleBlog`). Which user of the interface deletes users or renames blogs the code
leaves open, so `StoreCall` lets any of these calls come at any time.

### RateLimiter, GeoStats, Traffic, their abstract specifications, TrafficProofs

`RateLimiter` is `middleware/limiter.go`: the map of buckets, the steps of
`Middleware` for each request, and the cleanup. A bucket is the `Limiter` of
`golang.org/x/time/rate`, modelled as far as `Allow`, `Reserve` and `Cancel` use it,
with tokens counted in ticks. These three calls read the clock before they lock the
bucket, and write what they read as the bucket's time: a step of theirs works with any
time since the request's step before it (`Read`), which may be earlier than the time
of the bucket, and sets that back. `rsince` is when a request made its last step; the
next comes within `MaxLag`. `GeoStats` is `middleware/geostats.go`: `Record`, and
the cleanup as two steps, because it reads the clock before it has the lock.
`Traffic` composes the two as `router.go` does, with a recording goroutine for each
request and the choice of the address (`ip.go`), over one `Clock`. The abstract
specifications know no cleanup. `VisitCounts` remembers every address for ever.
`TokenBuckets` is one bucket for each address; where a request's time is earlier than
the bucket's, the ticks between fill it twice; the bucket may overflow to full, but
only at such a time or as long as refusals are out that such a time has overtaken; and
an address whose bucket has had no request for `Patience` starts with a full one.
`credit` and `crossed` are history variables, the abstract bucket and whether a
reservation of the address is out that was overtaken; `age` is a state function of what
the table holds.

## 3. Runs

| run | instance | shows |
|---|---|---|
| `processor` | 2 requests, 2 workers, 2 jobs, channel of 1, fairness | `TypeOK`; `NoDuplicateJobs`: no job is held twice; `OutstandingMarked`: a held job has its mark; `ImplementsLifecycle`: the pool implements `VariantLifecycle`; `EnqueueReturns`, `AcceptedIsTaken`, `ShutdownCompletes` |
| `processor_marks` | violated | `MarkMeansOutstanding`: a mark belongs to a job someone holds |
| `processor_panic` | violated | `NoEnqueuePanics`: requests complete during a shutdown |
| `cache` | 3 goroutines; a post with three images, one with an empty path; 2 images, one written in two ways; fairness | of the registry `TypeOK` (with who holds the lock), `MapsAgree`, `ReadersSeeWholeEntries`, `ReturnedIdResolves`, `CallsReturn`; of the cache `CacheTypeOK`, `LoadedOnce`, `CachedStays`, `CachedPageResolves`, `CacheCallsReturn` |
| `pipeline` | 2 requests, 1 worker, 1 image in 2 widths, channel of 1 | `TypeOK`, `KnownImageServed`, `JobsOfRegisteredImages` |
| `pipeline_client` | violated | `EnqueueOutlivesClient`: only the ten seconds stop an `Enqueue` |
| `seeder` | 2 blogs, 3 posts with one slug, 3 ids | `TypeOK`, `OneRowPerPost`, `DirectoryNamesRow`, `ObjectsHaveRows`, `BlogsAtHome`, `CleanRunSeeds` |
| `seeder_skip` | violated | `SkippedPostExists`: a post skipped as existing can be read |
| `site` | 2 browsers, 5 names (two of them one name in two cases, one too long), 2 blog slugs; public ids one of which is also a slug; from an empty database and from one with a deleted reader and a blog made again under a deleted blog's slug | `TypeOK`, `ListedLinksOpen`, `S3KeysUnique`, `ShownDeleteIsOwn`, `CommentsOnListedPosts`, `ValidatorCoversCheck`, `OnlyDeletedAdminStopsStart`, `FrozenRows` |
| `site_missing` | violated | `MissingPageIs404`: an address of nothing is answered 404 |
| `traffic` | 3 requests, one address behind a proxy, one direct and one that is none | `TypeOK`, `HoldersKeepBucket`: the cleanup drops no bucket in use; `CountsAreAdmitted`, for each country; `CancelsWithinCredit`: overlapping refusals give back no more than they took, unless overtaken by an earlier time; `ImplementsBuckets`, `ImplementsVisits` |
| `limiter_peek` | violated | `RefusedTakesNothing`: a refused request consumes no token |

The six violated properties are disagreements between the code and its own
comments or documentation:

1. **Marks are never removed** (`webp_processor.go:79`). The worker deletes
   another key than `Enqueue` stored. "no duplicated jobs" (line 162) then also
   refuses jobs nobody holds: a variant whose source was missing or whose upload
   failed is refused, without an error, until the process restarts. The mistake
   also has a harmless side that the refinement shows: no job ever runs twice.
2. **Requests panic during a shutdown** (`webp_processor.go:59`). The channel is
   closed at the signal itself, while `http.Server.Shutdown` still lets requests
   finish (`src/readme.md:59`). Their `Enqueue` then sends on a closed channel.
3. **Enqueue dies with the request** (`handlers/assets.go:103`), against the
   comment one line above it.
4. **Half-seeded posts are skipped for ever** (`seeder.go:382`). The row is made
   first and the text uploaded last; a stop or a failed upload in between leaves a
   row that every later start takes for a seeded post.
5. **A missing post is a 500** (`posts.go:157`). The query's `sql.ErrNoRows` is not
   mapped to `storage.ErrNotFound`, which `HandlePost` waits for, so that its 404
   page is never shown; a blog slug the validator refuses is answered 500 too.
6. **Refused requests consume tokens** (`middleware/limiter.go:135`). To tell when
   to come again the limiter reserves a token and cancels. When two refused
   requests of one address overlap, the first `Cancel` gives nothing back, against
   the comments "without consuming" and "Don't consume": too few are admitted.

Two weaknesses of the code are not disagreements with anything it says, and stand in
the properties as exceptions:

* *Times that are overtaken* (`limiter.go:131-135`). Of two overlapping requests the one
  that read the clock first may have the bucket second. The bucket's time goes back,
  and the ticks between are credited twice; a `Cancel` of a reservation that was
  overtaken may give back what it did not take. With a burst of 1 and 2 ticks for a
  request, say: one is admitted at 10; a second is refused at 11 and reads 11 for its
  `Reserve`; a third is admitted at 12; the `Reserve` sets the time back to 11, and its
  `Cancel` at 12 leaves one tick where none is due. So a little more than the limit can
  be admitted. It takes a request that is suspended between the clock and the mutex,
  and the proofs show that it takes no less.
* *Ids that are slugs* (`posts.go:148`). The seeder takes the name of a post's directory
  for its public id (`seeder.go:397`) and `CreatePost` stores the id it is given, so that
  the directory `introduction` may lie beside a post whose slug is `introduction`. The
  query by slug or id then finds both, and returns one. `ListedLinksOpen` says that this
  is the only way for a link to find more than its own post.

### Bounds

* *Channel of one.* The code's 25 matters only as "full" and "not full"; with one
  place both occur, and one request meets a full channel between two of its own
  `Enqueue`s. The proofs hold for every capacity.
* *Two requests and two workers* are enough for each pair of racing steps; the
  proofs of the processor's safety hold for any number of jobs and goroutines.
  Three goroutines in `cache` allow a writer, a waiting writer or reader, and a
  reader at once, and one to render while another waits for the post and the third
  is in the registry.
* *Two widths of three* in `pipeline`: the loop over the widths has a first and a
  later iteration.
* *Seeder*: two posts of one blog share a slug, the third has it in another blog:
  the index refuses and accepts. A post has at most one row or directory, so as
  many ids as posts are never used up. The number of stops, failures and starts
  is not bounded.
* *Site*: `MaxWrites` = 3 statements that change a table and `MaxRows` = 3 rows in
  each. Three writes reach from the second initial database what several of them
  have to come together for: an account, its comment, and its deletion; or a comment,
  its blog deleted, and a name registered again. That database has the rows (the
  admin, a deleted reader with a comment, a deleted and a live blog of one slug, posts
  of one slug) that the empty one would need many more writes for. Of the three public
  ids one is the posts' one slug. Sessions, logins, starts and stops are not bounded.
  The proofs hold for every bound.
* *Traffic*: `MaxTime` = 5 ticks, `Burst` = 1 of `Cost` = 3 ticks, `MaxLag` = 1, buckets
  dropped after `InactiveLimit` = 4, visitors after `Validity` = 2. Three requests allow
  two to overlap in the look ahead and a third to meet the bucket they leave, or to come
  between a request's clock and its mutex so that the bucket's time is set back; a bucket
  to be dropped and made again; and a visitor to return before, at and after the
  boundary. A step works with a time that is up to one tick old. Requests are used up and time ends, so these two runs do not check for
  deadlock.
* All state graphs are explored completely, and deadlock is checked everywhere
  else. The other runs count nothing and need no bound in a guard.
* Symmetry is used for requests, browsers, workers, jobs and ids, in runs without
  liveness properties only.

### Fairness

* `EnqueueReturns` assumes only that a goroutine inside `Enqueue` is scheduled
  (`CallerFairness`), and not that its context ever ends.
* `AcceptedIsTaken` and `ShutdownCompletes` add that workers and the closer are
  scheduled (`PoolFairness`): Go's scheduler is preemptive, and no step of
  `ProcessJob` waits for another goroutine. A call of the store that never returns is
  excluded by that; the code gives those calls no timeout of their own.
* `CallsReturn` and `CacheCallsReturn` need strong fairness where a goroutine waits
  for a lock, the registry's or the post's, and weak fairness for its other steps:
  `RWMutex` admits the readers a writer kept out before the next writer, and its
  inner mutex hands over to a writer that has starved.
* The seeder has no liveness property: a step may fail at every start. `Site` has
  none, because whether a browser asks is its own affair, and `Traffic` none, because
  every step of `Middleware` and `Record` ends without waiting.

## 4. Proofs

| module | theorem | states, for every value of the constants |
|---|---|---|
| `ImageProcessorProofs` | `TypeCorrect` | `Spec => []TypeOK` |
| | `NeverDuplicated`, `AlwaysMarked` | `Spec => []NoDuplicateJobs`, `Spec => []OutstandingMarked` |
| | `Refinement` | `Spec => ImplementsLifecycle` |
| `AssetPipelineProofs` | `PipelineTypes`, `KnownServed`, `JobsRegistered` | `Spec =>` `[]TypeOK`, `[]KnownImageServed`, `[]JobsOfRegisteredImages` |
| | `ProcessorInPipeline` | the processor's `NoDuplicateJobs` and `OutstandingMarked`, under the pipeline's `Spec` |
| `AssetRegistryProofs` | `TypeCorrect` | `Spec => []TypeOK` |
| | `MapsInverse`, `WholeEntries`, `Resolves` | `[]MapsAgree`, `[]ReadersSeeWholeEntries`, `[]ReturnedIdResolves` |
| `SeederProofs` | `TypeCorrect` | `Spec => []TypeOK` |
| | `NeverSeededTwice`, `DirectoriesNamed`, `NoStrayObject`, `ManifestsAtHome` | `[]OneRowPerPost`, `[]DirectoryNamesRow`, `[]ObjectsHaveRows`, `[]BlogsAtHome` |
| | `CleanRunComplete` | `Spec => []CleanRunSeeds` |
| `PostCacheProofs` | `CacheTypes`, `CacheLoadsOnce`, `CacheResolves`, `CacheStays` | `CacheSpec => []CacheTypeOK`, `[]LoadedOnce`, `[]CachedPageResolves`, `CachedStays` |
| | `CacheRegistry` | the four invariants of the registry under `CacheSpec` |
| `SiteStoreProofs` | `StoreTypes`, `StoreKeys`, `StoreLinks`, `StoreFrozen` | `StoreSpec => []StoreTypeOK`, `[]S3KeysUnique`, `[]ListedLinksOpen`, `FrozenRows` |
| `SiteProofs` | `SiteTypes`, `SiteLinks`, `SiteDelete`, `SiteComments`, `SiteStarts` | `SiteSpec /\ Consistent =>` `[]TypeOK`, `[]ListedLinksOpen` and `[]S3KeysUnique`, `[]ShownDeleteIsOwn`, `[]CommentsOnListedPosts`, `[]OnlyDeletedAdminStopsStart` |
| | `SiteFrozen` | `SiteSpec /\ Consistent => FrozenRows` |
| | `SiteRegistrations` | `SiteSpec => []ValidatorCoversCheck` |
| `TrafficProofs` | `VisitsRefined` | `TrafficSpec => ImplementsVisits` |
| | `TrafficTypes`, `HoldersKeep`, `Counted` | `TrafficSpec =>` `[]TypeOK`, `[]HoldersKeepBucket`, `[]CountsAreAdmitted` |
| | `CancelsBounded`, `BucketsRefined` | `TrafficSpec =>` `CancelsWithinCredit`, `ImplementsBuckets` |

Each module has an inductive invariant from which its other theorems follow.

*Processor.* Neither `NoDuplicateJobs` nor `OutstandingMarked` is inductive alone:
an unmarked held job could be claimed again, and of a job held twice one holder
could delete the other's mark. Their conjunction with `TypeOK` is. `LoadOrStore`
claims only unmarked, hence unheld, jobs; a job then moves from its one holder to
the next; and the only key a step deletes is the mark of the job whose one holder
is the goroutine that deletes it, or no mark at all (`KeyFacts`: no worker key is
an enqueue key). The refinement goes action by action: a step changes the life of
at most one job, and does so as `VariantLifecycle` allows.

*Pipeline.* `AssetPipelineProofs` makes an instance of the processor's proofs, with
requests as callers, and keeps the processor's invariant through the steps that the
processor alone does not have: a request that calls `Enqueue` again, and a restart.
`KnownImageServed` and `JobsOfRegisteredImages` are not inductive: between two calls
of a handler, `Learned` and `StillKnown` say what it has found out and may still rely
on. That stays true because variants are never removed, and the registry only grows
within a run of the process. A held job is of a registered image (`HeldRegistered`)
because only a request that found the image enqueues, and because a job changes
hands but not its image.

*Registry.* `MapsAgree` says nothing of the moment between the two assignments, so
`EntriesOK` does: the reverse map lacks at most the entry of the goroutine that
is in that gap. `GoroutinesOK` says that no reader is inside with a writer; hence
a goroutine that finds an entry under a lock finds it in both maps
(`CompleteEntries`), and what `Obfuscate` returns is there for good.

*Seeder.* `OneRowPerPost` follows from the unique index on blog and slug alone
(`SlugsUnique`), and not from the ids: a loose file gets a new id at every try.
`DirectoryNamesRow` needs more, because it relates stores that change one after the
other: where the post in hand lies (`PostInHand`), that listed posts stay where
they were listed although the loop moves others (`ListedPlaces`), and that only
files that are there have rows (`RowsHaveFiles`), so that no author can put a file
under an id that its row does not have. `CleanRunSeeds` speaks of the end of a run and
needs what a run without failure still owes at each moment (`RunInv`): for a blog that
is due, that it is in `todo` or that a later loop will list it (`BlogsOwed`); for a post, that its
file or its directory is still to be listed, or that it is the one in hand (`PostsOwed`);
and that what was read at the start still holds of the stores (`ReadBefore`). The
obligation passes from the loop over homes to the loop over what lies elsewhere, and
there a manifest that was moved in vain matters.

*Post cache.* The invariant `CInv` joins the registry's `IInv` to four facts: who
loads is alone in the post's lock (`Alone`), finds no content (`LoadsMissing`),
every image its walk has passed is in the registry or on its way into it
(`WalkOK`), and so is every image of the cached page (`ContentOK`). Every step of
the cache is a step of the registry or leaves its variables alone, so that the
registry's proofs are cited and not repeated; and no step of the registry takes an
entry out of it.

*Site store.* `ListedLinksOpen` relates three tables and two unique indexes and is
not inductive. `StoreInv` is what the database enforces: names unique up to case
over all users, slugs over blogs that are not deleted (`ActiveSlugsUnique`), public
ids over all posts and slugs in each blog (`PostsUnique`), and that a post's key
ends in its id (`KeysNameIds`), whatever slug it begins with. The key of a post is
unique by its second part alone. A link finds one live blog and in it its own post; any
other post that it finds has that post's slug as its public id, or its id as its slug,
and of such there is at most one, since ids and slugs are each unique there. Nothing is
assumed of where ids come from.

*Site.* `SiteInv` adds what handlers and sessions hold: a session's user is a row
whose name is, up to case, the name as typed, and it stays so, since no row goes
and no name changes; the post a comment waits for was listed when it was looked up,
and no statement takes a post off the lists. `ShownDeleteIsOwn` then follows from
the uniqueness of names over deleted users too: two accounts cannot have had one
name. The theorems hold for every initial database that is `Consistent`, which the
empty one is (`StoreInitInv`), as is the run's second one.

*Traffic.* A visitor whom the cleanup forgets was last seen before a time that
was `Validity` ago when the cleanup read the clock, and so is at least that long
ago later: `age` is `Old` before and after, and the step a stutter of
`VisitCounts`. That is where a `Record` between the two steps of the cleanup,
and the boundary, matter (`GeoInv`: the cut-off is never later than `Validity`
ago). `HoldersKeepBucket` follows from `3 * MaxLag` being at most `InactiveLimit`: a
request has set `seen` when it looked its bucket up, and makes three more steps. `CountsAreAdmitted` counts
goroutines that have ended (`Recorded`), each of an admitted request of that
country: `Record` adds at most one to a count where its goroutine joins that set.

`BucketsRefined` rests on `CreditOf`: a bucket holds no more than the admitted
requests have left (`credit`), and its time is no later than `3 * MaxLag` after it was
last looked up, so that the cleanup drops only buckets that have had no request for
`Patience`: the step `Forget`. Each step of a request is one with a time of the last
`MaxLag` ticks. `Allow`, `Reserve`, the lookup, the cleanup and time keep all that, also
where the time goes back; `Cancel` is the hard step (`CancelsBounded`). It restores what a reservation took less what was reserved
after it, which it tells by the bucket's last event; and the `Cancel` of the last
reservation moves that event back, so that an earlier one may give back more again.
`Covered` therefore bounds all that the overlapping reservations can still give
back, as long as none of them was overtaken (`crossed`); then nothing bounds it but the
size of the bucket. As of any time from now on, or from the last event on, it weighs each that
acts later by a potential (`Pot`): linear up to one `Cost`, doubling with each
further one. That sum is at most what the bucket is behind the credit, weighed
likewise. `Pot` is convex, and each tick counts for one at least; so a `Reserve`
pays for its own weight, a `Cancel` gives the bucket no more than it takes out of
the sum (`ReturnBefore`, `ReturnAfter`, `CancelCovered`), and a reservation whose
time has come drops out. Powers and sums are written as cardinalities and minima of
sets, and the lemmas about them use the least element of a set of numbers instead of
an induction theorem. The theorem holds for every burst, rate and number of
overlapping requests. The run `traffic` alone would not show that: with three
requests a `Cancel` gives back all that it took or nothing. To give back a part
takes a larger burst, four requests and a longer lag than TLC explores there.

*Assumptions.* The capacity is a positive number, widths are numbers; the names for
"nothing" are not jobs, goroutines, paths, blogs, posts or ids; `Clean` and `BlogOf`
are functions; an id is not the word for a place (`none`, `loose`), and a blog is
not a post (`FilesAssumption`); a run has finitely many requests
(`RequestsAssumption`). The rest is the models' own: UUIDs of different paths
differ; an id that the seeder draws is new. `InactiveAssumption` is one on the
scheduler: a request that has looked its bucket up makes its three steps in no more
than the three idle minutes. Of burst and rate nothing is assumed but what `config.go`
checks, that they are positive: where a burst takes longer to fill than the idle time
(with the default, 50 at a rate of 20, it takes seconds), a client that pauses for
three minutes gets a full bucket too early, and `TokenBuckets` says so.

*Only model-checked*: the liveness properties and the fairness they need (out of
the prover's reach, with `ENABLED`). Every invariant, action property and refinement
that a passing run checks has a theorem.

## 5. Not modelled

* Pixels, HTML, templates, headers, logging, metrics and spans: no property
  depends on them.
* Configuration: read once, before anything runs; simple comparisons, which the
  repository's unit tests cover.
* Telemetry: no state of the program depends on it. Utilities: two pure functions;
  the draw of a public id is a fresh id in `SiteStore` and `Seeder`.
* CSRF, CSP, the delay, the rest of the router: no state shared between requests.
  The recovery of panics is the answer 500 in `AssetPipeline`.
* The scan of the disk repository at the start, and the upload of `sync.go`: file
  I/O whose effect only is modelled. `streaming_reference.go` and
  `blog_reference.go` are commented out.
* `WithTx`: it has no caller. Called with a function that uses the store instead of
  its transaction, it would wait for the one connection it holds itself.
* The order of the shutdown in `App.Run` and the exits of `main`: the process may
  end at any step in `AssetPipeline`, `Seeder` and `Site`, and what is left behind is
  what the next start finds, whichever way it ended.
* In the site: invite code, honeypot and the lengths of names, titles and texts end
  a request without a change; encryption, order and paging of lists; two calls of
  `CreatePost` at a time (keys differ by the public id alone).
* In the limiter: the second limiter, before the routes of auth, which shares
  nothing with the first; the headers of the answer; rounding of times.
* In the seeder: directories whose name is not their blog's slug, and post
  directories without exactly one file, which the code passes over; several
  manifests with one title; the deletion of users, blogs and posts while the
  seeder is off.
* In the processor: a store call that hangs; a worker count of zero (`main`
  starts at least one).

## 6. What is left

1. The seeder's calls of `SiteStore` as one composition: today each has its own
   picture of the rows, the seeder's with files and objects, the site's with users,
   deletes and renames.
2. `Slugify` against a reference definition.
