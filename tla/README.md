# TLA+ models of poisk

poisk is a search engine written as a modular monolith in Go: one binary
(`cmd/app`) whose modes are the HTTP API, the index workers, the mail gateway
worker, the resource monitor and a set of operator commands. All of them work on
one PostgreSQL database; the search index itself is a Manticore server reached
over HTTP. There is no in-process message bus: processes interact through tables,
and most of what is hard about the system is in how several processes use the
same table at once. This directory models those tables and processes in TLA+,
checks the models with TLC and proves the main results with TLAPS.

## 1. Inventory

| Part | State | Operations | Interaction | Hard behaviour |
|---|---|---|---|---|
| index outbox (`internal/indexer/outbox`, `worker/runner.go`) | `index_outbox` rows; leases in worker memory | Enqueue, RequeueExpired, SupersedeStale, Lease, LeaseType, MarkProcessed, Retry | written by producers in their transactions, polled by three kinds of indexers | expiry against late answers, sweeps over other workers' rows, snapshot semantics of the lease statement, attempts at their limit |
| web document source (`internal/indexer/source`) | `urls`, `document_versions`, `document_content` | SaveExtracted, IsCurrent, LoadVersion, RebuildBatch | canonical update and outbox record in one transaction | versions that are re-extracted or left behind |
| web indexer (`worker/processor.go`, `indexer/manticore`) | the Manticore table | Process, Apply, Delete | four separate requests per event | check-then-act on an index without transactions, requests that fail after taking effect |
| rebuild command (`cmd/app/indexctl.go`) | cursor and page in memory | DROP, CREATE, page, apply | races the indexer | pages loaded before and applied after a deletion |
| resource monitor (`internal/platform/resources`) | one `system_settings` row | Check, Persist | admission of every lease | stale or missing reports |
| crawl queue (`internal/crawler/queue`) | `crawl_queue` | Enqueue, Lease, Complete, Retry, RequeueExpired | fed by webmaster requests and sitemaps | merging into an active task, expiry |
| crawl policy (`urlnorm`, `trap`, `robots`, `scheduler`) | `domains`, feedback rows | Normalize, Check, Allowed, EligibleDomains, ComputePriority | decides what the queue gets; reads the boosts of demand | two spellings of one page, paths that repeat, boosts at their cap |
| fetcher (`internal/crawler/fetcher`, `security`) | kept connections, one Fetch | Fetch, redirects, retries, dial | servers and name servers | an answer that changes between check and dial, Retry-After, validators sent elsewhere |
| extraction (`internal/extractor`) | none | Extract, RobotsFromHeaders, Passages | feeds the source | hiding at any height, limits, directives of other robots |
| webmaster sites (`internal/webmaster`, `identity`) | users, profiles, sessions, sites, challenges | register, log in, rotate, revoke, add, verify | writes `urls`, `crawl_queue`, `index_outbox` | a lock and two caps read before they are written, proofs that change between fetch and update |
| sitemaps (`webmaster/sitemap_*.go`, `crawler/sitemap`) | `webmaster_sitemaps` | submit, lease, fetch, parse, expand, retry | HTTP, the crawl queue | leases with one worker_id, an index that lists itself, spent attempts |
| mail gateway, outbound (`internal/mail/gateway_*.go`, `dead_letter.go`, `deliverability*.go`) | `mail_outbound_deliveries`, suppressions, domain pressure, gateway events | SendDraft, lease, submit, callback, maintenance, operator retry | the MTA, over signed HTTP in both directions | unheard answers, repeated and late callbacks, leases shorter than a batch, suppression against a leased delivery |
| mail gateway, inbound; mailboxes; attachments (`internal/mail/gateway_ingest.go`, `repository.go`, `items.go`, `attachments.go`, `retention.go`) | messages, copies per mailbox, attachments, quotas, receipts; files under `MAIL_BLOB_DIR` | draft, send, move, upload, detach, ingest, prune the trash, collect files | the MTA, users, the resource monitor | files and rows that change apart, repeated events, quota races, a retention pass that fails as a whole |
| organization import (`internal/organizations`, `cmd/app/orgctl.go`, `internal/admin/organization_ops.go`) | batches, staged rows, plans, reviews, organizations and their source links | stage, plan, decide, promote, apply | operators, administrators, apply workers; announces versions in the outbox | plans that are stale when applied, two planners of one batch, a crash between two rows, late decisions |
| organization index, addresses | versioned rows, address change sets | index, resolve | outbox events | partial application |
| billing (`internal/billing`) | accounts, subscriptions, invoices, events, ledger, usage | subscribe, apply payment event, reconcile, consume | the provider through `billingctl`, the webmaster API | repeated and reordered events, a quota read before it is used |
| search (`internal/search`, `query`) | cache, in-flight calls, slots | Search | Manticore, guard | shared calls with other limits, leaders that fail, waiting for a slot |
| answers (`internal/answer`) | hourly counters | Answer, Record | search results | claims that are not in the source, hosts counted twice |
| quality (`internal/quality`) | golden set, history | EvaluateGolden, CheckGate, scores | operators' releases | unjudged queries, ratios with denominator 0 |
| geo (`internal/geo`) | organizations index | Search, Viewport | Manticore | a cut before the ranking, places on an edge |
| maps (`internal/maps`) | versions, active and previous pointer, journal | register, activate, roll back, serve | `mapctl`, browsers, files on disk | files that change after a check, commands side by side, wrapping offsets |
| data hub (`internal/datahub`) | pages, versions, build cursors | build, publish, suppress, reopen, roll back | worker, `datahubctl`, console | a batch that fails half way, rebuilding what an operator suppressed |
| demand (`internal/demand`) | buckets, gaps, observations, boosts | record, materialize, suppress, reopen | search handler, worker, scheduler | bursts, a worker that acts on an old snapshot |
| administration (`internal/admin`) | sessions, previews, audit | preview, apply | the other parts' tables | targets that change between preview and apply, an effect committed apart from its authorisation |
| platform (`migrate`, `guard`, `metrics`) | migrations, buckets, ring | Migrate, Allow, Observe | all | concurrent start, a clock read before a mutex |
| growth (agency, claims, referrals, widgets), reviews | their tables | submit, moderate, approve | webmaster, organizations, billing | double rewards |

What makes each modelled part correct is stated in section 3; the hazards behind
these statements are listed, with source lines, in `PROJECT.json`.

## 2. Modules

| Module | Models | Kind |
|---|---|---|
| `LeaseQueue` | what every leased work table promises | abstract specification |
| `IndexOutbox` | the outbox, its repository and the polling loop | component |
| `WebIndex` | producers, web indexer and index; contains the actions of `IndexOutbox` | composition |
| `WebRebuild` | the rebuild command on top of `WebIndex` | composition |
| `CrawlQueue` | the crawl queue and its producers | component |
| `CrawlPolicy` | URL spelling, traps, robots, schedule and priority | algorithms |
| `Fetcher` | one Fetch, its redirects, retries and connections | component |
| `SitemapParser`, `SitemapDocs` | the streaming parser, and what a document says by position | algorithm and its reference |
| `SitemapQueue` | the sitemaps of a site and their workers; uses `SitemapParser` | composition |
| `Extraction` | text, title, items, directives and passages of a page | algorithms |
| `Accounts` | requests under way; identities, locks, sessions, profiles | component |
| `SiteOwnership` | sites and their verification | component |
| `MailDelivery` | what the gateway promises about one delivery | abstract specification |
| `MailOutbound` | the outbound gateway | component |
| `MailStore` | mailboxes, attachments and their files, inbound mail, retention and collection | component |
| `OrgImport` | staging, planning, review and application of organization imports | component |
| `Billing` | accounts, subscriptions, payments, ledger, quotas | component |
| `SearchApi` | admission, cache, shared calls, ranking | component |
| `Answers`, `Quality`, `Geo` | extractive answers, the quality gate, places and clusters | algorithms |
| `Demand`, `DataHub` | query gaps and boosts; pages and their versions | components |
| `AdminConsole` | previews and applies over `Demand`, `DataHub`, reviews and dead letters | composition |
| `MapVersions`, `Migrations`, `ApiGuard` | map releases, schema migrations, rate limiter and latencies | components |
| `Platform` | the three together: a step is a step of one of them | composition |
| `Ordering` | what ORDER BY, a stable sort and a filter return; and a sum; used by accounts, search, crawl policy, places, migrations and metrics | operators |
| `WebIndexProofs` | theorems about `IndexOutbox`, `WebIndex` and `WebRebuild` | proofs |
| `SearchingProofs` | theorems about `CrawlQueue`, `Fetcher`, `SearchApi`, `CrawlPolicy` and `Geo` | proofs |
| `MailProofs` | theorems about `MailOutbound` and `MailStore` | proofs |
| `OrgImportProofs` | theorems about `OrgImport` | proofs |
| `PortalProofs` | theorems about `SiteOwnership`, `SitemapQueue`, `Billing` and `Accounts` | proofs |
| `PlatformProofs` | theorems about `Platform` | proofs |
| `OrderingProofs` | lemmas about the operators of `Ordering` | proofs |
| `ConsoleProofs` | theorems about `AdminConsole` with `Demand` and `DataHub` | proofs |
| `MC*`, `*.cfg` | small instances | model checking |

Conventions. Rows of a table are records in a function over their keys, with
status `"NONE"` for a row that does not exist. A transaction or single SQL
statement is one action; two statements, or a statement and an HTTP request, are
two. Time is not a number where a bit per deadline is enough (`due`, `live`,
`over`), set by a clock action at any moment; `Demand` and `ApiGuard` count ticks
because their rules add and compare times. Every process keeps what it
read in variables of its own, so an action works on what the code has in memory
and not on the table. Crashes lose those variables. Texts, addresses and errors
are members of small sets. Every bound is a constant whose comment says
"bound". An algorithm is an operator checked over inputs that grow by one element a
step, against a definition that says what the result should be.

### IndexOutbox

`rows` is the table, `pc`, `picked` and `held` the polling loop of
`Runner.Run`. An event is `(entity, version)`, the unique key since migration 4.
`RequeueExpired`, `SupersedeStale`, `MarkProcessed` and `Retry` are one SQL
statement each. The lease statement of `LeaseType` is two steps, `LeaseTypeSnapshot`
and `LeaseCommit`: under READ COMMITTED PostgreSQL evaluates the `NOT EXISTS`
subqueries on the statement's snapshot and re-evaluates only the conditions on the
candidate row itself when it locks it. `Lease`, which only tests call, differs in
not reading the pressure row. `Persist` and `PressureGoesStale` are the monitor.

### WebIndex and WebRebuild

`SubmitURL` and `DeleteURL` are `QueueURLRequest`; `SaveExtracted` is the
extraction transaction. The repository contains no process that crawls, so
extraction may deliver any content for any version the URL has had.
`Process`, `IsCurrent`, `LoadVersion`, `CurrentVersion`, `Replace`, `Delete`,
`Acknowledge` and `Fail` are the requests of `Processor.Process` in order;
`RequestFails` lets any of them fail, with or without its effect. `WebRebuild`
adds the command; while the table is missing the indexer's requests fail.

### CrawlQueue, CrawlPolicy, Fetcher

The queue's repository is the code; its callers are clients that may use any method
at any time, remember tasks and crash. `Enqueue` is both `Repository.Enqueue` and the
sitemap worker's insert (the same upsert), `WebmasterCrawl` the request's insert.
`CrawlPolicy` holds the pure decisions: `Normalize` over URLs whose parts carry the
spelling differences the code removes, `Check` of the trap guard, the robots groups,
`EligibleDomains` with the boosts and `ComputePriority` as an exact ratio. A robots rule
is matched against the path and the query as they are written (`Test`, `RuleMatches`);
rules end at the end of a segment or parameter, and escapes inside a query are left out.
Because `Normalize` sorts and drops parameters, a URL and its normal form may get
different verdicts: `Disallow: /p?a` allows `/p?b=1&a=1` and refuses `/p?a=1&b=1`.
`OneSpellingPerPage` claims the same verdict only where no rule names a query or
normalising leaves the query alone. `Allowed` is only called from its tests so far.
`Fetcher` separates the validation of a target, the choice of a connection, the
dial (which validates again) and the answer, because the name servers may answer
differently each time (`NamesChange`) and a server may close or keep a connection.

### SitemapQueue, SitemapParser, Extraction

A document is the sequence of tokens the XML decoder delivers; `ReadToken` is the body of
the parser's loop, folded over the document. `SitemapQueue` runs the parser on the
documents of an instance in which an index lists itself. `ProcessSitemap`,
`AddSitemapURLs`, `AddChildSitemaps`, `CompleteSitemap` and `RetrySitemap` are the
statements of one task in order; all workers write the same worker_id.
`Extraction` works on trees given in document order with depths: `ParsePage` is the
walk, `Passages` the splitting of a text into passages, `RobotsFromHeaders` the
directives of the header values.

### Accounts, SiteOwnership, Billing

A request is a row of `request` with the step it will take next and what it has read.
`Login`, `RecordLoginFailure`, `RecordLoginSuccess` and `CreateSession` are separate
statements, as are the trigger and the insert of a webmaster session. `WebmasterLogin`
checks the same password (the two profiles are kept in step) with neither lock nor
count, so a wrong password there changes nothing. `ConsumerGuessesBounded` is therefore about the consumer login
alone; over both logins together the wrong passwords for an account have no bound. In
`SiteOwnership` a token is the number of its challenge; `shown` remembers which tokens
the host itself presented, wherever it redirected to. `Billing` applies a payment
event as one transaction whose guards are the code's errors: an event that is refused
leaves nothing, so it may be sent again.

### MailOutbound

`LeaseOutbound` includes the suppression check of the same transaction and the
failure of the whole transaction at the limit of the `attempts` column.
`LoadOutboundEnvelope`/`EnvelopeInvalid`, the four answers of the MTA and the
recording of the answer are the steps of `process`. `Callback*` are the branches of
`ApplyOutboundCallback`. Only callbacks for envelopes the MTA accepted are
modelled. The MTA is external and modelled from `MTAClient.Submit`. `Submit` returns up to
64 KiB of an error's body as its detail, and `RetryOutbound` and `MarkOutboundDead` refuse
a detail of more than 1000 bytes; `long` is that bit of an answer and `Recordable` the
guard. A refused answer leaves the row leased; it is leased again when the lease expires,
beyond `MaxAttempts`, until its `attempts` column is full, and then the lease of every batch with it
fails.

### MailStore

`message` and `copies` are `mail_messages` and `mail_items`; `blob` stands for an
attachment with its blob row, `blobFiles` for the files on disk, `gcRows` for
`mail_blob_gc`. An attachment has one unit of size, and a deadline of thirty days is the
bit `old`. Drafts, sending (the part of `SendDraft` that stays inside; `MailOutbound` has
the rest) and the moves between folders are one transaction each. `UploadWrite`,
`UploadCheck` and `UploadCommit` are `AttachmentStore.Upload`: the file, the reads behind
`SELECT ... FOR UPDATE` of the mailbox, and the inserts; `DetachRead` and `DetachCommit`
split `Detach` where it has read a draft it does not lock. `IngestWrite` ends with the
files, `IngestAccept` and `IngestRefused` are the two outcomes of the transaction that
follows. `PruneSelect` to `PruneRollback` are `PruneTrash`, whose deletion of a message
fails where a foreign key forbids it (`Restricted`) or a NULL does not scan
(`SenderIsNull`); `Gc*` are `RunBlobGC`, with the file and its row removed separately.
A request or a pass may fail or die between any two steps; files left by a request
that died are remembered in `leaked`, since nothing in the code ever removes them. A commit whose answer
is lost, after which the code removes the files of rows that exist, is not modelled.

### OrgImport

`batch`, `staged`, `plan` and `reviews` are the import tables, `orgs` and `links` the
canonical ones, `file` the immutable input of a batch. An `orgctl` process is a
program counter with what it has read: `StageRow` stages one line, `RowsForPlanning`
reads a page, `LinkedCandidate` and `StrongCandidates` are the two queries of
`planRow`, and `SavePlan` the transaction that follows, so a plan may be stale before
it is saved and is stale when it is applied. `ResolveReview` is the command line's
decision, `PreviewOrganizationReview` and `ApplyOrganizationReview` the
administrator's. `ApplyNext` is one transaction per row and is split by its outcome:
`LeaseLost`, `ApplyDone`, `ApplyConflict`, `ApplyUnchanged`, `ApplyCreate`,
`ApplyUpdate`. A payload is a name and three optional fields, which is what matching
compares; two payloads have the same hash if they are equal. Coordinates, city and
category follow the same rule as the optional fields and are left out. No code closes
or hides an organization, so every row is ACTIVE.

### SearchApi, Answers, Quality, Geo

A search request goes through admission, the cache, the flight group, a backend slot,
ranking and the cache again; every point where it may block is a step, and its deadline
may pass at any of them. The hits of a backend call are carried by its leader and handed
to whoever joined, and a response is ranked from the hits the request holds; two limits
with the same backend limit share a call. A cached response keeps the raw query of whoever
stored it (`service.go:86`), which may be spelled differently from the query of
whoever finds it: the property asks for the same normal form, not for the same spelling.
The index may change once while requests run. `Answers` models the text
functions on symbols (words, tag marks, ends of sentences), which is what decides
whether a claim is a run of visible text. `Quality` keeps ratios as pairs of integers;
the discounts of NDCG are any decreasing sequence. `Geo` replaces the sphere by a grid
and the logarithms by increasing tables.

### Demand, DataHub, AdminConsole

`Demand` is one query: `Record` is the handler's transaction, `Materialize` the
worker's, which reads candidates first and commits later. `DataHub` builds pages in
cursor order; a failing page ends the batch. A batch walks the pages of active organizations
and domains only (`Active`), so the page of one that is no longer active stays as it was last
built. `AdminConsole` extends both and adds the
preview and apply pairs; each console shares one set of tokens and sessions, and the
audit rows remember the state the apply found.

### MapVersions, Migrations, ApiGuard

`mapctl` commands read the pointer, check the files and store the switch, with files
that may change in between. A migrator holds the advisory lock for its whole run and
may die at any step. `Allow` enters the mutex with a time read earlier.

## 3. Runs

Passing runs:

| Run | Instance | Shows |
|---|---|---|
| `outbox_web` | 2 indexers, 1 URL, 2 versions, 2 attempts, 1 fault | `ExclusiveLeases`, `AckedByHolder` (answers end only their own lease), `NewestNotSuperseded`, the lease contract |
| `web_one` | as deployed: one web indexer beside another type's, versions extracted twice, no faults | `SettledIndexMatchesEvent`, `IndexedTextIsExtracted`; the outbox is used as specified |
| `web_live` | 1 indexer, fair, a crash and a failing request | `EventuallySettled`, `DeletionTakesEffect` |
| `rebuild_pages` | 2 URLs, pages of one, a failing request | `RebuildLosesNothing`: a rebuild that reports success has skipped nothing |
| `mail_letters` | 3 letters to one recipient with one worker, or 1 letter with two workers of one lease_owner; or the mailboxes: 2 of them, 2 messages, 2 requests at a time, 3 storage keys, quota 2, 1 fault | `BounceCountedOnce`, `SubmittedIsAccepted`, the promise of `MailDelivery`; `MailStoreHolds` (quotas exact, every attachment has its file, no other file is forgotten, an event is one message, copies fit their message) |
| `org_planners` | 2 orgctl processes, 2 apply workers with one worker_id, 2 batches, 1 fault | `DoneIsComplete`, `NoReviewWhileApplying`, `SourcesCountOnce` |
| `services` | sum of accounts, sites, sitemaps, billing, guard, maps, migrations and console | the bundles `AccountsBounded`, `VerifiedByOwnProof`, `FetchedIsStored`, `BillingIsExact`, `PlatformHolds`, `PagesFollowHistory`, `ConsoleIsSafe`, `BoostsAreBounded` |
| `searching` | sum of crawl queue, policy, sitemap parser, fetcher, extraction, search, quality, answers, geo | `OneActivePerPage`, `PageCrawledOnce`, the lease contract, `PolicyIsSound`, `ParsedIsListed`, `FetchIsContained`, `ExtractionIsFaithful`, `SharingIsSound`, `QualityIsSound`, `AnswerIsGrounded`, `PlacesAreAccounted` |
| `progress` | sum of sitemaps, search, mail and import, fair | `SitemapsSettle`, `EveryRequestAnswered`, `EventuallyOut`, `EventuallyDone` |

`services`, `searching`, `progress` and `mail_letters` are sums: components that share no state are
explored in one run, as the union of their state spaces. A variable `part` picks one of them in
the initial state, only the actions of that part are taken, and the others stay in
their initial state. Some components have several parts, each with a restriction
that keeps another aspect small (for instance `billing` without consumers and `quota`
with one event); a restriction cuts behaviours short, never the property. Components
that do interact are composed for real: the console with demand and data hub, the
sitemap queue with the parser, the web index with the outbox, the rebuild with both.

What the properties of a bundle say is in the comment before each definition; the
mutants break its conjuncts one by one.

Runs that violate what a document of the repository says; each is described under
"findings" in `PROJECT.json`: `web_reindex`, which is reachable as the system is
deployed; `rebuild_race`, which needs the command to run beside the indexer, as
the runbook has it; and `mail_retention`, where the trash is never emptied although the maintenance
runs: the message is deleted together with its last copies, the events that refer to
it forbid that, and the pass is rolled back every time.

Seen while modelling and not kept as runs: the data hub's builders save their cursor once per batch, so a page that
fails makes them repeat the pages before it (`S20-data-hub.md:64` says otherwise); two web indexers whose lease statements overlap can hold two versions
of a URL at once (`LeaseTypeSnapshot`/`LeaseCommit`; one indexer is deployed); `Lease` admits under pressure,
but has no caller outside tests; the rebuild reads the newest extraction and not the
one of the current version (`RebuildCurrentBatch`, whose comment asks rebuilds to use
it, has no caller); a delivery leased
while its recipient is suppressed is still submitted; an MTA error with a body of more than
1000 bytes is never recorded, so its delivery is neither retried nor given up at the eighth attempt but
wears out its `attempts` column (`EventuallyOut` says what is left); the webmaster login takes any
number of wrong passwords for an account whose consumer login is locked
(`security-commercial-readiness.md:96` lists "brute-force lockout" without the distinction); a row of an import that
conflicts blocks its batch for good; an older import applied late overwrites newer
data of the same source record; a sitemap that failed keeps its spent attempts when it is submitted
again and is never leased; a webmaster's site limit is counted before the insert, so two
requests may exceed it; a rollback of the map switches to the previous version as it is
when the switch is stored, not as it was checked; a gap suppressed while the demand worker has
it in memory is boosted once more; an upload or a detachment that has read a draft changes the message although it
has been sent meanwhile; a domain changed after its preview is overwritten by
the apply.

Bounds. Two workers are enough for a lease to be lost to somebody else, two
attempts for a second try that is also the last, two versions for superseding and
for a deletion after an extraction, one fault for every single crash or database
error at every point. Three mail deliveries are needed to suppress a recipient (two
bounces) while a third is waiting or leased. Errors too long to be recorded
come in the run with two workers from one of them, and in `progress` for one of the letters, without a limit on their number. In the mailboxes two requests overlap on one mailbox,
a quota of two is exceeded by a third attachment, and an event id comes twice with one letter or with two. An import needs two organizations that
exist before a third source matches both, hence a first batch of two lines and a
second one that matches, updates or repeats. Two clients race for every lock and cap,
with the caps at one or two so that they are reached; amounts (`Amounts`) of one and two let a price of two be
given back in part or in full; two payment events are enough for a
payment and its refund, failure or repetition in both orders. Path loops
need six segments, a document of the parser nine tokens, a page of the extractor four nodes.
One operator retry of a dead delivery
reaches its limit of one. Of the search limits 1, 2 and 3 two share a backend limit and
one does not. The latency ring and the limiter wrap around within their bounds. PMTiles offsets
have four bits, which is enough for a sum to wrap. Larger values were left
out because the same cases recur; the theorems have no bounds.

Symmetry is used over interchangeable letters, importers, workers, clients,
sessions, tokens and payment ids, never in a run with a liveness property. In the sums the
symmetric sets of different parts share their model values.

Fairness. Liveness runs assume weak fairness of each worker's loop, which never
stops polling and is restarted by the container runtime, of each search request's goroutine, and that deadlines pass
(leases end, request contexts time out, cooldowns are over). `mail_retention` assumes weak fairness of the maintenance, which
the resource monitor runs every six hours.
Nothing is assumed of producers, of the MTA, of servers or of faults. `EventuallyOut` has
two parts: if no answer of the MTA is ever too long to be recorded, every delivery leaves
the queue; whatever the MTA answers, it leaves the queue or some row wears out its
attempts. `EventuallySettled`,
`DeletionTakesEffect`, `SitemapsSettle` and `EventuallyDone` only promise something if the monitor
eventually keeps reporting admissible pressure, which is what the lease statements
require.

Deadlock is checked in the runs of a single system, where some process can always
poll. In the sums it is not: inputs end at their bounds, a
restriction may cut every next step, and a part may come to rest for good.

Every property has at least one mutant: an operator, placed before the definition it replaces,
that changes the code the way a plausible mistake would. TLC finds the property
violated under each.

## 4. What is proved

For every value of the constants (TLAPS, SMT, Zenon and LS4):

* `WebIndexProofs`, outbox. `IInv` is `TypeOK`, `ExclusiveLeases`, `NewestNotSuperseded`
  and `FreshRows` (a row that does not exist has attempts 0). `FreshRows` is
  needed because superseding and leasing argue from the existence of rows.
  From it: type correctness, exclusive leases, survival of the newest version, and
  refinement of `LeaseQueue`. `AckOnlyByHolder` needs in addition that the processes
  write distinct worker ids (`DistinctIds`) and the invariant `MemoryCurrent`: the
  attempt a worker remembers for a row that carries its own worker_id is the row's
  current attempt.
* `WebIndexProofs`, index. Every step of the composition is a step of the outbox or leaves
  it alone (`WebImplementsOutbox`), so the outbox theorems carry over. `TextInv`
  adds to the property that stored contents have been seen and that the text a job
  carries was seen for the job's version; without the latter the step from
  LoadVersion to REPLACE cannot be justified. `SettledUrlsMatch` has the hypothesis
  `OneServer`: no two workers lease the events of one entity, which is how the system is
  deployed (with two indexers the property is false). Its invariant adds to the property that
  the one worker of an entity handles one event of it at a time, none older than a
  PROCESSED one (`TurnInv`), and that the job under way asks for what its event asks and what it
  has written stands in the index until the event is acknowledged (`JobStands`). Distinct
  worker ids are not needed.
* `WebIndexProofs`, rebuild. `RebuiltLosesNothing` says of any number of URLs, indexers, versions,
  batches and repeated commands what the run `rebuild_pages` shows of two URLs. `RebuildInv`
  adds to the invariants above: only the first version of a URL has an UPSERT, and by
  then it is extracted (`FirstIsExtracted`); no indexer is about to remove a URL that was
  always indexable (`JobsPlain`); the loaded batch holds what was extracted (`BatchGenuine`);
  and `Refilled`, the heart of it: unless the command has failed, a page whose event is
  PROCESSED, or is written and not acknowledged yet, is in the table or still ahead of
  the cursor. Every one of these is needed for the step where an indexer acknowledges an
  event it applied before the DROP. Neither `OneServer` nor distinct worker ids are
  needed. That a batch is the first `RebuildLimit` pages, and its documents are applied
  by ascending url_id, is argued from least numbers. The theorem does not contradict
  `rebuild_race`, which is about a DELETE: there the page is not lost but comes back.
* `SearchingProofs`, crawler. `QInv` is the type invariant, one active task per page,
  `FreshRows` and `Tokens`: a remembered attempt is never above the row's and is
  held by one crawler. For the fetcher `FetchInv` adds to `FetchIsContained` that the requests
  sent so far are accounted for by the attempts and redirects already used (`Spent`), so
  that the total follows when both are used up, and that a request without a redirect behind it
  goes to the scheduled URL. `retryDelay` doubles the pause in a recursive function; that it
  stays in `1..RetryMax` is shown by a least counterexample (`DoubledExists`,
  `DelayIsBounded`).
* `SearchingProofs`, search. `SharingStaysSound` is about any number of requests,
  spellings and limits. `SearchInv` is `CallsOK` - a call in the flight group is led by the
  request that registered it, a joined request waits for a leader of its own key, and
  the requests at the backend are within the cap - and `CacheOK`: a cached row holds
  a response to its own key (`OwnRow`), no two rows have the same key, and there are at most
  `CacheCap`. That the hits of a shared call belong to everyone who gets them is part of the
  invariant: a request holds no hits or those of its own spelling and backend limit
  (`OwnHits`), which for a joined request follows from its leader's key being its own.
* `SearchingProofs`, crawl policy. `PolicyStaysSound` is about any URLs, parameters, limits,
  domains and boosts. The invariant `PolicyInv` only gives the inputs their shape (finitely
  many domains with distinct ids), the argument is about what is computed from
  them. A filtered or sorted query is the query at an enumeration of positions (`Kept`,
  `InOrder`), and an ascending enumeration of a set is unique (`AscendingUnique`); so the values of
  a key are the same before and after `Encode` (`EncodeKeepsValues`), two queries with the
  same values encode alike (`EncodeForgets`), encoding twice changes nothing (`EncodedOnce`), and with
  these the normal forms agree exactly for one page (`SpellingTells`, the direction a test
  can hardly reach). `Allowed` depends on path and query only, and without rules that name a
  query on the path only, which gives the clause on robots. A block that comes three times holds its first segment three times
  (`LoopsRepeat`), `BoostIsCapped` bounds what feedback adds, and `PriorityGrows`
  is about any demand and quality; the other two factors are one below and one above
  their floor and the cost is one or two, as in the property.
* `SearchingProofs`, places. `PlacesStayAccounted` is about any index, requests, limits and
  increasing tables for the logarithms. `GeoInv` adds only the type of
  the index to the property: a search and a viewport establish it for what they answer
  (`SearchShowsNearest`, `ViewportCounts`), an indexed place clears the answer, and the other
  steps leave the index alone (`SameTable`). `HitsMatch` and `RankingOrders` describe the backend's hits and their order;
  that no nearer, otherwise no worse match is left out needs that every match was asked for
  (`MaxCandidates <= 200`, as `cmd/app/geo.go` sets it) and that the penalty of the
  distance grows strictly (`NearerScoresMore`). That the counts of the clusters add up to the results is
  a bijection from the results to the pairs of a cell and a number up to its count
  (`ClustersAreRight`), and a centre lies in the viewport because a sum of latitudes does
  (`SumBetween`).
* `SearchingProofs`, scores. `ScoresStayMonotone` is the part of `QualityIsSound` that folds over
  nothing: for any signals, also ratios out of range, the scores stay between 0 and 100, one
  rune more never costs quality (`DepthGrows`: the steps of the depth score meet) and more
  duplicates neither raise quality nor lower spam. The invariant is the type of the signals.
* `MailProofs`, gateway. `MInv` is the type invariant, `Handling` (a worker that
  submits or records an answer handles a real delivery, and the queue id it is about
  to record is one the MTA accepted), `SubmittedIsAccepted` and `Budget`
  (acknowledged hand-overs never exceed operator releases plus one, and never exceed
  the releases while the delivery is new or queued). `BouncesCountOnce` needs that BOUNCED is
  final, so the set of bounced deliveries only grows, and that a counted bounce is the step
  of exactly one delivery to BOUNCED; the deliveries are finitely many (`FiniteTable`).
* `PortalProofs`. `SiteInv` adds to `VerifiedByOwnProof` what is known between the
  fetch of a proof and the update that relies on it: a token that a host serves, or
  that a request has seen served, was issued, and was shown by its own host if it was
  issued for it (`SeenAt`). A completed challenge belongs to a verified site and the
  other way round (`CompletedVerifies`, `VerifiedHasChallenge`). `MapInv` adds to
  `FetchedIsStored` what a worker knows of the sitemap in its hands: its row exists,
  so its depth is fixed, and in phase `complete` everything it lists is already stored
  - the lease may long be somebody else's, and it does not matter because stored pages
  and children are never removed. `BillInv` adds to `BillingIsExact` that an entry of the ledger
  belongs to an invoice and to a stored event (`LedgerKnown`, so a new event finds no entry of
  its own), and that a request between reading its quota and using it knows the limit of its
  period (`ReadersKnow`), which holds on because a subscription never changes its plan. As
  far as money goes every step opens a subscription, enters a payment, enters a refund or
  leaves the ledger alone (`BillingMoves`). What was refunded is a fold over a set of entries; that each
  entry adds its amount to it whatever order the fold takes is proved from
  the definition of the fold by least counterexamples (`TotalExists`, `TotalAgrees`, `TotalAdds`).
  `AccountInv` adds to `AccountsBounded` what requests that race can still do. `GuessInv`
  counts the wrong passwords that passed the consumer login's lock and are not recorded yet
  together with those that are. `InsertInv` is about the cap on webmaster sessions, which a trigger
  enforces on what it sees: for every subset of the logins between their count and their
  insert, the rows that would be left if just those went through are within the cap
  plus the racing logins. Without the quantifier over subsets it is not inductive,
  because each of these logins may still fail.
* `PlatformProofs`. `PlatformInv` has a part for each of the four. `BucketInv`: tokens left and
  requests granted are together within the burst and the rate up to the bucket's own
  clock, and a client whose idle bucket was dropped has by any time a delayed
  request may carry earned a full one. `RingInv` says which observation each slot of the ring holds.
  `MigrateInv` says that the files before the one a migrator is at are recorded as its own, and
  each executed once. `JournalInv` says what a map command between check and transaction
  relies on. `RangesAreExact`, that the sum of offset and length does not wrap for a range
  that is accepted, holds for any word size.
* `OrderingProofs`. Filters and sorts return what they should: `InOrder` enumerates
  its set in order, `Kept` selects, and a sorted sequence depends only on how often each number occurs
  (`SortedCounts`). Counting replaces induction over the sequence; where an induction
  cannot be avoided, a least counterexample takes its place (`LeastNumber`).
* `ConsoleProofs`. `HubInv` pairs every page with its history (`Fits`) and says that a
  builder's batch holds evidence of the right kind. `ConsoleInv` adds the life of a
  token: `TokenLife` relates its stage, the number of changes it made, its audit row
  and, for a dead letter, the retry that committed before the token was consumed;
  `TokenSight` says what of the target still is as previewed while the token is open.
  `DemandInv` is needed for the action property `BoostsAreBounded`: buckets are
  capped, a boost that has an expiry has the key of its hour, and a worker's run began
  in this bucket or the one before. The score of a gap is computed from sums over a
  window of buckets; that these are bounded is shown by a minimal counterexample
  (`LeastNatural`) instead of an induction rule.
* `OrgImportProofs`. `ImportInv` has a part per table and per process: `RowInv` ties a
  line's state to its plan, `IdsInv` numbers the plans of a batch, `BatchInv` says
  which lines may be in which state at each status of the batch, `JobInv` what an
  `orgctl` process may assume of the lines it has passed, whatever another `orgctl`
  did to the same batch since, `CanonInv` what links and counts say of the
  organizations. From it `ImportCountsOnce`, `ImportIsComplete` and
  `ImportWaitsForReviews`. Nothing is said of the apply workers' memory: `ApplyNext`
  reads in its transaction everything it relies on.
* `MailProofs`, mailboxes. `StoreInv` adds to `MailStoreHolds`: which files a request owns and
  that nobody else has them (`KeysInv`), that an attached file is not with the
  collector (`FilesInv`), that a request past its check works on a message of its own
  mailbox within its quota (`LocksInv`), and that what retention has read of sent
  messages still holds when it commits (`MaintInv`). The exact quota is a statement on
  cardinalities of the attachments a mailbox answers for; every action adds, attaches
  or detaches one set of keys (`Adds`, `Attaches`, `Detaches`). `MessagesInv` - every
  message is referred to by an event or a receipt - means that retention never deletes
  a message row; the proof needs it, and it is the same fact as the run
  `mail_retention` from the other side.

Assumptions are the named `ASSUME`s of the component modules (constants have their
types, limits are positive, null values are not members of the sets they extend; storage
keys, deliveries, clients of the accounts and files of a release are finitely many; url_ids are positive and
distinct; two query keys of one rank are one key, as `Values.Encode` sorts by the key itself; an
account is locked after at most 20 failures, where `failed_login_count` stops);
TLC evaluates them in every run. One of them is about the code's configuration: the guard
holds its rate only if a bucket that is dropped as idle would have filled again,
`Burst <= Rate * (IdleTTL + 1 - 2 * MaxStall)`. The proof showed that counting one delay
before the mutex is not enough: the last request before the drop and the first one after it may both
have been delayed, which makes a difference from `MaxStall` 2 on, beyond the
bounds of the run. The configured values satisfy it by a wide margin.

Only model-checked:

* Liveness (`EventuallySettled`, `DeletionTakesEffect`, `SitemapsSettle`, `EveryRequestAnswered`,
  `EventuallyOut`, `EventuallyDone`): the prover has no rule for fairness.
* The algorithms (`ParsedIsListed`, `ExtractionIsFaithful`, `GateIsSound` of `QualityIsSound`,
  `AnswerIsGrounded`), which fold over sequences or recur: what a
  fold computes for every input needs induction over data, which is out of the prover's
  reach. (Sums over sets of numbers, sorts and filters are within it, see `PortalProofs`,
  `OrderingProofs`, the crawl policy and the places.)

Every other invariant and action property of the passing runs is a theorem.

## 5. Not modelled

* Of mail: the signature of the gateway with its replay guard, MIME parsing, aliases, read and
  star flags, rate buckets (a refusal is a request that fails), message search.
* Addresses, the organization index worker and the web links: the workers repeat the
  loop of `IndexOutbox`; the rest is text matching over external registries.
* Growth (agency, referrals, widgets) beyond what ends in webmaster requests or in billing;
  rating aggregates of reviews.
* Readiness, capacity, release and recovery records, configuration, health probes and
  the read-only pages of the console: reports with no control of their own.
* HTTP handlers are thin over the repositories; their validation is modelled where it
  guards a state change. HTML tokenizing, XML decoding, robots.txt parsing, hashing and
  compression are libraries. SQL is taken at its documented READ COMMITTED semantics; index
  and query plans, connection pools and vacuuming are left out. The frontend,
  integrations and deployment scripts have no state of their own.

## 6. Plan

1. done: outbox, web indexer, rebuild, crawl queue, outbound mail, organization import.
2. done: sitemaps, accounts and site verification, billing, the console with demand and
   data hub, search, fetcher, crawl policy, extraction, answers, quality, geo, maps,
   migrations, guard, mailboxes with inbound mail, attachments and retention.
3. the gateway's replay guard; the
   organization and address index workers over `IndexOutbox`; referrals and claims.
4. done, proofs: outbox, web index texts, settled index, rebuild, crawl queue, crawl policy, fetcher, places,
   document scores, shared calls of the search, outbound mail, bounce counts, mailboxes, sites, sitemaps,
   billing, accounts, console, data hub, demand, organization import, guard, latencies,
   migrations, map versions.
5. proofs: the sitemap queue as a refinement of `LeaseQueue`; the parts of the algorithms that need no
   induction.
