# Verification of the supplier aggregation platform

TLA+ models of the platform in this repository, model-checked with TLC and, where it
matters most, proved with TLAPS. A module is translated from the code, not from the
documents; where code and documents disagree, this file says so, and a run where there is one.

Run anything from this directory:

    tlc -workers 2 -config delivery_faults.cfg MCEventPipeline
    tlapm EventPipelineProofs.tla

## 1. The system

Suppliers' catalogues are fetched by a connector, matched to canonical products, shown as
cards, priced and searched. Nine services share nothing but events: each has its own
PostgreSQL database (READ COMMITTED, no version columns, no row locks but the relay's), an
outbox table with one relay process, and consumer processes.

    connector-brain --supplier.product.discovered--> matching, catalog, search
                    --supplier.offer.price_changed-> offer, price-history
    matching        --matching.link.confirmed------> catalog
    catalog         --catalog.product.updated------> search
    offer           --offer.effective_price.changed> price-history
    sync-orchestrator --sync.job.requested---------> connector-brain
    curation-ui, agents --> api-gateway, mcp-gateway --> the services' REST APIs

| component | state it keeps | operations | what is hard | what makes it correct |
|---|---|---|---|---|
| outbox and relay (`libs/persistence`) | outbox rows, the relay's open batch | enqueue, commit, fetch, publish, mark sent | a crash after some events are out; ambiguous sends; several relays; order | no event lost or invented; a row in one batch only; order within a key |
| consumer (`libs/messaging`) | group offset, message in hand, attempt, processed ids | take, handle, retry, dead-letter, commit offset | rebalance during a handler, crash between commits, poison, failing dead-letter send | applied at most once; offset passes only what is dealt with; poison does not block |
| dead-letter replay (`tools/replay_dlq.py`) | its own offset | send back, commit | interruption in between | nothing taken off before it is back on its topic |
| matching (`services/matching`) | links, canonicals, decision log | discover, confirm, reject, create new, merge | requests interleave between read and write | one canonical per GTIN, a decision is final, no dangling link, the last event is right |
| catalog | products, links, cards | ingest, link, rebuild | two consumers, events in any order | card = members; no stale or missing card |
| search | documents of products and cards | index, fuse, re-rank, re-embed | follows the catalog | index = cards; fusion ranks soundly |
| offer | offers, terms, effective prices | price, change terms, re-price | price and terms at once, old prices late | stored = announced = priced with the current terms |
| price-history | points by (offer, time) | append, read | equal timestamps, redelivery | no change lost, idempotent |
| connector-brain | identities, offer identities, watermark | full sync, delta sync | crash before the watermark, two jobs, changes during a sync | no change missed; ids stable |
| Brain client | rate tokens, session id | acquire, authenticate, call, retry | concurrent callers | budget kept, one login at a time |
| sync-orchestrator | last request per account | tick, trigger | overlapping jobs | every entry is asked for within its interval |
| api-gateway | rate buckets | authenticate, authorise, limit, forward | retries and lost answers behind it | order of the checks; who waited as told is served |
| mcp-gateway | - | tools over several services | answers of different moments | the cheapest of what it was told |
| curation-ui | optimistic queue | load pages, decide, roll back | answers out of order, 429, 502 | a decided item stays out, a failed one comes back |
| the services' read APIs | - | lists, statistics, hybrid search | rows come and go between two statements | nothing missed, nothing twice |

`PROJECT.json` lists every component with its status, and every hazard at its line.

## 2. The modules

### Messaging core

| module | models | state |
|---|---|---|
| `Broker` | the Kafka partition of one aggregate key, its dead-letter topic, the fault budget | `topic`, `dlq`, `faults` |
| `Outbox` | `outbox.py`, `relay.py` | `rows`, `createdAt`, `batch`, `published` |
| `EventConsumer` | `consumer.py` around the dedupe transaction of every handler | `offset`, `owner`, `pc`, `cur`, `attempt`, `processed`, `effects` |
| `DlqReplay` | `replay_dlq.py` | `dlqOffset`, `resent` |
| `EventPipeline` | the composition; fairness; properties; the inductive invariant | all of the above |
| `ReliableDelivery` | the promise: accepted, then applied or parked, never lost | `fate` |

An action is a piece of code between two points where something else may happen. `StageEvent`
is the flush of `enqueue`, `CommitEvent`/`RollbackEvent` the end of the caller's transaction;
`FetchUnsent`, `Publish`, `MarkSent` are the three parts of `OutboxRelay.drain`;
`PublishRaises` and `RelayCrash` are its two ways out. `Take`, `HandlerChecks`,
`HandlerCommits`, `CommitOffset` are `consume` with a handler that succeeds; `Raises` is
the retry loop of `_dispatch`, reached by a poison event, by a database error or by the
primary key of the processed-events table; `DeadLetter` is `_dead_letter`.
A process that lost its partition goes on with the message in its hands (`Rebalance` stops
nobody) and its later commit moves nothing (`StaleCommit`). The event's business write is the
counter `effects`: what is counted is how often it was committed. A partition is one key:
events of different keys never meet in the code.

### Matching

| module | models |
|---|---|
| `MatchingTables` | the three tables and the committed effect of each transaction |
| `Matching` | the transactions themselves: first read and check (`Begin...`, `ReadLinks`), later write (`Commit...`), or roll back |
| `Curation` | the abstract service: the same effects, each decided at one instant |

A row update writes the columns the transaction changed, whatever the row has become since
it was read: that is what READ COMMITTED without a version column does, and it is what the
violations below come from. The unique GTIN and the primary key of the link are constraints
(`GtinFree`, `~Linked`) of the write. Similarity search may return any existing canonical or
none. The decision log is a set: it is only ever appended to.
The second half of a confirm is one step: the update of the link is flushed before the
canonical is read (autoflush), so nothing is decided between the two.

### Catalog and search

| module | models |
|---|---|
| `Catalog` | the three tables of the catalog, the product handler, and the link handler from its first statement (`SetCanonicalLink`) over each read of a canonical's members (`RebuildCard`) to its commit (`CommitLink`) or rollback (`AbandonLink`) |
| `SearchIndex` | the two tables of the search service and its two handlers |
| `CatalogFlow` | matching, catalog and search together: decisions, the topics between them, failures, dead letters and their replay |

`build_canonical_card` is a function of the members' rows, and a member's row never changes: the
connector announces a product when it first sees it and only counts the later changes
(`sync_products`). So a card is the set of products it was built from, and a document the card
it was made of. The catalog runs
its two consumers in one process: between two reads of the link handler the product handler may
commit, and what the link handler builds is what it read. A canonical without ingested members
builds nothing and announces nothing.

`CatalogFlow` stands on the two models above. Matching is `Curation`, which it implements
when requests take turns (`SerialImplementsCuration`): what goes wrong here goes wrong without
any race in matching. The topics are what `EventPipeline` proves of them: in order per key,
applied once, parked only after `Attempts` failures, replayed at any time after. One
switch names an assumption the code does not enforce: `ProductsFirst` (a product reaches the
catalog before its link). The catalog's handler would rebuild the previous canonical of a link
event too; `link_confirmed_record` never names one, and neither does `Handle`.

### Offer and price history

| module | models |
|---|---|
| `Pricing` | the pricing engine: base price to UAH, discount, markup, rounding to storage units |
| `Offer` | the offers of one account and its terms, with the two transactions that write them: a price event's (`ReadTerms`, `ReadOffer`, `CommitPrice`) and a PUT of terms (`ReadAccount`, `FlushTerms`, `ReadOffers`, `CommitTerms`), each with its rollback |
| `PriceHistory` | the two series of points, keyed by offer and time |
| `PriceFlow` | the connector's events, the price consumer with dead letters and replay, PUTs at any moment, the history's two consumers |

A step of `Offer` ends where the next read begins: in READ COMMITTED each read sees what is
committed by then. An UPDATE sets the columns that differ from what was loaded (`Written`), as
the ORM does: this is why a change of terms cannot bring an old price back, why a price that is
re-priced to what it was announces nothing, and why two PUTs of one account may leave a mix of
their columns. The account's row is flushed before the offers are read, and stays locked
until the commit (`AccountLocked`); the offers' rows are written at the commit itself.
`overlapped` is a history variable: it tells behaviours in which the transactions took turns.
The history's consumers append and read nothing but the key, so the order in which they come to
handle events is left open, and only its outcome matters.

Money is a whole number of 0.0001 UAH and a rate a whole number of 1/`Scale`; the 28 digits of
the decimal context are taken for exact. Not modelled: terms are stored with eight decimals while
the re-pricing uses the request's; `rrp_uah`, which is only written; two changes in the same
microsecond.

### Connector and scheduler

| module | models | state |
|---|---|---|
| `SupplierFeed` | the supplier's list and its changes (external), its pages and its list of modified products | `now`, `catalogue` |
| `ConnectorSync` | `full_sync.py`, `sync.py`, the repositories of identities, offers and the watermark | `sync`, `identity`, `lastPrice`, `discovered`, `priceEvents`, `watermark` |
| `SyncSchedule` | `scheduler.py`, `domain/schedule.py`, manual triggers, the reported status | `jobs`, `lastRequested`, `tick` |
| `SyncFlow` | the three together, with the consumer of jobs: fail, crash, rebalance | `offset`, `owner`, `faults`, two history variables |

The supplier's state is a history of versions per item, so that a row that was fetched can be
compared with what the supplier has had since; a change happens at a time of the clock, and
the list of modified products speaks in those times. A sync is a program counter (`phase`) with the
rows it has fetched and not staged. Each row is staged by two steps, the read of the identity
(`ResolveProduct`, `ResolveOffer`) and the commit (`StageProduct`, `StageOffer`): between them another worker's
commit may come, and the primary key makes the later one fail (`MustFail`). The consumer has no
dead-letter sink, so a failed job is found again. Jobs and prices are announced through the
outbox: what `EventPipeline` proves of it is not repeated here.

### The supplier's client

`BrainClient` models `BrainClient._call` with the token bucket and the session cache of the
connector SDK. An asyncio lock is a queue whose head holds it; a step ends where a coroutine
waits (lock, sleep, request, archive). The bucket is counted in ticks, of which a token takes
`Cost`: refilling by the elapsed time when the bucket is looked at is the same as a tick at a time.

### Desk: browsers, gateway, decisions

| module | models | state |
|---|---|---|
| `Gateway` | every route with its scope, service and operator header; authentication, scopes, bucket in the order of the code | `buckets`, `now` |
| `CurationQueue` | the browser's queue: pages, optimistic decisions, rollback, waiting out a 429 | `queue`, `fetch`, `task`, two history variables |
| `CurationDesk` | operators, gateway and the matching service (`Curation`) | the service's tables, `journal`, `faults` |

Between gateway and service a request or its answer may be lost (`SendLost`): 502 either way,
whether the decision was taken or not. `MCCurationDesk` has two operators with their own buckets.

### Reads

| module | models |
|---|---|
| `Paging`, `Listing` | keyset pages and their cursors; every list of the platform as an endpoint with its order; a walk through one while rows come and go |
| `PriceReads` | the aggregate and the last price of a range or of each day, two statements |
| `HybridSearch` | the retrievers, rank fusion, the cuts to pool and limit, re-ranking |
| `AgentTools` | the best offer of a canonical product, which asks the catalog and then the offers of each member |
| `ReadFlow` | one client, who does one of these reads while the writers write |

A read has no snapshot from one statement to the next. The writers are left as free as the
tables allow, so what `ReadFlow` shows needs nothing of the services' order of writing.

## 3. Runs

| run | question | bounds |
|---|---|---|
| `delivery_faults` | no phantom, at most once, offset, order of one relay; fewer faults than attempts dead-letter nothing but poison; implements `ReliableDelivery`; every committed event is settled | 2 events, one poison, 1 relay, 2 consumers, 2 attempts, 1 fault, 1 replay |
| `delivery_relays` | two relays, no dead-letter sink: locks, sent rows, nothing lost | 3 events, one poison, batches of 2, 2 faults, `HasDlq = FALSE` (5.2 million states) |
| `matching_races` | what survives any interleaving | 2 products, 1 GTIN, 3 canonicals, 2 open transactions, 7 in all |
| `matching_serial` | what needs transactions to take turns; refinement of `Curation` | 1 open transaction, 8 in all |
| `catalog_parked` | with dead letters and replays, the index follows the catalog, no member is missing | 2 products, 2 canonicals, 2 attempts, 2 faults |
| `catalog_converges` | the mapping follows matching; in the end the three services agree | 1 product, 3 canonicals, 4 attempts, 1 fault, `ProductsFirst = FALSE` |
| `catalog_merge` | *violated*: what the documents promise of cards | 2 products, 2 canonicals |
| `offer_prices` | stored = announced, the last price stands, the history is complete; effective prices are current while transactions take turns | 1 offer, 2 prices (UAH, euro), terms with and without a rate, 2 PUTs, 3 moments, 1 dead letter |
| `connector_sync` | one identity and one announcement per product, prices only move forward, the watermark passes nothing unstaged, the schedule's entry runs | 2 items, pages of 1, 2 prices, 2 changes, 2 workers, a delta entry, 1 job by hand, 1 fault (791,017 states) |
| `brain_client` | one login at a time, the supplier's budget, every call ends | 2 callers, 2 requests a second, a session of 2 ticks, 4 session ids |
| `desk` | no item is lost from a queue, the journal tells the links' status and names who decided, a browser that waited is served | 2 operators, 2 products, 2 decisions in flight, pages of 1, rate 2, cost 3, burst 3, 3 moments, 1 lost answer (161,905 states) |
| `reads` | lists are complete, statistics ordered, fusion keeps agreement, the best offer is the cheapest | 4 rows, 4 moments, 3 documents, 3 products, 4 offers |

The bounds are the smallest at which every action fires and the hard cases meet. Delivery: two
events have an order, two consumers a rebalance, two faults allow a crash within the
recovery from an ambiguous send; a batch of two of three rows leaves one for the
other relay. Matching: two products on one canonical, three canonicals for a merge after a
merge, seven transactions for discover, discover, decide, merge and a racing pair. Catalog: two
products share a card or leave it to one another, two canonicals are enough for a move and a
merge, three for a chain of moves while an older event is handled. Offer: two PUTs meet each other
and a price event; the euro price has no effective price until a rate is set; three moments are
two prices and a change of terms, or a price and two changes. Connector: the first run of the
delta entry finds no watermark and runs in full, its redelivery is a delta; two changes make an
item appear and change its price under a sync of two pages; one fault is a failed write, a crash, or
a job given to a second worker. Client: four ids are one per caller, the cached one and a new one; ids
nobody has are given again. Desk: with cost 3 against a rate of 2 a request empties the bucket and the
hint is rounded. Reads: two pages of two need four rows, and three documents can be found by all, two
or one of the retrievers. Scores are counted in units of 1/`Unit`, `Unit` a multiple of 61, 62 and 63, so that
1/61, 1/62 and 1/63 are whole numbers of them and sums are exact.
Deadlock is not checked: a pipeline with nothing to do, and a service without requests, may stop.

Disagreements between the code and a sentence of the repository. The first is the run `catalog_merge`;
the others are a change of one line in a configuration away:

* A product that moves to another canonical stays on the card of the first: the event names no
  previous canonical (`catalog_merge`).
* A reject overwrites a confirm that committed after it read the link (`curation.py:184`, `:206`):
  `matching_serial` with `Requests = {s1, s2}` violates `ConfirmedIsFinal`.
* A link handled before its product builds no card, and the product, when it comes, builds none:
  `catalog_parked` with `ProductsFirst = FALSE` violates `NoMemberIsMissing`.
* A price event that has read the old terms commits after a change of them: the offer keeps an
  effective price under terms that are gone. `offer_prices` with `EffectiveIsCurrent` added.
* The time of the last request is kept per account, not per entry (`adapters/repository.py:26`), so a
  frequent delta entry keeps the full one from ever being due: `connector_sync` with
  `Schedules <- DeltaAndFull` violates `EveryEntryRuns`.
* A redelivered sync beside its first run may stage an older price last, behind the watermark
  (`sync_handler.py:5` calls redelivery safe): `connector_sync` with `RedeliveryIsSafe` added.
* A full bucket that refills while it is drained lets nearly twice the rate through in one second
  (`rate_limit.py:35`): `brain_client` with `BudgetKept` added. `SpeedLimit` is what holds.

Further assumptions mark the edge of what holds, and breaking them breaks the property named:
`OrderKept` needs the single relay per service that `compose.yaml` starts (`SKIP LOCKED`
provides for several), `AnnouncedIsCurrent` one decision on a link at a time, and
`CatalogFollowsMatching` that no dead letter is replayed after a later event of its product.
`PricesMoveForward` and `WatermarkCovers` need the syncs of an account to take turns (`overlapped`), the
latter also a list that does not shrink while it is paged by offset (`shrunk`); `NoItemIsLost` an
operator with one decision or page in flight at a time; `CheapestWhenQuiet` terms that order offers as
their prices do, and no more members than one page.

Each model has a type invariant. It is proved for the pipeline, matching, catalog and prices
(`TypeCorrect`), the client (`ClientTypeCorrect`), the desk (`DeskTypeCorrect`), the connector
(`SyncTypeCorrect`) and the reads (`ReadTypeCorrect`).

## 4. Fairness

`FairSpec` gives weak fairness to each relay's step and to each consumer's step: their
containers run for ever and are restarted (`infra/compose.yaml`, `restart: unless-stopped`).
`CatalogFlow`'s gives it to each consumer's step: taking the next event, the next read, the
commit, the indexing; for the same reason.
`BrainClient` has weak fairness of the clock and of each coroutine that can go on: an asyncio loop
runs what is ready, its locks are first come first served, and a request ends by its timeout. Nobody
has to call, and no fairness is asked of failures or of the supplier.
No fairness for business transactions, decisions, replays, faults or rebalances. Faults are finite in
number (`MaxFaults`): for ever failing databases settle nothing.

## 5. Proofs

`EventPipelineProofs`: `Spec => []IInv` for any events, relays, consumers, batch size, number of
attempts, faults and replays; from it type correctness, `NoEventLost`, `NoPhantomEvent`,
`AppliedAtMostOnce`, `OffsetCoversHandled`, `RelaysDoNotCollide`, `SentIsOnTopic`.

The properties are not inductive. `NoEventLost` speaks of what is in front of the offset; a step
that moves the offset is safe only if the message passed is safe *behind* it, and while
a replay has sent a dead letter but not yet committed, that letter must not count, because the
commit is about to pass it. `Safe(e, k)` says this: `e` is applied, or on the topic after `k`, or
dead-lettered beyond `dlqOffset + resent`. `SafeInv` requires it of every event at the
committed offset and of every message whose offset is about to be committed by the owner;
`PositionInv` ties the owner's message to the offset; `LockInv` and `OriginInv` carry it through
the relay; `CoverInv` and `EffectsInv` are for the other two.

`RetriesAbsorbFaults` is a matter of counting. Failed attempts at a message that is not poison are paid
for by faults, but for the one that meets the primary key because another process has written the
same event. `BudgetInv` therefore keeps a fault in reserve as long as this may happen (`Contested`):
the rebalance that brought the two to the same message was a fault of no attempt.

`DeliversReliably` (theorem `PipelineImplementsDelivery`): under `IInv` every step maps to `Accept`, `Apply`, `Park`, `Resume` or a stutter
of `ReliableDelivery`, hence `Spec => Abstract!Spec`.

`OrderKept`, with one relay, from `OrderInv`: what was committed before `f` was staged
has an earlier stamp, hence is in `f`'s batch or already sent.

`MatchingProofs`: for any number of concurrent requests, types, `PendingIsQuiet`,
`DecisionsAreLogged`, `OneCanonicalPerGtin`. What a transaction has read may be false when it
writes; the invariant keeps the little of it that no other transaction can undo (`JobInv`): a
link that existed still does, and one that was announced waits for nobody.

With one request at a time everything read still holds at the write
(`ReadsHold`), which gives the three properties that races violate and the refinement of
`Curation`: a read maps to a stutter, a commit to the decision.

`CatalogProofs`: types, and three ways in which the copies of the data agree. `IInv` ties the
transaction at hand to its event and matching's last announcement to its link (`AnnouncedInv`).
`IndexInv` says that card and document are the last update announced and the last one
indexed. `FollowInv`, for fewer faults than attempts: nothing is parked, and the mapping is the last
event handled; an append by matching disturbs it nowhere. `MemberInv`, for products that come
first: not only are members on their cards, but the card under construction has
everyone that will be mapped to its canonical at the commit, however many products are ingested
meanwhile; parked events need their products ingested too, for they come back.

`PriceFlowProofs`: types, and four properties of offers and history under any interleaving.
`IInv` says that a row that was read is still there and that the open transaction is about the
event taken. `AnnouncedIsStored` is inductive with it: a commit changes the column exactly if
it announces. `SerialInv`, for transactions in turn: what the open one has read is what is
stored. `InOrderInv`, without dead letters: the consumer's next event is the one behind its
offset, and a change of terms leaves prices alone. For the history, `TimeInv`: the times of
observations, of changes of terms that are still to commit and of announcements are all
different, and a price event still to be applied has not been announced; `PointInv`: the points are
those of the handled events, so a new one always finds its key free.

`SyncFlowProofs`: `MintedOnce`, for any number of workers, schedule, page size and faults, and
`PricesMoveForward` while syncs take turns. `IInv` has four parts. `DataInv` gives the shapes of what
the steps touch. `WorkInv` (`SyncOK` of each worker) says that the rows a worker holds are versions
the supplier has had, that offers to be staged have a price, and that an offer is read only when its
product has an identity. `EventInv` says that a price event names a version the catalogue has. With
`MintedOnce` these are inductive: a worker whose read is out of date fails on the primary key or
writes over a row together with its own event, so row and last event stay together. For the order of
prices, `TurnInv` says of the one busy worker that the offers it still has to stage are in the order of
the supplier's versions and none is older than what was announced (`Ready`): a sync starts with
nothing fetched, what it fetches is the newest version, and a sync that fails drops its rows.

`WatermarkCovers` is about the end of a sync, so `CoverInv` says of the sync that is running where each
product it is there to fetch (`Wanted`) will be met: on a page still to come (`Ahead`), among the
rows fetched and not staged, or staged already (`ProductMet`, `OfferMet`). A page still to come has it
because its place in the list (`Rank`) only grows while no row leaves the list (`RankGrows`), and a page
holds every place from its offset on, up to its size. A row that was fetched is the product's last if
it has not changed since the sync began (`Fresh`); a delta goes back to the watermark it has read, and what
is older than that is covered already. What each sync asks for contains what every entry asks for (`FlowInv`):
jobs come from the schedule only. `SyncTypeOK` follows from the same with `JobInv`, the kind and mode
of a job.

`EveryEntryRuns` (theorem `OneEntryRuns`) is proved of accounts whose entries ask for the same kinds and
mode (`OneRequest`); others share one row of `sync_schedule_state` and break it, as the run's
variant with a delta and a full entry shows. `RequestInv`: the time in the row is that of a
request on the topic, for every entry.

`BrainClientProofs`: types, `SingleFlight` and `SpeedLimit`. `ClientInv`: who waits in the queue of a
lock is where it says and waits in it once, and who logs in is at the head of the session's queue
while no session id is valid; another caller's step moves neither. `SpeedLimit` speaks of one second,
but a second's requests were paid for before it, so `Account` keeps the books of every window of `n`
ticks that ends now (`sent[n]` counts its requests): what was sent, what callers have taken and not
used, and what the bucket holds are covered by a full bucket, `n - 1` refills and one token of each
caller and of a login. A tick turns each window into the next longer one.

`CurationDeskProofs`: types and the four properties of desk, gateway and journal. `JournalTellsStatus` is
inductive with the types: a decision sent twice finds the status its first sending wrote.
`JournalNamesOperator` is so too, from the routes: every route that decides sets the
operator header and asks for the scope. For `PoliteRetryIsServed`, `Patient` says of each decision that
waits for the limiter, and whose principal has sent nothing since, that the bucket will hold a token
when it wakes (`TokenBy`); the theorem states its condition, `Cost <= MaxWait * Rate`: the longest
wait of the browser (five seconds) brings a token at all, as the default rate does. For
`NoItemIsLost`, `OneAtATime` says that what a decision would put back is the queue with its item, and
what a page would be added to is the queue; `SeesKnown` and `AnsweredIsDecided` say that items are
links and that an item that stays away has been decided.

`ReadFlowProofs`: `ListingIsComplete` for any keys, lists and page sizes: rows that were there all the
time are given or ahead of the cursor (`WalkInv`). `StatsAreOrdered`: what was counted is still
there (`CountedAreThere`). `CheapestWhenQuiet`: the best offer so far is the cheapest of the members asked
so far (`QuietCall`).

`FusionKeepsAgreement` rests on lemmas about `Fuse`. `RanksBefore` is a linear order of the documents
found, so "the document that n - 1 others come before" is one document for each n, and the fused
list has each document once. An earlier place has a greater share (`Unit` divided by a smaller number),
and a list without the document has none: who is agreed to be better has the greater score. The two
cuts keep the first of a list. `SearchInv` bounds the number of rankings by that of the retrievers.
`ReadTypeOK` is the conjunction of what the four proofs keep.

The assumptions are those named in the modules (`MaxFaultsAssumption`, `BatchSizeAssumption`,
`ConsumerAssumption`, `MaxReplaysAssumption`, `TablesAssumption`, `CatalogAssumption`,
`FlowAssumption`, `PriceFlowAssumption`, `SupplierAssumption`, `ScheduleAssumption`, `ListingAssumption`,
`HybridAssumption`, `ToolsAssumption` and those of `Matching`, `BrainClient`, `Gateway`, `CurationQueue`, `CurationDesk` and `PriceReads`), those a
theorem states (finite `Events` for the order, one request, `MaxFaults < Attempts`, `ProductsFirst`,
`OneRequest`, `Cost <= MaxWait * Rate`), and none else.

Only model-checked: liveness (`EventuallySettled`, `Converges`, `CallsEnd`), which the prover does not
reach. Every other property of the passing runs is a theorem.

## 6. Not modelled, and what could follow

Parts with nothing a model would show are listed with their reason in `components`: telemetry, generated
contracts, the scaffolding and convention tools, the layout of the UI. Inside the modelled parts:

* **Connector.** One category and one account; single-product lookups; a change of the content hash, which
  is stored and told to nobody; a change of the UAH price alone, which is no change to `offer_repo.py:62`;
  offset paging over a list that shrinks (marked by `shrunk`, excluded from the watermark's property).
* **Messaging.** A message that is not JSON, which raises outside the retry loop.
* **Desk.** Sign-in, the token store and 401/403 during a decision; refetching the queue; merging from the
  desk; fractions of a second in `retry_after`; the browser's view of `Retry-After` across origins
  (`main.py:69` does not expose it, so there the browser waits one second).
* **Reads.** Lookups by code, articul and GTIN (one equality each); embedding, re-embedding and the scores of
  the re-ranker (any order of candidates); the rounding of scores when three of them tie. The best-offer tool
  compares prices before terms, asks for one page of members, and passes over a product whose best
  offer has no UAH price: `PricesAgree` and `MaxMembers` name the first two, the quotes have the third.
* **Matching.** A link that was announced and is rejected later is not announced again (`curation.py:206`).

What could follow: a proof that the pieces fit, by stating of each service's outbox what `EventPipeline`
promises and using that in `CatalogFlow`, `PriceFlow` and `SyncFlow` in place of their topics; the
watermark over lists that shrink, for a pager that starts again when the total changes.
