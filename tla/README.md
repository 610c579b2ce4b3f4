# A verification project for lzt-testnet

`lzt-testnet` is a mock of a marketplace of game accounts: a FastAPI app that keeps a small stateful
market (lots, payments, bought ids) in memory, fakes every other endpoint from the response models
of the `pylzt` package, and breaks on purpose, deterministically from a seed, what its clients call.
Programs that buy accounts are tested against it. So its correctness is that its *lies are the
intended ones*: a fault that is not armed must not happen, a sale happens once, a page honours its
query.

This directory holds TLA+ modules translated from `src/src/lzt_testnet/`, the TLC configurations
that check them, and proofs for TLAPS. All paths below are relative to `src/src/lzt_testnet/` unless
they say otherwise. `PROJECT.json` maps each definition to the lines it models.

## 1. Inventory

| Component | State | Operations | Hard part | What makes it correct |
|---|---|---|---|---|
| Stateful market `api/stateful.py`, `state/{lot,payment,scenario}_store.py` | `LotStore._records`, `PaymentStore._records`, `bought_item_ids`, `revoked_tokens` | create, list, bump, price, buy, payments | failure between the writes of a buy, retries, resets | a lot is sold once and leaves one trace; the ledger ascends; only its seller edits a lot |
| Domain faults `chaos/domain.py` | `app.state.chaos_counters` | `maybe_inject`, called by the buy | ticks shared by all buyers of a lot, outliving a reset | a transient answer takes nothing; a storm converges |
| Legacy forced errors `chaos/legacy.py`, `api/error_handlers.py` | none | header to typed error to status | it is raised before any write | an error answer is harmless |
| Lazy world listing `world/materializer.py`, `api/forum.py` | lots stored on first fetch | world page, lot check | a slot whose lot was sold must not be drawn again | a bought lot never comes back on sale |
| Fault injection `chaos/{middleware,planner,render,faults,report}.py` | sequence counter, scorecard, the request in flight | decide, record, sleep, short-circuit, stash, rewrite | every `await` lets other requests in | the client's last answer is the truth; the scorecard replays |
| Seed `chaos/seed.py` | `_seq`, `_ids` | `next_seq`, `next_id`, `stream` | ids must outlive resets | ids never repeat |
| Control plane `api/control.py` | writes all stores | reset, revoke, inject, seed-post, seed-like | what a reset forgets and what it keeps | a reset is the first day |
| Forum threads `state/thread_store.py`, `api/forum_posts.py` | threads, posts, likers | post, like, unlike, pages | offset paging under writes | a person counts once; a reader misses nobody |
| Catalog `api/catch_all.py`, `fake/*`, `state/injection_store.py` | sample cache, injected lots | build, fold, sort, prepend | folds that fight, a shared sample | every item honours the query; a stable world; an injected lot is news |
| Cursor paging `LotStore.list`, `PaymentStore.list`, `world/stores.py:_page` | none of their own | list | limit 0, writes under a walk | a walk shows what was there throughout |
| Route table `catalog/*` | a table built once | collect, sort, match | a set walked in hash order, shadowed routes, aliases | the most literal pattern wins, in every process the same |
| System info `api/system_info.py` | none | rewrite a response | order of two rewrites | an empty body stays empty |
| Arming `api/app.py`, `chaos/{scenario,profiles}.py`, `config.py`, `cli.py`, `world/arm.py` | environment, settings cache | `main`, `get_settings`, `create_app` | precedence of flags, environment, scenario, seed, mode; a stale cache | what was asked for is armed |
| Generation `chaos/seed.py:seed_generation`, `fake/generator.py` | the process's one `ModelFactory` generator, a sample per model | seed, draw | draws shared by all apps of a process | same seed, same data |
| World `world/{builder,stores}.py` | built once, read-only | none that writes | none | its draws are constants here |

How they interact: a request passes `SystemInfoMiddleware`, then `FaultInjectionMiddleware`, which
takes a sequence number, asks the planner and may stash a domain fault in the ASGI scope; the buy
handler reads the stash and executes the outcome. All handlers share the stores on `app.state`; the
control plane empties them. Everything runs on one event loop: a handler body has no `await` between
its first read and its last write, while the middleware has one at every send, sleep and call of the
inner app. (Plain-`def` dependencies run in a thread pool, before the body starts; they only fetch
the stores.) Nothing is persisted, so there is no crash recovery to speak of.

The hazards this gives rise to are listed, each at its line, in `PROJECT.json`.

## 2. The modules

| Module | What it is |
|---|---|
| `OneSale` | abstract: what a market promises. Offer, reprice, sell once (with or, for the reconcile trap, without a receipt), forget |
| `LotMarket` | the market: stores, ticks and every handler on them, one action each; refines `OneSale` |
| `Gauntlet` | extends `LotMarket`: concurrent buyers of one lot behind the middleware, one action between two awaits; refines `OneSale` |
| `ForumThreads` | `ThreadStore` and its handlers |
| `ForumWalk` | extends `ForumThreads`: a reader that pages while others write |
| `Catalog` | listings: sample, fold, sort, injected head, and a polling client |
| `Readers` | extends `LotMarket`: a client that walks `GET /lots` or `GET /payments` by cursor |
| `Faults` | the fault kinds by place of application, their statuses, and the forced errors; used by the others |
| `RouteTable` | pure: from the method classes to the method that answers a path |
| `Arming` | environment, command line, settings cache; scenario, profile, seed and world of an app |
| `Front` | extends `Arming` and `RouteTable`: processes, apps and requests through both middlewares to whichever router has the path |
| `LotMarketProofs`, `OneSaleProofs`, `ReadersProofs`, `GauntletProofs`, `ForumProofs`, `CatalogProofs`, `FrontProofs` | theorems; those about `RouteTable` and `Arming` are in `FrontProofs` |
| `ProofTools` | lemmas on numbers, folds and total orders that several of them need |
| `MCLotMarket`, `MCReaders`, `MCGauntlet`, `MCCatalog`, `MCFront` | small instances |

**LotMarket.** Each route is an operator of its arguments (`CreateLot`, `Bump`, `SetPrice`,
`FastBuy`, `WorldPage`, `CheckLot`, `CatchAll`, `RevokeToken`, `ResetState`), and its disjuncts are
the handler's early returns in their order: forced error, not found, refused outcome, sale. The
stores are the variables `lots`, `payments`, `bought`, `revoked`; `ticks` is `chaos_counters`;
`nextLot` and `nextPayment` are the `itertools.count`s of the seed. A lot keeps seller, price and
`published_at`; title, currency and attributes are copied and never read. `resp` is the last answer,
there so that action properties can speak of what the caller was told; `charged` is history, the
lots `charge_then_fail` has taken since the reset. A counter of `ticks` stops at the limit it is
compared with (`seen < limit` is all the code asks), which keeps the model finite without a bound.
Which fault a request meets is the middleware's business: here any armed fault may come.

**Gauntlet.** A request is a record with a phase: `arrived`, `asleep` (slow and timeout), `short`
(about to be answered without the handler), `handler`, `answered`. `Decide` is everything from
`next_seq` to `recorder.record`, which contains no await. `Handle` is the buy handler together with
the rewriting of its answer. The roll of the seeded generator is a choice from the menu, so what
holds holds for every seed. Clients are `drive_to_convergence` of `src/tests/helpers/gauntlet.py`;
with `ClientsTimeOut` they may also leave a request behind and send the next one, while the old one
goes on in the server.

**ForumThreads, ForumWalk.** A post is its id. `like` and `unlike` walk the threads for the post in
the code; an id is in one thread at most (proved), so the model keeps the likers by post. The reader
follows the docstring of `ThreadStore.page`: it goes on until its pages cover the total.

**Catalog.** An item keeps one field of each kind the filter tables tell apart: a number with a
window (`price`), a string chosen or excluded (`origin`), a flag (`ban`). A query is the merged
window, the rules in the order of the parameters, and an ordering. `seen` is what a poller that asks
for everything has noted; it is never cleared, since the poller is another process and no reset
reaches it.

**Readers.** The stores compute a `next_cursor`, but the two routes throw it away and answer a bare
list, so a client has only the rows: its cursor is the id of the last row it was shown, and it stops
at a page that is not full. `IsPage` is filter, sort by id, drop what is not above the cursor, cut.
`limit=0` makes both stores index an empty page, a 500 (`ListRefused`). `walk.stayed` is what the
client cannot know: the lots that have been on sale since its first request. Every action of
`LotMarket` may happen between two pages (`Meanwhile`), resets included.

**RouteTable.** A method is a name (its rank among the qualified names), a verb, and a url of
segments, `Hole` for a parameter. `Collected` is the list `collect_base_methods` returns: the set's
hash order is a parameter, and sorted away. `Entries` keeps the first of the aliases of a route,
`TriedBefore` is the stable sort by placeholder count, `Match` the first match.

**Arming, Front.** `Launch` starts a process in an environment, `Cli` is `main` of `cli.py` (flags
go into the environment, the settings cache is cleared), `CreateApp` reads the settings - cached if
they were read before - and arms an app, `Serve` answers one request. `ArmedBy` is the precedence of
scenario and settings, `ToProfile` what a scenario takes from its intensity. A request takes a
number and a fault (`Decide`: header, else a roll from the stream of seed and number), is
short-circuited or handled by the router that registered the path first, the catch-all last
(`Handled`), and its answer is rewritten by the fault, then stamped with the envelope (`Answered`).
`Stand` is the table of the routes that `create_app` and its routers register themselves: health,
control, market, world. All are there but the buy, which is Gauntlet's (`FrontAssumption` keeps it
out of the requests); so `app.lots` is the lot store with the sellers, `app.lotId` the counter of
lot ids, and `GET /payments` an empty list.
A handler is a function from request, app and generator to answer, app and generator, so that a
property can ask what the handlers alone would have said. An answer is its status, kind and number
of fields; data is named by the state of the generator it was drawn from, which is all that
determines it. `log` has the requests of the live run, `past` the last run of an app that was armed
alike, in this process or an earlier one: what replay means is a comparison of the two.

## 3. What is checked

`tlc -config X.cfg M` with the module and configuration below.

| Run | Module, cfg | Question | Bounds |
|---|---|---|---|
| market_ledger | MCReaders, MarketLedger | does the ledger tell what was sold, and does a paging client read all of it? | 2 tokens, 1 world lot, 1 created lot, 2 payments, 1 tick, limits 0, 1, 2 |
| market_world | MCLotMarket, MarketWorld | does the lazy listing stay a market? | 2 tokens, 2 slots, 1 created lot, 2 prices, 2 payments |
| gauntlet_profile | MCGauntlet, GauntletProfile | is each buyer's last answer the truth? | 2 buyers, 2 attempts each, 9 faults, 3 headers |
| gauntlet_storm | MCGauntlet, GauntletStorm | do buys end, does the storm converge? | 2 buyers, 2 attempts each, 3 transient answers |
| forum_walk | ForumWalk, ForumWalk | whom can a paging reader miss? | 2 threads, 3 users, 2 posts, pages of 1, 2 leavers |
| catalog_listing | MCCatalog, CatalogListing | does a page honour its query? | 2 categories, pages of 2 and 3 items, 11 queries, 2 pushes, minted or with an id given by hand that lies in the minted band |
| front | MCFront, Front | is the chaos the one asked for, does a run replay, who answers, what may an answer look like? | 2 requests a run of 12, 2 environments, 4 command lines, 3 scenarios, 8 methods, 2 hash orders |

* **market_ledger.** `OneTracePerSale`: since the last reset, each bought lot has one payment or one
  `charge_then_fail`, never both. `LedgerAscends`: operation ids ascend, resets included, which is
  what the payments cursor relies on. `TransientAnswerIsHarmless`: a 429 or 5xx took nothing. Two
  payments are what a double charge needs. `LotsWalkShowsWhatStayed`: a finished walk has shown
  every lot that was on sale throughout, although new lots come in below the world's ids and pages
  materialize in any order; `PaymentsWalkMissesNothing`: it has shown every payment there is at its
  end, those made after a reset under the walk included, because operation ids outlive resets;
  `SeenOnceInOrder`: no row comes twice. Limits 1 and 2 over at most 2 lots and 2 payments give
  walks of one to three pages, with writes behind, at and ahead of the cursor.
* **market_world.** `NothingSoldIsOnSale`, `OnlyItsSellerChangesALot`, and `SellsEachLotOnce`, the
  refinement of `OneSale` tied to the answers: a caller is told of a purchase in exactly the step
  that makes out its receipt to that caller, and 402 in a sale without one. Two slots, so that one
  page serves a stored lot, draws another and skips a sold one at once.
* **gauntlet_profile.** `VerdictMatchesLedger`: when a client that waits for its answers is done, it
  has been charged exactly if its last answer is a 200 that is not `pending`. It holds through every
  transport fault, since the pre-response faults never reach the handler and the post-response
  faults keep the status. `ScorecardInSeqOrder`: each faulted request is on the scorecard once, in
  order. `RaceIsOneSale`: to `OneSale` the race is one sale of the lot on offer, made in the step
  that confirms it to that client, or without a receipt where charge_then_fail was drawn.
* **gauntlet_storm.** `EveryPaymentIsConfirmedOnce` when clients leave requests behind;
  `EveryBuyEnds`; `StormEndsInASale`. Four requests against three transient answers: the storm
  converges only because the abandoned requests spend ticks, too.
* **forum_walk.** `OneLikePerPerson`, `PostIdsTellOrder`; `PostsWalkMissesNobody`, exact even as the
  thread grows; `LikersWalkMissesOnePerUnlike`: the likers' walk can miss people who were there all
  the time, at most one per unlike. That bound is the price of offset paging, stated rather than
  hidden.
* **catalog_listing.** `EveryItemHonoursTheQuery` for windows, exclusions and flags together,
  `PageIsFullAndInOrder`, `InjectedLotsHeadTheListing`, `PollerSeesAStableWorld`.
  `InjectedLotIsNews`: no poller has seen the id of a lot that is minted, the second lot after a
  poll and a reset included, since the counter outlives resets. Excepted are ids that were given by
  hand before: `item_id` of an inject-lot is any number, the minted band included.
* **front.** `FlagsWin`: the command line decides over the app of its process, whatever was cached:
  a scenario always, a seed or an intensity if no scenario is named;
  `SameFaultAtSeq` and `SameSeedSameAnswers`: two runs armed alike give one fault per number, and
  the same answers to the same requests, although draws of one app move the generator of the next
  and classes are hashed anew; `LiteralFirst` and `NoEndpointVanishes`: a spelt-out path beats a
  parameter, and no upstream method is lost between the routers and the table that excludes their
  urls for all verbs; `EnvelopeOnSubstance` and `NoEmptySuccess`: no envelope makes an emptied
  answer look like one, and an empty 200 of the imitated API is a recorded fault (bump, set_price
  and the buy, routes of the stand, answer `{}` themselves); `QuietServerIsClean`: no chaos
  unasked; `UnrecordedIsPlain`: what the scorecard does not tell of did not happen. Two requests a
  run suffice for what relates a request to an earlier one (a number, a draw, a revocation, a lot)
  and two runs are what a comparison needs; the catalog has an alias, a literal against a parameter,
  two patterns that tie, an untyped method and an excluded url.

`TypeOK`, `GTypeOK` and `FTypeOK` are the type invariants. Each property of these runs has a mutant
in `PROJECT.json`: a defect of the code that makes TLC find it violated.

Three configurations have a `VIEW`. `MarketView` of market_world leaves out the last answer,
`ReaderView` of market_ledger also prices and dates, `CatalogView` of catalog_listing the last
push (whose categories are also a `SYMMETRY`): no guard and no assignment of another variable
reads them, so states that differ in nothing else have the same steps, and action properties are
evaluated on each step before states are merged. The one formula that reads a dropped part of a
state is `TypeOK`, which is proved.

**Fairness** (`GFairSpec`, used by gauntlet_storm alone): weak fairness of each request's next step
and of each client's sending and receiving. The event loop runs every ready task and every
`asyncio.sleep` ends, so a request that can proceed does. A client's timeout has no fairness: it may
never happen. `CHECK_DEADLOCK` is on everywhere; `Settled` lets a finished gauntlet stutter, and no
other module has a terminal state (a reset, or in Front a new process, is always possible).

### Where the code departs from what it says

Five runs expect a violation; each is a statement of the repository's own, quoted in `PROJECT.json`.

| Run | What the code does |
|---|---|
| market_sold_out | a reset keeps the tick counters: the first buyer after it may be told "sold out" |
| market_revoked | a revoked token is refused by the catch-all only; the market serves it |
| forum_missing_post | liking a post that does not exist answers `already-liked` |
| catalog_zero_max | `pmax=0` gives a page of price 1 |
| front_scenario_seed | a seed given beside a scenario overrides the scenario's own |

Some smaller departures were met that no run is made of, since the text is too loose, a remark on
something else, or the case outside the models: `api/forum.py:3` says its routes "degrade to empty"
without a world where they answer 409; `api/system_info.py:84-87` and `api/forum_posts.py:10-12`
have the catch-all answer `{}` with 200 for a method without a model, which it refuses with a 501
(`Served`, and so `NoEmptySuccess` holds); an id given by hand to inject-lot may lie in the minted
band, which `next_item_id` does not skip, so a lot minted later may carry an id that a poller knows;
`fake/query_filters.py:149` speaks of the cheapest off the top of a page, which with injected lots
heads only what was generated, on purpose (`api/catch_all.py:90-95`);
`LZT_TESTNET_WORLD=1` is ignored beside a scenario without a world; `README.en.md:95` says every
route requires Authorization, which the listing, health and control routes do not;
`world/stores.py:1` claims the semantics of `LotStore`, whose `limit=0` raises where this one
guards; `not_origin=generated` excludes the word that `_exclude` puts in the place of an excluded
one, so such a query is not honoured (`Contradictory`, with `origin=a&not_origin=a`, names what
`EveryItemHonoursTheQuery` leaves out).

## 4. What is proved

For every set of tokens, lots, faults, users and every bound, under the named assumptions of the
modules:

* `TypeCorrect`, then `MarketInvariant`. The safety invariants of the market are not inductive by
  themselves: `POST /lots` stores a lot under the next id without asking whether that id was bought,
  so "nothing sold is on sale" needs `IdsIssued`: an id that is on sale or sold is the world's or
  lies below the counter. This is why it matters that the id counter outlives a reset and that
  `stable_id` stays clear of the small ids (`StableIdAssumption`, from its docstring).
  `LedgerAscends` likewise carries the bound by `nextPayment` that makes it inductive. From the
  invariant follow `SoldLotsStayOffSale`, `EverySaleLeavesOneTrace`, `LedgerStaysAscending`, and of
  the steps `RetriesStartAfresh` and `LotsAreTheirSellers`.
* `MarketImplementsOneSale`: the initial state maps to an initial state, and each handler to an
  offer (a created lot, a page), a reprice, a sale with or without receipt, a reset, or a stutter;
  and the answer 200 (not `pending`) goes with the sale that has a receipt, for that buyer, and with
  nothing else, 402 with the one that has none.
* The forum. `PostIdsStayOrdered`: all ids in all threads are below the counter. `OneLikeStays` adds
  that the likers of a post are without repetition (`LikesInv`), which `unlike` keeps because a
  filtered sequence without repetitions has none. `WalkInvariant` is about the reader: what it has
  seen of a thread is exactly the first `(page - 1) * Limit` posts; of the likers who stayed and lie
  below that offset, it has missed at most as many as have left, since an unlike moves each place
  behind it by one and so one person at most across the offset. `PostsWalksAreComplete` and
  `LikersWalksMissFew` follow, as an end of the walk has its offset past the total.
  `ReadersLeaveTheForumAlone`: the walk implements `ForumThreads`.
* The catalog. `FoldedPriceIsInWindow`: `_fold_into_window` lands in the window for every integer
  and every window that can be met (its ends in order, its upper end at least 1: the exception is
  the finding of catalog_zero_max). `CatalogInvariant` has the types; that each row a poller holds,
  and each lot pushed, has an id that was drawn, given by hand, or minted and so below the counter,
  which no reset takes back; and that the last answer still is the `Listing` of its query, sample
  and lots. From it `MintedLotIsNews`, `PollerSeesItemsStay` and `LotsHeadTheListing`;
  `EveryItemHonours` by induction along the rules of a query (a rule that was applied stays honoured
  by each one after it, unless the query contradicts itself); `PageStaysFull` because sorting by
  price is a permutation: the ranks in a total order are one.
* `LotsWalkIsComplete`, `PaymentsWalkIsComplete`, `PagesAscend`, from `CursorInvariant`: the
  market's invariant, and that every lot that stayed, or payment of the account, is seen or lies
  above the cursor. It is inductive because a full page is cut from the head of what is above the
  cursor, and a payment appended under the walk has an id above all others (`LedgerAscends`); a new
  lot may come in below the cursor, which is why the statement is of lots that stayed.
* The gauntlet: `GauntletMoves` shows that behind the middleware the market makes its own steps or
  none, so its invariant carries over (`GauntletKeepsMarket`, with `PipeOK`, the well-formedness of
  requests in flight: a fault at the handler is armed, a short-circuited request has a pre-response
  fault, requests beyond the client's current one are unsent). `ScorecardReplays` needs that all
  numbers recorded lie below the next one. `ConfirmedOnce` rests on `ConfirmInv`: at most one
  request is confirmed, and if one is, the ledger has its payment. Its heart is `BuyTells`: the one
  200 that charges nobody, "pending", comes of a domain fault, which excludes a fault that rewrites
  the body. `LastAnswerIsTruth` adds `WaitInv`: a client that waits has had a retried status, never
  a 200, for each request but its last. It assumes that clients do not time out, and is false
  without. `RacersMakeOneSale` is the refinement: a buy at the handler is `BuyIsASale`, the step
  that proves `LotMarket` refines `OneSale`, and `BuyTells` says which answer goes with it; every
  other action leaves the market where it is. It needs no assumption on timeouts.
* `OneMethodAnswers`, `FewestParametersWin`: for every catalog and order, `Match` returns at most
  one method, and the first of the table has as few placeholders as any method that fits.
* `WiringInvariant` of Front: settings read are those of the environment, which has the flags of the
  command line; a live app is armed by them, its table is in the order of the names, its numbers run
  from 1 to the next and its log has the fault the stream gives each. From it `CommandLineDecides`,
  `LiteralsWin`, `EnvelopesHaveSubstance`, `EmptySuccessIsRecorded`, `QuietStaysClean`,
  `RecordIsComplete`, and `NumbersReplay`, for which the run before must have had the same seed and
  profile, which is what `past` asserts.

* `NoEndpointIsLost`: of all that can answer, the catch-all alone says 404 unasked, and only where
  the table has no entry; by `FewestParametersWin` no method of the table then fits, and a method
  that the table leaves out has a route of `forum_posts.py`. That last fact is an assumption on the
  catalog (`OwnUrlsAssumption`), and it is where a new upstream verb on those urls would be lost.
* `FrontTypes` carries the values that no handler checks: samples are states of the generator, the
  scorecard names faults of the enum (menus do), a live app's generator has the app's seed.
* `SeedDecidesAnswers`. A run is `Traced` by the states its requests led through, from the start of
  its configuration; `At(s)` is `Front` instantiated with the state `s`, so that the state a trace
  goes to and the entry it logs are Front's own operators at its last state. The invariant `Told`
  says that the live run and the last one are traced, and from one configuration. Two traces of one
  configuration agree as long as their requests do, by induction. Nothing is assumed of the
  generator but that what it draws is told by its seed and its draws so far.

Every safety invariant and every action property of the passing runs is the statement of a theorem.

Two techniques recur. Induction over numbers is done on sets: `Least` gives a set of naturals its
least element, and `InductionUpTo` follows, with the set for the induction hypothesis. So the folds
of the community modules can be reasoned about (`FoldExists`: the CHOOSE that defines a fold has a
function to choose) and so can traces. And operators at another state than the current one are had
by an instance with the state as its parameter.

What the proofs assume is named beside the constants it is about. The assumptions that say most:

| Assumption | What it says | Why the code justifies it |
|---|---|---|
| `StableIdAssumption` | world ids are apart from each other and from small ids | docstring of `stable_id` |
| `DrawnAssumption` | ids drawn for a page differ and lie below the minted band (ids given by hand are free) | drawn from a range far wider than a page; minted ids have a band of their own |
| `QueryAssumption` | a window end is one number or absent, a rule occurs once | the mapping of the parameters has each name once |
| `MenuAssumption`, `ScenarioAssumption`, `ShellAssumption` | profiles, scenario files, environments and flags have the types pydantic and argparse let through | anything else is refused before an app is created |
| `CatalogAssumption` (of `RouteTable`) | qualified names are unique | they name classes |
| `OwnUrlsAssumption` | methods of the excluded urls have the verbs `forum_posts.py` routes | `forum_posts.py` claims the two urls as its own and serves all that is done there |
| `FrontAssumption`, `StreamAssumption` | no request is a buy, a path has a segment, a header names a fault or none, a method has a field or more, every seed has a stream | Gauntlet has the buy; ASGI; `parse_x_chaos`; response models; `random.Random` |
| `LotIdAssumption` | minted lot ids are apart from a world's | docstring of `stable_id` |

Only model-checked: the two liveness properties, `EveryBuyEnds` and `StormEndsInASale`, since the
prover does not do liveness under fairness; and the five disagreements of section 3, which are
counterexamples.

## 5. What is abstracted, and what is not modelled

* Text: prices, names, bodies, query strings. A parameter that does not parse is one that is absent.
* `stable_id`'s digest: a constant function without collisions.
* The seeded draw of faults: in `Gauntlet` any fault of the menu, or none; in `Front` a constant
  function from seed and number to a coin and a spin. Weights are a wheel on which a fault stands as
  often as it weighs; rates are ticks of the coin.
* Bodies: the number of fields, and whether one lies. Titles, visitor data, times and retry-after
  values are left out.
* Paths are sequences of segments; the endpoint key takes "/lots" and "/payments" for whole
  segments.
* `FORUM_POST_PATHS` is the constant `OwnUrls`; the method classes of the `pylzt` package are the
  constant `Catalog`.
* One app is up at a time and one command line is given to a process. Front answers one request at a
  time; concurrency is Gauntlet's subject, around the buy.
* FastAPI's own routes (`/docs`, `/openapi.json`) and its 422 for what does not validate.
* The category filter of `GET /lots`, which like the seller filter reads a field no handler changes.
* `POST /testnet/reset` empties five stores in one handler. Its part of each module is that module's
  reset action; the modules share no variable, so the parts do not interact.
* Lots, payments, posts, pushes and attempts are bounded by `MaxLots`, `MaxPayments`, `MaxPosts`,
  `MaxPushed`, `MaxAttempts`, and those who leave during a walk by `MaxLeft`: guards of the model,
  not of the code.
* Not modelled: see "components" in `PROJECT.json`, with the reason for each.

## 6. Plan

Done, in this order:

1. `OneSale`, `LotMarket`, their runs and proofs.
2. `Gauntlet` over `LotMarket`, and its proofs.
3. `ForumThreads`, `ForumWalk`, `Catalog`, with a first theorem each.
4. `Readers` over `LotMarket`, with its proofs.
5. `RouteTable`, `Arming`, `Front`, with their proofs.
6. The rest of the safety properties as theorems: forum walks, catalog, and the front's replay.
7. A gauntlet refines `OneSale`.

Left, the most valuable first:

1. Resets and revocations under requests in flight: the verdict is then of a ledger that is gone, so
   `VerdictMatchesLedger` needs a statement by generation.
