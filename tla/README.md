# Verification of the go-coursera programs

The repository is a collection of programs written for a Go course: eight homeworks
(`HW/`) and the lecture demos (`lectures/`).  They are independent of each other; what
they share is the kind of thing that goes wrong in Go services: goroutines that block
on a channel for ever, a mutex taken twice or given back too early, a stream whose client
has gone, a cache whose lock expires, a handler that answers an error and goes on, a
worker that dies between its work and the acknowledgement.  This directory models the
programs that have such behaviour, checks the models with TLC and proves what matters
most with TLAPS.

All paths below are relative to the root of the repository.

## 1. Inventory

| component | files | state | hard behaviour | correct when |
|---|---|---|---|---|
| **hw7 microservice** | `HW/hw7_microservice/{service,admin_service,biz_servise}.go` | access list; open streams, shared by interceptor and admin through a pointer; one mutex; an unbuffered channel per stream; per Statistics call a collector, a slice of events, a ticker | fan-out under a mutex; client departure; slow client; shutdown racing with calls; goroutines that outlive their handler | every open stream sees the one log, in order, from where it joined; counts neither lose nor repeat an event; the context stops the server and frees the port |
| **hw2 signer** | `HW/hw2_signer/{signer,common}.go` | a channel between neighbouring stages; a wait group per stage; a mutex around MD5; a global overheat flag | hundreds of goroutines; a close that must come after the last send; bounded buffers | no send on a closed channel, MD5 by one goroutine at a time, every input combined exactly once, termination |
| **tagged cache** | `lectures/C2W2/database/tcache/*.go` | memcached: values with tag versions, tag counters, a lock key with 3 s expiry | a distributed lock that expires; invalidation during a rebuild; eviction; ignored errors; crashes | a value served after an invalidation was built after it; one rebuild at a time |
| **hw6 db explorer** | `HW/hw6_db_explorer/db_explorer.go` | schema read at start; a SQL table | a handler that answers an error and goes on; columns that are not in the schema; concurrent changes; failing statements | an error means no change; what a success reports happened |
| **hw5 generated API** | `HW/hw5_codegen/{api,api_handlers}.go`, `handlers_gen/codegen.go` | users and next id under an RW mutex | concurrent creates; bounds of the validators; generator against its checked-in output | ids unique, one user per login, both sides accept the same forms |
| hw4 FindUsers | `HW/hw4_test_coverage/client.go` | a page request and answer | page boundary (limit + 1), the cap of 25, users that change between pages | the pages make up the list |
| hw1 tree, hw3 search, hw8 i2s | `HW/hw1_tree/main.go`, `HW/hw3_bench/*.go`, `HW/hw8_i2s/i2s.go` | none | which entry is last; hand-written counting; partial decoding | equal to a definition that is written another way |
| **image resizer** | `lectures/C2W2/database/rabbit/*.go` | files; a queue with manual acks; per process a channel and goroutines | redelivery after a crash; acknowledgement after a failed resize; two processes at one file | no task lost; every successful upload resized |
| **consul and load balancing** | `lectures/C2W3/microservices/grpc_lb_sd/*` | registry; set of known addresses; three channels between poller and balancer; index of a blocking query | two goroutines in lock step over three channels; a change between two queries; servers that die registered | the balancer's addresses become those registered |
| **session managers** | `lectures/C2W3/microservices/{service1,service2,net-rpc,json-rpc,grpc,grpc_2,gateway,grpc_lb_sd}*`, `lectures/C2W2/database/redis` | a map under a mutex, or redis behind one connection; browsers' cookies | store outside the mutex; two calls on one connection; failed calls | a page shows the caller's own live session |
| CRUD pages | `lectures/C2W2/database/{mysql,gorm,mongodb}` | a table of items | read, then save; ignored errors; an id of zero | what was deleted stays deleted; counts add up |
| middleware and metrics | `lectures/C2W1/{middleware,logging}`, `lectures/C2W4/monitoring/metrics` | a map of timings per request; a cookie | panics through a chain of middlewares | a report is of its own request |
| configuration from consul | `lectures/C2W4/config/consul/consul_config.go` | the map in use and its index | a change while an answer is being loaded | no change is missed |
| **auction**, **rate limit** | `lectures/C1/async/{context,ratelim}.go` | lot, bids, a context; tokens in a channel, a wait group | stale bids, three ways to end; places given away and asked for | the highest bid wins; never more at work than places |
| goroutine demos | eighteen files of `lectures/C1/async` | a few channels, a mutex, a counter each | abandoned workers, late answers, lost updates | each goes wrong as it is there to show, and no other way |
| other demos | `lectures/C1/async/{afterfunc,goroutines,tick,timer}.go`; http, json, xml, templates, reflection, bots, websockets, streams, gateways, file upload, memcache, SQL injection, exporters, configuration by flags | none or a library's | pure I/O around a library | not modelled, section 8 |
| profiling, cgo, unsafe | `lectures/C1/{perfomance,pprof,testing}`, `lectures/C2W4/{cgo,unsafe}` | - | - | not modelled |
| generated and vendored code | `*.pb.go`, `*.pb.gw.go`, `*_easyjson.go`, `vendor` | - | - | not modelled, but for what hw7 uses of `GracefulStop` |

**How they interact.** The programs do not call each other. Inside a program the parts
meet at a mutex, a channel or a store, and each model has them side by side. Three are
compositions of components with state of their own: a session client with each of its
managers (`Sessions`), and the two load-balancing clients, each beside the registry and
the servers that enter it (`LoadBalancer` and `ConsulResolver` over `Consul`).

## 2. Modules

| module | models | checked in | proved in |
|---|---|---|---|
| `Broadcast` | abstract: a log and its subscribers, without goroutines, locks or channels | `ms_service`, `ms_live` | `Microservice_proof` (refinement) |
| `Microservice` | hw7 | the five `ms_` runs, by `MCMicroservice` | `Microservice_proof` |
| `Signer` | hw2 | `signer`, by `MCSigner` | `Signer_proof` |
| `TCache` | the tagged cache, one action per request to memcached | `tcache`, `tcache_one_rebuild`, by `MCTCache` | `TCache_proof` |
| `DbExplorer` | hw6 | `requests`, by `MCRequests` | `Apis_proof` |
| `Search` | hw3 | `requests` | `Programs_proof` |
| `Tree`, `I2s` | hw1, hw8 | `requests` | |
| `Site` | four services made of middlewares | `requests` | `Pages_proof` |
| `Crud` | the three CRUD programs | `requests` | `Pages_proof` |
| `Sessions` | eleven session managers and twelve clients of theirs | `requests` | `Pages_proof` |
| `Program` | which of the programs of a composed run a behaviour is of | | |
| `Consul` | the registry and the servers in it | `progress`, by `MCProgress` | `Consul_proof` |
| `LoadBalancer` | the polling client: main, poller, injector, balancer | `progress` | `Consul_proof` |
| `ConsulResolver` | the client with blocking queries | `progress` | `Consul_proof` |
| `ConsulConfig` | the configuration loader | `progress` | `Consul_proof` |
| `Resizer` | upload, broker, worker processes | `progress` | `Resizer_proof` |
| `Auction`, `Quota` | the auction; the rate limit | `progress` | `Programs_proof` |
| `Goroutines` | eighteen small programs, as code that the module runs | `progress` | `Programs_proof` |
| `FindUsers` | hw4 | `progress` | `Programs_proof` |
| `MyApi` | hw5, the generator's rules included | `progress` | `Apis_proof` |

**Many programs in one run.** `MCRequests` and `MCProgress` check programs together that
have nothing to do with each other, each alone: the variable `program` is chosen in the
initial state and never changes, only that program takes steps, and the variables of the
others stay at *one* of their initial values (for most it is the only one; where there
are several, `Init` pins it, which loses nothing, because a program's initial states are
all tried when it is the one that runs). So the state space is the sum of the programs',
not their product. Fairness of a program is stated for its actions *while it runs*
(`Runs(name)`), and so is each liveness property; without that condition a program that
is not there would owe steps.

The plan of this project is done: what it named as `LoggedIn` (sessions behind a
load-balanced connection) was dropped when it turned out that the manager of `grpc_lb_sd`
keeps no sessions; its `Check` answers with host and id, and that manager is one of those
in `Sessions`. The refinement of an abstract map of sessions was replaced by the
properties of `Sessions`, because most of the managers do not implement it: that their
clients see what they should in spite of that is what is checked. Of the proofs, what is
left is what section 6 names.

## 3. How the models correspond to the code

### 3.1 `Microservice` (hw7)

A *call* is one RPC. Its consumer and its method are constants (`Who`, `Meth`), so an
event is identified with the call that published it. A handler goroutine is a program
counter `pc[c]`, a collector goroutine of Statistics is `col[c]`, and the goroutine of
`StartMyMicroservice` that waits for the context is `srv`.

| code | model |
|---|---|
| `StartMyMicroservice`, `parseAlc` | `Start`, `Parses`: the port may be taken, the list may be malformed; both errors have their own way out |
| `checkAuth`, `contains` | `Authorised`, `Contains`: a regular expression is the set of the methods it matches |
| `intercept` | `Arrive` (checks), `Lock` (`i.mu.Lock`), `Unlock` |
| `notifyStreams` | `pos` is the loop index; one step of the `select` is `Deliver`, `SendOnClosed` or `StreamGone` |
| an unbuffered send | one step together with its receiver: `Deliver(c, s)` also moves the handler or the collector of `s` |
| `addStream` | `Join`, a panic after `as.Close()` |
| `Logging` | `SendEvent`, `LoggingEnds` |
| `Statistics` | `NewTicker` (a panic for a non-positive interval), `Tick`, `SendStat`; the collector is `Collect`, `CollectorEnds` |
| `Close` | `AdminClose`: closes the channels under `mu`, and loses only the admin's pointer to the slice (`adminNil`); the slice stays |
| `GracefulStop` | `StopListening`, then `Stopped` once no handler is left |
| a panic in a goroutine | `srv = "crashed"`, after which nothing happens |

`log`, `start`, `got` and `total` are history: the code has no such variables, and no
guard reads them. The remaining variables are the code's own.

### 3.2 `Signer` (hw2)

`ExecutePipeline` gives every job a channel of capacity one (`ch[k]`, closed iff
`k \in shut`). `SingleHash` and `MultiHash` start a goroutine per value; the record
`single[w]` or `multi[w]` holds where that goroutine and the ones it starts are, and
their private channels. What a goroutine does between two points where it can block or
be observed is one action: receiving from the stage before and starting the worker,
each send, each receive, `su.Lock`, the two sides of the overheat flag, `su.Unlock`,
`wg.Wait`, `close`. A hash is a term (`Crc(x)`, `Md5(x)`), so two results are equal
exactly when they were computed from the same value in the same way; the sorted,
joined answer stands for the bag of the results. A send on a closed channel has no
action: `NoSendOnClosed` says that the program never is where it would happen.

### 3.3 `TCache` (the tagged cache)

memcached is the variables `item`, `tag` and `lock`; a client in `TGet` is a record
`call[c]` with the place (`at`) of the request it is about to make. One request is one
action, because other clients and memcached itself can act between any two.

| code | model |
|---|---|
| `checkLock` | `CheckLock`: up to `Tries` tries, then on regardless |
| the first `Get` | `GetItem` |
| `isTagsValid` | `IsTagsValid`: `GetMulti`, and every tag present with its value |
| `lockRebuild` | `LockRebuild`: `Add`, up to `Tries` tries, then on regardless |
| `rebuildCb` | `RebuildCb`: reads the version `data`; a result of the wrong type unlocks and leaves |
| `getCurrentItemTags` | `GetTags`, `Stamp` (`time.Now`), and one `SetTag` per missing tag, in any order (`item.Tags` is a slice of the callback's, its order is the callback's) |
| the last `Set` | `SetItem` |
| `unlockRebuild`, deferred | `UnlockRebuild`: `Delete`, whoever's lock it is |
| errors | `RequestFails`: the request was not done; `AfterFailure` is where the code then goes. `AnswerLost`: it was done, the client sees a failure |
| `tc.Increment` in `main.go` | `Invalidate` |
| expiry, eviction | `LoseItem`, `LoseTag`, `LoseLock` at any moment |

`stale`, `used`, `dead`, `revived`, `lost` and the fields `late` and `owns` are history;
`spent` counts what the model's bounds allow. A tag starts at the Unix time, so 0 can
stand for a tag that is missing.

### 3.4 `DbExplorer` (hw6)

One table with an `AUTO_INCREMENT` key. A column is its position, field 0 is a name that
is no column, a value is its JSON type. A caller's request is `dbCall[c]`: its checks up to
the statement are one action (nothing in them is shared), the statement is another, taken by
the database one at a time, which may fail, or succeed and fail to report. The answer is a
*sequence* of statuses, each with the id or count its body names (`HttpStatus`, `Told`),
because several handlers write an error and go on; the code's order of the two
is kept, with the panics that a nil result or a nil column then causes. `wrote[c]` is
history: the row that the statement changed.

### 3.5 `Search`, `Tree`, `I2s` (hw3, hw1, hw8)

`Search` reads the file line by line as `FastSearch` does, and `SlowSearch`, the reference
of the repository's own test, is an expression beside it. `Tree` has the recursion of
`printTree` as a stack of directories half read and may fail at each write or read; the
reference (`Drawn`, `Rank`) draws the picture path by path without a recursion. `I2s` is
the recursive function itself, with "the first error ends it, nothing is undone"; the
reference is the way back (`Marshal`). These two modules have recursive operators or big
initial sets and are for TLC only.

### 3.6 `Site`

A request goes down its chain of middlewares (`Enter`), is handled, and comes back up
(`Up`) returning or panicking. `timings[c]` is the map in the request's context;
`emulateWork` adds to it. In the metrics copy the two sums are labelled with each other's
names, as in the code.

### 3.7 `Crud`

An item is who wrote it and whether an `Update` did. One query is one action. gorm's
`Update` is three: `Find`, whose error is dropped so that the post keeps the id zero,
`Save`, which makes a row of such a post, and in newer releases of gorm a `First` and a
`Create` when the `UPDATE` matched nothing; both releases are allowed. `Delete` with the
id zero has no condition in gorm and takes all rows. A query fails in two ways, and the
handler panics in both: it was not carried out (`StatementFails`), or it was and its answer
is lost (`Reports`), so that a row is made, changed or gone and its caller told nothing.
`born`, `killed`, `buried` and `overtaken` are history: what was made, what a Delete said it
removed, what one has taken, and what one took from under an `Update` that had found it.

### 3.8 `Sessions`

A manager is a record of how it stores (`bare`: the store is outside the mutex, as in
`service1` and `service2`; `locked`; `redis`), what `Check` says of an id that is not there,
and whether a call can be lost; a client is a record of what it makes of failures, or the
script of calls that a program makes. An access to the map is two actions (`BeginWrite` ...),
so that two can overlap: a goroutine that finds the map being written ends the process or
goes on unnoticed, both of which a Go build may do. redis answers in the order of the
requests on its one connection, and two handlers that share it may take each other's
answers. `drawn`, `again`, `ended` and `spoilt` are history.

### 3.9 `Consul`, `LoadBalancer`, `ConsulResolver`, `ConsulConfig`

A server listens, registers, serves, deregisters and may die between any two; the index of
the registry grows with each change. In `LoadBalancer` each channel is a variable of what it
holds (`side`, `update`) or of who waits on it (`helper`, and `client = "wait"`, for
`readDone`); the two goroutines' sends and receives are actions. The order in which a map is
iterated is arbitrary, so a batch is a set of updates. In `ConsulResolver` a query answers
when the index has passed the one it names (`Query`) or after five minutes
(`QueryTimesOut`). A registration that fails after it has taken effect is `ServiceRegister`
followed by `ServerCrash`. Leaving is two steps: `ServiceDeregister`, while the server still
listens, and `MainReturns`; a server may die between them. `ConsulConfig` lets the
configuration be written at any moment between the answer of `List` and the assignment of
map and index.

### 3.10 `Resizer`

`uploadPage` is `SaveTmp`, `Rename`, `Publish`, with a failure at each and a crash between
any two; a worker goroutine takes a task (`Take`), and for each size opens and creates
(`Open`) and encodes (`Encode`), so a file is `partial` in between; `Ack` comes after the
last size whatever happened, as in the code. The broker delivers while a process has fewer
than `Prefetch` tasks unacknowledged, and puts them back at the head when it dies.

### 3.11 `Auction`, `Quota`, `Goroutines`

In `Auction` a player's read of the bid (`Look`) and its offer are two actions. In `Quota`
the token channel is a count. `Goroutines` gives each of eighteen programs as instructions
(`Send`, `Recv`, `RangeOver`, `Close`, ...) and has one rule for each kind: a send and a
receive on a channel without a buffer are one step (`Meet`), a mutex is a channel of
capacity one, a wait group one that takes a token for each `Done`, sleeping and timers are
"time", which takes any time.

### 3.12 `FindUsers`, `MyApi`

`FindUsers` is called page by page; the server, which is not in the repository, answers with
the users from an offset on and changes its users in between. `MyApi` has the generator's
rules as operators over struct tags (`validateTmpls`, `tmpls`), the checked-in validators
beside them, and the handlers of the two services, with one action per access under the
mutex.

## 4. What the runs check

Twelve runs; six of them show disagreements (section 7). Every property is stated in the
module of its component, with a comment on the code it is about, and related ones are
named parts of one conjunction.

| run | instance | shows |
|---|---|---|
| `ms_service` | a logger, a Statistics call that may leave, 2 Biz calls, intervals 0, 1 and one that overflows, a busy port, lists that refuse a consumer or a method or are malformed, a shutdown at any moment, fair | lock step with the log, audit before service, the two and only two causes of a self-deadlock; the service implements `Broadcast`; conservation of events from channel through ticks to client; the three causes of a panic; the stop ends, unless a late caller locks twice or a Statistics handler ticks on |
| `ms_live` | 2 loggers, 1 Statistics, 1 Biz, clients stay, no shutdown | every call served, clients catch up, `Broadcast` with its fairness |
| `ms_port_not_freed`, `ms_statistics_never_ends`, `ms_panic_on_stop` | one or two calls each | three disagreements with the tests |
| `signer` | two values, two hashes each, fair | no send on a closed channel, exclusive MD5, nothing lost between stages, the specified answer; values flow while the source pauses, and the pipeline returns |
| `tcache` | 2 clients, 2 calls, a key with 2 tags, a clock that ticks once; a change of the data; a loss, an invalidation and a tick, or a failed request or crash and one of these | a stale item counts as good only by the two named races; two holders only after a lost lock; no lock left without a failure; every call of `TGet` ends |
| `tcache_one_rebuild` | 2 clients, nothing fails | a disagreement |
| `requests` | seven programs, no fairness | `TableKept`, `AnswersAreTrue` (hw6); `SearchesAgree` (hw3); `DrawsThePicture` (hw1); `DecodesOrStops` (hw8); `ReportsAreTrue` (middlewares); `ItemsKept` (CRUD); `SessionsKept`, `FailuresExplained` (sessions) |
| `progress` | nine programs, each with its fairness | `ChannelsKeepStep`, `RegistryIsTold` (load balancing); `PageNotNewer` (configuration); `TasksKept` (resizer); `AuctionIsFair`; `QuotaKept`; `WrongAsShown` (goroutine demos); `PagesMakeTheList` (hw4); `UsersKept`, `FormsChecked` (hw5); and that changes arrive (`ChangesArrive`) and everybody gets done (`EverybodyGetsDone`) |
| `api_max` | hw5 of `progress`, alone | a disagreement: the maximum is refused |
| `db_as_documented` | hw6 of `requests`, alone, with bodies that name an unknown field | a disagreement: an unknown field makes an update panic |

**Bounds of hw7, hw2 and the cache.** In hw7 every call is made at most once; that is a
property of the model's identities (a second call by the same consumer is another element of
`Call`). Two streams and two publishers are the fewest that can disagree on order, and three
streams add nothing to `LockStep`, which relates each stream to the log alone; `ms_live` has
two streams of the one kind. The client that may leave is the Statistics call's in
`ms_service` and the logger's in `ms_port_not_freed`. `Second = 3` and `HalfRange = 8` give
the conversion of the interval the same cases as 10^9 and 2^63: zero, positive, and wrapped
negative. In hw2 two values with two hashes (`ThMax = 1`) let the goroutines of one value,
and those of two, answer in either order. In the cache `Tries = 2` has a first, a last and
so a failing try; `MaxCalls`, `MaxIncs`, `MaxLosses`, `MaxFaults`, `MaxCrashes`, `MaxData`,
`MaxNow` bound how often the environment acts, and `MCTCache!AFewTroubles` how much of it
one behaviour has: a loss, an increment and a tick, or a failed request or a crash and one
of these. Both causes that `StaleNeedsRace` names occur: without either disjunct TLC reports
a violation. The proofs have none of these bounds.

**Bounds of `requests`** (0.9 million states). hw6: two callers, a table of four columns
(key, text, number, nullable date), three ids, one failing statement, and a body for each kind
of mismatch; two callers are what an interleaving of two statements needs. hw3: files of
two lines with two browsers of five kinds. hw1: two levels with two names, three in a
directory that is alone, which has a last entry below a last and below a middle one. hw8:
three types, slices of two elements, every JSON kind in every place. Middlewares: two
requests at once and three in all, a work takes 0 or 1. CRUD: three visitors, three
requests, four ids, one failing query: an `Update` that is overtaken by a `Delete` and an
`Add`. The visitors are alike and nothing is said of them under fairness, so the run is
symmetric in them. Sessions: two tabs of one browser and one of another, three calls, two ids (so
they collide), one lost call, and eight pairs of manager and client; pairs that differ in
nothing the model tells apart are looked at once.

**Bounds of `progress`** (158 thousand states). Load balancing: two servers, which is what
makes a batch of more than one update, five changes of the registry, `FirstIndex` 1 where
the code has 10 (the property tells only "not yet reached" from "passed"). Configuration:
four writes, two requests. Resizer: three uploads, two of one image and one that is no JPEG,
two processes with two goroutines, two sizes, prefetch 1 as in the code, one failure or
crash. Auction: two players, steps up to 2, a price of 6 and 3 bids, so that either ends it
first. Rate limit: four workers, two places, four iterations (two even ones). Goroutine
demos: three gophers, two rounds. hw4: server pages of 2 (25 in the code), limits from -1 to
4, eight users, two changes. hw5: two callers, forms on both sides of every boundary.

**Deadlock.** `CHECK_DEADLOCK FALSE` is in every cfg, for the programs do stop: a server
whose calls have all been made waits for ever, a crashed process does nothing, main
functions return, and the environment uses up its bounds. What "stuck" would mean is stated
as liveness instead (and for the demos as `OnlySelect1Deadlocks`).

## 5. Fairness

- `Microservice!FairSpec`: weak fairness for each goroutine (`Handler(c)`,
  `Collector(c)`) and each step of start and stop. A Go mutex is not an issue for weak
  fairness here because each call locks `mu` at most twice, so a waiting call is not
  overtaken for ever. Clients of a stream read on (gRPC's `Send` completes); nobody owes
  a call, a departure or a cancellation.
- `Signer!FairSpec`: weak fairness for every worker and for the stages; none for the
  source, which may pause for ever. `OverheatLock` retries once a second; it is never
  contended (`NoOverheat`), so weak fairness suffices.
- `TCache!Fairness`: weak fairness for a client in `TGet`. `Crash` ends a call and so
  satisfies `EveryCallReturns` trivially; the run also has the calls that do not crash.
  Nothing is asked of memcached, the clock or the writer of the data.
- `LbFair`: the client's goroutine and the balancer's, separately; the ticker ticks.
  `ResolverFair`: the goroutine runs and consul answers a query whose index has passed; a
  query that times out after five minutes is owed by nobody, so `ResolverCatchesUp` does not
  lean on it. `ConfigFair`: likewise `List` with news, and the loading of its answer.
  Nothing is asked of the servers, which may die, or of whoever writes to consul.
- `ResizerFair`: each upload's steps, delivery to each process with room (the broker's own
  promise), and each goroutine. Crashes and failures are owed by nobody and are bounded.
- `AuctionFair`: main, the timer of the context, and each player. `QuotaFair`: each worker
  and main's wait; the channel has room whenever a token is taken out, and each worker
  asks finitely often. `GoFair`: the program takes a step while one can be taken; a
  runtime that runs any goroutine that can run gives that. `FindFair`: the caller, the
  server, the unpacking. `ApiFair`: each handler that has begun; as in hw7 nobody locks for
  ever again, so a request's turn at the mutex comes.

## 6. What is proved

All theorems hold for every value of the constants that meets the named assumptions
(`ConstantsAssumption`, `SignerAssumption`, `TCacheAssumption`, `TriesAssumption`,
`BoundsAssumption`, `QuotaAssumption`, `AuctionAssumption`, `ResolverAssumption`,
`LbAssumption`, `ResizerAssumption`, `ApiAssumption`, `FormsAssumption`,
`FindUsersAssumption`, `SearchAssumption`, `GoroutinesAssumption`, `DbAssumption`,
`CrudAssumption`, `SiteAssumption`, `SessionsAssumption`); all are of the form "initially,
kept by each action, hence always".

**`Microservice_proof`.** `LockStep` is what matters: every stream has received all that
was published since it joined, but for the event in hand, which exactly the first
`pos - 1` streams have. It is not inductive alone: one must know that the fan-out's
event is the last of the log and its holder unique (`MutexInv`), that a call is logged
once (`LogInv`), and that a call owns one stream and receives nothing before it joins
(`StreamsInv`). `IInv` is their conjunction with `TypeOK` and `ViewsAreLogSegments`.
`Invariance` proves it, action by action; `TypeCorrectness`, `Synchrony` and `Segments`
project it. `Refinement` proves that every step is a step of `Broadcast` or a stutter:
`Lock` publishes, `Join` subscribes, `Deliver` delivers; it needs `LockStep` for
`Broadcast`'s guard that nobody is behind, and `LogInv` for "published once".
`Agreement` follows from segments and distinct log entries. `CauseInv` relates what has
happened (a departure, the close of the admin, a refused port, a bad interval) to where
handlers can be; with it `SelfDeadlock`, `PanicCauses` and `Audited` say why the service
goes wrong, and that it never serves what it has not logged. Departures, a self-deadlock, a
shutdown and a panic are steps of the specification, so the theorems hold through them.
`NothingUntold` counts: `ToldInv` says of every stream, wherever its two goroutines are,
that what it has sent (Logging) or counted, pending and still to count together
(Statistics) is what it took from its channel; an event in the hand of a goroutine is
taken off (`Taken`), and a panic or a closed channel loses no more than what is in hand.

**`Signer_proof`.** `Md5Inv` ties the holder of `su` to the one goroutine between
`su.Lock` and `su.Unlock` and the flag to the one that hashes; `WorkerInv` says what a
worker's two channels hold from where its goroutines are (`secondRes` carries the MD5
first and its crc32 later, so the worker cannot close it under a goroutine that has yet
to send); `StageInv` says that a stage waits for its workers before it returns.
`Md5Exclusion` and `CloseAfterSend` follow. `EveryValueFlows` counts: the sets of workers
that have begun and ended at each stage (`Begun`, `Ended`) are initial segments of the
input, and `Flow` relates their sizes to the lengths of the channels.
`TheAnswerIsExpected` says that the pipeline's answer is the one its definition gives for
its input, in whatever order the goroutines ran. `AnswerIInv` follows each value from
source to sink: the `w`-th worker of `SingleHash` has the `w`-th value and what its
buffers hold are that value's hashes (`SingleOK`); a worker of `MultiHash` has each of its
hashes in place, on its way or to come (`MultiOK`); and there is, for each value, a stage
and a number there (`Tracks`) at which it is found (`Placed`), so that nothing else is on
the way (`Filled`) and no two values share a place (`Apart`). When the last stage ends,
every value is among the results, and the places and the workers that own them are equally
many for every result, so the sorted results are the expected ones.

**`TCache_proof`.** `StaleNeedsRace` compares an item with the last invalidation of its
tags, but the code compares counters only. `IInv` connects the two: `dead[t]` is the
greatest value tag `t` had when it was last invalidated; a tag that has not gone back is
above it (`TagInv`), and an item or rebuild whose recorded value is above it has read its
data since, or is `late` (`Sound`). So an item that counts as good has the tag's present
value, which is above `dead[t]`, unless `t` is in `revived`. `OneHolder` and `NoLockIsLeft`
are proved from `LockInv` (`OwnersLock`): who added the lock still has it, unless it was
dropped; that needs to know which clients own at all (`OwnInv`).

**`Programs_proof`.** `QuotaIInv`: the tokens in the channel are as many as workers that hold
a place, and the wait group counts the workers that have not ended. `TheQuotaIsKept` is
that no more than `quotaLimit` work and that main waits for all. `AuctionIInv` adds to
the auction's two promises where the highest bid is: at the lot, or in the auctioneer's
hand (`BetweenBids`), and that a context that is done without main having said so ran out
of time (`CancelledByTime`).
`ThePagesMakeTheList`, of hw4, counts: `FindIInv` splits the list at the place the pages
have got to into those seen and those `Ahead`, and bounds by the number of changes the
users who were there from the start and are in neither (`FewMissed`), and those who have
been seen twice or will be (`FewTwice`). A page moves users over the border, and a change
of the list moves at most one, back or forth; while there is no change, what has been seen
is exactly the stretch of the list up to the border, in order (`InOrder`).
`TheSearchesAgree`, of hw3, says of the lines read so far which browsers have been seen
and which users found, once each and in order (`SeenSoFar`, `FoundSoFar`); at the end of
the file that is SlowSearch's expression for the whole of it.
`TheDemosGoWrongAsShown`, of the goroutine demos, is one theorem of eighteen programs, for
any number of goroutines and of rounds. The lemmas up to `InstructionIs` are about the
rules: what a send, a receive, a close or a meeting changes, and when a goroutine can go
on. Then each program is read off its code (`chan_1Code`, ...) and has an invariant of its
own (`chan_1OK`, ...), and `GoIInv` is all of them. What they say is mostly what a channel
holds for where its goroutines are; two kinds share theirs. In `wait_2` and `waitgroup` the
wait group's tokens and those that main has taken are as many as goroutines that are done
(`WaitingOK`), so main gets past its last receive only after all of them. In `race_2` and
`race_3` the mutex is held by exactly the one goroutine that is between its lock and its
unlock (`MutexOK`, with `At` for where in its body a goroutine is); in `race_2` whoever is
in the map is that one, in `race_3` main reads the map without it. That nobody but
`select_1` deadlocks is shown without fairness: as long as main has not ended, somebody's
next instruction can be carried out (`SomebodyGoes`), and the same of those whom main has
left (`TheOthersGo`, but for the two context demos). There must be a goroutine and a round,
as in the code (3 to 1000, and 5 to 12), or the demos would have nothing to show.

**`Consul_proof`.** A registered address is served, or its server ended without leaving
(`ConsulIInv`); the index only grows, and grows with every change (`IndexMoves`); so while
it has not moved past the answer's, the answer is the registry (`ResolverIInv`).
`LbIInv` says which channel can hold what in each phase of the load-balancing client
(`InPhase`), and that the updates under way contradict each other only when a batch is
complete (`Ordered`: an address may be removed and added again, so applying two batches
merged would be wrong). Lemmas about applying one update and moving one on its way carry
`AddrsInStep` through each step. `ConfigIInv` orders the four copies of a version: consul's
index, the loader's answer, the one loaded, and the one a request was given, each at most
the one before; `PageNotNewer` is its end.

**`Resizer_proof`.** `ResizerIInv` counts, for each image, its deliveries that are not
acknowledged against the goroutines that have it in hand (`Accounted`), says that a
goroutine is at the size whose files are there (`AtItsSize`), and that the image of a
successful upload is whole, or due: in the queue, unacknowledged, or given up after a
failure (`WholeOrDue`). `TasksKept` needs the counts, since the process acknowledges a
delivery and not an image: an image may be delivered twice after a crash.

**`Pages_proof`.** `CrudIInv` says of a request where it is and why it was dropped
(`VisitOK`), that an item it has found and that is gone was taken by a Delete in between
(`FoundOK`), and that an item was removed, in the words of the Deletes, as often as it was
made, but for once if it is there (gorm's `Save` may make it again) and for at most one for
each query that failed after it was carried out. A new id is above all that were ever taken,
so what comes back was `overtaken`. `SiteIInv` says of a request at each
middleware what the log and the timings hold of it so far (`Coming`, `Over`, `Tally`).
`CallsIInv` is about who is inside which map or mutex: the manager's store and locks are
those of its `pair`, a map is written by two at once only if the manager has no lock
(`StoreOK`, `LocksOK`), and a call's place fits what its client does (`CallAt`,
`Scripted`). On it stands `SessionsIInv`: what `Check` may answer (`Fits`), where a cookie
comes from (`CookiesOK`), and that a session's id leads to those it was drawn for or has
ended. What has ended or was lost stays so: `Gone` and `Live` only grow, and each action
is shown to respect that (`Grown`), so an answer that was right when it was given still is.

**`Apis_proof`.** `ApiIInv`, of hw5: readers and writer exclude each other (`Exclusive`),
ids are below `nextID` and distinct (`IdsDiffer`), a user is never changed (`CreatedStays`,
`ProfileTrue`). `UsersAreKept` follows. `DbIInv`, of hw6, says what the checks of a handler
make of its statement (`Prepared`: no value of a wrong type, no column without a default,
no null that is forbidden), which rows they let through (`Passes`), what an answer says of
the row that was changed (`Truthful`), why a request failed if the database is healthy
(`Explained`, `EndsIs`), that a panic has one of three reasons (`PanicsIs`), and that the row
of a `PUT` is its own and there until a `DELETE` (`PutsOK`).
The one step that adds columns to those the explorer knows is its start, when nobody has
been served and the rows fit all columns (`RowsOK`, `Started`). A lemma (`CarriedKeeps`)
carries the rest through any statement that is carried out; each action shows what it did
to the rows and that its caller is told so. `TheTableIsKept` and `TheAnswersAreTrue` follow.
`TheFormsAreChecked`, of hw5's generator: what `codegen.go` makes of the declarations of
`api.go` is computed (`TheStructs`, `TheTemplates`), then what its template accepts for each
kind of tag (`RequiredFits`, `NamedFits`, `EnumFits`, `NumberFits`), and that is compared with
the three validators that are checked in, and with what hw5.md says the tags mean
(`FitsButForMax`, `DocumentedButForMax`): all agree, but that a number which is its maximum
is refused. The forms are any for which `FormsAssumption` holds: a string for each string
parameter, and for each number what `Atoi` makes of it.

**Only model-checked:** everything under fairness (`EveryCallServed`, `ClientsCatchUp`,
`ImplementsFairBroadcast`, `FinishStopsOrLocksTwice`, `EveryValueArrives`,
`EveryCallReturns`, `ChangesArrive`, `EverybodyGetsDone`), which is out of the prover's
reach. `DrawsThePicture` and `DecodesOrStops` compare a program with a reference definition,
and both recurse over data: an induction the prover cannot do. `IInv` of the three first
modules and the facts that the prover establishes of every instance (`TypeOK`, `ViewsAgree`,
`LockInv` and others) are not checked a second time by a run.

## 7. Where the code disagrees with its own tests, texts and comments

1. **hw7, `service.go:120`.** `notifyStreams` holds `i.mu` and locks it again when a
   stream's client has gone. That call and all later ones block, and so does
   `as.Close()`; the port is never freed. (`ms_port_not_freed`)
2. **hw7, `admin_service.go:80`.** A Statistics handler does not notice that its stream
   was closed; it ticks until its client leaves. (`ms_statistics_never_ends`)
3. **hw7, `admin_service.go:25`.** `Close` sets its own pointer to nil, not the shared
   slice; a call authorised before the stop panics. (`ms_panic_on_stop`)
4. **tagged cache, `cache.go:96`.** The result of `lockRebuild` is ignored: who does not
   get the lock rebuilds too, and deletes the holder's lock. (`tcache_one_rebuild`)
5. **hw5, `codegen.go:153`** and its output, `api_handlers.go:60` and `:110`. hw5.md:29
   defines `max` as "<= X", and the message of a refusal is "age must be <= 128"
   (`main_test.go:212`), but 128 is refused with it. The tests try 256. (`api_max`)
6. **hw6, `db_explorer.go:314`.** hw6.md:28 has unknown fields ignored, and :26 an error
   answered with 500. A `POST` with a null for an unknown field dereferences a nil column,
   and with another value for it names it in the `UPDATE`, which the database refuses.
   The same two lines are disregarded where a body cannot be read (`:217`, `:283`: 400,
   and then on to the statement and a second answer), where a `PUT` has the body `null`
   (`:227`: a write to a nil map), and after a failed `DELETE` (`:352`: a nil result).
   `AnswersAsDocumented` denies all of these, and `AnswersAreTrue` shows that there are no
   others and what they leave behind. (`db_as_documented`)

Also seen. These are modelled as they are, and the properties name them as exceptions where
they would break something, which bounds them and does not catch them:

- hw7: when the port is taken, `StartMyMicroservice` closes the nil listener, and panics
  before it can return the error (`service.go:20`).
- Tagged cache: an invalidation between reading the data and reading the tags stores old
  data under fresh tags (`late`), and a missing tag is started with an unconditional `Set`
  from a clock read earlier, which can bring back a value that items invalidated before
  were stored with (`revived`).
- hw5.md:28 has `min` compare a string's `len(str)`; the template counts runes
  (`codegen.go:158`), which is what `Measure` does.
- hw3: a browser whose name has both Android and MSIE counts only as Android in
  `FastSearch`; a file that ends in a newline makes `SlowSearch` panic.
- hw4: `OrderByAsc` and `OrderByDesc` are the other way round than their comment; a limit
  of 0 is accepted though the error says it must be more.
- Sessions: `service1` and `service2` store outside the mutex; a failed `Create` over
  net/rpc is a nil id with a nil error, which the page dereferences; concurrent handlers
  share one redis connection. CRUD over gorm: an `Update` of an id that is not there, or
  whose `Find` failed, creates a row; `Delete` of id 0 deletes all.
- Resolver: a target without a port becomes `127.0.0.18500`, and a query that fails is
  printed and then its nil result dereferenced (`consul.go:87`); no query returns at once
  before consul's index has passed 10.
- Resizer: a size that fails is logged and the task acknowledged; a `Publish` that is lost
  leaves an image that nobody resizes, though the page said it was successful.
- `race_3` prints its map without the lock that its goroutines take; the metrics program
  labels its two sums the wrong way round.

## 8. Not modelled

- Formatting, JSON, `strconv`, logging and the texts of errors.
- hw7: an event's timestamp (it is taken before the lock, and nothing relates the two
  orders); the race of `Serve` in its goroutine with a `GracefulStop` that comes at once
  (`srv` serves from the end of `Start`); gRPC's transport below `Send` and `Recv`.
- hw2: the second that `DataSignerCrc32` sleeps: time is only the order of steps.
- Tagged cache: `GetMulti` is one step, as it is on one server; the three seconds of the
  lock and the expiry of items are "at any moment"; a lost answer of a request whose
  error is ignored is the same as success and has no action. The result of a Delete, of
  the last Set and of `checkLock`'s Get is ignored by the code, so a failure and a lost
  answer differ only in memcached, and both are there.
- hw6: paging (`limit`, `offset`) and the scanning of values into JSON. CRUD: `List` and
  the empty form, which change nothing. Middleware: `pageWithAllChecks`, which has no
  route. Resizer: a task that does not decode, since all that are published do.
- gRPC's own round-robin balancer, consul, RabbitMQ, redis, memcached and the databases are
  external: modelled by what the code relies on.
- As committed, `tcache/main.go`, `redis/main.go`, `redis/session.go`, `service2/session.go`
  and hw5's `api_handlers.go` do not compile (names without their package or receiver, a
  missing comma); they are read with what is missing put back.
- The remaining programs: timers, tickers and `Gosched` demos show a library's own
  behaviour; http, template, JSON, reflection, websocket, bot and streaming demos and the
  mains behind net/rpc, JSON-RPC, gRPC and the gateway call a library once or in a loop and
  keep no state; SQL injection compares two strings; exporters count in a library; profiling,
  cgo and unsafe demos are about the tool chain. Generated and vendored code is not the
  repository's own.
