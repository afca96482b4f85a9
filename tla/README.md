# gomatch in TLA+

TLA+ models of gomatch, the limit order book matching engine that runs as an Aeron
Cluster service, with its Go and Java implementations, client, load generator and
system test harness. TLC checks the models on small instances; TLAPS proves the main
properties of the engine, the cluster, the load generator and the harness for every
instance.

Paths below are relative to the repository. `PROJECT.json` maps each definition to
the lines it models and lists every run, hazard, finding and theorem.

## The system and its parts

| Part | Code | Modules |
|---|---|---|
| Matching engine: accept, match, rest, cancel, events | `go/engine/order_book.go`, `events.go` | `Book`, `OrderBook`, `Engine` |
| Price level search inside it | `go/engine/order_book.go` (`levelIndex`) | `LevelSearch` |
| What it promises: price-time priority | (abstract) | `PriceTimePriority` |
| The event stream, as a client reads it | `go/engine/events.go`, `order_book.go` | `ClientViews` |
| Linked queues, maps and levels; the Java engine | `go/engine/order_book.go`, `javamatch/engine/OrderBook.java` | `LinkedBook` |
| Snapshot format | `go/engine/snapshot.go` | `Snapshot`, `Recovery` |
| Clustered service (Go) | `go/service/service.go` | `MatchingService`, `Cluster` |
| Aeron Cluster: log, elections, sessions, egress | external | `Cluster` |
| Clustered service (Java) and its snapshots | `javamatch/service`, `javamatch/engine/Snapshots.java` | `Twins` |
| SBE codecs (Go) | `go/protocol/codecs` | `Wire` |
| Client (Go) | `go/client` | `Wire`, `LoadGen`, `FlowControl` |
| Back pressure between clients and service | `go/client/client.go`, `go/service/service.go` (`offer`) | `FlowControl` |
| Load generator (Go) | `go/cmd/loadgen/main.go` | `LoadGen` |
| System test harness (Go) | `go/systest/harness.go` | `Harness` |
| Client and load generator (Java), `main` programs, Java test harness, benchmark infrastructure | | not modelled, see the end |

A client encodes `NewOrder` and `CancelOrder` and offers them to the cluster. The
cluster puts them in one replicated log. Every node's service is called for every
entry, in order; it decodes the frame, calls the engine, and routes the events:
execution reports to the session that owns the order, trades and book updates to
all sessions. Only the leader's offers go out. On request each node writes a
snapshot of its book, from which it starts again after a crash. The Go and the
Java service are meant to be interchangeable, on the wire and in snapshots.

## How the modules fit together

```
 PriceTimePriority   <--implements--  OrderBook  <--implements--  LinkedBook
                                        | extends Book
              ClientViews, Recovery ----+
              Recovery: whole commands of OrderBook = functions of Engine;
                        Snapshot restores every reachable book
 Engine, Snapshot --> MatchingService --> Cluster
                                     \--> Twins
 Wire, FlowControl, LoadGen, Harness, LevelSearch   stand alone

 proofs:  BookLemmas --> BookProofs --> EngineProofs, OrderBookProofs
          ClusterLemmas --> EgressLemmas
          EngineProofs, OrderBookProofs, EgressLemmas --> RecoveryProofs
                                             (Recovery, LevelSearch and Cluster)
          TestbedProofs (LoadGen and Harness)
```

**Slices** has what Go does with slices (insertion, removal, appending one to another, a loop run a
number of times), without recursive operators, so that it can be reasoned about.

**Book** holds the data and the pure operations: a book is a record with the price
levels of each side, best first, each a price, a queue of order ids and an aggregate,
the map `orders`, and `nextOrderId`. Aggregates are added with the wrap-around of a
two's complement integer, whose width is set by `MaxInt64`. A Go pointer to an order
becomes its id, and the doubly linked queue a sequence. `clientOrderId` is left out,
since the engine only hands it back; `Wire` and `LoadGen` have it.

**OrderBook** is the engine as a state machine. A command that is rejected, and a
cancel, is one step. An accepted `NewLimitOrder` is several: it is accepted
(`AcceptOrder`), each turn of the inner loop of `match` is one step (`MatchBest`),
and the rest of the command, resting and book updates, is the last
(`FinishOrder`). Invariants are thus checked in the middle of commands too, although
no other command can run there. `events` is what the command has emitted so far.

**PriceTimePriority** is the abstract specification: a plain set of resting orders,
no levels, queues, map or aggregates. A trade takes from an order that no other
precedes by price, then by id; what is left rests only when nothing can be traded.
`ImplementsPriority` maps the book's order map to that set. It has no trade prices: that a
trade is at the price of the resting order, and for what that order loses, is
`OnlyTradedOrCanceled`.

**ClientViews** adds to OrderBook two readers who know only the events: one keeps
market depth from `BookUpdate`s, one keeps open orders from `ExecutionReport`s.

**LevelSearch** is `levelIndex` alone, one probe per step, on every sorted slice, for
both directions.

**LinkedBook** replaces sequences by the heap: order and level records with `prev`,
`next`, `head`, `tail` and level references, and the price maps of
`OrderBook.java`. Its `unlink` has the branches of the code. It is shown to implement
`OrderBook` by walking the lists.

**Engine** has whole commands as functions of the book (`match` is its `turn`, which leaves a
finished command alone, taken as often as there are orders: that this is always enough is
proved). **Snapshot** has the header and order records, in the order the code writes
them, and the restore that rests them one by one. **Recovery** ties both to the state
machine: `CommandsAreFunctions` says that the steps of each command end where the
function of `Engine` does, with the same events.

**MatchingService** has the handlers of `service.go`: sessions (map and list), decoding
with its range checks and drops, routing, encoding with the panic of `mustEncode`,
and snapshots in chunks. **Cluster** runs it on several nodes over the log. What
is Aeron's is external and taken from how the service uses it; the header of the
module lists what is assumed. A node may crash between two calls and also in the middle
of `route`, with some frames offered. It restarts from its snapshot in one of two ways: as a whole
(`StartNode`), when the cluster opens the sessions of the snapshot again, or its service container
alone (`StartRestored`), when it does not, which is the known limitation of `go/README.md:38-42`.
A handler that panics ends the process; it is restarted like one that crashed.
`ideal` is a history variable: a single service that handles every entry and never fails.

**Twins** runs the Go and the Java service side by side, with the same calls, and
may swap them: each restarts from the other's snapshot. Both have the same engine
there (`linked_engine` covers the Java data structures); decoding, routing, encoding
and the snapshot code are those of each.

**Wire** has frames as bytes, little-endian, `Encode`, `Decode` and `RangeCheck` of the
five messages, and both ends of both directions, with frames that are cut, of another
schema or of an unknown template. A message may also come from a program built with a
later schema version: its block is longer, its enumerations may have values this
version does not know, and the range check of enumerations is skipped for it, as in
`Side.go`. `Twins` has a message of a later version too, with a side that is known.

**FlowControl** is the pair of loops that wait for each other: a client's `offer` retries while
ingress is full, the service's `offer` retries while that client's egress window is full and
takes no command meanwhile. The client polls inside its loop, which is what keeps
the two from waiting for good. Clients may time out, and close in the middle of anything.

**LoadGen** is the loop of the load generator on a clock: schedule, registration,
`SubmitOrder` with its offer loop and deadline, polling, the collector, the drain. The
cluster may refuse an offer, report several times or lose reports.

**Harness** is the system test harness: the test's goroutine (`launchDriver`, `Shutdown`, `Restart`,
`Stop`, the engine runner), per launch the goroutine that forks the driver and waits for it on a
locked thread, the driver processes, and the parent-death signal, which the kernel sends when the
*thread* that forked the process ends. The test process may die at any time. What a test does between
starting and stopping its engine is left out, `ClusterTool` included: it runs a command and waits for it
without a time limit (`harness.go:283`), so that `TestEnds` says nothing of a test that hangs there.

## Runs

`MC*` modules give the sets of messages and symmetry. State counts are distinct states.

| Run | Checks | States |
|---|---|---|
| `engine` | `TypeOK`, `LevelsSorted`, `QueuesMatchOrders`, `QueuesInArrivalOrder`, `NotCrossed`, `TotalsMatchQueues`, `TakerAccounted`, `TradesWithinLimit`, `OnlyTradedOrCanceled`, `CommandsAreFunctions`, `SnapshotRestoresBook` | 95,197 |
| `engine_promises` | `DepthIsExact`, `OpenOrdersAreExact`, `ImplementsPriority`, `CommandCompletes` | 20,407 |
| `level_search` | `SearchCorrect`, `SearchEnds` | 6,144 |
| `linked_engine` | `PointersSound`, `ImplementsBook` | 102,138 |
| `cluster` | `BooksFollowLog`, `EgressAtMostOnce`, `SessionsFollowLog`, `PanicsFollowLog`, `SnapshotsExact`, `CatchesUp` | 75,368 |
| `twins` | `TwinsAgree`, `TwinsSendTheSame` | 31,897 |
| `wire` | `CommandsArrive`, `ReportsArrive` | 515,526 |
| `flow_control` | `FramesKept`, `CommandsFinish`, `OffersEnd` | 33,740 |
| `loadgen` | `CountedOnce`, `StallsCount`, `Finishes` | 56,974 |
| `harness` | `OneDriverPerDirectories`, `NoStrayTermination`, `NothingLeft`, `TestEnds`, `NotStranded` | 1,566 |
| `cluster_panic`, `cluster_truncated` | one property each, violated: see Findings | |

**Bounds, and why they reach the interesting cases**

- `engine`: three accepted orders, prices 1 to 3, so that a level can be inserted between two others,
  quantities 0 to 2 (0 is rejected), and three sides: buy, sell and the null side, which the
  decoder lets through. An order can sweep two levels or two orders of one level, or
  fill one and rest with what is left; orders of the null side rest among the others. A side that only a
  later schema version knows is the same to the engine; it is not in this run, and the proofs cover it. Integers
  go from -4 to 3, so aggregates wrap from two orders of 2 on. Owners are interchangeable
  (symmetry). `engine_promises` (which has price 0 too) and `linked_engine` have four orders, so that a queue
  can hold three with a cancel in the middle while a fourth trades.
- `linked_engine`: one owner, since the links do not depend on owners; that a cancel by another owner is
  rejected is checked in `engine`.
- `engine_promises`: one owner, since owners do not matter to matching; integers wide
  enough not to wrap. Where they wrap (`MaxInt64 = 3`) `DepthIsExact` does not hold: the
  aggregate of a level is an int64 without a bound, and past its limit a book update
  shows a negative total, or 0 for a level that is still there.
- `level_search`: every slice of up to six levels over seven prices, so that every
  position, present or absent, at every depth of the search occurs.
- `cluster`: two nodes, a session and one that opens late, four log entries, one
  crash. It has room for a sale, a snapshot, and after a restart from it a trade with the sale that was
  restored; for a trade between the sessions; and for a session that opens on one side of a snapshot or
  crash and closes on the other; with the leader changing at any point. Messages are a sale, a smaller
  purchase and, from the late session, an order with the null side; offers to the late session may fail for
  good. Integers go from -4 to 3, so that two sales of 2 at one price make an aggregate that is the null
  value: ids, prices and quantities can be encoded, that aggregate cannot. Nodes are not declared symmetric, as a liveness property is checked.
- `twins`: six calls, on messages whose fields have values, one of them of schema version 2. With null values the services
  differ, and with such messages added TLC finds both properties violated: an
  order with the null side passes the Go range check and reaches the engine, while the Java
  service drops the frame; a quantity of the minimum int64 is dropped by the Go service
  without a report and rejected with one by the Java service. They differ as well on a side
  only a later version knows, and on a frame that lacks only bytes of a later version's own
  fields, which Go takes and Java drops.
- `wire`: three frames in either direction, with values that are
  negative, several bytes long, at the limit, or null; all fields of one message differ.
  Schema versions 1 and 2.
- `flow_control`: two clients with two commands each, room for one command and for two
  frames, so that both kinds of queue fill up; one timeout.
- `loadgen`: two orders at a rate of one per tick, two reports each, stalls up to two
  ticks. Open loop (`Interval = 0`) is the same code with the wait skipped.
- `harness`: three launches, hence two restarts: the second is the first that follows a restarted
  driver.

**Deadlock** is checked except where the program ends (`level_search`, `loadgen`, `harness`) and
where the service is idle once the bound on calls or frames is used up (`twins`, `wire`,
`flow_control`).

**Fairness**

- `OrderBook!Fairness`: weak fairness of the two steps inside a command, which is
  sequential code. None of commands: clients need not send any.
- `LevelSearch`: weak fairness of the probe, for the same reason.
- `Cluster!FairSpec`: for each node, weak fairness of "handle the next entry, or start
  again after a crash or a panic". The container calls the service for every entry, and a
  supervisor restarts the process; crashes are bounded, panics are not. Nothing is assumed of
  clients, elections or snapshots. The formula spells out when a handler is due.
- `FlowControl!FairSpec`: the service thread runs; a client inside `offer` goes round its loop, and
  polls between commands, as the callers of the client do. No client is obliged to
  submit, close or time out. A client that stays connected and never polls would hold up
  the service for as long: its loop has no deadline.
- `Harness!Fairness`: goroutines are scheduled, time limits pass, and a process told to terminate
  does. A driver need not get ready, nor an engine stop.
- `LoadGen!FairSpec`: time passes and the thread runs; the cluster owes nothing.

Each property has a mutant in `PROJECT.json`: a definition changed as a plausible bug would
change it, with which the run finds the property violated. They stand in the modules, marked
`Mutant`, before the definition they replace.

## Proofs

The modules `*Proofs` and `*Lemmas` hold the proofs. They are good for any owners, prices,
quantities, number of orders, integer width, nodes, sessions, messages, log length, number of crashes,
schedules and launches, from these assumptions on constants only:

- `MaxInt64` is a positive integer (`MaxIntAssumption`);
- sides are among `Buy`, `Sell`, `Null` and `Unknown`, prices and quantities are integers, the bound on
  ids is a natural number (`SidesAssumption`, `PricesAssumption`, `QuantitiesAssumption`,
  `BoundAssumption`), and prices searched are integers (`SearchAssumption`);
- the sessions there at first are a sequence of distinct ids, as Aeron gives each session its own
  (`SessionsAssumption`); the decoder gives out integers (`MessagesAssumption`); no node is the value
  that stands for "no leader" (`NodesAssumption`);
- the bound on launches is positive (`LaunchesAssumption`) and the load generator's parameters are
  natural numbers (`LoadGenAssumption`).

| Theorem | States |
|---|---|
| `TypeCorrect` | `Spec => []TypeOK` |
| `SortedAlways` | levels stay strictly sorted, best first: what binary search needs |
| `QueuesAndMapAgree` | every queued id is in the map, with the level's price and side, and every mapped order is in exactly its queue; no level is empty |
| `TimePriority` | every queue is in order of arrival |
| `NeverCrossed` | no resting buy order is priced at or above a resting sell order, in the middle of commands too, whatever orders of odd sides rest around them |
| `PriorityImplemented` | OrderBook implements PriceTimePriority |
| `ChangedByTradesAndCancels` | a resting order changes only by a reported trade, at its own price and for exactly what it loses, or leaves by a reported cancel; only the remainder of an order enters, with an id that was not in the book |
| `TradesStayWithinLimit` | the trades of one command get no better for the taker, never pass its limit, and each is with an older order |
| `AggregatesAreSums` | the aggregate of every level is the sum of what its orders have left, as an int64 holds it, wrapped or not |
| `QuantityConserved` | what an order asked for is what it traded plus what it has left, however many orders it met |
| `FunctionsStandForCommands` | a command taken turn by turn ends with the book and the events of the function that `MatchingService`, `Cluster` and `Twins` use |
| `RecoveryIsExact` | every book the engine can have between commands comes back from its snapshot |
| `BinarySearchCorrect` | `levelIndex` returns the level or the insertion point |
| `ReplicasAgree` | every node's book is the one its part of the log gives, through crashes, snapshots and restarts |
| `NoPartialRestore` | whatever is left of a snapshot whose writing failed, it is refused or gives back the whole book |
| `SessionsServed` | a node serves exactly the open sessions, each once, in the order they opened in, also after a restart of the whole node; after a restart of its service container alone, those opened since the snapshot |
| `EgressOnce` | what a session got is part, in order, of what one service that never failed would have sent: nothing is repeated or reordered by replay, by a change of leader or by a crash inside `route` |
| `PanicsAreShared` | a command that cannot be encoded stops every node that gets to it, at each replay, whoever leads and whichever sessions are known; nothing else panics but the restore of a truncated snapshot |
| `CountedOnceAlways`, `StallsAlwaysCount` | the load generator counts each order once, from its place in the schedule, so that a stall shows in the latencies |
| `OneDriverAlways`, `TerminatedOnPurpose`, `NothingLeftBehind` | the harness never has two drivers over its directories, none is terminated by the end of a thread, none is left |

**The argument.** None of these is inductive by itself. Sortedness of a slice after an
insertion needs the index of the insertion; that a queue stays in order of arrival needs
every resting id to be below the next one; that the head of the best level is
what priority demands needs sortedness, the agreement of queues and map, and the order of
queues together. The invariant `IInv` conjoins types, `WellFormed(book)` (all
structural facts), `OrdersBelow` (every resting id is below the
taker's while it matches, else below `nextOrderId`), the book not being crossed, and
what the locals of a command in progress satisfy.

`BookLemmas` has the facts on sequences (insertion and removal at an index, strictly sorted
sequences, sums along them), and shows that `unlink` and a change of a quantity keep a book well
formed; `BookProofs` shows the same of `restOrder`, a fill and a whole cancel, and what they do to
the map and to the aggregates. `OrderBookProofs` has one
lemma per action (`AcceptStep`, `MatchStep`, `FinishStep`, `CancelStep`, `QuietStep`), from
which `IInvNext` follows. For the refinement `HeadHasPriority` shows that the order
`MatchBest` picks has priority among all, `MatchIsExchange` and `FinishIsRest` that
the steps map to abstract ones; all other steps are direct.
`PriorityImplemented` assumes that every order buys or sells: for other sides the code
does not keep priority. The other theorems hold with such orders as well.
For `TradesStayWithinLimit` `TInv` adds to `IInv` what the trades emitted so far have in common with
the best level that is left; for `QuantityConserved` `AInv` adds that taker and trades account for
the quantity. `ChangedByTradesAndCancels` follows from both for each step by itself
(`TradedStep`).

Sums, folds and walks are defined by recursion. What is proved of them is proved without an
induction theorem that takes an operator: a set of counterexamples among the natural numbers would
have a least element (`WFMin` of the library), which the step from one number to the next excludes. This
is stated once, for a set (`Stepwise`, `Upwards`), and recursive functions are unfolded one step at
a time.

`EngineProofs` shows that `match` ends, since every turn removes an order or finishes the command, and
that the whole command keeps `GoodBook`; that the stream of a snapshot lists every order once, level by
level; and that resting a listing order by order rebuilds the book: two well-formed books with the same
orders are equal (`SameBook`), as the queues, being in order of ids, and the levels, being sorted, leave no
choice. A stream that is cut short is refused because its header says how many records follow.
`RInv` in `RecoveryProofs` says of a command in progress what its function will have returned.

`SearchInv`, in `RecoveryProofs` too, says that levels below `lo` rank before the price and
those from `hi` on after it, until the level itself is found.

`EInv` in `EgressLemmas` is the invariant of the cluster. It has four parts, the first of which
`ClusterLemmas` proves. They need of the engine only `EngineSound`, the contract that its functions keep books sound, return lists of events
and restore what was written; `RecoveryProofs` derives it from `EngineProofs` and concludes.

- `CInv` says of every node that its book is `BookAt` its position, of every snapshot that it was
  written from `BookAt` the position it is filed under, and of the history variable that each entry's
  book comes from the one before. The point is that the book after a message depends on the book and the
  message alone, and not on the sessions known, on who leads or on which offers fail (`BookIsEnough`).
- `SInv` says of every node that its map and its list of sessions are those opened after the position it
  started from and not closed since, in order (`Serving`), and that the log opens each session once.
- `Recorded` says the same of the ideal service, with everything from the first entry on, and that its
  offers for a message are those of `route`.
- `Sent` says that what a session got is part of the frames that the ideal service sent for the entries
  up to the leader's position, or up to the end of the log when there is no leader (`top`). It rests on a
  node that forgot sessions making some of the offers of one that did not (`RoutePart`, `KnowsMore`), on a
  crash inside `route` leaving a first part of them, and on a new leader having handled the whole log, so that no
  entry's offers are made twice by leaders.

"Part of" is the existence of an increasing map of indices (`PartOf`); `PartIsFound` shows that the
greedy `IsPartOf` of the property finds it.

`PanicsFollowLog` is inductive once `CInv` is there (`Unharmed` is what it says of one node): as the events
of a command depend on the book alone, a node panics on an entry just when the ideal service could not
have encoded its events.

`LInv` ties the latencies, the open orders and the schedule of the load generator together:
an order is open from its registration to its first report. `HInv` says which launch may
have a process at each place of the test's goroutine, and what a process, its
thread and its channel know of each other.

**Only model-checked.** Liveness (`CommandCompletes`, `SearchEnds`, `CatchesUp`, `CommandsFinish`,
`OffersEnd`, `Finishes`, `TestEnds`, `NotStranded`) is outside the prover's fragment. Of the safety
properties these have no proof:

- `DepthIsExact` holds on the instance checked and not in general: an aggregate that wraps breaks it
  (see Bounds). `NoPanic` does not hold (see Findings).
- `OpenOrdersAreExact` needs the events of a whole command as a fold over the reader's orders, and
  `PointersSound` and `ImplementsBook` need induction along linked lists, on top of a heap that changes.
- `CommandsArrive` and `ReportsArrive` are about bytes: division and remainder by powers of 256 are
  beyond the provers here.
- `TwinsAgree` and `TwinsSendTheSame` hold for messages without null values and would have to be stated
  for those only, and need the round trip through the Java snapshot as well.
- `FramesKept` compares filtered sequences over queues of several clients.

## Findings

Where the code does something else than a text in the repository says. Quotes with their
places are in `PROJECT.json`.

- `cluster_panic`: a level's aggregate wraps past 2^63. When it becomes exactly the minimum int64,
  the null value of the schema, the book update cannot be encoded and `mustEncode` panics, on every
  node, and again on replay. `PanicsFollowLog` says that no node gets past such a command. There is a
  second way to it, which the run does not take: an order of a later schema version with a side that this version does
  not know passes the check on the way in (`Side.go:35`) and is refused on the way out (`Side.go:44`).
- `cluster_truncated`: a failed offer of a snapshot chunk is logged and `OnTakeSnapshot`
  returns normally. The truncated snapshot counts, and cannot be restored.

## Abstractions and omissions

- Integers are scaled: `MaxInt64` is a parameter, and its least value minus one is the
  null value, as in the schema.
- Snapshots are sequences of records; bytes within a record are left out. Failed
  chunk offers cut the sequence at a chunk's boundary.
- Which sessions' offers fail is the same throughout one command.
- A session's place in the log stands for consensus; the client's ingress is part of it. In
  `FlowControl` one queue stands for all of that.
- In `Wire` a frame holds one message, so what a decoder leaves unread of a longer block
  makes no difference.
- Every select with a time limit in `Harness` may take either branch.
- `MatchingService` has no `clientOrderId`: that it passes the range check is part of a message being
  `complete`; `Wire` has it field by field.

Met while modelling, and not the subject of a run:

- `nextBasePort` takes the instance modulo 6, so that the seventh driver of a test process has
  the ports of the first; the comment at `harness.go:51-54` says that distinct drivers within one
  test process never share ports. Ports are not modelled.
- A first launch that fails leaves its directories; `Stop` leaves the base directory with the log.
- When `startEngine` times out, its goroutine goes on, and a later panic in it is reported to a test
  that has ended.

Not modelled:

- Connecting to the cluster is Aeron's. The percentile report of the load generator is
  arithmetic on floats. The `main` programs only pass environment variables on.
- The Java client and load generator repeat the Go ones over codecs generated at
  build time (the Java client too polls inside its offer loop, `MatchClient.java:91`), and the Java test
  harness runs everything in one process. Terraform and Ansible have no state of the
  program.
- Attributes and generated types of the codecs that no code uses; the exception that ends
  Java's `onTakeSnapshot`.

## Plan

Done, in this order: engine and its proofs, abstract specification, search, client views,
linked structures, snapshots, service and cluster, load generator, twins, wire; later schema
versions, odd sides in the engine, crashes inside `route`, back pressure, the test harness,
proofs for trades, cluster, load generator and harness, then for sums,
whole commands, snapshots, sessions and egress.

To do:

1. A client that reconnects under a new session after a restart of the container, in `Cluster`; `ClusterTool` in `Harness`; the exception of `onTakeSnapshot` in `Twins`.
2. The Java client as a second end in `Wire`, the Java load generator as a second `LoadGen`.
3. Proofs: `OpenOrdersAreExact` from `IInv`; `PointersSound` of `LinkedBook`.
