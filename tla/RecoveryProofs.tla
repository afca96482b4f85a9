--------------------------- MODULE RecoveryProofs ---------------------------
(***************************************************************************)
(* The engine's functions stand for its state machine and a snapshot for   *)
(* its book, for every owner, side, price, quantity and integer width; so  *)
(* the cluster keeps its safety properties, for any nodes, sessions and    *)
(* messages and any number of entries and crashes: its steps are those of  *)
(* module EgressLemmas, and the engine keeps the contract they rest on.    *)
(***************************************************************************)
EXTENDS Recovery, LevelSearch, EngineProofs, OrderBookProofs, EgressLemmas

\* What match works on in the middle of NewLimitOrder.
work == [book |-> book, taker |-> taker, changed |-> changed, events |-> events]

\* The function's result is what the turns that are still to come lead to.
RInv ==
  /\ IInv
  /\ pc = "idle" => changed = << >> /\ due = [book |-> book, events |-> events]
  /\ pc = "match" => due = ended(match(work))

\* The steps of Recovery are the engine's.
LEMMA EngineSteps == [RecoveryNext]_recoveryVars => [Next]_vars
BY DEF RecoveryNext, Call, recoveryVars, Next, vars

\* The empty book.
LEMMA RInvInit == RecoveryInit => RInv
<1>1. Init => IInv
  BY IInvInit
<1>2. QED
  BY <1>1 DEF RecoveryInit, Init, RInv

\* In the middle of a command, match can go on.
LEMMA WorkWorks ==
  ASSUME IInv, pc = "match"
  PROVE  Working(work) /\ Cardinality(DOMAIN book.orders) \in Nat
<1>1. GoodBook(book, taker.id) /\ IsOrder(taker)
  BY OrderIs DEF IInv, Locals
<1>2. Working(work)
  BY <1>1 DEF Working, work
<1>3. QED
  BY <1>1, <1>2, FiniteOrders DEF GoodBook

\* NewLimitOrder up to its call of match.
LEMMA DueAccept ==
  ASSUME RInv, NEW owner \in Owners, NEW side \in Sides, NEW limit \in Prices,
         NEW qty \in Quantities, AcceptOrder(owner, side, limit, qty),
         due' = NewLimitOrder(book, owner, side, limit, qty)
  PROVE  due' = ended(match(work'))
<1> DEFINE o == newOrder(book, owner, side, limit, qty)
<1>1. limit \in Int /\ qty \in Int /\ limit > 0 /\ qty > 0
  BY PricesAssumption, QuantitiesAssumption DEF AcceptOrder
<1>2. due' = matchAndRest(book, owner, side, limit, qty)
  BY <1>1 DEF NewLimitOrder
<1>3. due' = ended(match(begun(book, o)))
  BY <1>2 DEF matchAndRest, ended, begun, newOrder
<1>4. /\ book' = [book EXCEPT !.nextOrderId = @ + 1] /\ taker' = o
      /\ changed' = << >> /\ events' = << Accepted(o) >>
  BY DEF AcceptOrder, RInv, newOrder
<1>5. work' = begun(book, o)
  BY <1>4 DEF work, begun
<1>6. QED
  BY <1>3, <1>5

\* A turn of match.
LEMMA DueMatch ==
  ASSUME RInv, MatchBest, due' = due PROVE due' = ended(match(work'))
<1>1. pc = "match" /\ crosses(book, taker) /\ due = ended(match(work)) /\ IInv
  BY DEF MatchBest, RInv
<1>2. Working(work) /\ work.book = book /\ work.taker = taker
  BY <1>1, WorkWorks DEF work
<1>3. work' = turn(work)
  BY <1>1 DEF MatchBest, work, turn
<1>4. match(turn(work)) = match(work)
  BY <1>1, <1>2, MatchTurn
<1>5. QED
  BY <1>1, <1>3, <1>4

\* NewLimitOrder after match.
LEMMA DueFinish ==
  ASSUME RInv, FinishOrder, due' = due PROVE due' = [book |-> book', events |-> events']
<1>1. pc = "match" /\ ~crosses(book, taker) /\ due = ended(match(work)) /\ IInv
  BY DEF FinishOrder, RInv
<1>2. work.book = book /\ work.taker = taker /\ work.changed = changed /\ work.events = events
  BY DEF work
<1>3. match(work) = work
  BY <1>1, <1>2, WorkWorks, MatchDone
<1>4. ended(work) = [book |-> book', events |-> events']
  BY <1>2 DEF ended, FinishOrder
<1>5. QED
  BY <1>1, <1>3, <1>4

\* The invariant is inductive: one step per action.
LEMMA RInvNext == RInv /\ [RecoveryNext]_recoveryVars => RInv'
<1> SUFFICES ASSUME RInv, [RecoveryNext]_recoveryVars PROVE RInv'
  OBVIOUS
<1>1. IInv'
  BY EngineSteps, IInvNext DEF RInv
<1>2. ASSUME NEW owner \in Owners, NEW side \in Sides, NEW limit \in Prices, NEW qty \in Quantities,
             RejectOrder(owner, limit, qty), due' = NewLimitOrder(book, owner, side, limit, qty)
      PROVE  RInv'
  <2>1. limit \in Int /\ qty \in Int
    BY PricesAssumption, QuantitiesAssumption
  <2>2. /\ pc = "idle" /\ pc' = pc /\ book' = book /\ changed' = changed
        /\ qty <= 0 \/ limit <= 0
        /\ events' = << Rejected(0, owner, IF qty <= 0 THEN "BadQty" ELSE "BadPrice") >>
    BY <1>2 DEF RejectOrder
  <2>3. due' = [book |-> book', events |-> events']
    BY <1>2, <2>1, <2>2 DEF NewLimitOrder, refuse
  <2>4. QED
    BY <1>1, <2>2, <2>3 DEF RInv
<1>3. ASSUME NEW owner \in Owners, NEW side \in Sides, NEW limit \in Prices, NEW qty \in Quantities,
             AcceptOrder(owner, side, limit, qty),
             due' = NewLimitOrder(book, owner, side, limit, qty)
      PROVE  RInv'
  <2>1. due' = ended(match(work'))
    BY <1>3, DueAccept
  <2>2. pc' = "match"
    BY <1>3 DEF AcceptOrder
  <2>3. QED
    BY <1>1, <2>1, <2>2 DEF RInv
<1>4. CASE MatchBest /\ UNCHANGED due
  <2>1. due' = ended(match(work'))
    BY <1>4, DueMatch
  <2>2. pc' = "match"
    BY <1>4 DEF MatchBest
  <2>3. QED
    BY <1>1, <2>1, <2>2 DEF RInv
<1>5. CASE FinishOrder /\ UNCHANGED due
  <2>1. due' = [book |-> book', events |-> events']
    BY <1>5, DueFinish
  <2>2. pc' = "idle" /\ changed' = << >>
    BY <1>5 DEF FinishOrder
  <2>3. QED
    BY <1>1, <2>1, <2>2 DEF RInv
<1>6. ASSUME NEW id, NEW owner, RejectCancel(id, owner), due' = Cancel(book, id, owner)
      PROVE  RInv'
  <2>1. due' = [book |-> book', events |-> events']
    BY <1>6 DEF RejectCancel, Cancel, refuse
  <2>2. pc = "idle" /\ pc' = pc /\ changed' = changed
    BY <1>6 DEF RejectCancel
  <2>3. QED
    BY <1>1, <2>1, <2>2 DEF RInv
<1>7. ASSUME NEW id, NEW owner, CancelOrder(id, owner), due' = Cancel(book, id, owner)
      PROVE  RInv'
  <2>1. due' = [book |-> book', events |-> events']
    BY <1>7 DEF CancelOrder, Cancel
  <2>2. pc = "idle" /\ pc' = pc /\ changed' = changed
    BY <1>7 DEF CancelOrder
  <2>3. QED
    BY <1>1, <2>1, <2>2 DEF RInv
<1>8. CASE UNCHANGED recoveryVars
  <2>1. work' = work /\ UNCHANGED <<book, pc, changed, events, due>>
    BY <1>8 DEF recoveryVars, work
  <2>2. QED
    BY <1>1, <2>1 DEF RInv
<1>9. QED
  BY <1>2, <1>3, <1>4, <1>5, <1>6, <1>7, <1>8 DEF RecoveryNext, Call

\* The invariant holds in every reachable state.
LEMMA RInvAlways == RecoverySpec => []RInv
BY RInvInit, RInvNext, PTL DEF RecoverySpec

\* A whole call of NewLimitOrder or Cancel, turn by turn, ends with the book and
\* the events of the function of the same name, which the service, the cluster
\* and the twins are modelled with.
THEOREM FunctionsStandForCommands == RecoverySpec => []CommandsAreFunctions
<1>1. RInv => CommandsAreFunctions
  BY DEF RInv, CommandsAreFunctions
<1>2. QED
  BY <1>1, RInvAlways, PTL

\* TakeSnapshot of any book the engine can have between commands is a stream that
\* RestoreOrderBook accepts and turns into that very book.
THEOREM RecoveryIsExact == RecoverySpec => []SnapshotRestoresBook
<1>1. RInv => SnapshotRestoresBook
  BY SnapshotRoundTrip DEF RInv, IInv, GoodBook, SnapshotRestoresBook
<1>2. QED
  BY <1>1, RInvAlways, PTL

-----------------------------------------------------------------------------
(* The binary search of levelIndex is correct on slices of every length. *)

\* Everything before lo ranks before the price, everything from hi on after it.
SearchInv ==
  /\ bs \in BookSides
  /\ price \in Int
  /\ Len(levels) \in Nat
  /\ \A j \in 1..Len(levels) : levels[j].price \in Int
  /\ SortedSlice(levels, bs)
  /\ lo \in 0..Len(levels) /\ hi \in 0..Len(levels) /\ lo <= hi
  /\ outcome \in {"loop", "found", "missing"}
  /\ \A j \in 1..lo : Before(bs, levels[j].price, price)
  /\ outcome # "found" => \A j \in (hi + 1)..Len(levels) : Before(bs, price, levels[j].price)
  /\ outcome = "found" => lo < Len(levels) /\ levels[lo + 1].price = price
  /\ outcome = "missing" => lo = hi

\* The search starts with nothing excluded.
LEMMA SearchInvInit == SearchInit => SearchInv
<1> SUFFICES ASSUME SearchInit PROVE SearchInv
  OBVIOUS
<1>1. PICK n \in 0..MaxLevels : levels \in [1..n -> [price : SearchPrices]]
  BY DEF SearchInit, SortedSlices
<1>2. Len(levels) = n /\ n \in Nat
  BY <1>1, SearchAssumption
<1>3. \A j \in 1..Len(levels) : levels[j].price \in Int
  BY <1>1, <1>2, SearchAssumption
<1>4. SortedSlice(levels, bs)
  BY DEF SearchInit, SortedSlices
<1>5. QED
  BY <1>2, <1>3, <1>4, SearchAssumption DEF SearchInit, SearchInv

\* Ranking is transitive.
LEMMA BeforeTrans ==
  ASSUME NEW s, NEW a \in Int, NEW b \in Int, NEW c \in Int, Before(s, a, b), Before(s, b, c)
  PROVE  Before(s, a, c)
BY DEF Before

\* A probe excludes only levels that rank on the wrong side of the price.
LEMMA SearchInvNext == SearchInv /\ [SearchNext]_searchVars => SearchInv'
<1> SUFFICES ASSUME SearchInv, [SearchNext]_searchVars PROVE SearchInv'
  OBVIOUS
<1>1. CASE Probe
  <2> DEFINE mid == (lo + hi) \div 2
             p   == levels[mid + 1].price
  <2>1. mid \in 0..Len(levels) /\ lo <= mid /\ mid < hi
    BY <1>1 DEF Probe, SearchInv
  <2>2. p \in Int
    BY <2>1 DEF SearchInv
  <2>3. UNCHANGED <<levels, price, bs>> /\ outcome = "loop"
    BY <1>1 DEF Probe
  <2> SUFFICES ASSUME
        \/ p = price /\ lo' = mid /\ outcome' = "found" /\ hi' = hi
        \/ p # price /\ (desc <=> p > price) /\ lo' = mid + 1 /\ hi' = hi /\ outcome' = outcome
        \/ p # price /\ ~(desc <=> p > price) /\ lo' = lo /\ hi' = mid /\ outcome' = outcome
               PROVE SearchInv'
    BY <1>1 DEF Probe
  <2> HIDE DEF mid
  <2>a. \A j \in 1..mid : Before(bs, levels[j].price, p)
    <3>1. SortedSlice(levels, bs) /\ mid + 1 \in 1..Len(levels)
      BY <2>1 DEF SearchInv
    <3>2. QED
      BY <2>1, <3>1 DEF SortedSlice
  <2>4. CASE p = price
    <3>1. lo' = mid /\ outcome' = "found" /\ hi' = hi
      BY <2>4
    <3>2. \A j \in 1..mid : Before(bs, levels[j].price, price)
      BY <2>4, <2>a
    <3>3. QED
      BY <2>1, <2>3, <2>4, <3>1, <3>2 DEF SearchInv, SortedSlice
  <2>5. CASE p # price /\ (desc <=> p > price)
    <3>1. lo' = mid + 1 /\ hi' = hi /\ outcome' = outcome
      BY <2>5
    <3>2. Before(bs, p, price)
      BY <2>2, <2>5 DEF SearchInv, Before, desc
    <3>3. \A j \in 1..(mid + 1) : Before(bs, levels[j].price, price)
      <4>2. \A j \in 1..mid : levels[j].price \in Int
        BY <2>1 DEF SearchInv
      <4>3. \A j \in 1..mid : Before(bs, levels[j].price, price)
        <5>1. price \in Int
          BY DEF SearchInv
        <5>2. QED
          BY <2>2, <3>2, <2>a, <4>2, <5>1, BeforeTrans, Zenon
      <4>4. QED
        BY <2>1, <3>2, <4>3
    <3>4. QED
      BY <2>1, <2>3, <3>1, <3>3 DEF SearchInv
  <2>6. CASE p # price /\ ~(desc <=> p > price)
    <3>1. lo' = lo /\ hi' = mid /\ outcome' = outcome
      BY <2>6
    <3>2. Before(bs, price, p)
      BY <2>2, <2>6 DEF SearchInv, Before, desc
    <3>3. \A j \in (mid + 1)..Len(levels) : Before(bs, price, levels[j].price)
      <4>1. SUFFICES ASSUME NEW j \in (mid + 1)..Len(levels)
                     PROVE  Before(bs, price, levels[j].price)
        OBVIOUS
      <4>2. CASE j = mid + 1
        BY <3>2, <4>2
      <4>3. CASE j # mid + 1
        <5>1. Before(bs, levels[mid + 1].price, levels[j].price)
          BY <2>1, <4>1, <4>3, SMTT(60) DEF SearchInv, SortedSlice
        <5>2. levels[j].price \in Int
          BY <2>1, <4>1 DEF SearchInv
        <5>3. price \in Int
          BY DEF SearchInv
        <5>4. QED
          BY <2>2, <3>2, <5>1, <5>2, <5>3, BeforeTrans, Zenon
      <4>4. QED
        BY <4>2, <4>3
    <3>4. QED
      BY <2>1, <2>3, <3>1, <3>3 DEF SearchInv
  <2>7. QED
    BY <2>4, <2>5, <2>6
<1>2. CASE Miss
  BY <1>2 DEF Miss, SearchInv, SortedSlice
<1>3. CASE UNCHANGED searchVars
  BY <1>3 DEF searchVars, SearchInv, SortedSlice
<1>4. QED
  BY <1>1, <1>2, <1>3 DEF SearchNext

\* When the search returns, the excluded parts leave one index.
LEMMA SearchInvCorrect == SearchInv => SearchCorrect
<1> SUFFICES ASSUME SearchInv, outcome # "loop" PROVE SearchCorrect
  BY DEF SearchCorrect
<1>1. inPlace(levels, price, bs, lo + 1)
  BY DEF SearchInv, inPlace, Before
<1>2. lo + 1 = levelIndex(levels, price, bs)
  BY <1>1, LevelIndexUnique DEF SearchInv
<1>3. outcome = "found" <=> found(levels, lo + 1, price)
  BY DEF SearchInv, found, Before
<1>4. QED
  BY <1>2, <1>3 DEF SearchCorrect

\* For every sorted slice, however long, and every price, the binary search
\* returns the index and the flag that Book's levelIndex and found stand for.
THEOREM BinarySearchCorrect == SearchSpec => []SearchCorrect
<1>1. SearchInit => SearchInv
  BY SearchInvInit
<1>2. SearchInv /\ [SearchNext]_searchVars => SearchInv'
  BY SearchInvNext
<1>3. SearchInv => SearchCorrect
  BY SearchInvCorrect
<1>4. QED
  BY <1>1, <1>2, <1>3, PTL DEF SearchSpec

-----------------------------------------------------------------------------
(* The cluster. *)

\* NewLimitOrder and Cancel leave sound books and lists of events, and a snapshot
\* that is complete restores its book, while one that is not is refused.
LEMMA EngineIsSound == EngineSound
<1>1. Sound(NewOrderBook)
  BY EmptyGood DEF Sound
<1>2. ASSUME NEW b, NEW owner, NEW side \in {Buy, Sell, NullSide, UnknownSide},
             NEW limit \in Int, NEW qty \in Int, Sound(b)
      PROVE  /\ Sound(NewLimitOrder(b, owner, side, limit, qty).book)
             /\ IsSeq(NewLimitOrder(b, owner, side, limit, qty).events)
  <2>1. GoodBook(b, b.nextOrderId)
    BY <1>2 DEF Sound
  <2>2. Sound(NewLimitOrder(b, owner, side, limit, qty).book)
    BY <2>1, NewLimitOrderGood DEF Sound
  <2> QED
    BY <2>1, <2>2, NewLimitOrderEvents
<1>3. ASSUME NEW b, NEW id, NEW owner, Sound(b)
      PROVE  Sound(Cancel(b, id, owner).book) /\ IsSeq(Cancel(b, id, owner).events)
  <2>1. Sound(Cancel(b, id, owner).book)
    BY <1>3, CancelLeavesGood DEF Sound
  <2> QED
    BY <2>1, CancelEvents
<1>4. ASSUME NEW b, Sound(b)
      PROVE  /\ RestoreOrderBook(TakeSnapshot(b)) = b
             /\ \A k \in 0..(Len(TakeSnapshot(b)) - 1) : ~readable(SubSeq(TakeSnapshot(b), 1, k))
  <2>1. WellFormed(b) /\ TotalsMatch(b)
    BY <1>4 DEF Sound, GoodBook
  <2>2. RestoreOrderBook(TakeSnapshot(b)) = b
    BY <2>1, SnapshotRoundTrip
  <2>3. \A k \in 0..(Len(TakeSnapshot(b)) - 1) : ~readable(SubSeq(TakeSnapshot(b), 1, k))
    BY <2>1, CutIsRefused
  <2> QED
    BY <2>2, <2>3
<1> QED
  BY <1>1, <1>2, <1>3, <1>4 DEF EngineSound

\* The inductive invariant of books, sessions and egress.
LEMMA EInvAlways == ClusterSpec => []EInv
<1>1. ClusterInit => EInv
  BY EngineIsSound, EInvInit
<1>2. EInv /\ [ClusterNext]_clusterVars => EInv'
  BY EngineIsSound, EInvNext
<1> QED
  BY <1>1, <1>2, PTL DEF ClusterSpec

\* Every node's book is the one that the log up to its position implies: service.go
\* takes nothing but the book and the entry into account, and crashes, restarts from
\* a snapshot and changes of the leader (OnStart, OnRoleChange) change neither.
THEOREM ReplicasAgree == ClusterSpec => []BooksFollowLog
<1>1. EInv => BooksFollowLog
  BY DEF EInv, CInv, BooksFollowLog, BookAt
<1> QED
  BY <1>1, EInvAlways, PTL

\* OnStart restores the book that OnTakeSnapshot wrote, or refuses what is left of
\* it when offers of chunks failed: it never goes on with a part of a book.
THEOREM NoPartialRestore == ClusterSpec => []SnapshotsExact
<1>1. EInv => SnapshotsExact
  BY EngineIsSound, ExactSnapshots DEF EInv
<1> QED
  BY <1>1, EInvAlways, PTL

\* Whatever crashes, restarts and snapshots came before, a node serves the sessions
\* that are open, each once and in the order they opened in, or, after a restart of
\* its service container alone, those of them that opened since the snapshot
\* (OnSessionOpen, OnSessionClose, OnStart).
THEOREM SessionsServed == ClusterSpec => []SessionsFollowLog
<1>1. EInv => SessionsFollowLog
  BY SessionsAre
<1> QED
  BY <1>1, EInvAlways, PTL

\* What a session gets of route's offers is always part, in order, of what one
\* service that never failed would have sent it: no replay, no restart, no crash in
\* the middle of route and no change of leader repeats or reorders a frame (route,
\* offer).
THEOREM EgressOnce == ClusterSpec => []EgressAtMostOnce
<1>1. EInv => EgressAtMostOnce
  BY EgressIsPart
<1> QED
  BY <1>1, EInvAlways, PTL

\* A command with an event that cannot be encoded makes every node panic that handles
\* it, at every replay, whoever leads and whatever sessions it serves, and nothing
\* else but a snapshot that is refused does (mustEncode, OnStart).
THEOREM PanicsAreShared == ClusterSpec => []PanicsFollowLog
<1>1. ClusterInit => PanicsFollowLog
  BY EngineIsSound, CInvInit, UnharmedInit DEF CInv
<1>2. EInv /\ PanicsFollowLog /\ [ClusterNext]_clusterVars => PanicsFollowLog'
  BY UnharmedNext DEF EInv
<1> QED
  BY <1>1, <1>2, EInvAlways, PTL DEF ClusterSpec
=============================================================================
