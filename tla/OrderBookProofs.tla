--------------------------- MODULE OrderBookProofs ---------------------------
(***************************************************************************)
(* The engine keeps its book sorted, consistent, in arrival order, not     *)
(* crossed and with its aggregates right, trades within the taker's limit, *)
(* accounts for every quantity, and implements price-time priority, for    *)
(* every set of owners, prices and quantities and every integer width.     *)
(***************************************************************************)
EXTENDS OrderBook, BookProofs

-----------------------------------------------------------------------------
(* The inductive invariant. *)

ChangedLevel == [side : BookSides \cup Sides, price : Nat \ {0}, totalQty : Int]

\* What the locals of NewLimitOrder are between commands and inside one.
Locals ==
  /\ pc \in {"idle", "match"}
  /\ pc = "idle" => taker = NoOrder
  /\ pc = "match" => taker \in Order /\ taker.id < book.nextOrderId
  /\ changed \in Seq(ChangedLevel)

\* Every resting order has an owner and a side that commands have.
FromCommands(b) == \A x \in DOMAIN b.orders : b.orders[x] \in Order

IInv ==
  /\ GoodBook(book, IF pc = "match" THEN taker.id ELSE book.nextOrderId)
  /\ FromCommands(book)
  /\ Locals

\* What commands carry makes an order.
LEMMA OrderIs == ASSUME NEW o \in Order PROVE IsOrder(o)
BY SidesAssumption DEF Order, IsOrder

\* The level that a fill records.
LEMMA FillLevelType ==
  ASSUME NEW b, WellFormed(b), NEW t \in Order, b.levels[OppSide(t.side)] # << >>,
         fillQty(makerOf(b, t), t) \in Nat
  PROVE  fillLevel(b, t) \in ChangedLevel
<1> DEFINE bs == OppSide(t.side)
           l  == b.levels[bs][1]
           fill == fillQty(makerOf(b, t), t)
<1>1. bs \in BookSides
  BY DEF OppSide, BookSides
<1>2. l \in Level
  BY <1>1 DEF WellFormed, IsBook
<1>3. l.price \in Nat \ {0} /\ l.totalQty \in Int
  BY <1>2 DEF Level
<1>4. fillLevel(b, t) = [side |-> bs, price |-> l.price, totalQty |-> Wrap(l.totalQty - fill)]
  BY DEF fillLevel
<1> HIDE DEF bs, l
<1>5. l.totalQty - fill \in Int
  BY <1>3
<1> HIDE DEF fill
<1>6. Wrap(l.totalQty - fill) \in Int
  BY <1>5, WrapInt
<1>7. QED
  BY <1>1, <1>3, <1>4, <1>6 DEF ChangedLevel

\* The empty book.
LEMMA IInvInit == Init => IInv
<1> SUFFICES ASSUME Init PROVE IInv
  OBVIOUS
<1>1. book = NewOrderBook /\ pc = "idle" /\ taker = NoOrder /\ changed = << >>
  BY DEF Init
<1>2. GoodBook(book, 1) /\ book.nextOrderId = 1 /\ DOMAIN book.orders = {}
  BY <1>1, EmptyGood DEF NewOrderBook
<1>3. QED
  BY <1>1, <1>2 DEF IInv, Locals, FromCommands

\* NewLimitOrder up to its call of match.
LEMMA AcceptStep ==
  ASSUME IInv, NEW owner \in Owners, NEW side \in Sides, NEW price \in Prices,
         NEW qty \in Quantities, AcceptOrder(owner, side, price, qty)
  PROVE  IInv'
<1>1. /\ pc = "idle" /\ pc' = "match" /\ changed' = changed
      /\ book' = [book EXCEPT !.nextOrderId = @ + 1] /\ GoodBook(book, book.nextOrderId)
  BY DEF AcceptOrder, IInv
<1>2. /\ GoodBook(book', book.nextOrderId) /\ book'.nextOrderId = book.nextOrderId + 1
      /\ book.nextOrderId \in Nat \ {0}
  BY <1>1, NextIdGood
<1>3. price \in Nat \ {0} /\ qty \in Nat
  BY PricesAssumption, QuantitiesAssumption DEF AcceptOrder
<1>4. taker' \in Order /\ taker'.id = book.nextOrderId
  BY <1>2, <1>3 DEF AcceptOrder, Order
<1>5. Locals'
  <2>1. taker'.id < book'.nextOrderId
    BY <1>2, <1>4
  <2>2. changed \in Seq(ChangedLevel)
    BY DEF IInv, Locals
  <2>3. QED
    BY <1>1, <1>4, <2>1, <2>2 DEF Locals, ChangedLevel, Order
<1>6. FromCommands(book')
  <2>1. book'.orders = book.orders
    BY <1>1, NextIdWellFormed DEF GoodBook
  <2>2. QED
    BY <2>1 DEF IInv, FromCommands
<1>7. QED
  BY <1>1, <1>2, <1>4, <1>5, <1>6 DEF IInv, FromCommands, Order

\* A fill leaves orders of commands.
LEMMA FillFrom ==
  ASSUME NEW b, NEW limit, GoodBook(b, limit), FromCommands(b), NEW t \in Order, crosses(b, t)
  PROVE  FromCommands(fillBest(b, t)) /\ less(t, fillQty(makerOf(b, t), t)) \in Order
<1> DEFINE m == makerOf(b, t)
           fill == fillQty(m, t)
           r == fillBest(b, t)
<1>1. WellFormed(b) /\ OrdersBelow(b, limit) /\ IsOrder(t)
  BY OrderIs DEF GoodBook
<1>2. m = makerOf(b, t) /\ fill = fillQty(m, t)
  OBVIOUS
<1> HIDE DEF m, fill
<1>3. /\ m.id \in DOMAIN b.orders /\ b.orders[m.id] = m
      /\ fill \in Nat /\ fill <= m.qty /\ fill <= t.qty
  <2>1. m.id \in DOMAIN b.orders /\ b.orders[m.id] = m
    BY <1>1, MakerRests DEF m, crosses
  <2>2. fill \in Nat /\ fill <= m.qty /\ fill <= t.qty
    BY <1>1, <1>2, FillWellFormed, Zenon
  <2>3. QED
    BY <2>1, <2>2
<1>4. r.orders = IF m.qty = fill THEN [x \in DOMAIN b.orders \ {m.id} |-> b.orders[x]]
                 ELSE [b.orders EXCEPT ![m.id] = less(m, fill)]
  BY <1>1, <1>2, FillWellFormed
<1> HIDE DEF r
<1>5. m \in Order
  BY <1>3 DEF FromCommands
<1>6. less(m, fill) \in Order /\ less(t, fill) \in Order
  BY <1>3, <1>5 DEF less, Order
<1>7. FromCommands(r)
  BY <1>3, <1>4, <1>6 DEF FromCommands
<1>8. QED
  BY <1>2, <1>6, <1>7 DEF r

\* One turn of match.
LEMMA MatchStep ==
  ASSUME IInv, MatchBest PROVE IInv'
<1>1. /\ pc = "match" /\ pc' = "match" /\ crosses(book, taker) /\ taker \in Order
      /\ taker.id < book.nextOrderId /\ changed \in Seq(ChangedLevel)
      /\ GoodBook(book, taker.id) /\ FromCommands(book)
      /\ book' = fillBest(book, taker)
      /\ taker' = less(taker, fillQty(makerOf(book, taker), taker))
  BY DEF MatchBest, IInv, Locals
<1>2. IsOrder(taker) /\ WellFormed(book) /\ OrdersBelow(book, taker.id)
  BY <1>1, OrderIs DEF GoodBook
<1>3. GoodBook(book', taker.id) /\ book'.nextOrderId = book.nextOrderId
  BY <1>1, <1>2, FillGood
<1>4. taker' \in Order /\ FromCommands(book')
  BY <1>1, FillFrom
<1>5. taker'.id = taker.id
  BY <1>1 DEF less, Order
<1>6. changed' \in Seq(ChangedLevel)
  <2>1. book.levels[OppSide(taker.side)] # << >>
    BY <1>1 DEF crosses
  <2>2. fillQty(makerOf(book, taker), taker) \in Nat
    BY <1>1, <1>2, FillOrders
  <2>3. fillLevel(book, taker) \in ChangedLevel
    BY <1>1, <1>2, <2>1, <2>2, FillLevelType
  <2>4. changed' = touch(changed, fillLevel(book, taker))
    BY DEF MatchBest
  <2>5. QED
    BY <1>1, <2>3, <2>4, TouchType
<1>7. QED
  BY <1>1, <1>3, <1>4, <1>5, <1>6 DEF IInv, Locals, FromCommands, Order, ChangedLevel

\* NewLimitOrder after match.
LEMMA FinishStep ==
  ASSUME IInv, FinishOrder PROVE IInv'
<1>1. /\ pc = "match" /\ pc' = "idle" /\ ~crosses(book, taker) /\ taker \in Order
      /\ taker.id < book.nextOrderId /\ GoodBook(book, taker.id) /\ FromCommands(book)
      /\ taker' = NoOrder /\ changed' = << >>
  BY DEF FinishOrder, IInv, Locals
<1>2. /\ IsOrder(taker) /\ WellFormed(book) /\ OrdersBelow(book, taker.id)
      /\ book.nextOrderId \in Nat
  BY <1>1, OrderIs DEF GoodBook, WellFormed, IsBook
<1>3. Locals'
  BY <1>1 DEF Locals
<1>4. CASE taker.qty > 0
  <2>1. book' = restOrder(book, taker)
    BY <1>4 DEF FinishOrder
  <2>2. GoodBook(book', book.nextOrderId) /\ book'.nextOrderId = book.nextOrderId
    BY <1>1, <1>2, <1>4, <2>1, RestGood
  <2>3. \A x \in DOMAIN book.orders : x < taker.id
    BY <1>2 DEF OrdersBelow
  <2>4. /\ DOMAIN book'.orders = DOMAIN book.orders \cup {taker.id}
        /\ book'.orders[taker.id] = taker
        /\ \A x \in DOMAIN book.orders : book'.orders[x] = book.orders[x]
    BY <1>2, <2>1, <2>3, RestWellFormed
  <2>5. FromCommands(book')
    BY <1>1, <2>4 DEF FromCommands
  <2>6. QED
    BY <1>1, <1>3, <2>2, <2>5 DEF IInv, FromCommands, Order
<1>5. CASE ~(taker.qty > 0)
  <2>1. book' = book
    BY <1>5 DEF FinishOrder
  <2>2. OrdersBelow(book, book.nextOrderId)
    <3>1. taker.id \in Nat /\ DOMAIN book.orders \subseteq Nat
      BY <1>2 DEF WellFormed, IsBook, IsOrderMap, IsOrder
    <3>2. QED
      BY <1>1, <1>2, <3>1 DEF OrdersBelow
  <2>3. GoodBook(book, book.nextOrderId)
    BY <1>1, <2>2, Zenon DEF GoodBook
  <2>4. QED
    BY <1>1, <1>3, <2>1, <2>3 DEF IInv, FromCommands, Order
<1>6. QED
  BY <1>4, <1>5

\* Cancel by the owner.
LEMMA CancelStep ==
  ASSUME IInv, NEW id, NEW owner, CancelOrder(id, owner) PROVE IInv'
<1>1. /\ pc = "idle" /\ pc' = pc /\ taker' = taker /\ changed' = changed
      /\ id \in DOMAIN book.orders /\ book' = unlink(withoutQty(book, book.orders[id]), id)
      /\ GoodBook(book, book.nextOrderId) /\ FromCommands(book)
  BY DEF CancelOrder, IInv
<1>2. GoodBook(book', book.nextOrderId) /\ book'.nextOrderId = book.nextOrderId
  BY <1>1, CancelGood
<1>3. book'.orders = [x \in DOMAIN book.orders \ {id} |-> book.orders[x]]
  BY <1>1, CancelWellFormed DEF GoodBook
<1>4. FromCommands(book')
  BY <1>1, <1>3 DEF FromCommands
<1>5. Locals'
  BY <1>1 DEF IInv, Locals, ChangedLevel
<1>6. QED
  BY <1>1, <1>2, <1>4, <1>5 DEF IInv, FromCommands, Order

\* A step that leaves the book and the locals alone.
LEMMA QuietStep ==
  ASSUME IInv, UNCHANGED <<book, pc, taker, changed>> PROVE IInv'
BY DEF IInv, Locals, FromCommands, ChangedLevel, Order

\* The invariant is inductive: one step per action.
LEMMA IInvNext == IInv /\ [Next]_vars => IInv'
<1> SUFFICES ASSUME IInv, [Next]_vars PROVE IInv'
  OBVIOUS
<1>1. ASSUME NEW owner \in Owners, NEW price \in Prices, NEW qty \in Quantities,
             RejectOrder(owner, price, qty)
      PROVE  IInv'
  BY <1>1, QuietStep DEF RejectOrder
<1>2. ASSUME NEW owner \in Owners, NEW side \in Sides, NEW price \in Prices,
             NEW qty \in Quantities, AcceptOrder(owner, side, price, qty)
      PROVE  IInv'
  BY <1>2, AcceptStep
<1>3. CASE MatchBest
  BY <1>3, MatchStep
<1>4. CASE FinishOrder
  BY <1>4, FinishStep
<1>5. ASSUME NEW id, NEW owner, RejectCancel(id, owner) PROVE IInv'
  BY <1>5, QuietStep DEF RejectCancel
<1>6. ASSUME NEW id, NEW owner, CancelOrder(id, owner) PROVE IInv'
  BY <1>6, CancelStep
<1>7. CASE UNCHANGED vars
  BY <1>7, QuietStep DEF vars
<1>8. QED
  BY <1>1, <1>2, <1>3, <1>4, <1>5, <1>6, <1>7 DEF Next

\* The invariant holds in every reachable state.
LEMMA Invariance == Spec => []IInv
<1>1. QED
  BY IInvInit, IInvNext, PTL DEF Spec

-----------------------------------------------------------------------------
(* What follows from it. *)

\* The book and the locals of NewLimitOrder keep their types: in particular no
\* resting quantity is ever negative and no level pointer dangles into a slice
\* of something else.
THEOREM TypeCorrect == Spec => []TypeOK
<1>1. IInv => TypeOK
  <2> SUFFICES ASSUME IInv PROVE TypeOK
    OBVIOUS
  <2>1. IsBook(book) /\ Locals
    BY DEF IInv, GoodBook, WellFormed
  <2>2. book.orders \in [DOMAIN book.orders -> Order]
    BY <2>1 DEF IInv, FromCommands, IsBook, IsOrderMap
  <2>3. QED
    BY <2>1, <2>2 DEF Locals, TypeOK, ChangedLevel
<1>2. QED
  BY <1>1, Invariance, PTL

\* Both slices are always strictly sorted, best price first, in the middle of a
\* command too: every binary search of levelIndex runs on a sorted slice.
THEOREM SortedAlways == Spec => []LevelsSorted
<1>1. IInv => LevelsSorted
  BY DEF IInv, GoodBook, WellFormed, LevelsSorted
<1>2. QED
  BY <1>1, Invariance, PTL

\* The order map and the queues of the levels hold the same orders at all times,
\* so unlink finds what it looks for and no level is left behind empty.
THEOREM QueuesAndMapAgree == Spec => []QueuesMatchOrders
<1>1. IInv => QueuesMatchOrders
  BY DEF IInv, GoodBook, WellFormed, OrdersBelow, QueuesMatchOrders
<1>2. QED
  BY <1>1, Invariance, PTL

\* Queues are in the order of acceptance.
THEOREM TimePriority == Spec => []QueuesInArrivalOrder
<1>1. IInv => QueuesInArrivalOrder
  BY DEF IInv, GoodBook, WellFormed, OrdersBelow, QueuesInArrivalOrder
<1>2. QED
  BY <1>1, Invariance, PTL

\* Orders to buy and orders to sell never cross, whatever other sides the orders
\* around them have.
THEOREM NeverCrossed == Spec => []NotCrossed
<1>1. IInv => NotCrossed
  BY DEF IInv, GoodBook, OrdersNotCrossed, NotCrossed
<1>2. QED
  BY <1>1, Invariance, PTL

\* The cached aggregate of a level is at all times the sum of what its orders
\* have left, in the arithmetic of its field: the fills of match, restOrder and
\* Cancel adjust it by exactly what they do to the queue.
THEOREM AggregatesAreSums == Spec => []TotalsMatchQueues
<1>1. IInv => TotalsMatchQueues
  BY DEF IInv, GoodBook, TotalsMatchQueues
<1>2. QED
  BY <1>1, Invariance, PTL

-----------------------------------------------------------------------------
(* The engine implements price-time priority. *)

\* Without the null side, the opposite slice holds exactly the orders of the
\* opposite side.
LEMMA OppositeOrders ==
  ASSUME Sides \subseteq BookSides, NEW b, FromCommands(b), NEW t \in Order
  PROVE  /\ t.side \in {"Buy", "Sell"}
         /\ OppSide(t.side) = PTP!Opposite(t.side)
         /\ \A x \in DOMAIN b.orders : BookSide(b.orders[x].side) = b.orders[x].side
<1>1. \A o \in Order : o.side \in {"Buy", "Sell"}
  BY Zenon DEF Order, BookSides, Buy, Sell
<1>2. \A x \in DOMAIN b.orders : b.orders[x] \in Order
  BY DEF FromCommands
<1>3. QED
  BY <1>1, <1>2 DEF OppSide, BookSide, PTP!Opposite, Buy, Sell

\* A turn of match is an exchange with the order that has priority.
LEMMA MatchIsExchange ==
  ASSUME Sides \subseteq BookSides, IInv, MatchBest
  PROVE  \E id \in PTP!Tradable : PTP!Exchange(id)
<1> DEFINE bs == OppSide(taker.side)
           m  == makerOf(book, taker)
           fill == fillQty(m, taker)
<1>1. /\ crosses(book, taker) /\ taker \in Order /\ WellFormed(book)
      /\ OrdersBelow(book, taker.id) /\ book' = fillBest(book, taker)
      /\ taker' = less(taker, fill) /\ FromCommands(book)
  BY DEF MatchBest, IInv, GoodBook, Locals
<1>0. IsOrder(taker)
  BY <1>1, OrderIs
<1>2. book.levels[bs] # << >> /\ bs \in BookSides /\ taker.qty > 0
  BY <1>1 DEF crosses, OppSide, BookSides
<1>3. /\ m.id = Head(book.levels[bs][1].fifo)
      /\ m.id \in DOMAIN book.orders /\ book.orders[m.id] = m
  BY <1>1, <1>2, MakerRests
<1>4. /\ taker.side \in {"Buy", "Sell"} /\ bs = PTP!Opposite(taker.side)
      /\ \A x \in DOMAIN book.orders : BookSide(book.orders[x].side) = book.orders[x].side
  BY <1>1, OppositeOrders
<1>5. m = makerOf(book, taker) /\ fill = fillQty(m, taker)
  OBVIOUS
<1>6. book'.orders = IF m.qty = fill
                     THEN [x \in DOMAIN book.orders \ {m.id} |-> book.orders[x]]
                     ELSE [book.orders EXCEPT ![m.id] = less(m, fill)]
  <2> HIDE DEF m, fill
  <2>1. QED
    BY <1>0, <1>1, <1>5, FillWellFormed, SMTT(60)
<1>7. book'.nextOrderId = book.nextOrderId
  <2> HIDE DEF m, fill
  <2>1. QED
    BY <1>0, <1>1, <1>5, FillWellFormed, Zenon
<1>8. crosses(book, taker) => /\ taker.side = Buy => book.levels[bs][1].price <= taker.price
                              /\ taker.side = Sell => book.levels[bs][1].price >= taker.price
  BY DEF crosses
<1>14. fill = IF m.qty < taker.qty THEN m.qty ELSE taker.qty
  BY DEF fillQty
<1> HIDE DEF bs, m, fill
<1>9. FirstInLine(book, bs, m.id)
  BY <1>1, <1>2, <1>3, HeadHasPriority
<1>16. m.price = book.levels[bs][1].price /\ BookSide(m.side) = bs
  BY <1>3, <1>9, Zenon DEF FirstInLine
<1>10. ASSUME NEW x \in DOMAIN book.orders, BookSide(book.orders[x].side) = bs
       PROVE  \/ Before(bs, m.price, book.orders[x].price)
              \/ m.price = book.orders[x].price /\ m.id <= x
  BY <1>3, <1>9, <1>10, Zenon DEF FirstInLine
<1>11. m.id \in PTP!Tradable
  <2>1. m.side = PTP!Opposite(taker.side)
    BY <1>3, <1>4, <1>16
  <2>2. IF taker.side = "Buy" THEN m.price <= taker.price ELSE m.price >= taker.price
    BY <1>1, <1>4, <1>8, <1>16 DEF Buy, Sell
  <2>3. QED
    BY <1>3, <2>1, <2>2, Zenon DEF PTP!Tradable
<1>12. \A other \in PTP!Tradable : PTP!HasPriority(m.id, other)
  <2> SUFFICES ASSUME NEW other \in PTP!Tradable PROVE PTP!HasPriority(m.id, other)
    OBVIOUS
  <2>1. other \in DOMAIN book.orders /\ book.orders[other].side = bs
    BY <1>4 DEF PTP!Tradable
  <2>2. \/ Before(bs, m.price, book.orders[other].price)
        \/ m.price = book.orders[other].price /\ m.id <= other
    BY <1>4, <1>10, <2>1
  <2>3. Before(bs, m.price, book.orders[other].price) =>
          IF taker.side = "Buy" THEN m.price < book.orders[other].price
          ELSE m.price > book.orders[other].price
    BY <1>4 DEF Before, Buy, PTP!Opposite
  <2>4. QED
    BY <1>3, <2>2, <2>3 DEF PTP!HasPriority
<1>13. PTP!Exchange(m.id)
  <2>1. taker # PTP!NoOrder
    BY <1>1 DEF Order, PTP!NoOrder
  <2>2. taker' = [taker EXCEPT !.qty = @ - fill]
    BY <1>1 DEF less
  <2>3. book'.orders = IF m.qty = fill
                       THEN [x \in DOMAIN book.orders \ {m.id} |-> book.orders[x]]
                       ELSE [book.orders EXCEPT ![m.id].qty = @ - fill]
    BY <1>3, <1>6 DEF less
  <2>4. QED
    BY <1>2, <1>3, <1>7, <1>12, <1>14, <2>1, <2>2, <2>3, Zenon DEF PTP!Exchange
<1>15. QED
  BY <1>11, <1>13

\* What remains rests only when nothing is left to trade with.
LEMMA FinishIsRest ==
  ASSUME Sides \subseteq BookSides, IInv, FinishOrder
  PROVE  PTP!Rest \/ PTP!Complete
<1>1. /\ ~crosses(book, taker) /\ taker \in Order /\ WellFormed(book) /\ FromCommands(book)
      /\ OrdersBelow(book, taker.id) /\ OrdersNotCrossed(book) /\ taker' = NoOrder
  BY DEF FinishOrder, IInv, GoodBook, Locals
<1>0. IsOrder(taker)
  BY <1>1, OrderIs
<1>2. taker # PTP!NoOrder /\ NoOrder = PTP!NoOrder /\ taker.qty \in Nat
  BY <1>1 DEF Order, NoOrder, NullSide, PTP!NoOrder
<1>3. CASE taker.qty > 0
  <2>1. book' = restOrder(book, taker)
    BY <1>3 DEF FinishOrder
  <2>2. \A x \in DOMAIN book.orders : x < taker.id
    BY <1>1 DEF OrdersBelow
  <2>3. /\ DOMAIN book'.orders = DOMAIN book.orders \cup {taker.id}
        /\ book'.orders[taker.id] = taker
        /\ \A x \in DOMAIN book.orders : book'.orders[x] = book.orders[x]
        /\ book'.nextOrderId = book.nextOrderId
    BY <1>0, <1>1, <2>1, <2>2, RestWellFormed
  <2>4. WellFormed(book') /\ OrdersNotCrossed(book')
    <3>1. WellFormed(book')
      BY <1>0, <1>1, <2>1, <2>2, RestWellFormed
    <3>2. OrdersNotCrossed(book')
      BY <1>0, <1>1, <1>3, <2>1, <2>2, RestNotCrossed
    <3>3. QED
      BY <3>1, <3>2
  <2>5. PTP!Tradable = {}
    <3> SUFFICES ASSUME NEW x \in PTP!Tradable PROVE FALSE
      OBVIOUS
    <3>1. /\ x \in DOMAIN book.orders
          /\ book.orders[x].side = PTP!Opposite(taker.side)
          /\ IF taker.side = "Buy" THEN book.orders[x].price <= taker.price
             ELSE book.orders[x].price >= taker.price
      BY DEF PTP!Tradable
    <3>2. /\ taker.side \in {"Buy", "Sell"}
          /\ BookSide(book.orders[x].side) = book.orders[x].side
      BY <1>1, <3>1, OppositeOrders
    <3>3. BookSide(taker.side) = taker.side
      BY <3>2 DEF BookSide, Buy, Sell
    <3>4. book.orders[x].price \in Nat /\ taker.price \in Nat
      BY <1>1, <3>1 DEF FromCommands, Order
    <3>5. taker.id \in DOMAIN book'.orders /\ x \in DOMAIN book'.orders
          /\ book'.orders[x] = book.orders[x]
      BY <2>3, <3>1
    <3>6. CASE taker.side = "Buy"
      <4>1. book.orders[x].side = "Sell"
        BY <3>1, <3>6 DEF PTP!Opposite
      <4>2. taker.price < book.orders[x].price
        BY <2>3, <2>4, <3>2, <3>3, <3>5, <3>6, <4>1 DEF OrdersNotCrossed, Buy, Sell
      <4>3. QED
        BY <3>1, <3>4, <3>6, <4>2
    <3>7. CASE taker.side = "Sell"
      <4>1. book.orders[x].side = "Buy"
        BY <3>1, <3>7 DEF PTP!Opposite
      <4>2. book.orders[x].price < taker.price
        BY <2>3, <2>4, <3>2, <3>3, <3>5, <3>7, <4>1 DEF OrdersNotCrossed, Buy, Sell
      <4>3. QED
        BY <3>1, <3>4, <3>7, <4>2
    <3>8. QED
      BY <3>2, <3>6, <3>7
  <2>6. book'.orders = [x \in DOMAIN book.orders \cup {taker.id} |->
                          IF x = taker.id THEN taker ELSE book.orders[x]]
    <3>1. book'.orders = [x \in DOMAIN book'.orders |-> book'.orders[x]]
      BY <2>4 DEF WellFormed, IsBook, IsOrderMap
    <3>2. QED
      BY <2>3, <3>1
  <2>7. PTP!Rest
    BY <1>1, <1>2, <1>3, <2>3, <2>5, <2>6 DEF PTP!Rest
  <2>8. QED
    BY <2>7
<1>4. CASE ~(taker.qty > 0)
  <2>1. book' = book /\ taker.qty = 0
    BY <1>2, <1>4 DEF FinishOrder
  <2>2. PTP!Complete
    BY <1>1, <1>2, <2>1 DEF PTP!Complete
  <2>3. QED
    BY <2>2
<1>5. QED
  BY <1>3, <1>4

\* Every step of the engine is a step of the abstract specification or leaves
\* its variables unchanged.
LEMMA PriorityStep ==
  ASSUME Sides \subseteq BookSides, IInv, [Next]_vars
  PROVE  [PTP!Next]_(PTP!vars)
<1> USE DEF PTP!vars
<1>1. ASSUME NEW owner \in Owners, NEW price \in Prices, NEW qty \in Quantities,
             RejectOrder(owner, price, qty)
      PROVE  UNCHANGED PTP!vars
  BY <1>1 DEF RejectOrder
<1>2. ASSUME NEW owner \in Owners, NEW side \in Sides, NEW price \in Prices,
             NEW qty \in Quantities, AcceptOrder(owner, side, price, qty)
      PROVE  PTP!Next
  <2>1. side \in {"Buy", "Sell"}
    BY DEF BookSides, Buy, Sell
  <2>2. taker = PTP!NoOrder
    BY <1>2 DEF AcceptOrder, IInv, Locals, NoOrder, NullSide, PTP!NoOrder
  <2>3. book'.orders = book.orders /\ book'.nextOrderId = book.nextOrderId + 1
    BY <1>2, NextIdWellFormed DEF AcceptOrder, IInv, GoodBook
  <2>4. PTP!Submit(owner, side, price, qty)
    BY <1>2, <2>2, <2>3 DEF AcceptOrder, PTP!Submit
  <2>5. QED
    BY <2>1, <2>4 DEF PTP!Next
<1>3. CASE MatchBest
  BY <1>3, MatchIsExchange DEF PTP!Next
<1>4. CASE FinishOrder
  BY <1>4, FinishIsRest DEF PTP!Next
<1>5. ASSUME NEW id, NEW owner, RejectCancel(id, owner) PROVE UNCHANGED PTP!vars
  BY <1>5 DEF RejectCancel
<1>6. ASSUME NEW id, NEW owner, CancelOrder(id, owner) PROVE PTP!Next
  <2>1. /\ id \in DOMAIN book.orders /\ WellFormed(book)
        /\ book' = unlink(withoutQty(book, book.orders[id]), id)
    BY <1>6 DEF CancelOrder, IInv, GoodBook
  <2>2. /\ book'.orders = [x \in DOMAIN book.orders \ {id} |-> book.orders[x]]
        /\ book'.nextOrderId = book.nextOrderId
    BY <2>1, CancelWellFormed
  <2>3. taker = PTP!NoOrder /\ taker' = taker
    BY <1>6 DEF CancelOrder, IInv, Locals, NoOrder, NullSide, PTP!NoOrder
  <2>4. PTP!Withdraw(id)
    BY <2>2, <2>3 DEF PTP!Withdraw
  <2>5. QED
    BY <2>1, <2>4 DEF PTP!Next
<1>7. CASE UNCHANGED vars
  BY <1>7 DEF vars
<1>8. QED
  BY <1>1, <1>2, <1>3, <1>4, <1>5, <1>6, <1>7 DEF Next

\* The engine implements price-time priority: with levels, queues and cached
\* aggregates it makes exactly the trades that the rule on a plain set of orders
\* allows, and an order rests only when nothing is left to trade with.  The null
\* side, which trades at any price, is assumed away.
THEOREM PriorityImplemented ==
  ASSUME Sides \subseteq BookSides PROVE Spec => ImplementsPriority
<1>1. Init => PTP!Init
  BY DEF Init, NewOrderBook, NoOrder, NullSide, PTP!Init, PTP!NoOrder
<1>2. IInv /\ [Next]_vars => [PTP!Next]_(PTP!vars)
  BY PriorityStep
<1>3. QED
  BY <1>1, <1>2, Invariance, PTL DEF Spec, ImplementsPriority, PTP!Spec

-----------------------------------------------------------------------------
(* Trades are within the limit. *)

\* The positions of the trades among the events of a command.
TradesIn(ev) == {i \in DOMAIN ev : ev[i].type = "Trade"}

\* TradesWithinLimit for the events of an order with that limit, whose trades
\* take from slice bs.
GoodTrades(ev, bs, limit) ==
  \A i \in TradesIn(ev) :
    /\ ~Before(bs, limit, ev[i].price)
    /\ ev[i].maker < ev[i].taker
    /\ \A j \in TradesIn(ev) : j < i => ~Before(bs, ev[i].price, ev[j].price)

\* No order left in slice bs is better than a trade already made.
NoneBetter(ev, b, bs) ==
  \A i \in TradesIn(ev), x \in DOMAIN b.orders :
    BookSide(b.orders[x].side) = bs => ~Before(bs, b.orders[x].price, ev[i].price)

\* The inductive invariant: inside a command the first event carries the side
\* and the limit of the taker, and match walks the slice in its order.
TInv ==
  /\ \E S : events \in Seq(S)
  /\ events # << >> /\ events[1].type = "Accepted" /\ events[1].side \in BookSides =>
       GoodTrades(events, OppSide(events[1].side), events[1].price)
  /\ pc = "match" =>
       /\ events # << >>
       /\ events[1].type = "Accepted"
       /\ events[1].side = taker.side
       /\ events[1].price = taker.price
       /\ \A i \in TradesIn(events) : events[i].price \in Nat
       /\ NoneBetter(events, book, OppSide(taker.side))

\* A last trade that is within the limit and no better than the ones before.
LEMMA LastTradeWorst ==
  ASSUME NEW s, NEW q, NEW e, NEW n \in Nat, NEW bs, NEW limit, TradesIn(q) \subseteq Nat,
         GoodTrades(s, bs, limit), ~Before(bs, limit, e.price), e.maker < e.taker,
         \A i \in TradesIn(s) : ~Before(bs, e.price, s[i].price),
         \A i \in TradesIn(q) : \/ i \in TradesIn(s) /\ q[i] = s[i] /\ i < n
                                \/ i = n /\ q[i] = e
  PROVE  GoodTrades(q, bs, limit)
<1> SUFFICES ASSUME NEW i \in TradesIn(q)
             PROVE  /\ ~Before(bs, limit, q[i].price)
                    /\ q[i].maker < q[i].taker
                    /\ \A j \in TradesIn(q) : j < i => ~Before(bs, q[i].price, q[j].price)
  BY DEF GoodTrades
<1>1. CASE i = n /\ q[i] = e
  BY <1>1
<1>2. CASE i \in TradesIn(s) /\ q[i] = s[i] /\ i < n
  BY <1>2 DEF GoodTrades
<1>3. QED
  BY <1>1, <1>2

\* One more trade, no better than the ones before and within the limit.
LEMMA GoodTradeAppended ==
  ASSUME NEW S, NEW s \in Seq(S), NEW R, NEW r \in Seq(R), NEW q, q = s \o r,
         NEW bs, NEW limit, GoodTrades(s, bs, limit),
         \A i \in 1..Len(r) : r[i].type = "Trade" => i = 1,
         ~Before(bs, limit, r[1].price), r[1].maker < r[1].taker,
         \A i \in TradesIn(s) : ~Before(bs, r[1].price, s[i].price)
  PROVE  GoodTrades(q, bs, limit)
<1> DEFINE n == Len(s) + 1
<1>1. /\ Len(q) = Len(s) + Len(r) /\ Len(s) \in Nat /\ Len(r) \in Nat
      /\ \A i \in 1..Len(s) : q[i] = s[i]
      /\ \A i \in 1..Len(q) : i \notin 1..Len(s) =>
           i - Len(s) \in 1..Len(r) /\ q[i] = r[i - Len(s)]
      /\ TradesIn(s) \subseteq 1..Len(s) /\ TradesIn(q) \subseteq 1..Len(q)
  BY DEF TradesIn
<1>2. ASSUME NEW i \in TradesIn(q)
      PROVE  \/ i \in TradesIn(s) /\ q[i] = s[i] /\ i < n
             \/ i = n /\ q[i] = r[1]
  <2>1. CASE i \in 1..Len(s)
    BY <1>1, <2>1 DEF TradesIn
  <2>2. CASE i \notin 1..Len(s)
    BY <1>1, <2>2 DEF TradesIn
  <2>3. QED
    BY <2>1, <2>2, Zenon
<1>3. n \in Nat /\ TradesIn(q) \subseteq Nat
  BY <1>1
<1>4. \A i \in TradesIn(q) : \/ i \in TradesIn(s) /\ q[i] = s[i] /\ i < n
                             \/ i = n /\ q[i] = r[1]
  BY <1>2, Zenon
<1> HIDE DEF n
<1>5. QED
  BY <1>3, <1>4, LastTradeWorst, Zenon

\* Events that are no trades.
LEMMA NoTradeAppended ==
  ASSUME NEW S, NEW s \in Seq(S), NEW R, NEW r \in Seq(R), NEW q, q = s \o r,
         NEW bs, NEW limit, GoodTrades(s, bs, limit),
         \A i \in 1..Len(r) : r[i].type # "Trade"
  PROVE  GoodTrades(q, bs, limit)
<1>1. /\ \A i \in 1..Len(s) : q[i] = s[i]
      /\ \A i \in 1..Len(q) : i \notin 1..Len(s) =>
           i - Len(s) \in 1..Len(r) /\ q[i] = r[i - Len(s)]
      /\ TradesIn(s) \subseteq 1..Len(s) /\ TradesIn(q) \subseteq 1..Len(q)
  BY DEF TradesIn
<1>2. \A i \in TradesIn(q) : i \in TradesIn(s) /\ q[i] = s[i]
  BY <1>1 DEF TradesIn
<1>3. QED
  BY <1>2, Zenon DEF GoodTrades

\* The events of a fill: one trade, with the maker at the head of the best level
\* and at its price, which no order of that slice beats.
LEMMA FillTrade ==
  ASSUME NEW b, WellFormed(b), NEW t, IsOrder(t), OrdersBelow(b, t.id), crosses(b, t),
         NEW ev, ev = fillEvents(b, t)
  PROVE  /\ ev \in Seq({ev[1], ev[2], ev[3]}) 
         /\ \A i \in 1..Len(ev) : ev[i].type = "Trade" => i = 1
         /\ ev[1].maker < ev[1].taker
         /\ ev[1].price \in Nat
         /\ t.side \in BookSides => ~Before(OppSide(t.side), t.price, ev[1].price)
         /\ makerOf(b, t).id \in DOMAIN b.orders
         /\ b.orders[makerOf(b, t).id] = makerOf(b, t)
         /\ BookSide(makerOf(b, t).side) = OppSide(t.side)
         /\ makerOf(b, t).price = ev[1].price
         /\ \A x \in DOMAIN b.orders :
              BookSide(b.orders[x].side) = OppSide(t.side) =>
                ~Before(OppSide(t.side), b.orders[x].price, ev[1].price)
<1> DEFINE bs == OppSide(t.side)
           m == makerOf(b, t)
           l == b.levels[bs][1]
           h == Head(l.fifo)
<1>1. /\ \E x, y, z : ev = << x, y, z >>
      /\ ev[1].type = "Trade" /\ ev[2].type = "Filled" /\ ev[3].type = "Filled"
      /\ ev[1].maker = m.id /\ ev[1].taker = t.id /\ ev[1].price = l.price
  BY Zenon DEF fillEvents, Trade, Filled
<1>2. /\ ev \in Seq({ev[1], ev[2], ev[3]})
      /\ \A i \in 1..Len(ev) : ev[i].type = "Trade" => i = 1
  BY <1>1
<1>3. bs \in BookSides /\ b.levels[bs] # << >>
  BY DEF OppSide, BookSides, crosses
<1>4. m.id = h /\ h \in DOMAIN b.orders /\ m = b.orders[h] /\ IsOrder(m)
  BY <1>3, MakerRests, Zenon
<1>5. /\ b.orders[h].price = l.price /\ BookSide(b.orders[h].side) = bs
      /\ \A x \in DOMAIN b.orders : BookSide(b.orders[x].side) = bs =>
           Before(bs, l.price, b.orders[x].price) \/ l.price = b.orders[x].price
  <2>1. \A x \in DOMAIN b.orders : BookSide(b.orders[x].side) = bs =>
           Before(bs, l.price, b.orders[x].price) \/ l.price = b.orders[x].price
    BY <1>3, BestIsFirst
  <2>2. b.orders[h].price = l.price /\ BookSide(b.orders[h].side) = bs
    <3>1. h = Head(b.levels[bs][1].fifo)
      BY Zenon
    <3> HIDE DEF h, bs
    <3>2. b.orders[h].price = b.levels[bs][1].price /\ BookSide(b.orders[h].side) = bs
      <4>1. FirstInLine(b, bs, h)
        BY <1>3, <3>1, HeadHasPriority
      <4>2. QED
        BY <4>1, Zenon DEF FirstInLine
    <3>3. QED
      BY <3>2, Zenon
  <2>3. QED
    BY <2>1, <2>2, Zenon
<1>6. l.price \in Nat /\ t.price \in Nat /\ \A x \in DOMAIN b.orders : b.orders[x].price \in Nat
  <2>1. \A x \in DOMAIN b.orders : IsOrder(b.orders[x])
    BY Zenon DEF WellFormed, IsBook, IsOrderMap
  <2>2. QED
    BY <1>4, <1>5, <2>1, Zenon DEF IsOrder
<1>7. h < t.id
  BY <1>4, Zenon DEF OrdersBelow
<1>8. t.side \in BookSides => ~Before(bs, t.price, l.price)
  BY <1>6 DEF crosses, Before, OppSide, BookSides, Buy, Sell
<1> HIDE DEF m, l, h
<1>9. \A x \in DOMAIN b.orders :
        BookSide(b.orders[x].side) = bs => ~Before(bs, b.orders[x].price, l.price)
  BY <1>5, <1>6 DEF Before
<1>10. QED
  BY <1>1, <1>2, <1>4, <1>5, <1>6, <1>7, <1>8, <1>9 DEF m

\* One turn of match.
LEMMA TradeMatch ==
  ASSUME IInv, TInv, MatchBest
  PROVE  TInv'
<1> DEFINE bs == OppSide(taker.side)
           ev == fillEvents(book, taker)
<1>1. /\ pc = "match" /\ pc' = "match" /\ WellFormed(book) /\ OrdersBelow(book, taker.id)
      /\ IsOrder(taker) /\ crosses(book, taker)
      /\ book' = fillBest(book, taker) /\ events' = events \o ev
  BY OrderIs DEF MatchBest, IInv, GoodBook, Locals
<1>2. taker'.side = taker.side /\ taker'.price = taker.price
  BY <1>1 DEF MatchBest, less, IsOrder
<1>3. PICK S : events \in Seq(S)
  BY DEF TInv
<1>4. /\ events # << >> /\ events[1].type = "Accepted"
      /\ events[1].side = taker.side /\ events[1].price = taker.price
      /\ taker.side \in BookSides => GoodTrades(events, bs, taker.price)
      /\ NoneBetter(events, book, bs)
      /\ \A i \in TradesIn(events) : events[i].price \in Nat
  BY <1>1 DEF TInv
<1>0. ev = fillEvents(book, taker)
  BY Zenon
<1> HIDE DEF ev
<1>5. /\ ev \in Seq({ev[1], ev[2], ev[3]})
      /\ \A i \in 1..Len(ev) : ev[i].type = "Trade" => i = 1
      /\ ev[1].maker < ev[1].taker /\ ev[1].price \in Nat
  BY <1>0, <1>1, <1>2, FillTrade, Zenon
<1>12. /\ taker.side \in BookSides => ~Before(bs, taker.price, ev[1].price)
       /\ \E h \in DOMAIN book.orders : /\ BookSide(book.orders[h].side) = bs
                                        /\ book.orders[h].price = ev[1].price
       /\ \A x \in DOMAIN book.orders : BookSide(book.orders[x].side) = bs =>
            ~Before(bs, book.orders[x].price, ev[1].price)
  <2>1. taker.side \in BookSides => ~Before(bs, taker.price, ev[1].price)
    BY <1>0, <1>1, <1>2, FillTrade, Zenon
  <2>2. /\ makerOf(book, taker).id \in DOMAIN book.orders
        /\ book.orders[makerOf(book, taker).id] = makerOf(book, taker)
        /\ BookSide(makerOf(book, taker).side) = bs
        /\ makerOf(book, taker).price = ev[1].price
    BY <1>0, <1>1, <1>2, FillTrade, Zenon
  <2>3. \A x \in DOMAIN book.orders : BookSide(book.orders[x].side) = bs =>
          ~Before(bs, book.orders[x].price, ev[1].price)
    BY <1>0, <1>1, <1>2, FillTrade, Zenon
  <2>4. QED
    BY <2>1, <2>2, <2>3
<1>6. SomeOrdersOf(book', book)
  BY <1>1, FillOrders
<1> HIDE DEF bs
<1>7. \A i \in TradesIn(events) : ~Before(bs, ev[1].price, events[i].price)
  BY <1>4, <1>12 DEF NoneBetter
<1>8. /\ taker.side \in BookSides => GoodTrades(events', bs, taker.price)
      /\ \A i \in TradesIn(events') :
           (i \in TradesIn(events) /\ events'[i] = events[i]) \/ events'[i] = ev[1]
  <2>1. PICK q : q = events'
    OBVIOUS
  <2>2. q = events \o ev
    BY <1>1, <2>1, Zenon
  <2>3. ASSUME taker.side \in BookSides PROVE GoodTrades(q, bs, taker.price)
    BY <2>3, <1>3, <1>4, <1>5, <1>7, <1>12, <2>2, GoodTradeAppended, Zenon
  <2>4. ASSUME NEW i \in TradesIn(q)
        PROVE  (i \in TradesIn(events) /\ q[i] = events[i]) \/ q[i] = ev[1]
    <3>1. /\ i \in 1..Len(q) /\ q[i].type = "Trade"
          /\ i \in 1..Len(events) => q[i] = events[i]
          /\ i \notin 1..Len(events) =>
               i - Len(events) \in 1..Len(ev) /\ q[i] = ev[i - Len(events)]
      BY <1>3, <1>5, <2>2, <2>4 DEF TradesIn
    <3>2. QED
      BY <1>3, <1>5, <3>1 DEF TradesIn
  <2>5. QED
    BY <2>1, <2>3, <2>4
<1>9. NoneBetter(events', book', bs) /\ \A i \in TradesIn(events') : events'[i].price \in Nat
  BY <1>4, <1>5, <1>6, <1>8, <1>12 DEF NoneBetter, SomeOrdersOf
<1>10. (\E T : events' \in Seq(T)) /\ events' # << >> /\ events'[1] = events[1]
  <2>1. events' \in Seq(S \cup {ev[1], ev[2], ev[3]})
    BY <1>1, <1>3, <1>4, <1>5
  <2>2. events' # << >> /\ events'[1] = events[1]
    BY <1>1, <1>3, <1>4, <1>5
  <2>3. QED
    BY <2>1, <2>2, Zenon
<1>11. QED
  BY <1>1, <1>2, <1>4, <1>8, <1>9, <1>10, Zenon DEF TInv, bs

\* The end of NewLimitOrder adds book updates only.
LEMMA TradeFinish ==
  ASSUME IInv, TInv, FinishOrder
  PROVE  TInv'
<1> DEFINE lvl == restLevel(book', taker)
           final == IF taker.qty > 0 THEN touch(changed, lvl) ELSE changed
           ev == bookUpdates(final)
           bs == OppSide(taker.side)
<1>1. pc = "match" /\ pc' = "idle" /\ events' = events \o ev
  BY DEF FinishOrder
<1>2. PICK S : events \in Seq(S)
  BY DEF TInv
<1>3. /\ events # << >> /\ events[1].type = "Accepted"
      /\ events[1].side = taker.side /\ events[1].price = taker.price
      /\ taker.side \in BookSides => GoodTrades(events, bs, taker.price)
  BY <1>1 DEF TInv
<1>4. \E R : final \in Seq(R)
  <2>1. changed \in Seq(ChangedLevel \cup {lvl})
    BY DEF IInv, Locals
  <2> HIDE DEF lvl
  <2>2. touch(changed, lvl) \in Seq(ChangedLevel \cup {lvl})
    BY <2>1, TouchType
  <2>3. QED
    BY <2>1, <2>2
<1> HIDE DEF final
<1>5. (\E R : ev \in Seq(R)) /\ \A i \in 1..Len(ev) : ev[i].type # "Trade"
  <2>1. DOMAIN final = 1..Len(final) /\ Len(final) \in Nat
    BY <1>4
  <2>2. ev \in [1..Len(final) -> {ev[i] : i \in 1..Len(final)}]
    BY <2>1 DEF bookUpdates
  <2>3. ev \in Seq({ev[i] : i \in 1..Len(final)}) /\ Len(ev) = Len(final)
    BY <2>1, <2>2, SeqDef
  <2>4. \A i \in 1..Len(final) : ev[i].type = "BookUpdate"
    BY <2>1 DEF bookUpdates, BookUpdate
  <2>5. QED
    BY <2>3, <2>4
<1> HIDE DEF ev, bs
<1>6. PICK R : ev \in Seq(R)
  BY <1>5
<1>7. taker.side \in BookSides => GoodTrades(events', bs, taker.price)
  BY <1>1, <1>2, <1>3, <1>5, <1>6, NoTradeAppended, Zenon
<1>8. (\E T : events' \in Seq(T)) /\ events' # << >> /\ events'[1] = events[1]
  <2>1. events' \in Seq(S \cup R)
    BY <1>1, <1>2, <1>3, <1>6
  <2>2. events' # << >> /\ events'[1] = events[1]
    BY <1>1, <1>2, <1>3, <1>6
  <2>3. QED
    BY <2>1, <2>2
<1>9. QED
  BY <1>1, <1>3, <1>7, <1>8 DEF TInv, bs

\* A step after which the only trades of events can be those of an old command.
LEMMA TradeFresh ==
  ASSUME NEW S, events' \in Seq(S), TradesIn(events') = {}, pc' = "idle"
  PROVE  TInv'
BY DEF TInv, GoodTrades

\* The invariant is inductive: one step per action.
LEMMA TInvNext == IInv /\ TInv /\ [Next]_vars => TInv'
<1> SUFFICES ASSUME IInv, TInv, [Next]_vars PROVE TInv'
  OBVIOUS
<1>1. ASSUME NEW e, e.type # "Trade", events' = << e >>, pc' = "idle" PROVE TInv'
  <2>1. events' \in Seq({e}) /\ TradesIn(events') = {}
    BY <1>1 DEF TradesIn
  <2>2. QED
    BY <1>1, <2>1, TradeFresh, Zenon
<1>2. ASSUME NEW owner \in Owners, NEW price \in Prices, NEW qty \in Quantities,
             RejectOrder(owner, price, qty)
      PROVE  TInv'
  BY <1>1, <1>2 DEF RejectOrder, Rejected
<1>3. ASSUME NEW owner \in Owners, NEW side \in Sides, NEW price \in Prices,
             NEW qty \in Quantities, AcceptOrder(owner, side, price, qty)
      PROVE  TInv'
  <2>1. events' = << Accepted(taker') >> /\ pc' = "match"
    BY <1>3 DEF AcceptOrder
  <2>2. /\ events' # << >> /\ events'[1].type = "Accepted" /\ TradesIn(events') = {}
        /\ events'[1].side = taker'.side /\ events'[1].price = taker'.price
    BY <2>1 DEF Accepted, TradesIn
  <2>3. events' \in Seq({Accepted(taker')})
    BY <2>1
  <2>4. QED
    BY <2>2, <2>3 DEF TInv, GoodTrades, NoneBetter
<1>4. CASE MatchBest
  BY <1>4, TradeMatch
<1>5. CASE FinishOrder
  BY <1>5, TradeFinish
<1>6. ASSUME NEW id, NEW owner, RejectCancel(id, owner) PROVE TInv'
  BY <1>1, <1>6 DEF RejectCancel, Rejected
<1>7. ASSUME NEW id, NEW owner, CancelOrder(id, owner) PROVE TInv'
  <2>1. PICK x, y : events' = << x, y >> /\ x.type = "Canceled" /\ y.type = "BookUpdate"
    BY <1>7, SMTT(60) DEF CancelOrder, Canceled, BookUpdate
  <2>2. events' \in Seq({x, y}) /\ TradesIn(events') = {}
    BY <2>1 DEF TradesIn
  <2>3. QED
    BY <1>7, <2>2, TradeFresh, Zenon DEF CancelOrder
<1>8. CASE UNCHANGED vars
  BY <1>8 DEF TInv, GoodTrades, NoneBetter, TradesIn, vars
<1>9. QED
  BY <1>2, <1>3, <1>4, <1>5, <1>6, <1>7, <1>8 DEF Next

\* Before the first command there are no events.
LEMMA TInvInit == Init => TInv
<1>1. << >> \in Seq({})
  OBVIOUS
<1>2. QED
  BY <1>1, Zenon DEF Init, TInv

\* Every trade of a command of either side is within the taker's limit, with an
\* older maker, and no better than the trades before it.
THEOREM TradesStayWithinLimit == Spec => []TradesWithinLimit
<1>1. TInv => TradesWithinLimit
  BY DEF TInv, TradesWithinLimit, GoodTrades, TradesIn
<1>2. QED
  BY <1>1, TInvInit, TInvNext, Invariance, PTL DEF Spec

-----------------------------------------------------------------------------
(* What a step may do to a resting order. *)

\* The orders that a step leaves alone.
SameOrder(x) == x \in DOMAIN book'.orders /\ book'.orders[x] = book.orders[x]

\* One turn of match changes its maker as its trade says, and no other order.
LEMMA MatchTrades ==
  ASSUME IInv, TInv, MatchBest PROVE TradedOrCanceled
<1> DEFINE m == makerOf(book, taker)
           fill == fillQty(m, taker)
           ev == fillEvents(book, taker)
<1>1. /\ WellFormed(book) /\ crosses(book, taker) /\ IsOrder(taker)
      /\ OrdersBelow(book, taker.id) /\ book' = fillBest(book, taker)
  BY OrderIs DEF MatchBest, IInv, GoodBook, Locals
<1>0. events' = events \o ev
  BY DEF MatchBest
<1>2. m = makerOf(book, taker) /\ fill = fillQty(m, taker)
  OBVIOUS
<1>3. /\ \E x, y, z : ev = << x, y, z >>
      /\ ev[1].type = "Trade" /\ ev[1].maker = m.id /\ ev[1].qty = fill
  BY Zenon DEF fillEvents, Trade
<1> HIDE DEF m, fill, ev
<1>11. ev = fillEvents(book, taker)
  BY DEF ev
<1>4. m.id \in DOMAIN book.orders /\ book.orders[m.id] = m /\ m.price = ev[1].price
  BY <1>1, <1>2, <1>11, FillTrade, Zenon
<1>5. book'.orders = IF m.qty = fill
                     THEN [x \in DOMAIN book.orders \ {m.id} |-> book.orders[x]]
                     ELSE [book.orders EXCEPT ![m.id] = less(m, fill)]
  BY <1>1, <1>2, FillWellFormed, SMTT(60)
<1>6. book'.nextOrderId = book.nextOrderId /\ book.nextOrderId \in Nat
  <2>1. book'.nextOrderId = book.nextOrderId
    BY <1>1, <1>2, FillWellFormed, Zenon
  <2>2. QED
    BY <1>1, <2>1 DEF WellFormed, IsBook
<1>7. PICK i : i \in DOMAIN events' \ DOMAIN events /\ events'[i] = ev[1]
  <2>1. PICK S : events \in Seq(S)
    BY DEF TInv
  <2>2. Len(events) + 1 \in DOMAIN events' \ DOMAIN events /\ events'[Len(events) + 1] = ev[1]
    BY <1>0, <1>3, <2>1
  <2>3. QED
    BY <2>2
<1>8. LeftBy(events'[i], m.id)
  BY <1>3, <1>4, <1>5, <1>7 DEF LeftBy
<1>9. /\ DOMAIN book'.orders \subseteq DOMAIN book.orders
      /\ \A x \in DOMAIN book.orders : x # m.id => SameOrder(x)
  BY <1>4, <1>5 DEF SameOrder
<1>10. QED
  BY <1>6, <1>7, <1>8, <1>9 DEF TradedOrCanceled, SameOrder

\* A step that leaves all orders as they are.
LEMMA OrdersAsTheyWere ==
  ASSUME book.nextOrderId \in Nat, book'.orders = book.orders,
         book'.nextOrderId >= book.nextOrderId
  PROVE  TradedOrCanceled
BY DEF TradedOrCanceled

\* Every step changes resting orders by its trade or its cancel only.
LEMMA TradedStep ==
  ASSUME IInv, TInv, [Next]_vars PROVE TradedOrCanceled
<1>1. WellFormed(book) /\ book.nextOrderId \in Nat
  BY DEF IInv, GoodBook, WellFormed, IsBook
<1>2. ASSUME book' = book PROVE TradedOrCanceled
  BY <1>1, <1>2, OrdersAsTheyWere
<1>3. ASSUME NEW owner \in Owners, NEW side \in Sides, NEW price \in Prices,
             NEW qty \in Quantities, AcceptOrder(owner, side, price, qty)
      PROVE  TradedOrCanceled
  <2>1. book'.orders = book.orders /\ book'.nextOrderId = book.nextOrderId + 1
    BY <1>1, <1>3, NextIdWellFormed DEF AcceptOrder
  <2>2. QED
    BY <1>1, <2>1, OrdersAsTheyWere
<1>4. CASE MatchBest
  BY <1>4, MatchTrades
<1>5. CASE FinishOrder
  <2>1. CASE taker.qty > 0
    <3>1. book' = restOrder(book, taker) /\ IsOrder(taker) /\ pc = "match"
      BY <1>5, <2>1, OrderIs DEF FinishOrder, IInv, Locals
    <3>2. \A x \in DOMAIN book.orders : x < taker.id
      BY <1>5 DEF FinishOrder, IInv, GoodBook, OrdersBelow
    <3>3. /\ DOMAIN book'.orders = DOMAIN book.orders \cup {taker.id}
          /\ book'.orders[taker.id] = taker
          /\ \A x \in DOMAIN book.orders : book'.orders[x] = book.orders[x]
          /\ book'.nextOrderId = book.nextOrderId
      BY <1>1, <3>1, <3>2, RestWellFormed
    <3>4. QED
      BY <1>1, <3>1, <3>3 DEF TradedOrCanceled
  <2>2. CASE ~(taker.qty > 0)
    BY <1>2, <1>5, <2>2 DEF FinishOrder
  <2>3. QED
    BY <2>1, <2>2
<1>6. ASSUME NEW id, NEW owner, CancelOrder(id, owner) PROVE TradedOrCanceled
  <2>1. /\ id \in DOMAIN book.orders /\ book' = unlink(withoutQty(book, book.orders[id]), id)
        /\ events'[1] = Canceled(book.orders[id])
    BY <1>6 DEF CancelOrder
  <2>2. /\ book'.orders = [x \in DOMAIN book.orders \ {id} |-> book.orders[x]]
        /\ book'.nextOrderId = book.nextOrderId
    BY <1>1, <2>1, CancelWellFormed
  <2>3. QED
    BY <1>1, <2>1, <2>2 DEF TradedOrCanceled
<1>7. CASE \E owner \in Owners, price \in Prices, qty \in Quantities : RejectOrder(owner, price, qty)
  BY <1>2, <1>7 DEF RejectOrder
<1>8. CASE \E id \in 1..MaxOrderId, owner \in Owners : RejectCancel(id, owner)
  BY <1>2, <1>8 DEF RejectCancel
<1>9. CASE UNCHANGED vars
  BY <1>2, <1>9 DEF vars
<1>10. QED
  BY <1>3, <1>4, <1>5, <1>6, <1>7, <1>8, <1>9 DEF Next

\* Every change of a resting order is a trade of that step, at the order's price
\* and for what it loses, or its cancel; only what is left of a taker comes in.
THEOREM ChangedByTradesAndCancels == Spec => OnlyTradedOrCanceled
<1>1. IInv /\ TInv /\ [Next]_vars => [TradedOrCanceled]_vars
  BY TradedStep
<1>2. QED
  BY <1>1, TInvInit, TInvNext, Invariance, PTL DEF Spec, OnlyTradedOrCanceled

-----------------------------------------------------------------------------
(* No quantity is lost or made. *)

\* The quantities traded in a sequence of events are numbers.
Traded(ev) == /\ \E S : ev \in Seq(S)
              /\ \A i \in 1..Len(ev) : ev[i].type = "Trade" => ev[i].qty \in Int

\* What a sequence of events traded, as a sequence.
LEMMA TradedSeq ==
  ASSUME NEW ev, Traded(ev)
  PROVE  /\ tradedQtys(ev) \in Seq(Int) /\ Len(tradedQtys(ev)) = Len(ev) /\ Len(ev) \in Nat
         /\ \A i \in 1..Len(ev) :
              tradedQtys(ev)[i] = IF ev[i].type = "Trade" THEN ev[i].qty ELSE 0
<1>1. Len(ev) \in Nat /\ DOMAIN ev = 1..Len(ev)
  BY DEF Traded
<1>2. tradedQtys(ev) = [i \in 1..Len(ev) |-> IF ev[i].type = "Trade" THEN ev[i].qty ELSE 0]
  BY <1>1 DEF tradedQtys
<1>3. \A i \in 1..Len(ev) : (IF ev[i].type = "Trade" THEN ev[i].qty ELSE 0) \in Int
  BY DEF Traded
<1>4. QED
  BY <1>1, <1>2, <1>3

\* Events in a row trade the sum of what they trade.
LEMMA TradedConcat ==
  ASSUME NEW s, Traded(s), NEW r, Traded(r), NEW q, q = s \o r
  PROVE  /\ Traded(q)
         /\ sumOf(tradedQtys(q)) = sumOf(tradedQtys(s)) + sumOf(tradedQtys(r))
<1> DEFINE a == tradedQtys(s)
           c == tradedQtys(r)
           t == tradedQtys(q)
           n == Len(s)
<1>1. PICK S : s \in Seq(S)
  BY DEF Traded
<1>2. PICK R : r \in Seq(R)
  BY DEF Traded
<1>3. s \in Seq(S \cup R) /\ r \in Seq(S \cup R) /\ Len(s) \in Nat /\ Len(r) \in Nat
  BY <1>1, <1>2
<1>4. /\ q \in Seq(S \cup R) /\ Len(q) = Len(s) + Len(r)
      /\ \A i \in 1..(Len(s) + Len(r)) : q[i] = IF i <= Len(s) THEN s[i] ELSE r[i - Len(s)]
  BY <1>3, ConcatProperties
<1>5. ASSUME NEW i \in 1..Len(q)
      PROVE  \/ i \in 1..Len(s) /\ q[i] = s[i] /\ i <= Len(s)
             \/ i - Len(s) \in 1..Len(r) /\ q[i] = r[i - Len(s)] /\ ~(i <= Len(s))
  BY <1>3, <1>4
<1>6. Traded(q)
  <2>1. \A i \in 1..Len(q) : q[i].type = "Trade" => q[i].qty \in Int
    BY <1>5 DEF Traded
  <2>2. QED
    BY <1>4, <2>1 DEF Traded
<1>7. a \in Seq(Int) /\ Len(a) = Len(s)
      /\ \A i \in 1..Len(s) : a[i] = IF s[i].type = "Trade" THEN s[i].qty ELSE 0
  BY TradedSeq
<1>8. c \in Seq(Int) /\ Len(c) = Len(r)
      /\ \A i \in 1..Len(r) : c[i] = IF r[i].type = "Trade" THEN r[i].qty ELSE 0
  BY TradedSeq
<1>9. t \in Seq(Int) /\ Len(t) = Len(q)
      /\ \A i \in 1..Len(q) : t[i] = IF q[i].type = "Trade" THEN q[i].qty ELSE 0
  BY <1>6, TradedSeq, Zenon
<1> HIDE DEF a, c, t
<1>10. /\ a \o c \in Seq(Int) /\ Len(a \o c) = Len(a) + Len(c)
       /\ \A i \in 1..(Len(a) + Len(c)) : (a \o c)[i] = IF i <= Len(a) THEN a[i] ELSE c[i - Len(a)]
  <2>1. a \in Seq(Int) /\ c \in Seq(Int)
    BY <1>7, <1>8
  <2>2. QED
    BY <2>1, ConcatProperties
<1>11. ASSUME NEW i \in 1..Len(t) PROVE t[i] = (a \o c)[i]
  <2>0. i \in 1..Len(q) /\ i \in 1..(Len(a) + Len(c))
    BY <1>4, <1>7, <1>8, <1>9
  <2>1. CASE i \in 1..Len(s) /\ q[i] = s[i] /\ i <= Len(s)
    BY <1>7, <1>9, <1>10, <2>0, <2>1, Zenon
  <2>2. CASE i - Len(s) \in 1..Len(r) /\ q[i] = r[i - Len(s)] /\ ~(i <= Len(s))
    BY <1>7, <1>8, <1>9, <1>10, <2>0, <2>2, Zenon
  <2>3. QED
    BY <1>5, <2>0, <2>1, <2>2
<1>12. t = a \o c
  <2>1. t \in Seq(Int) /\ a \o c \in Seq(Int) /\ Len(t) = Len(a \o c)
    BY <1>4, <1>7, <1>8, <1>9, <1>10
  <2>2. QED
    BY <1>11, <2>1, SeqEqual, Zenon
<1>13. sumOf(a \o c) = sumOf(a) + sumOf(c)
  BY <1>7, <1>8, SumConcat
<1>14. QED
  BY <1>6, <1>12, <1>13 DEF a, c, t

\* A fill trades its quantity, once.
LEMMA FillTraded ==
  ASSUME NEW b, NEW t, NEW fill \in Int, fill = fillQty(makerOf(b, t), t),
         NEW ev, ev = fillEvents(b, t)
  PROVE  Traded(ev) /\ sumOf(tradedQtys(ev)) = fill
<1>1. /\ \E x, y, z : ev = << x, y, z >>
      /\ ev[1].type = "Trade" /\ ev[2].type = "Filled" /\ ev[3].type = "Filled"
      /\ ev[1].qty = fill
  BY Zenon DEF fillEvents, Trade, Filled
<1>2. ev \in Seq({ev[1], ev[2], ev[3]}) /\ Len(ev) = 3
  BY <1>1
<1>3. Traded(ev)
  <2>1. \A i \in 1..Len(ev) : ev[i].type = "Trade" => ev[i].qty \in Int
    <3>1. \A i \in 1..3 : i = 1 \/ i = 2 \/ i = 3
      OBVIOUS
    <3>2. QED
      BY <1>1, <1>2, <3>1
  <2>2. QED
    BY <1>2, <2>1, Zenon DEF Traded
<1>4. /\ tradedQtys(ev) \in Seq(Int) /\ Len(tradedQtys(ev)) = Len(ev)
      /\ \A i \in 1..Len(ev) :
           tradedQtys(ev)[i] = IF ev[i].type = "Trade" THEN ev[i].qty ELSE 0
  BY <1>3, TradedSeq
<1>5. tradedQtys(ev)[1] = fill /\ tradedQtys(ev)[2] = 0 /\ tradedQtys(ev)[3] = 0
  <2>1. 1 \in 1..Len(ev) /\ 2 \in 1..Len(ev) /\ 3 \in 1..Len(ev)
    BY <1>2
  <2>2. QED
    BY <1>1, <1>4, <2>1, Zenon
<1> DEFINE p == [n \in 0..3 |-> IF n = 0 THEN 0 ELSE fill]
<1>6. IsSum(tradedQtys(ev), p)
  BY <1>2, <1>4, <1>5 DEF IsSum
<1>7. QED
  <2>1. Len(tradedQtys(ev)) = 3 /\ p[3] = fill
    BY <1>2, <1>4
  <2> HIDE DEF p
  <2>2. sumOf(tradedQtys(ev)) = p[Len(tradedQtys(ev))]
    BY <1>4, <1>6, SumUnfold, Zenon
  <2>3. QED
    BY <1>3, <2>1, <2>2

\* Events that are no trades trade nothing.
LEMMA NothingTraded ==
  ASSUME NEW S, NEW ev \in Seq(S), \A i \in 1..Len(ev) : ev[i].type # "Trade"
  PROVE  Traded(ev) /\ sumOf(tradedQtys(ev)) = 0
<1>1. Traded(ev)
  BY DEF Traded
<1>2. QED
  BY <1>1, TradedSeq, SumZero

\* The closing batch of book updates.
LEMMA UpdatesTraded ==
  ASSUME NEW S, NEW ch \in Seq(S)
  PROVE  Traded(bookUpdates(ch)) /\ sumOf(tradedQtys(bookUpdates(ch))) = 0
<1> DEFINE ev == bookUpdates(ch)
<1>1. DOMAIN ch = 1..Len(ch) /\ Len(ch) \in Nat
  OBVIOUS
<1>2. ev = [i \in 1..Len(ch) |-> BookUpdate(ch[i])]
  BY <1>1 DEF bookUpdates
<1>3. ev \in Seq({BookUpdate(ch[i]) : i \in 1..Len(ch)}) /\ Len(ev) = Len(ch)
  BY <1>1, <1>2
<1>4. \A i \in 1..Len(ch) : ev[i].type # "Trade"
  BY <1>2 DEF BookUpdate
<1> HIDE DEF ev
<1>5. Traded(ev) /\ sumOf(tradedQtys(ev)) = 0
  BY <1>3, <1>4, NothingTraded
<1>6. QED
  BY <1>5 DEF ev

\* The inductive invariant: what was asked for is what was traded and what is
\* left, in hand inside a command and in the book after it.
AInv ==
  /\ Traded(events)
  /\ pc = "match" => /\ events # << >> /\ events[1].type = "Accepted"
                     /\ events[1].id = taker.id
                     /\ events[1].qty = sumOf(tradedQtys(events)) + taker.qty
  /\ pc = "idle" /\ events # << >> /\ events[1].type = "Accepted" =>
       events[1].qty = sumOf(tradedQtys(events)) + restingQty(book, events[1].id)

\* The first event stays when others follow it.
LEMMA FirstStays ==
  ASSUME NEW s, Traded(s), s # << >>, NEW r, Traded(r)
  PROVE  s \o r # << >> /\ (s \o r)[1] = s[1]
<1>1. PICK S : s \in Seq(S)
  BY DEF Traded
<1>2. PICK R : r \in Seq(R)
  BY DEF Traded
<1>3. s \in Seq(S \cup R) /\ r \in Seq(S \cup R) /\ 1 \in 1..Len(s)
  BY <1>1, <1>2
<1>4. QED
  BY <1>3

\* One turn of match.
LEMMA AccountMatch ==
  ASSUME IInv, AInv, MatchBest PROVE AInv'
<1> DEFINE fill == fillQty(makerOf(book, taker), taker)
           ev == fillEvents(book, taker)
<1>1. /\ pc = "match" /\ pc' = "match" /\ WellFormed(book) /\ OrdersBelow(book, taker.id)
      /\ IsOrder(taker) /\ crosses(book, taker)
      /\ taker' = less(taker, fill) /\ events' = events \o ev
  BY OrderIs DEF MatchBest, IInv, GoodBook, Locals
<1>2. fill \in Nat
  BY <1>1, FillOrders
<1>3. Traded(ev) /\ sumOf(tradedQtys(ev)) = fill
  <2>1. fill = fillQty(makerOf(book, taker), taker) /\ ev = fillEvents(book, taker)
    OBVIOUS
  <2> HIDE DEF fill, ev
  <2>2. QED
    BY <1>2, <2>1, FillTraded
<1> HIDE DEF fill, ev
<1>4. /\ Traded(events) /\ events # << >> /\ events[1].type = "Accepted"
      /\ events[1].id = taker.id
      /\ events[1].qty = sumOf(tradedQtys(events)) + taker.qty
  BY <1>1 DEF AInv
<1>5. Traded(events') /\ sumOf(tradedQtys(events')) = sumOf(tradedQtys(events)) + fill
  BY <1>1, <1>3, <1>4, TradedConcat, Zenon
<1>6. events' # << >> /\ events'[1] = events[1]
  BY <1>1, <1>3, <1>4, FirstStays
<1>7. taker'.id = taker.id /\ taker'.qty = taker.qty - fill /\ taker.qty \in Nat
  BY <1>1 DEF less, IsOrder
<1>8. sumOf(tradedQtys(events)) \in Int
  BY <1>4, TradedSeq, SumInt
<1>9. events'[1].qty = sumOf(tradedQtys(events')) + taker'.qty
  BY <1>2, <1>4, <1>5, <1>6, <1>7, <1>8
<1>10. QED
  BY <1>1, <1>4, <1>5, <1>6, <1>7, <1>9 DEF AInv

\* NewLimitOrder after match.
LEMMA AccountFinish ==
  ASSUME IInv, AInv, FinishOrder PROVE AInv'
<1> DEFINE lvl == restLevel(book', taker)
           final == IF taker.qty > 0 THEN touch(changed, lvl) ELSE changed
           ev == bookUpdates(final)
<1>1. /\ pc = "match" /\ pc' = "idle" /\ WellFormed(book) /\ OrdersBelow(book, taker.id)
      /\ IsOrder(taker) /\ events' = events \o ev
  BY OrderIs DEF FinishOrder, IInv, GoodBook, Locals
<1>2. Traded(ev) /\ sumOf(tradedQtys(ev)) = 0
  <2>1. changed \in Seq(ChangedLevel \cup {lvl})
    BY DEF IInv, Locals
  <2> HIDE DEF lvl
  <2>2. touch(changed, lvl) \in Seq(ChangedLevel \cup {lvl})
    BY <2>1, TouchType
  <2>3. final \in Seq(ChangedLevel \cup {lvl})
    BY <2>1, <2>2
  <2> HIDE DEF final
  <2>4. QED
    BY <2>3, UpdatesTraded
<1> HIDE DEF ev
<1>4. /\ Traded(events) /\ events # << >> /\ events[1].type = "Accepted"
      /\ events[1].id = taker.id
      /\ events[1].qty = sumOf(tradedQtys(events)) + taker.qty
  BY <1>1 DEF AInv
<1>5. Traded(events') /\ sumOf(tradedQtys(events')) = sumOf(tradedQtys(events)) + 0
  BY <1>1, <1>2, <1>4, TradedConcat, Zenon
<1>6. events' # << >> /\ events'[1] = events[1]
  BY <1>1, <1>2, <1>4, FirstStays
<1>7. restingQty(book', taker.id) = taker.qty
  <2>1. taker.qty \in Nat /\ taker.id \in Nat
    BY <1>1 DEF IsOrder
  <2>2. \A x \in DOMAIN book.orders : x < taker.id
    BY <1>1 DEF OrdersBelow
  <2>3. CASE taker.qty > 0
    <3>1. book' = restOrder(book, taker)
      BY <2>3 DEF FinishOrder
    <3>2. DOMAIN book'.orders = DOMAIN book.orders \cup {taker.id} /\ book'.orders[taker.id] = taker
      BY <1>1, <2>2, <3>1, RestWellFormed
    <3>3. QED
      BY <3>2 DEF restingQty
  <2>4. CASE ~(taker.qty > 0)
    <3>1. book' = book /\ taker.qty = 0
      BY <2>1, <2>4 DEF FinishOrder
    <3>2. taker.id \notin DOMAIN book.orders
      BY <2>1, <2>2
    <3>3. QED
      BY <3>1, <3>2 DEF restingQty
  <2>5. QED
    BY <2>3, <2>4
<1>8. sumOf(tradedQtys(events)) \in Int
  BY <1>4, TradedSeq, SumInt
<1>9. events'[1].qty = sumOf(tradedQtys(events')) + restingQty(book', events'[1].id)
  BY <1>4, <1>5, <1>6, <1>7, <1>8
<1>10. QED
  BY <1>1, <1>5, <1>9 DEF AInv

\* The invariant is inductive: one step per action.
LEMMA AInvNext == IInv /\ AInv /\ [Next]_vars => AInv'
<1> SUFFICES ASSUME IInv, AInv, [Next]_vars PROVE AInv'
  OBVIOUS
<1>1. ASSUME NEW e, e.type \notin {"Trade", "Accepted"}, events' = << e >>, pc' = "idle" PROVE AInv'
  <2>1. events' \in Seq({e}) /\ Len(events') = 1 /\ events'[1] = e
    BY <1>1
  <2>2. Traded(events')
    <3>1. \A i \in 1..Len(events') : events'[i].type = "Trade" => events'[i].qty \in Int
      BY <1>1, <2>1
    <3>2. QED
      BY <2>1, <3>1, Zenon DEF Traded
  <2>3. QED
    BY <1>1, <2>1, <2>2 DEF AInv
<1>2. ASSUME NEW owner \in Owners, NEW price \in Prices, NEW qty \in Quantities,
             RejectOrder(owner, price, qty)
      PROVE  AInv'
  BY <1>1, <1>2 DEF RejectOrder, Rejected
<1>3. ASSUME NEW owner \in Owners, NEW side \in Sides, NEW price \in Prices,
             NEW qty \in Quantities, AcceptOrder(owner, side, price, qty)
      PROVE  AInv'
  <2>1. events' = << Accepted(taker') >> /\ pc' = "match" /\ taker'.qty = qty /\ qty \in Int
    BY <1>3, QuantitiesAssumption DEF AcceptOrder
  <2>2. /\ events' # << >> /\ events'[1].type = "Accepted" /\ Len(events') = 1
        /\ events'[1].id = taker'.id /\ events'[1].qty = taker'.qty
    BY <2>1 DEF Accepted
  <2>3. events' \in Seq({Accepted(taker')})
    BY <2>1
  <2>4. Traded(events') /\ sumOf(tradedQtys(events')) = 0
    BY <2>2, <2>3, NothingTraded
  <2>5. QED
    BY <2>1, <2>2, <2>4 DEF AInv
<1>4. CASE MatchBest
  BY <1>4, AccountMatch
<1>5. CASE FinishOrder
  BY <1>5, AccountFinish
<1>6. ASSUME NEW id, NEW owner, RejectCancel(id, owner) PROVE AInv'
  <2>1. PICK e : events' = << e >> /\ e.type = "Rejected" /\ pc' = "idle"
    BY <1>6 DEF RejectCancel, Rejected
  <2>2. QED
    BY <1>1, <2>1
<1>7. ASSUME NEW id, NEW owner, CancelOrder(id, owner) PROVE AInv'
  <2>1. PICK x, y : events' = << x, y >> /\ x.type = "Canceled" /\ y.type = "BookUpdate"
    BY <1>7, SMTT(60) DEF CancelOrder, Canceled, BookUpdate
  <2>2. events' \in Seq({x, y}) /\ Len(events') = 2 /\ events'[1] = x /\ events'[2] = y
    BY <2>1
  <2>3. Traded(events')
    <3>1. \A i \in 1..2 : i = 1 \/ i = 2
      OBVIOUS
    <3>2. \A i \in 1..Len(events') : events'[i].type = "Trade" => events'[i].qty \in Int
      BY <2>1, <2>2, <3>1
    <3>3. QED
      BY <2>2, <3>2, Zenon DEF Traded
  <2>4. pc' = "idle"
    BY <1>7 DEF CancelOrder
  <2>5. QED
    BY <2>1, <2>2, <2>3, <2>4 DEF AInv
<1>8. CASE UNCHANGED vars
  BY <1>8 DEF AInv, Traded, vars
<1>9. QED
  BY <1>2, <1>3, <1>4, <1>5, <1>6, <1>7, <1>8 DEF Next

\* No quantity is lost or made inside a command: what an accepted order asked
\* for is what it traded plus what is left of it, in hand or in the book.
THEOREM QuantityConserved == Spec => []TakerAccounted
<1>1. Init => AInv
  BY DEF Init, AInv, Traded
<1>2. IInv /\ AInv => TakerAccounted
  BY DEF IInv, Locals, AInv, TakerAccounted
<1>3. QED
  BY <1>1, <1>2, AInvNext, Invariance, PTL DEF Spec
=============================================================================
