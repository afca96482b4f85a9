------------------------------ MODULE OrderBook ------------------------------
(***************************************************************************)
(* The matching engine (go/engine/order_book.go) as a state machine.  The  *)
(* engine is called by one thread and runs each command to completion; the *)
(* matching loop is modelled one turn per step, so that what holds in the  *)
(* middle of a command can be stated, and no other step can come between.  *)
(***************************************************************************)
EXTENDS Book

CONSTANTS Owners,      \* session ids that own orders
          Sides,       \* sides that reach the engine
          Prices,      \* prices of the commands, 0 and below included
          Quantities,  \* quantities of the commands, 0 and below included
          MaxOrderId   \* bound on the ids given out

ASSUME SidesAssumption == Sides \subseteq {Buy, Sell, NullSide, UnknownSide}
ASSUME PricesAssumption == Prices \subseteq Int
ASSUME QuantitiesAssumption == Quantities \subseteq Int
ASSUME BoundAssumption == MaxOrderId \in Nat

VARIABLES book,     \* the OrderBook value
          pc,       \* "idle" between commands, "match" inside NewLimitOrder
          taker,    \* the incoming order of NewLimitOrder
          changed,  \* the levels changed so far by NewLimitOrder
          events    \* what the current or last command has emitted

vars == <<book, pc, taker, changed, events>>

NoOrder == [id |-> 0, owner |-> 0, side |-> NullSide, price |-> 0, qty |-> 0]

Init ==
  /\ book = NewOrderBook
  /\ pc = "idle"
  /\ taker = NoOrder
  /\ changed = << >>
  /\ events = << >>

\* NewLimitOrder, the two early returns.
RejectOrder(owner, price, qty) ==
  /\ pc = "idle"
  /\ qty <= 0 \/ price <= 0
  /\ events' = << Rejected(0, owner, IF qty <= 0 THEN "BadQty" ELSE "BadPrice") >>
  /\ UNCHANGED <<book, pc, taker, changed>>

\* NewLimitOrder up to its call of match.
AcceptOrder(owner, side, price, qty) ==
  /\ pc = "idle"
  /\ qty > 0 /\ price > 0
  /\ book.nextOrderId <= MaxOrderId
  /\ taker' = [id |-> book.nextOrderId, owner |-> owner, side |-> side,
               price |-> price, qty |-> qty]
  /\ book' = [book EXCEPT !.nextOrderId = @ + 1]
  /\ events' = << Accepted(taker') >>
  /\ pc' = "match"
  /\ UNCHANGED changed

\* Mutant: orders of one owner do not trade, and the loop does not move on.
MatchBestSkipsOwn ==
  /\ pc = "match"
  /\ crosses(book, taker)
  /\ IF makerOf(book, taker).owner = taker.owner THEN UNCHANGED vars
     ELSE /\ book' = fillBest(book, taker)
          /\ taker' = less(taker, fillQty(makerOf(book, taker), taker))
          /\ changed' = touch(changed, fillLevel(book, taker))
          /\ events' = events \o fillEvents(book, taker)
          /\ UNCHANGED pc

\* One turn of the loop of match.
MatchBest ==
  /\ pc = "match"
  /\ crosses(book, taker)
  /\ book' = fillBest(book, taker)
  /\ taker' = less(taker, fillQty(makerOf(book, taker), taker))
  /\ changed' = touch(changed, fillLevel(book, taker))
  /\ events' = events \o fillEvents(book, taker)
  /\ UNCHANGED pc

\* NewLimitOrder after match: rest what remains and emit the book updates.
FinishOrder ==
  /\ pc = "match"
  /\ ~crosses(book, taker)
  /\ book' = IF taker.qty > 0 THEN restOrder(book, taker) ELSE book
  /\ LET final == IF taker.qty > 0 THEN touch(changed, restLevel(book', taker))
                  ELSE changed
     IN  events' = events \o bookUpdates(final)
  /\ pc' = "idle"
  /\ taker' = NoOrder
  /\ changed' = << >>

\* Cancel, the two early returns.
RejectCancel(id, owner) ==
  /\ pc = "idle"
  /\ \/ /\ id \notin DOMAIN book.orders
        /\ events' = << Rejected(id, owner, "UnknownOrder") >>
     \/ /\ id \in DOMAIN book.orders
        /\ book.orders[id].owner # owner
        /\ events' = << Rejected(id, owner, "NotOwner") >>
  /\ UNCHANGED <<book, pc, taker, changed>>

\* Cancel by the owner.
CancelOrder(id, owner) ==
  /\ pc = "idle"
  /\ id \in DOMAIN book.orders
  /\ book.orders[id].owner = owner
  /\ LET o  == book.orders[id]
         b1 == withoutQty(book, o)
     IN  /\ book' = unlink(b1, id)
         /\ events' = << Canceled(o), BookUpdate(restLevel(b1, o)) >>
  /\ UNCHANGED <<pc, taker, changed>>

Next ==
  \/ \E owner \in Owners, side \in Sides, price \in Prices, qty \in Quantities :
        \/ RejectOrder(owner, price, qty)
        \/ AcceptOrder(owner, side, price, qty)
  \/ MatchBest
  \/ FinishOrder
  \/ \E id \in 1..MaxOrderId, owner \in Owners :
        RejectCancel(id, owner) \/ CancelOrder(id, owner)

Spec == Init /\ [][Next]_vars

\* A call of the engine runs to its end: nothing preempts it.
Fairness == WF_vars(MatchBest) /\ WF_vars(FinishOrder)

-----------------------------------------------------------------------------
Order == [id : Nat \ {0}, owner : Owners, side : Sides, price : Nat \ {0}, qty : Nat]

\* Types of the book and of the locals of NewLimitOrder.
TypeOK ==
  /\ IsBook(book)
  /\ book.orders \in [DOMAIN book.orders -> Order]
  /\ pc \in {"idle", "match"}
  /\ pc = "match" => taker \in Order
  /\ changed \in Seq([side : BookSides \cup Sides, price : Nat \ {0}, totalQty : Int])

-----------------------------------------------------------------------------
(* What makes the book correct.  All of it holds inside a command as well. *)

\* The slices bids and asks are strictly sorted, best price first: the
\* precondition of every binary search in levelIndex, kept by the insertions
\* of restOrder and the removals of unlink.
LevelsSorted == SlicesSorted(book)

\* The order map and the queues hold the same orders, on the right side and at
\* the right price, each with quantity left; a level goes with its last order.
\* unlink, restOrder and the fills of match keep two structures in step.
QueuesMatchOrders ==
  /\ QueuesHoldOrders(book)
  /\ OrdersAreQueued(book)
  /\ \A id \in DOMAIN book.orders : book.orders[id].qty > 0

\* Time priority: queues are in the order of acceptance, so no order is queued
\* twice, and every resting order is older than the one that comes in.
QueuesInArrivalOrder ==
  /\ QueuesAscend(book)
  /\ \A id \in DOMAIN book.orders :
       id < IF pc = "match" THEN taker.id ELSE book.nextOrderId

\* No order to buy is at or above the price of one to sell: match leaves nothing
\* that could still trade.  An order of a side that the engine does not know rests
\* among the asks at any price, and must not break this for the others.
NotCrossed ==
  \A x, y \in DOMAIN book.orders :
    book.orders[x].side = Buy /\ book.orders[y].side = Sell =>
      book.orders[x].price < book.orders[y].price

\* The cached aggregate of a level is the sum of its orders' remaining
\* quantities, in the arithmetic of its 64-bit field: fills, cancels and rests
\* each adjust it by hand.
TotalsMatchQueues == TotalsMatch(book)

\* What each event says was traded.
tradedQtys(evs) == [i \in DOMAIN evs |-> IF evs[i].type = "Trade" THEN evs[i].qty ELSE 0]

\* No quantity is lost or made in a command: what an accepted order asked for
\* is what it traded so far plus what is left of it, in hand or in the book.
TakerAccounted ==
  events # << >> /\ events[1].type = "Accepted" =>
    LET left == IF pc = "match" THEN taker.qty ELSE restingQty(book, events[1].id)
    IN  events[1].qty = sumOf(tradedQtys(events)) + left

\* No trade is worse for the taker than its own limit, each is with an older
\* order, and a command's trades get no better for the taker as match walks the
\* book.  Takers of a side that the engine does not know have no limit and are
\* not covered.
TradesWithinLimit ==
  events # << >> /\ events[1].type = "Accepted" /\ events[1].side \in BookSides =>
    LET bs == OppSide(events[1].side)
        trades == {i \in DOMAIN events : events[i].type = "Trade"}
    IN  \A i \in trades :
          /\ ~Before(bs, events[1].price, events[i].price)
          /\ events[i].maker < events[i].taker
          /\ \A j \in trades : j < i => ~Before(bs, events[i].price, events[j].price)

\* What the resting order under id became is what trade e leaves of it.
LeftBy(e, id) ==
  /\ e.type = "Trade" /\ e.maker = id
  /\ e.price = book.orders[id].price
  /\ IF id \in DOMAIN book'.orders
     THEN book'.orders[id] = less(book.orders[id], e.qty)
     ELSE e.qty = book.orders[id].qty

\* What one step may do to the orders in the book.
TradedOrCanceled ==
  /\ book'.nextOrderId >= book.nextOrderId
  /\ \A id \in DOMAIN book.orders :
       \/ id \in DOMAIN book'.orders /\ book'.orders[id] = book.orders[id]
       \/ \E i \in DOMAIN events' \ DOMAIN events : LeftBy(events'[i], id)
       \/ id \notin DOMAIN book'.orders /\ events'[1] = Canceled(book.orders[id])
  /\ \A id \in DOMAIN book'.orders \ DOMAIN book.orders :
       pc = "match" /\ id = taker.id /\ book'.orders[id] = taker

\* The book and the events tell the same story of every resting order.  It changes
\* only by a trade emitted in that step, at the order's own price and for exactly
\* what the order loses, or leaves by a cancel reported with what it still had;
\* and only what match left of a taker comes into the book.
OnlyTradedOrCanceled == [][TradedOrCanceled]_vars

\* The engine's levels, queues and cached totals implement price-time priority
\* on a plain set of orders: the head of the best level is always the order
\* that match owes the next fill to.
PTP == INSTANCE PriceTimePriority WITH resting <- book.orders,
                                       nextId <- book.nextOrderId,
                                       incoming <- taker

\* The engine implements price-time priority (match, restOrder, Cancel).
ImplementsPriority == PTP!Spec

\* Every command completes: each turn of match uses up the taker or a maker.
CommandCompletes == pc = "match" ~> pc = "idle"
=============================================================================
