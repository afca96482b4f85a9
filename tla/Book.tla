-------------------------------- MODULE Book --------------------------------
(***************************************************************************)
(* The data of the limit order book (go/engine/order_book.go) and the pure *)
(* steps its methods are made of.  A book is one record:                   *)
(*                                                                         *)
(*   levels       the slices bids and asks, each best price first; a level *)
(*                is its price, its cached aggregate totalQty and its      *)
(*                linked list of orders, oldest first, as a FIFO of ids;   *)
(*   orders       the map from order id to resting order;                  *)
(*   nextOrderId  the id the next accepted order gets.                     *)
(*                                                                         *)
(* The clientOrderId is a payload echoed back to the owner and is left     *)
(* out.  An order's level pointer is the level of its price on its side.   *)
(* Slices are 0-based in Go and 1-based here.                              *)
(***************************************************************************)
EXTENDS Slices

CONSTANT MaxInt64   \* largest value of the signed integer type of quantities

ASSUME MaxIntAssumption == MaxInt64 \in Nat \ {0}

Buy == "Buy"
Sell == "Sell"
NullSide == "Null"         \* the null value -128 of the wire enumeration
UnknownSide == "Unknown"   \* a value that the enumeration does not have

BookSides == {Buy, Sell}

\* Two's complement arithmetic on the signed type whose maximum is MaxInt64.
Wrap(n) == ((n + MaxInt64 + 1) % (2 * (MaxInt64 + 1))) - (MaxInt64 + 1)

\* The slice an order of this side rests in: bids for Buy, else asks.
BookSide(side) == IF side = Buy THEN Buy ELSE Sell

\* The slice an order of this side trades against: bids for Sell, else asks.
OppSide(side) == IF side = Sell THEN Buy ELSE Sell

\* Price p ranks strictly before price q in the slice bs.
Before(bs, p, q) == IF bs = Buy THEN p > q ELSE p < q

\* What the comments on bids and asks promise: strictly sorted, best-first.
SortedSlice(lv, bs) ==
  \A i, j \in 1..Len(lv) : i < j => Before(bs, lv[i].price, lv[j].price)

NewOrderBook ==
  [levels |-> [bs \in BookSides |-> << >>], orders |-> << >>, nextOrderId |-> 1]

\* Exactly the levels before index i rank before the price.
inPlace(levels, price, bs, i) ==
  /\ \A j \in 1..(i - 1) : Before(bs, levels[j].price, price)
  /\ i <= Len(levels) => ~Before(bs, levels[i].price, price)

\* Mutant: bids are searched as if they were sorted like asks.
levelIndexAscending(levels, price, bs) ==
  CHOOSE i \in 1..(Len(levels) + 1) : inPlace(levels, price, Sell, i)

(***************************************************************************)
(* The index of the level of this price, or the one it has to be inserted  *)
(* at.  Module LevelSearch has the code's binary search and shows that it  *)
(* returns this index on every sorted slice.                               *)
(***************************************************************************)
levelIndex(levels, price, bs) ==
  CHOOSE i \in 1..(Len(levels) + 1) : inPlace(levels, price, bs, i)

\* Does the index returned by levelIndex hold the price itself?
found(levels, i, price) == i <= Len(levels) /\ levels[i].price = price

\* The book with one slice and the order map replaced.
putSlice(b, bs, lv, orders) == [b EXCEPT !.levels[bs] = lv, !.orders = orders]

\* Mutant: the order goes to the front of the queue.
withOrderInFront(lv, i, o) ==
  LET old == IF found(lv, i, o.price) THEN lv[i]
             ELSE [price |-> o.price, totalQty |-> 0, fifo |-> << >>]
  IN  [old EXCEPT !.fifo = <<o.id>> \o @, !.totalQty = Wrap(@ + o.qty)]

\* The i-th level of a slice, or a new one of the order's price, with the order
\* at the back of its queue.
withOrder(lv, i, o) ==
  LET old == IF found(lv, i, o.price) THEN lv[i]
             ELSE [price |-> o.price, totalQty |-> 0, fifo |-> << >>]
  IN  [old EXCEPT !.fifo = Append(@, o.id), !.totalQty = Wrap(@ + o.qty)]

(***************************************************************************)
(* Appends an order to the queue of its price's level, which is inserted   *)
(* in price order when there is none.                                      *)
(***************************************************************************)
restOrder(b, o) ==
  LET bs == BookSide(o.side)
      lv == b.levels[bs]
      i  == levelIndex(lv, o.price, bs)
  IN  putSlice(b, bs,
        IF found(lv, i, o.price) THEN replaceAt(lv, i, withOrder(lv, i, o))
        ELSE insertAt(lv, i, withOrder(lv, i, o)),
        [id \in DOMAIN b.orders \cup {o.id} |-> IF id = o.id THEN o ELSE b.orders[id]])

\* The level that an order's level pointer points to, as an index of its slice.
levelOf(b, o) == levelIndex(b.levels[BookSide(o.side)], o.price, BookSide(o.side))

\* Adds n to the aggregate of the i-th level of a slice.
addToTotal(lv, i, n) == replaceAt(lv, i, [lv[i] EXCEPT !.totalQty = Wrap(@ + n)])

(***************************************************************************)
(* Takes an order out of its level's queue and out of the map, and the     *)
(* level out of its slice when its queue is empty.  The aggregate is the   *)
(* caller's business.                                                      *)
(***************************************************************************)
unlink(b, id) ==
  LET o  == b.orders[id]
      bs == BookSide(o.side)
      lv == b.levels[bs]
      i  == levelOf(b, o)
      k  == CHOOSE n \in DOMAIN lv[i].fifo : lv[i].fifo[n] = id
      fifo == removeAt(lv[i].fifo, k)
  IN  putSlice(b, bs,
        IF fifo = << >> THEN removeAt(lv, i)
        ELSE replaceAt(lv, i, [lv[i] EXCEPT !.fifo = fifo]),
        [x \in DOMAIN b.orders \ {id} |-> b.orders[x]])

-----------------------------------------------------------------------------
(* Events (go/engine/events.go): the tagged union, one constructor per tag. *)

Accepted(o) ==
  [type |-> "Accepted", id |-> o.id, owner |-> o.owner, side |-> o.side,
   price |-> o.price, qty |-> o.qty]

Rejected(id, owner, reason) ==
  [type |-> "Rejected", id |-> id, owner |-> owner, reason |-> reason]

Trade(maker, taker, price, fill) ==
  [type |-> "Trade", price |-> price, qty |-> fill, maker |-> maker.id,
   taker |-> taker.id, makerOwner |-> maker.owner, takerOwner |-> taker.owner]

Filled(o, price, fill) ==
  [type |-> "Filled", id |-> o.id, owner |-> o.owner, side |-> o.side,
   price |-> price, qty |-> fill, remaining |-> o.qty]

Canceled(o) ==
  [type |-> "Canceled", id |-> o.id, owner |-> o.owner, side |-> o.side,
   price |-> o.price, remaining |-> o.qty]

BookUpdate(c) ==
  [type |-> "BookUpdate", side |-> c.side, price |-> c.price,
   aggregate |-> c.totalQty]

-----------------------------------------------------------------------------
(* Matching. *)

\* Mutants: an equal price does not match; a seller's limit is not looked at.
crossesStrictly(b, taker) ==
  LET opp == b.levels[OppSide(taker.side)]
  IN  /\ taker.qty > 0
      /\ opp # << >>
      /\ taker.side = Buy => opp[1].price < taker.price
      /\ taker.side = Sell => opp[1].price > taker.price
crossesAnyBid(b, taker) ==
  LET opp == b.levels[OppSide(taker.side)]
  IN  /\ taker.qty > 0
      /\ opp # << >>
      /\ taker.side = Buy => opp[1].price <= taker.price

\* The loop of match goes round again: no break is taken.
crosses(b, taker) ==
  LET opp == b.levels[OppSide(taker.side)]
  IN  /\ taker.qty > 0
      /\ opp # << >>
      /\ taker.side = Buy => opp[1].price <= taker.price
      /\ taker.side = Sell => opp[1].price >= taker.price

\* The order at the head of the best opposite level.
makerOf(b, taker) == b.orders[Head(b.levels[OppSide(taker.side)][1].fifo)]

\* Mutant: the taker is always filled.
fillQtyOfTaker(maker, taker) == taker.qty

fillQty(maker, taker) == IF maker.qty < taker.qty THEN maker.qty ELSE taker.qty

\* An order with fill less remaining quantity.
less(o, fill) == [o EXCEPT !.qty = @ - fill]

\* Mutant: a maker with nothing left stays.
fillBestKeepsMaker(b, taker) ==
  LET bs    == OppSide(taker.side)
      maker == makerOf(b, taker)
      fill  == fillQty(maker, taker)
  IN  putSlice(b, bs, addToTotal(b.levels[bs], 1, -fill),
               [b.orders EXCEPT ![maker.id] = less(maker, fill)])

(***************************************************************************)
(* One turn of the loop of match: trade with the head of the best level,   *)
(* and unlink it when nothing remains of it.                               *)
(***************************************************************************)
fillBest(b, taker) ==
  LET bs    == OppSide(taker.side)
      maker == makerOf(b, taker)
      fill  == fillQty(maker, taker)
      b1    == putSlice(b, bs, addToTotal(b.levels[bs], 1, -fill),
                        [b.orders EXCEPT ![maker.id] = less(maker, fill)])
  IN  IF maker.qty = fill THEN unlink(b1, maker.id) ELSE b1

\* Mutants: the trade is for all the maker has; it is at the taker's price; the
\* reports have the quantities from before the fill.
fillEventsOfMaker(b, taker) ==
  LET maker == makerOf(b, taker)
      fill  == fillQty(maker, taker)
      price == b.levels[OppSide(taker.side)][1].price
  IN  << Trade(maker, taker, price, maker.qty),
         Filled(less(maker, fill), price, fill),
         Filled(less(taker, fill), price, fill) >>
fillEventsAtLimit(b, taker) ==
  LET maker == makerOf(b, taker)
      fill  == fillQty(maker, taker)
  IN  << Trade(maker, taker, taker.price, fill),
         Filled(less(maker, fill), taker.price, fill),
         Filled(less(taker, fill), taker.price, fill) >>
fillEventsStale(b, taker) ==
  LET maker == makerOf(b, taker)
      fill  == fillQty(maker, taker)
      price == b.levels[OppSide(taker.side)][1].price
  IN  << Trade(maker, taker, price, fill),
         Filled(maker, price, fill),
         Filled(taker, price, fill) >>

\* What that turn emits.
fillEvents(b, taker) ==
  LET maker == makerOf(b, taker)
      fill  == fillQty(maker, taker)
      price == b.levels[OppSide(taker.side)][1].price
  IN  << Trade(maker, taker, price, fill),
         Filled(less(maker, fill), price, fill),
         Filled(less(taker, fill), price, fill) >>

\* The level that turn changes: its side, its price and its new aggregate.
fillLevel(b, taker) ==
  LET best == b.levels[OppSide(taker.side)][1]
  IN  [side |-> OppSide(taker.side), price |-> best.price,
       totalQty |-> Wrap(best.totalQty - fillQty(makerOf(b, taker), taker))]

\* Mutant: levels are told apart by their price only.
touchByPrice(changed, c) ==
  IF \E i \in DOMAIN changed : changed[i].price = c.price THEN changed
  ELSE Append(changed, c)

(***************************************************************************)
(* Records a changed level, once, in the order of first change.  The code  *)
(* keeps pointers and reads the aggregates at the end; here the entry is   *)
(* brought up to date, since every change of an aggregate is followed by   *)
(* touch.  Side and price identify a level within one command.             *)
(***************************************************************************)
touch(changed, c) ==
  IF \E i \in DOMAIN changed : changed[i].side = c.side /\ changed[i].price = c.price
  THEN [i \in DOMAIN changed |->
          IF changed[i].side = c.side /\ changed[i].price = c.price
          THEN c ELSE changed[i]]
  ELSE Append(changed, c)

\* The level an order rests in, as touch records it.
restLevel(b, o) ==
  [side |-> o.side, price |-> o.price,
   totalQty |-> b.levels[BookSide(o.side)][levelOf(b, o)].totalQty]

\* The closing batch of NewLimitOrder: one update per changed level.
bookUpdates(changed) == [i \in DOMAIN changed |-> BookUpdate(changed[i])]

\* Mutant: the aggregate is left alone.
withoutQtyKept(b, o) == b

\* Cancel up to its call of unlink: the order's quantity leaves the aggregate.
withoutQty(b, o) ==
  LET bs == BookSide(o.side)
  IN  putSlice(b, bs, addToTotal(b.levels[bs], levelOf(b, o), -o.qty), b.orders)

-----------------------------------------------------------------------------
(* What makes a book correct.  Module OrderBook states it of the engine.    *)

IsOrder(o) ==
  o \in [id : Nat \ {0}, owner : {o.owner}, side : {Buy, Sell, NullSide, UnknownSide},
         price : Nat \ {0}, qty : Nat]

IsOrderMap(m) ==
  /\ DOMAIN m \subseteq Nat \ {0}
  /\ m = [id \in DOMAIN m |-> m[id]]
  /\ \A id \in DOMAIN m : IsOrder(m[id])

Level == [price : Nat \ {0}, totalQty : Int, fifo : Seq(Nat \ {0})]

IsBook(b) ==
  /\ b = [levels |-> b.levels, orders |-> b.orders, nextOrderId |-> b.nextOrderId]
  /\ b.levels \in [BookSides -> Seq(Level)]
  /\ IsOrderMap(b.orders)
  /\ b.nextOrderId \in Nat \ {0}

\* Both slices are sorted.
SlicesSorted(b) == \A bs \in BookSides : SortedSlice(b.levels[bs], bs)

\* The levels of one side of a book.
levelsOf(b, bs) == Range(b.levels[bs])

\* Every queued id is a resting order of that side and price; no level is empty.
QueuesHoldOrders(b) ==
  \A bs \in BookSides : \A lvl \in levelsOf(b, bs) :
    /\ lvl.fifo # << >>
    /\ \A id \in Range(lvl.fifo) : /\ id \in DOMAIN b.orders
                                  /\ BookSide(b.orders[id].side) = bs
                                  /\ b.orders[id].price = lvl.price

\* Every resting order is under its own id in the map, and queued.
OrdersAreQueued(b) ==
  \A id \in DOMAIN b.orders :
    /\ b.orders[id].id = id
    /\ \E lvl \in levelsOf(b, BookSide(b.orders[id].side)) : id \in Range(lvl.fifo)

\* Older first: ids are given out in the order of acceptance.
Ascending(fifo) == \A k, l \in 1..Len(fifo) : k < l => fifo[k] < fifo[l]

QueuesAscend(b) ==
  \A bs \in BookSides : \A lvl \in levelsOf(b, bs) : Ascending(lvl.fifo)

\* The quantity an id still has in the book.
restingQty(b, id) == IF id \in DOMAIN b.orders THEN b.orders[id].qty ELSE 0

\* What the orders of a queue have left, as a sequence.
quantities(b, fifo) == [k \in DOMAIN fifo |-> restingQty(b, fifo[k])]

\* The aggregate of every level is the sum of its orders' remaining quantities,
\* in the arithmetic of its field.
TotalsMatch(b) ==
  \A bs \in BookSides : \A lvl \in levelsOf(b, bs) :
    lvl.totalQty = Wrap(sumOf(quantities(b, lvl.fifo)))

\* The structure every method of the engine relies on.
WellFormed(b) ==
  /\ IsBook(b)
  /\ SlicesSorted(b)
  /\ QueuesHoldOrders(b)
  /\ OrdersAreQueued(b)
  /\ QueuesAscend(b)

\* Every resting order has quantity left and an id below the limit.
OrdersBelow(b, limit) ==
  \A id \in DOMAIN b.orders : b.orders[id].qty > 0 /\ id < limit

\* NotCrossed of any book: fills and cancels only take orders away, and an order
\* rests only when it crosses no order.
OrdersNotCrossed(b) ==
  \A x, y \in DOMAIN b.orders :
    b.orders[x].side = Buy /\ b.orders[y].side = Sell => b.orders[x].price < b.orders[y].price

\* A book between two commands, or inside one whose order has the id limit.
GoodBook(b, limit) ==
  /\ WellFormed(b)
  /\ OrdersBelow(b, limit)
  /\ OrdersNotCrossed(b)
  /\ TotalsMatch(b)
=============================================================================
