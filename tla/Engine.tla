------------------------------- MODULE Engine -------------------------------
(***************************************************************************)
(* The two commands of the engine (go/engine/order_book.go) as functions   *)
(* from a book to a book and its events, for the modules that treat a      *)
(* command as one step.  Module Recovery checks them against the state     *)
(* machine of module OrderBook.                                            *)
(***************************************************************************)
EXTENDS Book, FiniteSets

\* One turn of the loop of match, or nothing when its condition is false, on what
\* NewLimitOrder has: the book, the taker, the changed levels and the events.
turn(w) ==
  IF ~crosses(w.book, w.taker) THEN w
  ELSE [book    |-> fillBest(w.book, w.taker),
        taker   |-> less(w.taker, fillQty(makerOf(w.book, w.taker), w.taker)),
        changed |-> touch(w.changed, fillLevel(w.book, w.taker)),
        events  |-> w.events \o fillEvents(w.book, w.taker)]

\* Each turn but the last uses up a maker, so there are no more turns than orders.
match(w) == iterate(turn, w, Cardinality(DOMAIN w.book.orders))

\* NewLimitOrder of a positive quantity and price.
matchAndRest(b, owner, side, price, qty) ==
  LET o == [id |-> b.nextOrderId, owner |-> owner, side |-> side,
            price |-> price, qty |-> qty]
      w == match([book |-> [b EXCEPT !.nextOrderId = @ + 1], taker |-> o,
                  changed |-> << >>, events |-> << Accepted(o) >>])
      rested == IF w.taker.qty > 0 THEN restOrder(w.book, w.taker) ELSE w.book
      final  == IF w.taker.qty > 0 THEN touch(w.changed, restLevel(rested, w.taker))
                ELSE w.changed
  IN  [book |-> rested, events |-> w.events \o bookUpdates(final)]

refuse(b, event) == [book |-> b, events |-> << event >>]

\* Mutant: an order for nothing gets through.
NewLimitOrderOfNothing(b, owner, side, price, qty) ==
  CASE qty < 0 -> refuse(b, Rejected(0, owner, "BadQty"))
    [] qty >= 0 /\ price <= 0 -> refuse(b, Rejected(0, owner, "BadPrice"))
    [] OTHER -> matchAndRest(b, owner, side, price, qty)

NewLimitOrder(b, owner, side, price, qty) ==
  CASE qty <= 0 -> refuse(b, Rejected(0, owner, "BadQty"))
    [] qty > 0 /\ price <= 0 -> refuse(b, Rejected(0, owner, "BadPrice"))
    [] OTHER -> matchAndRest(b, owner, side, price, qty)

Cancel(b, id, owner) ==
  CASE id \notin DOMAIN b.orders -> refuse(b, Rejected(id, owner, "UnknownOrder"))
    [] id \in DOMAIN b.orders /\ b.orders[id].owner # owner ->
         refuse(b, Rejected(id, owner, "NotOwner"))
    [] OTHER ->
         LET b1 == withoutQty(b, b.orders[id])
         IN  [book   |-> unlink(b1, id),
              events |-> << Canceled(b.orders[id]), BookUpdate(restLevel(b1, b.orders[id])) >>]
=============================================================================
