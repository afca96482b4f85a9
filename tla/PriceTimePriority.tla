-------------------------- MODULE PriceTimePriority --------------------------
(***************************************************************************)
(* What a limit order book promises, with no levels, queues or caches: a   *)
(* set of resting orders, and the rule that an incoming order trades with  *)
(* the best-priced opposite order, the oldest one among equals, for as     *)
(* long as one is within its limit, and only then rests.                   *)
(***************************************************************************)
EXTENDS Integers

CONSTANTS Owners, Prices, Quantities, MaxOrderId

VARIABLES resting,   \* id -> order, the orders in the book
          nextId,    \* id of the next accepted order
          incoming   \* the order being matched, NoOrder between commands

vars == <<resting, nextId, incoming>>

NoOrder == [id |-> 0, owner |-> 0, side |-> "Null", price |-> 0, qty |-> 0]

Opposite(side) == IF side = "Buy" THEN "Sell" ELSE "Buy"

\* The resting orders the incoming one may trade with.
Tradable ==
  {id \in DOMAIN resting :
     /\ resting[id].side = Opposite(incoming.side)
     /\ IF incoming.side = "Buy" THEN resting[id].price <= incoming.price
        ELSE resting[id].price >= incoming.price}

\* Price priority, then time priority.
HasPriority(id, other) ==
  \/ IF incoming.side = "Buy" THEN resting[id].price < resting[other].price
     ELSE resting[id].price > resting[other].price
  \/ resting[id].price = resting[other].price /\ id <= other

Init == resting = << >> /\ nextId = 1 /\ incoming = NoOrder

Submit(owner, side, price, qty) ==
  /\ incoming = NoOrder
  /\ price > 0 /\ qty > 0
  /\ nextId <= MaxOrderId
  /\ incoming' = [id |-> nextId, owner |-> owner, side |-> side,
                  price |-> price, qty |-> qty]
  /\ nextId' = nextId + 1
  /\ UNCHANGED resting

\* The resting order id gives, and the incoming order takes, fill.
Exchange(id) ==
  /\ incoming # NoOrder /\ incoming.qty > 0
  /\ \A other \in Tradable : HasPriority(id, other)
  /\ LET mine == resting[id].qty
         fill == IF mine < incoming.qty THEN mine ELSE incoming.qty
     IN  /\ incoming' = [incoming EXCEPT !.qty = @ - fill]
         /\ resting' = IF mine = fill
                       THEN [x \in DOMAIN resting \ {id} |-> resting[x]]
                       ELSE [resting EXCEPT ![id].qty = @ - fill]
  /\ UNCHANGED nextId

Complete ==
  /\ incoming # NoOrder
  /\ incoming.qty = 0
  /\ incoming' = NoOrder
  /\ UNCHANGED <<resting, nextId>>

Rest ==
  /\ incoming # NoOrder /\ incoming.qty > 0
  /\ Tradable = {}
  /\ resting' = [x \in DOMAIN resting \cup {incoming.id} |->
                   IF x = incoming.id THEN incoming ELSE resting[x]]
  /\ incoming' = NoOrder
  /\ UNCHANGED nextId

Withdraw(id) ==
  /\ incoming = NoOrder
  /\ resting' = [x \in DOMAIN resting \ {id} |-> resting[x]]
  /\ UNCHANGED <<nextId, incoming>>

Next ==
  \/ \E owner \in Owners, side \in {"Buy", "Sell"}, price \in Prices,
        qty \in Quantities : Submit(owner, side, price, qty)
  \/ \E id \in Tradable : Exchange(id)
  \/ Complete
  \/ Rest
  \/ \E id \in DOMAIN resting : Withdraw(id)

Spec == Init /\ [][Next]_vars
=============================================================================
