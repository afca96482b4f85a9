----------------------------- MODULE LinkedBook -----------------------------
(***************************************************************************)
(* The engine with the data structures it really has: order and level      *)
(* objects that point at each other.  Translated from the Java twin        *)
(* (engine/OrderBook.java); the Go engine has the same fields and code.    *)
(*                                                                         *)
(* A level is a reference, and slices and the list of changed levels hold  *)
(* references: touch compares identities, and the closing book updates     *)
(* read the aggregates of levels that may have left their slice.  What     *)
(* nothing points to any more is dropped when a command ends.              *)
(***************************************************************************)
EXTENDS Integers, Sequences, SequencesExt, FiniteSetsExt

CONSTANTS MaxInt64, Owners, Prices, Quantities, MaxOrderId

VARIABLES slices,        \* "Buy" -> bids, "Sell" -> asks: sequences of references
          level,         \* reference -> [price, totalQty, head, tail]
          orders,        \* the map: id -> order object
          nextOrderId,
          pc, taker,     \* control and the incoming order of newLimitOrder
          changed,       \* references of the changed levels
          changedSides,  \* and the side each was changed on
          events

linkedVars == <<slices, level, orders, nextOrderId, pc, taker, changed,
                changedSides, events>>

\* The pure operators on a book: arithmetic, event constructors, search.
B == INSTANCE Book

Nil == 0   \* the null pointer; ids and references start at 1

NoOrder == [id |-> 0, owner |-> 0, side |-> "Null", price |-> 0, qty |-> 0]

Init ==
  /\ slices = [bs \in {"Buy", "Sell"} |-> << >>]
  /\ level = << >>
  /\ orders = << >>
  /\ nextOrderId = 1
  /\ pc = "idle"
  /\ taker = NoOrder
  /\ changed = << >>
  /\ changedSides = << >>
  /\ events = << >>

-----------------------------------------------------------------------------
(* The heap as a record, so that the private methods are operators on it.  *)

heap == [slices |-> slices, level |-> level, orders |-> orders]

\* The slice a reference list stands for, as levelIndex reads it.
prices(h, bs) == [i \in DOMAIN h.slices[bs] |-> h.level[h.slices[bs][i]]]

levelIndex(h, price, bs) == B!levelIndex(prices(h, bs), price, bs)

newRef(h) == Min({n \in 1..(Cardinality(DOMAIN h.level) + 1) : n \notin DOMAIN h.level})

put(f, k, v) == [x \in DOMAIN f \cup {k} |-> IF x = k THEN v ELSE f[x]]
drop(f, k) == [x \in DOMAIN f \ {k} |-> f[x]]

\* The order with its pointer fields, none of them set.
object(o) == [id |-> o.id, owner |-> o.owner, side |-> o.side, price |-> o.price,
              qty |-> o.qty, level |-> Nil, prev |-> Nil, next |-> Nil]

\* Mutant: a new tail does not point back.
enqueueOneWay(h, ref, o) ==
  LET tail == h.level[ref].tail
      h1   == [h EXCEPT !.level[ref].tail = o.id,
                        !.level[ref].totalQty = B!Wrap(@ + o.qty)]
  IN  IF tail = Nil
      THEN [h1 EXCEPT !.level[ref].head = o.id,
                      !.orders = put(@, o.id, [o EXCEPT !.level = ref])]
      ELSE [h1 EXCEPT !.orders = put([@ EXCEPT ![tail].next = o.id], o.id,
                                     [o EXCEPT !.level = ref])]

\* The second half of restOrder: the order becomes the tail of the level's list.
enqueue(h, ref, o) ==
  LET tail == h.level[ref].tail
      h1   == [h EXCEPT !.level[ref].tail = o.id,
                        !.level[ref].totalQty = B!Wrap(@ + o.qty)]
  IN  IF tail = Nil
      THEN [h1 EXCEPT !.level[ref].head = o.id,
                      !.orders = put(@, o.id, [o EXCEPT !.level = ref])]
      ELSE [h1 EXCEPT !.orders = put([@ EXCEPT ![tail].next = o.id], o.id,
                                     [o EXCEPT !.level = ref, !.prev = tail])]

\* restOrder: find the level or insert a new one, then enqueue.
restOrder(h, o) ==
  LET bs == B!BookSide(o.side)
      i  == levelIndex(h, o.price, bs)
      new == newRef(h)
  IN  IF B!found(prices(h, bs), i, o.price)
      THEN enqueue(h, h.slices[bs][i], o)
      ELSE enqueue([h EXCEPT !.slices[bs] = InsertAt(@, i, new),
                             !.level = put(@, new, [price |-> o.price, totalQty |-> 0,
                                                    head |-> Nil, tail |-> Nil])],
                   new, o)

\* unlink: out of the doubly linked list and the map, and an empty level out of
\* its slice.  The level itself lives on for those that hold a reference.
unlink(h, id) ==
  LET o  == h.orders[id]
      h1 == IF o.prev # Nil THEN [h EXCEPT !.orders[o.prev].next = o.next]
            ELSE [h EXCEPT !.level[o.level].head = o.next]
      h2 == IF o.next # Nil THEN [h1 EXCEPT !.orders[o.next].prev = o.prev]
            ELSE [h1 EXCEPT !.level[o.level].tail = o.prev]
      h3 == [h2 EXCEPT !.orders = drop(@, id)]
      bs == B!BookSide(o.side)
      i  == levelIndex(h3, h3.level[o.level].price, bs)
  IN  IF h3.level[o.level].head = Nil /\ B!found(prices(h3, bs), i, h3.level[o.level].price)
      THEN [h3 EXCEPT !.slices[bs] = RemoveAt(@, i)] ELSE h3

\* Stores a heap; a level stays while a slice or a changed list has it.
store(h, held) ==
  LET live == ToSet(h.slices["Buy"]) \cup ToSet(h.slices["Sell"]) \cup ToSet(held)
  IN  /\ slices' = h.slices
      /\ level' = [ref \in DOMAIN h.level \cap live |-> h.level[ref]]
      /\ orders' = h.orders

-----------------------------------------------------------------------------
(* newLimitOrder and match. *)

RejectOrder(owner, price, qty) ==
  /\ pc = "idle"
  /\ qty <= 0 \/ price <= 0
  /\ events' = << B!Rejected(0, owner, IF qty <= 0 THEN "BadQty" ELSE "BadPrice") >>
  /\ UNCHANGED <<slices, level, orders, nextOrderId, pc, taker, changed, changedSides>>

AcceptOrder(owner, side, price, qty) ==
  /\ pc = "idle"
  /\ qty > 0 /\ price > 0
  /\ nextOrderId <= MaxOrderId
  /\ nextOrderId' = nextOrderId + 1
  /\ taker' = [id |-> nextOrderId, owner |-> owner, side |-> side,
               price |-> price, qty |-> qty]
  /\ events' = << B!Accepted(taker') >>
  /\ pc' = "match"
  /\ UNCHANGED <<slices, level, orders, changed, changedSides>>

opp == slices[B!OppSide(taker.side)]

\* The loop condition of match and its breaks.
matching ==
  /\ taker.qty > 0
  /\ opp # << >>
  /\ taker.side = "Buy" => level[opp[1]].price <= taker.price
  /\ taker.side = "Sell" => level[opp[1]].price >= taker.price

\* Mutant: every change is recorded.
touchAlways(ref, side) ==
  /\ changed' = Append(changed, ref)
  /\ changedSides' = Append(changedSides, side)

\* touch: by identity, on first change only.
touch(ref, side) ==
  IF ref \in ToSet(changed) THEN UNCHANGED <<changed, changedSides>>
  ELSE /\ changed' = Append(changed, ref)
       /\ changedSides' = Append(changedSides, side)

MatchBest ==
  /\ pc = "match"
  /\ matching
  /\ LET best  == opp[1]
         price == level[best].price
         maker == orders[level[best].head]
         fill  == B!fillQty(maker, taker)
         h     == [heap EXCEPT !.orders[maker.id].qty = @ - fill,
                               !.level[best].totalQty = B!Wrap(@ - fill)]
     IN  /\ taker' = B!less(taker, fill)
         /\ touch(best, B!OppSide(taker.side))
         /\ events' = events \o << B!Trade(maker, taker, price, fill),
                                   B!Filled(B!less(maker, fill), price, fill),
                                   B!Filled(taker', price, fill) >>
         /\ store(IF maker.qty = fill THEN unlink(h, maker.id) ELSE h, changed')
  /\ UNCHANGED <<nextOrderId, pc>>

\* Rests the remainder, touches its level, and reads the changed levels.
FinishOrder ==
  /\ pc = "match"
  /\ ~matching
  /\ LET h   == IF taker.qty > 0 THEN restOrder(heap, object(taker)) ELSE heap
         ref == IF taker.qty > 0 THEN h.orders[taker.id].level ELSE Nil
         all == IF ref = Nil \/ ref \in ToSet(changed) THEN changed ELSE Append(changed, ref)
         sides == changedSides \o <<taker.side>>
     IN  /\ store(h, << >>)
         /\ events' = events \o [i \in DOMAIN all |->
              B!BookUpdate([side |-> sides[i], price |-> h.level[all[i]].price,
                            totalQty |-> h.level[all[i]].totalQty])]
  /\ pc' = "idle"
  /\ taker' = NoOrder
  /\ changed' = << >>
  /\ changedSides' = << >>
  /\ UNCHANGED nextOrderId

-----------------------------------------------------------------------------
(* cancel. *)

RejectCancel(id, owner) ==
  /\ pc = "idle"
  /\ \/ id \notin DOMAIN orders /\ events' = << B!Rejected(id, owner, "UnknownOrder") >>
     \/ /\ id \in DOMAIN orders /\ orders[id].owner # owner
        /\ events' = << B!Rejected(id, owner, "NotOwner") >>
  /\ UNCHANGED <<slices, level, orders, nextOrderId, pc, taker, changed, changedSides>>

CancelOrder(id, owner) ==
  /\ pc = "idle"
  /\ id \in DOMAIN orders
  /\ orders[id].owner = owner
  /\ LET o == orders[id]
         h == unlink([heap EXCEPT !.level[o.level].totalQty = B!Wrap(@ - o.qty)], id)
     IN  /\ store(h, << >>)
         /\ events' = << B!Canceled(o),
                         B!BookUpdate([side |-> o.side, price |-> h.level[o.level].price,
                                       totalQty |-> h.level[o.level].totalQty]) >>
  /\ UNCHANGED <<nextOrderId, pc, taker, changed, changedSides>>

Next ==
  \/ \E owner \in Owners, price \in Prices, qty \in Quantities :
        \/ RejectOrder(owner, price, qty)
        \/ \E side \in {"Buy", "Sell"} : AcceptOrder(owner, side, price, qty)
  \/ MatchBest
  \/ FinishOrder
  \/ \E id \in 1..MaxOrderId, owner \in Owners :
        RejectCancel(id, owner) \/ CancelOrder(id, owner)

Spec == Init /\ [][Next]_linkedVars

-----------------------------------------------------------------------------
\* The list of a level: it starts at head and ends at tail, and next and prev
\* are each other's inverse on it.
Linked(ref) ==
  LET members == {id \in DOMAIN orders : orders[id].level = ref}
      l == level[ref]
  IN  /\ members # {}
      /\ {l.head, l.tail} \subseteq members
      /\ \A id \in members :
           /\ orders[id].prev = Nil <=> id = l.head
           /\ orders[id].next = Nil <=> id = l.tail
           /\ id # l.head => orders[id].prev \in members /\ orders[orders[id].prev].next = id
           /\ id # l.tail => orders[id].next \in members /\ orders[orders[id].next].prev = id

\* Every level in a slice has a sound doubly linked list, no level is in two
\* slices or twice in one, and no resting order points to a level that has left
\* the book: unlink and restOrder rewire up to four pointers and a mistake in
\* one shows only when a neighbour is unlinked later.
PointersSound ==
  LET refs == slices["Buy"] \o slices["Sell"]
  IN  /\ IsInjective(refs)
      /\ \A ref \in ToSet(refs) : Linked(ref)
      /\ \A id \in DOMAIN orders : orders[id].level \in ToSet(refs)

\* The ids from this order to the tail of its list.
RECURSIVE fifoFrom(_)
fifoFrom(id) == IF id = Nil THEN << >> ELSE <<id>> \o fifoFrom(orders[id].next)

queueOf(ref) ==
  [price |-> level[ref].price, totalQty |-> level[ref].totalQty,
   fifo |-> fifoFrom(level[ref].head)]

plain(o) == [id |-> o.id, owner |-> o.owner, side |-> o.side, price |-> o.price, qty |-> o.qty]

Engine == INSTANCE OrderBook WITH
  Sides <- {"Buy", "Sell"},
  book <- [levels |-> [bs \in {"Buy", "Sell"} |->
                         [i \in DOMAIN slices[bs] |-> queueOf(slices[bs][i])]],
           orders |-> [id \in DOMAIN orders |-> plain(orders[id])],
           nextOrderId |-> nextOrderId],
  changed <- [i \in DOMAIN changed |->
                [side |-> changedSides[i], price |-> level[changed[i]].price,
                 totalQty |-> level[changed[i]].totalQty]]

\* The linked structures implement the engine on sequences, event for event:
\* walking the lists gives the queues, and updates read late through level
\* references are those of the values recorded at the time.
ImplementsBook == Engine!Spec
=============================================================================
