------------------------------ MODULE Snapshot ------------------------------
(***************************************************************************)
(* The snapshot of a book and its restoration (go/engine/snapshot.go).  A  *)
(* stream is a header followed by one record per resting order.  Bytes are *)
(* left out: a stream cut inside a record reads like one cut before it,    *)
(* as an error.  The reserved instrument id and the clientOrderId, which   *)
(* nothing reads, are left out too.                                        *)
(***************************************************************************)
EXTENDS Book, FiniteSets

snapshotMagic == "GMS1"
snapshotVersion == 1

\* int8(o.side), and Side(side) back.  Code 2 stands for all that are not known.
sideCode(side) ==
  CASE side = Buy -> 0 [] side = Sell -> 1 [] side = NullSide -> -128 [] OTHER -> 2
sideOf(code) ==
  CASE code = 0 -> Buy [] code = 1 -> Sell [] code = -128 -> NullSide [] OTHER -> UnknownSide

\* An order as it is written.
writeOrder(o) == [o EXCEPT !.side = sideCode(@)]
readOrder(rec) == [rec EXCEPT !.side = sideOf(@)]

\* The orders of one side, level by level, each level's queue in order.
writeSide(b, bs) ==
  flatten([i \in DOMAIN b.levels[bs] |->
                [k \in DOMAIN b.levels[bs][i].fifo |->
                   writeOrder(b.orders[b.levels[bs][i].fifo[k]])]])

\* Mutant: bids come worst price first, and from the back of their queues.
TakeSnapshotBackwards(b) ==
  << [magic |-> snapshotMagic, version |-> snapshotVersion,
      nextOrderId |-> b.nextOrderId, count |-> Cardinality(DOMAIN b.orders)] >>
  \o [i \in 1..Len(writeSide(b, Buy)) |-> writeSide(b, Buy)[Len(writeSide(b, Buy)) + 1 - i]]
  \o writeSide(b, Sell)

TakeSnapshot(b) ==
  << [magic |-> snapshotMagic, version |-> snapshotVersion,
      nextOrderId |-> b.nextOrderId, count |-> Cardinality(DOMAIN b.orders)] >>
  \o writeSide(b, Buy) \o writeSide(b, Sell)

\* No read fails: a header that is ours, and all the records it announces.
readable(stream) ==
  /\ stream # << >>
  /\ stream[1].magic = snapshotMagic
  /\ stream[1].version = snapshotVersion
  /\ Len(stream) >= 1 + stream[1].count

\* Rests orders one by one, without matching.
restAll(b, orders) ==
  LET after[n \in 0..Len(orders)] ==
        IF n = 0 THEN b ELSE restOrder(after[n - 1], orders[n])
  IN  after[Len(orders)]

\* The records that the header announces, as orders.
ordersOf(stream) == [i \in 1..stream[1].count |-> readOrder(stream[i + 1])]

\* Mutant: the id sequence starts again.
RestoreOrderBookFresh(stream) == restAll(NewOrderBook, ordersOf(stream))

\* Re-rests the orders and continues the ids.
RestoreOrderBook(stream) ==
  [restAll(NewOrderBook, ordersOf(stream)) EXCEPT !.nextOrderId = stream[1].nextOrderId]
=============================================================================
