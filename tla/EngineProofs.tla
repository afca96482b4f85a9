---------------------------- MODULE EngineProofs ----------------------------
(***************************************************************************)
(* What the engine's functions do to a book: a snapshot gives back the     *)
(* book that it was taken of, match comes to an end, and NewLimitOrder and *)
(* Cancel return a book as good as the one they were given.                *)
(***************************************************************************)
EXTENDS BookProofs, FiniteSetTheorems

-----------------------------------------------------------------------------
(* A well-formed book is determined by its orders and its next id. *)

\* The ids that rest on one side at one price.
idsAt(b, bs, p) == {x \in DOMAIN b.orders : BookSide(b.orders[x].side) = bs /\ b.orders[x].price = p}

\* A queue holds them all.
LEMMA QueueIs ==
  ASSUME NEW b, WellFormed(b), NEW bs \in BookSides, NEW l \in levelsOf(b, bs)
  PROVE  Range(l.fifo) = idsAt(b, bs, l.price)
<1> DEFINE lv == b.levels[bs]
<1>1. levelsOf(b, bs) = {lv[j] : j \in 1..Len(lv)}
  BY SliceFacts
<1>2. \A i, j \in 1..Len(lv) : i # j => lv[i].price # lv[j].price
  BY SliceFacts
<1>3. ASSUME NEW x \in Range(l.fifo) PROVE x \in idsAt(b, bs, l.price)
  BY DEF WellFormed, QueuesHoldOrders, idsAt
<1>4. ASSUME NEW x \in idsAt(b, bs, l.price) PROVE x \in Range(l.fifo)
  <2>1. x \in DOMAIN b.orders /\ BookSide(b.orders[x].side) = bs /\ b.orders[x].price = l.price
    BY DEF idsAt
  <2>2. PICK m \in levelsOf(b, bs) : x \in Range(m.fifo)
    BY <2>1 DEF WellFormed, OrdersAreQueued
  <2>3. m.price = l.price
    BY <2>1, <2>2 DEF WellFormed, QueuesHoldOrders
  <2>4. m = l
    BY <1>1, <1>2, <2>3
  <2>5. QED
    BY <2>2, <2>4
<1>5. QED
  BY <1>3, <1>4, Zenon

\* The prices of a slice, as a sequence.
prices(lv) == [j \in 1..Len(lv) |-> lv[j].price]

\* The prices at which orders rest on one side.
pricesOf(b, bs) ==
  {b.orders[x].price : x \in {y \in DOMAIN b.orders : BookSide(b.orders[y].side) = bs}}

\* They are sorted, and those at which orders rest.
LEMMA PricesAre ==
  ASSUME NEW b, WellFormed(b), NEW bs \in BookSides, NEW lv, lv = b.levels[bs]
  PROVE  /\ prices(lv) \in Seq(Int) /\ Ranked(prices(lv), bs) /\ Len(prices(lv)) = Len(lv)
         /\ Range(prices(lv)) = pricesOf(b, bs)
<1>1. lv \in Seq(Level) /\ Len(lv) \in Nat /\ SortedSlice(lv, bs)
  BY SliceFacts
<1>2. levelsOf(b, bs) = {lv[j] : j \in 1..Len(lv)}
  BY SliceFacts
<1>3. \A j \in 1..Len(lv) : lv[j].price \in Int
  <2>1. \A j \in 1..Len(lv) : lv[j].price \in Nat \ {0}
    BY SliceFacts
  <2>2. QED
    BY <2>1
<1>4. prices(lv) \in Seq(Int) /\ Len(prices(lv)) = Len(lv)
      /\ \A j \in 1..Len(lv) : prices(lv)[j] = lv[j].price
  BY <1>1, <1>3 DEF prices
<1>5. Ranked(prices(lv), bs)
  BY <1>1, <1>4 DEF Ranked, SortedSlice
<1>6. Range(prices(lv)) = {prices(lv)[j] : j \in 1..Len(lv)}
  BY <1>4, RangeSeq
<1>7. Range(prices(lv)) = {lv[j].price : j \in 1..Len(lv)}
  BY <1>4, <1>6
<1>8. ASSUME NEW j \in 1..Len(lv)
      PROVE  \E x \in {y \in DOMAIN b.orders : BookSide(b.orders[y].side) = bs} :
               b.orders[x].price = lv[j].price
  <2>1. lv[j] \in levelsOf(b, bs)
    BY <1>2
  <2>2. lv[j].fifo # << >> /\ Range(lv[j].fifo) = idsAt(b, bs, lv[j].price)
    BY <2>1, QueueIs DEF WellFormed, QueuesHoldOrders
  <2>3. lv[j].fifo \in Seq(Nat \ {0})
    BY SliceFacts
  <2>4. Range(lv[j].fifo) # {}
    BY <2>2, <2>3, RangeEmpty
  <2>5. QED
    BY <2>2, <2>4 DEF idsAt
<1>9. ASSUME NEW x \in {y \in DOMAIN b.orders : BookSide(b.orders[y].side) = bs}
      PROVE  \E j \in 1..Len(lv) : b.orders[x].price = lv[j].price
  <2>1. x \in DOMAIN b.orders /\ BookSide(b.orders[x].side) = bs
    OBVIOUS
  <2>2. PICK m \in levelsOf(b, bs) : x \in Range(m.fifo)
    BY <2>1 DEF WellFormed, OrdersAreQueued
  <2>3. b.orders[x].price = m.price
    BY <2>2 DEF WellFormed, QueuesHoldOrders
  <2>4. QED
    BY <1>2, <2>3
<1>10. \A p \in Range(prices(lv)) : p \in pricesOf(b, bs)
  <2>1. ASSUME NEW j \in 1..Len(lv) PROVE lv[j].price \in pricesOf(b, bs)
    BY <1>8 DEF pricesOf
  <2>2. QED
    BY <1>7, <2>1
<1>11. \A p \in pricesOf(b, bs) : p \in Range(prices(lv))
  BY <1>7, <1>9, Zenon DEF pricesOf
<1>12. Range(prices(lv)) = pricesOf(b, bs)
  BY <1>10, <1>11, Zenon
<1>13. QED
  BY <1>4, <1>5, <1>12

\* Two books with the same orders have the same slices.
LEMMA SameSlice ==
  ASSUME NEW b, WellFormed(b), TotalsMatch(b), NEW c, WellFormed(c), TotalsMatch(c),
         b.orders = c.orders, NEW bs \in BookSides
  PROVE  b.levels[bs] = c.levels[bs]
<1> DEFINE lv == b.levels[bs]
           mv == c.levels[bs]
<1>1. lv \in Seq(Level) /\ Len(lv) \in Nat /\ mv \in Seq(Level) /\ Len(mv) \in Nat
  BY SliceFacts
<1>2. levelsOf(b, bs) = {lv[j] : j \in 1..Len(lv)}
  BY SliceFacts
<1>3. levelsOf(c, bs) = {mv[j] : j \in 1..Len(mv)}
  BY SliceFacts
<1>4. prices(lv) \in Seq(Int) /\ Ranked(prices(lv), bs) /\ Len(prices(lv)) = Len(lv)
  BY PricesAre
<1>5. prices(mv) \in Seq(Int) /\ Ranked(prices(mv), bs) /\ Len(prices(mv)) = Len(mv)
  BY PricesAre
<1>6. Range(prices(lv)) = Range(prices(mv))
  <2>1. Range(prices(lv)) = pricesOf(b, bs) /\ Range(prices(mv)) = pricesOf(c, bs)
    BY PricesAre
  <2>2. QED
    BY <2>1 DEF pricesOf
<1>7. prices(lv) = prices(mv)
  BY <1>4, <1>5, <1>6, RankedUnique
<1>8. Len(lv) = Len(mv) /\ \A j \in 1..Len(lv) : lv[j].price = mv[j].price
  BY <1>4, <1>5, <1>7 DEF prices
<1>9. ASSUME NEW j \in 1..Len(lv) PROVE lv[j] = mv[j]
  <2> DEFINE l == lv[j]
             m == mv[j]
  <2>1. l \in levelsOf(b, bs) /\ m \in levelsOf(c, bs) /\ l.price = m.price
    BY <1>2, <1>3, <1>8
  <2>2. l \in Level /\ m \in Level
    BY <1>1, <1>8
  <2> HIDE DEF l, m
  <2>3. Range(l.fifo) = Range(m.fifo)
    <3>1. Range(l.fifo) = idsAt(b, bs, l.price) /\ Range(m.fifo) = idsAt(c, bs, m.price)
      BY <2>1, QueueIs
    <3>2. QED
      BY <2>1, <3>1 DEF idsAt
  <2>4. l.fifo \in Seq(Nat \ {0}) /\ m.fifo \in Seq(Nat \ {0})
    BY <2>2 DEF Level
  <2>5. l.fifo \in Seq(Int) /\ m.fifo \in Seq(Int)
    BY <2>4
  <2>6. Ascending(l.fifo) /\ Ascending(m.fifo)
    BY <2>1 DEF WellFormed, QueuesAscend
  <2>7. Ranked(l.fifo, Sell) /\ Ranked(m.fifo, Sell)
    BY <2>6 DEF Ascending, Ranked, Before, Buy, Sell
  <2>8. l.fifo = m.fifo
    BY <2>3, <2>5, <2>7, RankedUnique
  <2>9. quantities(b, l.fifo) = quantities(c, l.fifo)
    BY DEF quantities, restingQty
  <2>10. l.totalQty = m.totalQty
    BY <2>1, <2>8, <2>9 DEF TotalsMatch
  <2>11. l = m
    BY <2>1, <2>2, <2>8, <2>10 DEF Level
  <2>12. QED
    BY <2>11 DEF l, m
<1>10. QED
  BY <1>1, <1>8, <1>9, SeqEqual

\* So a book is its orders and its next id.
LEMMA SameBook ==
  ASSUME NEW b, WellFormed(b), TotalsMatch(b), NEW c, WellFormed(c), TotalsMatch(c),
         b.orders = c.orders, b.nextOrderId = c.nextOrderId
  PROVE  b = c
<1>1. b.levels \in [BookSides -> Seq(Level)] /\ c.levels \in [BookSides -> Seq(Level)]
  BY DEF WellFormed, IsBook
<1>2. \A bs \in BookSides : b.levels[bs] = c.levels[bs]
  BY SameSlice
<1>3. b.levels = c.levels
  BY <1>1, <1>2
<1>4. /\ b = [levels |-> b.levels, orders |-> b.orders, nextOrderId |-> b.nextOrderId]
      /\ c = [levels |-> c.levels, orders |-> c.orders, nextOrderId |-> c.nextOrderId]
  BY DEF WellFormed, IsBook
<1>5. QED
  BY <1>3, <1>4

-----------------------------------------------------------------------------
(* The records of a snapshot. *)

\* What is written of an order is read again.
LEMMA WriteRead ==
  ASSUME NEW o, IsOrder(o)
  PROVE  /\ writeOrder(o).id = o.id /\ writeOrder(o).price = o.price
         /\ readOrder(writeOrder(o)) = o
<1>1. /\ o \in [id : Nat \ {0}, owner : {o.owner}, side : {Buy, Sell, NullSide, UnknownSide},
                price : Nat \ {0}, qty : Nat]
  BY DEF IsOrder
<1>2. o = [id |-> o.id, owner |-> o.owner, side |-> o.side, price |-> o.price, qty |-> o.qty]
  BY <1>1
<1>3. writeOrder(o) = [id |-> o.id, owner |-> o.owner, side |-> sideCode(o.side),
                       price |-> o.price, qty |-> o.qty]
  BY <1>2 DEF writeOrder
<1>4. readOrder(writeOrder(o)) = [id |-> o.id, owner |-> o.owner, side |-> sideOf(sideCode(o.side)),
                                  price |-> o.price, qty |-> o.qty]
  BY <1>3 DEF readOrder
<1>5. sideOf(sideCode(o.side)) = o.side
  <2>1. o.side \in {Buy, Sell, NullSide, UnknownSide}
    BY <1>1
  <2>2. QED
    BY <2>1 DEF sideOf, sideCode, Buy, Sell, NullSide, UnknownSide
<1>6. QED
  BY <1>2, <1>3, <1>4, <1>5

\* The records of a book.
Records(b) == {writeOrder(b.orders[x]) : x \in DOMAIN b.orders}

\* A record is that of its id.
LEMMA RecordIs ==
  ASSUME NEW b, WellFormed(b), NEW r \in Records(b)
  PROVE  /\ r.id \in DOMAIN b.orders /\ r = writeOrder(b.orders[r.id])
         /\ readOrder(r) = b.orders[r.id] /\ IsOrder(b.orders[r.id]) /\ r.id \in Nat \ {0}
         /\ b.orders[r.id].id = r.id
<1>1. PICK x \in DOMAIN b.orders : r = writeOrder(b.orders[x])
  BY DEF Records
<1>2. IsOrder(b.orders[x]) /\ b.orders[x].id = x /\ x \in Nat \ {0}
  BY DEF WellFormed, IsBook, IsOrderMap, OrdersAreQueued
<1>3. r.id = x
  BY <1>1, <1>2, WriteRead
<1>4. QED
  BY <1>1, <1>2, <1>3, WriteRead

\* x comes before y in its slice: by price, then by age.
Ahead(b, bs, x, y) ==
  \/ Before(bs, b.orders[x].price, b.orders[y].price)
  \/ b.orders[x].price = b.orders[y].price /\ x < y

\* w has the records of the first n levels of slice bs, in order.
Written(b, bs, n, w) ==
  /\ w \in Seq(Records(b))
  /\ \A i \in 1..Len(w) : \E k \in 1..n : w[i].id \in Range(b.levels[bs][k].fifo)
  /\ \A k \in 1..n : \A x \in Range(b.levels[bs][k].fifo) : \E i \in 1..Len(w) : w[i].id = x
  /\ \A i, j \in 1..Len(w) : i < j => Ahead(b, bs, w[i].id, w[j].id)

\* The records of the k-th level.
row(b, bs, k) ==
  [i \in DOMAIN b.levels[bs][k].fifo |-> writeOrder(b.orders[b.levels[bs][k].fifo[i]])]

\* r has the records of queue f, whose orders have price p.
IsRow(b, f, p, r) ==
  /\ f \in Seq(Nat \ {0}) /\ Len(f) \in Nat /\ Range(f) = {f[i] : i \in 1..Len(f)}
  /\ r \in Seq(Records(b)) /\ Len(r) = Len(f)
  /\ \A i \in 1..Len(f) : r[i].id = f[i] /\ f[i] \in DOMAIN b.orders /\ b.orders[f[i]].price = p
  /\ \A i, j \in 1..Len(f) : i < j => f[i] < f[j]

\* What the writer puts out for one level is the row of that level.
LEMMA RowIs ==
  ASSUME NEW b, WellFormed(b), NEW bs \in BookSides, NEW k \in 1..Len(b.levels[bs]),
         NEW f, f = b.levels[bs][k].fifo
  PROVE  IsRow(b, f, b.levels[bs][k].price, row(b, bs, k))
<1>1. f \in Seq(Nat \ {0})
  BY SliceFacts
<1>2. Len(f) \in Nat /\ DOMAIN f = 1..Len(f)
  BY <1>1
<1>3. Range(f) = {f[i] : i \in 1..Len(f)}
  BY <1>1, RangeSeq
<1>4. b.levels[bs][k] \in levelsOf(b, bs)
  BY SliceFacts
<1>5. \A x \in Range(f) : x \in DOMAIN b.orders /\ b.orders[x].price = b.levels[bs][k].price
  BY <1>4 DEF WellFormed, QueuesHoldOrders
<1>6. \A i \in 1..Len(f) : f[i] \in DOMAIN b.orders /\ b.orders[f[i]].price = b.levels[bs][k].price
  BY <1>3, <1>5, Zenon
<1>7. row(b, bs, k) = [i \in 1..Len(f) |-> writeOrder(b.orders[f[i]])]
  BY <1>2 DEF row
<1>8. \A i \in 1..Len(f) : writeOrder(b.orders[f[i]]) \in Records(b)
  BY <1>6, Zenon DEF Records
<1>9. row(b, bs, k) \in Seq(Records(b)) /\ Len(row(b, bs, k)) = Len(f)
      /\ \A i \in 1..Len(f) : row(b, bs, k)[i] = writeOrder(b.orders[f[i]])
  <2> DEFINE r == row(b, bs, k)
  <2>1. r = [i \in 1..Len(f) |-> r[i]] /\ \A i \in 1..Len(f) : r[i] = writeOrder(b.orders[f[i]])
    BY <1>7, Zenon
  <2> HIDE DEF r
  <2>2. \A i \in 1..Len(f) : r[i] \in Records(b)
    BY <1>8, <2>1, Zenon
  <2>3. r \in Seq(Records(b)) /\ Len(r) = Len(f)
    BY <1>2, <2>1, <2>2, MakeSeq, Zenon
  <2>4. QED
    BY <2>1, <2>3, Zenon DEF r
<1>10. ASSUME NEW i \in 1..Len(f) PROVE row(b, bs, k)[i].id = f[i]
  <2>1. IsOrder(b.orders[f[i]]) /\ b.orders[f[i]].id = f[i]
    BY <1>6, Zenon DEF WellFormed, IsBook, IsOrderMap, OrdersAreQueued
  <2>2. QED
    BY <1>9, <2>1, WriteRead, Zenon
<1>11. \A i, j \in 1..Len(f) : i < j => f[i] < f[j]
  BY <1>4 DEF WellFormed, QueuesAscend, Ascending
<1>12. QED
  BY <1>1, <1>2, <1>3, <1>6, <1>9, <1>10, <1>11, Zenon DEF IsRow

\* One more level.
LEMMA WrittenStep ==
  ASSUME NEW b, WellFormed(b), NEW bs \in BookSides, NEW n \in 1..Len(b.levels[bs]),
         NEW w, Written(b, bs, n - 1, w)
  PROVE  Written(b, bs, n, w \o row(b, bs, n))
<1> DEFINE lv == b.levels[bs]
           f == lv[n].fifo
           r == row(b, bs, n)
           q == w \o r
<1>0. Len(lv) \in Nat /\ n \in Nat \ {0}
  BY SliceFacts
<1>1. /\ w \in Seq(Records(b))
      /\ \A i \in 1..Len(w) : \E k \in 1..(n - 1) : w[i].id \in Range(lv[k].fifo)
      /\ \A k \in 1..(n - 1) : \A x \in Range(lv[k].fifo) : \E i \in 1..Len(w) : w[i].id = x
      /\ \A i, j \in 1..Len(w) : i < j => Ahead(b, bs, w[i].id, w[j].id)
  BY DEF Written
<1>16. IsRow(b, f, lv[n].price, r)
  BY RowIs
<1> HIDE DEF r, f
<1>2. f \in Seq(Nat \ {0}) /\ Len(f) \in Nat /\ Range(f) = {f[i] : i \in 1..Len(f)}
  BY <1>16 DEF IsRow
<1>3. r \in Seq(Records(b)) /\ Len(r) = Len(f)
  BY <1>16 DEF IsRow
<1>4. \A i \in 1..Len(f) : r[i].id = f[i] /\ f[i] \in DOMAIN b.orders /\ b.orders[f[i]].price = lv[n].price
  BY <1>16 DEF IsRow
<1>5. \A i, j \in 1..Len(f) : i < j => f[i] < f[j]
  BY <1>16 DEF IsRow
<1>6. q \in Seq(Records(b)) /\ Joined(q, w, r)
  BY <1>1, <1>3, ConcatJoined
<1> HIDE DEF q
<1>7. \A k \in 1..(n - 1) : k \in 1..n /\ k < n /\ k \in 1..Len(lv)
  BY <1>0
<1>8. n \in 1..n
  BY <1>0
<1>9. ASSUME NEW i \in 1..Len(q) PROVE \E k \in 1..n : q[i].id \in Range(lv[k].fifo)
  <2>1. CASE i \in 1..Len(w) /\ q[i] = w[i]
    BY <1>1, <1>7, <2>1
  <2>2. ASSUME NEW k \in 1..Len(r), q[i] = r[k] PROVE q[i].id \in Range(lv[n].fifo)
    BY <1>2, <1>3, <1>4, <2>2, Zenon DEF f
  <2>3. QED
    BY <1>6, <1>8, <2>1, <2>2, Zenon DEF Joined
<1>10. ASSUME NEW k \in 1..n, NEW x \in Range(lv[k].fifo) PROVE \E i \in 1..Len(q) : q[i].id = x
  <2>1. CASE k = n
    <3>1. PICK i \in 1..Len(f) : f[i] = x
      BY <1>2, <2>1 DEF f
    <3>2. i \in 1..Len(r) /\ r[i].id = x
      BY <1>3, <1>4, <3>1
    <3>3. QED
      BY <1>6, <3>2, Zenon DEF Joined
  <2>2. CASE k # n
    <3>1. k \in 1..(n - 1)
      BY <1>0, <2>2
    <3>2. PICK i \in 1..Len(w) : w[i].id = x
      BY <1>1, <3>1, Zenon
    <3>3. QED
      BY <1>6, <3>2 DEF Joined
  <2>3. QED
    BY <2>1, <2>2
<1>11. ASSUME NEW i \in 1..Len(w), NEW k \in 1..Len(r)
       PROVE  Ahead(b, bs, w[i].id, r[k].id)
  <2>1. PICK m \in 1..(n - 1) : w[i].id \in Range(lv[m].fifo)
    BY <1>1
  <2>2. lv[m] \in levelsOf(b, bs) /\ m < n /\ m \in 1..Len(lv)
    <3>1. levelsOf(b, bs) = {lv[j] : j \in 1..Len(lv)}
      BY SliceFacts
    <3>2. QED
      BY <1>7, <3>1
  <2>3. b.orders[w[i].id].price = lv[m].price
    BY <2>1, <2>2 DEF WellFormed, QueuesHoldOrders
  <2>4. b.orders[r[k].id].price = lv[n].price
    BY <1>3, <1>4
  <2>5. Before(bs, lv[m].price, lv[n].price)
    BY <2>2 DEF WellFormed, SlicesSorted, SortedSlice
  <2>6. QED
    BY <2>3, <2>4, <2>5 DEF Ahead
<1>12. ASSUME NEW k \in 1..Len(r), NEW l \in 1..Len(r), k < l
       PROVE  Ahead(b, bs, r[k].id, r[l].id)
  <2>1. k \in 1..Len(f) /\ l \in 1..Len(f)
    BY <1>3
  <2>2. QED
    BY <1>4, <1>5, <1>12, <2>1 DEF Ahead
<1>13. ASSUME NEW i \in 1..Len(q), NEW j \in 1..Len(q), i < j
       PROVE  Ahead(b, bs, q[i].id, q[j].id)
  <2>0. Len(w) \in Nat /\ Len(r) \in Nat
    BY <1>6 DEF Joined
  <2>1. CASE i \in 1..Len(w) /\ q[i] = w[i]
    <3>1. CASE j \in 1..Len(w) /\ q[j] = w[j]
      BY <1>1, <1>13, <2>1, <3>1
    <3>2. ASSUME NEW l \in 1..Len(r), j = Len(w) + l, q[j] = r[l] PROVE Ahead(b, bs, q[i].id, q[j].id)
      BY <1>11, <2>1, <3>2
    <3>3. QED
      BY <1>6, <3>1, <3>2 DEF Joined
  <2>2. ASSUME NEW k \in 1..Len(r), i = Len(w) + k, q[i] = r[k]
        PROVE  Ahead(b, bs, q[i].id, q[j].id)
    <3>1. ~(j \in 1..Len(w))
      BY <1>13, <2>0, <2>2
    <3>2. PICK l \in 1..Len(r) : j = Len(w) + l /\ q[j] = r[l]
      BY <1>6, <3>1 DEF Joined
    <3>3. k < l
      BY <1>13, <2>0, <2>2, <3>2
    <3>4. QED
      BY <1>12, <2>2, <3>2, <3>3
  <2>3. QED
    BY <1>6, <2>1, <2>2, Zenon DEF Joined
<1>14. Written(b, bs, n, q)
  BY <1>6, <1>9, <1>10, <1>13 DEF Written
<1>15. QED
  BY <1>14 DEF q, r

\* All levels.
LEMMA WriteSideWritten ==
  ASSUME NEW b, WellFormed(b), NEW bs \in BookSides
  PROVE  Written(b, bs, Len(b.levels[bs]), writeSide(b, bs))
<1> DEFINE lv == b.levels[bs]
           N == Len(lv)
           T == {row(b, bs, i) : i \in 1..N}
           rows == [i \in 1..N |-> row(b, bs, i)]
           P(n) == Written(b, bs, n, flatten(SubSeq(rows, 1, n)))
           S == {n \in 0..N : P(n)}
<1>0. lv \in Seq(Level) /\ N \in Nat
  BY SliceFacts
<1>1. writeSide(b, bs) = flatten(rows)
  <2>1. DOMAIN lv = 1..N
    BY <1>0
  <2>2. QED
    BY <2>1 DEF writeSide, row
<1>2. rows \in Seq(T) /\ Len(rows) = N /\ \A i \in 1..N : rows[i] = row(b, bs, i)
  <2>1. rows = [i \in 1..N |-> rows[i]] /\ \A i \in 1..N : rows[i] = row(b, bs, i)
    OBVIOUS
  <2> HIDE DEF rows, N
  <2>2. \A i \in 1..N : rows[i] \in T
    BY <2>1
  <2> HIDE DEF T
  <2>3. QED
    BY <1>0, <2>1, <2>2, MakeSeq
<1> HIDE DEF T, rows, lv
<1>3. P(0)
  <2>1. SubSeq(rows, 1, 0) = << >>
    BY <1>2, PrefixEnds
  <2>2. flatten(SubSeq(rows, 1, 0)) = << >>
    BY <2>1, FlatEmpty, Zenon
  <2>3. Written(b, bs, 0, << >>)
    BY DEF Written
  <2>4. QED
    BY <2>2, <2>3, Zenon
<1>4. ASSUME NEW n \in 1..N, P(n - 1) PROVE P(n)
  <2> DEFINE pre == SubSeq(rows, 1, n - 1)
  <2>1. pre \in Seq(T) /\ SubSeq(rows, 1, n) = Append(pre, rows[n])
    BY <1>2, PrefixStep
  <2>2. Written(b, bs, n - 1, flatten(pre))
    BY <1>4
  <2> HIDE DEF pre
  <2>3. Len(pre) \in Nat
    BY <2>1
  <2>4. flatten(SubSeq(rows, 1, n)) = flatten(pre) \o rows[n]
    BY <2>1, <2>3, FlatAppend, Zenon
  <2>5. rows[n] = row(b, bs, n)
    BY <1>2
  <2>6. Written(b, bs, n, flatten(pre) \o row(b, bs, n))
    BY <2>2, WrittenStep DEF lv
  <2>7. QED
    BY <2>4, <2>5, <2>6, Zenon
<1>5. P(N)
  <2> HIDE DEF P
  <2>1. 0 \in S /\ \A n \in 1..N : n - 1 \in S => n \in S
    BY <1>0, <1>3, <1>4
  <2> HIDE DEF S
  <2>2. \A n \in 0..N : n \in S
    BY <1>0, <2>1, Stepwise, Zenon
  <2>3. QED
    BY <1>0, <2>2 DEF S
<1>6. SubSeq(rows, 1, N) = rows
  BY <1>2, PrefixEnds
<1>7. QED
  BY <1>1, <1>5, <1>6, Zenon DEF lv

\* The orders of one side, once each and in order.
SideWritten(b, bs, w) ==
  /\ w \in Seq(Records(b))
  /\ \A i \in 1..Len(w) : BookSide(b.orders[w[i].id].side) = bs
  /\ \A x \in DOMAIN b.orders : BookSide(b.orders[x].side) = bs => \E i \in 1..Len(w) : w[i].id = x
  /\ \A i, j \in 1..Len(w) : i < j => Ahead(b, bs, w[i].id, w[j].id)

\* What the writer puts out for one slice holds the orders of all its levels.
LEMMA WriteSideAll ==
  ASSUME NEW b, WellFormed(b), NEW bs \in BookSides
  PROVE  SideWritten(b, bs, writeSide(b, bs))
<1> DEFINE lv == b.levels[bs]
           w == writeSide(b, bs)
<1>1. Written(b, bs, Len(lv), w)
  BY WriteSideWritten
<1>2. levelsOf(b, bs) = {lv[j] : j \in 1..Len(lv)}
  BY SliceFacts
<1> HIDE DEF w, lv
<1>3. ASSUME NEW i \in 1..Len(w) PROVE BookSide(b.orders[w[i].id].side) = bs
  <2>1. PICK k \in 1..Len(lv) : w[i].id \in Range(lv[k].fifo)
    BY <1>1 DEF Written, lv
  <2>2. lv[k] \in levelsOf(b, bs)
    BY <1>2
  <2>3. QED
    BY <2>1, <2>2 DEF WellFormed, QueuesHoldOrders
<1>4. ASSUME NEW x \in DOMAIN b.orders, BookSide(b.orders[x].side) = bs
      PROVE  \E i \in 1..Len(w) : w[i].id = x
  <2>1. PICK l \in levelsOf(b, bs) : x \in Range(l.fifo)
    BY <1>4 DEF WellFormed, OrdersAreQueued
  <2>2. PICK k \in 1..Len(lv) : l = lv[k]
    BY <1>2
  <2>3. QED
    BY <1>1, <2>1, <2>2 DEF Written, lv
<1>5. QED
  BY <1>1, <1>3, <1>4 DEF SideWritten, Written, w

\* os has every order of the book once, and those of one side and price in order.
Listing(b, os) ==
  /\ os \in Seq({b.orders[x] : x \in DOMAIN b.orders})
  /\ \A i \in 1..Len(os) : /\ os[i].id \in DOMAIN b.orders /\ os[i] = b.orders[os[i].id]
                           /\ IsOrder(os[i])
  /\ \A x \in DOMAIN b.orders : \E i \in 1..Len(os) : os[i].id = x
  /\ \A i, j \in 1..Len(os) : i < j =>
       /\ os[i].id # os[j].id
       /\ BookSide(os[i].side) = BookSide(os[j].side) /\ os[i].price = os[j].price =>
            os[i].id < os[j].id

\* The records after the header.
body(b) == writeSide(b, Buy) \o writeSide(b, Sell)

\* An order is ahead of another in its side only if they differ, and at the same
\* price only if it is older.
LEMMA AheadOrders ==
  ASSUME NEW b, WellFormed(b), NEW bs \in BookSides, NEW x \in DOMAIN b.orders,
         NEW y \in DOMAIN b.orders, Ahead(b, bs, x, y)
  PROVE  x # y /\ (b.orders[x].price = b.orders[y].price => x < y)
<1>1. x \in Nat /\ y \in Nat /\ b.orders[x].price \in Nat /\ b.orders[y].price \in Nat
  BY DEF WellFormed, IsBook, IsOrderMap, IsOrder
<1>2. QED
  BY <1>1 DEF Ahead, Before

\* The records list the orders.
LEMMA BodyLists ==
  ASSUME NEW b, WellFormed(b), NEW os, os = [i \in 1..Len(body(b)) |-> readOrder(body(b)[i])]
  PROVE  Listing(b, os) /\ body(b) \in Seq(Records(b)) /\ Len(os) = Len(body(b)) /\ Len(os) \in Nat
<1> DEFINE u == writeSide(b, Buy)
           v == writeSide(b, Sell)
           q == body(b)
<1>1. Buy \in BookSides /\ Sell \in BookSides /\ Buy # Sell
  BY DEF BookSides, Buy, Sell
<1>2. SideWritten(b, Buy, u) /\ SideWritten(b, Sell, v)
  BY <1>1, WriteSideAll
<1> HIDE DEF u, v
<1>3. u \in Seq(Records(b)) /\ v \in Seq(Records(b)) /\ q = u \o v
  BY <1>2 DEF SideWritten, body, u, v
<1> HIDE DEF q
<1>4. q \in Seq(Records(b)) /\ Joined(q, u, v)
  BY <1>3, ConcatJoined
<1>5. Len(q) \in Nat /\ \A i \in 1..Len(q) : q[i] \in Records(b)
  BY <1>4
<1>6. os = [i \in 1..Len(q) |-> os[i]] /\ \A i \in 1..Len(q) : os[i] = readOrder(q[i])
  BY DEF q
<1>7. ASSUME NEW i \in 1..Len(q)
      PROVE  /\ q[i].id \in DOMAIN b.orders /\ os[i] = b.orders[q[i].id] /\ os[i].id = q[i].id
             /\ IsOrder(os[i])
  BY <1>5, <1>6, RecordIs
<1>8. os \in Seq({b.orders[x] : x \in DOMAIN b.orders}) /\ Len(os) = Len(q)
  <2>1. \A i \in 1..Len(q) : os[i] \in {b.orders[x] : x \in DOMAIN b.orders}
    BY <1>7, Zenon
  <2>2. QED
    BY <1>5, <1>6, <2>1, MakeSeq
<1>9. ASSUME NEW x \in DOMAIN b.orders PROVE \E i \in 1..Len(q) : q[i].id = x
  <2>1. BookSide(b.orders[x].side) \in {Buy, Sell}
    BY DEF BookSide
  <2>2. CASE BookSide(b.orders[x].side) = Buy
    <3>1. PICK i \in 1..Len(u) : u[i].id = x
      BY <1>2, <2>2 DEF SideWritten
    <3>2. QED
      BY <1>4, <3>1 DEF Joined
  <2>3. CASE BookSide(b.orders[x].side) = Sell
    <3>1. PICK i \in 1..Len(v) : v[i].id = x
      BY <1>2, <2>3 DEF SideWritten
    <3>2. QED
      BY <1>4, <3>1 DEF Joined
  <2>4. QED
    BY <2>1, <2>2, <2>3
<1>10. ASSUME NEW i \in 1..Len(q)
       PROVE  \/ i \in 1..Len(u) /\ q[i] = u[i] /\ BookSide(b.orders[q[i].id].side) = Buy
              \/ \E k \in 1..Len(v) : /\ i = Len(u) + k /\ q[i] = v[k]
                                      /\ BookSide(b.orders[q[i].id].side) = Sell
  <2>1. \A k \in 1..Len(u) : BookSide(b.orders[u[k].id].side) = Buy
    BY <1>2 DEF SideWritten
  <2>2. \A k \in 1..Len(v) : BookSide(b.orders[v[k].id].side) = Sell
    BY <1>2 DEF SideWritten
  <2>3. \/ i \in 1..Len(u) /\ q[i] = u[i]
        \/ \E k \in 1..Len(v) : i = Len(u) + k /\ q[i] = v[k]
    BY <1>4, Zenon DEF Joined
  <2>4. QED
    BY <2>1, <2>2, <2>3, Zenon
<1>11. ASSUME NEW i \in 1..Len(q), NEW j \in 1..Len(q), i < j
       PROVE  /\ os[i].id # os[j].id
              /\ BookSide(os[i].side) = BookSide(os[j].side) /\ os[i].price = os[j].price =>
                   os[i].id < os[j].id
  <2> DEFINE x == q[i].id
             y == q[j].id
  <2>0. Len(u) \in Nat /\ Len(v) \in Nat
    BY <1>4 DEF Joined
  <2>1. /\ x \in DOMAIN b.orders /\ os[i] = b.orders[x] /\ os[i].id = x
        /\ y \in DOMAIN b.orders /\ os[j] = b.orders[y] /\ os[j].id = y
    BY <1>7, Zenon
  <2>2. CASE BookSide(b.orders[x].side) # BookSide(b.orders[y].side)
    BY <2>1, <2>2
  <2>3. CASE \E bs \in BookSides : Ahead(b, bs, x, y)
    <3>1. x # y /\ (b.orders[x].price = b.orders[y].price => x < y)
      BY <2>1, <2>3, AheadOrders
    <3>2. QED
      BY <2>1, <3>1
  <2>4. CASE i \in 1..Len(u) /\ q[i] = u[i] /\ j \in 1..Len(u) /\ q[j] = u[j]
    <3>1. Ahead(b, Buy, x, y)
      BY <1>2, <1>11, <2>4 DEF SideWritten
    <3>2. QED
      BY <1>1, <2>3, <3>1
  <2>5. ASSUME NEW k \in 1..Len(v), i = Len(u) + k, q[i] = v[k],
               NEW l \in 1..Len(v), j = Len(u) + l, q[j] = v[l]
        PROVE  Ahead(b, Sell, x, y)
    <3>1. k < l
      BY <1>11, <2>0, <2>5
    <3>2. QED
      BY <1>2, <2>5, <3>1 DEF SideWritten
  <2> HIDE DEF x, y
  <2>6. CASE BookSide(b.orders[x].side) = BookSide(b.orders[y].side)
    <3>1. CASE i \in 1..Len(u) /\ q[i] = u[i] /\ BookSide(b.orders[x].side) = Buy
      BY <1>1, <1>10, <2>4, <2>6, <3>1, Zenon DEF x, y
    <3>2. CASE \E k \in 1..Len(v) : i = Len(u) + k /\ q[i] = v[k] /\ BookSide(b.orders[x].side) = Sell
      <4>1. \E l \in 1..Len(v) : j = Len(u) + l /\ q[j] = v[l]
        BY <1>1, <1>10, <2>6, <3>2 DEF x, y
      <4>2. Ahead(b, Sell, x, y)
        BY <2>5, <3>2, <4>1
      <4>3. QED
        BY <1>1, <2>3, <4>2
    <3>3. QED
      BY <1>10, <3>1, <3>2 DEF x
  <2>7. QED
    BY <2>2, <2>6
<1>12. \A i \in 1..Len(os) : /\ os[i].id \in DOMAIN b.orders /\ os[i] = b.orders[os[i].id]
                            /\ IsOrder(os[i])
  BY <1>7, <1>8, Zenon
<1>13. \A x \in DOMAIN b.orders : \E i \in 1..Len(os) : os[i].id = x
  <2>1. \A i \in 1..Len(q) : os[i].id = q[i].id
    BY <1>7, Zenon
  <2>2. QED
    BY <1>8, <1>9, <2>1, Zenon
<1>14. Listing(b, os)
  BY <1>8, <1>11, <1>12, <1>13, Zenon DEF Listing
<1>15. QED
  BY <1>4, <1>5, <1>8, <1>14 DEF q

-----------------------------------------------------------------------------
(* Restoring. *)

\* r has the first n of the orders.
Holds(r, os, n) ==
  /\ WellFormed(r) /\ TotalsMatch(r) /\ r.nextOrderId = 1
  /\ \A x \in DOMAIN r.orders : \E i \in 1..n : x = os[i].id
  /\ \A i \in 1..n : os[i].id \in DOMAIN r.orders /\ r.orders[os[i].id] = os[i]

\* One more order comes to rest.
LEMMA HoldsStep ==
  ASSUME NEW b, NEW os, Listing(b, os), NEW n \in 1..Len(os), NEW r, Holds(r, os, n - 1)
  PROVE  Holds(restOrder(r, os[n]), os, n)
<1> DEFINE o == os[n]
           c == restOrder(r, o)
<1>0. Len(os) \in Nat /\ n \in Nat \ {0}
  BY DEF Listing
<1>1. IsOrder(o)
  BY DEF Listing
<1>2. WellFormed(r) /\ TotalsMatch(r) /\ r.nextOrderId = 1
  BY DEF Holds
<1>3. Behind(r, o)
  <2> SUFFICES ASSUME NEW x \in DOMAIN r.orders
               PROVE  /\ x # o.id
                      /\ BookSide(r.orders[x].side) = BookSide(o.side) /\ r.orders[x].price = o.price =>
                           x < o.id
    BY DEF Behind
  <2>1. PICK i \in 1..(n - 1) : x = os[i].id
    BY DEF Holds
  <2>2. r.orders[x] = os[i] /\ i \in 1..Len(os) /\ i < n
    BY <1>0, <2>1 DEF Holds
  <2>3. QED
    BY <2>1, <2>2 DEF Listing
<1>4. WellFormed(c)
  BY <1>1, <1>2, <1>3, RestBehind
<1>5. TotalsMatch(c)
  BY <1>1, <1>2, <1>3, RestTotals
<1>6. c.nextOrderId = 1 /\ DOMAIN c.orders = DOMAIN r.orders \cup {o.id} /\ c.orders[o.id] = o
  BY <1>1, <1>2, <1>3, RestBehind
<1>7. \A x \in DOMAIN r.orders : c.orders[x] = r.orders[x]
  BY <1>1, <1>2, <1>3, RestBehind
<1> HIDE DEF c
<1>8. \A i \in 1..n : i = n \/ i \in 1..(n - 1)
  BY <1>0
<1>9. \A i \in 1..(n - 1) : i \in 1..n
  BY <1>0
<1>10. n \in 1..n
  BY <1>0
<1>11. \A x \in DOMAIN c.orders : \E i \in 1..n : x = os[i].id
  BY <1>6, <1>9, <1>10 DEF Holds
<1>12. \A i \in 1..n : os[i].id \in DOMAIN c.orders /\ c.orders[os[i].id] = os[i]
  BY <1>6, <1>7, <1>8 DEF Holds
<1>13. QED
  BY <1>4, <1>5, <1>6, <1>11, <1>12 DEF Holds, c

\* All of them.
LEMMA RestListing ==
  ASSUME NEW b, WellFormed(b), NEW os, Listing(b, os)
  PROVE  /\ WellFormed(restAll(NewOrderBook, os)) /\ TotalsMatch(restAll(NewOrderBook, os))
         /\ restAll(NewOrderBook, os).orders = b.orders
<1> DEFINE T == {b.orders[x] : x \in DOMAIN b.orders}
           N == Len(os)
           P(n) == Holds(restAll(NewOrderBook, SubSeq(os, 1, n)), os, n)
           S == {n \in 0..N : P(n)}
<1>0. os \in Seq(T) /\ N \in Nat
  BY DEF Listing
<1> HIDE DEF T
<1>1. P(0)
  <2>1. SubSeq(os, 1, 0) = << >>
    BY <1>0, PrefixEnds
  <2>2. restAll(NewOrderBook, SubSeq(os, 1, 0)) = NewOrderBook
    BY <2>1, RestsEmpty, Zenon
  <2>3. Holds(NewOrderBook, os, 0)
    <3>1. WellFormed(NewOrderBook) /\ TotalsMatch(NewOrderBook) /\ NewOrderBook.nextOrderId = 1
      BY EmptyGood DEF GoodBook
    <3>2. DOMAIN NewOrderBook.orders = {}
      BY DEF NewOrderBook
    <3>3. QED
      BY <3>1, <3>2 DEF Holds
  <2>4. QED
    BY <2>2, <2>3, Zenon
<1>2. ASSUME NEW n \in 1..N, P(n - 1) PROVE P(n)
  <2> DEFINE pre == SubSeq(os, 1, n - 1)
  <2>1. pre \in Seq(T) /\ SubSeq(os, 1, n) = Append(pre, os[n])
    BY <1>0, PrefixStep
  <2>2. Holds(restAll(NewOrderBook, pre), os, n - 1)
    BY <1>2
  <2> HIDE DEF pre
  <2>3. Len(pre) \in Nat
    BY <2>1
  <2>4. restAll(NewOrderBook, SubSeq(os, 1, n)) = restOrder(restAll(NewOrderBook, pre), os[n])
    <3>1. \A e, u : u = Append(pre, e) =>
            restAll(NewOrderBook, u) = restOrder(restAll(NewOrderBook, pre), e)
      BY <2>1, <2>3, RestsAppend, Zenon
    <3>2. QED
      BY <2>1, <3>1, Zenon
  <2>5. Holds(restOrder(restAll(NewOrderBook, pre), os[n]), os, n)
    BY <2>2, HoldsStep
  <2>6. QED
    BY <2>4, <2>5, Zenon
<1>3. P(N)
  <2> HIDE DEF P
  <2>1. 0 \in S /\ \A n \in 1..N : n - 1 \in S => n \in S
    BY <1>0, <1>1, <1>2
  <2> HIDE DEF S
  <2>2. \A n \in 0..N : n \in S
    BY <1>0, <2>1, Stepwise, Zenon
  <2>3. QED
    BY <1>0, <2>2 DEF S
<1> DEFINE r == restAll(NewOrderBook, os)
<1>4. Holds(r, os, N)
  <2>1. SubSeq(os, 1, N) = os
    BY <1>0, PrefixEnds
  <2>2. QED
    BY <1>3, <2>1, Zenon
<1> HIDE DEF r
<1>12. \A i \in 1..N : os[i].id \in DOMAIN b.orders /\ os[i] = b.orders[os[i].id]
  BY DEF Listing
<1>13. \A x \in DOMAIN b.orders : \E i \in 1..N : os[i].id = x
  BY DEF Listing
<1>14. \A x \in DOMAIN r.orders : \E i \in 1..N : x = os[i].id
  BY <1>4 DEF Holds
<1>15. \A i \in 1..N : os[i].id \in DOMAIN r.orders /\ r.orders[os[i].id] = os[i]
  BY <1>4 DEF Holds
<1> HIDE DEF N
<1>5. \A x \in DOMAIN r.orders : x \in DOMAIN b.orders /\ r.orders[x] = b.orders[x]
  BY <1>12, <1>14, <1>15
<1>6. \A x \in DOMAIN b.orders : x \in DOMAIN r.orders
  BY <1>13, <1>15
<1>7. WellFormed(r) /\ TotalsMatch(r)
  BY <1>4 DEF Holds
<1>8. /\ r.orders = [x \in DOMAIN r.orders |-> r.orders[x]]
      /\ b.orders = [x \in DOMAIN b.orders |-> b.orders[x]]
  BY <1>7 DEF WellFormed, IsBook, IsOrderMap
<1>9. DOMAIN r.orders = DOMAIN b.orders
  BY <1>5, <1>6
<1>10. r.orders = b.orders
  BY <1>5, <1>8, <1>9
<1>11. QED
  BY <1>7, <1>10 DEF r

\* The next id is a field of its own.
LEMMA SetIdWellFormed ==
  ASSUME NEW b, WellFormed(b), TotalsMatch(b), NEW n \in Nat \ {0},
         NEW r, r = [b EXCEPT !.nextOrderId = n]
  PROVE  WellFormed(r) /\ TotalsMatch(r) /\ r.orders = b.orders /\ r.nextOrderId = n
<1>1. r = [levels |-> b.levels, orders |-> b.orders, nextOrderId |-> n]
  BY DEF WellFormed, IsBook
<1>2. r.levels = b.levels /\ r.orders = b.orders /\ r.nextOrderId = n
  BY <1>1
<1>3. IsBook(r)
  BY <1>1, <1>2 DEF WellFormed, IsBook
<1>4. WellFormed(r)
  BY <1>2, <1>3
  DEF WellFormed, SlicesSorted, QueuesHoldOrders, OrdersAreQueued, QueuesAscend, levelsOf
<1>5. TotalsMatch(r)
  BY <1>2 DEF TotalsMatch, levelsOf, quantities, restingQty
<1>6. QED
  BY <1>2, <1>4, <1>5

\* A listing has as many orders as the book.
LEMMA ListingCount ==
  ASSUME NEW b, NEW os, Listing(b, os)
  PROVE  IsFiniteSet(DOMAIN b.orders) /\ Cardinality(DOMAIN b.orders) = Len(os)
<1> DEFINE N == Len(os)
           D == DOMAIN b.orders
           f == [i \in 1..N |-> os[i].id]
<1>1. N \in Nat /\ \A i \in 1..N : os[i].id \in D
  BY DEF Listing
<1>2. f \in [1..N -> D] /\ \A i \in 1..N : f[i] = os[i].id
  BY <1>1
<1>3. \A i, j \in 1..N : i # j => f[i] # f[j]
  <2>1. \A i, j \in 1..N : i < j => os[i].id # os[j].id
    BY DEF Listing
  <2>2. \A i, j \in 1..N : i # j => i < j \/ j < i
    BY <1>1
  <2>3. QED
    BY <1>2, <2>1, <2>2
<1>4. \A x \in D : \E i \in 1..N : f[i] = x
  BY <1>2 DEF Listing
<1> HIDE DEF f, D, N
<1>5. f \in Bijection(1..N, D)
  BY <1>2, <1>3, <1>4 DEF Bijection, Injection, Surjection, IsInjective
<1>6. ExistsBijection(1..N, D)
  BY <1>5 DEF ExistsBijection
<1>7. IsFiniteSet(1..N) /\ Cardinality(1..N) = N
  BY <1>1, FS_Interval
<1>8. IsFiniteSet(D) /\ Cardinality(D) = N
  BY <1>6, <1>7, FS_Bijection
<1>9. QED
  BY <1>8 DEF D, N

\* The header of a book's snapshot.
header(b) == [magic |-> snapshotMagic, version |-> snapshotVersion,
              nextOrderId |-> b.nextOrderId, count |-> Cardinality(DOMAIN b.orders)]

\* A stream is the header and the records.
IsStream(b, t) ==
  /\ t \in Seq(Records(b) \cup {header(b)})
  /\ Len(body(b)) \in Nat /\ Len(t) = Len(body(b)) + 1
  /\ t[1] = header(b) /\ \A i \in 1..Len(body(b)) : t[i + 1] = body(b)[i]
  /\ Cardinality(DOMAIN b.orders) = Len(body(b))

\* The messages of takeSnapshot are the stream of its book.
LEMMA StreamIs ==
  ASSUME NEW b, WellFormed(b) PROVE IsStream(b, TakeSnapshot(b))
<1> DEFINE u == writeSide(b, Buy)
           v == writeSide(b, Sell)
           h == header(b)
           q == body(b)
           T == Records(b) \cup {h}
           os == [i \in 1..Len(q) |-> readOrder(q[i])]
<1>1. Buy \in BookSides /\ Sell \in BookSides
  BY DEF BookSides
<1>2. u \in Seq(Records(b)) /\ v \in Seq(Records(b))
  BY <1>1, WriteSideAll DEF SideWritten
<1>3. TakeSnapshot(b) = (<< h >> \o u) \o v /\ q = u \o v
  BY DEF TakeSnapshot, header, body
<1>4. Listing(b, os) /\ q \in Seq(Records(b)) /\ Len(os) = Len(q) /\ Len(os) \in Nat
  BY BodyLists
<1>5. Cardinality(DOMAIN b.orders) = Len(q)
  <2> HIDE DEF os, q
  <2>1. QED
    BY <1>4, ListingCount
<1> HIDE DEF u, v, h, q, os
<1>6. u \in Seq(T) /\ v \in Seq(T) /\ << h >> \in Seq(T) /\ q \in Seq(T)
  BY <1>2, <1>4
<1> HIDE DEF T
<1>7. TakeSnapshot(b) = << h >> \o q
  BY <1>3, <1>6, ConcatAssociative
<1>8. /\ << h >> \o q \in Seq(T) /\ Len(<< h >> \o q) = Len(q) + 1
      /\ (<< h >> \o q)[1] = h /\ \A i \in 1..Len(q) : (<< h >> \o q)[i + 1] = q[i]
  BY <1>6
<1>9. QED
  BY <1>4, <1>5, <1>7, <1>8 DEF IsStream, q, h, T

\* Deterministic recovery: what TakeSnapshot writes of a book, RestoreOrderBook
\* accepts, and makes the same book of it.
LEMMA SnapshotRoundTrip ==
  ASSUME NEW b, WellFormed(b), TotalsMatch(b)
  PROVE  readable(TakeSnapshot(b)) /\ RestoreOrderBook(TakeSnapshot(b)) = b
<1> DEFINE t == TakeSnapshot(b)
           q == body(b)
           os == [i \in 1..Len(q) |-> readOrder(q[i])]
           r == restAll(NewOrderBook, os)
<1>1. IsStream(b, t)
  BY StreamIs
<1>2. Listing(b, os)
  BY BodyLists
<1> HIDE DEF t
<1>3. /\ t # << >> /\ t[1] = header(b) /\ Len(t) = Len(q) + 1 /\ Len(q) \in Nat
      /\ \A i \in 1..Len(q) : t[i + 1] = q[i]
      /\ Cardinality(DOMAIN b.orders) = Len(q)
  BY <1>1 DEF IsStream
<1>4. t[1].count = Len(q) /\ t[1].nextOrderId = b.nextOrderId
      /\ t[1].magic = snapshotMagic /\ t[1].version = snapshotVersion
  BY <1>3 DEF header
<1>5. readable(t)
  BY <1>3, <1>4 DEF readable
<1>6. ordersOf(t) = os
  BY <1>3, <1>4 DEF ordersOf
<1> HIDE DEF os
<1>7. WellFormed(r) /\ TotalsMatch(r) /\ r.orders = b.orders
  BY <1>2, RestListing
<1>8. RestoreOrderBook(t) = [r EXCEPT !.nextOrderId = b.nextOrderId]
  BY <1>4, <1>6 DEF RestoreOrderBook
<1> HIDE DEF r
<1>9. b.nextOrderId \in Nat \ {0}
  BY DEF WellFormed, IsBook
<1>10. /\ WellFormed(RestoreOrderBook(t)) /\ TotalsMatch(RestoreOrderBook(t))
       /\ RestoreOrderBook(t).orders = b.orders /\ RestoreOrderBook(t).nextOrderId = b.nextOrderId
  BY <1>7, <1>8, <1>9, SetIdWellFormed
<1>11. RestoreOrderBook(t) = b
  BY <1>10, SameBook
<1>12. QED
  BY <1>5, <1>11 DEF t

\* A stream that was cut is refused.
LEMMA CutIsRefused ==
  ASSUME NEW b, WellFormed(b), NEW k \in 0..(Len(TakeSnapshot(b)) - 1)
  PROVE  ~readable(SubSeq(TakeSnapshot(b), 1, k))
<1> DEFINE t == TakeSnapshot(b)
           c == SubSeq(t, 1, k)
<1>1. IsStream(b, t)
  BY StreamIs
<1>2. k \in 0..(Len(t) - 1)
  OBVIOUS
<1> HIDE DEF t
<1>3. t \in Seq(Records(b) \cup {header(b)}) /\ Len(t) \in Nat
      /\ t[1] = header(b) /\ Len(t) = Cardinality(DOMAIN b.orders) + 1
      /\ Cardinality(DOMAIN b.orders) \in Nat
  BY <1>1 DEF IsStream
<1>4. t[1].count = Cardinality(DOMAIN b.orders)
  BY <1>3 DEF header
<1>5. CASE k = 0
  <2>1. c = << >>
    BY <1>3, <1>5
  <2>2. QED
    BY <2>1 DEF readable, t
<1>6. CASE k # 0
  <2>1. Len(c) = k /\ c[1] = t[1]
    BY <1>2, <1>3, <1>6
  <2>2. QED
    BY <1>2, <1>3, <1>4, <2>1 DEF readable, t
<1>7. QED
  BY <1>5, <1>6

-----------------------------------------------------------------------------
(* Matching. *)

\* What match works on: a good book and an order that is newer than all in it.
Working(w) ==
  /\ w = [book |-> w.book, taker |-> w.taker, changed |-> w.changed, events |-> w.events]
  /\ GoodBook(w.book, w.taker.id)
  /\ IsOrder(w.taker)

\* A book has finitely many orders.
LEMMA FiniteOrders ==
  ASSUME NEW b, WellFormed(b)
  PROVE  IsFiniteSet(DOMAIN b.orders) /\ Cardinality(DOMAIN b.orders) \in Nat
<1> DEFINE os == [i \in 1..Len(body(b)) |-> readOrder(body(b)[i])]
<1>1. Listing(b, os)
  BY BodyLists
<1> HIDE DEF os
<1>2. IsFiniteSet(DOMAIN b.orders)
  BY <1>1, ListingCount
<1>3. QED
  BY <1>2, FS_CardinalityType

\* A turn keeps all of it, and uses up the maker or the taker.
LEMMA TurnWorks ==
  ASSUME NEW w, Working(w), crosses(w.book, w.taker), NEW v, v = turn(w)
  PROVE  /\ Working(v) /\ v.taker.id = w.taker.id
         /\ v.book.nextOrderId = w.book.nextOrderId
         /\ Cardinality(DOMAIN w.book.orders) \in Nat \ {0}
         /\ Cardinality(DOMAIN v.book.orders) \in Nat
         /\ \/ Cardinality(DOMAIN v.book.orders) = Cardinality(DOMAIN w.book.orders) - 1
            \/ ~crosses(v.book, v.taker)
<1> DEFINE b == w.book
           t == w.taker
           m == makerOf(b, t)
           fill == fillQty(m, t)
           r == fillBest(b, t)
<1>1. v = [book |-> r, taker |-> less(t, fill), changed |-> touch(w.changed, fillLevel(b, t)),
           events |-> w.events \o fillEvents(b, t)]
  BY DEF turn
<1>2. GoodBook(b, t.id) /\ IsOrder(t) /\ crosses(b, t) /\ m = makerOf(b, t) /\ fill = fillQty(m, t)
  BY DEF Working
<1> HIDE DEF b, t, m, fill
<1>3. v.book = r /\ v.taker = less(t, fill)
      /\ v = [book |-> v.book, taker |-> v.taker, changed |-> v.changed, events |-> v.events]
  BY <1>1
<1>4. GoodBook(r, t.id) /\ r.nextOrderId = b.nextOrderId /\ IsOrder(less(t, fill))
  BY <1>2, FillGood
<1>5. WellFormed(b) /\ OrdersBelow(b, t.id) /\ WellFormed(r)
  BY <1>2, <1>4 DEF GoodBook
<1>6. m.id \in DOMAIN b.orders
  BY <1>2, <1>5, MakerRests DEF crosses
<1>7. r.orders = IF m.qty = fill THEN [x \in DOMAIN b.orders \ {m.id} |-> b.orders[x]]
                 ELSE [b.orders EXCEPT ![m.id] = less(m, fill)]
  BY <1>2, <1>5, FillWellFormed
<1> HIDE DEF r
<1>8. less(t, fill).id = t.id /\ less(t, fill).qty = t.qty - fill /\ t.qty \in Nat
  BY <1>2 DEF less, IsOrder
<1>9. IsFiniteSet(DOMAIN b.orders) /\ Cardinality(DOMAIN b.orders) \in Nat
      /\ Cardinality(DOMAIN r.orders) \in Nat
  BY <1>5, FiniteOrders
<1>10. Cardinality(DOMAIN b.orders) # 0
  BY <1>6, <1>9, FS_EmptySet
<1>11. CASE m.qty = fill
  <2>1. DOMAIN r.orders = DOMAIN b.orders \ {m.id}
    BY <1>7, <1>11
  <2>2. Cardinality(DOMAIN r.orders) = Cardinality(DOMAIN b.orders) - 1
    BY <1>6, <1>9, <2>1, FS_RemoveElement, Zenon
  <2>3. QED
    BY <1>3, <1>4, <1>8, <1>9, <1>10, <2>2 DEF Working, b, t
<1>12. CASE m.qty # fill
  <2>1. fill = t.qty
    BY <1>2, <1>12 DEF fillQty
  <2>2. less(t, fill).qty = 0
    BY <1>8, <2>1
  <2>3. ~crosses(r, less(t, fill))
    BY <2>2 DEF crosses
  <2>4. QED
    BY <1>3, <1>4, <1>8, <1>9, <1>10, <2>3 DEF Working, b, t
<1>13. QED
  BY <1>11, <1>12

\* A turn taken beforehand changes nothing of the result.
LEMMA MatchTurn ==
  ASSUME NEW w, Working(w), crosses(w.book, w.taker) PROVE match(turn(w)) = match(w)
<1> DEFINE v == turn(w)
           m == Cardinality(DOMAIN w.book.orders)
           l == Cardinality(DOMAIN v.book.orders)
<1>1. m \in Nat \ {0} /\ l \in Nat /\ (l = m - 1 \/ ~crosses(v.book, v.taker))
  BY TurnWorks
<1>2. v = turn(w) /\ m = Cardinality(DOMAIN w.book.orders) /\ l = Cardinality(DOMAIN v.book.orders)
  OBVIOUS
<1> HIDE DEF v, m, l
<1>3. CASE l = m - 1
  <2>1. PICK p : IsRun(w, m, p)
    BY <1>1, RunExists
  <2>2. p[0] = w /\ \A k \in 1..m : p[k] = turn(p[k - 1])
    BY <2>1, Zenon DEF IsRun
  <2> DEFINE q == [k \in 0..l |-> p[k + 1]]
  <2>3. \A k \in 0..l : k + 1 \in 1..m
    BY <1>1, <1>3
  <2>4. q = [k \in 0..l |-> q[k]] /\ \A k \in 0..l : q[k] = p[k + 1]
    OBVIOUS
  <2> HIDE DEF q
  <2>5. q[0] = v
    <3>1. 0 \in 0..l /\ 1 \in 1..m /\ 0 + 1 = 1 /\ 1 - 1 = 0
      BY <1>1, <1>3
    <3>2. q[0] = p[1] /\ p[1] = turn(p[0])
      BY <2>2, <2>4, <3>1
    <3>3. QED
      BY <1>2, <2>2, <3>2
  <2>6. ASSUME NEW k \in 1..l PROVE q[k] = turn(q[k - 1])
    <3>1. k \in 0..l /\ k - 1 \in 0..l /\ (k - 1) + 1 = k /\ (k + 1) - 1 = k /\ k + 1 \in 1..m
      BY <1>1, <1>3
    <3>2. q[k] = p[k + 1] /\ q[k - 1] = p[k] /\ p[k + 1] = turn(p[k])
      BY <2>2, <2>4, <3>1
    <3>3. QED
      BY <3>2
  <2>7. IsRun(v, l, q)
    BY <2>4, <2>5, <2>6, Zenon DEF IsRun
  <2>8. match(v) = q[l] /\ match(w) = p[m]
    BY <1>1, <1>2, <2>1, <2>7, RunUnfold, Zenon
  <2>9. q[l] = p[m]
    <3>1. l \in 0..l /\ l + 1 = m
      BY <1>1, <1>3
    <3>2. QED
      BY <2>4, <3>1
  <2>10. QED
    BY <1>2, <2>8, <2>9
<1>4. CASE ~crosses(v.book, v.taker)
  <2>1. match(v) = v /\ turn(v) = v
    BY <1>1, <1>2, <1>4, MatchDone, Zenon
  <2> DEFINE p == [k \in 0..m |-> IF k = 0 THEN w ELSE v]
  <2>2. p = [k \in 0..m |-> p[k]] /\ p[0] = w /\ \A k \in 1..m : p[k] = v
    BY <1>1
  <2> HIDE DEF p
  <2>3. ASSUME NEW k \in 1..m PROVE p[k] = turn(p[k - 1])
    <3>1. CASE k = 1
      BY <1>2, <2>2, <3>1
    <3>2. CASE k # 1
      <4>1. k - 1 \in 1..m
        BY <1>1, <3>2
      <4>2. QED
        BY <2>1, <2>2, <4>1, Zenon
    <3>3. QED
      BY <3>1, <3>2
  <2>4. IsRun(w, m, p)
    BY <2>2, <2>3 DEF IsRun
  <2>5. match(w) = p[m]
    BY <1>1, <1>2, <2>4, RunUnfold, Zenon
  <2>6. p[m] = v
    <3>1. m \in 1..m
      BY <1>1
    <3>2. QED
      BY <2>2, <3>1
  <2>7. QED
    BY <1>2, <2>1, <2>5, <2>6
<1>5. QED
  BY <1>1, <1>3, <1>4, Zenon

\* match comes to an end: as many turns as there are orders are enough.
Matched(w, v) ==
  /\ Working(v) /\ v.taker.id = w.taker.id
  /\ v.book.nextOrderId = w.book.nextOrderId /\ ~crosses(v.book, v.taker)

\* The loop of match ends, whatever crosses: each turn takes an order out of the book.
LEMMA MatchEnds ==
  ASSUME NEW w, Working(w) PROVE Matched(w, match(w))
<1> DEFINE card(x) == Cardinality(DOMAIN x.book.orders)
           N == card(w)
           P(n) == \A x : Working(x) /\ card(x) = n => Matched(x, match(x))
           S == {n \in 0..N : P(n)}
<1>1. ASSUME NEW x, Working(x) PROVE card(x) \in Nat
  BY <1>1, FiniteOrders DEF Working, GoodBook
<1>2. ASSUME NEW x, Working(x), ~crosses(x.book, x.taker) PROVE Matched(x, match(x))
  <2>1. match(x) = x
    BY <1>1, <1>2, MatchDone, Zenon
  <2>2. QED
    BY <1>2, <2>1 DEF Matched
<1>3. P(0)
  <2> SUFFICES ASSUME NEW x, Working(x), card(x) = 0 PROVE Matched(x, match(x))
    BY Zenon
  <2>1. ~crosses(x.book, x.taker)
    BY TurnWorks
  <2>2. QED
    BY <1>2, <2>1, Zenon
<1>4. ASSUME NEW n \in 1..N, P(n - 1) PROVE P(n)
  <2> SUFFICES ASSUME NEW x, Working(x), card(x) = n PROVE Matched(x, match(x))
    BY Zenon
  <2>1. CASE ~crosses(x.book, x.taker)
    BY <1>2, <2>1, Zenon
  <2>2. CASE crosses(x.book, x.taker)
    <3> DEFINE v == turn(x)
    <3>1. /\ Working(v) /\ v.taker.id = x.taker.id /\ v.book.nextOrderId = x.book.nextOrderId
          /\ card(v) = card(x) - 1 \/ ~crosses(v.book, v.taker)
      BY <2>2, TurnWorks
    <3>2. match(v) = match(x)
      BY <2>2, MatchTurn, Zenon
    <3> HIDE DEF v
    <3>3. Matched(v, match(v))
      BY <1>2, <1>4, <3>1, Zenon
    <3>4. QED
      BY <3>1, <3>2, <3>3, Zenon DEF Matched
  <2>3. QED
    BY <2>1, <2>2, Zenon
<1>5. N \in Nat
  BY <1>1
<1> HIDE DEF card, N
<1>6. P(N)
  <2> HIDE DEF P
  <2>1. 0 \in S /\ \A n \in 1..N : n - 1 \in S => n \in S
    BY <1>3, <1>4, <1>5
  <2> HIDE DEF S
  <2>2. \A n \in 0..N : n \in S
    BY <1>5, <2>1, Stepwise
  <2>3. QED
    BY <1>5, <2>2 DEF S
<1>7. QED
  BY <1>6, Zenon DEF N

-----------------------------------------------------------------------------
(* NewLimitOrder and Cancel. *)

\* matchAndRest before the loop, with its new order, and after it.
begun(b, o) ==
  [book |-> [b EXCEPT !.nextOrderId = @ + 1], taker |-> o,
   changed |-> << >>, events |-> << Accepted(o) >>]
ended(w) ==
  LET rested == IF w.taker.qty > 0 THEN restOrder(w.book, w.taker) ELSE w.book
      final  == IF w.taker.qty > 0 THEN touch(w.changed, restLevel(rested, w.taker))
                ELSE w.changed
  IN  [book |-> rested, events |-> w.events \o bookUpdates(final)]

newOrder(b, owner, side, price, qty) ==
  [id |-> b.nextOrderId, owner |-> owner, side |-> side, price |-> price, qty |-> qty]

\* A new order is one to match with.
LEMMA BegunWorks ==
  ASSUME NEW b, GoodBook(b, b.nextOrderId), NEW owner,
         NEW side \in {Buy, Sell, NullSide, UnknownSide},
         NEW price \in Int, price > 0, NEW qty \in Int, qty > 0,
         NEW o, o = newOrder(b, owner, side, price, qty), NEW w, w = begun(b, o)
  PROVE  /\ Working(w) /\ w.taker = o /\ o.id = b.nextOrderId
         /\ w.book.nextOrderId = b.nextOrderId + 1 /\ b.nextOrderId \in Nat
<1>1. /\ GoodBook([b EXCEPT !.nextOrderId = @ + 1], b.nextOrderId)
      /\ [b EXCEPT !.nextOrderId = @ + 1].nextOrderId = b.nextOrderId + 1
      /\ b.nextOrderId \in Nat \ {0}
  BY NextIdGood
<1>2. IsOrder(o) /\ o.id = b.nextOrderId
  BY <1>1 DEF IsOrder, newOrder
<1>3. /\ w = [book |-> w.book, taker |-> w.taker, changed |-> w.changed, events |-> w.events]
      /\ w.book = [b EXCEPT !.nextOrderId = @ + 1] /\ w.taker = o
  BY DEF begun
<1>4. QED
  BY <1>1, <1>2, <1>3 DEF Working

\* The limit of a good book may be a later id.
LEMMA LaterGood ==
  ASSUME NEW b, NEW l \in Int, GoodBook(b, l), NEW k \in Int, l <= k PROVE GoodBook(b, k)
<1>1. DOMAIN b.orders \subseteq Int
  BY DEF GoodBook, WellFormed, IsBook, IsOrderMap
<1>2. OrdersBelow(b, k)
  BY <1>1 DEF GoodBook, OrdersBelow
<1>3. QED
  BY <1>2 DEF GoodBook

\* What is left when nothing matches any more comes to rest in a good book.
LEMMA EndedGood ==
  ASSUME NEW w, Working(w), ~crosses(w.book, w.taker), w.book.nextOrderId \in Int,
         w.taker.id < w.book.nextOrderId
  PROVE  /\ GoodBook(ended(w).book, ended(w).book.nextOrderId)
         /\ ended(w).book.nextOrderId = w.book.nextOrderId
<1>1. GoodBook(w.book, w.taker.id) /\ IsOrder(w.taker) /\ w.taker.id \in Nat
  BY DEF Working, IsOrder
<1>2. CASE w.taker.qty > 0
  <2>1. ended(w).book = restOrder(w.book, w.taker)
    BY <1>2 DEF ended
  <2>2. /\ GoodBook(restOrder(w.book, w.taker), w.book.nextOrderId)
        /\ restOrder(w.book, w.taker).nextOrderId = w.book.nextOrderId
    BY <1>1, <1>2, RestGood
  <2>3. QED
    BY <2>1, <2>2
<1>3. CASE ~(w.taker.qty > 0)
  <2>1. ended(w).book = w.book
    BY <1>3 DEF ended
  <2>2. GoodBook(w.book, w.book.nextOrderId)
    BY <1>1, LaterGood
  <2>3. QED
    BY <2>1, <2>2
<1>4. QED
  BY <1>2, <1>3

\* NewLimitOrder leaves a good book, whatever it is called with.
LEMMA NewLimitOrderGood ==
  ASSUME NEW b, GoodBook(b, b.nextOrderId), NEW owner,
         NEW side \in {Buy, Sell, NullSide, UnknownSide}, NEW price \in Int, NEW qty \in Int,
         NEW r, r = NewLimitOrder(b, owner, side, price, qty)
  PROVE  GoodBook(r.book, r.book.nextOrderId)
<1>1. CASE qty <= 0 \/ price <= 0
  <2>1. r.book = b
    BY <1>1 DEF NewLimitOrder, refuse
  <2>2. QED
    BY <2>1
<1>2. CASE qty > 0 /\ price > 0
  <2> DEFINE o == newOrder(b, owner, side, price, qty)
             w == begun(b, o)
             v == match(w)
  <2>1. r = matchAndRest(b, owner, side, price, qty)
    BY <1>2 DEF NewLimitOrder
  <2>2. r = ended(v)
    BY <2>1, Zenon DEF matchAndRest, ended, begun, newOrder
  <2>3. /\ Working(w) /\ w.taker = o /\ o.id = b.nextOrderId
        /\ w.book.nextOrderId = b.nextOrderId + 1 /\ b.nextOrderId \in Nat
    BY <1>2, BegunWorks, Zenon
  <2> HIDE DEF o, w
  <2>4. Matched(w, v)
    BY <2>3, MatchEnds, Zenon
  <2> HIDE DEF v
  <2>5. /\ Working(v) /\ v.taker.id = b.nextOrderId
        /\ v.book.nextOrderId = b.nextOrderId + 1 /\ ~crosses(v.book, v.taker)
    BY <2>3, <2>4 DEF Matched
  <2>6. v.book.nextOrderId \in Int /\ v.taker.id < v.book.nextOrderId
    BY <2>3, <2>5
  <2>7. QED
    BY <2>2, <2>5, <2>6, EndedGood
<1>3. QED
  BY <1>1, <1>2

\* So does Cancel.
LEMMA CancelLeavesGood ==
  ASSUME NEW b, GoodBook(b, b.nextOrderId), NEW id, NEW owner, NEW r, r = Cancel(b, id, owner)
  PROVE  GoodBook(r.book, r.book.nextOrderId)
<1>1. CASE id \notin DOMAIN b.orders \/ b.orders[id].owner # owner
  <2>1. r.book = b
    BY <1>1 DEF Cancel, refuse
  <2>2. QED
    BY <2>1
<1>2. CASE id \in DOMAIN b.orders /\ b.orders[id].owner = owner
  <2>1. r.book = unlink(withoutQty(b, b.orders[id]), id)
    BY <1>2 DEF Cancel
  <2>2. QED
    BY <1>2, <2>1, CancelGood
<1>3. QED
  BY <1>1, <1>2

-----------------------------------------------------------------------------
(* The events of a command are a sequence. *)

\* No event, one event, and more events.
LEMMA NoEvents == IsSeq(<< >>)
<1>1. << >> \in Seq({})
  OBVIOUS
<1> QED
  BY <1>1 DEF IsSeq

LEMMA OneEvent ==
  ASSUME NEW x PROVE IsSeq(<<x>>)
<1>1. <<x>> \in Seq({x})
  OBVIOUS
<1> QED
  BY <1>1 DEF IsSeq

LEMMA MoreEvents ==
  ASSUME NEW d, NEW e, IsSeq(d), IsSeq(e) PROVE IsSeq(d \o e)
<1>1. PICK S : d \in Seq(S)
  BY DEF IsSeq
<1>2. PICK T : e \in Seq(T)
  BY DEF IsSeq
<1>3. d \in Seq(S \cup T) /\ e \in Seq(S \cup T)
  BY <1>1, <1>2
<1>4. d \o e \in Seq(S \cup T)
  BY <1>3, ConcatProperties
<1> QED
  BY <1>4 DEF IsSeq

\* A function on the positions of a sequence is a sequence.
LEMMA MapIsSeq ==
  ASSUME NEW c, IsSeq(c), NEW f, f = [i \in DOMAIN c |-> f[i]] PROVE IsSeq(f) /\ Len(f) = Len(c)
<1>1. PICK S : c \in Seq(S)
  BY DEF IsSeq
<1> DEFINE T == {f[i] : i \in DOMAIN c}
<1>2. DOMAIN c = 1..Len(c) /\ Len(c) \in Nat
  BY <1>1
<1>3. f = [i \in 1..Len(c) |-> f[i]] /\ \A i \in 1..Len(c) : f[i] \in T
  BY <1>2
<1> HIDE DEF T
<1>4. f \in Seq(T) /\ Len(f) = Len(c)
  BY <1>2, <1>3, MakeSeq
<1> QED
  BY <1>4 DEF IsSeq

\* touch and bookUpdates.
LEMMA TouchIsSeq ==
  ASSUME NEW c, IsSeq(c), NEW x PROVE IsSeq(touch(c, x)) /\ IsSeq(bookUpdates(c))
<1> DEFINE f == [i \in DOMAIN c |-> IF c[i].side = x.side /\ c[i].price = x.price
                                    THEN x ELSE c[i]]
           g == [i \in DOMAIN c |-> BookUpdate(c[i])]
<1>1. f = [i \in DOMAIN c |-> f[i]] /\ g = [i \in DOMAIN c |-> g[i]]
  OBVIOUS
<1>2. touch(c, x) = f \/ touch(c, x) = Append(c, x)
  BY Zenon DEF touch
<1>3. bookUpdates(c) = g
  BY DEF bookUpdates
<1> HIDE DEF f, g
<1>4. IsSeq(f) /\ IsSeq(g)
  BY <1>1, MapIsSeq
<1>5. IsSeq(Append(c, x))
  <2>1. PICK S : c \in Seq(S)
    BY DEF IsSeq
  <2>2. Append(c, x) \in Seq(S \cup {x})
    BY <2>1
  <2> QED
    BY <2>2 DEF IsSeq
<1> QED
  BY <1>2, <1>3, <1>4, <1>5, Zenon

\* What NewLimitOrder collects while it matches.
Lists(w) == IsSeq(w.changed) /\ IsSeq(w.events)

\* A turn of match.
LEMMA TurnLists ==
  ASSUME NEW w, Lists(w) PROVE Lists(turn(w))
<1>1. CASE ~crosses(w.book, w.taker)
  BY <1>1 DEF turn
<1>2. CASE crosses(w.book, w.taker)
  <2> DEFINE c == touch(w.changed, fillLevel(w.book, w.taker))
             e == w.events \o fillEvents(w.book, w.taker)
             b == fillBest(w.book, w.taker)
             t == less(w.taker, fillQty(makerOf(w.book, w.taker), w.taker))
  <2>1. turn(w) = [book |-> b, taker |-> t, changed |-> c, events |-> e]
    BY <1>2, Zenon DEF turn
  <2>2. IsSeq(c)
    BY TouchIsSeq DEF Lists
  <2>3. IsSeq(fillEvents(w.book, w.taker))
    <3>1. PICK x, y, z : fillEvents(w.book, w.taker) = <<x, y, z>>
      BY Zenon DEF fillEvents
    <3>2. <<x, y, z>> \in Seq({x, y, z})
      OBVIOUS
    <3> QED
      BY <3>1, <3>2 DEF IsSeq
  <2>4. IsSeq(e)
    BY <2>3, MoreEvents DEF Lists
  <2> HIDE DEF b, t, c, e
  <2> QED
    BY <2>1, <2>2, <2>4 DEF Lists
<1> QED
  BY <1>1, <1>2

\* All of its turns.
LEMMA MatchLists ==
  ASSUME NEW w, Working(w), Lists(w) PROVE Lists(match(w))
<1> DEFINE m == Cardinality(DOMAIN w.book.orders)
<1>1. m \in Nat
  BY FiniteOrders DEF Working, GoodBook
<1>2. PICK p : IsRun(w, m, p)
  BY <1>1, RunExists
<1>3. match(w) = p[m]
  BY <1>1, <1>2, RunUnfold
<1> HIDE DEF m
<1>4. p[0] = w /\ \A k \in 1..m : p[k] = turn(p[k - 1])
  BY <1>2, Zenon DEF IsRun
<1> DEFINE S == {k \in 0..m : Lists(p[k])}
<1>5. 0 \in S
  BY <1>1, <1>4
<1>6. ASSUME NEW k \in 1..m, k - 1 \in S PROVE k \in S
  <2>1. Lists(turn(p[k - 1]))
    BY <1>6, TurnLists
  <2>2. k \in 0..m
    BY <1>1
  <2> QED
    BY <1>4, <2>1, <2>2
<1>7. \A k \in 1..m : k - 1 \in S => k \in S
  BY <1>6
<1>8. Lists(p[m])
  <2> HIDE DEF S
  <2>1. \A k \in 0..m : k \in S
    BY <1>1, <1>5, <1>7, Stepwise, Zenon
  <2>2. m \in S
    BY <1>1, <2>1
  <2> QED
    BY <2>2 DEF S
<1> QED
  BY <1>3, <1>8

\* NewLimitOrder returns a slice of events, whatever it is called with.
LEMMA NewLimitOrderEvents ==
  ASSUME NEW b, GoodBook(b, b.nextOrderId), NEW owner,
         NEW side \in {Buy, Sell, NullSide, UnknownSide}, NEW price \in Int, NEW qty \in Int
  PROVE  IsSeq(NewLimitOrder(b, owner, side, price, qty).events)
<1> DEFINE r == NewLimitOrder(b, owner, side, price, qty)
<1>1. CASE qty <= 0 \/ price <= 0
  <2>1. PICK x : r.events = <<x>>
    BY <1>1 DEF NewLimitOrder, refuse
  <2> QED
    BY <2>1, OneEvent
<1>2. CASE qty > 0 /\ price > 0
  <2> DEFINE o == newOrder(b, owner, side, price, qty)
             w == begun(b, o)
             v == match(w)
  <2>1. r = matchAndRest(b, owner, side, price, qty)
    BY <1>2 DEF NewLimitOrder
  <2>2. r = ended(v)
    BY <2>1, Zenon DEF matchAndRest, ended, begun, newOrder
  <2>3. Working(w)
    BY <1>2, BegunWorks, Zenon
  <2>4. w.changed = << >> /\ w.events = << Accepted(o) >>
    BY DEF begun
  <2>5. Lists(w)
    BY <2>4, NoEvents, OneEvent, Zenon DEF Lists
  <2> HIDE DEF o, w
  <2>6. Lists(v)
    BY <2>3, <2>5, MatchLists, Zenon
  <2> HIDE DEF v
  <2>7. PICK x, c : /\ ended(v) = [book |-> x, events |-> v.events \o bookUpdates(c)]
                    /\ c = v.changed \/ \E l : c = touch(v.changed, l)
    BY Zenon DEF ended
  <2>8. IsSeq(c)
    BY <2>6, <2>7, TouchIsSeq, Zenon DEF Lists
  <2>9. IsSeq(bookUpdates(c))
    BY <2>8, TouchIsSeq
  <2>10. IsSeq(v.events \o bookUpdates(c))
    BY <2>6, <2>9, MoreEvents, Zenon DEF Lists
  <2> QED
    BY <2>2, <2>7, <2>10
<1> QED
  BY <1>1, <1>2

\* So does Cancel.
LEMMA CancelEvents ==
  ASSUME NEW b, NEW id, NEW owner PROVE IsSeq(Cancel(b, id, owner).events)
<1>1. CASE id \notin DOMAIN b.orders \/ b.orders[id].owner # owner
  <2>1. PICK x : Cancel(b, id, owner).events = <<x>>
    BY <1>1 DEF Cancel, refuse
  <2> QED
    BY <2>1, OneEvent
<1>2. CASE id \in DOMAIN b.orders /\ b.orders[id].owner = owner
  <2>1. PICK x, y : Cancel(b, id, owner).events = <<x, y>>
    BY <1>2 DEF Cancel
  <2>2. <<x, y>> \in Seq({x, y})
    OBVIOUS
  <2> QED
    BY <2>1, <2>2 DEF IsSeq
<1> QED
  BY <1>1, <1>2
=============================================================================
