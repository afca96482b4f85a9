----------------------------- MODULE BookProofs -----------------------------
(***************************************************************************)
(* The steps of the engine keep a book well formed, its aggregates right   *)
(* and its sides apart: restOrder, a fill, a cancel and the assignment of  *)
(* the next id, from what BookLemmas shows of the operators, of unlink and *)
(* of the adjustments of an aggregate.                                     *)
(***************************************************************************)
EXTENDS BookLemmas

-----------------------------------------------------------------------------
\* x joins the elements of t in s.
Joins(s, t, x) == Range(s) = Range(t) \cup {x}

\* The level an order is appended to.
LEMMA WithOrderLevel ==
  \A lv \in Seq(Level) : \A i \in 1..(Len(lv) + 1) : \A o :
  /\ IsOrder(o)
  /\ found(lv, i, o.price) => /\ Ascending(lv[i].fifo)
                              /\ \A x \in Range(lv[i].fifo) : x < o.id
  =>
    /\ withOrder(lv, i, o) \in Level
    /\ withOrder(lv, i, o).price = o.price
    /\ withOrder(lv, i, o).fifo # << >>
    /\ Ascending(withOrder(lv, i, o).fifo)
    /\ found(lv, i, o.price) => Joins(withOrder(lv, i, o).fifo, lv[i].fifo, o.id)
    /\ ~found(lv, i, o.price) => Joins(withOrder(lv, i, o).fifo, << >>, o.id)
\* Appending an element adds it to the elements.
<1>RangeAppend.
     ASSUME NEW S, NEW s \in Seq(S), NEW e \in S
     PROVE  Range(Append(s, e)) = Range(s) \cup {e}
  <2> USE <1>RangeAppend
  <2>1. /\ Append(s, e) \in Seq(S) /\ Len(Append(s, e)) = Len(s) + 1
        /\ \A j \in 1..Len(s) : Append(s, e)[j] = s[j]
        /\ Append(s, e)[Len(s) + 1] = e
    OBVIOUS
  <2>2. /\ Range(Append(s, e)) = {Append(s, e)[j] : j \in 1..(Len(s) + 1)}
        /\ Range(s) = {s[j] : j \in 1..Len(s)}
    BY <2>1, RangeSeq, Zenon
  <2>3. QED
    BY <2>1, <2>2
\* A queue of ascending ids stays one when a greater id is appended.
<1>AscendingAppend.
     ASSUME NEW f \in Seq(Nat \ {0}), Ascending(f), NEW id \in Nat \ {0},
            \A x \in Range(f) : x < id
     PROVE  /\ Append(f, id) \in Seq(Nat \ {0})
            /\ Append(f, id) # << >>
            /\ Ascending(Append(f, id))
            /\ Range(Append(f, id)) = Range(f) \cup {id}
  <2> USE <1>AscendingAppend
  <2>1. \A j \in 1..Len(f) : f[j] < id
    BY RangeSeq
  <2>2. /\ Append(f, id) \in Seq(Nat \ {0}) /\ Len(Append(f, id)) = Len(f) + 1
        /\ \A j \in 1..Len(f) : Append(f, id)[j] = f[j]
        /\ Append(f, id)[Len(f) + 1] = id
    OBVIOUS
  <2>3. Ascending(Append(f, id))
    BY <2>1, <2>2 DEF Ascending
  <2>4. QED
    BY <2>2, <2>3, <1>RangeAppend
<1> TAKE lv \in Seq(Level)
<1> TAKE i \in 1..(Len(lv) + 1)
<1> TAKE o
<1> HAVE /\ IsOrder(o)
         /\ found(lv, i, o.price) => /\ Ascending(lv[i].fifo)
                                     /\ \A x \in Range(lv[i].fifo) : x < o.id
<1> DEFINE q == IF found(lv, i, o.price) THEN lv[i].fifo ELSE << >>
           old == IF found(lv, i, o.price) THEN lv[i]
                  ELSE [price |-> o.price, totalQty |-> 0, fifo |-> << >>]
<1>1. o.id \in Nat \ {0} /\ o.price \in Nat \ {0} /\ o.qty \in Nat
  BY DEF IsOrder
<1>2. old \in Level /\ old.price = o.price /\ old.fifo = q
  <2>1. CASE found(lv, i, o.price)
    <3>1. lv[i] \in Level /\ lv[i].price = o.price
      BY <2>1 DEF found
    <3>2. QED
      BY <2>1, <3>1
  <2>2. CASE ~found(lv, i, o.price)
    <3>1. old = [price |-> o.price, totalQty |-> 0, fifo |-> << >>] /\ q = << >>
      BY <2>2
    <3> HIDE DEF old
    <3>2. QED
      BY <1>1, <3>1 DEF Level
  <2>3. QED
    BY <2>1, <2>2
<1>3. Ascending(q) /\ \A x \in Range(q) : x < o.id
  BY DEF Ascending, Range
<1>10. (found(lv, i, o.price) => q = lv[i].fifo) /\ (~found(lv, i, o.price) => q = << >>)
  BY Zenon
<1> HIDE DEF q
<1>4. withOrder(lv, i, o) = [old EXCEPT !.fifo = Append(@, o.id), !.totalQty = Wrap(@ + o.qty)]
  BY DEF withOrder
<1> HIDE DEF old
<1>5. old.totalQty + o.qty \in Int /\ q \in Seq(Nat \ {0})
  <2>1. old.totalQty \in Int /\ old.fifo \in Seq(Nat \ {0})
    BY <1>2 DEF Level
  <2>2. QED
    BY <1>1, <1>2, <2>1
<1>6. Wrap(old.totalQty + o.qty) \in Int
  BY <1>5, WrapInt
<1>7. /\ Append(q, o.id) \in Seq(Nat \ {0}) /\ Append(q, o.id) # << >>
      /\ Ascending(Append(q, o.id)) /\ Range(Append(q, o.id)) = Range(q) \cup {o.id}
  BY <1>1, <1>3, <1>5, <1>AscendingAppend, Zenon
<1>8. /\ withOrder(lv, i, o) \in Level
      /\ withOrder(lv, i, o).price = o.price
      /\ withOrder(lv, i, o).fifo = Append(q, o.id)
  BY <1>2, <1>4, <1>6, <1>7, Zenon DEF Level
<1>9. QED
  BY <1>7, <1>8, <1>10, Zenon DEF Joins

\* The slice of restOrder.
restSlice(b, bs, i, o) ==
  IF found(b.levels[bs], i, o.price)
  THEN replaceAt(b.levels[bs], i, withOrder(b.levels[bs], i, o))
  ELSE insertAt(b.levels[bs], i, withOrder(b.levels[bs], i, o))

\* The levels it replaces: at most the one of the order's price.
replaced(b, bs, i, o) == IF found(b.levels[bs], i, o.price) THEN {b.levels[bs][i]} ELSE {}

\* The order is not in the book, and newer than the orders of its side and price.
Behind(b, o) ==
  \A x \in DOMAIN b.orders :
    /\ x # o.id
    /\ BookSide(b.orders[x].side) = BookSide(o.side) /\ b.orders[x].price = o.price => x < o.id

\* The level in which an order comes to rest replaces the level of its price,
\* if there is one; no other level has that price.
LEMMA RestSlice ==
  \A b : WellFormed(b) => \A bs \in BookSides : \A o :
  (IsOrder(o) /\ bs = BookSide(o.side) /\ Behind(b, o)) => \A i :
  i = levelIndex(b.levels[bs], o.price, bs) => \A e :
  e = withOrder(b.levels[bs], i, o) => \A L : L = replaced(b, bs, i, o) =>
    /\ restSlice(b, bs, i, o) \in Seq(Level)
    /\ SortedSlice(restSlice(b, bs, i, o), bs)
    /\ e.price = o.price /\ e.fifo # << >> /\ Ascending(e.fifo)
    /\ Range(restSlice(b, bs, i, o)) = (levelsOf(b, bs) \ L) \cup {e}
    /\ Range(e.fifo) = (UNION {Range(l.fifo) : l \in L}) \cup {o.id}
    /\ L \subseteq levelsOf(b, bs)
    /\ \A l \in L : l.price = o.price
\* Inserting a new price in place keeps a slice sorted.
<1>InsertSorted.
     ASSUME NEW S, \A e \in S : e.price \in Int,
            NEW lv \in Seq(S), NEW bs \in BookSides, SortedSlice(lv, bs),
            NEW e \in S, NEW i \in 1..(Len(lv) + 1), inPlace(lv, e.price, bs, i),
            ~found(lv, i, e.price)
     PROVE  SortedSlice(insertAt(lv, i, e), bs)
  <2> USE <1>InsertSorted
  <2> DEFINE r == insertAt(lv, i, e)
             at(j) == IF j < i THEN j ELSE j - 1
  <2>1. /\ Len(r) = Len(lv) + 1
        /\ r[i] = e
        /\ \A j \in 1..(Len(lv) + 1) : j # i => r[j] = lv[at(j)]
    BY InsertAtProps, SMTT(60)
  <2>2. \A j \in 1..(i - 1) : Before(bs, lv[j].price, e.price)
    BY DEF inPlace
  <2>3. \A j \in i..Len(lv) : Before(bs, e.price, lv[j].price)
    <3>1. i <= Len(lv) => Before(bs, e.price, lv[i].price)
      BY DEF inPlace, found, Before
    <3>2. \A j \in i..Len(lv) : j # i => Before(bs, lv[i].price, lv[j].price)
      BY DEF SortedSlice
    <3>3. \A j \in i..Len(lv) : lv[j].price \in Int
      OBVIOUS
    <3>4. QED
      BY <3>1, <3>2, <3>3 DEF Before
  <2> SUFFICES ASSUME NEW m \in 1..Len(r), NEW n \in 1..Len(r), m < n
               PROVE  Before(bs, r[m].price, r[n].price)
    BY DEF SortedSlice
  <2> HIDE DEF r
  <2>4. CASE m = i
    <3>1. at(n) \in i..Len(lv) /\ r[n] = lv[at(n)]
      BY <2>1, <2>4
    <3>2. QED
      BY <2>1, <2>3, <2>4, <3>1
  <2>5. CASE n = i
    <3>1. m \in 1..(i - 1) /\ r[m] = lv[m]
      BY <2>1, <2>5
    <3>2. QED
      BY <2>1, <2>2, <2>5, <3>1
  <2>6. CASE m # i /\ n # i
    <3>1. at(m) \in 1..Len(lv) /\ at(n) \in 1..Len(lv) /\ at(m) < at(n)
      BY <2>1, <2>6
    <3>2. r[m] = lv[at(m)] /\ r[n] = lv[at(n)]
      BY <2>1, <2>6
    <3> HIDE DEF at
    <3>3. QED
      BY <3>1, <3>2 DEF SortedSlice
  <2>7. QED
    BY <2>4, <2>5, <2>6
\* The empty sequence has no elements.
<1>RangeNil.
     Range(<< >>) = {}
  BY DEF Range
\* Inserting an element adds it to the elements.
<1>RangeInsert.
     ASSUME NEW S, NEW s \in Seq(S), NEW i \in 1..(Len(s) + 1), NEW e \in S
     PROVE  Range(insertAt(s, i, e)) = Range(s) \cup {e}
  <2> USE <1>RangeInsert
  <2> DEFINE r == insertAt(s, i, e)
             at(j) == IF j < i THEN j ELSE j - 1
             back(j) == IF j < i THEN j ELSE j + 1
  <2>1. /\ r \in Seq(S) /\ Len(r) = Len(s) + 1 /\ r[i] = e
        /\ \A j \in 1..(Len(s) + 1) : j # i => r[j] = s[at(j)]
    BY InsertAtProps, SMTT(60)
  <2>2. Range(r) = {r[j] : j \in 1..Len(r)} /\ Range(s) = {s[j] : j \in 1..Len(s)}
    BY <2>1, RangeSeq
  <2> HIDE DEF r
  <2>3. \A j \in 1..Len(r) : j # i => at(j) \in 1..Len(s) /\ r[j] = s[at(j)]
    BY <2>1
  <2>4. \A j \in 1..Len(s) : back(j) \in 1..Len(r) /\ back(j) # i /\ at(back(j)) = j
    BY <2>1
  <2>5. \A j \in 1..Len(s) : \E m \in 1..Len(r) : r[m] = s[j]
    BY <2>3, <2>4
  <2> HIDE DEF at, back
  <2>6. Range(r) \subseteq Range(s) \cup {e}
    BY <2>1, <2>2, <2>3
  <2>7. Range(s) \cup {e} \subseteq Range(r)
    BY <2>1, <2>2, <2>5
  <2>8. QED
    BY <2>6, <2>7 DEF r
\* A new level joins those of its slice.
<1>InsertLevel.
     ASSUME NEW lv \in Seq(Level), NEW i \in 1..(Len(lv) + 1), NEW e \in Level
     PROVE  insertAt(lv, i, e) \in Seq(Level) /\ Joins(insertAt(lv, i, e), lv, e)
  <2> USE <1>InsertLevel
  <2>1. insertAt(lv, i, e) \in Seq(Level)
    BY InsertAtProps
  <2>2. QED
    BY <2>1, <1>RangeInsert DEF Joins
<1> TAKE b
<1> HAVE WellFormed(b)
<1> TAKE bs \in BookSides
<1> TAKE o
<1> HAVE IsOrder(o) /\ bs = BookSide(o.side) /\ Behind(b, o)
<1> TAKE i
<1> HAVE i = levelIndex(b.levels[bs], o.price, bs)
<1> TAKE e
<1> HAVE e = withOrder(b.levels[bs], i, o)
<1> TAKE L
<1> HAVE L = replaced(b, bs, i, o)
<1> DEFINE lv == b.levels[bs]
           F == found(lv, i, o.price)
           nlv == restSlice(b, bs, i, o)
<1>1. /\ lv \in Seq(Level) /\ Len(lv) \in Nat /\ SortedSlice(lv, bs)
      /\ levelsOf(b, bs) = {lv[j] : j \in 1..Len(lv)}
      /\ \A j \in 1..Len(lv) : lv[j].price \in Int
  <2>1. lv \in Seq(Level) /\ Len(lv) \in Nat /\ SortedSlice(lv, bs)
    BY SliceFacts
  <2>2. levelsOf(b, bs) = {lv[j] : j \in 1..Len(lv)}
    BY SliceFacts
  <2>3. \A j \in 1..Len(lv) : lv[j].price \in Nat \ {0}
    BY SliceFacts
  <2>4. QED
    BY <2>1, <2>2, <2>3, SMTT(60)
<1>2. o.price \in Int /\ o.price \in Nat \ {0}
  BY DEF IsOrder
<1>3. i \in 1..(Len(lv) + 1) /\ inPlace(lv, o.price, bs, i)
  <2>1. i = levelIndex(lv, o.price, bs)
    OBVIOUS
  <2> HIDE DEF lv
  <2>2. QED
    BY <1>1, <1>2, <2>1, LevelIndexInPlace
<1>4. ASSUME F PROVE i \in 1..Len(lv) /\ lv[i] \in levelsOf(b, bs) /\ lv[i].price = o.price
  BY <1>1, <1>3, <1>4, SMTT(60) DEF found
<1>5. F => Ascending(lv[i].fifo) /\ \A x \in Range(lv[i].fifo) : x < o.id
  <2> HAVE F
  <2>1. lv[i] \in levelsOf(b, bs)
    BY <1>4
  <2>2. \A x \in Range(lv[i].fifo) : /\ x \in DOMAIN b.orders
                                     /\ BookSide(b.orders[x].side) = bs
                                     /\ b.orders[x].price = o.price
    BY <1>4, <2>1 DEF WellFormed, QueuesHoldOrders
  <2>3. \A x \in Range(lv[i].fifo) : x < o.id
    BY <2>2 DEF Behind
  <2>4. QED
    BY <2>1, <2>3 DEF WellFormed, QueuesAscend
<1>6. /\ e \in Level /\ e.price = o.price /\ e.fifo # << >> /\ Ascending(e.fifo)
      /\ F => Joins(e.fifo, lv[i].fifo, o.id)
      /\ ~F => Joins(e.fifo, << >>, o.id)
  <2>1. lv \in Seq(Level) /\ i \in 1..(Len(lv) + 1)
    BY <1>1, <1>3
  <2>2. e = withOrder(lv, i, o)
    BY Zenon
  <2>3. found(lv, i, o.price) => Ascending(lv[i].fifo) /\ \A x \in Range(lv[i].fifo) : x < o.id
    BY <1>5, Zenon
  <2> HIDE DEF lv
  <2>4. /\ withOrder(lv, i, o) \in Level
        /\ withOrder(lv, i, o).price = o.price
        /\ withOrder(lv, i, o).fifo # << >>
        /\ Ascending(withOrder(lv, i, o).fifo)
        /\ found(lv, i, o.price) => Joins(withOrder(lv, i, o).fifo, lv[i].fifo, o.id)
        /\ ~found(lv, i, o.price) => Joins(withOrder(lv, i, o).fifo, << >>, o.id)
    BY <2>1, <2>3, WithOrderLevel, Zenon
  <2>5. QED
    BY <2>2, <2>4, Zenon
<1>7. CASE F
  <2>1. nlv = replaceAt(b.levels[bs], i, e) /\ i \in 1..Len(b.levels[bs])
    BY <1>7, <1>4 DEF restSlice
  <2>2. e \in Level /\ e.price = b.levels[bs][i].price
    BY <1>4, <1>6, <1>7, Zenon
  <2> HIDE DEF lv, nlv
  <2>3. /\ nlv \in Seq(Level) /\ SortedSlice(nlv, bs)
        /\ Range(nlv) = (levelsOf(b, bs) \ {b.levels[bs][i]}) \cup {e}
    <3>1. replaceAt(b.levels[bs], i, e) \in Seq(Level)
      BY <2>1, <2>2, SliceReplace
    <3>2. SortedSlice(replaceAt(b.levels[bs], i, e), bs)
      BY <2>1, <2>2, SliceReplace
    <3>3. Range(replaceAt(b.levels[bs], i, e)) = (levelsOf(b, bs) \ {b.levels[bs][i]}) \cup {e}
      <4>1. i \in 1..Len(b.levels[bs])
        BY <2>1
      <4>2. Exchanged(b, bs, i, e)
        BY <4>1, <2>2, SliceReplace
      <4>3. QED
        BY <4>2, Zenon DEF Exchanged
    <3>4. QED
      BY <2>1, <3>1, <3>2, <3>3
  <2>4. Range(e.fifo) = Range(lv[i].fifo) \cup {o.id}
    BY <1>6, <1>7, Zenon DEF Joins
  <2>5. UNION {Range(l.fifo) : l \in {lv[i]}} = Range(lv[i].fifo)
    BY Zenon
  <2>6. L = {lv[i]} /\ L \subseteq levelsOf(b, bs) /\ \A l \in L : l.price = o.price
    BY <1>4, <1>7 DEF replaced, lv
  <2>7. Range(nlv) = (levelsOf(b, bs) \ L) \cup {e}
    BY <2>3, <2>6 DEF lv
  <2>8. Range(e.fifo) = (UNION {Range(l.fifo) : l \in L}) \cup {o.id}
    BY <2>4, <2>5, <2>6
  <2>9. QED
    BY <1>6, <2>3, <2>6, <2>7, <2>8, Zenon DEF nlv
<1>8. CASE ~F
  <2>1. nlv = insertAt(lv, i, e)
    BY <1>8 DEF restSlice
  <2>2. \A x \in Level : x.price \in Int
    BY DEF Level
  <2>3. ~found(lv, i, e.price) /\ inPlace(lv, e.price, bs, i)
    BY <1>3, <1>6, <1>8, Zenon
  <2> HIDE DEF lv, nlv
  <2>4. SortedSlice(insertAt(lv, i, e), bs)
    BY <1>1, <1>3, <1>6, <2>2, <2>3, <1>InsertSorted
  <2>5. insertAt(lv, i, e) \in Seq(Level) /\ Range(insertAt(lv, i, e)) = Range(lv) \cup {e}
    <3>1. lv \in Seq(Level) /\ i \in 1..(Len(lv) + 1) /\ e \in Level
      BY <1>1, <1>3, <1>6, Zenon
    <3>2. insertAt(lv, i, e) \in Seq(Level) /\ Joins(insertAt(lv, i, e), lv, e)
      BY <3>1, <1>InsertLevel, Zenon
    <3>3. QED
      BY <3>2, Zenon DEF Joins
  <2>6. Range(e.fifo) = {o.id}
    <3>1. Range(e.fifo) = Range(<< >>) \cup {o.id}
      BY <1>6, <1>8, Zenon DEF Joins
    <3>2. QED
      BY <3>1, <1>RangeNil, Zenon
  <2>7. L = {}
    BY <1>8 DEF replaced, lv
  <2>8. Range(nlv) = (levelsOf(b, bs) \ L) \cup {e}
    BY <2>1, <2>5, <2>7 DEF levelsOf, lv
  <2>9. Range(e.fifo) = (UNION {Range(l.fifo) : l \in L}) \cup {o.id}
    BY <2>6, <2>7
  <2>10. QED
    BY <1>6, <2>1, <2>4, <2>5, <2>7, <2>8, <2>9, Zenon DEF nlv
<1>9. QED
  BY <1>7, <1>8

\* l is a level of b with the order at the back of its queue and its quantity
\* in its aggregate, or a new one with that order only.
Received(b, c, l, o) ==
  \/ \E m \in levelsOf(b, c) : /\ l.fifo = Append(m.fifo, o.id)
                               /\ l.totalQty = Wrap(m.totalQty + o.qty)
  \/ l.fifo = Append(<< >>, o.id) /\ l.totalQty = Wrap(0 + o.qty)

\* Every level of r is one of b, or has received the order.
Enqueued(b, r, o) ==
  \A c \in BookSides : \A l \in levelsOf(r, c) :
    l \in levelsOf(b, c) \/ Received(b, c, l, o)

\* restOrder adds the one order, behind those of its price.
LEMMA RestBehind ==
  \A b : WellFormed(b) => \A o : (IsOrder(o) /\ Behind(b, o)) =>
    /\ WellFormed(restOrder(b, o))
    /\ DOMAIN restOrder(b, o).orders = DOMAIN b.orders \cup {o.id}
    /\ restOrder(b, o).orders[o.id] = o
    /\ \A x \in DOMAIN b.orders : restOrder(b, o).orders[x] = b.orders[x]
    /\ restOrder(b, o).nextOrderId = b.nextOrderId
    /\ Enqueued(b, restOrder(b, o), o)
\* The queue and the aggregate of that level.
<1>WithOrderQueue.
     ASSUME NEW lv \in Seq(Level), NEW i \in 1..(Len(lv) + 1), NEW o
     PROVE  /\ found(lv, i, o.price) =>
                 /\ withOrder(lv, i, o).fifo = Append(lv[i].fifo, o.id)
                 /\ withOrder(lv, i, o).totalQty = Wrap(lv[i].totalQty + o.qty)
            /\ ~found(lv, i, o.price) =>
                 /\ withOrder(lv, i, o).fifo = Append(<< >>, o.id)
                 /\ withOrder(lv, i, o).totalQty = Wrap(0 + o.qty)
  <2> USE <1>WithOrderQueue
  <2>1. CASE found(lv, i, o.price)
    <3>1. lv[i] \in Level
      BY <2>1 DEF found
    <3>2. withOrder(lv, i, o) = [lv[i] EXCEPT !.fifo = Append(@, o.id), !.totalQty = Wrap(@ + o.qty)]
      BY <2>1 DEF withOrder
    <3>3. QED
      BY <2>1, <3>1, <3>2 DEF Level
  <2>2. CASE ~found(lv, i, o.price)
    BY <2>2 DEF withOrder
  <2>3. QED
    BY <2>1, <2>2
\* The level in which the order comes to rest has received it.
<1>RestReceived.
     ASSUME NEW b, WellFormed(b), NEW bs \in BookSides, NEW o, IsOrder(o),
            NEW i, i = levelIndex(b.levels[bs], o.price, bs)
     PROVE  Received(b, bs, withOrder(b.levels[bs], i, o), o)
  <2> USE <1>RestReceived
  <2> DEFINE lv == b.levels[bs]
             e  == withOrder(lv, i, o)
  <2>1. lv \in Seq(Level) /\ Len(lv) \in Nat /\ SortedSlice(lv, bs)
    BY SliceFacts
  <2>2. levelsOf(b, bs) = {lv[j] : j \in 1..Len(lv)}
    BY SliceFacts
  <2>3. \A j \in 1..Len(lv) : lv[j].price \in Int
    <3>1. \A j \in 1..Len(lv) : lv[j].price \in Nat \ {0}
      BY SliceFacts
    <3>2. QED
      BY <3>1
  <2>4. o.price \in Int
    BY DEF IsOrder
  <2>5. i \in 1..(Len(lv) + 1)
    <3>1. i = levelIndex(lv, o.price, bs)
      OBVIOUS
    <3> HIDE DEF lv
    <3>2. QED
      BY <2>1, <2>3, <2>4, <3>1, LevelIndexInPlace
  <2> HIDE DEF lv
  <2>6. CASE found(lv, i, o.price)
    <3>1. i \in 1..Len(lv)
      BY <2>1, <2>5, <2>6 DEF found
    <3>2. lv[i] \in levelsOf(b, bs)
      BY <2>2, <3>1
    <3>3. e.fifo = Append(lv[i].fifo, o.id) /\ e.totalQty = Wrap(lv[i].totalQty + o.qty)
      BY <2>1, <2>5, <2>6, <1>WithOrderQueue
    <3>4. QED
      BY <3>2, <3>3, Zenon DEF Received, lv
  <2>7. CASE ~found(lv, i, o.price)
    <3>1. e.fifo = Append(<< >>, o.id) /\ e.totalQty = Wrap(0 + o.qty)
      BY <2>1, <2>5, <2>7, <1>WithOrderQueue, Zenon
    <3>2. QED
      BY <3>1 DEF Received, lv
  <2>8. QED
    BY <2>6, <2>7
<1> TAKE b
<1> HAVE WellFormed(b)
<1> TAKE o
<1> HAVE IsOrder(o) /\ Behind(b, o)
<1> DEFINE bs == BookSide(o.side)
           i  == levelIndex(b.levels[bs], o.price, bs)
           e  == withOrder(b.levels[bs], i, o)
           nlv == restSlice(b, bs, i, o)
           nord == [x \in DOMAIN b.orders \cup {o.id} |-> IF x = o.id THEN o ELSE b.orders[x]]
           r  == restOrder(b, o)
           L  == replaced(b, bs, i, o)
<1>1. bs \in BookSides /\ bs = BookSide(o.side)
  BY DEF BookSide, BookSides
<1>2. r = putSlice(b, bs, nlv, nord)
  BY DEF restOrder, restSlice
<1> HIDE DEF bs, i, e, nlv, nord, r, L
<1>3. nlv \in Seq(Level) /\ SortedSlice(nlv, bs)
  BY <1>1, RestSlice DEF nlv, i, e
<1>4. e.price = o.price /\ e.fifo # << >> /\ Ascending(e.fifo)
  BY <1>1, RestSlice DEF nlv, i, e
<1>5. /\ Range(nlv) = (levelsOf(b, bs) \ L) \cup {e}
      /\ Range(e.fifo) = (UNION {Range(l.fifo) : l \in L}) \cup {o.id}
      /\ L \subseteq levelsOf(b, bs) /\ \A l \in L : l.price = o.price
  <2>1. Range(nlv) = (levelsOf(b, bs) \ L) \cup {e}
    BY <1>1, RestSlice DEF nlv, i, e, L
  <2>2. Range(e.fifo) = (UNION {Range(l.fifo) : l \in L}) \cup {o.id}
    BY <1>1, RestSlice DEF nlv, i, e, L
  <2>3. L \subseteq levelsOf(b, bs) /\ \A l \in L : l.price = o.price
    BY <1>1, RestSlice DEF nlv, i, e, L
  <2>4. QED
    BY <2>1, <2>2, <2>3
<1>6. o.id \in Nat \ {0} /\ o.id \notin DOMAIN b.orders
  BY DEF IsOrder, Behind
<1>7. /\ DOMAIN nord = DOMAIN b.orders \cup {o.id} /\ nord[o.id] = o
      /\ \A x \in DOMAIN b.orders : nord[x] = b.orders[x]
  BY <1>6 DEF nord
<1>8. IsOrderMap(nord)
  BY <1>6 DEF WellFormed, IsBook, IsOrderMap, nord
<1>9. IsBook(b) /\ SlicesSorted(b)
  BY DEF WellFormed
<1>10. /\ IsBook(r) /\ SlicesSorted(r) /\ levelsOf(r, bs) = Range(nlv)
       /\ \A c \in BookSides : c # bs => levelsOf(r, c) = levelsOf(b, c)
       /\ r.orders = nord /\ r.nextOrderId = b.nextOrderId
  BY <1>1, <1>2, <1>3, <1>8, <1>9, NewSlice
<1>11. QueuesHoldOrders(r)
  <2> SUFFICES ASSUME NEW c \in BookSides, NEW l \in levelsOf(r, c)
               PROVE  /\ l.fifo # << >>
                      /\ \A y \in Range(l.fifo) : /\ y \in DOMAIN r.orders
                                                 /\ BookSide(r.orders[y].side) = c
                                                 /\ r.orders[y].price = l.price
    BY DEF QueuesHoldOrders
  <2>1. CASE l \in levelsOf(b, c)
    BY <1>7, <1>10, <2>1 DEF WellFormed, QueuesHoldOrders
  <2>2. CASE l \notin levelsOf(b, c)
    <3>1. l = e /\ c = bs
      BY <1>5, <1>10, <2>2
    <3>2. ASSUME NEW y \in Range(e.fifo)
          PROVE  /\ y \in DOMAIN nord /\ BookSide(nord[y].side) = bs
                 /\ nord[y].price = o.price
      <4>1. CASE y = o.id
        BY <1>7, <4>1 DEF bs
      <4>2. CASE y # o.id
        <5>1. PICK m \in L : y \in Range(m.fifo)
          BY <1>5, <4>2
        <5>2. m \in levelsOf(b, bs) /\ m.price = o.price
          BY <1>5
        <5>3. y \in DOMAIN b.orders /\ BookSide(b.orders[y].side) = bs
              /\ b.orders[y].price = m.price
          BY <1>1, <5>1, <5>2 DEF WellFormed, QueuesHoldOrders
        <5>4. QED
          BY <1>7, <5>2, <5>3
      <4>3. QED
        BY <4>1, <4>2
    <3>3. QED
      BY <1>4, <1>10, <3>1, <3>2
  <2>3. QED
    BY <2>1, <2>2
<1>12. OrdersAreQueued(r)
  <2> SUFFICES ASSUME NEW y \in DOMAIN nord
               PROVE  /\ nord[y].id = y
                      /\ \E l \in levelsOf(r, BookSide(nord[y].side)) : y \in Range(l.fifo)
    BY <1>10 DEF OrdersAreQueued
  <2>0. e \in levelsOf(r, bs)
    BY <1>5, <1>10
  <2>1. CASE y = o.id
    <3>1. nord[y] = o /\ y \in Range(e.fifo)
      BY <1>5, <1>7, <2>1
    <3>2. QED
      BY <2>0, <2>1, <3>1 DEF bs
  <2>2. CASE y # o.id
    <3>1. y \in DOMAIN b.orders /\ nord[y] = b.orders[y]
      BY <1>7, <2>2
    <3>2. b.orders[y].id = y
      BY <3>1 DEF WellFormed, OrdersAreQueued
    <3>3. PICK m \in levelsOf(b, BookSide(b.orders[y].side)) : y \in Range(m.fifo)
      BY <3>1 DEF WellFormed, OrdersAreQueued
    <3>4. BookSide(b.orders[y].side) \in BookSides
      BY DEF BookSide, BookSides
    <3>5. CASE BookSide(b.orders[y].side) # bs
      BY <1>10, <3>1, <3>2, <3>3, <3>4, <3>5
    <3>6. CASE BookSide(b.orders[y].side) = bs /\ m \notin L
      BY <1>5, <1>10, <3>1, <3>2, <3>3, <3>6
    <3>7. CASE BookSide(b.orders[y].side) = bs /\ m \in L
      <4>1. y \in Range(e.fifo)
        BY <1>5, <3>3, <3>7
      <4>2. QED
        BY <2>0, <3>1, <3>2, <3>7, <4>1
    <3>8. QED
      BY <3>5, <3>6, <3>7
  <2>3. QED
    BY <2>1, <2>2
<1>13. QueuesAscend(r)
  <2> SUFFICES ASSUME NEW c \in BookSides, NEW l \in levelsOf(r, c)
               PROVE  Ascending(l.fifo)
    BY DEF QueuesAscend
  <2>1. l \in levelsOf(b, c) \/ l = e
    BY <1>5, <1>10
  <2>2. QED
    BY <1>4, <2>1 DEF WellFormed, QueuesAscend
<1>14. WellFormed(r)
  BY <1>10, <1>11, <1>12, <1>13 DEF WellFormed
<1>16. Received(b, bs, e, o)
  BY <1>1, <1>RestReceived DEF e, i
<1>17. Enqueued(b, r, o)
  BY <1>5, <1>10, <1>16 DEF Enqueued
<1>15. QED
  BY <1>7, <1>10, <1>14, <1>17 DEF r

\* A new order has a greater id than all others.
LEMMA NewerIsBehind ==
  ASSUME NEW b, WellFormed(b), NEW o, IsOrder(o), \A x \in DOMAIN b.orders : x < o.id
  PROVE  Behind(b, o)
<1>1. o.id \in Nat
  BY DEF IsOrder
<1>2. QED
  BY <1>1 DEF Behind

\* So it rests behind those of its price.
LEMMA RestWellFormed ==
  ASSUME NEW b, WellFormed(b), NEW o, IsOrder(o), \A x \in DOMAIN b.orders : x < o.id
  PROVE  /\ WellFormed(restOrder(b, o))
         /\ DOMAIN restOrder(b, o).orders = DOMAIN b.orders \cup {o.id}
         /\ restOrder(b, o).orders[o.id] = o
         /\ \A x \in DOMAIN b.orders : restOrder(b, o).orders[x] = b.orders[x]
         /\ restOrder(b, o).nextOrderId = b.nextOrderId
BY NewerIsBehind, RestBehind

-----------------------------------------------------------------------------
(* The aggregates. *)

\* The quantities of a queue are a sequence of its length.
LEMMA QuantitiesSeq ==
  ASSUME NEW b, WellFormed(b), NEW f \in Seq(Nat \ {0})
  PROVE  /\ quantities(b, f) \in Seq(Int) /\ Len(quantities(b, f)) = Len(f)
         /\ \A k \in 1..Len(f) : quantities(b, f)[k] = restingQty(b, f[k])
<1>1. \A x : restingQty(b, x) \in Int
  BY DEF restingQty, WellFormed, IsBook, IsOrderMap, IsOrder
<1>2. quantities(b, f) = [k \in 1..Len(f) |-> restingQty(b, f[k])] /\ Len(f) \in Nat
  BY DEF quantities
<1>3. QED
  BY <1>1, <1>2

\* The same quantities, with the same sum.
LEMMA QuantitiesSame ==
  ASSUME NEW b, NEW r, NEW f \in Seq(Nat \ {0}),
         \A x \in Range(f) : restingQty(r, x) = restingQty(b, x)
  PROVE  quantities(r, f) = quantities(b, f)
<1>1. Range(f) = {f[k] : k \in 1..Len(f)} /\ DOMAIN f = 1..Len(f)
  BY RangeSeq
<1>2. QED
  BY <1>1 DEF quantities

\* A level of a well-formed book.
LEMMA LevelFacts ==
  ASSUME NEW b, WellFormed(b), NEW c \in BookSides, NEW l \in levelsOf(b, c)
  PROVE  /\ l.fifo \in Seq(Nat \ {0}) /\ Ascending(l.fifo) /\ l.totalQty \in Int
         /\ \A x \in Range(l.fifo) : /\ x \in DOMAIN b.orders /\ x \in Nat \ {0}
                                     /\ BookSide(b.orders[x].side) = c
                                     /\ b.orders[x].price = l.price
<1>1. levelsOf(b, c) = {b.levels[c][j] : j \in 1..Len(b.levels[c])}
  BY SliceFacts
<1>2. b.levels[c] \in Seq(Level)
  BY SliceFacts
<1>3. l \in Level
  BY <1>1, <1>2
<1>4. l.fifo \in Seq(Nat \ {0}) /\ l.totalQty \in Int
  BY <1>3 DEF Level
<1>5. Ascending(l.fifo)
  BY DEF WellFormed, QueuesAscend
<1>6. \A x \in Range(l.fifo) : /\ x \in DOMAIN b.orders
                               /\ BookSide(b.orders[x].side) = c
                               /\ b.orders[x].price = l.price
  BY DEF WellFormed, QueuesHoldOrders
<1>7. DOMAIN b.orders \subseteq Nat \ {0}
  BY DEF WellFormed, IsBook, IsOrderMap
<1>8. QED
  BY <1>4, <1>5, <1>6, <1>7

\* The sum of the quantities of a queue.
LEMMA QuantitiesInt ==
  ASSUME NEW b, WellFormed(b), NEW f \in Seq(Nat \ {0})
  PROVE  sumOf(quantities(b, f)) \in Int
BY QuantitiesSeq, SumInt

\* The aggregates match but for the level of id, which has its quantity less.
TotalsBut(b, id) ==
  \A c \in BookSides : \A l \in levelsOf(b, c) :
    l.totalQty = IF id \in Range(l.fifo)
                 THEN Wrap(sumOf(quantities(b, l.fifo)) - restingQty(b, id))
                 ELSE Wrap(sumOf(quantities(b, l.fifo)))

\* unlink leaves aggregates alone: its callers have taken the quantity off.
LEMMA UnlinkTotals ==
  \A b : WellFormed(b) => \A id \in DOMAIN b.orders : TotalsBut(b, id) =>
    TotalsMatch(unlink(b, id))
\* Without the order at one place of the queue.
<1>QuantitiesRemove.
     ASSUME NEW b, WellFormed(b), NEW f \in Seq(Nat \ {0}), NEW k \in 1..Len(f)
     PROVE  sumOf(quantities(b, removeAt(f, k))) = sumOf(quantities(b, f)) - restingQty(b, f[k])
  <2> USE <1>QuantitiesRemove
  <2> DEFINE g == removeAt(f, k)
             q == quantities(b, f)
             u == quantities(b, g)
             at(j) == IF j < k THEN j ELSE j + 1
  <2>1. g \in Seq(Nat \ {0}) /\ Len(g) = Len(f) - 1
    BY RemoveAtProps
  <2>2. \A j \in 1..(Len(f) - 1) : g[j] = f[at(j)]
    BY RemoveAtProps, Zenon
  <2>3. q \in Seq(Int) /\ Len(q) = Len(f) /\ \A j \in 1..Len(f) : q[j] = restingQty(b, f[j])
    BY QuantitiesSeq
  <2> HIDE DEF g
  <2>4. u \in Seq(Int) /\ Len(u) = Len(g) /\ \A j \in 1..Len(g) : u[j] = restingQty(b, g[j])
    BY <2>1, QuantitiesSeq, Zenon
  <2> HIDE DEF q, u
  <2>12. q \in Seq(Int) /\ k \in 1..Len(q) /\ Len(q) = Len(f)
    BY <2>3
  <2>5. /\ removeAt(q, k) \in Seq(Int) /\ Len(removeAt(q, k)) = Len(f) - 1
        /\ \A j \in 1..(Len(f) - 1) : removeAt(q, k)[j] = q[at(j)]
    BY <2>12, RemoveAtProps, Zenon
  <2>6. Len(f) \in Nat /\ \A j \in 1..(Len(f) - 1) : at(j) \in 1..Len(f)
    OBVIOUS
  <2> HIDE DEF at
  <2>7. \A j \in 1..Len(u) : u[j] = removeAt(q, k)[j]
    BY <2>1, <2>2, <2>3, <2>4, <2>5, <2>6, Zenon
  <2>8. u = removeAt(q, k)
    BY <2>1, <2>4, <2>5, <2>7, SeqEqual, Zenon
  <2>9. q[k] = restingQty(b, f[k]) /\ q[k] \in Int /\ k \in 1..Len(q)
    BY <2>3
  <2>10. sumOf(removeAt(q, k)) = sumOf(q) - q[k]
    BY <2>3, <2>9, SumSplit
  <2>11. QED
    BY <2>8, <2>9, <2>10 DEF u, q, g
<1> TAKE b
<1> HAVE WellFormed(b)
<1> TAKE id \in DOMAIN b.orders
<1> HAVE TotalsBut(b, id)
<1> DEFINE r == unlink(b, id)
<1>1. WellFormed(r) /\ r.orders = [x \in DOMAIN b.orders \ {id} |-> b.orders[x]]
  BY UnlinkWellFormed
<1>2. Dequeued(b, r, id)
  BY UnlinkWellFormed, Zenon
<1> HIDE DEF r
<1>3. \A x \in DOMAIN r.orders : x # id /\ restingQty(r, x) = restingQty(b, x)
  BY <1>1 DEF restingQty
<1> SUFFICES ASSUME NEW c \in BookSides, NEW l \in levelsOf(r, c)
             PROVE  l.totalQty = Wrap(sumOf(quantities(r, l.fifo)))
  BY DEF TotalsMatch, r
<1>4. l.fifo \in Seq(Nat \ {0}) /\ \A x \in Range(l.fifo) : x \in DOMAIN r.orders
  BY <1>1, LevelFacts, Zenon
<1>5. quantities(r, l.fifo) = quantities(b, l.fifo) /\ id \notin Range(l.fifo)
  BY <1>3, <1>4, QuantitiesSame
<1>6. CASE l \in levelsOf(b, c) /\ id \notin Range(l.fifo)
  BY <1>5, <1>6 DEF TotalsBut
<1>7. ASSUME NEW m \in levelsOf(b, c), NEW k \in 1..Len(m.fifo),
             m.fifo[k] = id, l.fifo = removeAt(m.fifo, k), l.totalQty = m.totalQty
      PROVE  l.totalQty = Wrap(sumOf(quantities(r, l.fifo)))
  <2>1. m.fifo \in Seq(Nat \ {0})
    BY LevelFacts
  <2>2. id \in Range(m.fifo)
    BY <1>7, <2>1, RangeSeq
  <2>3. m.totalQty = Wrap(sumOf(quantities(b, m.fifo)) - restingQty(b, id))
    BY <2>2 DEF TotalsBut
  <2>4. sumOf(quantities(b, l.fifo)) = sumOf(quantities(b, m.fifo)) - restingQty(b, id)
    BY <1>7, <2>1, <1>QuantitiesRemove
  <2>5. QED
    BY <1>5, <1>7, <2>3, <2>4
<1>8. QED
  BY <1>2, <1>6, <1>7 DEF Dequeued

\* A resting order is in the aggregate of its level.
LEMMA RestTotals ==
  \A b : (WellFormed(b) /\ TotalsMatch(b)) => \A o :
  (IsOrder(o) /\ Behind(b, o)) =>
    TotalsMatch(restOrder(b, o))
\* With one more order at the back.
<1>QuantitiesAppend.
     ASSUME NEW b, WellFormed(b), NEW f \in Seq(Nat \ {0}), NEW id \in Nat \ {0}
     PROVE  sumOf(quantities(b, Append(f, id))) = sumOf(quantities(b, f)) + restingQty(b, id)
  <2> USE <1>QuantitiesAppend
  <2> DEFINE g == Append(f, id)
             q == quantities(b, f)
             u == quantities(b, g)
             x == restingQty(b, id)
  <2>1. /\ g \in Seq(Nat \ {0}) /\ Len(g) = Len(f) + 1 /\ g[Len(f) + 1] = id
        /\ \A j \in 1..Len(f) : g[j] = f[j]
    OBVIOUS
  <2>2. q \in Seq(Int) /\ Len(q) = Len(f) /\ \A j \in 1..Len(f) : q[j] = restingQty(b, f[j])
    BY QuantitiesSeq
  <2> HIDE DEF g
  <2>3. u \in Seq(Int) /\ Len(u) = Len(g) /\ \A j \in 1..Len(g) : u[j] = restingQty(b, g[j])
    BY <2>1, QuantitiesSeq
  <2>4. x \in Int
    BY DEF restingQty, WellFormed, IsBook, IsOrderMap, IsOrder
  <2> HIDE DEF q, u
  <2>5. Len(f) \in Nat
    OBVIOUS
  <2>6. /\ Append(q, x) \in Seq(Int) /\ Len(Append(q, x)) = Len(f) + 1
        /\ \A j \in 1..Len(f) : Append(q, x)[j] = q[j]
        /\ Append(q, x)[Len(f) + 1] = x
    <3> HIDE DEF x
    <3>1. QED
      BY <2>2, <2>4
  <2>7. ASSUME NEW j \in 1..Len(u) PROVE u[j] = Append(q, x)[j]
    <3>1. CASE j \in 1..Len(f)
      BY <2>1, <2>2, <2>3, <2>6, <3>1, Zenon
    <3>2. CASE j = Len(f) + 1
      BY <2>1, <2>3, <2>6, <3>2, Zenon
    <3>3. Len(u) = Len(f) + 1
      BY <2>1, <2>3
    <3>4. j \in 1..Len(f) \/ j = Len(f) + 1
      BY <2>5, <3>3
    <3>5. QED
      BY <3>1, <3>2, <3>4, Zenon
  <2>8. u = Append(q, x)
    <3> HIDE DEF x
    <3>1. QED
      BY <2>1, <2>3, <2>6, <2>7, SeqEqual
  <2>9. sumOf(Append(q, x)) = sumOf(q) + x
    <3> HIDE DEF x
    <3>1. QED
      BY <2>2, <2>4, SumAppend
  <2>10. QED
    BY <2>8, <2>9 DEF u, q, g
<1> TAKE b
<1> HAVE WellFormed(b) /\ TotalsMatch(b)
<1> TAKE o
<1> HAVE IsOrder(o) /\ Behind(b, o)
<1> DEFINE r == restOrder(b, o)
<1>1. WellFormed(r)
  BY RestBehind
<1>2. /\ DOMAIN r.orders = DOMAIN b.orders \cup {o.id} /\ r.orders[o.id] = o
      /\ \A x \in DOMAIN b.orders : r.orders[x] = b.orders[x]
  BY RestBehind
<1>3. Enqueued(b, r, o)
  BY RestBehind
<1> HIDE DEF r
<1>4. o.id \in Nat \ {0} /\ o.qty \in Int
  BY DEF IsOrder
<1>5. restingQty(r, o.id) = o.qty /\ \A x \in DOMAIN b.orders : restingQty(r, x) = restingQty(b, x)
  BY <1>2 DEF restingQty
<1>6. ASSUME NEW c \in BookSides, NEW m \in levelsOf(b, c)
      PROVE  /\ m.fifo \in Seq(Nat \ {0}) /\ quantities(r, m.fifo) = quantities(b, m.fifo)
             /\ m.totalQty = Wrap(sumOf(quantities(r, m.fifo)))
             /\ sumOf(quantities(r, m.fifo)) \in Int
  <2>1. m.fifo \in Seq(Nat \ {0}) /\ \A x \in Range(m.fifo) : x \in DOMAIN b.orders
    BY LevelFacts
  <2>2. quantities(r, m.fifo) = quantities(b, m.fifo)
    BY <1>5, <2>1, QuantitiesSame
  <2>3. m.totalQty = Wrap(sumOf(quantities(b, m.fifo)))
    BY DEF TotalsMatch
  <2>4. sumOf(quantities(b, m.fifo)) \in Int
    BY <2>1, QuantitiesInt
  <2>5. QED
    BY <2>1, <2>2, <2>3, <2>4
<1> SUFFICES ASSUME NEW c \in BookSides, NEW l \in levelsOf(r, c)
             PROVE  l.totalQty = Wrap(sumOf(quantities(r, l.fifo)))
  BY DEF TotalsMatch, r
<1>7. CASE l \in levelsOf(b, c)
  BY <1>6, <1>7
<1>8. ASSUME NEW m \in levelsOf(b, c), l.fifo = Append(m.fifo, o.id),
             l.totalQty = Wrap(m.totalQty + o.qty)
      PROVE  l.totalQty = Wrap(sumOf(quantities(r, l.fifo)))
  <2>1. m.fifo \in Seq(Nat \ {0})
    BY <1>6
  <2>2. sumOf(quantities(r, l.fifo)) = sumOf(quantities(r, m.fifo)) + o.qty
    BY <1>1, <1>4, <1>5, <1>8, <2>1, <1>QuantitiesAppend
  <2>3. m.totalQty = Wrap(sumOf(quantities(r, m.fifo))) /\ sumOf(quantities(r, m.fifo)) \in Int
    BY <1>6
  <2>4. QED
    BY <1>4, <1>8, <2>2, <2>3, WrapAdd, Zenon
<1>9. CASE l.fifo = Append(<< >>, o.id) /\ l.totalQty = Wrap(0 + o.qty)
  <2>1. << >> \in Seq(Nat \ {0})
    OBVIOUS
  <2>2. sumOf(quantities(r, l.fifo)) = sumOf(quantities(r, << >>)) + o.qty
    BY <1>1, <1>4, <1>5, <1>9, <2>1, <1>QuantitiesAppend, Zenon
  <2>3. quantities(r, << >>) = << >>
    BY DEF quantities
  <2>4. QED
    BY <1>9, <2>2, <2>3, SumEmpty
<1>10. QED
  BY <1>3, <1>7, <1>8, <1>9 DEF Enqueued, Received
-----------------------------------------------------------------------------
(* The head of the best level, a fill, and a cancel. *)

\* h is a resting order at the price of the best level of bs, and has priority
\* over every other order of its side: by price, then by id.
FirstInLine(b, bs, h) ==
  /\ h \in DOMAIN b.orders
  /\ IsOrder(b.orders[h]) /\ b.orders[h].id = h
  /\ b.orders[h].price = b.levels[bs][1].price
  /\ BookSide(b.orders[h].side) = bs
  /\ \A x \in DOMAIN b.orders : BookSide(b.orders[x].side) = bs =>
       \/ Before(bs, b.orders[h].price, b.orders[x].price)
       \/ b.orders[h].price = b.orders[x].price /\ h <= x

\* The head of the best level is the first in line.
LEMMA HeadHasPriority ==
  ASSUME NEW b, WellFormed(b), NEW bs \in BookSides, b.levels[bs] # << >>,
         NEW h, h = Head(b.levels[bs][1].fifo)
  PROVE  FirstInLine(b, bs, h)
<1> DEFINE lv == b.levels[bs]
           l  == lv[1]
<1>1. /\ lv \in Seq(Level) /\ SortedSlice(lv, bs)
      /\ levelsOf(b, bs) = {lv[j] : j \in 1..Len(lv)}
  <2>1. lv \in Seq(Level) /\ SortedSlice(lv, bs)
    BY SliceFacts
  <2>2. levelsOf(b, bs) = {lv[j] : j \in 1..Len(lv)}
    BY SliceFacts
  <2>3. QED
    BY <2>1, <2>2
<1>2. lv # << >>
  OBVIOUS
<1>3. h = Head(l.fifo)
  OBVIOUS
<1> HIDE DEF lv
<1>4. 1 \in 1..Len(lv) /\ l \in Level /\ l \in levelsOf(b, bs)
  BY <1>1, <1>2
<1>5. l.fifo \in Seq(Nat \ {0}) /\ l.fifo # << >> /\ Ascending(l.fifo)
  BY <1>4 DEF WellFormed, QueuesHoldOrders, QueuesAscend, Level
<1> HIDE DEF l
<1>6. h \in Range(l.fifo) /\ \A x \in Range(l.fifo) : h <= x
  <2> DEFINE f == l.fifo
  <2>1. Len(f) \in Nat \ {0} /\ h = f[1] /\ \A j \in 1..Len(f) : f[j] \in Nat
    BY <1>3, <1>5
  <2>2. Range(f) = {f[j] : j \in 1..Len(f)}
    BY <1>5, RangeSeq
  <2>3. \A j \in 1..Len(f) : f[1] <= f[j]
    BY <1>5, <2>1 DEF Ascending
  <2> HIDE DEF f
  <2>4. QED
    BY <2>1, <2>2, <2>3 DEF f
<1>7. /\ h \in DOMAIN b.orders /\ b.orders[h].price = l.price
      /\ BookSide(b.orders[h].side) = bs
  BY <1>4, <1>6, Zenon DEF WellFormed, QueuesHoldOrders
<1>8. b.orders[h].id = h /\ IsOrder(b.orders[h])
  BY <1>7, Zenon DEF WellFormed, OrdersAreQueued, IsBook, IsOrderMap
<1>9. ASSUME NEW x \in DOMAIN b.orders, BookSide(b.orders[x].side) = bs
      PROVE  \/ Before(bs, l.price, b.orders[x].price)
             \/ l.price = b.orders[x].price /\ h <= x
  <2>1. PICK m \in levelsOf(b, bs) : x \in Range(m.fifo)
    BY <1>9 DEF WellFormed, OrdersAreQueued
  <2>2. b.orders[x].price = m.price
    BY <2>1 DEF WellFormed, QueuesHoldOrders
  <2>3. PICK j \in 1..Len(lv) : m = lv[j]
    BY <1>1, <2>1
  <2>4. CASE j = 1
    <3>1. m = l
      BY <2>3, <2>4 DEF l
    <3>2. QED
      BY <1>6, <2>1, <2>2, <3>1
  <2>5. CASE j # 1
    <3>1. Before(bs, lv[1].price, lv[j].price)
      BY <1>1, <1>4, <2>5 DEF SortedSlice
    <3>2. QED
      BY <2>2, <2>3, <3>1 DEF l
  <2>6. QED
    BY <2>4, <2>5
<1>10. QED
  BY <1>7, <1>8, <1>9, Zenon DEF lv, l, FirstInLine

\* The maker of a fill is the resting order at the head of the best level.
LEMMA MakerRests ==
  ASSUME NEW b, WellFormed(b), NEW t, b.levels[OppSide(t.side)] # << >>
  PROVE  /\ IsOrder(makerOf(b, t))
         /\ makerOf(b, t).id = Head(b.levels[OppSide(t.side)][1].fifo)
         /\ makerOf(b, t).id \in DOMAIN b.orders
         /\ b.orders[makerOf(b, t).id] = makerOf(b, t)
<1> DEFINE bs == OppSide(t.side)
           h  == Head(b.levels[bs][1].fifo)
<1>1. bs \in BookSides
  BY DEF OppSide, BookSides
<1>2. h = Head(b.levels[bs][1].fifo) /\ b.levels[bs] # << >> /\ makerOf(b, t) = b.orders[h]
  BY DEF makerOf
<1> HIDE DEF bs, h
<1>3. h \in DOMAIN b.orders
  <2>1. FirstInLine(b, bs, h)
    BY <1>1, <1>2, HeadHasPriority
  <2>2. QED
    BY <2>1, Zenon DEF FirstInLine
<1>4. IsOrder(b.orders[h]) /\ b.orders[h].id = h
  BY <1>3 DEF WellFormed, IsBook, IsOrderMap, OrdersAreQueued
<1>5. QED
  BY <1>2, <1>3, <1>4, Zenon DEF bs

\* A fill takes what both parties have from the head of the best level, and
\* unlinks it when nothing remains of it.
LEMMA FillWellFormed ==
  \A b : WellFormed(b) => \A limit : OrdersBelow(b, limit) => \A t :
  (IsOrder(t) /\ crosses(b, t)) => \A m : m = makerOf(b, t) => \A fill :
  fill = fillQty(m, t) =>
    /\ WellFormed(fillBest(b, t))
    /\ fillBest(b, t).nextOrderId = b.nextOrderId
    /\ IsOrder(m) /\ m.id \in DOMAIN b.orders /\ b.orders[m.id] = m
    /\ fill \in Nat /\ fill > 0 /\ fill <= m.qty /\ fill <= t.qty
    /\ fillBest(b, t).orders = IF m.qty = fill
                               THEN [x \in DOMAIN b.orders \ {m.id} |-> b.orders[x]]
                               ELSE [b.orders EXCEPT ![m.id] = less(m, fill)]
    /\ TotalsMatch(b) => TotalsMatch(fillBest(b, t))
\* With another quantity for the order at one place of the queue.
<1>QuantitiesReplace.
     ASSUME NEW b, WellFormed(b), NEW r, WellFormed(r), NEW f \in Seq(Nat \ {0}), Ascending(f),
            NEW k \in 1..Len(f), \A x : x # f[k] => restingQty(r, x) = restingQty(b, x)
     PROVE  sumOf(quantities(r, f))
              = sumOf(quantities(b, f)) - restingQty(b, f[k]) + restingQty(r, f[k])
  <2> USE <1>QuantitiesReplace
  <2> DEFINE q == quantities(b, f)
             u == quantities(r, f)
             n == restingQty(r, f[k])
  <2>1. q \in Seq(Int) /\ Len(q) = Len(f) /\ \A j \in 1..Len(f) : q[j] = restingQty(b, f[j])
    BY QuantitiesSeq
  <2>2. u \in Seq(Int) /\ Len(u) = Len(f) /\ \A j \in 1..Len(f) : u[j] = restingQty(r, f[j])
    BY QuantitiesSeq
  <2>3. n \in Int
    BY DEF restingQty, WellFormed, IsBook, IsOrderMap, IsOrder
  <2> HIDE DEF q, u, n
  <2>4. \A j \in 1..Len(f) : j # k => f[j] # f[k]
    <3>1. \A j \in 1..Len(f) : f[j] \in Nat
      OBVIOUS
    <3>2. QED
      BY <3>1 DEF Ascending
  <2>5. /\ replaceAt(q, k, n) \in Seq(Int) /\ Len(replaceAt(q, k, n)) = Len(f)
        /\ \A j \in 1..Len(f) : replaceAt(q, k, n)[j] = IF j = k THEN n ELSE q[j]
    BY <2>1, <2>3, ExceptSeq DEF replaceAt
  <2>6. u[k] = n
    BY <2>2 DEF n
  <2>7. \A j \in 1..Len(u) : u[j] = replaceAt(q, k, n)[j]
    BY <2>1, <2>2, <2>4, <2>5, <2>6, Zenon
  <2>8. u = replaceAt(q, k, n)
    BY <2>2, <2>5, <2>7, SeqEqual
  <2>9. sumOf(replaceAt(q, k, n)) = sumOf(q) - q[k] + n
    BY <2>1, <2>3, SumSplit
  <2>10. q[k] = restingQty(b, f[k])
    BY <2>1
  <2>11. QED
    BY <2>8, <2>9, <2>10 DEF u, q, n
\* Taking from the quantity of an order and from the aggregate of its level.
<1>TakeTotals.
     ASSUME NEW b, WellFormed(b), TotalsMatch(b), NEW r, WellFormed(r),
            NEW bs \in BookSides, NEW i \in 1..Len(b.levels[bs]), NEW n \in Int,
            Adjusted(b, r, bs, i, -n), NEW id \in Range(b.levels[bs][i].fifo),
            \A x : x # id => restingQty(r, x) = restingQty(b, x),
            restingQty(r, id) = restingQty(b, id) - n
     PROVE  TotalsMatch(r)
  <2> USE <1>TakeTotals
  <2> DEFINE e == b.levels[bs][i]
  <2>1. e \in levelsOf(b, bs)
    BY SliceFacts
  <2>2. id \in Range(e.fifo)
    OBVIOUS
  <2> SUFFICES ASSUME NEW c \in BookSides, NEW l \in levelsOf(r, c)
               PROVE  l.totalQty = Wrap(sumOf(quantities(r, l.fifo)))
    BY DEF TotalsMatch
  <2>3. CASE l \in levelsOf(b, c) /\ (c = bs => l.price # e.price)
    <3> HIDE DEF e
    <3>1. BookSide(b.orders[id].side) = bs /\ b.orders[id].price = e.price
      BY <2>1, <2>2, LevelFacts
    <3>2. l.fifo \in Seq(Nat \ {0})
      BY <2>3, LevelFacts
    <3>3. id \notin Range(l.fifo)
      BY <2>3, <3>1, LevelFacts
    <3>4. quantities(r, l.fifo) = quantities(b, l.fifo)
      BY <3>2, <3>3, QuantitiesSame
    <3>5. QED
      BY <2>3, <3>4 DEF TotalsMatch
  <2>4. CASE c = bs /\ l.fifo = e.fifo /\ l.totalQty = Wrap(e.totalQty + (-n))
    <3> HIDE DEF e
    <3>1. e.fifo \in Seq(Nat \ {0}) /\ Ascending(e.fifo)
      BY <2>1, LevelFacts
    <3>10. Range(e.fifo) = {e.fifo[k] : k \in 1..Len(e.fifo)}
      BY <3>1, RangeSeq
    <3>2. PICK k \in 1..Len(e.fifo) : e.fifo[k] = id
      BY <2>2, <3>10
    <3>3. sumOf(quantities(r, e.fifo))
            = sumOf(quantities(b, e.fifo)) - restingQty(b, id) + restingQty(r, id)
      BY <3>1, <3>2, <1>QuantitiesReplace
    <3>4. sumOf(quantities(b, e.fifo)) \in Int
      BY <3>1, QuantitiesInt
    <3>5. restingQty(b, id) \in Int
      BY DEF restingQty, WellFormed, IsBook, IsOrderMap, IsOrder
    <3>6. sumOf(quantities(r, e.fifo)) = sumOf(quantities(b, e.fifo)) + (-n)
      BY <3>3, <3>4, <3>5
    <3>7. e.totalQty = Wrap(sumOf(quantities(b, e.fifo)))
      BY <2>1 DEF TotalsMatch
    <3>8. Wrap(e.totalQty + (-n)) = Wrap(sumOf(quantities(b, e.fifo)) + (-n))
      <4>1. -n \in Int
        OBVIOUS
      <4>2. QED
        BY <3>4, <3>7, <4>1, WrapAdd
    <3>9. QED
      BY <2>4, <3>6, <3>8
  <2>5. QED
    BY <2>3, <2>4 DEF Adjusted
<1> TAKE b
<1> HAVE WellFormed(b)
<1> TAKE limit
<1> HAVE OrdersBelow(b, limit)
<1> TAKE t
<1> HAVE IsOrder(t) /\ crosses(b, t)
<1> TAKE m
<1> HAVE m = makerOf(b, t)
<1> TAKE fill
<1> HAVE fill = fillQty(m, t)
<1> DEFINE bs == OppSide(t.side)
           lv == b.levels[bs]
           nord == [b.orders EXCEPT ![m.id] = less(m, fill)]
           b1 == putSlice(b, bs, addToTotal(lv, 1, -fill), nord)
<1>1. bs \in BookSides /\ lv # << >>
  BY DEF OppSide, BookSides, crosses
<1>2. 1 \in 1..Len(lv)
  <2> HIDE DEF bs
  <2>1. lv \in Seq(Level)
    BY <1>1, SliceFacts
  <2> HIDE DEF lv
  <2>2. QED
    BY <1>1, <2>1
<1>3. IsOrder(m) /\ m.id \in DOMAIN b.orders /\ b.orders[m.id] = m
  BY <1>1, MakerRests
<1>4. m.qty \in Nat /\ m.qty > 0 /\ t.qty \in Nat /\ t.qty > 0
  BY <1>3 DEF IsOrder, crosses, OrdersBelow
<1>5. fill \in Nat /\ fill > 0 /\ fill <= m.qty /\ fill <= t.qty
  BY <1>4 DEF fillQty
<1>6. IsOrder(less(m, fill)) /\ less(m, fill).id = m.id /\ less(m, fill).side = m.side
      /\ less(m, fill).price = m.price
  BY <1>3, <1>4, <1>5 DEF less, IsOrder
<1>7. /\ IsOrderMap(nord)
      /\ \A x \in DOMAIN b.orders : /\ nord[x].id = b.orders[x].id
                                    /\ nord[x].side = b.orders[x].side
                                    /\ nord[x].price = b.orders[x].price
  <2>1. IsOrderMap(b.orders)
    BY DEF WellFormed, IsBook
  <2>2. QED
    BY <1>3, <1>6, <2>1 DEF IsOrderMap
<1>8. fillBest(b, t) = IF m.qty = fill THEN unlink(b1, m.id) ELSE b1
  BY Zenon DEF fillBest
<1>9. DOMAIN nord = DOMAIN b.orders /\ \A x \in DOMAIN b.orders \ {m.id} : nord[x] = b.orders[x]
  OBVIOUS
<1> HIDE DEF bs, nord
<1>10. /\ WellFormed(b1) /\ b1.orders = nord /\ b1.nextOrderId = b.nextOrderId
       /\ Adjusted(b, b1, bs, 1, -fill)
  <2>1. -fill \in Int /\ 1 \in 1..Len(b.levels[bs])
    BY <1>2, <1>5
  <2>2. QED
    BY <1>1, <1>7, <1>9, <2>1, QtyWellFormed, Zenon
<1>14. TotalsMatch(b) => TotalsMatch(b1)
  <2> HAVE TotalsMatch(b)
  <2>1. m.id \in Range(lv[1].fifo)
    <3>7. levelsOf(b, bs) = {lv[j] : j \in 1..Len(lv)}
      BY <1>1, SliceFacts, Zenon
    <3>8. \A j \in 1..Len(lv) : lv[j].fifo \in Seq(Nat \ {0})
      BY <1>1, SliceFacts
    <3>1. lv[1].fifo \in Seq(Nat \ {0}) /\ lv[1] \in levelsOf(b, bs)
      BY <1>2, <3>7, <3>8
    <3>2. lv[1].fifo # << >>
      BY <1>1, <3>1 DEF WellFormed, QueuesHoldOrders
    <3>3. m.id = Head(lv[1].fifo)
      BY <1>1, MakerRests DEF bs
    <3> HIDE DEF lv
    <3>4. 1 \in 1..Len(lv[1].fifo) /\ m.id = lv[1].fifo[1]
      BY <3>1, <3>2, <3>3
    <3>5. Range(lv[1].fifo) = {lv[1].fifo[j] : j \in 1..Len(lv[1].fifo)}
      BY <3>1, RangeSeq
    <3>6. QED
      BY <3>4, <3>5, Zenon
  <2>2. \A x : x # m.id => restingQty(b1, x) = restingQty(b, x)
    BY <1>9, <1>10 DEF restingQty
  <2>3. nord[m.id] = less(m, fill) /\ less(m, fill).qty = m.qty - fill
    BY <1>3 DEF nord, less, IsOrder
  <2>4. restingQty(b1, m.id) = restingQty(b, m.id) - fill
    BY <1>3, <1>9, <1>10, <2>3, Zenon DEF restingQty
  <2>5. fill \in Int /\ 1 \in 1..Len(b.levels[bs]) /\ m.id \in Range(b.levels[bs][1].fifo)
    BY <1>2, <1>5, <2>1
  <2> HIDE DEF b1
  <2>6. QED
    BY <1>1, <1>10, <2>2, <2>4, <2>5, <1>TakeTotals
<1> HIDE DEF b1
<1>11. CASE m.qty = fill
  <2>1. m.id \in DOMAIN b1.orders
    BY <1>3, <1>9, <1>10
  <2>2. /\ WellFormed(unlink(b1, m.id))
        /\ unlink(b1, m.id).orders = [x \in DOMAIN b1.orders \ {m.id} |-> b1.orders[x]]
        /\ unlink(b1, m.id).nextOrderId = b1.nextOrderId
    BY <1>10, <2>1, UnlinkWellFormed
  <2>3. [x \in DOMAIN b1.orders \ {m.id} |-> b1.orders[x]]
          = [x \in DOMAIN b.orders \ {m.id} |-> b.orders[x]]
    BY <1>9, <1>10
  <2>5. TotalsMatch(b1) => TotalsMatch(unlink(b1, m.id))
    <3> HAVE TotalsMatch(b1)
    <3>1. restingQty(b1, m.id) = 0
      BY <1>3, <1>4, <1>9, <1>10, <1>11 DEF restingQty, nord, less, IsOrder
    <3>2. ASSUME NEW c \in BookSides, NEW l \in levelsOf(b1, c)
          PROVE  Wrap(sumOf(quantities(b1, l.fifo)) - 0) = Wrap(sumOf(quantities(b1, l.fifo)))
      <4>1. sumOf(quantities(b1, l.fifo)) \in Int
        BY <1>10, LevelFacts, QuantitiesInt
      <4>2. sumOf(quantities(b1, l.fifo)) - 0 = sumOf(quantities(b1, l.fifo))
        BY <4>1
      <4>3. QED
        BY <4>2
    <3>3. TotalsBut(b1, m.id)
      BY <3>1, <3>2, Zenon DEF TotalsBut, TotalsMatch
    <3>4. QED
      BY <1>10, <2>1, <3>3, UnlinkTotals
  <2>4. QED
    BY <1>3, <1>5, <1>8, <1>10, <1>11, <1>14, <2>2, <2>3, <2>5, Zenon
<1>12. CASE m.qty # fill
  BY <1>3, <1>5, <1>8, <1>10, <1>12, <1>14 DEF nord
<1>13. QED
  BY <1>11, <1>12

\* A cancel takes out the one order.
LEMMA CancelWellFormed ==
  \A b : WellFormed(b) => \A id \in DOMAIN b.orders : \A r :
  r = unlink(withoutQty(b, b.orders[id]), id) =>
    /\ WellFormed(r)
    /\ r.orders = [x \in DOMAIN b.orders \ {id} |-> b.orders[x]]
    /\ r.nextOrderId = b.nextOrderId
    /\ TotalsMatch(b) => TotalsMatch(r)
\* Taking an order's quantity off the aggregate of its level, before unlink.
<1>OffTotals.
     ASSUME NEW b, WellFormed(b), TotalsMatch(b), NEW r, r.orders = b.orders,
            NEW bs \in BookSides, NEW i \in 1..Len(b.levels[bs]),
            NEW id \in Range(b.levels[bs][i].fifo),
            Adjusted(b, r, bs, i, -b.orders[id].qty)
     PROVE  TotalsBut(r, id)
  <2> USE <1>OffTotals
  <2> DEFINE e == b.levels[bs][i]
             n == b.orders[id].qty
  <2>1. e \in levelsOf(b, bs)
    BY SliceFacts
  <2>2. id \in Range(e.fifo)
    OBVIOUS
  <2>3. \A f : quantities(r, f) = quantities(b, f)
    BY DEF quantities, restingQty
  <2> SUFFICES ASSUME NEW c \in BookSides, NEW l \in levelsOf(r, c)
               PROVE  l.totalQty = IF id \in Range(l.fifo)
                   THEN Wrap(sumOf(quantities(r, l.fifo)) - restingQty(r, id))
                   ELSE Wrap(sumOf(quantities(r, l.fifo)))
    BY DEF TotalsBut
  <2>4. id \in DOMAIN b.orders /\ BookSide(b.orders[id].side) = bs /\ b.orders[id].price = e.price
    <3> HIDE DEF e
    <3>1. QED
      BY <2>1, <2>2, LevelFacts
  <2>5. restingQty(r, id) = n /\ n \in Int
    BY <2>4 DEF restingQty, WellFormed, IsBook, IsOrderMap, IsOrder
  <2>6. CASE l \in levelsOf(b, c) /\ (c = bs => l.price # e.price)
    <3> HIDE DEF e
    <3>1. id \notin Range(l.fifo)
      BY <2>4, <2>6, LevelFacts
    <3>2. QED
      BY <2>3, <2>6, <3>1 DEF TotalsMatch
  <2>7. CASE c = bs /\ l.fifo = e.fifo /\ l.totalQty = Wrap(e.totalQty + (-n))
    <3> HIDE DEF e, n
    <3>1. e.fifo \in Seq(Nat \ {0})
      BY <2>1, LevelFacts
    <3>2. sumOf(quantities(b, e.fifo)) \in Int
      BY <3>1, QuantitiesInt
    <3>3. e.totalQty = Wrap(sumOf(quantities(b, e.fifo)))
      BY <2>1 DEF TotalsMatch
    <3>4. Wrap(e.totalQty + (-n)) = Wrap(sumOf(quantities(b, e.fifo)) + (-n))
      <4>1. -n \in Int
        BY <2>5
      <4>2. QED
        BY <3>2, <3>3, <4>1, WrapAdd
    <3>5. sumOf(quantities(b, e.fifo)) + (-n) = sumOf(quantities(r, l.fifo)) - restingQty(r, id)
      BY <2>3, <2>5, <2>7, <3>2
    <3>6. QED
      BY <2>2, <2>7, <3>4, <3>5
  <2>8. QED
    BY <2>6, <2>7, Zenon DEF Adjusted
<1> TAKE b
<1> HAVE WellFormed(b)
<1> TAKE id \in DOMAIN b.orders
<1> TAKE r
<1> HAVE r = unlink(withoutQty(b, b.orders[id]), id)
<1> DEFINE o  == b.orders[id]
           bs == BookSide(o.side)
           i  == levelOf(b, o)
           b1 == withoutQty(b, o)
<1>1. bs \in BookSides /\ IsOrder(o) /\ i \in 1..Len(b.levels[bs])
  BY OrderPosition
<1>2. -o.qty \in Int
  BY <1>1 DEF IsOrder
<1>3. b1 = putSlice(b, bs, addToTotal(b.levels[bs], i, -o.qty), b.orders)
  BY DEF withoutQty
<1>4. IsOrderMap(b.orders)
  BY DEF WellFormed, IsBook
<1>5. r = unlink(b1, id)
  OBVIOUS
<1> HIDE DEF o, bs, i, b1
<1>6. /\ WellFormed(b1) /\ b1.orders = b.orders /\ b1.nextOrderId = b.nextOrderId
      /\ Adjusted(b, b1, bs, i, -o.qty)
  BY <1>1, <1>2, <1>3, <1>4, QtyWellFormed
<1>8. TotalsMatch(b) => TotalsMatch(r)
  <2> HAVE TotalsMatch(b)
  <2>1. id \in Range(b.levels[bs][i].fifo)
    BY OrderPosition DEF bs, i, o
  <2>2. Adjusted(b, b1, bs, i, -b.orders[id].qty)
    BY <1>6 DEF o
  <2>3. TotalsBut(b1, id)
    BY <1>1, <1>6, <2>1, <2>2, <1>OffTotals
  <2>4. QED
    BY <1>5, <1>6, <2>3, UnlinkTotals
<1>7. QED
  BY <1>5, <1>6, <1>8, UnlinkWellFormed

\* The book of an accepted command: only the next id differs.
LEMMA NextIdWellFormed ==
  ASSUME NEW b, WellFormed(b), NEW r, r = [b EXCEPT !.nextOrderId = @ + 1]
  PROVE  /\ WellFormed(r) /\ r.orders = b.orders
         /\ r.nextOrderId = b.nextOrderId + 1 /\ b.nextOrderId \in Nat \ {0}
         /\ TotalsMatch(b) => TotalsMatch(r)
<1>1. r = [levels |-> b.levels, orders |-> b.orders, nextOrderId |-> b.nextOrderId + 1]
  BY DEF WellFormed, IsBook
<1>2. r.levels = b.levels /\ r.orders = b.orders /\ r.nextOrderId = b.nextOrderId + 1
  BY <1>1
<1>3. IsBook(r)
  BY <1>1, <1>2 DEF WellFormed, IsBook
<1>4. WellFormed(r) /\ b.nextOrderId \in Nat \ {0}
  BY <1>2, <1>3
  DEF WellFormed, SlicesSorted, QueuesHoldOrders, OrdersAreQueued, QueuesAscend, levelsOf, IsBook
<1>5. TotalsMatch(b) => TotalsMatch(r)
  BY <1>2 DEF TotalsMatch, levelsOf, quantities, restingQty
<1>6. QED
  BY <1>2, <1>4, <1>5

\* touch keeps a sequence of changed levels.
LEMMA TouchType ==
  ASSUME NEW S, NEW ch \in Seq(S), NEW c \in S
  PROVE  touch(ch, c) \in Seq(S)
<1> DEFINE same(i) == ch[i].side = c.side /\ ch[i].price = c.price
           g == [i \in DOMAIN ch |-> IF same(i) THEN c ELSE ch[i]]
<1>1. g \in Seq(S)
  <2>1. DOMAIN ch = 1..Len(ch) /\ Len(ch) \in Nat /\ \A i \in 1..Len(ch) : ch[i] \in S
    OBVIOUS
  <2>2. g \in [1..Len(ch) -> S]
    BY <2>1
  <2>3. QED
    BY <2>1, <2>2, SeqDef
<1>2. Append(ch, c) \in Seq(S)
  OBVIOUS
<1>3. QED
  BY <1>1, <1>2 DEF touch

-----------------------------------------------------------------------------
(* The books that commands leave behind. *)

\* The orders of r are orders of b, with the same side and price.
SomeOrdersOf(r, b) ==
  \A x \in DOMAIN r.orders : /\ x \in DOMAIN b.orders
                             /\ r.orders[x].side = b.orders[x].side
                             /\ r.orders[x].price = b.orders[x].price

\* Taking orders away crosses nothing.
LEMMA SomeNotCrossed ==
  ASSUME NEW b, NEW r, OrdersNotCrossed(b), SomeOrdersOf(r, b)
  PROVE  OrdersNotCrossed(r)
BY DEF OrdersNotCrossed, SomeOrdersOf

\* What a fill does to the orders.
LEMMA FillOrders ==
  ASSUME NEW b, WellFormed(b), NEW limit, OrdersBelow(b, limit),
         NEW t, IsOrder(t), crosses(b, t)
  PROVE  /\ WellFormed(fillBest(b, t))
         /\ fillBest(b, t).nextOrderId = b.nextOrderId
         /\ OrdersBelow(fillBest(b, t), limit)
         /\ SomeOrdersOf(fillBest(b, t), b)
         /\ fillQty(makerOf(b, t), t) \in Nat
         /\ fillQty(makerOf(b, t), t) <= t.qty
         /\ IsOrder(less(t, fillQty(makerOf(b, t), t)))
<1> DEFINE m == makerOf(b, t)
           fill == fillQty(m, t)
           r == fillBest(b, t)
<1>0. \A x \in DOMAIN b.orders : b.orders[x].qty > 0 /\ x < limit
  BY DEF OrdersBelow
<1>1. m = makerOf(b, t) /\ fill = fillQty(m, t)
  OBVIOUS
<1> HIDE DEF m, fill
<1>2. /\ WellFormed(r) /\ r.nextOrderId = b.nextOrderId
      /\ IsOrder(m) /\ m.id \in DOMAIN b.orders /\ b.orders[m.id] = m
      /\ fill \in Nat /\ fill > 0 /\ fill <= m.qty /\ fill <= t.qty
  <2>1. WellFormed(r) /\ r.nextOrderId = b.nextOrderId
    BY <1>1, FillWellFormed, Zenon
  <2>2. IsOrder(m) /\ m.id \in DOMAIN b.orders /\ b.orders[m.id] = m
    BY MakerRests DEF m, crosses
  <2>3. fill \in Nat /\ fill > 0 /\ fill <= m.qty /\ fill <= t.qty
    BY <1>1, FillWellFormed, Zenon
  <2>4. QED
    BY <2>1, <2>2, <2>3
<1>3. r.orders = IF m.qty = fill THEN [x \in DOMAIN b.orders \ {m.id} |-> b.orders[x]]
                 ELSE [b.orders EXCEPT ![m.id] = less(m, fill)]
  BY <1>1, FillWellFormed
<1> HIDE DEF r
<1>4. less(m, fill).side = m.side /\ less(m, fill).price = m.price
      /\ less(m, fill).qty = m.qty - fill /\ m.qty \in Nat
  BY <1>2 DEF less, IsOrder
<1>5. OrdersBelow(r, limit) /\ SomeOrdersOf(r, b)
  <2>1. CASE m.qty = fill
    BY <1>0, <1>3, <2>1 DEF OrdersBelow, SomeOrdersOf
  <2>2. CASE m.qty # fill
    <3>1. /\ DOMAIN r.orders = DOMAIN b.orders /\ r.orders[m.id] = less(m, fill)
          /\ \A x \in DOMAIN b.orders : x # m.id => r.orders[x] = b.orders[x]
      BY <1>2, <1>3, <2>2
    <3>2. less(m, fill).qty > 0
      BY <1>2, <1>4, <2>2
    <3>3. QED
      BY <1>0, <1>2, <1>4, <3>1, <3>2 DEF OrdersBelow, SomeOrdersOf
  <2>3. QED
    BY <2>1, <2>2
<1>7. IsOrder(less(t, fill))
  BY <1>2 DEF less, IsOrder
<1>6. QED
  BY <1>2, <1>5, <1>7 DEF r, m, fill

\* The first level of a slice has the best price of all orders of its side.
LEMMA BestIsFirst ==
  ASSUME NEW b, WellFormed(b), NEW bs \in BookSides,
         NEW x \in DOMAIN b.orders, BookSide(b.orders[x].side) = bs
  PROVE  /\ b.levels[bs] # << >>
         /\ \/ Before(bs, b.levels[bs][1].price, b.orders[x].price)
            \/ b.levels[bs][1].price = b.orders[x].price
<1> DEFINE lv == b.levels[bs]
<1>1. /\ Len(lv) \in Nat /\ SortedSlice(lv, bs)
      /\ levelsOf(b, bs) = {lv[j] : j \in 1..Len(lv)}
  BY SliceFacts
<1>2. PICK m \in levelsOf(b, bs) : x \in Range(m.fifo)
  BY DEF WellFormed, OrdersAreQueued
<1>3. b.orders[x].price = m.price
  BY <1>2 DEF WellFormed, QueuesHoldOrders
<1> HIDE DEF lv
<1>4. PICK j \in 1..Len(lv) : m = lv[j]
  BY <1>1, <1>2
<1>5. j = 1 \/ Before(bs, lv[1].price, lv[j].price)
  BY <1>1, <1>4 DEF SortedSlice
<1>6. lv # << >>
  BY <1>4
<1>7. QED
  BY <1>3, <1>4, <1>5, <1>6 DEF lv

\* An order that no longer crosses the book can rest without crossing it: the
\* best opposite price is beyond its limit, and so are all the others.
LEMMA RestNotCrossed ==
  ASSUME NEW b, WellFormed(b), OrdersNotCrossed(b), NEW o, IsOrder(o),
         \A x \in DOMAIN b.orders : x < o.id, o.qty > 0, ~crosses(b, o)
  PROVE  OrdersNotCrossed(restOrder(b, o))
<1> DEFINE r == restOrder(b, o)
           bs == OppSide(o.side)
           lv == b.levels[bs]
           beyond(p) == IF o.side = Buy THEN o.price < p ELSE p < o.price
<1>1. /\ DOMAIN r.orders = DOMAIN b.orders \cup {o.id} /\ r.orders[o.id] = o
      /\ \A x \in DOMAIN b.orders : r.orders[x] = b.orders[x]
  BY RestWellFormed
<1>2. o.price \in Nat
  BY DEF IsOrder
<1>3. bs \in BookSides
  BY DEF OppSide, BookSides
<1>4. \A x \in DOMAIN b.orders : b.orders[x].price \in Nat
  BY DEF WellFormed, IsBook, IsOrderMap, IsOrder
<1>5. ASSUME o.side \in {Buy, Sell}, NEW x \in DOMAIN b.orders, BookSide(b.orders[x].side) = bs
      PROVE  beyond(b.orders[x].price)
  <2>1. /\ lv # << >>
        /\ \/ Before(bs, lv[1].price, b.orders[x].price)
           \/ lv[1].price = b.orders[x].price
    <3> HIDE DEF bs
    <3>1. QED
      BY <1>3, <1>5, BestIsFirst
  <2>2. lv[1].price \in Nat /\ beyond(lv[1].price)
    <3>1. lv[1].price \in Nat
      <4> HIDE DEF bs
      <4>1. lv \in Seq(Level)
        BY <1>3, SliceFacts
      <4>2. lv[1] \in Level
        BY <2>1, <4>1
      <4>3. QED
        BY <4>2 DEF Level
    <3>2. QED
      BY <1>2, <1>5, <2>1, <3>1, SMTT(60) DEF crosses, OppSide, Buy, Sell
  <2>3. lv[1].price \in Nat /\ b.orders[x].price \in Nat
    BY <1>4, <2>2
  <2>4. CASE o.side = Buy
    <3>1. bs = Sell
      BY <2>4 DEF OppSide
    <3>2. lv[1].price <= b.orders[x].price
      <4> HIDE DEF lv, bs
      <4>1. QED
        BY <2>1, <2>3, <3>1 DEF Before, Buy, Sell
    <3>3. QED
      <4> HIDE DEF lv, bs
      <4>1. QED
        BY <1>2, <2>2, <2>3, <2>4, <3>2
  <2>5. CASE o.side = Sell
    <3>1. bs = Buy
      BY <2>5 DEF OppSide, Buy, Sell
    <3>2. b.orders[x].price <= lv[1].price
      <4> HIDE DEF lv, bs
      <4>1. QED
        BY <2>1, <2>3, <3>1 DEF Before, Buy, Sell
    <3>3. QED
      <4> HIDE DEF lv, bs
      <4>1. QED
        BY <1>2, <2>2, <2>3, <2>5, <3>2 DEF Buy, Sell
  <2>6. QED
    BY <1>5, <2>4, <2>5
<1> HIDE DEF r, bs
<1>6. SUFFICES ASSUME NEW x \in DOMAIN r.orders, NEW y \in DOMAIN r.orders,
                      r.orders[x].side = Buy, r.orders[y].side = Sell
               PROVE  r.orders[x].price < r.orders[y].price
  BY DEF OrdersNotCrossed, r
<1>7. Buy # Sell
  BY DEF Buy, Sell
<1>8. CASE x # o.id /\ y # o.id
  BY <1>1, <1>6, <1>8 DEF OrdersNotCrossed
<1>9. CASE x = o.id
  <2>1. y # o.id /\ o.side = Buy /\ bs = Sell /\ BookSide(r.orders[y].side) = Sell
    BY <1>1, <1>6, <1>7, <1>9 DEF BookSide, bs, OppSide
  <2>2. QED
    BY <1>1, <1>5, <1>6, <1>9, <2>1
<1>10. CASE y = o.id
  <2>1. x # o.id /\ o.side = Sell /\ bs = Buy /\ BookSide(r.orders[x].side) = Buy
    BY <1>1, <1>6, <1>7, <1>10 DEF BookSide, bs, OppSide
  <2>2. QED
    BY <1>1, <1>5, <1>6, <1>7, <1>10, <2>1
<1>11. QED
  BY <1>8, <1>9, <1>10

\* The empty book.
LEMMA EmptyGood == GoodBook(NewOrderBook, 1) /\ NewOrderBook.nextOrderId = 1
<1> DEFINE b == NewOrderBook
<1>1. /\ b.levels = [bs \in BookSides |-> << >>]
      /\ b.orders = << >> /\ DOMAIN b.orders = {} /\ b.nextOrderId = 1
      /\ b = [levels |-> b.levels, orders |-> b.orders, nextOrderId |-> b.nextOrderId]
  BY DEF NewOrderBook
<1> HIDE DEF b
<1>2. \A bs \in BookSides : b.levels[bs] = << >> /\ levelsOf(b, bs) = {}
  BY <1>1 DEF levelsOf, Range
<1>3. IsBook(b)
  <2>1. b.levels \in [BookSides -> Seq(Level)]
    BY <1>1
  <2>2. IsOrderMap(b.orders)
    BY <1>1 DEF IsOrderMap
  <2>3. QED
    BY <1>1, <2>1, <2>2 DEF IsBook
<1>4. WellFormed(b)
  BY <1>1, <1>2, <1>3
  DEF WellFormed, SlicesSorted, SortedSlice, QueuesHoldOrders, OrdersAreQueued, QueuesAscend
<1>5. OrdersBelow(b, 1) /\ OrdersNotCrossed(b) /\ TotalsMatch(b)
  BY <1>1, <1>2 DEF OrdersBelow, OrdersNotCrossed, TotalsMatch
<1>6. QED
  BY <1>1, <1>4, <1>5 DEF GoodBook, b

\* A fill.
LEMMA FillGood ==
  ASSUME NEW b, NEW limit, GoodBook(b, limit), NEW t, IsOrder(t), crosses(b, t)
  PROVE  /\ GoodBook(fillBest(b, t), limit)
         /\ fillBest(b, t).nextOrderId = b.nextOrderId
         /\ IsOrder(less(t, fillQty(makerOf(b, t), t)))
<1>1. WellFormed(b) /\ OrdersBelow(b, limit) /\ OrdersNotCrossed(b) /\ TotalsMatch(b)
  BY DEF GoodBook
<1>2. /\ WellFormed(fillBest(b, t)) /\ OrdersBelow(fillBest(b, t), limit)
      /\ SomeOrdersOf(fillBest(b, t), b)
      /\ fillBest(b, t).nextOrderId = b.nextOrderId
      /\ IsOrder(less(t, fillQty(makerOf(b, t), t)))
  BY <1>1, FillOrders
<1>3. TotalsMatch(fillBest(b, t))
  BY <1>1, FillWellFormed, Zenon
<1>4. OrdersNotCrossed(fillBest(b, t))
  BY <1>1, <1>2, SomeNotCrossed
<1>5. QED
  BY <1>2, <1>3, <1>4 DEF GoodBook

\* What is left of an order comes to rest.
LEMMA RestGood ==
  ASSUME NEW b, NEW o, IsOrder(o), GoodBook(b, o.id), o.qty > 0, ~crosses(b, o),
         NEW limit \in Int, o.id < limit
  PROVE  /\ GoodBook(restOrder(b, o), limit)
         /\ restOrder(b, o).nextOrderId = b.nextOrderId
<1> DEFINE r == restOrder(b, o)
<1>1. WellFormed(b) /\ OrdersBelow(b, o.id) /\ OrdersNotCrossed(b) /\ TotalsMatch(b)
  BY DEF GoodBook
<1>2. \A x \in DOMAIN b.orders : x < o.id
  BY <1>1 DEF OrdersBelow
<1>3. WellFormed(r) /\ r.nextOrderId = b.nextOrderId
  BY <1>1, <1>2, RestWellFormed
<1>4. /\ DOMAIN r.orders = DOMAIN b.orders \cup {o.id} /\ r.orders[o.id] = o
      /\ \A x \in DOMAIN b.orders : r.orders[x] = b.orders[x]
  BY <1>1, <1>2, RestWellFormed
<1>5. TotalsMatch(r)
  <2>1. Behind(b, o)
    BY <1>1, <1>2, NewerIsBehind
  <2>2. QED
    BY <1>1, <2>1, RestTotals
<1>6. OrdersNotCrossed(r)
  BY <1>1, <1>2, RestNotCrossed
<1> HIDE DEF r
<1>7. OrdersBelow(r, limit)
  <2>1. DOMAIN b.orders \subseteq Nat /\ o.id \in Nat
    BY <1>1 DEF WellFormed, IsBook, IsOrderMap, IsOrder
  <2>2. QED
    BY <1>1, <1>4, <2>1 DEF OrdersBelow
<1>8. QED
  BY <1>3, <1>5, <1>6, <1>7 DEF GoodBook, r

\* A cancel.
LEMMA CancelGood ==
  ASSUME NEW b, NEW limit, GoodBook(b, limit), NEW id \in DOMAIN b.orders
  PROVE  /\ GoodBook(unlink(withoutQty(b, b.orders[id]), id), limit)
         /\ unlink(withoutQty(b, b.orders[id]), id).nextOrderId = b.nextOrderId
<1> DEFINE r == unlink(withoutQty(b, b.orders[id]), id)
<1>0. r = unlink(withoutQty(b, b.orders[id]), id)
  OBVIOUS
<1>1. WellFormed(b) /\ OrdersBelow(b, limit) /\ OrdersNotCrossed(b) /\ TotalsMatch(b)
  BY DEF GoodBook
<1> HIDE DEF r
<1>2. /\ WellFormed(r) /\ r.orders = [x \in DOMAIN b.orders \ {id} |-> b.orders[x]]
      /\ r.nextOrderId = b.nextOrderId /\ TotalsMatch(r)
  BY <1>0, <1>1, CancelWellFormed, SMTT(30)
<1>3. OrdersBelow(r, limit) /\ SomeOrdersOf(r, b)
  BY <1>1, <1>2 DEF OrdersBelow, SomeOrdersOf
<1>4. OrdersNotCrossed(r)
  BY <1>1, <1>3, SomeNotCrossed
<1>5. QED
  BY <1>2, <1>3, <1>4 DEF GoodBook, r

\* An order is accepted: it has the id that the book gave out.
LEMMA NextIdGood ==
  ASSUME NEW b, GoodBook(b, b.nextOrderId)
  PROVE  /\ GoodBook([b EXCEPT !.nextOrderId = @ + 1], b.nextOrderId)
         /\ [b EXCEPT !.nextOrderId = @ + 1].nextOrderId = b.nextOrderId + 1
         /\ b.nextOrderId \in Nat \ {0}
<1> DEFINE r == [b EXCEPT !.nextOrderId = @ + 1]
<1>1. WellFormed(b) /\ OrdersBelow(b, b.nextOrderId) /\ OrdersNotCrossed(b) /\ TotalsMatch(b)
  BY DEF GoodBook
<1>2. r = [b EXCEPT !.nextOrderId = @ + 1]
  OBVIOUS
<1> HIDE DEF r
<1>3. /\ WellFormed(r) /\ r.orders = b.orders /\ r.nextOrderId = b.nextOrderId + 1
      /\ b.nextOrderId \in Nat \ {0} /\ TotalsMatch(r)
  BY <1>1, <1>2, NextIdWellFormed
<1>4. OrdersBelow(r, b.nextOrderId) /\ OrdersNotCrossed(r)
  BY <1>1, <1>3 DEF OrdersBelow, OrdersNotCrossed
<1>5. QED
  BY <1>3, <1>4 DEF GoodBook, r
=============================================================================
