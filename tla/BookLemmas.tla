----------------------------- MODULE BookLemmas -----------------------------
(***************************************************************************)
(* The operators that Book, Engine and Snapshot are made of, for every     *)
(* slice and every price: what removing, inserting and replacing an        *)
(* element does, where levelIndex points, and what the folds compute: the  *)
(* sum of a queue's quantities, the concatenation of sequences, the orders *)
(* rested one after the other and the loop of match.  With them, the first *)
(* facts about books: an order has one place in them, and unlink and the   *)
(* adjustment of an aggregate keep them well formed.                       *)
(***************************************************************************)
EXTENDS Engine, Snapshot, TLAPS, WellFoundedInduction

-----------------------------------------------------------------------------
(* Sequences. *)

\* A function on 1..n is a sequence of n elements.
LEMMA MakeSeq ==
  ASSUME NEW T, NEW n \in Nat, NEW r, r = [i \in 1..n |-> r[i]], \A i \in 1..n : r[i] \in T
  PROVE  r \in Seq(T) /\ Len(r) = n
<1>1. r \in [1..n -> T]
  OBVIOUS
<1>2. QED
  BY <1>1

\* Sequences that agree at every position are the same.
LEMMA SeqEqual ==
  ASSUME NEW T, NEW s \in Seq(T), NEW t \in Seq(T), Len(s) = Len(t), \A i \in 1..Len(s) : s[i] = t[i]
  PROVE  s = t
<1>1. s = [i \in 1..Len(s) |-> s[i]] /\ t = [i \in 1..Len(t) |-> t[i]]
  OBVIOUS
<1>2. QED
  BY <1>1

\* A sequence is a function on a range from 1.
LEMMA SeqDef == \A T : Seq(T) = UNION {[1..n -> T] : n \in Nat}
OBVIOUS

\* One position is assigned.
LEMMA ExceptSeq ==
  ASSUME NEW T, NEW s \in Seq(T), NEW i \in 1..Len(s), NEW e \in T, NEW r, r = [s EXCEPT ![i] = e]
  PROVE  /\ r \in Seq(T) /\ Len(r) = Len(s)
         /\ \A j \in 1..Len(s) : r[j] = IF j = i THEN e ELSE s[j]
<1>1. Len(s) \in Nat /\ s = [j \in 1..Len(s) |-> s[j]] /\ \A j \in 1..Len(s) : s[j] \in T
  OBVIOUS
<1>2. r = [j \in 1..Len(s) |-> r[j]] /\ \A j \in 1..Len(s) : r[j] = IF j = i THEN e ELSE s[j]
  BY <1>1, Zenon
<1>3. \A j \in 1..Len(s) : r[j] \in T
  BY <1>1, <1>2
<1>4. QED
  BY <1>1, <1>2, <1>3, MakeSeq

\* One sequence after the other.
LEMMA ConcatProperties ==
  ASSUME NEW T, NEW s \in Seq(T), NEW t \in Seq(T)
  PROVE  /\ s \o t \in Seq(T) /\ Len(s \o t) = Len(s) + Len(t)
         /\ \A i \in 1..(Len(s) + Len(t)) : (s \o t)[i] = IF i <= Len(s) THEN s[i] ELSE t[i - Len(s)]
OBVIOUS

\* Three of them.
LEMMA ConcatAssociative ==
  ASSUME NEW T, NEW s \in Seq(T), NEW t \in Seq(T), NEW u \in Seq(T)
  PROVE  (s \o t) \o u = s \o (t \o u)
OBVIOUS

\* A part of a sequence.
LEMMA SubSeqProperties ==
  ASSUME NEW T, NEW s, NEW m \in Int, NEW n \in Int, \A i \in m..n : s[i] \in T
  PROVE  /\ SubSeq(s, m, n) \in Seq(T)
         /\ Len(SubSeq(s, m, n)) = IF m <= n THEN n - m + 1 ELSE 0
         /\ \A i \in 1..(n - m + 1) : SubSeq(s, m, n)[i] = s[m + i - 1]
OBVIOUS

\* Removing an element shifts the later ones down by one.
LEMMA RemoveAtProps ==
  ASSUME NEW S, NEW s \in Seq(S), NEW i \in 1..Len(s)
  PROVE  /\ removeAt(s, i) \in Seq(S)
         /\ Len(removeAt(s, i)) = Len(s) - 1
         /\ \A j \in 1..(Len(s) - 1) :
              removeAt(s, i)[j] = IF j < i THEN s[j] ELSE s[j + 1]
<1> DEFINE a == SubSeq(s, 1, i - 1)
           c == SubSeq(s, i + 1, Len(s))
<1>1. /\ a \in Seq(S) /\ Len(a) = i - 1
      /\ \A j \in 1..(i - 1) : a[j] = s[j]
  BY SubSeqProperties
<1>2. /\ c \in Seq(S) /\ Len(c) = Len(s) - i
      /\ \A j \in 1..(Len(s) - i) : c[j] = s[i + j]
  BY SubSeqProperties
<1>3. removeAt(s, i) = a \o c
  BY DEF removeAt
<1> HIDE DEF a, c
<1>4. /\ a \o c \in Seq(S)
      /\ Len(a \o c) = Len(a) + Len(c)
      /\ \A j \in 1..(Len(a) + Len(c)) :
           (a \o c)[j] = IF j <= Len(a) THEN a[j] ELSE c[j - Len(a)]
  BY <1>1, <1>2, ConcatProperties, Zenon
<1>5. \A j \in 1..(Len(s) - 1) : (a \o c)[j] = IF j < i THEN s[j] ELSE s[j + 1]
  <2> TAKE j \in 1..(Len(s) - 1)
  <2>1. CASE j < i
    BY <1>1, <1>2, <1>4, <2>1
  <2>2. CASE ~(j < i)
    <3>1. j - Len(a) \in 1..(Len(s) - i) /\ i + (j - Len(a)) = j + 1
      BY <1>1, <2>2
    <3>2. c[j - Len(a)] = s[j + 1]
      BY <1>2, <3>1, Zenon
    <3>3. QED
      BY <1>1, <1>2, <1>4, <2>2, <3>2
  <2>3. QED
    BY <2>1, <2>2, Zenon
<1>6. QED
  BY <1>1, <1>2, <1>3, <1>4, <1>5

\* Inserting an element shifts the later ones up by one.
LEMMA InsertAtProps ==
  ASSUME NEW S, NEW s \in Seq(S), NEW i \in 1..(Len(s) + 1), NEW e \in S
  PROVE  /\ insertAt(s, i, e) \in Seq(S)
         /\ Len(insertAt(s, i, e)) = Len(s) + 1
         /\ \A j \in 1..(Len(s) + 1) :
              insertAt(s, i, e)[j] = IF j < i THEN s[j]
                                     ELSE IF j = i THEN e ELSE s[j - 1]
<1> DEFINE a == SubSeq(s, 1, i - 1)
           m == a \o <<e>>
           c == SubSeq(s, i, Len(s))
<1>1. /\ a \in Seq(S) /\ Len(a) = i - 1
      /\ \A j \in 1..(i - 1) : a[j] = s[j]
  BY SubSeqProperties
<1>2. /\ c \in Seq(S) /\ Len(c) = Len(s) - i + 1
      /\ \A j \in 1..(Len(s) - i + 1) : c[j] = s[i + j - 1]
  BY SubSeqProperties
<1>3. insertAt(s, i, e) = m \o c
  BY DEF insertAt
<1>4. <<e>> \in Seq(S) /\ Len(<<e>>) = 1 /\ <<e>>[1] = e
  OBVIOUS
<1> HIDE DEF a, c
<1>5. /\ m \in Seq(S) /\ Len(m) = i
      /\ \A j \in 1..i : m[j] = IF j < i THEN s[j] ELSE e
  BY <1>1, <1>4, ConcatProperties
<1> HIDE DEF m
<1>6. /\ m \o c \in Seq(S)
      /\ Len(m \o c) = Len(m) + Len(c)
      /\ \A j \in 1..(Len(m) + Len(c)) :
           (m \o c)[j] = IF j <= Len(m) THEN m[j] ELSE c[j - Len(m)]
  BY <1>2, <1>5, ConcatProperties, Zenon
<1>7. \A j \in 1..(Len(s) + 1) :
        (m \o c)[j] = IF j < i THEN s[j] ELSE IF j = i THEN e ELSE s[j - 1]
  <2> TAKE j \in 1..(Len(s) + 1)
  <2>1. CASE j <= i
    BY <1>2, <1>5, <1>6, <2>1
  <2>2. CASE ~(j <= i)
    BY <1>2, <1>5, <1>6, <2>2
  <2>3. QED
    BY <2>1, <2>2, Zenon
<1>8. QED
  BY <1>2, <1>3, <1>5, <1>6, <1>7

\* A nonempty set of naturals has a least element.
LEMMA LeastNat ==
  ASSUME NEW T, T \subseteq Nat, T # {}
  PROVE  \E x \in T : \A y \in T : x <= y
<1> DEFINE R == {ss \in Nat \X Nat : ss[1] < ss[2]}
<1>1. IsWellFoundedOn(R, Nat)
  BY NatLessThanWellFounded, Zenon DEF OpToRel
<1>2. \E x \in T : \A y \in T : ~ (<<y, x>> \in R)
  <2> HIDE DEF R
  <2> QED BY <1>1, WFMin, Zenon
<1>3. PICK x \in T : \A y \in T : ~ (<<y, x>> \in R)
  BY <1>2
<1>4. \A y \in T : x <= y
  <2> TAKE y \in T
  <2>1. x \in Nat /\ y \in Nat
    OBVIOUS
  <2>2. ~ (y < x)
    BY <1>3, <2>1, Zenon
  <2>3. QED
    BY <2>1, <2>2
<1>5. QED
  BY <1>4

-----------------------------------------------------------------------------
(* levelIndex *)

\* levelIndex is determined by inPlace: any index in place is the one the
\* binary search returns.
LEMMA LevelIndexUnique ==
  ASSUME NEW lv, Len(lv) \in Nat, \A j \in 1..Len(lv) : lv[j].price \in Int,
         NEW price \in Int, NEW bs,
         NEW i \in 1..(Len(lv) + 1), inPlace(lv, price, bs, i)
  PROVE  levelIndex(lv, price, bs) = i
<1>1. \A k \in 1..(Len(lv) + 1) : inPlace(lv, price, bs, k) => k = i
  BY DEF inPlace, Before
<1>2. QED
  BY <1>1 DEF levelIndex

\* levelIndex is in place, whatever the slice holds.
LEMMA LevelIndexInPlace ==
  ASSUME NEW lv, Len(lv) \in Nat, \A j \in 1..Len(lv) : lv[j].price \in Int,
         NEW price \in Int, NEW bs
  PROVE  /\ levelIndex(lv, price, bs) \in 1..(Len(lv) + 1)
         /\ inPlace(lv, price, bs, levelIndex(lv, price, bs))
<1> DEFINE T == {i \in 1..(Len(lv) + 1) :
                   i <= Len(lv) => ~Before(bs, lv[i].price, price)}
<1>1. Len(lv) + 1 \in T /\ T \subseteq Nat
  OBVIOUS
<1>2. PICK i \in T : \A y \in T : i <= y
  <2> HIDE DEF T
  <2> QED BY <1>1, LeastNat, Zenon
<1>3. i \in 1..(Len(lv) + 1) /\ inPlace(lv, price, bs, i)
  BY <1>2 DEF inPlace
<1>4. QED
  BY <1>3 DEF levelIndex

-----------------------------------------------------------------------------
(* What unlink and restOrder do to a slice keeps it sorted. *)

\* Machine arithmetic stays within the integers.
LEMMA WrapInt == ASSUME NEW n \in Int PROVE Wrap(n) \in Int
  BY MaxIntAssumption DEF Wrap

-----------------------------------------------------------------------------
(* The elements of the sequences that the operations build. *)

\* A sequence has as its elements what it holds at its indices.
LEMMA RangeSeq ==
  ASSUME NEW S, NEW s \in Seq(S)
  PROVE  Range(s) = {s[j] : j \in 1..Len(s)} /\ Range(s) \subseteq S
  BY DEF Range

\* Only the empty sequence has no elements.
LEMMA RangeEmpty ==
  ASSUME NEW S, NEW s \in Seq(S)
  PROVE  s # << >> <=> Range(s) # {}
<1>1. Range(s) = {s[j] : j \in 1..Len(s)} /\ Len(s) \in Nat
  BY RangeSeq
<1>2. s # << >> <=> Len(s) # 0
  OBVIOUS
<1>3. Len(s) # 0 <=> 1 \in 1..Len(s)
  BY <1>1
<1>4. QED
  BY <1>1, <1>2, <1>3

\* Removing an element that occurs once removes it from the elements.
LEMMA RangeRemove ==
  ASSUME NEW S, NEW s \in Seq(S), NEW i \in 1..Len(s),
         \A j \in 1..Len(s) : j # i => s[j] # s[i]
  PROVE  Range(removeAt(s, i)) = Range(s) \ {s[i]}
<1> DEFINE r == removeAt(s, i)
           at(j) == IF j < i THEN j ELSE j + 1
           back(j) == IF j < i THEN j ELSE j - 1
<1>1. /\ r \in Seq(S) /\ Len(r) = Len(s) - 1
      /\ \A j \in 1..(Len(s) - 1) : r[j] = s[at(j)]
  BY RemoveAtProps, Zenon
<1>2. Range(r) = {r[j] : j \in 1..Len(r)} /\ Range(s) = {s[j] : j \in 1..Len(s)}
  BY <1>1, RangeSeq
<1> HIDE DEF r
<1>3. \A j \in 1..Len(r) : at(j) \in 1..Len(s) /\ at(j) # i /\ r[j] = s[at(j)]
  BY <1>1
<1>4. \A j \in 1..Len(s) : j # i =>
        back(j) \in 1..Len(r) /\ at(back(j)) = j
  BY <1>1
<1>5. \A j \in 1..Len(s) : j # i => \E m \in 1..Len(r) : r[m] = s[j]
  BY <1>3, <1>4, Zenon
<1> HIDE DEF at, back
<1>6. Range(r) \subseteq Range(s) \ {s[i]}
  BY <1>2, <1>3
<1>7. Range(s) \ {s[i]} \subseteq Range(r)
  BY <1>2, <1>5
<1>8. QED
  BY <1>6, <1>7 DEF r

-------------------------------------------------------------------------

\* Induction up to a bound, over the members of a set.
LEMMA Stepwise ==
  ASSUME NEW N \in Nat, NEW S, 0 \in S, \A n \in 1..N : n - 1 \in S => n \in S
  PROVE  \A n \in 0..N : n \in S
<1> DEFINE T == {n \in 0..N : n \notin S}
<1> SUFFICES ASSUME T # {} PROVE FALSE
  OBVIOUS
<1>1. T \subseteq Nat
  OBVIOUS
<1>2. PICK m \in T : \A y \in T : m <= y
  <2> HIDE DEF T
  <2>1. QED
    BY <1>1, LeastNat, Zenon
<1>3. m \in 1..N
  BY <1>2
<1>4. m - 1 \in 0..N /\ ~(m <= m - 1)
  BY <1>3
<1>5. m - 1 \in S
  BY <1>2, <1>4
<1>6. QED
  BY <1>2, <1>3, <1>5

\* The partial sums of a sequence.
IsSum(s, p) ==
  /\ p \in [0..Len(s) -> Int] /\ p[0] = 0
  /\ \A k \in 1..Len(s) : p[k] = p[k - 1] + s[k]

\* Every sequence of integers has its partial sums.
LEMMA SumExists ==
  ASSUME NEW s \in Seq(Int) PROVE \E p : IsSum(s, p)
<1> DEFINE G(n, p) == /\ p \in [0..n -> Int] /\ p[0] = 0
                      /\ \A k \in 1..n : p[k] = p[k - 1] + s[k]
           S == {n \in 0..Len(s) : \E p : G(n, p)}
<1>0. Len(s) \in Nat
  OBVIOUS
<1>1. 0 \in S
  <2>1. G(0, [k \in 0..0 |-> 0])
    OBVIOUS
  <2> HIDE DEF G
  <2>2. QED
    BY <1>0, <2>1
<1>2. ASSUME NEW n \in 1..Len(s), n - 1 \in S PROVE n \in S
  <2>1. PICK p : G(n - 1, p)
    BY <1>2
  <2>2. s[n] \in Int /\ p[n - 1] \in Int
    BY <2>1
  <2>5. p \in [0..(n - 1) -> Int] /\ p[0] = 0 /\ \A k \in 1..(n - 1) : p[k] = p[k - 1] + s[k]
    BY <2>1
  <2> DEFINE q == [k \in 0..n |-> IF k = n THEN p[n - 1] + s[n] ELSE p[k]]
  <2>6. n \in Nat \ {0}
    OBVIOUS
  <2>7. \A k \in 0..n : k # n => k \in 0..(n - 1)
    BY <2>6
  <2>8. q \in [0..n -> Int]
    BY <2>2, <2>5, <2>7
  <2>9. q[n] = p[n - 1] + s[n] /\ \A k \in 0..(n - 1) : q[k] = p[k]
    BY <2>6
  <2> HIDE DEF q
  <2>10. q[0] = 0
    BY <2>5, <2>6, <2>9
  <2>11. ASSUME NEW k \in 1..n PROVE q[k] = q[k - 1] + s[k]
    <3>1. CASE k = n
      <4>1. n - 1 \in 0..(n - 1)
        BY <2>6
      <4>2. QED
        BY <2>9, <3>1, <4>1
    <3>2. CASE k # n
      <4>1. k \in 1..(n - 1) /\ k \in 0..(n - 1) /\ k - 1 \in 0..(n - 1)
        BY <2>6, <3>2
      <4>2. QED
        BY <2>5, <2>9, <4>1, Zenon
    <3>3. QED
      BY <3>1, <3>2
  <2>3. G(n, q)
    BY <2>8, <2>10, <2>11
  <2> HIDE DEF G
  <2>4. QED
    BY <1>0, <2>3
<1>3. Len(s) \in S
  <2> HIDE DEF S
  <2>1. \A n \in 1..Len(s) : n - 1 \in S => n \in S
    BY <1>2
  <2>2. \A n \in 0..Len(s) : n \in S
    BY <1>0, <1>1, <2>1, Stepwise, Zenon
  <2>3. QED
    BY <1>0, <2>2
<1>4. QED
  BY <1>3 DEF IsSum

\* sumOf is the last of them.
LEMMA SumUnfold ==
  ASSUME NEW s \in Seq(Int), NEW p, IsSum(s, p)
  PROVE  sumOf(s) = p[Len(s)]
<1> DEFINE fn(f) == [n \in 0..Len(s) |-> IF n = 0 THEN 0 ELSE f[n - 1] + s[n]]
           sum == CHOOSE f : f = fn(f)
           S == {n \in 0..Len(s) : sum[n] = p[n]}
<1>1. sumOf(s) = sum[Len(s)]
  BY DEF sumOf
<1>2. p = fn(p)
  BY DEF IsSum
<1>3. sum = fn(sum)
  BY <1>2, Zenon
<1> HIDE DEF sum
<1>4. 0 \in S
  BY <1>3 DEF IsSum
<1>5. ASSUME NEW n \in 1..Len(s), n - 1 \in S PROVE n \in S
  BY <1>3, <1>5 DEF IsSum
<1>6. Len(s) \in S
  <2> HIDE DEF S
  <2>1. Len(s) \in Nat /\ \A n \in 1..Len(s) : n - 1 \in S => n \in S
    BY <1>5
  <2>2. \A n \in 0..Len(s) : n \in S
    BY <1>4, <2>1, Stepwise, Zenon
  <2>3. QED
    BY <2>1, <2>2
<1>7. QED
  BY <1>1, <1>6

\* The sums of what the engine does to a queue.
LEMMA SumInt ==
  ASSUME NEW s \in Seq(Int) PROVE sumOf(s) \in Int
BY SumExists, SumUnfold DEF IsSum

\* An empty queue holds nothing.
LEMMA SumEmpty == sumOf(<< >>) = 0
<1>1. IsSum(<< >>, [n \in 0..0 |-> 0])
  BY DEF IsSum
<1>2. QED
  BY <1>1, SumUnfold

\* An order that joins the back of a queue adds its quantity.
LEMMA SumAppend ==
  ASSUME NEW s \in Seq(Int), NEW x \in Int
  PROVE  sumOf(Append(s, x)) = sumOf(s) + x
<1>1. PICK p : IsSum(s, p)
  BY SumExists
<1> DEFINE t == Append(s, x)
           n == Len(s)
           q == [k \in 0..(n + 1) |-> IF k = n + 1 THEN p[n] + x ELSE p[k]]
<1>2. n \in Nat /\ n = Len(s)
  OBVIOUS
<1>3. t \in Seq(Int) /\ Len(t) = n + 1 /\ t[n + 1] = x /\ \A k \in 1..n : t[k] = s[k]
  OBVIOUS
<1> HIDE DEF t, n
<1>4. p \in [0..n -> Int] /\ p[0] = 0 /\ \A k \in 1..n : p[k] = p[k - 1] + s[k]
  BY <1>1, <1>2 DEF IsSum
<1>5. q \in [0..(n + 1) -> Int] /\ q[n + 1] = p[n] + x /\ \A k \in 0..n : q[k] = p[k]
  <2>1. p[n] + x \in Int /\ n + 1 \in 0..(n + 1)
    BY <1>2, <1>4
  <2>6. \A k \in 0..n : p[k] \in Int
    BY <1>4
  <2>7. \A k \in 0..n : k # n + 1 /\ k \in 0..(n + 1)
    BY <1>2
  <2>2. \A k \in 0..n : k # n + 1 /\ k \in 0..(n + 1) /\ p[k] \in Int
    BY <2>6, <2>7
  <2>3. \A k \in 0..(n + 1) : k # n + 1 => k \in 0..n
    BY <1>2
  <2>4. \A k \in 0..(n + 1) : (IF k = n + 1 THEN p[n] + x ELSE p[k]) \in Int
    BY <2>1, <2>2, <2>3, Zenon
  <2>5. QED
    BY <2>1, <2>2, <2>4, Zenon
<1> HIDE DEF q
<1>6. ASSUME NEW k \in 1..(n + 1) PROVE q[k] = q[k - 1] + t[k]
  <2>1. CASE k \in 1..n
    <3>1. q[k] = p[k] /\ q[k - 1] = p[k - 1] /\ t[k] = s[k] /\ p[k] = p[k - 1] + s[k]
      <4>1. k \in 0..n /\ k - 1 \in 0..n
        BY <1>2, <2>1
      <4>2. QED
        BY <1>3, <1>4, <1>5, <2>1, <4>1, Zenon
    <3>2. QED
      BY <3>1
  <2>2. CASE k = n + 1
    <3>1. q[k] = p[n] + x /\ k - 1 = n /\ q[n] = p[n] /\ t[k] = x
      BY <1>2, <1>3, <1>5, <2>2
    <3>2. QED
      BY <3>1
  <2>3. QED
    BY <1>2, <2>1, <2>2
<1>7. q[0] = 0
  BY <1>2, <1>4, <1>5
<1>8. IsSum(t, q)
  BY <1>3, <1>5, <1>6, <1>7 DEF IsSum
<1>9. sumOf(t) = q[n + 1] /\ sumOf(s) = p[n]
  BY <1>1, <1>2, <1>3, <1>8, SumUnfold
<1>10. QED
  BY <1>5, <1>9 DEF t

\* A prefix of a sequence is a shorter prefix and one more element.
LEMMA PrefixStep ==
  ASSUME NEW T, NEW u \in Seq(T), NEW n \in 1..Len(u)
  PROVE  /\ SubSeq(u, 1, n - 1) \in Seq(T) /\ u[n] \in T
         /\ SubSeq(u, 1, n) = Append(SubSeq(u, 1, n - 1), u[n])
  OBVIOUS

\* The empty prefix of a sequence, and the whole of it.
LEMMA PrefixEnds ==
  ASSUME NEW T, NEW u \in Seq(T)
  PROVE  SubSeq(u, 1, 0) = << >> /\ SubSeq(u, 1, Len(u)) = u
  OBVIOUS

\* The sum over joined sequences.
LEMMA SumConcat ==
  \A s \in Seq(Int), u \in Seq(Int) :
    sumOf(s \o u) = sumOf(s) + sumOf(u)
\* Appending to the second of two joined sequences.
<1>ConcatAppend.
     ASSUME NEW T, NEW s \in Seq(T), NEW u \in Seq(T), NEW x \in T
     PROVE  s \o Append(u, x) = Append(s \o u, x) /\ s \o u \in Seq(T)
  BY <1>ConcatAppend
<1> TAKE s \in Seq(Int), u \in Seq(Int)
<1> DEFINE pre(n) == SubSeq(u, 1, n)
           P(n) == sumOf(s \o pre(n)) = sumOf(s) + sumOf(pre(n))
           S == {n \in 0..Len(u) : P(n)}
<1>1. P(0)
  <2>1. s \o << >> = s /\ pre(0) = << >>
    BY PrefixEnds
  <2>2. sumOf(s) = sumOf(s) + sumOf(<< >>)
    BY SumEmpty, SumInt
  <2>3. QED
    BY <2>1, <2>2, Zenon
<1>2. ASSUME NEW n \in 1..Len(u), P(n - 1) PROVE P(n)
  <2>1. pre(n - 1) \in Seq(Int) /\ u[n] \in Int /\ pre(n) = Append(pre(n - 1), u[n])
    BY PrefixStep
  <2> HIDE DEF pre
  <2>2. s \o Append(pre(n - 1), u[n]) = Append(s \o pre(n - 1), u[n])
        /\ s \o pre(n - 1) \in Seq(Int)
    BY <2>1, <1>ConcatAppend, Zenon
  <2>3. sumOf(s) \in Int /\ sumOf(pre(n - 1)) \in Int
    BY <2>1, SumInt
  <2>4. sumOf(Append(s \o pre(n - 1), u[n])) = sumOf(s \o pre(n - 1)) + u[n]
    BY <2>1, <2>2, SumAppend, Zenon
  <2>5. sumOf(Append(pre(n - 1), u[n])) = sumOf(pre(n - 1)) + u[n]
    BY <2>1, SumAppend, Zenon
  <2>6. sumOf(s \o pre(n)) = sumOf(s \o pre(n - 1)) + u[n]
    BY <2>1, <2>2, <2>4, Zenon
  <2>7. sumOf(pre(n)) = sumOf(pre(n - 1)) + u[n]
    BY <2>1, <2>5, Zenon
  <2>8. QED
    BY <1>2, <2>1, <2>3, <2>6, <2>7
<1>3. Len(u) \in Nat
  OBVIOUS
<1>4. P(Len(u))
  <2> HIDE DEF P
  <2>1. 0 \in S /\ \A n \in 1..Len(u) : n - 1 \in S => n \in S
    BY <1>1, <1>2, <1>3
  <2> HIDE DEF S
  <2>2. \A n \in 0..Len(u) : n \in S
    BY <1>3, <2>1, Stepwise, Zenon
  <2>3. QED
    BY <1>3, <2>2 DEF S
<1>5. QED
  BY <1>4, PrefixEnds, Zenon

\* A sequence is what precedes a place, the element there, and what follows.
Parts(s, i, x, a, c) ==
  /\ removeAt(s, i) = a \o c
  /\ s = Append(a, s[i]) \o c
  /\ replaceAt(s, i, x) = Append(a, x) \o c

\* What a concatenation is, element by element.
IsGlue(t, a, c, n) ==
  /\ Len(a) = n /\ Len(t) = n + Len(c)
  /\ \A j \in 1..n : t[j] = a[j]
  /\ \A j \in 1..Len(c) : t[n + j] = c[j]

\* Removing or replacing one element changes the sum by that element.
LEMMA SumSplit ==
  \A s \in Seq(Int) : \A i \in 1..Len(s), x \in Int :
    /\ sumOf(removeAt(s, i)) = sumOf(s) - s[i]
    /\ sumOf(replaceAt(s, i, x)) = sumOf(s) - s[i] + x
\* A sequence with the elements of two others, in order, is their concatenation.
<1>GlueIs.
     ASSUME NEW T, NEW a \in Seq(T), NEW c \in Seq(T), NEW t \in Seq(T), NEW n \in Nat,
            IsGlue(t, a, c, n)
     PROVE  t = a \o c
  <2> USE <1>GlueIs
  <2> USE DEF IsGlue
  <2>1. Len(a) \in Nat /\ Len(c) \in Nat
    OBVIOUS
  <2>2. /\ a \o c \in Seq(T) /\ Len(a \o c) = n + Len(c)
        /\ \A j \in 1..n + Len(c) : (a \o c)[j] = IF j <= n THEN a[j] ELSE c[j - n]
    BY ConcatProperties
  <2>3. ASSUME NEW j \in 1..Len(t) PROVE t[j] = (a \o c)[j]
    <3>1. CASE j <= n
      BY <2>1, <2>2, <3>1
    <3>2. CASE j > n
      <4>1. j - n \in 1..Len(c) /\ n + (j - n) = j
        BY <2>1, <3>2
      <4>2. t[j] = c[j - n]
        BY <4>1
      <4>3. QED
        BY <2>1, <2>2, <3>2, <4>2
    <3>3. QED
      BY <2>1, <3>1, <3>2
  <2>4. QED
    BY <2>2, <2>3, SeqEqual
\* A sequence around one of its indices, and what removing or replacing there leaves.
<1>SplitAt.
     ASSUME NEW T, NEW s \in Seq(T), NEW i \in 1..Len(s), NEW x \in T
     PROVE  \E a \in Seq(T), c \in Seq(T) : Parts(s, i, x, a, c)
  <2> USE <1>SplitAt
  <2> DEFINE a == SubSeq(s, 1, i - 1)
             c == SubSeq(s, i + 1, Len(s))
             e(y) == Append(a, y)
             r == replaceAt(s, i, x)
  <2>1. a \in Seq(T) /\ Len(a) = i - 1 /\ \A j \in 1..(i - 1) : a[j] = s[j]
    BY SubSeqProperties
  <2>2. c \in Seq(T) /\ Len(c) = Len(s) - i /\ \A j \in 1..(Len(s) - i) : c[j] = s[i + j]
    BY SubSeqProperties
  <2>3. removeAt(s, i) = a \o c
    BY DEF removeAt
  <2> HIDE DEF a, c
  <2>4. ASSUME NEW y \in T
        PROVE  e(y) \in Seq(T) /\ Len(e(y)) = i /\ e(y)[i] = y
               /\ \A j \in 1..(i - 1) : e(y)[j] = a[j]
    BY <2>1
  <2> HIDE DEF e
  <2>5. ASSUME NEW y \in T, NEW t \in Seq(T), Len(t) = Len(s), t[i] = y,
               \A j \in 1..Len(s) : j # i => t[j] = s[j]
        PROVE  t = e(y) \o c
    <3>1. e(y) \in Seq(T) /\ Len(e(y)) = i /\ \A j \in 1..i : t[j] = e(y)[j]
      BY <2>1, <2>4, <2>5
    <3>2. Len(t) = i + Len(c) /\ \A j \in 1..Len(c) : t[i + j] = c[j]
      BY <2>2, <2>5
    <3>3. i \in Nat /\ c \in Seq(T)
      BY <2>2
    <3>4. IsGlue(t, e(y), c, i)
      BY <3>1, <3>2 DEF IsGlue
    <3>5. QED
      BY <3>1, <3>3, <3>4, <1>GlueIs
  <2>6. s = e(s[i]) \o c
    <3>1. s[i] \in T
      OBVIOUS
    <3>2. QED
      BY <2>5, <3>1, Zenon
  <2>7. r \in Seq(T) /\ Len(r) = Len(s) /\ r[i] = x /\ \A j \in 1..Len(s) : j # i => r[j] = s[j]
    BY DEF replaceAt
  <2> HIDE DEF r
  <2>8. r = e(x) \o c
    BY <2>5, <2>7, Zenon
  <2>9. QED
    BY <2>1, <2>2, <2>3, <2>6, <2>8, Zenon DEF e, r, Parts
<1> TAKE s \in Seq(Int)
<1> TAKE i \in 1..Len(s), x \in Int
<1>1. PICK a \in Seq(Int), c \in Seq(Int) : Parts(s, i, x, a, c)
  BY <1>SplitAt, Zenon
<1>2. s[i] \in Int
  OBVIOUS
<1>3. ASSUME NEW y \in Int
      PROVE  sumOf(Append(a, y) \o c) = sumOf(a) + y + sumOf(c)
  <2>1. Append(a, y) \in Seq(Int)
    OBVIOUS
  <2>2. sumOf(Append(a, y) \o c) = sumOf(Append(a, y)) + sumOf(c)
    BY <2>1, SumConcat, Zenon
  <2>3. sumOf(Append(a, y)) = sumOf(a) + y
    BY SumAppend, Zenon
  <2>4. QED
    BY <2>2, <2>3, Zenon
<1>4. sumOf(a) \in Int /\ sumOf(c) \in Int
  BY SumInt
<1>5. sumOf(removeAt(s, i)) = sumOf(a) + sumOf(c)
  BY <1>1, SumConcat, Zenon DEF Parts
<1>6. sumOf(s) = sumOf(a) + s[i] + sumOf(c)
  BY <1>1, <1>2, <1>3, Zenon DEF Parts
<1>7. sumOf(replaceAt(s, i, x)) = sumOf(a) + x + sumOf(c)
  BY <1>1, <1>3, Zenon DEF Parts
<1>8. QED
  BY <1>2, <1>4, <1>5, <1>6, <1>7

\* A sequence of zeros sums to zero.
LEMMA SumZero ==
  ASSUME NEW s \in Seq(Int), \A k \in 1..Len(s) : s[k] = 0
  PROVE  sumOf(s) = 0
<1>1. IsSum(s, [n \in 0..Len(s) |-> 0])
  BY DEF IsSum
<1>2. QED
  BY <1>1, SumUnfold

\* Wrapping a summand first does not change the wrapped sum.
LEMMA WrapAdd ==
  \A x \in Int, y \in Int :
    Wrap(Wrap(x) + y) = Wrap(x + y)
\* Two's complement.
<1>ModUnique.
     ASSUME NEW w \in Nat \ {0}, NEW x \in Int, NEW d \in Int, NEW r \in 0..(w - 1),
            x = d * w + r
     PROVE  x % w = r
  <2> USE <1>ModUnique
  <2> DEFINE e == x \div w
             m == x % w
  <2>1. e \in Int /\ m \in 0..(w - 1) /\ x = w * e + m
    OBVIOUS
  <2> HIDE DEF e, m
  <2>2. w * (d - e) = m - r
    BY <2>1
  <2>3. CASE d - e >= 1
    <3>1. w * (d - e) >= w
      BY <2>1, <2>3
    <3>2. QED
      BY <2>1, <2>2, <3>1
  <2>4. CASE d - e <= -1
    <3>1. w * (d - e) <= -w
      BY <2>1, <2>4
    <3>2. QED
      BY <2>1, <2>2, <3>1
  <2>5. CASE d = e
    BY <2>1, <2>2, <2>5 DEF m
  <2>6. QED
    BY <2>1, <2>3, <2>4, <2>5
<1> TAKE x \in Int, y \in Int
<1> DEFINE h == MaxInt64 + 1
           w == 2 * h
           u == x + h
           v == x + y + h
           a == u \div w
           m == u % w
           c == v \div w
           r == v % w
<1>1. h \in Nat /\ w \in Nat \ {0} /\ u \in Int /\ v \in Int
  BY MaxIntAssumption
<1>2. Wrap(x) = m - h /\ Wrap(x + y) = r - h
  BY MaxIntAssumption DEF Wrap
<1> HIDE DEF w
<1>3. a \in Int /\ m \in 0..(w - 1) /\ u = a * w + m
  <2> HIDE DEF u
  <2>1. QED
    BY <1>1
<1>4. c \in Int /\ r \in 0..(w - 1) /\ v = c * w + r
  <2> HIDE DEF v
  <2>1. QED
    BY <1>1
<1> HIDE DEF a, m, c, r
<1>5. m + y = (c - a) * w + r /\ m + y \in Int /\ c - a \in Int
  <2>1. (c - a) * w = c * w - a * w /\ c * w \in Int /\ a * w \in Int
    BY <1>1, <1>3, <1>4
  <2>2. QED
    BY <1>1, <1>3, <1>4, <2>1
<1>6. (m + y) % w = r
  BY <1>1, <1>4, <1>5, <1>ModUnique, Zenon
<1>7. Wrap(m - h + y) = ((m + y) % w) - h
  <2>1. (m - h + y) + MaxInt64 + 1 = m + y
    BY <1>1, <1>3, MaxIntAssumption
  <2>2. QED
    BY <2>1 DEF Wrap, w
<1>8. QED
  BY <1>2, <1>6, <1>7

-----------------------------------------------------------------------------
(* Sorted sequences, and sequences that are joined. *)

\* A sequence of numbers, sorted strictly as the prices of slice bs are.
Ranked(s, bs) == \A i, j \in 1..Len(s) : i < j => Before(bs, s[i], s[j])

\* They are the same sequence.
LEMMA RankedUnique ==
  \A bs : \A s \in Seq(Int), t \in Seq(Int) :
  (Ranked(s, bs) /\ Ranked(t, bs) /\ Range(s) = Range(t)) =>
    s = t
\* Of two prices only one ranks before the other.
<1>BeforeOnce.
     ASSUME NEW bs, NEW p \in Int, NEW q \in Int, Before(bs, p, q), Before(bs, q, p)
     PROVE  FALSE
  BY <1>BeforeOnce DEF Before
\* Sorted sequences of the same numbers begin alike.
<1>RankedStep.
     ASSUME NEW bs, NEW s \in Seq(Int), NEW t \in Seq(Int), Ranked(s, bs), Ranked(t, bs),
            Range(s) = Range(t), NEW n \in 1..Len(s),
            n - 1 <= Len(t), \A k \in 1..(n - 1) : s[k] = t[k]
     PROVE  n <= Len(t) /\ s[n] = t[n]
  <2> USE <1>RankedStep
  <2>0. Len(s) \in Nat /\ Len(t) \in Nat /\ n \in Nat
    OBVIOUS
  <2>1. Range(s) = {s[k] : k \in 1..Len(s)} /\ Range(t) = {t[k] : k \in 1..Len(t)}
    BY RangeSeq
  <2>2. PICK j \in 1..Len(t) : t[j] = s[n]
    BY <2>1, Zenon
  <2>3. ~(j < n)
    <3> SUFFICES ASSUME j < n PROVE FALSE
      OBVIOUS
    <3>1. j \in 1..(n - 1) /\ j \in 1..Len(s)
      BY <2>0
    <3>2. s[j] = t[j] /\ Before(bs, s[j], s[n]) /\ s[j] \in Int /\ s[n] \in Int
      <4>1. s[j] = t[j]
        BY <3>1, Zenon
      <4>2. Before(bs, s[j], s[n])
        BY <3>1, Zenon DEF Ranked
      <4>3. s[j] \in Int /\ s[n] \in Int
        BY <3>1
      <4>4. QED
        BY <4>1, <4>2, <4>3
    <3>3. QED
      BY <2>2, <3>2 DEF Before
  <2>4. n \in 1..Len(t)
    BY <2>0, <2>2, <2>3
  <2>5. PICK i \in 1..Len(s) : s[i] = t[n]
    BY <2>1, <2>4, Zenon
  <2>6. ~(i < n)
    <3> SUFFICES ASSUME i < n PROVE FALSE
      OBVIOUS
    <3>1. i \in 1..(n - 1) /\ i \in 1..Len(t)
      BY <2>0, <2>4
    <3>2. s[i] = t[i] /\ Before(bs, t[i], t[n]) /\ t[i] \in Int /\ t[n] \in Int
      <4>1. s[i] = t[i]
        BY <3>1, Zenon
      <4>2. Before(bs, t[i], t[n])
        BY <2>4, <3>1, Zenon DEF Ranked
      <4>3. t[i] \in Int /\ t[n] \in Int
        BY <2>4, <3>1
      <4>4. QED
        BY <4>1, <4>2, <4>3
    <3>3. QED
      BY <2>5, <3>2 DEF Before
  <2>7. n = i \/ Before(bs, s[n], s[i])
    BY <2>0, <2>5, <2>6 DEF Ranked
  <2>8. n = j \/ Before(bs, t[n], t[j])
    BY <2>0, <2>2, <2>3, <2>4 DEF Ranked
  <2>9. s[n] \in Int /\ t[n] \in Int
    BY <2>4
  <2>10. s[n] = t[n]
    <3>1. CASE n = i
      BY <2>5, <3>1, Zenon
    <3>2. CASE n = j
      BY <2>2, <3>2, Zenon
    <3>3. CASE Before(bs, s[n], s[i]) /\ Before(bs, t[n], t[j])
      <4>1. Before(bs, s[n], t[n]) /\ Before(bs, t[n], s[n])
        BY <2>2, <2>5, <3>3, Zenon
      <4>2. QED
        BY <2>9, <4>1, <1>BeforeOnce
    <3>4. QED
      BY <2>7, <2>8, <3>1, <3>2, <3>3, Zenon
  <2>11. QED
    BY <2>4, <2>10
<1> TAKE bs
<1> TAKE s \in Seq(Int), t \in Seq(Int)
<1> HAVE Ranked(s, bs) /\ Ranked(t, bs) /\ Range(s) = Range(t)
<1> DEFINE P(n) == n <= Len(t) /\ \A k \in 1..n : s[k] = t[k]
           S == {n \in 0..Len(s) : P(n)}
<1>0. Len(s) \in Nat /\ Len(t) \in Nat
  OBVIOUS
<1>1. P(0)
  BY <1>0
<1>2. ASSUME NEW n \in 1..Len(s), P(n - 1) PROVE P(n)
  <2>1. n <= Len(t) /\ s[n] = t[n]
    BY <1>2, <1>RankedStep
  <2>2. \A k \in 1..n : k = n \/ k \in 1..(n - 1)
    BY <1>0
  <2>3. QED
    BY <1>2, <2>1, <2>2
<1>3. P(Len(s))
  <2> HIDE DEF P
  <2>1. 0 \in S /\ \A n \in 1..Len(s) : n - 1 \in S => n \in S
    BY <1>0, <1>1, <1>2
  <2> HIDE DEF S
  <2>2. \A n \in 0..Len(s) : n \in S
    BY <1>0, <2>1, Stepwise, Zenon
  <2>3. QED
    BY <1>0, <2>2 DEF S
<1>4. Len(t) <= Len(s)
  <2> SUFFICES ASSUME Len(s) < Len(t) PROVE FALSE
    BY <1>0
  <2> DEFINE m == Len(s) + 1
  <2>1. m \in 1..Len(t) /\ m > Len(s)
    BY <1>0
  <2> HIDE DEF m
  <2>2. t[m] \in Range(t)
    BY <2>1, RangeSeq
  <2>6. Range(s) = {s[k] : k \in 1..Len(s)}
    BY RangeSeq
  <2>3. PICK i \in 1..Len(s) : s[i] = t[m]
    BY <2>2, <2>6
  <2>4. t[i] = t[m] /\ i < m /\ i \in 1..Len(t) /\ t[m] \in Int
    BY <1>0, <1>3, <2>1, <2>3
  <2>5. QED
    BY <2>1, <2>4 DEF Ranked, Before
<1>5. Len(s) = Len(t) /\ \A k \in 1..Len(s) : s[k] = t[k]
  BY <1>0, <1>3, <1>4
<1>6. QED
  BY <1>5, SeqEqual

\* q is s and then t, position by position.
Joined(q, s, t) ==
  /\ Len(s) \in Nat /\ Len(t) \in Nat /\ Len(q) = Len(s) + Len(t)
  /\ \A i \in 1..Len(q) : \/ i \in 1..Len(s) /\ q[i] = s[i]
                          \/ \E k \in 1..Len(t) : i = Len(s) + k /\ q[i] = t[k]
  /\ \A i \in 1..Len(s) : i \in 1..Len(q) /\ q[i] = s[i]
  /\ \A k \in 1..Len(t) : Len(s) + k \in 1..Len(q) /\ q[Len(s) + k] = t[k]

\* Concatenation joins.
LEMMA ConcatJoined ==
  ASSUME NEW T, NEW s \in Seq(T), NEW t \in Seq(T)
  PROVE  s \o t \in Seq(T) /\ Joined(s \o t, s, t)
<1> DEFINE q == s \o t
<1>1. Len(s) \in Nat /\ Len(t) \in Nat
  OBVIOUS
<1>2. /\ q \in Seq(T) /\ Len(q) = Len(s) + Len(t)
      /\ \A i \in 1..(Len(s) + Len(t)) : q[i] = IF i <= Len(s) THEN s[i] ELSE t[i - Len(s)]
  BY ConcatProperties
<1> HIDE DEF q
<1>3. ASSUME NEW i \in 1..Len(q)
      PROVE  \/ i \in 1..Len(s) /\ q[i] = s[i]
             \/ \E k \in 1..Len(t) : i = Len(s) + k /\ q[i] = t[k]
  <2>1. CASE i <= Len(s)
    BY <1>1, <1>2, <2>1
  <2>2. CASE ~(i <= Len(s))
    <3>1. i - Len(s) \in 1..Len(t) /\ i = Len(s) + (i - Len(s))
      BY <1>1, <1>2, <2>2
    <3>2. q[i] = t[i - Len(s)]
      BY <1>2, <2>2
    <3>3. QED
      BY <3>1, <3>2
  <2>3. QED
    BY <2>1, <2>2
<1>4. ASSUME NEW i \in 1..Len(s) PROVE i \in 1..Len(q) /\ q[i] = s[i]
  BY <1>1, <1>2
<1>5. ASSUME NEW k \in 1..Len(t) PROVE Len(s) + k \in 1..Len(q) /\ q[Len(s) + k] = t[k]
  <2>1. Len(s) + k \in 1..(Len(s) + Len(t)) /\ ~(Len(s) + k <= Len(s)) /\ (Len(s) + k) - Len(s) = k
    BY <1>1
  <2>2. QED
    BY <1>2, <2>1
<1>6. Joined(q, s, t)
  BY <1>1, <1>2, <1>3, <1>4, <1>5 DEF Joined
<1>7. QED
  BY <1>2, <1>6 DEF q

-----------------------------------------------------------------------------
(* The loops of the snapshot, unfolded. *)

\* One turn of flatten(ss).
flatStep(ss, x, k) == x \o ss[k]

\* The values that it goes through.
IsFlat(ss, p) ==
  /\ p = [n \in 0..Len(ss) |-> p[n]] /\ p[0] = << >>
  /\ \A k \in 1..Len(ss) : p[k] = flatStep(ss, p[k - 1], k)

\* There are such values.
LEMMA FlatExists ==
  ASSUME NEW ss, Len(ss) \in Nat PROVE \E p : IsFlat(ss, p)
<1> DEFINE G(n, p) == /\ p = [k \in 0..n |-> p[k]] /\ p[0] = << >>
                      /\ \A k \in 1..n : p[k] = flatStep(ss, p[k - 1], k)
           S == {n \in 0..Len(ss) : \E p : G(n, p)}
<1>1. 0 \in S
  <2>1. G(0, [k \in 0..0 |-> << >>])
    OBVIOUS
  <2> HIDE DEF G
  <2>2. QED
    BY <2>1
<1>2. ASSUME NEW n \in 1..Len(ss), n - 1 \in S PROVE n \in S
  <2>1. PICK p : G(n - 1, p)
    BY <1>2
  <2>2. p[0] = << >> /\ \A k \in 1..(n - 1) : p[k] = flatStep(ss, p[k - 1], k)
    BY <2>1
  <2> DEFINE y == flatStep(ss, p[n - 1], n)
             q == [j \in 0..n |-> IF j = n THEN y ELSE p[j]]
  <2>3. n \in Nat \ {0} /\ n - 1 \in 0..(n - 1) /\ 0 \in 0..(n - 1)
    OBVIOUS
  <2>10. y = flatStep(ss, p[n - 1], n)
    OBVIOUS
  <2> HIDE DEF y
  <2>4. q = [j \in 0..n |-> q[j]] /\ q[n] = y /\ \A j \in 0..(n - 1) : q[j] = p[j]
    BY <2>3
  <2> HIDE DEF q
  <2>6. q[0] = << >>
    BY <2>2, <2>3, <2>4, Zenon
  <2>7. ASSUME NEW j \in 1..n PROVE q[j] = flatStep(ss, q[j - 1], j)
    <3>1. CASE j = n
      BY <2>3, <2>4, <2>10, <3>1
    <3>2. CASE j # n
      <4>1. j \in 1..(n - 1) /\ j \in 0..(n - 1) /\ j - 1 \in 0..(n - 1)
        BY <2>3, <3>2
      <4>2. QED
        BY <2>2, <2>4, <4>1, Zenon
    <3>3. QED
      BY <3>1, <3>2
  <2>8. G(n, q)
    BY <2>4, <2>6, <2>7
  <2> HIDE DEF G
  <2>9. QED
    BY <2>8
<1>3. Len(ss) \in S
  <2> HIDE DEF S
  <2>1. \A n \in 1..Len(ss) : n - 1 \in S => n \in S
    BY <1>2
  <2>2. \A n \in 0..Len(ss) : n \in S
    BY <1>1, <2>1, Stepwise, Zenon
  <2>3. QED
    BY <2>2
<1>4. QED
  BY <1>3 DEF IsFlat

\* flatten(ss) is the last of them.
LEMMA FlatUnfold ==
  ASSUME NEW ss, Len(ss) \in Nat, NEW p, IsFlat(ss, p)
  PROVE  flatten(ss) = p[Len(ss)]
<1> DEFINE fn(f) == [n \in 0..Len(ss) |-> IF n = 0 THEN << >> ELSE flatStep(ss, f[n - 1], n)]
           val == CHOOSE f : f = fn(f)
           S == {n \in 0..Len(ss) : val[n] = p[n]}
<1>1. flatten(ss) = val[Len(ss)]
  BY DEF flatten, flatStep
<1>2. p = fn(p)
  <2>1. p[0] = << >> /\ \A k \in 1..Len(ss) : p[k] = flatStep(ss, p[k - 1], k)
    BY Zenon DEF IsFlat
  <2>2. \A n \in 0..Len(ss) : n = 0 \/ n \in 1..Len(ss)
    OBVIOUS
  <2>3. \A n \in 0..Len(ss) : p[n] = IF n = 0 THEN << >> ELSE flatStep(ss, p[n - 1], n)
    BY <2>1, <2>2
  <2>4. QED
    BY <2>3, Zenon DEF IsFlat
<1>3. val = fn(val)
  BY <1>2, Zenon
<1> HIDE DEF val
<1>4. 0 \in S
  BY <1>3 DEF IsFlat
<1>5. ASSUME NEW n \in 1..Len(ss), n - 1 \in S PROVE n \in S
  <2>1. n \in 0..Len(ss) /\ n # 0
    OBVIOUS
  <2>2. val[n] = flatStep(ss, val[n - 1], n)
    BY <1>3, <2>1
  <2>3. QED
    BY <1>5, <2>1, <2>2, Zenon DEF IsFlat
<1>6. Len(ss) \in S
  <2> HIDE DEF S
  <2>1. \A n \in 1..Len(ss) : n - 1 \in S => n \in S
    BY <1>5
  <2>2. \A n \in 0..Len(ss) : n \in S
    BY <1>4, <2>1, Stepwise, Zenon
  <2>3. QED
    BY <2>2
<1>7. QED
  BY <1>1, <1>6

\* One more element is one more turn.
LEMMA FlatAppend ==
  ASSUME NEW ss, Len(ss) \in Nat, NEW T, ss \in Seq(T), NEW e, NEW u, u = Append(ss, e)
  PROVE  flatten(u) = flatten(ss) \o e
<1> DEFINE n == Len(ss)
<1>1. PICK p : IsFlat(ss, p)
  BY FlatExists
<1>2. Len(u) = n + 1 /\ u[n + 1] = e /\ \A k \in 1..n : u[k] = ss[k]
  <2>1. u \in Seq(T \cup {e}) /\ ss \in Seq(T \cup {e})
    OBVIOUS
  <2>2. QED
    BY <2>1
<1> DEFINE y == flatStep(u, p[n], n + 1)
           q == [j \in 0..(n + 1) |-> IF j = n + 1 THEN y ELSE p[j]]
<1>3. n \in Nat /\ y = flatStep(u, p[n], n + 1) /\ n = Len(ss)
  OBVIOUS
<1> HIDE DEF y, n
<1>4. \A j \in 0..n : j # n + 1 /\ j \in 0..(n + 1)
  BY <1>3
<1>5. q = [j \in 0..(n + 1) |-> q[j]] /\ q[n + 1] = y /\ \A j \in 0..n : q[j] = p[j]
  BY <1>3, <1>4
<1> HIDE DEF q
<1>6. p[0] = << >> /\ \A k \in 1..n : p[k] = flatStep(ss, p[k - 1], k)
  BY <1>1, <1>3, Zenon DEF IsFlat
<1>7. ASSUME NEW k \in 1..(n + 1) PROVE q[k] = flatStep(u, q[k - 1], k)
  <2>1. CASE k = n + 1
    <3>1. k - 1 = n /\ n \in 0..n
      BY <1>3, <2>1
    <3>2. q[k] = y /\ q[k - 1] = p[n]
      BY <1>5, <2>1, <3>1, Zenon
    <3>3. QED
      BY <1>3, <2>1, <3>2
  <2>2. CASE k # n + 1
    <3>1. k \in 1..n /\ k \in 0..n /\ k - 1 \in 0..n
      BY <1>3, <2>2
    <3>2. q[k] = flatStep(ss, q[k - 1], k)
      BY <1>5, <1>6, <3>1, Zenon
    <3>3. QED
      BY <1>2, <3>1, <3>2, Zenon DEF flatStep
  <2>3. QED
    BY <2>1, <2>2
<1>8. q[0] = << >>
  <2>1. 0 \in 0..n
    BY <1>3
  <2>2. QED
    BY <1>5, <1>6, <2>1
<1>9. IsFlat(u, q)
  BY <1>2, <1>5, <1>7, <1>8, Zenon DEF IsFlat
<1>10. flatten(u) = q[n + 1]
  <2>1. Len(u) \in Nat
    BY <1>2, <1>3
  <2>2. QED
    BY <1>2, <1>9, <2>1, FlatUnfold, Zenon
<1>11. flatten(ss) = p[n]
  BY <1>1, <1>3, FlatUnfold
<1>12. QED
  BY <1>2, <1>3, <1>5, <1>10, <1>11, Zenon DEF flatStep

\* Nothing to do.
LEMMA FlatEmpty == flatten(<< >>) = << >>

<1>1. Len(<< >>) = 0 /\ 0 \in Nat
  OBVIOUS
<1>2. PICK p : IsFlat(<< >>, p)
  BY <1>1, FlatExists
<1>3. p[0] = << >>
  BY <1>2 DEF IsFlat
<1>4. flatten(<< >>) = p[Len(<< >>)]
  BY <1>1, <1>2, FlatUnfold
<1>5. QED
  BY <1>1, <1>3, <1>4

\* One turn of restAll(b, os).
restStep(b, os, x, k) == restOrder(x, os[k])

\* The values that it goes through.
IsRests(b, os, p) ==
  /\ p = [n \in 0..Len(os) |-> p[n]] /\ p[0] = b
  /\ \A k \in 1..Len(os) : p[k] = restStep(b, os, p[k - 1], k)

\* There are such values.
LEMMA RestsExists ==
  ASSUME NEW b, NEW os, Len(os) \in Nat PROVE \E p : IsRests(b, os, p)
<1> DEFINE G(n, p) == /\ p = [k \in 0..n |-> p[k]] /\ p[0] = b
                      /\ \A k \in 1..n : p[k] = restStep(b, os, p[k - 1], k)
           S == {n \in 0..Len(os) : \E p : G(n, p)}
<1>1. 0 \in S
  <2>1. G(0, [k \in 0..0 |-> b])
    OBVIOUS
  <2> HIDE DEF G
  <2>2. QED
    BY <2>1
<1>2. ASSUME NEW n \in 1..Len(os), n - 1 \in S PROVE n \in S
  <2>1. PICK p : G(n - 1, p)
    BY <1>2
  <2>2. p[0] = b /\ \A k \in 1..(n - 1) : p[k] = restStep(b, os, p[k - 1], k)
    BY <2>1
  <2> DEFINE y == restStep(b, os, p[n - 1], n)
             q == [j \in 0..n |-> IF j = n THEN y ELSE p[j]]
  <2>3. n \in Nat \ {0} /\ n - 1 \in 0..(n - 1) /\ 0 \in 0..(n - 1)
    OBVIOUS
  <2>10. y = restStep(b, os, p[n - 1], n)
    OBVIOUS
  <2> HIDE DEF y
  <2>4. q = [j \in 0..n |-> q[j]] /\ q[n] = y /\ \A j \in 0..(n - 1) : q[j] = p[j]
    BY <2>3
  <2> HIDE DEF q
  <2>6. q[0] = b
    BY <2>2, <2>3, <2>4, Zenon
  <2>7. ASSUME NEW j \in 1..n PROVE q[j] = restStep(b, os, q[j - 1], j)
    <3>1. CASE j = n
      BY <2>3, <2>4, <2>10, <3>1
    <3>2. CASE j # n
      <4>1. j \in 1..(n - 1) /\ j \in 0..(n - 1) /\ j - 1 \in 0..(n - 1)
        BY <2>3, <3>2
      <4>2. QED
        BY <2>2, <2>4, <4>1, Zenon
    <3>3. QED
      BY <3>1, <3>2
  <2>8. G(n, q)
    BY <2>4, <2>6, <2>7
  <2> HIDE DEF G
  <2>9. QED
    BY <2>8
<1>3. Len(os) \in S
  <2> HIDE DEF S
  <2>1. \A n \in 1..Len(os) : n - 1 \in S => n \in S
    BY <1>2
  <2>2. \A n \in 0..Len(os) : n \in S
    BY <1>1, <2>1, Stepwise, Zenon
  <2>3. QED
    BY <2>2
<1>4. QED
  BY <1>3 DEF IsRests

\* restAll(b, os) is the last of them.
LEMMA RestsUnfold ==
  ASSUME NEW b, NEW os, Len(os) \in Nat, NEW p, IsRests(b, os, p)
  PROVE  restAll(b, os) = p[Len(os)]
<1> DEFINE fn(f) == [n \in 0..Len(os) |-> IF n = 0 THEN b ELSE restStep(b, os, f[n - 1], n)]
           val == CHOOSE f : f = fn(f)
           S == {n \in 0..Len(os) : val[n] = p[n]}
<1>1. restAll(b, os) = val[Len(os)]
  BY DEF restAll, restStep
<1>2. p = fn(p)
  <2>1. p[0] = b /\ \A k \in 1..Len(os) : p[k] = restStep(b, os, p[k - 1], k)
    BY DEF IsRests
  <2>2. \A n \in 0..Len(os) : n = 0 \/ n \in 1..Len(os)
    OBVIOUS
  <2>3. \A n \in 0..Len(os) : p[n] = IF n = 0 THEN b ELSE restStep(b, os, p[n - 1], n)
    BY <2>1, <2>2
  <2>4. QED
    BY <2>3 DEF IsRests
<1>3. val = fn(val)
  BY <1>2, Zenon
<1> HIDE DEF val
<1>4. 0 \in S
  BY <1>3 DEF IsRests
<1>5. ASSUME NEW n \in 1..Len(os), n - 1 \in S PROVE n \in S
  <2>1. n \in 0..Len(os) /\ n # 0
    OBVIOUS
  <2>2. val[n] = restStep(b, os, val[n - 1], n)
    BY <1>3, <2>1
  <2>3. QED
    BY <1>5, <2>1, <2>2, Zenon DEF IsRests
<1>6. Len(os) \in S
  <2> HIDE DEF S
  <2>1. \A n \in 1..Len(os) : n - 1 \in S => n \in S
    BY <1>5
  <2>2. \A n \in 0..Len(os) : n \in S
    BY <1>4, <2>1, Stepwise, Zenon
  <2>3. QED
    BY <2>2
<1>7. QED
  BY <1>1, <1>6

\* One more element is one more turn.
LEMMA RestsAppend ==
  ASSUME NEW b, NEW os, Len(os) \in Nat, NEW T, os \in Seq(T), NEW e, NEW u, u = Append(os, e)
  PROVE  restAll(b, u) = restOrder(restAll(b, os), e)
<1> DEFINE n == Len(os)
<1>1. PICK p : IsRests(b, os, p)
  BY RestsExists
<1>2. Len(u) = n + 1 /\ u[n + 1] = e /\ \A k \in 1..n : u[k] = os[k]
  <2>1. u \in Seq(T \cup {e}) /\ os \in Seq(T \cup {e})
    OBVIOUS
  <2>2. QED
    BY <2>1
<1> DEFINE y == restStep(b, u, p[n], n + 1)
           q == [j \in 0..(n + 1) |-> IF j = n + 1 THEN y ELSE p[j]]
<1>3. n \in Nat /\ y = restStep(b, u, p[n], n + 1) /\ n = Len(os)
  OBVIOUS
<1> HIDE DEF y, n
<1>4. \A j \in 0..n : j # n + 1 /\ j \in 0..(n + 1)
  BY <1>3
<1>5. q = [j \in 0..(n + 1) |-> q[j]] /\ q[n + 1] = y /\ \A j \in 0..n : q[j] = p[j]
  BY <1>3, <1>4
<1> HIDE DEF q
<1>6. p[0] = b /\ \A k \in 1..n : p[k] = restStep(b, os, p[k - 1], k)
  BY <1>1, <1>3, Zenon DEF IsRests
<1>7. ASSUME NEW k \in 1..(n + 1) PROVE q[k] = restStep(b, u, q[k - 1], k)
  <2>1. CASE k = n + 1
    <3>1. k - 1 = n /\ n \in 0..n
      BY <1>3, <2>1
    <3>2. q[k] = y /\ q[k - 1] = p[n]
      BY <1>5, <2>1, <3>1, Zenon
    <3>3. QED
      BY <1>3, <2>1, <3>2
  <2>2. CASE k # n + 1
    <3>1. k \in 1..n /\ k \in 0..n /\ k - 1 \in 0..n
      BY <1>3, <2>2
    <3>2. q[k] = restStep(b, os, q[k - 1], k)
      BY <1>5, <1>6, <3>1, Zenon
    <3>3. QED
      BY <1>2, <3>1, <3>2, Zenon DEF restStep
  <2>3. QED
    BY <2>1, <2>2
<1>8. q[0] = b
  <2>1. 0 \in 0..n
    BY <1>3
  <2>2. QED
    BY <1>5, <1>6, <2>1, Zenon
<1>9. IsRests(b, u, q)
  BY <1>2, <1>5, <1>7, <1>8, Zenon DEF IsRests
<1>10. restAll(b, u) = q[n + 1]
  <2>1. Len(u) \in Nat
    BY <1>2, <1>3
  <2>2. QED
    BY <1>2, <1>9, <2>1, RestsUnfold, Zenon
<1>11. restAll(b, os) = p[n]
  BY <1>1, <1>3, RestsUnfold
<1>12. QED
  BY <1>2, <1>3, <1>5, <1>10, <1>11, Zenon DEF restStep

\* Nothing to do.
LEMMA RestsEmpty ==
  ASSUME NEW b PROVE restAll(b, << >>) = b
<1>1. Len(<< >>) = 0 /\ 0 \in Nat
  OBVIOUS
<1>2. PICK p : IsRests(b, << >>, p)
  BY <1>1, RestsExists
<1>3. p[0] = b
  BY <1>2 DEF IsRests
<1>4. restAll(b, << >>) = p[Len(<< >>)]
  BY <1>1, <1>2, RestsUnfold
<1>5. QED
  BY <1>1, <1>3, <1>4

-----------------------------------------------------------------------------
(* match, as a function. *)

\* The first m turns of match.
IsRun(w, m, p) ==
  /\ p = [n \in 0..m |-> p[n]] /\ p[0] = w
  /\ \A k \in 1..m : p[k] = turn(p[k - 1])

\* There are such values.
LEMMA RunExists ==
  ASSUME NEW w, NEW m \in Nat PROVE \E p : IsRun(w, m, p)
<1> DEFINE G(n, p) == /\ p = [k \in 0..n |-> p[k]] /\ p[0] = w
                      /\ \A k \in 1..n : p[k] = turn(p[k - 1])
           S == {n \in 0..m : \E p : G(n, p)}
<1>1. 0 \in S
  <2>1. G(0, [k \in 0..0 |-> w])
    OBVIOUS
  <2> HIDE DEF G
  <2>2. QED
    BY <2>1
<1>2. ASSUME NEW n \in 1..m, n - 1 \in S PROVE n \in S
  <2>1. PICK p : G(n - 1, p)
    BY <1>2
  <2>2. p[0] = w /\ \A k \in 1..(n - 1) : p[k] = turn(p[k - 1])
    BY <2>1, Zenon
  <2> DEFINE y == turn(p[n - 1])
             q == [j \in 0..n |-> IF j = n THEN y ELSE p[j]]
  <2>3. n \in Nat \ {0} /\ n - 1 \in 0..(n - 1) /\ 0 \in 0..(n - 1)
    OBVIOUS
  <2>10. y = turn(p[n - 1])
    OBVIOUS
  <2> HIDE DEF y
  <2>4. q = [j \in 0..n |-> q[j]] /\ q[n] = y /\ \A j \in 0..(n - 1) : q[j] = p[j]
    BY <2>3
  <2> HIDE DEF q
  <2>6. q[0] = w
    BY <2>2, <2>3, <2>4, Zenon
  <2>7. ASSUME NEW j \in 1..n PROVE q[j] = turn(q[j - 1])
    <3>1. CASE j = n
      BY <2>3, <2>4, <2>10, <3>1, Zenon
    <3>2. CASE j # n
      <4>1. j \in 1..(n - 1) /\ j \in 0..(n - 1) /\ j - 1 \in 0..(n - 1)
        BY <2>3, <3>2
      <4>2. QED
        BY <2>2, <2>4, <4>1, Zenon
    <3>3. QED
      BY <3>1, <3>2
  <2>8. G(n, q)
    BY <2>4, <2>6, <2>7
  <2> HIDE DEF G
  <2>9. QED
    BY <2>8
<1>3. m \in S
  <2> HIDE DEF S
  <2>1. \A n \in 1..m : n - 1 \in S => n \in S
    BY <1>2
  <2>2. \A n \in 0..m : n \in S
    BY <1>1, <2>1, Stepwise
  <2>3. QED
    BY <2>2
<1>4. QED
  BY <1>3 DEF IsRun

\* match(w) is the last of them.
LEMMA RunUnfold ==
  ASSUME NEW w, NEW m \in Nat, m = Cardinality(DOMAIN w.book.orders), NEW p, IsRun(w, m, p)
  PROVE  match(w) = p[m]
<1> DEFINE fn(f) == [n \in 0..m |-> IF n = 0 THEN w ELSE turn(f[n - 1])]
           val == CHOOSE f : f = fn(f)
           S == {n \in 0..m : val[n] = p[n]}
<1>1. match(w) = val[m]
  BY DEF match, iterate
<1>2. p = fn(p)
  <2>1. p[0] = w /\ \A k \in 1..m : p[k] = turn(p[k - 1])
    BY DEF IsRun
  <2>3. \A n \in 0..m : n = 0 \/ n \in 1..m
    OBVIOUS
  <2>4. \A n \in 0..m : p[n] = IF n = 0 THEN w ELSE turn(p[n - 1])
    BY <2>1, <2>3
  <2>5. QED
    BY <2>4, Zenon DEF IsRun
<1>3. val = fn(val)
  BY <1>2, Zenon
<1> HIDE DEF val
<1>4. 0 \in S
  BY <1>3 DEF IsRun
<1>5. ASSUME NEW n \in 1..m, n - 1 \in S PROVE n \in S
  <2>1. n \in 0..m /\ n # 0
    OBVIOUS
  <2>2. val[n] = turn(val[n - 1])
    BY <1>3, <2>1
  <2>3. QED
    BY <1>5, <2>1, <2>2, Zenon DEF IsRun
<1>6. m \in S
  <2> HIDE DEF S
  <2>1. \A n \in 1..m : n - 1 \in S => n \in S
    BY <1>5
  <2>2. \A n \in 0..m : n \in S
    BY <1>4, <2>1, Stepwise
  <2>3. QED
    BY <2>2
<1>7. QED
  BY <1>1, <1>6

\* Nothing is left to match.
LEMMA MatchDone ==
  ASSUME NEW w, Cardinality(DOMAIN w.book.orders) \in Nat, ~crosses(w.book, w.taker)
  PROVE  match(w) = w /\ turn(w) = w
<1> DEFINE m == Cardinality(DOMAIN w.book.orders)
           p == [k \in 0..m |-> w]
<1>1. turn(w) = w
  BY DEF turn
<1>2. m \in Nat /\ m = Cardinality(DOMAIN w.book.orders)
  OBVIOUS
<1> HIDE DEF m
<1>3. IsRun(w, m, p)
  <2>1. p = [k \in 0..m |-> p[k]] /\ \A k \in 0..m : p[k] = w
    OBVIOUS
  <2>2. 0 \in 0..m /\ \A k \in 1..m : k \in 0..m /\ k - 1 \in 0..m
    BY <1>2
  <2> HIDE DEF p
  <2>3. QED
    BY <1>1, <2>1, <2>2 DEF IsRun
<1>4. p[m] = w
  BY <1>2
<1>5. QED
  BY <1>1, <1>2, <1>3, <1>4, RunUnfold, Zenon

-----------------------------------------------------------------------------
(* Well-formed books. *)

\* The types of a slice and of its levels.
LEMMA SliceFacts ==
  \A b : WellFormed(b) => \A bs \in BookSides :
    /\ b.levels[bs] \in Seq(Level)
    /\ Len(b.levels[bs]) \in Nat
    /\ SortedSlice(b.levels[bs], bs)
    /\ levelsOf(b, bs) = {b.levels[bs][j] : j \in 1..Len(b.levels[bs])}
    /\ \A j \in 1..Len(b.levels[bs]) :
         /\ b.levels[bs][j] \in Level
         /\ b.levels[bs][j].price \in Nat \ {0}
         /\ b.levels[bs][j].fifo \in Seq(Nat \ {0})
    /\ \A i, j \in 1..Len(b.levels[bs]) :
         i # j => b.levels[bs][i].price # b.levels[bs][j].price
\* Different levels of a sorted slice have different prices.
<1>SortedDistinct.
     ASSUME NEW lv, Len(lv) \in Nat, \A j \in 1..Len(lv) : lv[j].price \in Int,
            NEW bs, SortedSlice(lv, bs), NEW i \in 1..Len(lv), NEW j \in 1..Len(lv), i # j
     PROVE  lv[i].price # lv[j].price
  BY <1>SortedDistinct DEF SortedSlice, Before
<1> TAKE b
<1> HAVE WellFormed(b)
<1> TAKE bs \in BookSides
<1> DEFINE lv == b.levels[bs]
<1>1. lv \in Seq(Level) /\ SortedSlice(lv, bs)
  BY DEF WellFormed, IsBook, SlicesSorted
<1>2. levelsOf(b, bs) = {lv[j] : j \in 1..Len(lv)}
  BY <1>1, RangeSeq DEF levelsOf
<1> HIDE DEF lv
<1>3. Len(lv) \in Nat /\ \A j \in 1..Len(lv) : lv[j] \in Level
  BY <1>1
<1>4. \A j \in 1..Len(lv) : lv[j].price \in Nat \ {0} /\ lv[j].fifo \in Seq(Nat \ {0})
  BY <1>3 DEF Level
<1>7. \A j \in 1..Len(lv) : lv[j].price \in Int
  BY <1>4
<1>5. ASSUME NEW i \in 1..Len(lv), NEW j \in 1..Len(lv), i # j
      PROVE  lv[i].price # lv[j].price
  BY <1>1, <1>3, <1>5, <1>7, <1>SortedDistinct
<1>6. QED
  BY <1>1, <1>2, <1>3, <1>4, <1>5 DEF lv

\* Where a resting order is: its level pointer and its place in the queue.
LEMMA OrderPosition ==
  \A b : WellFormed(b) => \A id \in DOMAIN b.orders : \A bs :
  bs = BookSide(b.orders[id].side) =>
    /\ bs \in BookSides
    /\ IsOrder(b.orders[id])
    /\ levelOf(b, b.orders[id]) \in 1..Len(b.levels[bs])
    /\ b.levels[bs][levelOf(b, b.orders[id])].price = b.orders[id].price
    /\ id \in Range(b.levels[bs][levelOf(b, b.orders[id])].fifo)
\* The level of a price that is in a sorted slice is found at its index.
<1>LevelIndexOfLevel.
     ASSUME NEW lv, Len(lv) \in Nat, \A j \in 1..Len(lv) : lv[j].price \in Int,
            NEW bs, SortedSlice(lv, bs), NEW i \in 1..Len(lv)
     PROVE  levelIndex(lv, lv[i].price, bs) = i
  <2> USE <1>LevelIndexOfLevel
  <2>1. inPlace(lv, lv[i].price, bs, i)
    BY DEF inPlace, SortedSlice, Before
  <2>2. QED
    BY <2>1, LevelIndexUnique
<1> TAKE b
<1> HAVE WellFormed(b)
<1> TAKE id \in DOMAIN b.orders
<1> TAKE bs
<1> HAVE bs = BookSide(b.orders[id].side)
<1> DEFINE lv == b.levels[bs]
<1>1. bs \in BookSides
  BY DEF BookSide, BookSides
<1>2. IsOrder(b.orders[id])
  BY DEF WellFormed, IsBook, IsOrderMap
<1>3. PICK i \in 1..Len(lv) : id \in Range(lv[i].fifo)
  BY <1>1, SliceFacts, SMTT(60) DEF WellFormed, OrdersAreQueued
<1>4. lv[i].price = b.orders[id].price
  <2>1. lv[i] \in levelsOf(b, bs)
    BY <1>1, SliceFacts
  <2>2. QED
    BY <1>1, <1>3, <2>1 DEF WellFormed, QueuesHoldOrders
<1>5. levelOf(b, b.orders[id]) = i
  <2>1. /\ Len(lv) \in Nat /\ SortedSlice(lv, bs)
        /\ \A j \in 1..Len(lv) : lv[j].price \in Int
    BY <1>1, SliceFacts, SMTT(60)
  <2> HIDE DEF lv
  <2>2. levelIndex(lv, lv[i].price, bs) = i
    BY <2>1, <1>LevelIndexOfLevel
  <2>3. QED
    BY <2>2, <1>4 DEF levelOf, lv
<1>6. QED
  BY <1>1, <1>2, <1>3, <1>4, <1>5

\* Putting a new slice and a new map into a book.
LEMMA NewSlice ==
  ASSUME NEW b, IsBook(b), SlicesSorted(b), NEW bs \in BookSides,
         NEW nlv \in Seq(Level), SortedSlice(nlv, bs),
         NEW norders, IsOrderMap(norders),
         NEW r, r = putSlice(b, bs, nlv, norders)
  PROVE  /\ IsBook(r)
         /\ SlicesSorted(r)
         /\ levelsOf(r, bs) = Range(nlv)
         /\ \A c \in BookSides : c # bs => levelsOf(r, c) = levelsOf(b, c)
         /\ r.orders = norders
         /\ r.nextOrderId = b.nextOrderId
<1>1. r = [levels |-> [b.levels EXCEPT ![bs] = nlv], orders |-> norders,
           nextOrderId |-> b.nextOrderId]
  BY Zenon DEF IsBook, putSlice
<1>2. /\ r.levels = [b.levels EXCEPT ![bs] = nlv]
      /\ r.orders = norders
      /\ r.nextOrderId = b.nextOrderId
      /\ r = [levels |-> r.levels, orders |-> r.orders, nextOrderId |-> r.nextOrderId]
  BY <1>1
<1>3. /\ r.levels \in [BookSides -> Seq(Level)]
      /\ r.levels[bs] = nlv
      /\ \A c \in BookSides : c # bs => r.levels[c] = b.levels[c]
  BY <1>2 DEF IsBook
<1>4. IsBook(r)
  BY <1>2, <1>3 DEF IsBook
<1>5. SlicesSorted(r)
  BY <1>3 DEF SlicesSorted
<1>6. QED
  BY <1>2, <1>3, <1>4, <1>5 DEF levelsOf

\* In a slice of the book, e takes the place of the i-th level.
Exchanged(b, bs, i, e) ==
  Range(replaceAt(b.levels[bs], i, e)) = (levelsOf(b, bs) \ {b.levels[bs][i]}) \cup {e}

\* Replacing one level of a slice by one of the same price.
LEMMA SliceReplace ==
  \A b : WellFormed(b) => \A bs \in BookSides :
  \A i \in 1..Len(b.levels[bs]), e \in Level :
  e.price = b.levels[bs][i].price =>
    /\ replaceAt(b.levels[bs], i, e) \in Seq(Level)
    /\ SortedSlice(replaceAt(b.levels[bs], i, e), bs)
    /\ Exchanged(b, bs, i, e)
\* Changing a level but not its price keeps a slice sorted.
<1>ReplaceSorted.
     ASSUME NEW S, NEW lv \in Seq(S), NEW bs, SortedSlice(lv, bs), NEW i \in 1..Len(lv),
            NEW e \in S, e.price = lv[i].price
     PROVE  SortedSlice(replaceAt(lv, i, e), bs)
  BY <1>ReplaceSorted DEF SortedSlice, replaceAt
\* Replacing an element that occurs once replaces it in the elements.
<1>RangeReplace.
     ASSUME NEW S, NEW s \in Seq(S), NEW i \in 1..Len(s), NEW e \in S,
            \A j \in 1..Len(s) : j # i => s[j] # s[i]
     PROVE  /\ replaceAt(s, i, e) \in Seq(S)
            /\ Range(replaceAt(s, i, e)) = (Range(s) \ {s[i]}) \cup {e}
  <2> USE <1>RangeReplace
  <2> DEFINE r == replaceAt(s, i, e)
  <2>1. /\ r \in Seq(S) /\ Len(r) = Len(s)
        /\ \A j \in 1..Len(s) : r[j] = IF j = i THEN e ELSE s[j]
    BY ExceptSeq DEF replaceAt
  <2>2. Range(r) = {r[j] : j \in 1..Len(r)} /\ Range(s) = {s[j] : j \in 1..Len(s)}
    BY <2>1, RangeSeq
  <2> HIDE DEF r
  <2>3. Range(r) = (Range(s) \ {s[i]}) \cup {e}
    BY <2>1, <2>2
  <2>4. QED
    BY <2>1, <2>3 DEF r
<1> TAKE b
<1> HAVE WellFormed(b)
<1> TAKE bs \in BookSides
<1> TAKE i \in 1..Len(b.levels[bs]), e \in Level
<1> HAVE e.price = b.levels[bs][i].price
<1> DEFINE lv == b.levels[bs]
<1>1. /\ lv \in Seq(Level) /\ SortedSlice(lv, bs)
      /\ \A j \in 1..Len(lv) : j # i => lv[j] # lv[i]
  BY SliceFacts
<1> HIDE DEF lv
<1>2. i \in 1..Len(lv) /\ e.price = lv[i].price
  BY DEF lv
<1>3. SortedSlice(replaceAt(lv, i, e), bs)
  BY <1>1, <1>2, <1>ReplaceSorted
<1>4. /\ replaceAt(lv, i, e) \in Seq(Level)
      /\ Range(replaceAt(lv, i, e)) = (Range(lv) \ {lv[i]}) \cup {e}
  BY <1>1, <1>2, <1>RangeReplace
<1>5. QED
  BY <1>3, <1>4 DEF lv, levelsOf, Exchanged

-----------------------------------------------------------------------------
\* Every level of r is one of b without id in its queue, or one of b with id
\* taken out of its queue.
Dequeued(b, r, id) ==
  \A c \in BookSides : \A l \in levelsOf(r, c) :
    \/ l \in levelsOf(b, c) /\ id \notin Range(l.fifo)
    \/ \E m \in levelsOf(b, c) : \E k \in 1..Len(m.fifo) :
         m.fifo[k] = id /\ l.fifo = removeAt(m.fifo, k) /\ l.totalQty = m.totalQty

\* unlink takes out the one order, and its level with the last order of it.
LEMMA UnlinkWellFormed ==
  \A b : WellFormed(b) => \A id \in DOMAIN b.orders :
    /\ WellFormed(unlink(b, id))
    /\ unlink(b, id).orders = [x \in DOMAIN b.orders \ {id} |-> b.orders[x]]
    /\ unlink(b, id).nextOrderId = b.nextOrderId
    /\ Dequeued(b, unlink(b, id), id)
\* Removing a level keeps a slice sorted.
<1>RemoveSorted.
     ASSUME NEW S, NEW lv \in Seq(S), NEW bs, SortedSlice(lv, bs), NEW i \in 1..Len(lv)
     PROVE  SortedSlice(removeAt(lv, i), bs)
  <2> USE <1>RemoveSorted
  <2> DEFINE r == removeAt(lv, i)
             at(j) == IF j < i THEN j ELSE j + 1
  <2>1. Len(r) = Len(lv) - 1 /\ \A j \in 1..(Len(lv) - 1) : r[j] = lv[at(j)]
    BY RemoveAtProps
  <2> SUFFICES ASSUME NEW m \in 1..Len(r), NEW n \in 1..Len(r), m < n
               PROVE  Before(bs, r[m].price, r[n].price)
    BY DEF SortedSlice
  <2> HIDE DEF r
  <2>2. at(m) \in 1..Len(lv) /\ at(n) \in 1..Len(lv) /\ at(m) < at(n)
    BY <2>1
  <2>3. QED
    BY <2>1, <2>2 DEF SortedSlice
\* Removing one level of a slice.
<1>SliceRemove.
     ASSUME NEW b, WellFormed(b), NEW bs \in BookSides, NEW i \in 1..Len(b.levels[bs])
     PROVE  /\ removeAt(b.levels[bs], i) \in Seq(Level)
            /\ SortedSlice(removeAt(b.levels[bs], i), bs)
            /\ Range(removeAt(b.levels[bs], i)) = levelsOf(b, bs) \ {b.levels[bs][i]}
  <2> USE <1>SliceRemove
  <2> DEFINE lv == b.levels[bs]
  <2>1. /\ lv \in Seq(Level) /\ SortedSlice(lv, bs)
        /\ \A j \in 1..Len(lv) : j # i => lv[j] # lv[i]
    BY SliceFacts, Zenon
  <2> HIDE DEF lv
  <2>2. i \in 1..Len(lv)
    BY DEF lv
  <2>3. SortedSlice(removeAt(lv, i), bs)
    BY <2>1, <2>2, <1>RemoveSorted
  <2>4. /\ removeAt(lv, i) \in Seq(Level)
        /\ Range(removeAt(lv, i)) = Range(lv) \ {lv[i]}
    BY <2>1, <2>2, RangeRemove, RemoveAtProps, Zenon
  <2>5. QED
    BY <2>3, <2>4 DEF lv, levelsOf
\* A queue of ascending ids stays one when an id is taken out.
<1>AscendingRemove.
     ASSUME NEW f \in Seq(Nat \ {0}), Ascending(f), NEW k \in 1..Len(f)
     PROVE  Ascending(removeAt(f, k))
  <2> USE <1>AscendingRemove
  <2> DEFINE g == removeAt(f, k)
             at(j) == IF j < k THEN j ELSE j + 1
  <2>1. Len(g) = Len(f) - 1 /\ \A j \in 1..(Len(f) - 1) : g[j] = f[at(j)]
    BY RemoveAtProps, Zenon
  <2> SUFFICES ASSUME NEW m \in 1..Len(g), NEW n \in 1..Len(g), m < n
               PROVE  g[m] < g[n]
    BY DEF Ascending
  <2> HIDE DEF g
  <2>5. Len(f) \in Nat
    OBVIOUS
  <2>6. m \in 1..(Len(f) - 1) /\ n \in 1..(Len(f) - 1)
    BY <2>1
  <2>2. at(m) \in 1..Len(f) /\ at(n) \in 1..Len(f) /\ at(m) < at(n)
    BY <2>5, <2>6
  <2>3. g[m] = f[at(m)] /\ g[n] = f[at(n)]
    BY <2>1
  <2> HIDE DEF at
  <2>4. QED
    BY <2>2, <2>3 DEF Ascending
\* Taking an id out of a queue of ascending ids.
<1>QueueRemove.
     ASSUME NEW f \in Seq(Nat \ {0}), Ascending(f), NEW id \in Range(f),
            NEW k, k = CHOOSE n \in DOMAIN f : f[n] = id
     PROVE  /\ removeAt(f, k) \in Seq(Nat \ {0})
            /\ Ascending(removeAt(f, k))
            /\ Range(removeAt(f, k)) = Range(f) \ {id}
  <2> USE <1>QueueRemove
  <2>1. k \in 1..Len(f) /\ f[k] = id
    BY DEF Range
  <2>2. \A j \in 1..Len(f) : f[j] \in Nat
    OBVIOUS
  <2>3. \A j \in 1..Len(f) : j # k => f[j] # f[k]
    BY <2>1, <2>2 DEF Ascending
  <2>4. Range(removeAt(f, k)) = Range(f) \ {id}
    BY <2>1, <2>3, RangeRemove, Zenon
  <2>5. Ascending(removeAt(f, k))
    BY <2>1, <1>AscendingRemove
  <2>6. QED
    BY <2>1, <2>4, <2>5, RemoveAtProps
<1> TAKE b
<1> HAVE WellFormed(b)
<1> TAKE id \in DOMAIN b.orders
<1> DEFINE o  == b.orders[id]
           bs == BookSide(o.side)
           lv == b.levels[bs]
           i  == levelOf(b, o)
           f  == lv[i].fifo
           k  == CHOOSE n \in DOMAIN f : f[n] = id
           g  == removeAt(f, k)
           e  == [lv[i] EXCEPT !.fifo = g]
           nlv == IF g = << >> THEN removeAt(lv, i) ELSE replaceAt(lv, i, e)
           nord == [x \in DOMAIN b.orders \ {id} |-> b.orders[x]]
           r  == unlink(b, id)
           N  == IF g = << >> THEN {} ELSE {e}
<1>1. /\ bs \in BookSides /\ IsOrder(o) /\ i \in 1..Len(lv)
      /\ lv[i].price = o.price /\ id \in Range(f)
  BY OrderPosition
<1>3. r = putSlice(b, bs, nlv, nord)
  BY DEF unlink
<1> HIDE DEF o, bs, i, nlv, nord, r
<1>2. /\ lv[i] \in Level /\ f \in Seq(Nat \ {0}) /\ lv[i] \in levelsOf(b, bs)
      /\ \A j \in 1..Len(lv) : j # i => lv[j].price # lv[i].price
      /\ levelsOf(b, bs) = {lv[j] : j \in 1..Len(lv)}
  BY <1>1, SliceFacts
<1>4. Ascending(f)
  BY <1>1, <1>2 DEF WellFormed, QueuesAscend
<1> HIDE DEF f
<1>5. g \in Seq(Nat \ {0}) /\ Ascending(g) /\ Range(g) = Range(f) \ {id}
  BY <1>1, <1>2, <1>4, <1>QueueRemove
<1>16. k \in 1..Len(f) /\ f[k] = id /\ g = removeAt(f, k)
  <2>1. Range(f) = {f[n] : n \in 1..Len(f)} /\ DOMAIN f = 1..Len(f)
    BY <1>2, RangeSeq
  <2>2. \E n \in DOMAIN f : f[n] = id
    BY <1>1, <2>1
  <2>3. k \in DOMAIN f /\ f[k] = id
    BY <2>2, Zenon
  <2>4. QED
    BY <2>1, <2>3
<1> HIDE DEF g, k
<1>6. e \in Level /\ e.price = lv[i].price /\ e.fifo = g /\ e.totalQty = lv[i].totalQty
  BY <1>2, <1>5, Zenon DEF Level
<1> HIDE DEF e
<1>7. /\ nlv \in Seq(Level) /\ SortedSlice(nlv, bs)
      /\ Range(nlv) = (levelsOf(b, bs) \ {lv[i]}) \cup N
  <2>1. CASE g = << >>
    <3>1. nlv = removeAt(b.levels[bs], i) /\ N = {}
      BY <2>1 DEF nlv
    <3>2. /\ removeAt(b.levels[bs], i) \in Seq(Level)
          /\ SortedSlice(removeAt(b.levels[bs], i), bs)
          /\ Range(removeAt(b.levels[bs], i)) = levelsOf(b, bs) \ {b.levels[bs][i]}
      BY <1>1, <1>SliceRemove
    <3>3. QED
      BY <3>1, <3>2
  <2>2. CASE g # << >>
    BY <1>1, <1>6, <2>2, SliceReplace DEF nlv, Exchanged
  <2>3. QED
    BY <2>1, <2>2
<1>8. DOMAIN nord = DOMAIN b.orders \ {id} /\ \A x \in DOMAIN nord : nord[x] = b.orders[x]
  BY DEF nord
<1>9. IsOrderMap(nord)
  BY DEF WellFormed, IsBook, IsOrderMap, nord
<1>10. /\ IsBook(r) /\ SlicesSorted(r)
       /\ levelsOf(r, bs) = (levelsOf(b, bs) \ {lv[i]}) \cup N
       /\ \A c \in BookSides : c # bs => levelsOf(r, c) = levelsOf(b, c)
       /\ r.orders = nord /\ r.nextOrderId = b.nextOrderId
  <2>1. IsBook(b) /\ SlicesSorted(b) /\ bs \in BookSides
    BY <1>1 DEF WellFormed
  <2>4. nlv \in Seq(Level) /\ SortedSlice(nlv, bs)
    BY <1>7
  <2> HIDE DEF lv, N
  <2>2. /\ IsBook(r) /\ SlicesSorted(r) /\ levelsOf(r, bs) = Range(nlv)
        /\ \A c \in BookSides : c # bs => levelsOf(r, c) = levelsOf(b, c)
        /\ r.orders = nord /\ r.nextOrderId = b.nextOrderId
    BY <1>3, <2>4, <1>9, <2>1, NewSlice
  <2>3. QED
    BY <1>7, <2>2
<1> HIDE DEF lv
<1>11. g # << >> <=> Range(g) # {}
  BY <1>5, RangeEmpty
<1>12. QueuesHoldOrders(r)
  <2> SUFFICES ASSUME NEW c \in BookSides, NEW l \in levelsOf(r, c)
               PROVE  /\ l.fifo # << >>
                      /\ \A y \in Range(l.fifo) : /\ y \in DOMAIN r.orders
                                                 /\ BookSide(r.orders[y].side) = c
                                                 /\ r.orders[y].price = l.price
    BY DEF QueuesHoldOrders
  <2>1. CASE c # bs
    <3>1. l \in levelsOf(b, c)
      BY <1>10, <2>1
    <3>2. id \notin Range(l.fifo)
      BY <2>1, <3>1 DEF WellFormed, QueuesHoldOrders, bs, o
    <3>3. QED
      BY <1>8, <1>10, <3>1, <3>2 DEF WellFormed, QueuesHoldOrders
  <2>2. CASE c = bs /\ l # e
    <3>1. l \in levelsOf(b, c) /\ l # lv[i]
      BY <1>10, <2>2
    <3>2. l.price # lv[i].price
      BY <1>2, <2>2, <3>1
    <3>3. id \notin Range(l.fifo)
      BY <1>1, <3>1, <3>2 DEF WellFormed, QueuesHoldOrders, o
    <3>4. QED
      BY <1>8, <1>10, <3>1, <3>3 DEF WellFormed, QueuesHoldOrders
  <2>3. CASE c = bs /\ l = e
    <3>1. \A y \in Range(f) : /\ y \in DOMAIN b.orders
                              /\ BookSide(b.orders[y].side) = bs
                              /\ b.orders[y].price = lv[i].price
      BY <1>1, <1>2 DEF WellFormed, QueuesHoldOrders, f
    <3>2. g # << >>
      <4>1. CASE g = << >>
        <5>1. l \in levelsOf(b, bs) /\ l # lv[i]
          BY <1>10, <2>3, <4>1
        <5>2. l.price # lv[i].price
          BY <1>2, <5>1
        <5>3. QED
          BY <1>6, <2>3, <5>2
      <4>2. QED
        BY <4>1
    <3>3. QED
      BY <1>5, <1>6, <1>8, <1>10, <2>3, <3>1, <3>2
  <2>4. QED
    BY <2>1, <2>2, <2>3
<1>13. OrdersAreQueued(r)
  <2> SUFFICES ASSUME NEW y \in DOMAIN r.orders
               PROVE  /\ r.orders[y].id = y
                      /\ \E l \in levelsOf(r, BookSide(r.orders[y].side)) : y \in Range(l.fifo)
    BY DEF OrdersAreQueued
  <2>1. y \in DOMAIN b.orders /\ y # id /\ r.orders[y] = b.orders[y]
    BY <1>8, <1>10
  <2>2. PICK l \in levelsOf(b, BookSide(b.orders[y].side)) : y \in Range(l.fifo)
    BY <2>1 DEF WellFormed, OrdersAreQueued
  <2>3. r.orders[y].id = y
    BY <2>1 DEF WellFormed, OrdersAreQueued
  <2>4. BookSide(b.orders[y].side) \in BookSides
    BY DEF BookSide, BookSides
  <2>5. CASE BookSide(b.orders[y].side) # bs
    BY <1>10, <2>1, <2>2, <2>3, <2>4, <2>5
  <2>6. CASE BookSide(b.orders[y].side) = bs /\ l # lv[i]
    BY <1>10, <2>1, <2>2, <2>3, <2>6
  <2>7. CASE BookSide(b.orders[y].side) = bs /\ l = lv[i]
    <3>1. y \in Range(g)
      BY <1>5, <2>1, <2>2, <2>7 DEF f
    <3>2. e \in levelsOf(r, bs)
      BY <1>10, <1>11, <3>1
    <3>3. QED
      BY <1>6, <2>1, <2>3, <2>7, <3>1, <3>2
  <2>8. QED
    BY <2>5, <2>6, <2>7
<1>14. QueuesAscend(r)
  <2> SUFFICES ASSUME NEW c \in BookSides, NEW l \in levelsOf(r, c)
               PROVE  Ascending(l.fifo)
    BY DEF QueuesAscend
  <2>1. l \in levelsOf(b, c) \/ l = e
    BY <1>10
  <2>2. QED
    BY <1>5, <1>6, <2>1 DEF WellFormed, QueuesAscend
<1>17. Dequeued(b, r, id)
  <2> SUFFICES ASSUME NEW c \in BookSides, NEW l \in levelsOf(r, c)
               PROVE  \/ l \in levelsOf(b, c) /\ id \notin Range(l.fifo)
                      \/ \E m \in levelsOf(b, c) : \E n \in 1..Len(m.fifo) :
                           m.fifo[n] = id /\ l.fifo = removeAt(m.fifo, n) /\ l.totalQty = m.totalQty
    BY DEF Dequeued
  <2>1. CASE l \in levelsOf(b, c)
    <3>1. \A y \in Range(l.fifo) : y \in DOMAIN r.orders
      BY <1>12 DEF QueuesHoldOrders
    <3>2. QED
      BY <1>8, <1>10, <2>1, <3>1
  <2>2. CASE l \notin levelsOf(b, c)
    <3>1. c = bs /\ l = e
      BY <1>10, <2>2
    <3>2. lv[i].fifo = f
      BY DEF f
    <3>3. QED
      BY <1>2, <1>6, <1>16, <3>1, <3>2
  <2>3. QED
    BY <2>1, <2>2
<1>15. QED
  BY <1>10, <1>12, <1>13, <1>14, <1>17 DEF WellFormed, nord, r

\* A level with n added to its aggregate.
withTotal(l, n) == [l EXCEPT !.totalQty = Wrap(@ + n)]

\* Every level of r is one of b, but that of index i in slice bs, whose
\* aggregate has n added to it.
Adjusted(b, r, bs, i, n) ==
  \A c \in BookSides : \A l \in levelsOf(r, c) :
    \/ l \in levelsOf(b, c) /\ (c = bs => l.price # b.levels[bs][i].price)
    \/ /\ c = bs /\ l.fifo = b.levels[bs][i].fifo
       /\ l.totalQty = Wrap(b.levels[bs][i].totalQty + n)

\* An aggregate and remaining quantities may change: the structure is the same.
LEMMA QtyWellFormed ==
  \A b : WellFormed(b) => \A bs \in BookSides :
  \A i \in 1..Len(b.levels[bs]), n \in Int : \A nord :
  /\ IsOrderMap(nord)
  /\ DOMAIN nord = DOMAIN b.orders
  /\ \A x \in DOMAIN b.orders : /\ nord[x].id = b.orders[x].id
                                /\ nord[x].side = b.orders[x].side
                                /\ nord[x].price = b.orders[x].price
  => \A r : r = putSlice(b, bs, addToTotal(b.levels[bs], i, n), nord) =>
    /\ WellFormed(r) /\ r.orders = nord /\ r.nextOrderId = b.nextOrderId
    /\ Adjusted(b, r, bs, i, n)
\* Adding to the aggregate of a level changes nothing else of a slice.
<1>TotalSlice.
     ASSUME NEW b, WellFormed(b), NEW bs \in BookSides, NEW i \in 1..Len(b.levels[bs]),
            NEW n \in Int
     PROVE  /\ addToTotal(b.levels[bs], i, n) \in Seq(Level)
            /\ SortedSlice(addToTotal(b.levels[bs], i, n), bs)
            /\ b.levels[bs][i] \in levelsOf(b, bs)
            /\ withTotal(b.levels[bs][i], n).price = b.levels[bs][i].price
            /\ withTotal(b.levels[bs][i], n).fifo = b.levels[bs][i].fifo
            /\ Range(addToTotal(b.levels[bs], i, n))
                 = (levelsOf(b, bs) \ {b.levels[bs][i]}) \cup {withTotal(b.levels[bs][i], n)}
  <2> USE <1>TotalSlice
  <2> DEFINE lv == b.levels[bs]
             e  == withTotal(lv[i], n)
  <2>1. lv[i] \in Level /\ lv[i] \in levelsOf(b, bs)
    BY SliceFacts
  <2>2. Wrap(lv[i].totalQty + n) \in Int
    <3> HIDE DEF lv
    <3>1. lv[i].totalQty + n \in Int
      BY <2>1 DEF Level
    <3>2. QED
      BY <3>1, WrapInt
  <2>3. e \in Level /\ e.price = b.levels[bs][i].price /\ e.fifo = lv[i].fifo
        /\ e.totalQty = Wrap(lv[i].totalQty + n)
    BY <2>1, <2>2 DEF Level, withTotal
  <2>4. addToTotal(lv, i, n) = replaceAt(b.levels[bs], i, e)
    BY DEF addToTotal, withTotal
  <2> HIDE DEF e, lv
  <2>5. /\ replaceAt(b.levels[bs], i, e) \in Seq(Level)
        /\ SortedSlice(replaceAt(b.levels[bs], i, e), bs)
        /\ Range(replaceAt(b.levels[bs], i, e))
             = (levelsOf(b, bs) \ {b.levels[bs][i]}) \cup {e}
    BY <2>3, SliceReplace DEF Exchanged
  <2>6. QED
    BY <2>1, <2>3, <2>4, <2>5 DEF lv, e
<1> TAKE b
<1> HAVE WellFormed(b)
<1> TAKE bs \in BookSides
<1> TAKE i \in 1..Len(b.levels[bs]), n \in Int
<1> TAKE nord
<1> HAVE /\ IsOrderMap(nord)
         /\ DOMAIN nord = DOMAIN b.orders
         /\ \A x \in DOMAIN b.orders : /\ nord[x].id = b.orders[x].id
                                       /\ nord[x].side = b.orders[x].side
                                       /\ nord[x].price = b.orders[x].price
<1> TAKE r
<1> HAVE r = putSlice(b, bs, addToTotal(b.levels[bs], i, n), nord)
<1> DEFINE lv == b.levels[bs]
           nlv == addToTotal(lv, i, n)
           e  == withTotal(lv[i], n)
<1>1. nlv \in Seq(Level) /\ SortedSlice(nlv, bs) /\ lv[i] \in levelsOf(b, bs)
  BY <1>TotalSlice
<1>2. Range(nlv) = (levelsOf(b, bs) \ {lv[i]}) \cup {e}
  BY <1>TotalSlice
<1>3. e.price = lv[i].price /\ e.fifo = lv[i].fifo
  BY <1>TotalSlice, SMTT(60)
<1>15. e.totalQty = Wrap(lv[i].totalQty + n)
  <2>1. lv[i] \in Level
    BY SliceFacts
  <2> HIDE DEF lv
  <2>2. QED
    BY <2>1 DEF withTotal, Level
<1>16. \A j \in 1..Len(lv) : j # i => lv[j].price # lv[i].price
  BY SliceFacts
<1>17. levelsOf(b, bs) = {lv[j] : j \in 1..Len(lv)}
  BY SliceFacts
<1> HIDE DEF nlv, e
<1>5. /\ nlv \in Seq(Level) /\ SortedSlice(nlv, bs)
      /\ Range(nlv) = (levelsOf(b, bs) \ {lv[i]}) \cup {e}
  BY <1>1, <1>2
<1>6. DOMAIN nord = DOMAIN b.orders
  OBVIOUS
<1>7. IsBook(b) /\ SlicesSorted(b) /\ r = putSlice(b, bs, nlv, nord)
  BY DEF WellFormed, nlv
<1>8. /\ IsBook(r) /\ SlicesSorted(r) /\ levelsOf(r, bs) = Range(nlv)
      /\ \A c \in BookSides : c # bs => levelsOf(r, c) = levelsOf(b, c)
      /\ r.orders = nord /\ r.nextOrderId = b.nextOrderId
  <2> HIDE DEF lv
  <2>1. nlv \in Seq(Level) /\ SortedSlice(nlv, bs)
    BY <1>5
  <2>2. IsOrderMap(nord)
    BY <1>6
  <2>3. QED
    BY <1>7, <2>1, <2>2, NewSlice
<1> HIDE DEF lv
\* Every level of r is a level of b up to its aggregate, and the other way round.
<1>9. \A c \in BookSides : \A l \in levelsOf(r, c) :
        \E m \in levelsOf(b, c) : m.price = l.price /\ m.fifo = l.fifo
  BY <1>1, <1>3, <1>5, <1>8, SMTT(60)
<1>10. \A c \in BookSides : \A m \in levelsOf(b, c) :
         \E l \in levelsOf(r, c) : m.price = l.price /\ m.fifo = l.fifo
  BY <1>1, <1>3, <1>5, <1>8
<1>11. QueuesHoldOrders(r)
  <2> SUFFICES ASSUME NEW c \in BookSides, NEW l \in levelsOf(r, c)
               PROVE  /\ l.fifo # << >>
                      /\ \A y \in Range(l.fifo) : /\ y \in DOMAIN r.orders
                                                 /\ BookSide(r.orders[y].side) = c
                                                 /\ r.orders[y].price = l.price
    BY DEF QueuesHoldOrders
  <2>1. PICK m \in levelsOf(b, c) : m.price = l.price /\ m.fifo = l.fifo
    BY <1>9
  <2>2. QED
    BY <1>6, <1>8, <2>1, SMTT(60) DEF WellFormed, QueuesHoldOrders
<1>12. OrdersAreQueued(r)
  <2> SUFFICES ASSUME NEW y \in DOMAIN r.orders
               PROVE  /\ r.orders[y].id = y
                      /\ \E l \in levelsOf(r, BookSide(r.orders[y].side)) : y \in Range(l.fifo)
    BY DEF OrdersAreQueued
  <2>1. y \in DOMAIN b.orders /\ r.orders[y].side = b.orders[y].side
    BY <1>6, <1>8
  <2>2. PICK m \in levelsOf(b, BookSide(b.orders[y].side)) : y \in Range(m.fifo)
    BY <2>1 DEF WellFormed, OrdersAreQueued
  <2>3. BookSide(b.orders[y].side) \in BookSides
    BY DEF BookSide, BookSides
  <2>4. r.orders[y].id = y
    BY <1>8, <2>1 DEF WellFormed, OrdersAreQueued
  <2>5. QED
    BY <1>10, <2>1, <2>2, <2>3, <2>4, SMTT(60)
<1>13. QueuesAscend(r)
  BY <1>9 DEF WellFormed, QueuesAscend
<1>18. Adjusted(b, r, bs, i, n)
  <2> SUFFICES ASSUME NEW c \in BookSides, NEW l \in levelsOf(r, c)
               PROVE  \/ l \in levelsOf(b, c) /\ (c = bs => l.price # b.levels[bs][i].price)
                      \/ /\ c = bs /\ l.fifo = b.levels[bs][i].fifo
                         /\ l.totalQty = Wrap(b.levels[bs][i].totalQty + n)
    BY DEF Adjusted
  <2>1. CASE c # bs
    BY <1>8, <2>1
  <2>2. CASE c = bs /\ l = e
    BY <1>3, <1>15, <2>2 DEF lv
  <2>3. CASE c = bs /\ l # e
    <3>1. l \in levelsOf(b, bs) /\ l # lv[i]
      BY <1>5, <1>8, <2>3
    <3>2. l.price # lv[i].price
      BY <1>16, <1>17, <3>1
    <3>3. QED
      BY <2>3, <3>1, <3>2 DEF lv
  <2>4. QED
    BY <2>1, <2>2, <2>3
<1>14. QED
  BY <1>8, <1>11, <1>12, <1>13, <1>18 DEF WellFormed

=============================================================================
