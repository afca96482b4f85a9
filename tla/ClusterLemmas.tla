--------------------------- MODULE ClusterLemmas ---------------------------
(***************************************************************************)
(* The books of the nodes of module Cluster follow the log, for any nodes, *)
(* sessions and messages and any number of entries and crashes: the steps  *)
(* of the inductive invariant CInv.  Of the engine they need no more than  *)
(* EngineSound says, which module RecoveryProofs adds.  Then what a        *)
(* service knows of its sessions and offers to them, for EgressLemmas.     *)
(***************************************************************************)
EXTENDS Cluster, TLAPS, WellFoundedInduction

-----------------------------------------------------------------------------
(* Sequences. *)

\* One sequence after the other.
LEMMA ConcatFacts ==
  ASSUME NEW T, NEW s \in Seq(T), NEW t \in Seq(T)
  PROVE  /\ s \o t \in Seq(T) /\ Len(s \o t) = Len(s) + Len(t)
         /\ \A i \in 1..(Len(s) + Len(t)) : (s \o t)[i] = IF i <= Len(s) THEN s[i] ELSE t[i - Len(s)]
OBVIOUS

\* A part of a sequence.
LEMMA SubSeqFacts ==
  ASSUME NEW T, NEW s, NEW m \in Int, NEW n \in Int, \A i \in m..n : s[i] \in T
  PROVE  /\ SubSeq(s, m, n) \in Seq(T)
         /\ Len(SubSeq(s, m, n)) = IF m <= n THEN n - m + 1 ELSE 0
         /\ \A i \in 1..(n - m + 1) : SubSeq(s, m, n)[i] = s[m + i - 1]
OBVIOUS

\* One more element.
LEMMA AppendFacts ==
  ASSUME NEW T, NEW s \in Seq(T), NEW e \in T
  PROVE  /\ Append(s, e) \in Seq(T) /\ Len(Append(s, e)) = Len(s) + 1
         /\ \A i \in 1..Len(s) : Append(s, e)[i] = s[i]
         /\ Append(s, e)[Len(s) + 1] = e
OBVIOUS

\* Removing an element shifts the later ones down by one.
LEMMA RemoveAtFacts ==
  ASSUME NEW S, NEW s \in Seq(S), NEW i \in 1..Len(s)
  PROVE  /\ removeAt(s, i) \in Seq(S)
         /\ Len(removeAt(s, i)) = Len(s) - 1
         /\ \A j \in 1..(Len(s) - 1) :
              removeAt(s, i)[j] = IF j < i THEN s[j] ELSE s[j + 1]
<1> DEFINE a == SubSeq(s, 1, i - 1)
           c == SubSeq(s, i + 1, Len(s))
<1>1. /\ a \in Seq(S) /\ Len(a) = i - 1
      /\ \A j \in 1..(i - 1) : a[j] = s[j]
  BY SubSeqFacts
<1>2. /\ c \in Seq(S) /\ Len(c) = Len(s) - i
      /\ \A j \in 1..(Len(s) - i) : c[j] = s[i + j]
  BY SubSeqFacts
<1>3. removeAt(s, i) = a \o c
  BY DEF removeAt
<1> HIDE DEF a, c
<1>4. /\ a \o c \in Seq(S)
      /\ Len(a \o c) = Len(a) + Len(c)
      /\ \A j \in 1..(Len(a) + Len(c)) :
           (a \o c)[j] = IF j <= Len(a) THEN a[j] ELSE c[j - Len(a)]
  BY <1>1, <1>2, ConcatFacts, Zenon
<1>5. \A j \in 1..(Len(s) - 1) : (a \o c)[j] = IF j < i THEN s[j] ELSE s[j + 1]
  <2> TAKE j \in 1..(Len(s) - 1)
  <2>1. CASE j < i
    BY <1>1, <1>2, <1>4, <2>1
  <2>2. CASE ~(j < i)
    <3>1. j - Len(a) \in 1..(Len(s) - i) /\ i + (j - Len(a)) = j + 1
      BY <1>1, <2>2
    <3>2. c[j - Len(a)] = s[j + 1]
      BY <1>2, <3>1, Zenon
    <3>3. QED
      BY <1>1, <1>2, <1>4, <2>2, <3>2
  <2>3. QED
    BY <2>1, <2>2, Zenon
<1>6. QED
  BY <1>1, <1>2, <1>3, <1>4, <1>5

\* A nonempty set of naturals has a least element.
LEMMA Least ==
  ASSUME NEW T, T \subseteq Nat, T # {}
  PROVE  \E x \in T : \A y \in T : x <= y
<1> DEFINE R == {ss \in Nat \X Nat : ss[1] < ss[2]}
<1>1. IsWellFoundedOn(R, Nat)
  BY NatLessThanWellFounded, Zenon DEF OpToRel
<1>2. \E x \in T : \A y \in T : ~ (<<y, x>> \in R)
  <2> HIDE DEF R
  <2> QED BY <1>1, WFMin, Zenon
<1>3. PICK x \in T : \A y \in T : ~ (<<y, x>> \in R)
  BY <1>2
<1>4. \A y \in T : x <= y
  <2> TAKE y \in T
  <2>1. x \in Nat /\ y \in Nat
    OBVIOUS
  <2>2. ~ (y < x)
    BY <1>3, <2>1, Zenon
  <2>3. QED
    BY <2>1, <2>2
<1>5. QED
  BY <1>4

\* Induction up to a bound, over the members of a set.
LEMMA Upwards ==
  ASSUME NEW N \in Nat, NEW S, 0 \in S, \A n \in 1..N : n - 1 \in S => n \in S
  PROVE  \A n \in 0..N : n \in S
<1> DEFINE T == {n \in 0..N : n \notin S}
<1> SUFFICES ASSUME T # {} PROVE FALSE
  OBVIOUS
<1>1. T \subseteq Nat
  OBVIOUS
<1>2. PICK m \in T : \A y \in T : m <= y
  <2> HIDE DEF T
  <2>1. QED
    BY <1>1, Least, Zenon
<1>3. m \in 1..N
  BY <1>2
<1>4. m - 1 \in 0..N /\ ~(m <= m - 1)
  BY <1>3
<1>5. m - 1 \in S
  BY <1>2, <1>4
<1>6. QED
  BY <1>2, <1>3, <1>5

\* A sequence has as its elements what it holds at its indices.
LEMMA RangeIs ==
  ASSUME NEW S, NEW s \in Seq(S)
  PROVE  Range(s) = {s[j] : j \in 1..Len(s)} /\ Range(s) \subseteq S
  BY DEF Range

\* The empty sequence has no elements.
LEMMA RangeOfNil == Range(<< >>) = {}
  BY DEF Range

\* Appending an element adds it to the elements.
LEMMA RangeWith ==
  ASSUME NEW S, NEW s \in Seq(S), NEW e \in S
  PROVE  Range(Append(s, e)) = Range(s) \cup {e}
<1>1. /\ Append(s, e) \in Seq(S) /\ Len(Append(s, e)) = Len(s) + 1
      /\ \A j \in 1..Len(s) : Append(s, e)[j] = s[j]
      /\ Append(s, e)[Len(s) + 1] = e
  BY AppendFacts
<1>2. /\ Range(Append(s, e)) = {Append(s, e)[j] : j \in 1..(Len(s) + 1)}
      /\ Range(s) = {s[j] : j \in 1..Len(s)}
  BY <1>1, RangeIs, Zenon
<1>3. QED
  BY <1>1, <1>2

\* One turn of flatten(ss).
joinStep(ss, x, k) == x \o ss[k]

\* The values that it goes through.
IsJoin(ss, p) ==
  /\ p = [n \in 0..Len(ss) |-> p[n]] /\ p[0] = << >>
  /\ \A k \in 1..Len(ss) : p[k] = joinStep(ss, p[k - 1], k)

\* There are such values.
LEMMA JoinExists ==
  ASSUME NEW ss, Len(ss) \in Nat PROVE \E p : IsJoin(ss, p)
<1> DEFINE G(n, p) == /\ p = [k \in 0..n |-> p[k]] /\ p[0] = << >>
                      /\ \A k \in 1..n : p[k] = joinStep(ss, p[k - 1], k)
           S == {n \in 0..Len(ss) : \E p : G(n, p)}
<1>1. 0 \in S
  <2>1. G(0, [k \in 0..0 |-> << >>])
    OBVIOUS
  <2> HIDE DEF G
  <2>2. QED
    BY <2>1
<1>2. ASSUME NEW n \in 1..Len(ss), n - 1 \in S PROVE n \in S
  <2>1. PICK p : G(n - 1, p)
    BY <1>2
  <2>2. p[0] = << >> /\ \A k \in 1..(n - 1) : p[k] = joinStep(ss, p[k - 1], k)
    BY <2>1
  <2> DEFINE y == joinStep(ss, p[n - 1], n)
             q == [j \in 0..n |-> IF j = n THEN y ELSE p[j]]
  <2>3. n \in Nat \ {0} /\ n - 1 \in 0..(n - 1) /\ 0 \in 0..(n - 1)
    OBVIOUS
  <2>10. y = joinStep(ss, p[n - 1], n)
    OBVIOUS
  <2> HIDE DEF y
  <2>4. q = [j \in 0..n |-> q[j]] /\ q[n] = y /\ \A j \in 0..(n - 1) : q[j] = p[j]
    BY <2>3
  <2> HIDE DEF q
  <2>6. q[0] = << >>
    BY <2>2, <2>3, <2>4, Zenon
  <2>7. ASSUME NEW j \in 1..n PROVE q[j] = joinStep(ss, q[j - 1], j)
    <3>1. CASE j = n
      BY <2>3, <2>4, <2>10, <3>1
    <3>2. CASE j # n
      <4>1. j \in 1..(n - 1) /\ j \in 0..(n - 1) /\ j - 1 \in 0..(n - 1)
        BY <2>3, <3>2
      <4>2. QED
        BY <2>2, <2>4, <4>1, Zenon
    <3>3. QED
      BY <3>1, <3>2
  <2>8. G(n, q)
    BY <2>4, <2>6, <2>7, Zenon
  <2> HIDE DEF G
  <2>9. QED
    BY <2>8
<1>3. Len(ss) \in S
  <2> HIDE DEF S
  <2>1. \A n \in 1..Len(ss) : n - 1 \in S => n \in S
    BY <1>2
  <2>2. \A n \in 0..Len(ss) : n \in S
    BY <1>1, <2>1, Upwards, Zenon
  <2>3. QED
    BY <2>2
<1>4. QED
  BY <1>3 DEF IsJoin

\* flatten(ss) is the last of them.
LEMMA JoinUnfold ==
  ASSUME NEW ss, Len(ss) \in Nat, NEW p, IsJoin(ss, p)
  PROVE  flatten(ss) = p[Len(ss)]
<1> DEFINE fn(f) == [n \in 0..Len(ss) |-> IF n = 0 THEN << >> ELSE joinStep(ss, f[n - 1], n)]
           val == CHOOSE f : f = fn(f)
           S == {n \in 0..Len(ss) : val[n] = p[n]}
<1>1. flatten(ss) = val[Len(ss)]
  BY DEF flatten, joinStep
<1>2. p = fn(p)
  <2>1. p[0] = << >> /\ \A k \in 1..Len(ss) : p[k] = joinStep(ss, p[k - 1], k)
    BY Zenon DEF IsJoin
  <2>2. \A n \in 0..Len(ss) : n = 0 \/ n \in 1..Len(ss)
    OBVIOUS
  <2>3. \A n \in 0..Len(ss) : p[n] = IF n = 0 THEN << >> ELSE joinStep(ss, p[n - 1], n)
    BY <2>1, <2>2
  <2>4. QED
    BY <2>3, Zenon DEF IsJoin
<1>3. val = fn(val)
  BY <1>2, Zenon
<1> HIDE DEF val
<1>4. 0 \in S
  BY <1>3 DEF IsJoin
<1>5. ASSUME NEW n \in 1..Len(ss), n - 1 \in S PROVE n \in S
  <2>1. n \in 0..Len(ss) /\ n # 0
    OBVIOUS
  <2>2. val[n] = joinStep(ss, val[n - 1], n)
    BY <1>3, <2>1
  <2>3. QED
    BY <1>5, <2>1, <2>2, Zenon DEF IsJoin
<1>6. Len(ss) \in S
  <2> HIDE DEF S
  <2>1. \A n \in 1..Len(ss) : n - 1 \in S => n \in S
    BY <1>5
  <2>2. \A n \in 0..Len(ss) : n \in S
    BY <1>4, <2>1, Upwards, Zenon
  <2>3. QED
    BY <2>2
<1>7. QED
  BY <1>1, <1>6

\* One more element is one more turn.
LEMMA JoinNext ==
  ASSUME NEW ss, Len(ss) \in Nat, NEW T, ss \in Seq(T), NEW e, NEW u, u = Append(ss, e)
  PROVE  flatten(u) = flatten(ss) \o e
<1> DEFINE n == Len(ss)
<1>1. PICK p : IsJoin(ss, p)
  BY JoinExists
<1>2. Len(u) = n + 1 /\ u[n + 1] = e /\ \A k \in 1..n : u[k] = ss[k]
  <2>1. u \in Seq(T \cup {e}) /\ ss \in Seq(T \cup {e})
    OBVIOUS
  <2>2. QED
    BY <2>1
<1> DEFINE y == joinStep(u, p[n], n + 1)
           q == [j \in 0..(n + 1) |-> IF j = n + 1 THEN y ELSE p[j]]
<1>3. n \in Nat /\ y = joinStep(u, p[n], n + 1) /\ n = Len(ss)
  OBVIOUS
<1> HIDE DEF y, n
<1>4. \A j \in 0..n : j # n + 1 /\ j \in 0..(n + 1)
  BY <1>3
<1>5. q = [j \in 0..(n + 1) |-> q[j]] /\ q[n + 1] = y /\ \A j \in 0..n : q[j] = p[j]
  BY <1>3, <1>4
<1> HIDE DEF q
<1>6. p[0] = << >> /\ \A k \in 1..n : p[k] = joinStep(ss, p[k - 1], k)
  BY <1>1, <1>3, Zenon DEF IsJoin
<1>7. ASSUME NEW k \in 1..(n + 1) PROVE q[k] = joinStep(u, q[k - 1], k)
  <2>1. CASE k = n + 1
    <3>1. k - 1 = n /\ n \in 0..n
      BY <1>3, <2>1
    <3>2. q[k] = y /\ q[k - 1] = p[n]
      BY <1>5, <2>1, <3>1, Zenon
    <3>3. QED
      BY <1>3, <2>1, <3>2
  <2>2. CASE k # n + 1
    <3>1. k \in 1..n /\ k \in 0..n /\ k - 1 \in 0..n
      BY <1>3, <2>2
    <3>2. q[k] = joinStep(ss, q[k - 1], k)
      BY <1>5, <1>6, <3>1, Zenon
    <3>3. QED
      BY <1>2, <3>1, <3>2, Zenon DEF joinStep
  <2>3. QED
    BY <2>1, <2>2
<1>8. q[0] = << >>
  <2>1. 0 \in 0..n
    BY <1>3
  <2>2. QED
    BY <1>5, <1>6, <2>1
<1>9. IsJoin(u, q)
  BY <1>2, <1>5, <1>7, <1>8, Zenon DEF IsJoin
<1>10. flatten(u) = q[n + 1]
  <2>1. Len(u) \in Nat
    BY <1>2, <1>3
  <2>2. QED
    BY <1>2, <1>9, <2>1, JoinUnfold, Zenon
<1>11. flatten(ss) = p[n]
  BY <1>1, <1>3, JoinUnfold
<1>12. QED
  BY <1>2, <1>3, <1>5, <1>10, <1>11, Zenon DEF joinStep

\* The empty sequence is one.
LEMMA NilIsSeq == IsSeq(<< >>)
<1>1. << >> \in Seq({})
  OBVIOUS
<1> QED
  BY <1>1 DEF IsSeq

-----------------------------------------------------------------------------
(* The nodes and their books. *)

\* The book that an entry makes of a book.
bookAfter(svc, e) ==
  IF e.type = "message" THEN OnSessionMessage(svc, e.session, e.msg).book ELSE svc.book

Entry == [type : {"open", "close"}, session : SessionIds]
         \cup [type : {"message"}, session : {m[1] : m \in Messages}, msg : {m[2] : m \in Messages}]
         \cup [type : {"snapshot"}]

\* A service's record, whatever is in it.
IsService(s) == s = [book |-> s.book, sessions |-> s.sessions, sessionIds |-> s.sessionIds]

\* A book between two commands.
Sound(b) == GoodBook(b, b.nextOrderId)

\* The contract of the engine: what NewLimitOrder and Cancel make of a sound book,
\* and what RestoreOrderBook makes of its snapshot, whole or cut short.
EngineSound ==
  /\ Sound(NewOrderBook)
  /\ \A b, owner : \A side \in {Buy, Sell, NullSide, UnknownSide}, price, qty \in Int :
       Sound(b) => /\ Sound(NewLimitOrder(b, owner, side, price, qty).book)
                   /\ IsSeq(NewLimitOrder(b, owner, side, price, qty).events)
  /\ \A b, id, owner : Sound(b) => /\ Sound(Cancel(b, id, owner).book)
                                  /\ IsSeq(Cancel(b, id, owner).events)
  /\ \A b : Sound(b) =>
       /\ RestoreOrderBook(TakeSnapshot(b)) = b
       /\ \A k \in 0..(Len(TakeSnapshot(b)) - 1) : ~readable(SubSeq(TakeSnapshot(b), 1, k))

\* The shapes of log, nodes and disks.
CTypeOK ==
  /\ log \in Seq(Entry)
  /\ IsSeq(ideal) /\ Len(ideal) = Len(log)
  /\ node = [n \in Nodes |-> [status |-> node[n].status, base |-> node[n].base,
                              pos |-> node[n].pos, svc |-> node[n].svc]]
  /\ \A n \in Nodes : IsService(node[n].svc)
  /\ \A i \in 1..Len(log) : IsService(ideal[i].svc)
  /\ disk = [n \in Nodes |-> [pos |-> disk[n].pos, stream |-> disk[n].stream]]
  /\ \A n \in Nodes : node[n].pos \in 0..Len(log) /\ disk[n].pos \in 0..Len(log)

\* Every book and every snapshot is the one that the log implies.
CInv ==
  /\ CTypeOK
  /\ \A i \in 1..Len(log) : BookAt(i) = bookAfter(idealAt(i - 1).svc, log[i])
  /\ \A i \in 0..Len(log) : Sound(BookAt(i))
  /\ \A n \in Nodes : node[n].status = "up" => node[n].svc.book = BookAt(node[n].pos)
  /\ \A n \in Nodes : disk[n].pos > 0 =>
       disk[n].stream \in written(TakeSnapshot(BookAt(disk[n].pos)))

-----------------------------------------------------------------------------
\* One more element.
LEMMA SeqAppend ==
  ASSUME NEW s, IsSeq(s), NEW e
  PROVE  /\ Len(Append(s, e)) = Len(s) + 1 /\ IsSeq(Append(s, e))
         /\ \A i \in 1..Len(s) : Append(s, e)[i] = s[i]
         /\ Append(s, e)[Len(s) + 1] = e
<1>1. PICK R : s \in Seq(R)
  BY DEF IsSeq
<1> DEFINE S == R \cup {e}
<1>2. e \in S /\ \A i \in 1..Len(s) : s[i] \in S
  BY <1>1
<1>3. s = [i \in 1..Len(s) |-> s[i]] /\ Len(s) \in Nat
  BY <1>1
<1> HIDE DEF S
<1>4. s \in [1..Len(s) -> S]
  BY <1>2, <1>3
<1>5. s \in Seq(S)
  BY <1>3, <1>4
<1>6. /\ Append(s, e) \in Seq(S)
      /\ Len(Append(s, e)) = Len(s) + 1
      /\ \A i \in 1..Len(s) : Append(s, e)[i] = s[i]
      /\ Append(s, e)[Len(s) + 1] = e
  BY <1>2, <1>5
<1>7. IsSeq(Append(s, e))
  BY <1>6 DEF IsSeq
<1> QED
  BY <1>6, <1>7

\* OnSessionMessage takes nothing but the book from the service.
LEMMA BookIsEnough ==
  ASSUME NEW s, NEW t, s.book = t.book, NEW session, NEW msg
  PROVE  OnSessionMessage(s, session, msg) = OnSessionMessage(t, session, msg)
BY DEF OnSessionMessage

\* The services that the handlers make of a service.
LEMMA ServiceForms ==
  ASSUME NEW s, IsService(s), NEW id, NEW b
  PROVE  /\ OnSessionOpen(s, id) = [book |-> s.book, sessions |-> s.sessions \cup {id},
                                    sessionIds |-> Append(s.sessionIds, id)]
         /\ OnSessionClose(s, id) = [book |-> s.book, sessions |-> s.sessions \ {id},
                                     sessionIds |-> withoutFirst(s.sessionIds, id)]
         /\ [s EXCEPT !.book = b] = [book |-> b, sessions |-> s.sessions,
                                     sessionIds |-> s.sessionIds]
<1> DEFINE B == s.book
           M == s.sessions
           L == s.sessionIds
<1>1. s = [book |-> B, sessions |-> M, sessionIds |-> L]
  BY DEF IsService
<1> HIDE DEF B, M, L
<1>2. [s EXCEPT !.book = b] = [book |-> b, sessions |-> M, sessionIds |-> L]
  BY <1>1
<1>3. OnSessionOpen(s, id) = [book |-> B, sessions |-> M \cup {id}, sessionIds |-> Append(L, id)]
  <2> DEFINE r == [book |-> B, sessions |-> M \cup {id}, sessionIds |-> L]
             appended == Append(L, id)
  <2>1. [s EXCEPT !.sessions = @ \cup {id}] = r /\ r.sessionIds = L
    BY <1>1
  <2>2. OnSessionOpen(s, id)
          = [[s EXCEPT !.sessions = @ \cup {id}] EXCEPT !.sessionIds = Append(@, id)]
    BY DEF OnSessionOpen
  <2>3. OnSessionOpen(s, id) = [r EXCEPT !.sessionIds = appended]
    BY <2>1, <2>2, Zenon
  <2> HIDE DEF appended
  <2>4. [r EXCEPT !.sessionIds = appended] = [book |-> B, sessions |-> M \cup {id}, sessionIds |-> appended]
    OBVIOUS
  <2> QED
    BY <2>3, <2>4, Zenon DEF appended
<1>4. OnSessionClose(s, id) = [book |-> B, sessions |-> M \ {id}, sessionIds |-> withoutFirst(L, id)]
  <2> DEFINE r == [book |-> B, sessions |-> M \ {id}, sessionIds |-> L]
             removed == withoutFirst(L, id)
  <2>1. [s EXCEPT !.sessions = @ \ {id}] = r /\ r.sessionIds = L
    BY <1>1
  <2>2. OnSessionClose(s, id)
          = [[s EXCEPT !.sessions = @ \ {id}] EXCEPT !.sessionIds = withoutFirst(@, id)]
    BY DEF OnSessionClose
  <2>3. OnSessionClose(s, id) = [r EXCEPT !.sessionIds = removed]
    BY <2>1, <2>2, Zenon
  <2> HIDE DEF removed
  <2>4. [r EXCEPT !.sessionIds = removed] = [book |-> B, sessions |-> M \ {id}, sessionIds |-> removed]
    OBVIOUS
  <2> QED
    BY <2>3, <2>4, Zenon DEF removed
<1> QED
  BY <1>2, <1>3, <1>4, Zenon DEF B, M, L

\* What the handlers leave of a service.
LEMMA ServiceSteps ==
  ASSUME NEW s, IsService(s), NEW id, NEW b
  PROVE  /\ IsService(OnSessionOpen(s, id)) /\ OnSessionOpen(s, id).book = s.book
         /\ IsService(OnSessionClose(s, id)) /\ OnSessionClose(s, id).book = s.book
         /\ IsService([s EXCEPT !.book = b]) /\ [s EXCEPT !.book = b].book = b
<1> DEFINE m == s.sessions \cup {id}
           l == Append(s.sessionIds, id)
           c == s.sessions \ {id}
           k == withoutFirst(s.sessionIds, id)
<1>1. OnSessionOpen(s, id) = [book |-> s.book, sessions |-> m, sessionIds |-> l]
  BY ServiceForms, Zenon
<1> HIDE DEF m, l
<1>2. IsService(OnSessionOpen(s, id)) /\ OnSessionOpen(s, id).book = s.book
  BY <1>1 DEF IsService
<1>3. OnSessionClose(s, id) = [book |-> s.book, sessions |-> c, sessionIds |-> k]
  BY ServiceForms, Zenon
<1> HIDE DEF c, k
<1>4. IsService(OnSessionClose(s, id)) /\ OnSessionClose(s, id).book = s.book
  BY <1>3 DEF IsService
<1>5. [s EXCEPT !.book = b] = [book |-> b, sessions |-> s.sessions, sessionIds |-> s.sessionIds]
  BY ServiceForms, Zenon
<1>6. IsService([s EXCEPT !.book = b]) /\ [s EXCEPT !.book = b].book = b
  BY <1>5 DEF IsService
<1> QED
  BY <1>2, <1>4, <1>6, Zenon

\* Before any command.
LEMMA CInvInit ==
  ASSUME EngineSound, ClusterInit PROVE CInv
<1> USE SessionsAssumption
<1>1. Len(Sessions) \in Nat /\ DOMAIN Sessions = 1..Len(Sessions)
  OBVIOUS
<1>2. log = [i \in 1..Len(Sessions) |-> [type |-> "open", session |-> Sessions[i]]]
  BY <1>1 DEF ClusterInit, Opened
<1>3. log \in Seq(Entry) /\ Len(log) = Len(Sessions)
  <2>1. \A i \in 1..Len(Sessions) : [type |-> "open", session |-> Sessions[i]] \in Entry
    BY <1>1 DEF Entry, SessionIds, Range
  <2>2. log \in [1..Len(Sessions) -> Entry] /\ Len(Sessions) \in Nat
    BY <1>1, <1>2, <2>1, Zenon
  <2> QED
    BY <2>2
<1>4. ideal = [i \in 1..Len(Sessions) |->
         [svc |-> [book |-> NewOrderBook, sessions |-> Range(SubSeq(Sessions, 1, i)),
                   sessionIds |-> SubSeq(Sessions, 1, i)],
          offers |-> << >>]]
  BY <1>1, Zenon DEF ClusterInit, Opened
<1>5. ASSUME NEW i \in 1..Len(Sessions)
      PROVE  /\ ideal[i].svc.book = NewOrderBook
             /\ IsService(ideal[i].svc)
  <2>1. ideal[i].svc = [book |-> NewOrderBook, sessions |-> Range(SubSeq(Sessions, 1, i)),
                        sessionIds |-> SubSeq(Sessions, 1, i)]
    BY <1>4
  <2> DEFINE known == Range(SubSeq(Sessions, 1, i))
             order == SubSeq(Sessions, 1, i)
             book == NewOrderBook
             svc == ideal[i].svc
  <2>2. svc = [book |-> book, sessions |-> known, sessionIds |-> order] /\ book = NewOrderBook
    BY <2>1
  <2> HIDE DEF known, order, svc, book
  <2>3. svc.book = NewOrderBook /\ IsService(svc)
    BY <2>2 DEF IsService
  <2> QED
    BY <2>3 DEF svc
<1>6. IsSeq(ideal) /\ Len(ideal) = Len(log)
  <2> DEFINE R == {ideal[i] : i \in 1..Len(Sessions)}
  <2>1. \A i \in 1..Len(Sessions) : ideal[i] \in R
    OBVIOUS
  <2>2. ideal = [i \in 1..Len(Sessions) |-> ideal[i]]
    BY <1>4
  <2> HIDE DEF R
  <2>3. ideal \in [1..Len(Sessions) -> R]
    BY <2>1, <2>2
  <2>4. ideal \in Seq(R) /\ Len(ideal) = Len(Sessions)
    BY <1>1, <2>3
  <2> QED
    BY <1>3, <2>4 DEF IsSeq
<1>7. \A i \in 0..Len(log) : BookAt(i) = NewOrderBook
  <2>1. BookAt(0) = NewOrderBook
    BY DEF BookAt, idealAt, Ideal0, NewMatchingService
  <2>2. ASSUME NEW i \in 1..Len(Sessions) PROVE BookAt(i) = NewOrderBook
    <3>1. i # 0
      BY <1>1
    <3>2. ideal[i].svc.book = NewOrderBook
      BY <1>5, Zenon
    <3> QED
      BY <3>1, <3>2 DEF BookAt, idealAt
  <2> QED
    BY <1>1, <1>3, <2>1, <2>2
<1>8. \A i \in 1..Len(log) : log[i].type = "open"
  BY <1>2, <1>3, Zenon
<1>9. \A n \in Nodes : node[n].svc = idealAt(Len(log)).svc /\ node[n].pos = Len(log)
  BY DEF ClusterInit
<1>10. IsService(idealAt(Len(log)).svc)
  <2>1. CASE Len(log) = 0
    BY <2>1, Zenon DEF idealAt, Ideal0, NewMatchingService, IsService
  <2>2. CASE Len(log) # 0
    <3>1. Len(log) \in 1..Len(Sessions)
      BY <1>1, <1>3, <2>2
    <3>2. idealAt(Len(log)).svc = ideal[Len(log)].svc
      BY <2>2 DEF idealAt
    <3> QED
      BY <1>5, <3>1, <3>2, Zenon
  <2> QED
    BY <2>1, <2>2
<1>11. CTypeOK
  <2>1. node = [n \in Nodes |-> [status |-> node[n].status, base |-> node[n].base,
                                 pos |-> node[n].pos, svc |-> node[n].svc]]
    BY DEF ClusterInit
  <2>4. \A n \in Nodes : IsService(node[n].svc)
    BY <1>9, <1>10, Zenon
  <2>5. \A i \in 1..Len(log) : IsService(ideal[i].svc)
    BY <1>3, <1>5, Zenon
  <2>2. disk = [n \in Nodes |-> [pos |-> disk[n].pos, stream |-> disk[n].stream]]
    BY DEF ClusterInit
  <2>3. \A n \in Nodes : node[n].pos \in 0..Len(log) /\ disk[n].pos \in 0..Len(log)
    <3>1. \A n \in Nodes : disk[n].pos = 0
      BY DEF ClusterInit
    <3> QED
      BY <1>1, <1>3, <1>9, <3>1, SMTT(20)
  <2> QED
    BY <1>3, <1>6, <2>1, <2>2, <2>3, <2>4, <2>5, Zenon DEF CTypeOK
<1>12. \A i \in 1..Len(log) : BookAt(i) = bookAfter(idealAt(i - 1).svc, log[i])
  <2> SUFFICES ASSUME NEW i \in 1..Len(log)
               PROVE  BookAt(i) = bookAfter(idealAt(i - 1).svc, log[i])
    OBVIOUS
  <2>1. bookAfter(idealAt(i - 1).svc, log[i]) = BookAt(i - 1)
    BY <1>8 DEF bookAfter, BookAt
  <2>2. i - 1 \in 0..Len(log) /\ i \in 0..Len(log)
    BY <1>1, <1>3, SMTT(20)
  <2> QED
    BY <1>7, <2>1, <2>2
<1>13. \A n \in Nodes : node[n].svc.book = BookAt(node[n].pos) /\ disk[n].pos = 0
  BY <1>9 DEF ClusterInit, BookAt
<1>14. \A i \in 0..Len(log) : Sound(BookAt(i))
  <2>1. Sound(NewOrderBook)
    BY Zenon DEF EngineSound
  <2> QED
    BY <1>7, <2>1, Zenon
<1> QED
  BY <1>11, <1>12, <1>13, <1>14 DEF CInv

-----------------------------------------------------------------------------
(* The log grows. *)

\* No message spoils a book, and its events are a sequence.
LEMMA MessageSound ==
  ASSUME EngineSound, NEW svc, Sound(svc.book), NEW m \in Messages, NEW session, NEW r,
         r = OnSessionMessage(svc, session, m[2])
  PROVE  Sound(r.book) /\ IsSeq(r.events)
<1> DEFINE msg == m[2]
<1>0. newOrderTemplateId # cancelOrderTemplateId
  BY DEF newOrderTemplateId, cancelOrderTemplateId
<1>1. CASE ~accepted(msg)
  <2>1. r = [book |-> svc.book, events |-> << >>]
    BY <1>1 DEF OnSessionMessage
  <2> QED
    BY <2>1, NilIsSeq
<1>2. CASE accepted(msg) /\ msg.template = newOrderTemplateId
  <2>1. r = NewLimitOrder(svc.book, session, sideOf(msg.side), msg.price, msg.qty)
    BY <1>0, <1>2 DEF OnSessionMessage
  <2>2. msg.price \in Int /\ msg.qty \in Int
    BY <1>2, MessagesAssumption
  <2>3. sideOf(msg.side) \in {Buy, Sell, NullSide, UnknownSide}
    BY DEF sideOf
  <2> QED
    BY <2>1, <2>2, <2>3, Zenon DEF EngineSound
<1>3. CASE accepted(msg) /\ msg.template = cancelOrderTemplateId
  <2>1. r = Cancel(svc.book, msg.orderId, session)
    BY <1>0, <1>3 DEF OnSessionMessage
  <2> QED
    BY <2>1, Zenon DEF EngineSound
<1> QED
  BY <1>1, <1>2, <1>3 DEF accepted

\* The log grows by an entry.
LEMMA AgreeStep ==
  (EngineSound /\ CInv) => \A entry \in Entry : Agree(entry) =>
    CInv'
\* The ideal service's book after one more entry.
<1>IdealStep.
     ASSUME NEW r, IsService(r.svc), NEW e \in Entry, NEW pos
     PROVE  /\ IsService(idealStep(r, e, pos).svc)
            /\ idealStep(r, e, pos).svc.book = bookAfter(r.svc, e)
  <2> USE <1>IdealStep
  <2>0. e.type \in {"open", "close", "message", "snapshot"}
    BY DEF Entry
  <2>1. CASE e.type = "open"
    <3>1. idealStep(r, e, pos).svc = OnSessionOpen(r.svc, e.session)
      BY <2>1 DEF idealStep
    <3>2. bookAfter(r.svc, e) = r.svc.book
      BY <2>1 DEF bookAfter
    <3>3. IsService(OnSessionOpen(r.svc, e.session)) /\ OnSessionOpen(r.svc, e.session).book = r.svc.book
      BY ServiceSteps, Zenon
    <3> QED
      BY <3>1, <3>2, <3>3, Zenon
  <2>2. CASE e.type = "close"
    <3>1. idealStep(r, e, pos).svc = OnSessionClose(r.svc, e.session)
      BY <2>2 DEF idealStep
    <3>2. bookAfter(r.svc, e) = r.svc.book
      BY <2>2 DEF bookAfter
    <3>3. IsService(OnSessionClose(r.svc, e.session)) /\ OnSessionClose(r.svc, e.session).book = r.svc.book
      BY ServiceSteps, Zenon
    <3> QED
      BY <3>1, <3>2, <3>3, Zenon
  <2>3. CASE e.type = "message"
    <3> DEFINE b == OnSessionMessage(r.svc, e.session, e.msg).book
    <3>1. idealStep(r, e, pos).svc = [r.svc EXCEPT !.book = b]
      BY <2>3 DEF idealStep
    <3>2. bookAfter(r.svc, e) = b
      BY <2>3 DEF bookAfter
    <3> HIDE DEF b
    <3>3. IsService([r.svc EXCEPT !.book = b]) /\ [r.svc EXCEPT !.book = b].book = b
      BY ServiceSteps
    <3> QED
      BY <3>1, <3>2, <3>3, Zenon
  <2>4. CASE e.type = "snapshot"
    <3>1. idealStep(r, e, pos).svc = r.svc
      BY <2>4 DEF idealStep
    <3>2. bookAfter(r.svc, e) = r.svc.book
      BY <2>4, SMTT(20) DEF bookAfter
    <3> QED
      BY <3>1, <3>2
  <2> QED
    BY <2>0, <2>1, <2>2, <2>3, <2>4
\* No entry spoils a book.
<1>EntrySound.
     ASSUME EngineSound, NEW svc, Sound(svc.book), NEW e \in Entry PROVE Sound(bookAfter(svc, e))
  <2> USE <1>EntrySound
  <2>1. CASE e.type # "message"
    BY <2>1 DEF bookAfter
  <2>2. CASE e.type = "message"
    <3>1. bookAfter(svc, e) = OnSessionMessage(svc, e.session, e.msg).book
      BY <2>2 DEF bookAfter
    <3>2. PICK m \in Messages : e.msg = m[2]
      BY <2>2, Zenon DEF Entry
    <3> QED
      BY <3>1, <3>2, MessageSound
  <2> QED
    BY <2>1, <2>2
<1> HAVE EngineSound /\ CInv
<1> TAKE entry \in Entry
<1> HAVE Agree(entry)
<1> DEFINE next == idealStep(idealAt(Len(log)), entry, Len(log) + 1)
<1>1. /\ log \in Seq(Entry) /\ IsSeq(ideal) /\ Len(ideal) = Len(log) /\ Len(log) \in Nat
  BY DEF CInv, CTypeOK
<1>2. /\ log' = Append(log, entry) /\ ideal' = Append(ideal, next)
      /\ UNCHANGED <<node, disk>>
  BY DEF Agree
<1>3. /\ log' \in Seq(Entry) /\ Len(log') = Len(log) + 1
      /\ \A i \in 1..Len(log) : log'[i] = log[i]
      /\ log'[Len(log) + 1] = entry
  BY <1>1, <1>2
<1>4. /\ IsSeq(ideal') /\ Len(ideal') = Len(log) + 1
      /\ \A i \in 1..Len(log) : ideal'[i] = ideal[i]
      /\ ideal'[Len(log) + 1] = next
  <2> HIDE DEF next
  <2> QED
    BY <1>1, <1>2, SeqAppend
<1>5. \A i \in 0..Len(log) : idealAt(i)' = idealAt(i)
  BY <1>1, <1>4 DEF idealAt
<1>6. ASSUME NEW i, i = Len(log) + 1 PROVE idealAt(i)' = next
  <2>1. i # 0 /\ ideal'[i] = next
    BY <1>1, <1>4, <1>6
  <2> HIDE DEF next
  <2> QED
    BY <2>1 DEF idealAt
<1>7. IsService(idealAt(Len(log)).svc)
  <2>1. CASE Len(log) = 0
    BY <2>1, SMTT(20) DEF idealAt, Ideal0, NewMatchingService, IsService
  <2>2. CASE Len(log) # 0
    <3>1. Len(log) \in 1..Len(log) /\ idealAt(Len(log)).svc = ideal[Len(log)].svc
      BY <1>1, <2>2 DEF idealAt
    <3> QED
      BY <3>1 DEF CInv, CTypeOK
  <2> QED
    BY <2>1, <2>2, Zenon
<1>8. IsService(next.svc) /\ next.svc.book = bookAfter(idealAt(Len(log)).svc, entry)
  BY <1>7, <1>IdealStep, Zenon
<1> HIDE DEF next
<1>9. CTypeOK'
  <2>1. \A i \in 1..Len(log') : IsService(ideal'[i].svc)
    <3>1. \A i \in 1..Len(log) : IsService(ideal[i].svc)
      BY DEF CInv, CTypeOK
    <3> SUFFICES ASSUME NEW i \in 1..Len(log') PROVE IsService(ideal'[i].svc)
      OBVIOUS
    <3>2. CASE i \in 1..Len(log)
      <4>1. ideal'[i] = ideal[i]
        BY <1>4, <3>2
      <4> QED
        BY <3>1, <3>2, <4>1, Zenon
    <3>3. CASE i = Len(log) + 1
      BY <1>4, <1>8, <3>3, Zenon
    <3>4. i \in 1..Len(log) \/ i = Len(log) + 1
      BY <1>1, <1>3
    <3> QED
      BY <3>2, <3>3, <3>4, Zenon
  <2>2. \A n \in Nodes : node[n].pos \in 0..Len(log') /\ disk[n].pos \in 0..Len(log')
    <3>1. \A n \in Nodes : node[n].pos \in 0..Len(log) /\ disk[n].pos \in 0..Len(log)
      BY DEF CInv, CTypeOK
    <3> QED
      BY <1>1, <1>3, <3>1, SMTT(20)
  <2> QED
    BY <1>2, <1>3, <1>4, <2>1, <2>2 DEF CInv, CTypeOK
<1>10. \A i \in 0..Len(log) : BookAt(i)' = BookAt(i)
  BY <1>5, SMTT(20) DEF BookAt
<1>11. ASSUME NEW i \in 1..Len(log')
       PROVE  (BookAt(i) = bookAfter(idealAt(i - 1).svc, log[i]))'
  <2>1. CASE i \in 1..Len(log)
    <3>1. i - 1 \in 0..Len(log) /\ i \in 0..Len(log)
      BY <1>1, <2>1, SMTT(20)
    <3>2. BookAt(i) = bookAfter(idealAt(i - 1).svc, log[i])
      BY <2>1, Zenon DEF CInv
    <3>3. log'[i] = log[i] /\ idealAt(i - 1)' = idealAt(i - 1) /\ BookAt(i)' = BookAt(i)
      BY <1>3, <1>5, <1>10, <2>1, <3>1
    <3> QED
      BY <3>2, <3>3
  <2>2. CASE i = Len(log) + 1
    <3>1. i - 1 = Len(log) /\ Len(log) \in 0..Len(log)
      BY <1>1, <2>2
    <3>2. BookAt(i)' = next.svc.book
      BY <1>6, <2>2 DEF BookAt
    <3>3. log'[i] = entry /\ idealAt(i - 1)' = idealAt(Len(log))
      BY <1>3, <1>5, <2>2, <3>1, Zenon
    <3> QED
      BY <1>8, <3>2, <3>3
  <2> QED
    BY <1>1, <1>3, <2>1, <2>2, SMTT(20)
<1>12. ASSUME NEW n \in Nodes
       PROVE  /\ (node[n].status = "up" => node[n].svc.book = BookAt(node[n].pos))'
              /\ (disk[n].pos > 0 =>
                    disk[n].stream \in written(TakeSnapshot(BookAt(disk[n].pos))))'
  <2>1. node[n].pos \in 0..Len(log) /\ disk[n].pos \in 0..Len(log)
    BY Zenon DEF CInv, CTypeOK
  <2>2. BookAt(node[n].pos)' = BookAt(node[n].pos) /\ BookAt(disk[n].pos)' = BookAt(disk[n].pos)
    BY <1>1, <1>2, <1>4, <2>1, SMTT(60) DEF BookAt, idealAt
  <2> QED
    BY <1>2, <2>2, Zenon DEF CInv
<1>13. ASSUME NEW i \in 0..Len(log') PROVE Sound(BookAt(i))'
  <2>1. \A k \in 0..Len(log) : Sound(BookAt(k))
    BY DEF CInv
  <2>2. CASE i \in 0..Len(log)
    <3>1. BookAt(i)' = BookAt(i) /\ Sound(BookAt(i))
      BY <1>10, <2>1, <2>2
    <3> QED
      BY <3>1
  <2>3. CASE i = Len(log) + 1
    <3>1. Len(log) \in 0..Len(log)
      BY <1>1
    <3>2. Sound(idealAt(Len(log)).svc.book)
      BY <2>1, <3>1 DEF BookAt
    <3>3. Sound(next.svc.book)
      BY <1>8, <3>2, <1>EntrySound
    <3>4. BookAt(i)' = next.svc.book
      BY <1>6, <2>3, SMTT(20) DEF BookAt
    <3> QED
      BY <3>3, <3>4
  <2> QED
    BY <1>1, <1>3, <2>2, <2>3, SMTT(20)
<1> QED
  BY <1>9, <1>11, <1>12, <1>13, Zenon DEF CInv

-----------------------------------------------------------------------------
(* One node takes a step. *)

\* A node and a disk that agree with the log.
Good(r, k) ==
  /\ r = [status |-> r.status, base |-> r.base, pos |-> r.pos, svc |-> r.svc]
  /\ k = [pos |-> k.pos, stream |-> k.stream]
  /\ IsService(r.svc) /\ r.pos \in 0..Len(log) /\ k.pos \in 0..Len(log)
  /\ r.status = "up" => r.svc.book = BookAt(r.pos)
  /\ k.pos > 0 => k.stream \in written(TakeSnapshot(BookAt(k.pos)))

\* A step of one node that leaves it and its disk in agreement with the log.
LEMMA NodeStep ==
  ASSUME CInv, UNCHANGED <<log, ideal>>, NEW n \in Nodes, NEW new, NEW kept, Good(new, kept),
         node' = [node EXCEPT ![n] = new], disk' = [disk EXCEPT ![n] = kept]
  PROVE  CInv'
<1>1. /\ node = [m \in Nodes |-> [status |-> node[m].status, base |-> node[m].base,
                                  pos |-> node[m].pos, svc |-> node[m].svc]]
      /\ disk = [m \in Nodes |-> [pos |-> disk[m].pos, stream |-> disk[m].stream]]
  BY DEF CInv, CTypeOK
<1>2. node'[n] = new /\ disk'[n] = kept
  BY <1>1
<1>3. \A m \in Nodes : m # n => node'[m] = node[m] /\ disk'[m] = disk[m]
  BY <1>1
<1>4. node' = [m \in Nodes |-> node'[m]] /\ disk' = [m \in Nodes |-> disk'[m]]
  BY <1>1, Zenon
<1>6. ASSUME NEW m \in Nodes
      PROVE  /\ node'[m] = [status |-> node'[m].status, base |-> node'[m].base,
                            pos |-> node'[m].pos, svc |-> node'[m].svc]
             /\ IsService(node'[m].svc)
             /\ disk'[m] = [pos |-> disk'[m].pos, stream |-> disk'[m].stream]
             /\ node'[m].pos \in 0..Len(log) /\ disk'[m].pos \in 0..Len(log)
             /\ node'[m].status = "up" => node'[m].svc.book = BookAt(node'[m].pos)
             /\ disk'[m].pos > 0 =>
                  disk'[m].stream \in written(TakeSnapshot(BookAt(disk'[m].pos)))
  <2>1. CASE m = n
    BY <1>2, <2>1, Zenon DEF Good
  <2>2. CASE m # n
    <3>1. node'[m] = node[m] /\ disk'[m] = disk[m]
      BY <1>3, <2>2, Zenon
    <3>2. /\ node[m] = [status |-> node[m].status, base |-> node[m].base,
                        pos |-> node[m].pos, svc |-> node[m].svc]
          /\ disk[m] = [pos |-> disk[m].pos, stream |-> disk[m].stream]
      BY <1>1, Zenon
    <3>3. /\ IsService(node[m].svc)
          /\ node[m].pos \in 0..Len(log) /\ disk[m].pos \in 0..Len(log)
          /\ node[m].status = "up" => node[m].svc.book = BookAt(node[m].pos)
          /\ disk[m].pos > 0 => disk[m].stream \in written(TakeSnapshot(BookAt(disk[m].pos)))
      BY DEF CInv, CTypeOK
    <3> QED
      BY <3>1, <3>2, <3>3
  <2> QED
    BY <2>1, <2>2
<1>7. /\ node' = [m \in Nodes |-> [status |-> node'[m].status, base |-> node'[m].base,
                                   pos |-> node'[m].pos, svc |-> node'[m].svc]]
      /\ disk' = [m \in Nodes |-> [pos |-> disk'[m].pos, stream |-> disk'[m].stream]]
  <2>1. node' = [m \in Nodes |-> [status |-> node'[m].status, base |-> node'[m].base,
                                  pos |-> node'[m].pos, svc |-> node'[m].svc]]
    BY <1>4, <1>6, Zenon
  <2>2. disk' = [m \in Nodes |-> [pos |-> disk'[m].pos, stream |-> disk'[m].stream]]
    BY <1>4, <1>6, Zenon
  <2> QED
    BY <2>1, <2>2, SMTT(20)
<1>8. CTypeOK'
  <2>1. /\ log \in Seq(Entry) /\ IsSeq(ideal) /\ Len(ideal) = Len(log)
        /\ \A i \in 1..Len(log) : IsService(ideal[i].svc)
    BY DEF CInv, CTypeOK
  <2> QED
    BY <1>6, <1>7, <2>1, Zenon DEF CTypeOK
<1>9. \A i \in 1..Len(log) : BookAt(i) = bookAfter(idealAt(i - 1).svc, log[i])
  BY DEF CInv
<1>10. (\A i \in 1..Len(log) : BookAt(i) = bookAfter(idealAt(i - 1).svc, log[i]))'
  BY <1>9, Zenon DEF BookAt, idealAt
<1>11. ASSUME NEW m \in Nodes
       PROVE  /\ BookAt(node[m].pos)' = BookAt(node'[m].pos)
              /\ BookAt(disk[m].pos)' = BookAt(disk'[m].pos)
  <2>1. ideal' = ideal
    OBVIOUS
  <2>2. BookAt(node[m].pos)' = BookAt(node'[m].pos)
    BY <2>1 DEF BookAt, idealAt
  <2>3. BookAt(disk[m].pos)' = BookAt(disk'[m].pos)
    BY <2>1 DEF BookAt, idealAt
  <2> QED
    BY <2>2, <2>3
<1>12. (\A m \in Nodes : node[m].status = "up" => node[m].svc.book = BookAt(node[m].pos))'
  <2>1. \A m \in Nodes : node'[m].status = "up" => node'[m].svc.book = BookAt(node'[m].pos)
    BY <1>6, Zenon
  <2> QED
    BY <1>11, <2>1, Zenon
<1>13. (\A m \in Nodes : disk[m].pos > 0 =>
          disk[m].stream \in written(TakeSnapshot(BookAt(disk[m].pos))))'
  <2>1. \A m \in Nodes : disk'[m].pos > 0 =>
          disk'[m].stream \in written(TakeSnapshot(BookAt(disk'[m].pos)))
    BY <1>6, Zenon
  <2> QED
    BY <1>11, <2>1, Zenon
<1>14. (\A i \in 0..Len(log) : Sound(BookAt(i)))'
  <2>1. \A i \in 0..Len(log) : Sound(BookAt(i))
    BY DEF CInv
  <2> QED
    BY <2>1 DEF BookAt, idealAt
<1> QED
  BY <1>8, <1>10, <1>12, <1>13, <1>14, Zenon DEF CInv

\* The updates that the actions make of a node, and the record that results.
marked(n, st) == node' = [node EXCEPT ![n].status = st]
handled(n, p, b, st) ==
  node' = [node EXCEPT ![n].pos = p, ![n].svc.book = b, ![n].status = st]
becomes(n, st, base, p, x) ==
  node' = [node EXCEPT ![n] = [status |-> st, base |-> base, pos |-> p, svc |-> x]]

\* The updates in one form.
LEMMA Updates ==
  ASSUME CTypeOK, NEW n \in Nodes, NEW p, NEW x, NEW b, NEW st
  PROVE  /\ marked(n, st) => becomes(n, st, node[n].base, node[n].pos, node[n].svc)
         /\ advance(n, x) =>
              becomes(n, node[n].status, node[n].base, node[n].pos + 1, x)
         /\ handled(n, p, b, st) =>
              becomes(n, st, node[n].base, p, [node[n].svc EXCEPT !.book = b])
<1> DEFINE r == node[n]
           a == r.status
           c == r.base
           d == r.pos
           v == r.svc
           q == r.pos + 1
<1>1. r = [status |-> a, base |-> c, pos |-> d, svc |-> v]
  BY DEF CTypeOK
<1>0. node = [m \in Nodes |-> node[m]] /\ disk = [m \in Nodes |-> disk[m]]
  BY DEF CTypeOK
<1> HIDE DEF a, c, d, v, q
<1>2. [node EXCEPT ![n].status = st] = [node EXCEPT ![n] = [r EXCEPT !.status = st]]
  BY <1>0
<1>3. [node EXCEPT ![n].pos = q, ![n].svc = x]
        = [node EXCEPT ![n] = [[r EXCEPT !.pos = q] EXCEPT !.svc = x]]
  BY <1>0, Zenon
<1>4. [node EXCEPT ![n].pos = p, ![n].svc.book = b, ![n].status = st]
        = [node EXCEPT ![n] = [[[r EXCEPT !.pos = p] EXCEPT !.svc.book = b] EXCEPT !.status = st]]
  BY <1>0, Zenon
<1> HIDE DEF r
<1>5. [r EXCEPT !.status = st] = [status |-> st, base |-> c, pos |-> d, svc |-> v]
  BY <1>1
<1>6. [r EXCEPT !.pos = p] = [status |-> a, base |-> c, pos |-> p, svc |-> v]
  BY <1>1
<1> DEFINE t == [r EXCEPT !.pos = p]
<1>7. t = [status |-> a, base |-> c, pos |-> p, svc |-> v]
  BY <1>6
<1> HIDE DEF t
<1>8. [r EXCEPT !.pos = q] = [status |-> a, base |-> c, pos |-> q, svc |-> v]
  BY <1>1
<1> DEFINE y == [r EXCEPT !.pos = q]
<1>9. y = [status |-> a, base |-> c, pos |-> q, svc |-> v]
  BY <1>8
<1> HIDE DEF y
<1>18. [y EXCEPT !.svc = x] = [status |-> a, base |-> c, pos |-> q, svc |-> x]
  BY <1>9
<1> DEFINE w == [v EXCEPT !.book = b]
<1>10. [t EXCEPT !.svc.book = b] = [t EXCEPT !.svc = [t.svc EXCEPT !.book = b]]
  BY <1>7
<1>11. t.svc = v
  BY <1>7
<1>12. [t EXCEPT !.svc.book = b] = [t EXCEPT !.svc = w]
  BY <1>10, <1>11, Zenon
<1> HIDE DEF w
<1>13. [t EXCEPT !.svc = w] = [status |-> a, base |-> c, pos |-> p, svc |-> w]
  BY <1>7
<1> DEFINE u == [t EXCEPT !.svc.book = b]
<1>14. u = [status |-> a, base |-> c, pos |-> p, svc |-> w]
  BY <1>12, <1>13, Zenon
<1> HIDE DEF u
<1>15. [u EXCEPT !.status = st] = [status |-> st, base |-> c, pos |-> p, svc |-> w]
  BY <1>14
<1>16. [node EXCEPT ![n].pos = p, ![n].svc.book = b, ![n].status = st]
         = [node EXCEPT ![n] = [status |-> st, base |-> c, pos |-> p, svc |-> w]]
  BY <1>4, <1>15, Zenon DEF u, t
<1>17. [node EXCEPT ![n].pos = q, ![n].svc = x]
         = [node EXCEPT ![n] = [status |-> a, base |-> c, pos |-> q, svc |-> x]]
  BY <1>3, <1>18, Zenon DEF y
<1>19. [node EXCEPT ![n].status = st]
         = [node EXCEPT ![n] = [status |-> st, base |-> c, pos |-> d, svc |-> v]]
  BY <1>2, <1>5, Zenon
<1>20. marked(n, st) => becomes(n, st, node[n].base, node[n].pos, node[n].svc)
  BY <1>19, Zenon DEF marked, becomes, c, d, v, r
<1>21. handled(n, p, b, st) =>
         becomes(n, st, node[n].base, p, [node[n].svc EXCEPT !.book = b])
  BY <1>16, Zenon DEF handled, becomes, c, v, r, w
<1>22. advance(n, x) => becomes(n, node[n].status, node[n].base, node[n].pos + 1, x)
  BY <1>17, Zenon DEF advance, becomes, a, c, q, r
<1> QED
  BY <1>20, <1>21, <1>22, Zenon

\* A node that is up and behind: what the next entry makes of its book.
LEMMA Due ==
  ASSUME CInv, NEW n \in Nodes, NEW type, upcoming(n, type)
  PROVE  /\ node[n].status = "up" /\ node[n].pos + 1 \in 1..Len(log)
         /\ log[node[n].pos + 1].type = type
         /\ type # "message" => BookAt(node[n].pos + 1) = node[n].svc.book
         /\ type = "message" =>
              BookAt(node[n].pos + 1)
                = OnSessionMessage(node[n].svc, log[node[n].pos + 1].session,
                                   log[node[n].pos + 1].msg).book
<1> DEFINE p == node[n].pos
           e == log[p + 1]
<1>1. node[n].status = "up" /\ p < Len(log) /\ e.type = type
  BY Zenon DEF upcoming
<1>2. p \in 0..Len(log) /\ Len(log) \in Nat
  BY DEF CInv, CTypeOK
<1>3. p + 1 \in 1..Len(log) /\ (p + 1) - 1 = p
  BY <1>1, <1>2, SMTT(20)
<1>4. BookAt(p + 1) = bookAfter(idealAt(p).svc, e)
  BY <1>3, Zenon DEF CInv
<1>5. idealAt(p).svc.book = node[n].svc.book
  BY <1>1, Zenon DEF CInv, BookAt
<1>6. ASSUME type # "message" PROVE BookAt(p + 1) = node[n].svc.book
  BY <1>1, <1>4, <1>5, <1>6, Zenon DEF bookAfter
<1>7. ASSUME type = "message"
      PROVE  BookAt(p + 1) = OnSessionMessage(node[n].svc, e.session, e.msg).book
  <2>1. OnSessionMessage(idealAt(p).svc, e.session, e.msg)
          = OnSessionMessage(node[n].svc, e.session, e.msg)
    BY <1>5, BookIsEnough, SMTT(20)
  <2>2. BookAt(p + 1) = OnSessionMessage(idealAt(p).svc, e.session, e.msg).book
    BY <1>1, <1>4, <1>7 DEF bookAfter
  <2> QED
    BY <2>1, <2>2, Zenon
<1> QED
  BY <1>1, <1>3, <1>6, <1>7, Zenon

\* What a step of a node that keeps its disk has to show.
LEMMA Keeps ==
  ASSUME CInv, NEW n \in Nodes, UNCHANGED <<log, ideal, disk>>,
         NEW status, NEW base, NEW pos \in 0..Len(log), NEW svc, IsService(svc),
         status = "up" => svc.book = BookAt(pos),
         becomes(n, status, base, pos, svc)
  PROVE  CInv'
<1> DEFINE new == [status |-> status, base |-> base, pos |-> pos, svc |-> svc]
           kept == disk[n]
<1>1. /\ kept = [pos |-> kept.pos, stream |-> kept.stream]
      /\ kept.pos \in 0..Len(log)
      /\ kept.pos > 0 => kept.stream \in written(TakeSnapshot(BookAt(kept.pos)))
  BY DEF CInv, CTypeOK
<1>2. disk' = [disk EXCEPT ![n] = kept]
  BY Zenon DEF CInv, CTypeOK
<1>3. /\ new = [status |-> new.status, base |-> new.base, pos |-> new.pos, svc |-> new.svc]
      /\ new.status = status /\ new.pos = pos /\ new.svc = svc
  OBVIOUS
<1>4. node' = [node EXCEPT ![n] = new]
  BY DEF becomes
<1> HIDE DEF new, kept
<1>5. Good(new, kept)
  BY <1>1, <1>3, Zenon DEF Good
<1> QED
  BY <1>2, <1>4, <1>5, NodeStep, Zenon

\* A process dies.
LEMMA CrashStep ==
  ASSUME CInv, NEW n \in Nodes, Crash(n) \/ CrashInRoute(n)
  PROVE  CInv'
<1>1. UNCHANGED <<log, ideal, disk>> /\ marked(n, "down")
  BY Zenon DEF Crash, CrashInRoute, marked
<1>2. becomes(n, "down", node[n].base, node[n].pos, node[n].svc)
  BY <1>1, Updates, Zenon DEF CInv
<1>3. node[n].pos \in 0..Len(log) /\ IsService(node[n].svc)
  BY Zenon DEF CInv, CTypeOK
<1> QED
  BY <1>1, <1>2, <1>3, Keeps, SMTT(20)

\* OnSessionOpen and OnSessionClose.
LEMMA SessionStep ==
  ASSUME CInv, NEW n \in Nodes, HandleOpen(n) \/ HandleClose(n)
  PROVE  CInv'
<1> DEFINE pos == node[n].pos + 1
           svc == node[n].svc
           id == log[pos].session
<1>1. /\ UNCHANGED <<log, ideal, disk>>
      /\ advance(n, OnSessionOpen(svc, id)) \/ advance(n, OnSessionClose(svc, id))
  BY Zenon DEF HandleOpen, HandleClose
<1>2. PICK type : upcoming(n, type) /\ type # "message"
  <2>1. upcoming(n, "open") \/ upcoming(n, "close")
    BY Zenon DEF HandleOpen, HandleClose
  <2> QED
    BY <2>1
<1>3. pos \in 1..Len(log) /\ BookAt(pos) = svc.book
  BY <1>2, Due, Zenon
<1>4. IsService(svc)
  BY DEF CInv, CTypeOK
<1>5. /\ IsService(OnSessionOpen(svc, id)) /\ OnSessionOpen(svc, id).book = svc.book
      /\ IsService(OnSessionClose(svc, id)) /\ OnSessionClose(svc, id).book = svc.book
  BY <1>4, ServiceSteps, Zenon
<1>6. PICK new : IsService(new) /\ new.book = svc.book /\ advance(n, new)
  BY <1>1, <1>5, Zenon
<1>7. becomes(n, node[n].status, node[n].base, pos, new)
  BY <1>6, Updates, Zenon DEF CInv
<1>8. pos \in 0..Len(log)
  BY <1>3
<1> QED
  BY <1>1, <1>3, <1>6, <1>7, <1>8, Keeps, Zenon

\* OnSessionMessage.
LEMMA MessageStep ==
  ASSUME CInv, NEW n \in Nodes, HandleMessage(n)
  PROVE  CInv'
<1> DEFINE pos == node[n].pos + 1
           book == OnSessionMessage(node[n].svc, log[pos].session, log[pos].msg).book
           new == [node[n].svc EXCEPT !.book = book]
<1>1. upcoming(n, "message") /\ UNCHANGED <<log, ideal, disk>>
  BY Zenon DEF HandleMessage
<1>2. PICK st : handled(n, pos, book, st)
  BY Zenon DEF HandleMessage, handled
<1>3. pos \in 1..Len(log) /\ BookAt(pos) = book
  BY <1>1, Due, Zenon
<1>4. IsService(node[n].svc)
  BY DEF CInv, CTypeOK
<1> HIDE DEF book
<1>5. IsService(new) /\ new.book = book
  BY <1>4, ServiceSteps
<1>6. becomes(n, st, node[n].base, pos, new)
  BY <1>2, Updates, Zenon DEF CInv
<1>7. pos \in 0..Len(log)
  BY <1>3, SMTT(20)
<1> HIDE DEF new
<1> QED
  BY <1>1, <1>3, <1>5, <1>6, <1>7, Keeps, Zenon

\* OnTakeSnapshot.
LEMMA SnapshotStep ==
  ASSUME CInv, NEW n \in Nodes, HandleSnapshot(n)
  PROVE  CInv'
<1> DEFINE pos == node[n].pos + 1
           svc == node[n].svc
           new == [status |-> node[n].status, base |-> node[n].base, pos |-> pos, svc |-> svc]
<1>1. upcoming(n, "snapshot") /\ advance(n, svc) /\ UNCHANGED <<log, ideal>>
  BY DEF HandleSnapshot
<1>2. PICK stream \in written(TakeSnapshot(svc.book)) :
        disk' = [disk EXCEPT ![n] = [pos |-> pos, stream |-> stream]]
  BY Zenon DEF HandleSnapshot
<1> DEFINE kept == [pos |-> pos, stream |-> stream]
<1>3. pos \in 1..Len(log) /\ BookAt(pos) = svc.book
  <2>1. "snapshot" # "message"
    BY Zenon
  <2> QED
    BY <1>1, <2>1, Due, Zenon
<1>4. IsService(svc)
  BY DEF CInv, CTypeOK
<1>5. becomes(n, node[n].status, node[n].base, pos, svc)
  BY <1>1, Updates, Zenon DEF CInv
<1>6. node' = [node EXCEPT ![n] = new]
  BY <1>5, Zenon DEF becomes
<1>7. disk' = [disk EXCEPT ![n] = kept]
  BY <1>2, Zenon
<1>8. /\ new = [status |-> new.status, base |-> new.base, pos |-> new.pos, svc |-> new.svc]
      /\ new.pos = pos /\ new.svc = svc
      /\ kept = [pos |-> kept.pos, stream |-> kept.stream]
      /\ kept.pos = pos /\ kept.stream = stream
  BY Zenon
<1>9. pos \in 0..Len(log)
  BY <1>3
<1> HIDE DEF new, kept
<1>10. Good(new, kept)
  BY <1>2, <1>3, <1>4, <1>8, <1>9, Zenon DEF Good
<1> QED
  BY <1>1, <1>6, <1>7, <1>10, NodeStep, Zenon

\* What OnTakeSnapshot leaves of a sound book is the book, or is refused.
LEMMA ExactSnapshots ==
  ASSUME EngineSound, CInv PROVE SnapshotsExact
<1> SUFFICES ASSUME NEW n \in Nodes, disk[n].pos > 0, readable(disk[n].stream)
             PROVE  RestoreOrderBook(disk[n].stream) = BookAt(disk[n].pos)
  BY Zenon DEF SnapshotsExact
<1> DEFINE stream == disk[n].stream
           b == BookAt(disk[n].pos)
           whole == TakeSnapshot(b)
<1>1. disk[n].pos \in 0..Len(log) /\ stream \in written(whole)
  BY Zenon DEF CInv, CTypeOK
<1>2. Sound(b)
  BY <1>1, Zenon DEF CInv
<1> HIDE DEF stream, b, whole
<1>3. \/ stream = whole
      \/ \E k \in 0..(Len(whole) - 1) : stream = SubSeq(whole, 1, k)
  BY <1>1 DEF written
<1>4. CASE stream = whole
  BY <1>4, <1>2, Zenon DEF EngineSound, stream, b, whole
<1>5. ASSUME NEW k \in 0..(Len(whole) - 1), stream = SubSeq(whole, 1, k) PROVE FALSE
  BY <1>5, <1>2, Zenon DEF EngineSound, stream, whole
<1> QED
  BY <1>3, <1>4, <1>5, Zenon

\* A process starts, with or without a snapshot.
LEMMA StartStep ==
  ASSUME CInv, SnapshotsExact, NEW n \in Nodes,
         StartEmpty(n) \/ StartRestored(n) \/ StartNode(n)
  PROVE  CInv'
<1>1. UNCHANGED <<log, ideal, disk>>
  BY Zenon DEF StartEmpty, StartRestored, StartNode
<1>2. /\ disk[n].pos \in 0..Len(log) /\ node[n].pos \in 0..Len(log) /\ Len(log) \in Nat
      /\ IsService(node[n].svc)
  BY DEF CInv, CTypeOK
<1>3. ASSUME NEW book, NEW pos \in 0..Len(log), book = BookAt(pos),
             node' = [node EXCEPT ![n] = started(pos, book)]
      PROVE  CInv'
  <2> DEFINE svc == [NewMatchingService EXCEPT !.book = book]
  <2>1. IsService(NewMatchingService)
    BY DEF NewMatchingService, IsService
  <2>2. becomes(n, "up", pos, pos, svc)
    BY <1>3, Zenon DEF started, becomes
  <2>3. IsService(svc) /\ svc.book = BookAt(pos)
    BY <1>3, <2>1, ServiceSteps, Zenon
  <2> HIDE DEF svc
  <2> QED
    BY <1>1, <2>2, <2>3, Keeps, Zenon
<1>4. CASE StartEmpty(n)
  <2>1. NewOrderBook = BookAt(0)
    BY DEF BookAt, idealAt, Ideal0, NewMatchingService
  <2>2. node' = [node EXCEPT ![n] = started(0, NewOrderBook)]
    BY <1>4, Zenon DEF StartEmpty
  <2>3. 0 \in 0..Len(log)
    BY <1>2
  <2> QED
    BY <1>3, <2>1, <2>2, <2>3, Zenon
<1>5. CASE StartRestored(n) /\ readable(disk[n].stream)
  <2> DEFINE book == RestoreOrderBook(disk[n].stream)
  <2>1. node' = [node EXCEPT ![n] = started(disk[n].pos, book)]
    BY <1>5 DEF StartRestored
  <2>2. book = BookAt(disk[n].pos)
    BY <1>5, Zenon DEF SnapshotsExact, StartRestored
  <2> HIDE DEF book
  <2> QED
    BY <1>2, <1>3, <2>1, <2>2, Zenon
<1>6. CASE StartRestored(n) /\ ~readable(disk[n].stream)
  <2>1. marked(n, "panicked")
    BY <1>6 DEF StartRestored, marked
  <2>2. becomes(n, "panicked", node[n].base, node[n].pos, node[n].svc)
    BY <2>1, Updates, Zenon DEF CInv
  <2> QED
    BY <1>1, <1>2, <2>2, Keeps
<1>7. CASE StartNode(n)
  <2> DEFINE book == RestoreOrderBook(disk[n].stream)
  <2>1. PICK ids : node' = [node EXCEPT ![n] = reopened(disk[n].pos, book, ids)]
    BY <1>7, Zenon DEF StartNode
  <2>2. book = BookAt(disk[n].pos)
    BY <1>7, Zenon DEF SnapshotsExact, StartNode
  <2> DEFINE svc == [book |-> book, sessions |-> Range(ids), sessionIds |-> ids]
  <2>3. becomes(n, "up", 0, disk[n].pos, svc)
    BY <2>1, Zenon DEF reopened, becomes
  <2> HIDE DEF book
  <2>4. IsService(svc) /\ svc.book = BookAt(disk[n].pos)
    BY <2>2 DEF IsService
  <2> HIDE DEF svc
  <2> QED
    BY <1>1, <1>2, <2>3, <2>4, Keeps, Zenon
<1> QED
  BY <1>4, <1>5, <1>6, <1>7

-----------------------------------------------------------------------------
\* The invariant is inductive: one step per action.
LEMMA CInvNext ==
  ASSUME EngineSound, CInv, [ClusterNext]_clusterVars
  PROVE  CInv'
<1>1. ASSUME NEW s \in SessionIds, OpenSession(s) \/ CloseSession(s) PROVE CInv'
  <2>1. [type |-> "open", session |-> s] \in Entry /\ [type |-> "close", session |-> s] \in Entry
    BY DEF Entry
  <2> QED
    BY <1>1, <2>1, AgreeStep, Zenon DEF OpenSession, CloseSession
<1>2. ASSUME NEW m \in Messages, Ingress(m[1], m[2]) PROVE CInv'
  <2>1. [type |-> "message", session |-> m[1], msg |-> m[2]] \in Entry
    BY DEF Entry
  <2> QED
    BY <1>2, <2>1, AgreeStep, Zenon DEF Ingress
<1>3. CASE RequestSnapshot
  <2>1. [type |-> "snapshot"] \in Entry
    BY SMTT(20) DEF Entry
  <2> QED
    BY <1>3, <2>1, AgreeStep, Zenon DEF RequestSnapshot
<1>4. ASSUME NEW n \in Nodes, Elect(n) PROVE CInv'
  <2>1. UNCHANGED <<log, node, disk, ideal>>
    BY <1>4 DEF Elect
  <2> QED
    BY <2>1, Zenon DEF CInv, CTypeOK, BookAt, idealAt
<1>5. ASSUME NEW n \in Nodes, Handle(n) PROVE CInv'
  BY <1>5, SessionStep, MessageStep, SnapshotStep, StartStep, ExactSnapshots, Zenon DEF Handle
<1>6. CASE UNCHANGED clusterVars
  BY <1>6, Zenon DEF clusterVars, CInv, CTypeOK, BookAt, idealAt
<1> QED
  BY <1>1, <1>2, <1>3, <1>4, <1>5, <1>6, CrashStep, Zenon DEF ClusterNext

-----------------------------------------------------------------------------
(* Parts of a sequence. *)

\* The elements of d are found in e, in order, at the places that f gives.
Embeds(f, d, e) ==
  /\ f \in [1..Len(d) -> 1..Len(e)]
  /\ \A i, j \in 1..Len(d) : i < j => f[i] < f[j]
  /\ \A i \in 1..Len(d) : d[i] = e[f[i]]

PartOf(d, e) == IsSeq(d) /\ IsSeq(e) /\ \E f : Embeds(f, d, e)

\* Two sequences have their elements in one set.
LEMMA InOneSet ==
  ASSUME NEW d, NEW e, IsSeq(d), IsSeq(e)
  PROVE  \E S : d \in Seq(S) /\ e \in Seq(S)
<1>1. PICK S : d \in Seq(S)
  BY DEF IsSeq
<1>2. PICK T : e \in Seq(T)
  BY DEF IsSeq
<1>3. d \in Seq(S \cup T) /\ e \in Seq(S \cup T)
  BY <1>1, <1>2
<1> QED
  BY <1>3

\* One turn of the greedy search of IsPartOf(d, e): at e[n] it has found k of d.
takeStep(d, e, k, n) == IF k < Len(d) /\ d[k + 1] = e[n] THEN k + 1 ELSE k

\* The values that it goes through.
IsTaken(d, e, p) ==
  /\ p = [n \in 0..Len(e) |-> p[n]] /\ p[0] = 0
  /\ \A n \in 1..Len(e) : p[n] = takeStep(d, e, p[n - 1], n)

\* The greedy search of IsPartOf finds what is there to be found.
LEMMA PartIsFound ==
  \A d, e : PartOf(d, e) =>
    IsPartOf(d, e)
\* There are such values.
<1>TakenExists.
     ASSUME NEW d, NEW e, Len(e) \in Nat PROVE \E p : IsTaken(d, e, p)
  <2> USE <1>TakenExists
  <2> DEFINE G(n, p) == /\ p = [k \in 0..n |-> p[k]] /\ p[0] = 0
                        /\ \A k \in 1..n : p[k] = takeStep(d, e, p[k - 1], k)
             S == {n \in 0..Len(e) : \E p : G(n, p)}
  <2>1. 0 \in S
    <3>1. G(0, [k \in 0..0 |-> 0])
      OBVIOUS
    <3> HIDE DEF G
    <3> QED
      BY <3>1
  <2>2. ASSUME NEW n \in 1..Len(e), n - 1 \in S PROVE n \in S
    <3>1. PICK p : G(n - 1, p)
      BY <2>2
    <3>2. p[0] = 0 /\ \A k \in 1..(n - 1) : p[k] = takeStep(d, e, p[k - 1], k)
      BY <3>1, Zenon
    <3> DEFINE y == takeStep(d, e, p[n - 1], n)
               q == [j \in 0..n |-> IF j = n THEN y ELSE p[j]]
    <3>3. n \in Nat \ {0} /\ n - 1 \in 0..(n - 1) /\ 0 \in 0..(n - 1)
      OBVIOUS
    <3>4. y = takeStep(d, e, p[n - 1], n)
      OBVIOUS
    <3> HIDE DEF y
    <3>5. q = [j \in 0..n |-> q[j]] /\ q[n] = y /\ \A j \in 0..(n - 1) : q[j] = p[j]
      BY <3>3
    <3> HIDE DEF q
    <3>6. q[0] = 0
      BY <3>2, <3>3, <3>5, Zenon
    <3>7. ASSUME NEW j \in 1..n PROVE q[j] = takeStep(d, e, q[j - 1], j)
      <4>1. CASE j = n
        BY <3>3, <3>4, <3>5, <4>1
      <4>2. CASE j # n
        <5>1. j \in 1..(n - 1) /\ j \in 0..(n - 1) /\ j - 1 \in 0..(n - 1)
          BY <3>3, <4>2
        <5> QED
          BY <3>2, <3>5, <5>1, Zenon
      <4> QED
        BY <4>1, <4>2
    <3>8. G(n, q)
      BY <3>5, <3>6, <3>7
    <3> HIDE DEF G
    <3> QED
      BY <3>8
  <2>3. Len(e) \in S
    <3> HIDE DEF S
    <3>1. \A n \in 1..Len(e) : n - 1 \in S => n \in S
      BY <2>2
    <3>2. \A n \in 0..Len(e) : n \in S
      BY <2>1, <3>1, Upwards, Zenon
    <3> QED
      BY <3>2
  <2> QED
    BY <2>3 DEF IsTaken
\* IsPartOf looks at the last of them.
<1>TakenUnfold.
     ASSUME NEW d, NEW e, Len(e) \in Nat, NEW p, IsTaken(d, e, p)
     PROVE  IsPartOf(d, e) <=> p[Len(e)] = Len(d)
  <2> USE <1>TakenUnfold
  <2> DEFINE fn(f) == [n \in 0..Len(e) |-> IF n = 0 THEN 0 ELSE takeStep(d, e, f[n - 1], n)]
             val == CHOOSE f : f = fn(f)
             S == {n \in 0..Len(e) : val[n] = p[n]}
  <2>1. IsPartOf(d, e) <=> val[Len(e)] = Len(d)
    BY DEF IsPartOf, takeStep
  <2>2. p = fn(p)
    <3>1. p[0] = 0 /\ \A k \in 1..Len(e) : p[k] = takeStep(d, e, p[k - 1], k)
      BY Zenon DEF IsTaken
    <3>2. \A n \in 0..Len(e) : n = 0 \/ n \in 1..Len(e)
      OBVIOUS
    <3>3. \A n \in 0..Len(e) : p[n] = IF n = 0 THEN 0 ELSE takeStep(d, e, p[n - 1], n)
      BY <3>1, <3>2
    <3> QED
      BY <3>3, Zenon DEF IsTaken
  <2>3. val = fn(val)
    BY <2>2, Zenon
  <2> HIDE DEF val
  <2>4. 0 \in S
    BY <2>3 DEF IsTaken
  <2>5. ASSUME NEW n \in 1..Len(e), n - 1 \in S PROVE n \in S
    <3>1. n \in 0..Len(e) /\ n # 0
      OBVIOUS
    <3>2. val[n] = takeStep(d, e, val[n - 1], n)
      BY <2>3, <3>1
    <3> QED
      BY <2>5, <3>1, <3>2, Zenon DEF IsTaken
  <2>6. Len(e) \in S
    <3> HIDE DEF S
    <3>1. \A n \in 1..Len(e) : n - 1 \in S => n \in S
      BY <2>5
    <3>2. \A n \in 0..Len(e) : n \in S
      BY <2>4, <3>1, Upwards, Zenon
    <3> QED
      BY <3>2
  <2> QED
    BY <2>1, <2>6
<1> TAKE d, e
<1> HAVE PartOf(d, e)
<1>1. PICK T : d \in Seq(T) /\ e \in Seq(T)
  BY InOneSet DEF PartOf
<1>2. PICK f : Embeds(f, d, e)
  BY DEF PartOf
<1>3. Len(d) \in Nat /\ Len(e) \in Nat
  BY <1>1
<1>4. PICK p : IsTaken(d, e, p)
  BY <1>3, <1>TakenExists
<1> DEFINE S == {n \in 0..Len(e) : /\ p[n] \in 0..Len(d)
                                   /\ \A k \in 1..Len(d) : f[k] <= n => k <= p[n]}
<1>5. \A k \in 1..Len(d) : f[k] \in 1..Len(e) /\ d[k] = e[f[k]]
  BY <1>2 DEF Embeds
<1>6. 0 \in S
  <2>1. p[0] = 0
    BY <1>4 DEF IsTaken
  <2> QED
    BY <1>3, <1>5, <2>1
<1>7. ASSUME NEW n \in 1..Len(e), n - 1 \in S PROVE n \in S
  <2> DEFINE q == p[n - 1]
  <2>1. p[n] = takeStep(d, e, q, n)
    BY <1>4 DEF IsTaken
  <2>2. q \in 0..Len(d) /\ \A k \in 1..Len(d) : f[k] <= n - 1 => k <= q
    BY <1>7
  <2> HIDE DEF q
  <2>3. p[n] \in 0..Len(d) /\ q <= p[n]
    BY <1>3, <2>1, <2>2 DEF takeStep
  <2>4. ASSUME NEW k \in 1..Len(d), f[k] <= n PROVE k <= p[n]
    <3>1. CASE f[k] <= n - 1
      BY <1>3, <2>2, <2>3, <3>1
    <3>2. CASE f[k] = n
      <4>1. k - 1 <= q
        <5>1. CASE k = 1
          BY <1>3, <2>2, <5>1
        <5>2. CASE k # 1
          <6>1. k - 1 \in 1..Len(d) /\ k - 1 < k
            BY <1>3, <5>2
          <6>2. f[k - 1] < f[k]
            BY <1>2, <6>1 DEF Embeds
          <6>3. f[k - 1] <= n - 1
            BY <1>5, <3>2, <6>1, <6>2
          <6> QED
            BY <2>2, <6>1, <6>3
        <5> QED
          BY <5>1, <5>2
      <4>2. CASE k <= q
        BY <1>3, <2>2, <2>3, <4>2
      <4>3. CASE ~(k <= q)
        <5>1. q = k - 1 /\ q < Len(d) /\ q + 1 = k
          BY <1>3, <2>2, <4>1, <4>3
        <5>2. d[q + 1] = e[n]
          BY <1>5, <3>2, <5>1
        <5> QED
          BY <2>1, <5>1, <5>2 DEF takeStep
      <4> QED
        BY <4>2, <4>3
    <3> QED
      BY <1>5, <2>4, <3>1, <3>2
  <2> QED
    BY <2>3, <2>4
<1>8. Len(e) \in S
  <2> HIDE DEF S
  <2>1. \A n \in 1..Len(e) : n - 1 \in S => n \in S
    BY <1>7
  <2>2. \A n \in 0..Len(e) : n \in S
    BY <1>3, <1>6, <2>1, Upwards, Zenon
  <2> QED
    BY <1>3, <2>2
<1>9. p[Len(e)] = Len(d)
  <2>1. CASE Len(d) = 0
    BY <1>8, <2>1
  <2>2. CASE Len(d) # 0
    <3>1. Len(d) \in 1..Len(d)
      BY <1>3, <2>2
    <3>2. f[Len(d)] <= Len(e)
      BY <1>3, <1>5, <3>1
    <3> QED
      BY <1>3, <1>8, <3>1, <3>2
  <2> QED
    BY <2>1, <2>2
<1> QED
  BY <1>3, <1>4, <1>9, <1>TakenUnfold

\* A sequence is a part of itself, and so is what it begins with.
LEMMA PartPrefix ==
  ASSUME NEW d, IsSeq(d), NEW k \in 0..Len(d) PROVE PartOf(SubSeq(d, 1, k), d)
<1>1. PICK S : d \in Seq(S)
  BY DEF IsSeq
<1> DEFINE c == SubSeq(d, 1, k)
           f == [i \in 1..k |-> i]
<1>2. Len(d) \in Nat /\ k \in Nat /\ k <= Len(d)
  BY <1>1
<1>3. c \in Seq(S) /\ Len(c) = k /\ \A i \in 1..k : c[i] = d[i]
  BY <1>1, <1>2, SubSeqFacts
<1> HIDE DEF c
<1>4. f \in [1..k -> 1..Len(d)]
  BY <1>2
<1>5. \A i \in 1..k : f[i] = i
  OBVIOUS
<1> HIDE DEF f
<1>6. Embeds(f, c, d)
  BY <1>2, <1>3, <1>4, <1>5 DEF Embeds
<1>7. IsSeq(c)
  BY <1>3 DEF IsSeq
<1>8. PartOf(c, d)
  BY <1>6, <1>7 DEF PartOf
<1> QED
  BY <1>8 DEF c

\* A sequence is part of itself.
LEMMA PartSelf ==
  ASSUME NEW d, IsSeq(d) PROVE PartOf(d, d)
<1>1. PICK S : d \in Seq(S)
  BY DEF IsSeq
<1>2. Len(d) \in 0..Len(d) /\ SubSeq(d, 1, Len(d)) = d
  BY <1>1
<1>3. PartOf(SubSeq(d, 1, Len(d)), d)
  BY <1>2, PartPrefix
<1> QED
  BY <1>2, <1>3, Zenon

\* Nothing is a part of everything.
LEMMA PartNil ==
  ASSUME NEW d, IsSeq(d) PROVE PartOf(<< >>, d)
<1>1. PICK S : d \in Seq(S)
  BY DEF IsSeq
<1>2. 0 \in 0..Len(d) /\ SubSeq(d, 1, 0) = << >>
  BY <1>1
<1> QED
  BY <1>2, PartPrefix, Zenon

\* A part of a part is a part.
LEMMA PartTrans ==
  ASSUME NEW c, NEW d, NEW e, PartOf(c, d), PartOf(d, e) PROVE PartOf(c, e)
<1>1. PICK f : Embeds(f, c, d)
  BY DEF PartOf
<1>2. PICK g : Embeds(g, d, e)
  BY DEF PartOf
<1> DEFINE h == [i \in 1..Len(c) |-> g[f[i]]]
<1>3. \A i \in 1..Len(c) : f[i] \in 1..Len(d) /\ h[i] = g[f[i]] /\ g[f[i]] \in 1..Len(e)
  BY <1>1, <1>2 DEF Embeds
<1>4. h \in [1..Len(c) -> 1..Len(e)]
  BY <1>3
<1> HIDE DEF h
<1>5. ASSUME NEW i \in 1..Len(c), NEW j \in 1..Len(c), i < j PROVE h[i] < h[j]
  <2>1. f[i] < f[j] /\ f[i] \in 1..Len(d) /\ f[j] \in 1..Len(d)
    BY <1>1, <1>3, <1>5 DEF Embeds
  <2>2. g[f[i]] < g[f[j]]
    BY <1>2, <2>1 DEF Embeds
  <2> QED
    BY <1>3, <2>2
<1>6. ASSUME NEW i \in 1..Len(c) PROVE c[i] = e[h[i]]
  BY <1>1, <1>2, <1>3, Zenon DEF Embeds
<1>7. Embeds(h, c, e)
  BY <1>4, <1>5, <1>6 DEF Embeds
<1> QED
  BY <1>7 DEF PartOf

\* Parts, one after the other.
LEMMA PartConcat ==
  ASSUME NEW a, NEW b, NEW c, NEW d, PartOf(a, b), PartOf(c, d) PROVE PartOf(a \o c, b \o d)
<1>1. PICK f : Embeds(f, a, b)
  BY DEF PartOf
<1>2. PICK g : Embeds(g, c, d)
  BY DEF PartOf
<1>3. PICK S : a \in Seq(S) /\ b \in Seq(S)
  BY InOneSet DEF PartOf
<1>4. PICK T : c \in Seq(T) /\ d \in Seq(T)
  BY InOneSet DEF PartOf
<1> DEFINE U == S \cup T
           n == Len(a)
           m == Len(b)
           x == a \o c
           y == b \o d
           h == [i \in 1..(n + Len(c)) |-> IF i <= n THEN f[i] ELSE m + g[i - n]]
<1>5. a \in Seq(U) /\ b \in Seq(U) /\ c \in Seq(U) /\ d \in Seq(U)
  BY <1>3, <1>4
<1>6. n \in Nat /\ m \in Nat /\ Len(c) \in Nat /\ Len(d) \in Nat
  BY <1>5
<1>7. /\ x \in Seq(U) /\ Len(x) = n + Len(c)
      /\ \A i \in 1..(n + Len(c)) : x[i] = IF i <= n THEN a[i] ELSE c[i - n]
  BY <1>5, ConcatFacts
<1>8. /\ y \in Seq(U) /\ Len(y) = m + Len(d)
      /\ \A i \in 1..(m + Len(d)) : y[i] = IF i <= m THEN b[i] ELSE d[i - m]
  BY <1>5, ConcatFacts
<1>9. n = Len(a) /\ m = Len(b)
  OBVIOUS
<1> HIDE DEF x, y, n, m
<1>10. ASSUME NEW i \in 1..(n + Len(c)), i <= n
       PROVE  i \in 1..n /\ h[i] = f[i] /\ f[i] \in 1..m /\ x[i] = y[h[i]]
  <2>1. i \in 1..n /\ h[i] = f[i]
    BY <1>6, <1>10
  <2>2. f[i] \in 1..m /\ a[i] = b[f[i]]
    BY <1>1, <1>9, <2>1 DEF Embeds
  <2>3. f[i] \in 1..(m + Len(d)) /\ f[i] <= m
    BY <1>6, <2>2
  <2>4. x[i] = a[i] /\ y[f[i]] = b[f[i]]
    BY <1>7, <1>8, <1>10, <2>3
  <2> QED
    BY <2>1, <2>2, <2>4
<1>11. ASSUME NEW i \in 1..(n + Len(c)), ~(i <= n)
       PROVE  /\ i - n \in 1..Len(c) /\ h[i] = m + g[i - n] /\ g[i - n] \in 1..Len(d)
              /\ x[i] = y[h[i]]
  <2>1. i - n \in 1..Len(c) /\ h[i] = m + g[i - n]
    BY <1>6, <1>11
  <2>2. g[i - n] \in 1..Len(d) /\ c[i - n] = d[g[i - n]]
    BY <1>2, <2>1 DEF Embeds
  <2> DEFINE k == g[i - n]
  <2>3. k \in 1..Len(d)
    BY <2>2
  <2> HIDE DEF k
  <2>4. m + k \in 1..(m + Len(d)) /\ ~(m + k <= m) /\ (m + k) - m = k
    BY <1>6, <2>3
  <2>5. x[i] = c[i - n] /\ y[m + k] = d[k]
    BY <1>7, <1>8, <1>11, <2>4
  <2> QED
    BY <2>1, <2>2, <2>5 DEF k
<1>12. h = [i \in 1..(n + Len(c)) |-> h[i]]
  OBVIOUS
<1> HIDE DEF h
<1>13. \A i \in 1..(n + Len(c)) : h[i] \in 1..(m + Len(d)) /\ x[i] = y[h[i]]
  <2> SUFFICES ASSUME NEW i \in 1..(n + Len(c)) PROVE h[i] \in 1..(m + Len(d)) /\ x[i] = y[h[i]]
    OBVIOUS
  <2>1. CASE i <= n
    BY <1>6, <1>10, <2>1
  <2>2. CASE ~(i <= n)
    BY <1>6, <1>11, <2>2, SMTT(20)
  <2> QED
    BY <2>1, <2>2
<1>14. ASSUME NEW i \in 1..(n + Len(c)), NEW j \in 1..(n + Len(c)), i < j PROVE h[i] < h[j]
  <2>1. CASE j <= n
    <3>1. i <= n
      BY <1>6, <1>14, <2>1
    <3>2. f[i] < f[j]
      BY <1>1, <1>9, <1>10, <1>14, <2>1, <3>1 DEF Embeds
    <3> QED
      BY <1>10, <2>1, <3>1, <3>2
  <2>2. CASE i <= n /\ ~(j <= n)
    <3>1. h[i] \in 1..m
      BY <1>10, <2>2
    <3>2. h[j] = m + g[j - n] /\ g[j - n] \in 1..Len(d)
      BY <1>11, <2>2
    <3> QED
      BY <1>6, <3>1, <3>2
  <2>3. CASE ~(i <= n) /\ ~(j <= n)
    <3>1. i - n \in 1..Len(c) /\ j - n \in 1..Len(c) /\ i - n < j - n
      BY <1>6, <1>11, <1>14, <2>3
    <3>2. g[i - n] < g[j - n]
      BY <1>2, <3>1 DEF Embeds
    <3>3. h[i] = m + g[i - n] /\ h[j] = m + g[j - n]
      BY <1>11, <2>3
    <3>4. g[i - n] \in 1..Len(d) /\ g[j - n] \in 1..Len(d)
      BY <1>11, <2>3
    <3> QED
      BY <1>6, <3>2, <3>3, <3>4
  <2> QED
    BY <1>6, <1>14, <2>1, <2>2, <2>3
<1>15. Embeds(h, x, y)
  <2>1. h \in [1..Len(x) -> 1..Len(y)]
    BY <1>7, <1>8, <1>12, <1>13, Zenon
  <2> QED
    BY <1>7, <1>13, <1>14, <2>1 DEF Embeds
<1>16. PartOf(x, y)
  BY <1>7, <1>8, <1>15 DEF PartOf, IsSeq
<1> QED
  BY <1>16 DEF x, y


\* Parts of sequences, flattened.
LEMMA FlatPart ==
  \A ss, tt :
  /\ Len(ss) \in Nat
  /\ Len(tt) \in Nat
  /\ \A k \in 1..Len(tt) : IsSeq(tt[k])
  => \A g \in [1..Len(ss) -> 1..Len(tt)] :
  /\ \A i, j \in 1..Len(ss) : i < j => g[i] < g[j]
  /\ \A i \in 1..Len(ss) : PartOf(ss[i], tt[g[i]])
  =>
    PartOf(flatten(ss), flatten(tt))
\* Nothing added, and one sequence after the other.
<1>ConcatNil.
     ASSUME NEW d, IsSeq(d) PROVE d \o << >> = d
  <2> USE <1>ConcatNil
  <2>1. PICK S : d \in Seq(S)
    BY DEF IsSeq
  <2> QED
    BY <2>1
\* Two sequences make one.
<1>ConcatIsSeq.
     ASSUME NEW d, NEW e, IsSeq(d), IsSeq(e) PROVE IsSeq(d \o e)
  <2> USE <1>ConcatIsSeq
  <2>1. PICK S : d \in Seq(S) /\ e \in Seq(S)
    BY InOneSet
  <2>2. d \o e \in Seq(S)
    BY <2>1, ConcatFacts
  <2> QED
    BY <2>2 DEF IsSeq
\* A sequence is a part of itself with something added.
<1>PartLonger.
     ASSUME NEW d, NEW e, IsSeq(d), IsSeq(e) PROVE PartOf(d, d \o e)
  <2> USE <1>PartLonger
  <2>1. PartOf(d \o << >>, d \o e)
    BY PartSelf, PartNil, PartConcat, Zenon
  <2> QED
    BY <2>1, <1>ConcatNil
<1> TAKE ss, tt
<1> HAVE /\ Len(ss) \in Nat
         /\ Len(tt) \in Nat
         /\ \A k \in 1..Len(tt) : IsSeq(tt[k])
<1> TAKE g \in [1..Len(ss) -> 1..Len(tt)]
<1> HAVE /\ \A i, j \in 1..Len(ss) : i < j => g[i] < g[j]
         /\ \A i \in 1..Len(ss) : PartOf(ss[i], tt[g[i]])
<1>1. PICK p : IsJoin(ss, p)
  BY JoinExists
<1>2. PICK q : IsJoin(tt, q)
  BY JoinExists
<1>3. p[0] = << >> /\ \A i \in 1..Len(ss) : p[i] = p[i - 1] \o ss[i]
  BY <1>1, Zenon DEF IsJoin, joinStep
<1>4. q[0] = << >> /\ \A n \in 1..Len(tt) : q[n] = q[n - 1] \o tt[n]
  BY <1>2, Zenon DEF IsJoin, joinStep
<1>5. \A n \in 0..Len(tt) : IsSeq(q[n])
  <2> DEFINE Q == {n \in 0..Len(tt) : IsSeq(q[n])}
  <2>1. 0 \in Q
    <3>1. 0 \in 0..Len(tt)
      OBVIOUS
    <3> QED
      BY <1>4, <3>1, NilIsSeq
  <2>2. ASSUME NEW n \in 1..Len(tt), n - 1 \in Q PROVE n \in Q
    <3>1. IsSeq(q[n - 1] \o tt[n])
      BY <2>2, <1>ConcatIsSeq, Zenon
    <3>2. n \in 0..Len(tt)
      OBVIOUS
    <3> QED
      BY <1>4, <3>1, <3>2, Zenon
  <2>3. \A n \in 1..Len(tt) : n - 1 \in Q => n \in Q
    BY <2>2
  <2> HIDE DEF Q
  <2>4. \A n \in 0..Len(tt) : n \in Q
    BY <2>1, <2>3, Upwards, Zenon
  <2> QED
    BY <2>4 DEF Q
<1> DEFINE S == {n \in 0..Len(tt) :
                   \A i \in 0..Len(ss) : i = 0 \/ g[i] <= n => PartOf(p[i], q[n])}
<1>6. 0 \in S
  <2> SUFFICES ASSUME NEW i \in 0..Len(ss), i = 0 \/ g[i] <= 0 PROVE PartOf(p[i], q[0])
    OBVIOUS
  <2>1. i = 0
    <3>1. i # 0 => g[i] \in 1..Len(tt)
      OBVIOUS
    <3> QED
      BY <3>1
  <2>2. 0 \in 0..Len(tt)
    OBVIOUS
  <2> QED
    BY <1>3, <1>5, <2>1, <2>2, PartNil, Zenon
<1>7. ASSUME NEW n \in 1..Len(tt), n - 1 \in S PROVE n \in S
  <2>1. n \in 0..Len(tt) /\ n - 1 \in 0..Len(tt)
    OBVIOUS
  <2>2. IsSeq(q[n - 1]) /\ IsSeq(q[n]) /\ IsSeq(tt[n]) /\ q[n] = q[n - 1] \o tt[n]
    BY <1>4, <1>5, <2>1, Zenon
  <2>3. PartOf(q[n - 1], q[n])
    BY <2>2, <1>PartLonger, Zenon
  <2>4. ASSUME NEW i \in 0..Len(ss), i = 0 \/ g[i] <= n PROVE PartOf(p[i], q[n])
    <3>1. CASE i = 0
      BY <1>3, <2>2, <3>1, PartNil, Zenon
    <3>2. CASE i # 0 /\ g[i] <= n - 1
      <4>1. PartOf(p[i], q[n - 1])
        BY <1>7, <3>2
      <4> QED
        BY <2>3, <4>1, PartTrans, Zenon
    <3>3. CASE i # 0 /\ g[i] = n
      <4>1. i \in 1..Len(ss) /\ i - 1 \in 0..Len(ss)
        BY <3>3
      <4>2. i - 1 = 0 \/ g[i - 1] <= n - 1
        <5>1. CASE i - 1 # 0
          <6>1. i - 1 \in 1..Len(ss) /\ i - 1 < i
            BY <4>1, <5>1
          <6>2. g[i - 1] < g[i] /\ g[i - 1] \in 1..Len(tt)
            BY <4>1, <6>1, Zenon
          <6> QED
            BY <3>3, <6>2
        <5> QED
          BY <5>1
      <4>3. PartOf(p[i - 1], q[n - 1])
        BY <1>7, <4>1, <4>2
      <4>4. PartOf(ss[i], tt[n])
        BY <3>3, <4>1
      <4>5. PartOf(p[i - 1] \o ss[i], q[n - 1] \o tt[n])
        BY <4>3, <4>4, PartConcat, Zenon
      <4> QED
        BY <1>3, <2>2, <4>1, <4>5, Zenon
    <3>4. i # 0 => g[i] \in 1..Len(tt)
      OBVIOUS
    <3> QED
      BY <2>4, <3>1, <3>2, <3>3, <3>4
  <2> QED
    BY <2>1, <2>4
<1>8. \A n \in 1..Len(tt) : n - 1 \in S => n \in S
  BY <1>7
<1>9. PartOf(p[Len(ss)], q[Len(tt)])
  <2>1. \A i \in 0..Len(ss) : i = 0 \/ g[i] <= Len(tt) => PartOf(p[i], q[Len(tt)])
    <3> HIDE DEF S
    <3>1. \A n \in 0..Len(tt) : n \in S
      BY <1>6, <1>8, Upwards, Zenon
    <3>2. Len(tt) \in S
      BY <3>1
    <3> QED
      BY <3>2 DEF S
  <2>2. Len(ss) \in 0..Len(ss) /\ (Len(ss) # 0 => g[Len(ss)] \in 1..Len(tt))
    OBVIOUS
  <2> QED
    BY <2>1, <2>2
<1>10. flatten(ss) = p[Len(ss)] /\ flatten(tt) = q[Len(tt)]
  BY <1>1, <1>2, JoinUnfold
<1> QED
  BY <1>9, <1>10

-----------------------------------------------------------------------------
(* The sessions of a service. *)

\* told and openedAt, of any log.
heard(L, type, s, pos) == \E i \in 1..pos : L[i].type = type /\ L[i].session = s
opening(L, s) == CHOOSE i \in DOMAIN L : L[i].type = "open" /\ L[i].session = s

\* A session opens once, and closes after that.
OpenOnce(L) ==
  /\ \A i, j \in 1..Len(L) :
       L[i].type = "open" /\ L[j].type = "open" /\ L[i].session = L[j].session => i = j
  /\ \A i \in 1..Len(L) : L[i].type = "close" =>
       \E j \in 1..(i - 1) : L[j].type = "open" /\ L[j].session = L[i].session

\* A log, as the cluster keeps it.
IsLog(L) == Len(L) \in Nat /\ DOMAIN L = 1..Len(L) /\ OpenOnce(L)

\* The sessions that opened after base and are open at pos.
served(L, base, pos) ==
  {s \in SessionIds : heard(L, "open", s, pos) /\ ~heard(L, "close", s, pos) /\ opening(L, s) > base}

\* In the order in which they opened.
InOrder(L, ids) == \A j, k \in 1..Len(ids) : j < k => opening(L, ids[j]) < opening(L, ids[k])

\* A broadcast list of these sessions.
Listed(L, ids, sessions) == ids \in Seq(SessionIds) /\ Range(ids) = sessions /\ InOrder(L, ids)

\* A service that started at base serves what it should at pos.
Serving(L, sessions, ids, base, pos) == sessions = served(L, base, pos) /\ Listed(L, ids, sessions)

\* Where a session opens.
LEMMA OpeningIs ==
  ASSUME NEW L, IsLog(L), NEW i \in 1..Len(L), L[i].type = "open"
  PROVE  opening(L, L[i].session) = i
<1> DEFINE o == opening(L, L[i].session)
<1>1. o \in DOMAIN L /\ L[o].type = "open" /\ L[o].session = L[i].session
  <2>1. i \in DOMAIN L
    BY DEF IsLog
  <2> QED
    BY <2>1, Zenon DEF opening
<1>2. o \in 1..Len(L)
  BY <1>1 DEF IsLog
<1> HIDE DEF o
<1>3. o = i
  BY <1>1, <1>2, Zenon DEF IsLog, OpenOnce
<1> QED
  BY <1>3 DEF o

\* A session that the first pos entries open opened there.
LEMMA OpeningBefore ==
  ASSUME NEW L, IsLog(L), NEW pos \in 0..Len(L), NEW s, heard(L, "open", s, pos)
  PROVE  /\ opening(L, s) \in 1..pos
         /\ L[opening(L, s)].type = "open" /\ L[opening(L, s)].session = s
<1>1. PICK i \in 1..pos : L[i].type = "open" /\ L[i].session = s
  BY DEF heard
<1>2. Len(L) \in Nat
  BY DEF IsLog
<1>3. i \in 1..Len(L)
  BY <1>2
<1>4. opening(L, s) = i
  BY <1>1, <1>3, OpeningIs
<1> QED
  BY <1>1, <1>4

\* One more entry is heard.
LEMMA HeardStep ==
  ASSUME NEW L, NEW pos \in Nat, NEW type, NEW s
  PROVE  heard(L, type, s, pos + 1) <=>
           heard(L, type, s, pos) \/ (L[pos + 1].type = type /\ L[pos + 1].session = s)
<1>1. \A i : i \in 1..(pos + 1) <=> i \in 1..pos \/ i = pos + 1
  OBVIOUS
<1> QED
  BY <1>1, Zenon DEF heard

\* Sessions that are served have a place in the log.
LEMMA ServedOpened ==
  ASSUME NEW L, IsLog(L), NEW pos \in 0..Len(L), NEW sessions, NEW ids, NEW base,
         Serving(L, sessions, ids, base, pos), NEW j \in 1..Len(ids)
  PROVE  ids[j] \in SessionIds /\ ids[j] \in served(L, base, pos) /\ opening(L, ids[j]) \in 1..pos
<1>1. ids \in Seq(SessionIds) /\ Range(ids) = served(L, base, pos)
  BY DEF Serving, Listed
<1>2. ids[j] \in Range(ids)
  BY <1>1, RangeIs
<1>3. ids[j] \in served(L, base, pos) /\ ids[j] \in SessionIds
  BY <1>1, <1>2
<1>4. heard(L, "open", ids[j], pos)
  BY <1>3 DEF served
<1> QED
  BY <1>3, <1>4, OpeningBefore

\* OnSessionOpen.
LEMMA ServeOpen ==
  \A L : IsLog(L) => \A base \in Nat, pos \in Nat :
  (pos + 1 \in 1..Len(L) /\ base <= pos /\ L[pos + 1].type = "open") =>
  \A id \in SessionIds : id = L[pos + 1].session => \A sessions, ids :
  Serving(L, sessions, ids, base, pos) =>
    Serving(L, sessions \cup {id}, Append(ids, id), base, pos + 1)
\* A session is not closed before it opens.
<1>NotClosedYet.
     ASSUME NEW L, IsLog(L), NEW p \in 1..Len(L), L[p].type = "open"
     PROVE  ~heard(L, "close", L[p].session, p)
  <2> USE <1>NotClosedYet
  <2> SUFFICES ASSUME NEW i \in 1..p, L[i].type = "close", L[i].session = L[p].session
               PROVE  FALSE
    BY DEF heard
  <2>1. i \in 1..Len(L) /\ Len(L) \in Nat
    BY DEF IsLog
  <2>2. PICK j \in 1..(i - 1) : L[j].type = "open" /\ L[j].session = L[i].session
    BY <2>1 DEF IsLog, OpenOnce
  <2>3. j \in 1..Len(L)
    BY <2>1
  <2>4. j = p
    BY <2>2, <2>3 DEF IsLog, OpenOnce
  <2> QED
    BY <2>1, <2>4
<1> TAKE L
<1> HAVE IsLog(L)
<1> TAKE base \in Nat, pos \in Nat
<1> HAVE pos + 1 \in 1..Len(L) /\ base <= pos /\ L[pos + 1].type = "open"
<1> TAKE id \in SessionIds
<1> HAVE id = L[pos + 1].session
<1> TAKE sessions, ids
<1> HAVE Serving(L, sessions, ids, base, pos)
<1>0. Len(L) \in Nat /\ pos \in 0..Len(L)
  BY DEF IsLog
<1>1. opening(L, id) = pos + 1 /\ ~heard(L, "close", id, pos + 1)
  BY OpeningIs, <1>NotClosedYet
<1>2. ASSUME NEW x
      PROVE  /\ heard(L, "open", x, pos + 1) <=> heard(L, "open", x, pos) \/ x = id
             /\ heard(L, "close", x, pos + 1) <=> heard(L, "close", x, pos)
  BY HeardStep, Zenon
<1>3. served(L, base, pos + 1) = served(L, base, pos) \cup {id}
  <2>1. opening(L, id) > base
    BY <1>1
  <2>2. ASSUME NEW x \in SessionIds
        PROVE  x \in served(L, base, pos + 1) <=> x \in served(L, base, pos) \/ x = id
    <3>1. CASE x = id
      BY <1>1, <1>2, <2>1, <3>1 DEF served
    <3>2. CASE x # id
      BY <1>2, <3>2 DEF served
    <3> QED
      BY <3>1, <3>2
  <2>3. served(L, base, pos + 1) \subseteq SessionIds /\ served(L, base, pos) \subseteq SessionIds
    BY DEF served
  <2> QED
    BY <2>2, <2>3, Zenon
<1>4. sessions = served(L, base, pos) /\ ids \in Seq(SessionIds) /\ Range(ids) = sessions
  BY DEF Serving, Listed
<1>5. /\ Append(ids, id) \in Seq(SessionIds) /\ Len(Append(ids, id)) = Len(ids) + 1
      /\ \A j \in 1..Len(ids) : Append(ids, id)[j] = ids[j]
      /\ Append(ids, id)[Len(ids) + 1] = id /\ Len(ids) \in Nat
  BY <1>4, AppendFacts
<1>6. Range(Append(ids, id)) = sessions \cup {id}
  BY <1>4, RangeWith
<1>7. InOrder(L, Append(ids, id))
  <2> SUFFICES ASSUME NEW j \in 1..(Len(ids) + 1), NEW k \in 1..(Len(ids) + 1), j < k
               PROVE  opening(L, Append(ids, id)[j]) < opening(L, Append(ids, id)[k])
    BY <1>5, Zenon DEF InOrder
  <2>1. j \in 1..Len(ids) /\ Append(ids, id)[j] = ids[j]
    BY <1>5
  <2>2. CASE k \in 1..Len(ids)
    <3>1. opening(L, ids[j]) < opening(L, ids[k])
      BY <2>1, <2>2, Zenon DEF Serving, Listed, InOrder
    <3> QED
      BY <1>5, <2>1, <2>2, <3>1, Zenon
  <2>3. CASE k = Len(ids) + 1
    <3>1. opening(L, ids[j]) \in 1..pos
      BY <1>0, <2>1, ServedOpened
    <3> QED
      BY <1>1, <1>5, <2>1, <2>3, <3>1
  <2> QED
    BY <1>5, <2>2, <2>3
<1> QED
  BY <1>3, <1>4, <1>5, <1>6, <1>7, Zenon DEF Serving, Listed

\* OnSessionClose.
LEMMA ServeClose ==
  \A L : IsLog(L) => \A base : \A pos \in Nat :
  (pos + 1 \in 1..Len(L) /\ L[pos + 1].type = "close") => \A id :
  id = L[pos + 1].session => \A sessions, ids :
  Serving(L, sessions, ids, base, pos) =>
    Serving(L, sessions \ {id}, withoutFirst(ids, id), base, pos + 1)
\* Removing an element that occurs once removes it from the elements.
<1>RangeWithout.
     ASSUME NEW S, NEW s \in Seq(S), NEW i \in 1..Len(s),
            \A j \in 1..Len(s) : j # i => s[j] # s[i]
     PROVE  Range(removeAt(s, i)) = Range(s) \ {s[i]}
  <2> USE <1>RangeWithout
  <2> DEFINE r == removeAt(s, i)
             at(j) == IF j < i THEN j ELSE j + 1
             back(j) == IF j < i THEN j ELSE j - 1
  <2>1. /\ r \in Seq(S) /\ Len(r) = Len(s) - 1
        /\ \A j \in 1..(Len(s) - 1) : r[j] = s[at(j)]
    BY RemoveAtFacts, Zenon
  <2>2. Range(r) = {r[j] : j \in 1..Len(r)} /\ Range(s) = {s[j] : j \in 1..Len(s)}
    BY <2>1, RangeIs
  <2> HIDE DEF r
  <2>3. \A j \in 1..Len(r) : at(j) \in 1..Len(s) /\ at(j) # i /\ r[j] = s[at(j)]
    BY <2>1
  <2>4. \A j \in 1..Len(s) : j # i =>
          back(j) \in 1..Len(r) /\ at(back(j)) = j
    BY <2>1
  <2>5. \A j \in 1..Len(s) : j # i => \E m \in 1..Len(r) : r[m] = s[j]
    BY <2>3, <2>4, Zenon
  <2> HIDE DEF at, back
  <2>6. Range(r) \subseteq Range(s) \ {s[i]}
    BY <2>2, <2>3
  <2>7. Range(s) \ {s[i]} \subseteq Range(r)
    BY <2>2, <2>5
  <2>8. QED
    BY <2>6, <2>7 DEF r
\* OnSessionClose takes the session off the list, which has it at most once.
<1>ListClose.
     ASSUME NEW L, IsLog(L), NEW base, NEW pos \in 0..Len(L), NEW id,
            NEW sessions, NEW ids, Serving(L, sessions, ids, base, pos)
     PROVE  Listed(L, withoutFirst(ids, id), sessions \ {id})
  <2> USE <1>ListClose
  <2> DEFINE at == {k \in DOMAIN ids : ids[k] = id}
  <2>1. /\ ids \in Seq(SessionIds) /\ Range(ids) = sessions /\ InOrder(L, ids)
        /\ Len(ids) \in Nat /\ DOMAIN ids = 1..Len(ids)
    BY DEF Serving, Listed
  <2>2. Range(ids) = {ids[j] : j \in 1..Len(ids)}
    BY <2>1, RangeIs
  <2>3. CASE at = {}
    <3>1. withoutFirst(ids, id) = ids
      BY <2>3 DEF withoutFirst
    <3>2. id \notin Range(ids)
      BY <2>1, <2>2, <2>3
    <3> QED
      BY <2>1, <3>1, <3>2 DEF Listed
  <2>4. ASSUME NEW k \in at PROVE withoutFirst(ids, id) = removeAt(ids, k) /\ k \in 1..Len(ids)
                               /\ ids[k] = id /\ \A j \in 1..Len(ids) : j # k => ids[j] # id
    <3>1. k \in 1..Len(ids) /\ ids[k] = id
      BY <2>1, <2>4
    <3>2. ASSUME NEW j \in 1..Len(ids), j # k PROVE ids[j] # id
      <4>1. opening(L, ids[j]) \in 1..pos /\ opening(L, ids[k]) \in 1..pos
        BY <3>1, ServedOpened
      <4>2. opening(L, ids[j]) < opening(L, ids[k]) \/ opening(L, ids[k]) < opening(L, ids[j])
        BY <2>1, <3>1, <3>2 DEF InOrder
      <4>3. opening(L, ids[j]) # opening(L, ids[k])
        BY <4>1, <4>2
      <4> QED
        BY <3>1, <4>3
    <3>3. at = {k}
      BY <2>1, <3>1, <3>2
    <3>4. Min(at) = k
      BY <3>1, <3>3 DEF Min
    <3>5. withoutFirst(ids, id) = removeAt(ids, Min(at))
      BY <3>3 DEF withoutFirst
    <3> QED
      BY <3>1, <3>2, <3>4, <3>5
  <2>5. CASE at # {}
    <3>1. PICK k \in at : TRUE
      BY <2>5
    <3> DEFINE r == removeAt(ids, k)
               from(j) == IF j < k THEN j ELSE j + 1
    <3>2. /\ withoutFirst(ids, id) = r /\ k \in 1..Len(ids) /\ ids[k] = id
          /\ \A j \in 1..Len(ids) : j # k => ids[j] # id
      BY <2>4, SMTT(20)
    <3>3. r \in Seq(SessionIds) /\ Len(r) = Len(ids) - 1
          /\ \A j \in 1..(Len(ids) - 1) : r[j] = ids[from(j)]
      BY <2>1, <3>2, RemoveAtFacts, Zenon
    <3>4. Range(r) = sessions \ {id}
      BY <2>1, <3>2, <1>RangeWithout
    <3> HIDE DEF r
    <3>5. ASSUME NEW i \in 1..Len(r), NEW j \in 1..Len(r), i < j
          PROVE  opening(L, r[i]) < opening(L, r[j])
      <4>1. /\ from(i) \in 1..Len(ids) /\ from(j) \in 1..Len(ids) /\ from(i) < from(j)
            /\ i \in 1..(Len(ids) - 1) /\ j \in 1..(Len(ids) - 1)
        BY <2>1, <3>2, <3>3, <3>5
      <4> HIDE DEF from
      <4>2. opening(L, ids[from(i)]) < opening(L, ids[from(j)])
        BY <2>1, <4>1 DEF InOrder
      <4> QED
        BY <3>3, <4>1, <4>2, Zenon
    <3>6. InOrder(L, r)
      BY <3>5 DEF InOrder
    <3> QED
      BY <3>2, <3>3, <3>4, <3>6 DEF Listed
  <2> QED
    BY <2>3, <2>5
<1> TAKE L
<1> HAVE IsLog(L)
<1> TAKE base
<1> TAKE pos \in Nat
<1> HAVE pos + 1 \in 1..Len(L) /\ L[pos + 1].type = "close"
<1> TAKE id
<1> HAVE id = L[pos + 1].session
<1> TAKE sessions, ids
<1> HAVE Serving(L, sessions, ids, base, pos)
<1>0. Len(L) \in Nat /\ pos \in 0..Len(L)
  BY DEF IsLog
<1>2. ASSUME NEW x
      PROVE  /\ heard(L, "open", x, pos + 1) <=> heard(L, "open", x, pos)
             /\ heard(L, "close", x, pos + 1) <=> heard(L, "close", x, pos) \/ x = id
  BY HeardStep
<1>3. served(L, base, pos + 1) = served(L, base, pos) \ {id}
  <2>1. ASSUME NEW x
        PROVE  x \in served(L, base, pos + 1) <=> x \in served(L, base, pos) /\ x # id
    BY <1>2 DEF served
  <2> QED
    BY <2>1, Zenon
<1>4. sessions = served(L, base, pos)
  BY DEF Serving, Listed
<1>5. Listed(L, withoutFirst(ids, id), sessions \ {id})
  BY <1>0, <1>ListClose, Zenon
<1> QED
  BY <1>3, <1>4, <1>5, Zenon DEF Serving, Listed

\* An entry of another type tells a service nothing of sessions.
LEMMA ServeOther ==
  ASSUME NEW L, NEW base, NEW pos \in Nat, L[pos + 1].type \notin {"open", "close"},
         NEW sessions, NEW ids, Serving(L, sessions, ids, base, pos)
  PROVE  Serving(L, sessions, ids, base, pos + 1)
<1>1. ASSUME NEW x
      PROVE  /\ heard(L, "open", x, pos + 1) <=> heard(L, "open", x, pos)
             /\ heard(L, "close", x, pos + 1) <=> heard(L, "close", x, pos)
  BY HeardStep
<1>2. served(L, base, pos + 1) = served(L, base, pos)
  BY <1>1 DEF served
<1> QED
  BY <1>2, Zenon DEF Serving, Listed

\* OnStart: nothing opened since the position that a service starts from.
LEMMA ServeStart ==
  ASSUME NEW L, IsLog(L), NEW pos \in 0..Len(L)
  PROVE  Serving(L, {}, << >>, pos, pos)
<1>1. served(L, pos, pos) = {}
  <2> SUFFICES ASSUME NEW s \in served(L, pos, pos) PROVE FALSE
    OBVIOUS
  <2>1. heard(L, "open", s, pos) /\ opening(L, s) > pos
    BY DEF served
  <2>2. opening(L, s) \in 1..pos /\ pos \in Nat
    BY <2>1, OpeningBefore
  <2> QED
    BY <2>1, <2>2
<1>2. << >> \in Seq(SessionIds) /\ Len(<< >>) = 0
  OBVIOUS
<1>3. InOrder(L, << >>)
  BY <1>2 DEF InOrder
<1> QED
  BY <1>1, <1>2, <1>3, RangeOfNil, Zenon DEF Serving, Listed

\* The log has one more entry.
Longer(K, L) == Len(K) = Len(L) + 1 /\ \A i \in 1..Len(L) : K[i] = L[i]

\* It makes no difference to a service that has not got to it.
LEMMA ServeLonger ==
  ASSUME NEW L, IsLog(L), NEW K, IsLog(K), Longer(K, L), NEW base, NEW pos \in 0..Len(L),
         NEW sessions, NEW ids, Serving(L, sessions, ids, base, pos)
  PROVE  Serving(K, sessions, ids, base, pos)
<1>0. /\ Len(L) \in Nat /\ Len(K) = Len(L) + 1 /\ pos \in 0..Len(K)
      /\ \A i \in 1..Len(L) : K[i] = L[i]
  BY DEF IsLog, Longer
<1>1. ASSUME NEW s, NEW type PROVE heard(K, type, s, pos) <=> heard(L, type, s, pos)
  <2>1. \A i \in 1..pos : K[i] = L[i]
    BY <1>0
  <2> QED
    BY <2>1, Zenon DEF heard
<1>2. ASSUME NEW s, heard(L, "open", s, pos) PROVE opening(K, s) = opening(L, s)
  <2>1. /\ opening(L, s) \in 1..pos
        /\ L[opening(L, s)].type = "open" /\ L[opening(L, s)].session = s
    BY <1>2, OpeningBefore, Zenon
  <2> DEFINE o == opening(L, s)
  <2> HIDE DEF o
  <2>2. o \in 1..Len(L) /\ o \in 1..Len(K)
    BY <1>0, <2>1 DEF o
  <2>3. K[o].type = "open" /\ K[o].session = s
    BY <1>0, <2>1, <2>2 DEF o
  <2>4. opening(K, s) = o
    BY <2>2, <2>3, OpeningIs
  <2> QED
    BY <2>4 DEF o
<1>3. served(K, base, pos) = served(L, base, pos)
  <2>1. ASSUME NEW s PROVE s \in served(K, base, pos) <=> s \in served(L, base, pos)
    BY <1>1, <1>2, Zenon DEF served
  <2> QED
    BY <2>1, Zenon
<1>4. \A j \in 1..Len(ids) : opening(K, ids[j]) = opening(L, ids[j])
  <2> SUFFICES ASSUME NEW j \in 1..Len(ids) PROVE opening(K, ids[j]) = opening(L, ids[j])
    OBVIOUS
  <2>1. heard(L, "open", ids[j], pos)
    BY ServedOpened DEF served
  <2> QED
    BY <1>2, <2>1
<1>5. InOrder(K, ids)
  BY <1>4, Zenon DEF Serving, Listed, InOrder
<1> QED
  BY <1>3, <1>5, Zenon DEF Serving, Listed

\* What the cluster agrees on keeps sessions opening once, and closing after that.
LEMMA LongerLog ==
  ASSUME NEW L, IsLog(L), NEW K, DOMAIN K = 1..Len(K), Longer(K, L), NEW e, K[Len(L) + 1] = e,
         e.type = "open" => ~heard(L, "open", e.session, Len(L)),
         e.type = "close" => heard(L, "open", e.session, Len(L))
  PROVE  IsLog(K)
<1> DEFINE n == Len(L) + 1
<1>0. Len(L) \in Nat /\ Len(K) = n /\ K[n] = e /\ \A i \in 1..Len(L) : K[i] = L[i]
  BY DEF IsLog, Longer
<1>1. \A i \in 1..Len(K) : i \in 1..Len(L) \/ i = n
  BY <1>0
<1>2. ASSUME NEW i \in 1..Len(K), NEW j \in 1..Len(K),
             K[i].type = "open", K[j].type = "open", K[i].session = K[j].session
      PROVE  i = j
  <2>1. CASE i \in 1..Len(L) /\ j \in 1..Len(L)
    BY <1>0, <1>2, <2>1 DEF IsLog, OpenOnce
  <2>2. ASSUME NEW k \in 1..Len(L), K[k].type = "open", e.type = "open", K[k].session = e.session
        PROVE  FALSE
    BY <1>0, <2>2, Zenon DEF heard
  <2>3. CASE i = n /\ j \in 1..Len(L)
    BY <1>0, <1>2, <2>2, <2>3, Zenon
  <2>4. CASE i \in 1..Len(L) /\ j = n
    BY <1>0, <1>2, <2>2, <2>4, Zenon
  <2> QED
    BY <1>1, <2>1, <2>3, <2>4, Zenon
<1>3. ASSUME NEW i \in 1..Len(K), K[i].type = "close"
      PROVE  \E j \in 1..(i - 1) : K[j].type = "open" /\ K[j].session = K[i].session
  <2>1. CASE i \in 1..Len(L)
    <3>1. PICK j \in 1..(i - 1) : L[j].type = "open" /\ L[j].session = L[i].session
      BY <1>0, <1>3, <2>1 DEF IsLog, OpenOnce
    <3>2. j \in 1..Len(L)
      BY <1>0, <2>1
    <3> QED
      BY <1>0, <2>1, <3>1, <3>2
  <2>2. CASE i = n
    <3>1. PICK j \in 1..Len(L) : L[j].type = "open" /\ L[j].session = e.session
      BY <1>0, <1>3, <2>2 DEF heard
    <3>2. i - 1 = Len(L)
      BY <1>0, <2>2
    <3> QED
      BY <1>0, <2>2, <3>1, <3>2
  <2> QED
    BY <1>1, <2>1, <2>2, Zenon
<1>4. Len(K) \in Nat
  BY <1>0
<1> QED
  BY <1>2, <1>3, <1>4 DEF IsLog, OpenOnce

-----------------------------------------------------------------------------
(* The offers of a service that knows less. *)

\* One element.
LEMMA OneIsSeq ==
  ASSUME NEW x PROVE IsSeq(<<x>>)
<1>1. <<x>> \in Seq({x})
  OBVIOUS
<1> QED
  BY <1>1, Zenon DEF IsSeq

\* Service x serves some of the sessions of y, in the same order.
Knows(y, x) == x.sessions \subseteq y.sessions /\ PartOf(x.sessionIds, y.sessionIds)

\* sendTo, by a service that knows less.
LEMMA SendPart ==
  ASSUME NEW x, NEW y, Knows(y, x), NEW id, NEW frame
  PROVE  PartOf(sendTo(x, id, frame), sendTo(y, id, frame))
<1> DEFINE one == << [to |-> id, frame |-> frame] >>
<1>1. IsSeq(one) /\ PartOf(one, one)
  BY OneIsSeq, PartSelf
<1>2. IsSeq(<< >>)
  BY NilIsSeq
<1>3. PartOf(<< >>, one) /\ PartOf(<< >>, << >>)
  BY <1>1, <1>2, PartNil
<1> HIDE DEF one
<1>4. sendTo(x, id, frame) = (IF id \in x.sessions THEN one ELSE << >>)
  BY Zenon DEF sendTo, one
<1>5. sendTo(y, id, frame) = (IF id \in y.sessions THEN one ELSE << >>)
  BY Zenon DEF sendTo, one
<1>6. id \in x.sessions => id \in y.sessions
  BY DEF Knows
<1> QED
  BY <1>1, <1>3, <1>4, <1>5, <1>6, Zenon

\* The frames for a session, of a part of the offers.
LEMMA FramesPart ==
  ASSUME NEW a, NEW b, PartOf(a, b), NEW s
  PROVE  PartOf(framesFor(a, s), framesFor(b, s))
<1> DEFINE frameOf(o) == IF o.to = s THEN << o.frame >> ELSE << >>
           ss == [k \in DOMAIN a |-> frameOf(a[k])]
           tt == [k \in DOMAIN b |-> frameOf(b[k])]
<1>1. PICK T : a \in Seq(T) /\ b \in Seq(T)
  BY InOneSet DEF PartOf
<1>2. PICK f : Embeds(f, a, b)
  BY DEF PartOf
<1>3. DOMAIN a = 1..Len(a) /\ DOMAIN b = 1..Len(b) /\ Len(a) \in Nat /\ Len(b) \in Nat
  BY <1>1
<1>4. framesFor(a, s) = flatten(ss) /\ framesFor(b, s) = flatten(tt)
  BY DEF framesFor
<1>5. ASSUME NEW o PROVE IsSeq(frameOf(o)) /\ PartOf(frameOf(o), frameOf(o))
  <2>2. IsSeq(<< >>)
    BY NilIsSeq
  <2>3. IsSeq(<< o.frame >>)
    BY OneIsSeq
  <2>4. IsSeq(frameOf(o))
    BY <2>2, <2>3, Zenon
  <2> QED
    BY <2>4, PartSelf
<1> HIDE DEF frameOf
<1>6. \A k \in 1..Len(a) : ss[k] = frameOf(a[k])
  BY <1>3
<1>7. \A k \in 1..Len(b) : tt[k] = frameOf(b[k])
  BY <1>3
<1>8. ss = [k \in 1..Len(a) |-> ss[k]] /\ tt = [k \in 1..Len(b) |-> tt[k]]
  BY <1>3
<1> HIDE DEF ss, tt
<1>9. Len(ss) = Len(a) /\ Len(tt) = Len(b)
  BY <1>3, <1>8
<1>10. \A i \in 1..Len(a) : f[i] \in 1..Len(b) /\ a[i] = b[f[i]]
  BY <1>2 DEF Embeds
<1>11. ASSUME NEW i \in 1..Len(a) PROVE PartOf(ss[i], tt[f[i]])
  <2>1. ss[i] = frameOf(a[i]) /\ tt[f[i]] = frameOf(b[f[i]]) /\ a[i] = b[f[i]]
    BY <1>6, <1>7, <1>10
  <2> QED
    BY <1>5, <2>1
<1>12. \A i \in 1..Len(b) : IsSeq(tt[i])
  BY <1>5, <1>7, Zenon
<1>13. f \in [1..Len(a) -> 1..Len(b)] /\ \A i, j \in 1..Len(a) : i < j => f[i] < f[j]
  BY <1>2, Zenon DEF Embeds
<1>14. PartOf(flatten(ss), flatten(tt))
  BY <1>3, <1>9, <1>11, <1>12, <1>13, FlatPart, Zenon
<1> QED
  BY <1>4, <1>14

\* The offers of route, of a service that knows less.
LEMMA RoutePart ==
  \A x, y : Knows(y, x) => \A events : IsSeq(events) => \A t :
    PartOf(route(x, events, t), route(y, events, t))
\* broadcast, by a service that knows less.
<1>BroadcastPart.
     ASSUME NEW x, NEW y, Knows(y, x), NEW frame
     PROVE  PartOf(broadcast(x, frame), broadcast(y, frame))
  <2> USE <1>BroadcastPart
  <2> DEFINE a == x.sessionIds
             b == y.sessionIds
             ss == [k \in DOMAIN a |-> sendTo(x, a[k], frame)]
             tt == [k \in DOMAIN b |-> sendTo(y, b[k], frame)]
  <2>1. PICK T : a \in Seq(T) /\ b \in Seq(T)
    BY InOneSet DEF Knows, PartOf
  <2>2. PICK f : Embeds(f, a, b)
    BY DEF Knows, PartOf
  <2>3. DOMAIN a = 1..Len(a) /\ DOMAIN b = 1..Len(b) /\ Len(a) \in Nat /\ Len(b) \in Nat
    BY <2>1
  <2>4. \A k \in 1..Len(a) : ss[k] = sendTo(x, a[k], frame)
    BY <2>3
  <2>5. \A k \in 1..Len(b) : tt[k] = sendTo(y, b[k], frame)
    BY <2>3
  <2>6. broadcast(x, frame) = flatten(ss) /\ broadcast(y, frame) = flatten(tt)
    BY DEF broadcast
  <2>7. ss = [k \in 1..Len(a) |-> ss[k]] /\ tt = [k \in 1..Len(b) |-> tt[k]]
    BY <2>3
  <2> HIDE DEF ss, tt
  <2>8. Len(ss) = Len(a) /\ Len(tt) = Len(b)
    BY <2>3, <2>7
  <2>9. \A i \in 1..Len(a) : f[i] \in 1..Len(b) /\ a[i] = b[f[i]]
    BY <2>2 DEF Embeds
  <2>10. \A i \in 1..Len(a) : PartOf(ss[i], tt[f[i]])
    BY <2>4, <2>5, <2>9, SendPart
  <2>11. \A i \in 1..Len(b) : IsSeq(tt[i])
    BY <2>5, SendPart, Zenon DEF PartOf
  <2>12. f \in [1..Len(a) -> 1..Len(b)] /\ \A i, j \in 1..Len(a) : i < j => f[i] < f[j]
    BY <2>2, Zenon DEF Embeds
  <2>13. PartOf(flatten(ss), flatten(tt))
    BY <2>3, <2>8, <2>10, <2>11, <2>12, FlatPart, Zenon
  <2> QED
    BY <2>6, <2>13
\* The offers for an event, by a service that knows less.
<1>OffersPart.
     ASSUME NEW x, NEW y, Knows(y, x), NEW ev, NEW t
     PROVE  PartOf(offersOf(x, ev, t), offersOf(y, ev, t))
  BY <1>OffersPart, SendPart, <1>BroadcastPart, Zenon DEF offersOf
\* What route gets to is a sequence.
<1>RoutableIs.
     ASSUME NEW events, IsSeq(events) PROVE IsSeq(routable(events))
  <2> USE <1>RoutableIs
  <2> DEFINE bad == {i \in DOMAIN events : mustEncodePanics(events[i])}
  <2>1. PICK S : events \in Seq(S)
    BY DEF IsSeq
  <2>2. DOMAIN events = 1..Len(events) /\ Len(events) \in Nat
    BY <2>1
  <2>3. bad \subseteq 1..Len(events)
    BY <2>2
  <2>4. routable(events) = IF bad = {} THEN events ELSE SubSeq(events, 1, Min(bad) - 1)
    BY DEF routable
  <2> HIDE DEF bad
  <2>5. CASE bad = {}
    BY <2>4, <2>5
  <2>6. CASE bad # {}
    <3> DEFINE m == Min(bad)
    <3>1. m \in bad
      <4>1. bad \subseteq Nat
        BY <2>3
      <4>2. \E x \in bad : \A y \in bad : x <= y
        BY <2>6, <4>1, Least, Zenon
      <4> QED
        BY <4>2, Zenon DEF Min
    <3> HIDE DEF m
    <3>5. m \in 1..Len(events)
      BY <2>3, <3>1, Zenon
    <3>2. m - 1 \in Int /\ \A i \in 1..(m - 1) : i \in 1..Len(events)
      BY <2>2, <3>5
    <3>3. \A i \in 1..(m - 1) : events[i] \in S
      BY <2>1, <3>2
    <3>4. SubSeq(events, 1, m - 1) \in Seq(S)
      BY <3>2, <3>3, SubSeqFacts
    <3> QED
      BY <2>4, <2>6, <3>4, Zenon DEF m, IsSeq
  <2> QED
    BY <2>5, <2>6
<1> TAKE x, y
<1> HAVE Knows(y, x)
<1> TAKE events
<1> HAVE IsSeq(events)
<1> TAKE t
<1> DEFINE evs == routable(events)
           n == Len(evs)
           ss == [i \in DOMAIN evs |-> offersOf(x, events[i], t)]
           tt == [i \in DOMAIN evs |-> offersOf(y, events[i], t)]
           g == [i \in 1..n |-> i]
<1>1. PICK S : evs \in Seq(S)
  BY <1>RoutableIs DEF IsSeq
<1>2. route(x, events, t) = flatten(ss) /\ route(y, events, t) = flatten(tt)
  BY Zenon DEF route
<1> HIDE DEF evs
<1>3. DOMAIN evs = 1..n /\ n \in Nat
  BY <1>1
<1> HIDE DEF n
<1>4. \A i \in 1..n : ss[i] = offersOf(x, events[i], t) /\ tt[i] = offersOf(y, events[i], t)
  BY <1>3
<1>5. ss = [i \in 1..n |-> ss[i]] /\ tt = [i \in 1..n |-> tt[i]]
  BY <1>3
<1> HIDE DEF ss, tt
<1>6. Len(ss) = n /\ Len(tt) = n
  BY <1>3, <1>5
<1>7. \A i \in 1..n : PartOf(ss[i], tt[i])
  BY <1>4, <1>OffersPart, Zenon
<1>8. \A i \in 1..n : IsSeq(tt[i])
  BY <1>7, Zenon DEF PartOf
<1>9. g \in [1..n -> 1..n] /\ \A i \in 1..n : g[i] = i
  OBVIOUS
<1> HIDE DEF g
<1>10. \A i \in 1..n : PartOf(ss[i], tt[g[i]])
  BY <1>7, <1>9
<1>11. \A i, j \in 1..n : i < j => g[i] < g[j]
  BY <1>9
<1>12. PartOf(flatten(ss), flatten(tt))
  BY <1>3, <1>6, <1>8, <1>9, <1>10, <1>11, FlatPart, Zenon
<1> QED
  BY <1>2, <1>12

\* A service that started later knows less.
LEMMA KnowsMore ==
  ASSUME NEW L, IsLog(L), NEW base \in Nat, NEW pos \in 0..Len(L), NEW x, NEW y,
         Serving(L, x.sessions, x.sessionIds, base, pos),
         Serving(L, y.sessions, y.sessionIds, 0, pos)
  PROVE  Knows(y, x)
<1> DEFINE a == x.sessionIds
           b == y.sessionIds
<1>1. /\ x.sessions = served(L, base, pos) /\ y.sessions = served(L, 0, pos)
      /\ a \in Seq(SessionIds) /\ Range(a) = x.sessions /\ InOrder(L, a)
      /\ b \in Seq(SessionIds) /\ Range(b) = y.sessions /\ InOrder(L, b)
  BY Zenon DEF Serving, Listed
<1>2. Len(a) \in Nat /\ Len(b) \in Nat /\ Range(b) = {b[k] : k \in 1..Len(b)}
  BY <1>1, RangeIs
<1>3. ASSUME NEW s \in x.sessions PROVE s \in y.sessions
  <2>1. /\ s \in SessionIds /\ heard(L, "open", s, pos) /\ ~heard(L, "close", s, pos)
    BY <1>1, <1>3, Zenon DEF served
  <2>2. opening(L, s) \in 1..pos
    BY <2>1, OpeningBefore
  <2>3. opening(L, s) > 0
    BY <2>2
  <2> QED
    BY <1>1, <2>1, <2>3, Zenon DEF served
<1>4. \A j \in 1..Len(a) : a[j] \in x.sessions
  <2>1. \A j \in 1..Len(a) : a[j] \in served(L, base, pos)
    BY ServedOpened, Zenon
  <2> QED
    BY <1>1, <2>1, Zenon
<1>5. \A k \in 1..Len(b) : opening(L, b[k]) \in 1..pos
  BY ServedOpened, Zenon
<1> HIDE DEF a, b
<1>6. \A j \in 1..Len(a) : \E k \in 1..Len(b) : b[k] = a[j]
  BY <1>1, <1>2, <1>3, <1>4, Zenon
<1> DEFINE f == [j \in 1..Len(a) |-> CHOOSE k \in 1..Len(b) : b[k] = a[j]]
<1>7. \A j \in 1..Len(a) : f[j] \in 1..Len(b) /\ b[f[j]] = a[j]
  BY <1>6, Zenon
<1>8. f = [j \in 1..Len(a) |-> f[j]]
  OBVIOUS
<1> HIDE DEF f
<1>9. f \in [1..Len(a) -> 1..Len(b)]
  BY <1>7, <1>8
<1>10. ASSUME NEW i \in 1..Len(a), NEW j \in 1..Len(a), i < j PROVE f[i] < f[j]
  <2> SUFFICES ASSUME ~(f[i] < f[j]) PROVE FALSE
    BY Zenon
  <2>1. opening(L, b[f[i]]) < opening(L, b[f[j]])
    BY <1>1, <1>7, <1>10, Zenon DEF InOrder
  <2>2. f[i] \in 1..Len(b) /\ f[j] \in 1..Len(b)
    BY <1>7
  <2>3. opening(L, b[f[i]]) \in 1..pos /\ opening(L, b[f[j]]) \in 1..pos
    BY <1>5, <2>2, Zenon
  <2>4. CASE f[i] = f[j]
    BY <2>1, <2>3, <2>4
  <2>5. CASE f[j] < f[i]
    <3>1. opening(L, b[f[j]]) < opening(L, b[f[i]])
      BY <1>1, <2>2, <2>5, SMTT(20) DEF InOrder
    <3> QED
      BY <2>1, <2>3, <3>1
  <2> QED
    BY <1>2, <2>2, <2>4, <2>5
<1>11. Embeds(f, a, b)
  BY <1>7, <1>9, <1>10, Zenon DEF Embeds
<1>12. IsSeq(a) /\ IsSeq(b)
  BY <1>1, Zenon DEF IsSeq
<1>13. PartOf(a, b)
  BY <1>11, <1>12, Zenon DEF PartOf
<1> QED
  BY <1>3, <1>13 DEF Knows, a, b
=============================================================================
