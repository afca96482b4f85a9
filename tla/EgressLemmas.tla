--------------------------- MODULE EgressLemmas ----------------------------
(***************************************************************************)
(* The sessions that the nodes of module Cluster serve, and what they got  *)
(* of the egress: the steps of the inductive invariant EInv, from what     *)
(* module ClusterLemmas shows of services and books.                       *)
(***************************************************************************)
EXTENDS ClusterLemmas

-----------------------------------------------------------------------------
(* The sessions of the nodes' services. *)

\* A node that is up serves the sessions it should.
Serves(L, r) ==
  r.status = "up" =>
    r.base \in Nat /\ r.base <= r.pos /\ Serving(L, r.svc.sessions, r.svc.sessionIds, r.base, r.pos)

\* All nodes do, and sessions open once.
SInv == OpenOnce(log) /\ \A n \in Nodes : Serves(log, node[n])

\* The log, as the lemmas about sessions take it.
LEMMA LogIsLog ==
  ASSUME CTypeOK, SInv PROVE IsLog(log)
BY DEF CTypeOK, SInv, IsLog

\* A record with the sessions of a service.
LEMMA ServesIf ==
  ASSUME NEW status, NEW base, NEW pos, NEW svc, NEW sessions, NEW ids,
         svc.sessions = sessions, svc.sessionIds = ids,
         status = "up" => base \in Nat /\ base <= pos /\ Serving(log, sessions, ids, base, pos)
  PROVE  Serves(log, [status |-> status, base |-> base, pos |-> pos, svc |-> svc])
<1> DEFINE r == [status |-> status, base |-> base, pos |-> pos, svc |-> svc]
<1>1. r.status = status /\ r.base = base /\ r.pos = pos /\ r.svc = svc
  OBVIOUS
<1> HIDE DEF r
<1>2. Serves(log, r)
  BY <1>1, Zenon DEF Serves
<1> QED
  BY <1>2 DEF r

\* What a step of a node has to show.
LEMMA ServesStep ==
  ASSUME CTypeOK, SInv, log' = log, NEW n \in Nodes, NEW status, NEW base, NEW pos, NEW svc,
         becomes(n, status, base, pos, svc), NEW sessions, NEW ids,
         svc.sessions = sessions, svc.sessionIds = ids,
         status = "up" => base \in Nat /\ base <= pos /\ Serving(log, sessions, ids, base, pos)
  PROVE  SInv'
<1> DEFINE new == [status |-> status, base |-> base, pos |-> pos, svc |-> svc]
<1>1. Serves(log, new)
  BY ServesIf
<1>2. node' = [node EXCEPT ![n] = new] /\ node = [m \in Nodes |-> node[m]]
  BY DEF becomes, CTypeOK
<1> HIDE DEF new
<1>3. \A m \in Nodes : node'[m] = IF m = n THEN new ELSE node[m]
  BY <1>2
<1>4. \A m \in Nodes : Serves(log, node'[m])
  BY <1>1, <1>3, Zenon DEF SInv
<1>5. OpenOnce(log)
  BY DEF SInv
<1> QED
  BY <1>4, <1>5, Zenon DEF SInv

\* A node that is up and behind.
LEMMA DueEntry ==
  ASSUME CTypeOK, SInv, NEW n \in Nodes, NEW type, upcoming(n, type)
  PROVE  /\ node[n].status = "up" /\ node[n].pos \in Nat /\ node[n].pos + 1 \in 1..Len(log)
         /\ log[node[n].pos + 1].type = type
         /\ type \in {"open", "close"} => log[node[n].pos + 1].session \in SessionIds
         /\ node[n].base \in Nat /\ node[n].base <= node[n].pos
         /\ node[n].base <= node[n].pos + 1
         /\ Serving(log, node[n].svc.sessions, node[n].svc.sessionIds, node[n].base, node[n].pos)
<1>1. node[n].status = "up" /\ node[n].pos < Len(log) /\ log[node[n].pos + 1].type = type
  BY DEF upcoming
<1>2. node[n].pos \in 0..Len(log) /\ Len(log) \in Nat /\ log \in Seq(Entry)
  BY DEF CTypeOK
<1>3. node[n].pos \in Nat /\ node[n].pos + 1 \in 1..Len(log)
  BY <1>1, <1>2
<1>4. log[node[n].pos + 1] \in Entry
  BY <1>2, <1>3
<1>5. type \in {"open", "close"} => log[node[n].pos + 1].session \in SessionIds
  BY <1>1, <1>4 DEF Entry
<1>6. /\ node[n].base \in Nat /\ node[n].base <= node[n].pos
      /\ Serving(log, node[n].svc.sessions, node[n].svc.sessionIds, node[n].base, node[n].pos)
  BY <1>1 DEF SInv, Serves
<1>7. node[n].base <= node[n].pos + 1
  BY <1>3, <1>6
<1> QED
  BY <1>1, <1>3, <1>5, <1>6, <1>7, Zenon

\* OnSessionOpen and OnSessionClose.
LEMMA ServesSession ==
  ASSUME CTypeOK, SInv, NEW n \in Nodes, HandleOpen(n) \/ HandleClose(n)
  PROVE  SInv'
<1> DEFINE p == node[n].pos
           base == node[n].base
           svc == node[n].svc
           id == log[p + 1].session
<1>0. IsLog(log) /\ log' = log /\ IsService(svc)
  BY LogIsLog DEF HandleOpen, HandleClose, CTypeOK
<1>1. CASE HandleOpen(n)
  <2> DEFINE new == OnSessionOpen(svc, id)
             sessions == svc.sessions \cup {id}
             ids == Append(svc.sessionIds, id)
  <2>1. upcoming(n, "open") /\ advance(n, new)
    BY <1>1 DEF HandleOpen
  <2>2. becomes(n, node[n].status, base, p + 1, new)
    BY <2>1, Updates, Zenon
  <2>3. /\ p \in Nat /\ p + 1 \in 1..Len(log) /\ log[p + 1].type = "open" /\ id \in SessionIds
        /\ base \in Nat /\ base <= p /\ base <= p + 1
        /\ Serving(log, svc.sessions, svc.sessionIds, base, p)
    BY <2>1, DueEntry
  <2>4. Serving(log, sessions, ids, base, p + 1)
    BY <1>0, <2>3, ServeOpen, Zenon
  <2>5. new = [book |-> svc.book, sessions |-> sessions, sessionIds |-> ids]
    BY <1>0, ServiceForms, Zenon
  <2> HIDE DEF new, sessions, ids
  <2>6. new.sessions = sessions /\ new.sessionIds = ids
    BY <2>5
  <2> QED
    BY <1>0, <2>2, <2>3, <2>4, <2>6, ServesStep, Zenon
<1>2. CASE HandleClose(n)
  <2> DEFINE new == OnSessionClose(svc, id)
             sessions == svc.sessions \ {id}
             ids == withoutFirst(svc.sessionIds, id)
  <2>1. upcoming(n, "close") /\ advance(n, new)
    BY <1>2 DEF HandleClose
  <2>2. becomes(n, node[n].status, base, p + 1, new)
    BY <2>1, Updates, Zenon
  <2>3. /\ p \in Nat /\ p + 1 \in 1..Len(log) /\ log[p + 1].type = "close"
        /\ base \in Nat /\ base <= p + 1
        /\ Serving(log, svc.sessions, svc.sessionIds, base, p)
    BY <2>1, DueEntry
  <2>4. Serving(log, sessions, ids, base, p + 1)
    BY <1>0, <2>3, ServeClose, Zenon
  <2>5. new = [book |-> svc.book, sessions |-> sessions, sessionIds |-> ids]
    BY <1>0, ServiceForms, Zenon
  <2> HIDE DEF new, sessions, ids
  <2>6. new.sessions = sessions /\ new.sessionIds = ids
    BY <2>5
  <2> QED
    BY <1>0, <2>2, <2>3, <2>4, <2>6, ServesStep, Zenon
<1> QED
  BY <1>1, <1>2, Zenon

\* OnSessionMessage and OnTakeSnapshot.
LEMMA ServesOther ==
  ASSUME CTypeOK, SInv, NEW n \in Nodes, HandleMessage(n) \/ HandleSnapshot(n)
  PROVE  SInv'
<1> DEFINE p == node[n].pos
           base == node[n].base
           svc == node[n].svc
<1>0. log' = log /\ IsService(svc)
  BY Zenon DEF HandleMessage, HandleSnapshot, CTypeOK
<1>1. PICK type \in {"message", "snapshot"} : upcoming(n, type)
  <2>1. upcoming(n, "message") \/ upcoming(n, "snapshot")
    BY Zenon DEF HandleMessage, HandleSnapshot
  <2> QED
    BY <2>1, Zenon
<1>2. /\ p \in Nat /\ log[p + 1].type \notin {"open", "close"}
      /\ base \in Nat /\ base <= p + 1
      /\ Serving(log, svc.sessions, svc.sessionIds, base, p)
  BY <1>1, DueEntry
<1>3. Serving(log, svc.sessions, svc.sessionIds, base, p + 1)
  BY <1>2, ServeOther
<1>4. PICK st, new : /\ becomes(n, st, base, p + 1, new)
                     /\ new.sessions = svc.sessions /\ new.sessionIds = svc.sessionIds
  <2>1. CASE HandleSnapshot(n)
    <3>1. advance(n, svc)
      BY <2>1 DEF HandleSnapshot
    <3>2. becomes(n, node[n].status, base, p + 1, svc)
      BY <3>1, Updates, Zenon
    <3> QED
      BY <3>2, Zenon
  <2>2. CASE HandleMessage(n)
    <3> DEFINE book == OnSessionMessage(svc, log[p + 1].session, log[p + 1].msg).book
               new == [svc EXCEPT !.book = book]
    <3>1. PICK st : handled(n, p + 1, book, st)
      BY <2>2, Zenon DEF HandleMessage, handled
    <3> HIDE DEF book
    <3>2. becomes(n, st, base, p + 1, new)
      BY <3>1, Updates, Zenon
    <3>3. new = [book |-> book, sessions |-> svc.sessions, sessionIds |-> svc.sessionIds]
      BY <1>0, ServiceForms, Zenon
    <3> HIDE DEF new
    <3>4. new.sessions = svc.sessions /\ new.sessionIds = svc.sessionIds
      BY <3>3
    <3> QED
      BY <3>2, <3>4, Zenon
  <2> QED
    BY <2>1, <2>2
<1> QED
  BY <1>0, <1>2, <1>3, <1>4, ServesStep, Zenon

\* The lists that a restart of the node gives to the service.
LEMMA ServeReopened ==
  ASSUME IsLog(log), NEW pos \in 0..Len(log), NEW ids \in openIds(pos)
  PROVE  Serving(log, Range(ids), ids, 0, pos)
<1>1. PICK k \in 0..pos : ids \in [1..k -> SessionIds]
  BY Zenon DEF openIds
<1>2. k \in Nat /\ Len(log) \in Nat
  BY DEF IsLog
<1>3. ids \in Seq(SessionIds) /\ DOMAIN ids = 1..Len(ids)
  BY <1>1, <1>2
<1>4. ASSUME NEW s, NEW type
      PROVE  heard(log, type, s, pos) = told(type, s, pos) /\ opening(log, s) = openedAt(s)
  BY Zenon DEF heard, told, opening, openedAt
<1>5. Range(ids) = openAfter(pos) /\ InOrder(log, ids)
  <2>1. /\ Range(ids) = openAfter(pos)
        /\ \A i, j \in DOMAIN ids : i < j => openedAt(ids[i]) < openedAt(ids[j])
    BY Zenon DEF openIds
  <2> QED
    BY <1>3, <1>4, <2>1, Zenon DEF InOrder
<1>6. ASSUME NEW s, heard(log, "open", s, pos) PROVE opening(log, s) > 0
  <2>1. opening(log, s) \in 1..pos
    BY <1>6, OpeningBefore, Zenon
  <2> QED
    BY <1>2, <2>1
<1>7. openAfter(pos) = served(log, 0, pos)
  BY <1>4, <1>6, Zenon DEF openAfter, served
<1> QED
  BY <1>3, <1>5, <1>7, Zenon DEF Serving, Listed

\* A process ends, or one starts, with the sessions that are to come or, when the
\* node restarts, those that are open.
LEMMA ServesProcess ==
  ASSUME CTypeOK, SInv, NEW n \in Nodes,
         Crash(n) \/ CrashInRoute(n) \/ StartEmpty(n) \/ StartRestored(n) \/ StartNode(n)
  PROVE  SInv'
<1>0. log' = log /\ IsLog(log) /\ Len(log) \in Nat
  BY LogIsLog, Zenon DEF Crash, CrashInRoute, StartEmpty, StartRestored, StartNode, IsLog
<1>1. ASSUME NEW st, st # "up", marked(n, st) PROVE SInv'
  <2>1. becomes(n, st, node[n].base, node[n].pos, node[n].svc)
    BY <1>1, Updates, Zenon
  <2>2. PICK sessions, ids : node[n].svc.sessions = sessions /\ node[n].svc.sessionIds = ids
    BY Zenon
  <2> QED
    BY <1>0, <1>1, <2>1, <2>2, ServesStep
<1>2. ASSUME NEW pos \in 0..Len(log), NEW book, node' = [node EXCEPT ![n] = started(pos, book)]
      PROVE  SInv'
  <2> DEFINE svc == [NewMatchingService EXCEPT !.book = book]
  <2>1. becomes(n, "up", pos, pos, svc)
    BY <1>2, Zenon DEF started, becomes
  <2>2. svc.sessions = {} /\ svc.sessionIds = << >>
    BY DEF NewMatchingService
  <2> HIDE DEF svc
  <2>3. Serving(log, {}, << >>, pos, pos)
    BY <1>0, ServeStart
  <2>4. pos \in Nat /\ pos <= pos
    BY <1>0
  <2> QED
    BY <1>0, <2>1, <2>2, <2>3, <2>4, ServesStep, Zenon
<1>3. CASE Crash(n) \/ CrashInRoute(n)
  <2>1. marked(n, "down") /\ "down" # "up"
    BY <1>3, Zenon DEF Crash, CrashInRoute, marked
  <2> QED
    BY <1>1, <2>1, Zenon
<1>4. CASE StartEmpty(n)
  <2>1. node' = [node EXCEPT ![n] = started(0, NewOrderBook)] /\ 0 \in 0..Len(log)
    BY <1>0, <1>4 DEF StartEmpty
  <2> QED
    BY <1>2, <2>1, Zenon
<1>5. CASE StartRestored(n) /\ readable(disk[n].stream)
  <2>1. node' = [node EXCEPT ![n] = started(disk[n].pos, RestoreOrderBook(disk[n].stream))]
    BY <1>5, Zenon DEF StartRestored
  <2>2. disk[n].pos \in 0..Len(log)
    BY DEF CTypeOK
  <2> QED
    BY <1>2, <2>1, <2>2, Zenon
<1>6. CASE StartRestored(n) /\ ~readable(disk[n].stream)
  <2>1. marked(n, "panicked") /\ "panicked" # "up"
    BY <1>6 DEF StartRestored, marked
  <2> QED
    BY <1>1, <2>1, Zenon
<1>7. CASE StartNode(n)
  <2> DEFINE pos == disk[n].pos
             book == RestoreOrderBook(disk[n].stream)
  <2>1. PICK ids \in openIds(pos) : node' = [node EXCEPT ![n] = reopened(pos, book, ids)]
    BY <1>7, Zenon DEF StartNode
  <2>2. pos \in 0..Len(log)
    BY DEF CTypeOK
  <2> DEFINE svc == [book |-> book, sessions |-> Range(ids), sessionIds |-> ids]
  <2>3. becomes(n, "up", 0, pos, svc)
    BY <2>1, Zenon DEF reopened, becomes
  <2> HIDE DEF book, pos
  <2>4. svc.sessions = Range(ids) /\ svc.sessionIds = ids
    OBVIOUS
  <2> HIDE DEF svc
  <2>5. Serving(log, Range(ids), ids, 0, pos)
    BY <1>0, <2>1, <2>2, ServeReopened, Zenon
  <2>6. 0 \in Nat /\ 0 <= pos
    BY <1>0, <2>2
  <2> QED
    BY <1>0, <2>3, <2>4, <2>5, <2>6, ServesStep, Zenon
<1> QED
  BY <1>3, <1>4, <1>5, <1>6, <1>7, Zenon

\* The cluster agrees on an entry: one that opens a session only if no other did,
\* and one that closes a session only if it has opened.
LEMMA ServesAgree ==
  ASSUME CTypeOK, SInv, NEW e, e \in Entry, Agree(e),
         e.type = "open" => ~told("open", e.session, Len(log)),
         e.type = "close" => told("open", e.session, Len(log))
  PROVE  SInv'
<1>1. log' = Append(log, e) /\ node' = node /\ log \in Seq(Entry)
  BY DEF Agree, CTypeOK
<1> DEFINE K == Append(log, e)
<1>2. K \in Seq(Entry) /\ Longer(K, log) /\ K[Len(log) + 1] = e
  BY <1>1, AppendFacts DEF Longer
<1> HIDE DEF K
<1>3. DOMAIN K = 1..Len(K)
  BY <1>2
<1>4. IsLog(log)
  BY LogIsLog
<1>5. IsLog(K)
  <2>1. ASSUME NEW type PROVE heard(log, type, e.session, Len(log)) <=> told(type, e.session, Len(log))
    BY Zenon DEF heard, told
  <2> QED
    BY <1>2, <1>3, <1>4, <2>1, LongerLog
<1>6. ASSUME NEW n \in Nodes PROVE Serves(K, node[n])
  <2>1. node[n].pos \in 0..Len(log)
    BY DEF CTypeOK
  <2>2. Serves(log, node[n])
    BY DEF SInv
  <2> DEFINE r == node[n]
  <2>3. ASSUME r.status = "up"
        PROVE  /\ r.base \in Nat /\ r.base <= r.pos
               /\ Serving(K, r.svc.sessions, r.svc.sessionIds, r.base, r.pos)
    <3>1. /\ r.base \in Nat /\ r.base <= r.pos
          /\ Serving(log, r.svc.sessions, r.svc.sessionIds, r.base, r.pos)
      BY <2>2, <2>3, Zenon DEF Serves
    <3>2. ASSUME NEW base, NEW pos \in 0..Len(log), NEW sessions, NEW ids,
                 Serving(log, sessions, ids, base, pos)
          PROVE  Serving(K, sessions, ids, base, pos)
      BY <1>2, <1>4, <1>5, <3>2, ServeLonger, Zenon
    <3> QED
      BY <2>1, <3>1, <3>2, Zenon
  <2> QED
    BY <2>3, Zenon DEF Serves
<1>7. OpenOnce(K)
  BY <1>5 DEF IsLog
<1>8. log' = K
  BY <1>1 DEF K
<1> QED
  BY <1>1, <1>6, <1>7, <1>8, Zenon DEF SInv

\* At first, an entry for each of the sessions that are open then.
LEMMA FirstSessions ==
  ASSUME CTypeOK, ClusterInit
  PROVE  /\ IsLog(log) /\ \A i \in 1..Len(log) : log[i].type = "open" /\ ideal[i].offers = << >>
         /\ \A i \in 0..Len(log) :
              Serving(log, idealAt(i).svc.sessions, idealAt(i).svc.sessionIds, 0, i)
<1> DEFINE N == Len(Sessions)
           known(i) == idealAt(i).svc.sessions
           ids(i) == idealAt(i).svc.sessionIds
<1>1. /\ N \in Nat /\ DOMAIN Sessions = 1..N /\ Sessions \in Seq(SessionIds)
      /\ \A i, j \in 1..N : Sessions[i] = Sessions[j] => i = j
  <2>1. Sessions \in Seq(Range(Sessions)) /\ Range(Sessions) \subseteq SessionIds
    BY SessionsAssumption DEF SessionIds
  <2> QED
    BY <2>1, SessionsAssumption
<1>2. log = [i \in 1..N |-> [type |-> "open", session |-> Sessions[i]]]
  BY <1>1 DEF ClusterInit, Opened
<1>3. /\ Len(log) = N /\ DOMAIN log = 1..N
      /\ \A i \in 1..N : log[i].type = "open" /\ log[i].session = Sessions[i]
  <2>1. DOMAIN log = 1..N /\ Len(log) \in Nat /\ DOMAIN log = 1..Len(log)
    BY <1>2 DEF CTypeOK
  <2> QED
    BY <1>1, <1>2, <2>1
<1>4. IsLog(log)
  BY <1>1, <1>3 DEF IsLog, OpenOnce
<1> HIDE DEF N
<1>5. known(0) = {} /\ ids(0) = << >>
  BY DEF idealAt, Ideal0, NewMatchingService
<1>6. ASSUME NEW i \in 1..N
      PROVE  /\ known(i) = Range(SubSeq(Sessions, 1, i)) /\ ids(i) = SubSeq(Sessions, 1, i)
             /\ ideal[i].offers = << >>
  <2> DEFINE prefix == SubSeq(Sessions, 1, i)
             b == NewOrderBook
             some == Range(prefix)
  <2>1. i \in DOMAIN Opened /\ i # 0
    BY <1>1 DEF Opened
  <2>2. ideal = [j \in DOMAIN Opened |->
           [svc |-> [book |-> NewOrderBook, sessions |-> Range(SubSeq(Sessions, 1, j)),
                     sessionIds |-> SubSeq(Sessions, 1, j)],
            offers |-> << >>]]
    BY DEF ClusterInit
  <2>3. ideal[i] = [svc |-> [book |-> b, sessions |-> some, sessionIds |-> prefix],
                    offers |-> << >>]
    BY <2>1, <2>2, Zenon
  <2> HIDE DEF prefix, b, some
  <2>4. ideal[i].svc.sessions = some /\ ideal[i].svc.sessionIds = prefix /\ ideal[i].offers = << >>
    BY <2>3
  <2>5. idealAt(i) = ideal[i]
    BY <2>1 DEF idealAt
  <2> QED
    BY <2>4, <2>5 DEF prefix, some
<1> DEFINE S == {i \in 0..N : Serving(log, known(i), ids(i), 0, i)}
<1>7. 0 \in S
  <2>1. 0 \in 0..N /\ 0 \in 0..Len(log)
    BY <1>1, <1>3
  <2>2. Serving(log, {}, << >>, 0, 0)
    BY <1>4, <2>1, ServeStart
  <2> HIDE DEF known, ids
  <2> QED
    BY <1>5, <2>1, <2>2, Zenon
<1>8. ASSUME NEW i \in 1..N, i - 1 \in S PROVE i \in S
  <2> DEFINE p == i - 1
             s == Sessions[i]
             pre == SubSeq(Sessions, 1, p)
  <2>1. p \in Nat /\ p + 1 = i /\ p + 1 \in 1..Len(log) /\ 0 <= p /\ 0 \in Nat /\ i \in 0..N
    BY <1>1, <1>3
  <2>2. s \in SessionIds /\ s = log[i].session /\ log[i].type = "open"
    BY <1>1, <1>3
  <2>3. pre \in Seq(SessionIds) /\ SubSeq(Sessions, 1, i) = Append(pre, s)
    BY <1>1, <2>1
  <2>4. ids(p) = pre /\ known(p) = Range(pre)
    <3>1. CASE p = 0
      <4>1. pre = << >>
        BY <1>1, <3>1
      <4> QED
        BY <1>5, <3>1, <4>1, RangeOfNil, Zenon
    <3>2. CASE p # 0
      <4>1. p \in 1..N
        BY <1>1, <2>1, <3>2
      <4> HIDE DEF p, known, ids
      <4> QED
        BY <1>6, <4>1
    <3> QED
      BY <3>1, <3>2
  <2>5. Serving(log, known(p), ids(p), 0, p)
    BY <1>8
  <2> HIDE DEF known, ids, p
  <2>6. Serving(log, known(p) \cup {s}, Append(ids(p), s), 0, p + 1)
    BY <1>4, <2>1, <2>2, <2>5, ServeOpen, Zenon
  <2>7. Range(Append(pre, s)) = Range(pre) \cup {s}
    <3> HIDE DEF pre, s
    <3> QED
      BY <2>2, <2>3, RangeWith
  <2>8. known(i) = known(p) \cup {s} /\ ids(i) = Append(ids(p), s)
    <3>1. known(i) = Range(SubSeq(Sessions, 1, i)) /\ ids(i) = SubSeq(Sessions, 1, i)
      BY <1>6
    <3> QED
      BY <2>3, <2>4, <2>7, <3>1, Zenon
  <2>9. Serving(log, known(i), ids(i), 0, i)
    BY <2>1, <2>6, <2>8, Zenon
  <2> QED
    BY <2>1, <2>9
<1>9. \A i \in 1..N : i - 1 \in S => i \in S
  BY <1>8
<1>10. \A i \in 0..N : Serving(log, known(i), ids(i), 0, i)
  <2> HIDE DEF S
  <2>1. \A i \in 0..N : i \in S
    BY <1>1, <1>7, <1>9, Upwards, Zenon
  <2> QED
    BY <2>1, Zenon DEF S
<1> QED
  BY <1>3, <1>4, <1>6, <1>10

\* So every node serves them.
LEMMA SInvInit ==
  ASSUME CTypeOK, ClusterInit PROVE SInv
<1> DEFINE N == Len(log)
           svc == idealAt(N).svc
<1>1. N \in Nat /\ 0 \in Nat /\ 0 <= N /\ N \in 0..N
  BY DEF CTypeOK
<1>2. IsLog(log) /\ Serving(log, svc.sessions, svc.sessionIds, 0, N)
  BY <1>1, FirstSessions
<1>3. ASSUME NEW n \in Nodes PROVE Serves(log, node[n])
  <2>1. node[n] = [status |-> "up", base |-> 0, pos |-> N, svc |-> svc]
    BY DEF ClusterInit
  <2> HIDE DEF N, svc
  <2>2. Serves(log, [status |-> "up", base |-> 0, pos |-> N, svc |-> svc])
    BY <1>1, <1>2, ServesIf, Zenon
  <2> QED
    BY <2>1, <2>2, Zenon
<1> QED
  BY <1>2, <1>3 DEF SInv, IsLog

\* The invariant is inductive, given the types: one step per action.
LEMMA SInvNext ==
  ASSUME CTypeOK, SInv, [ClusterNext]_clusterVars
  PROVE  SInv'
<1>1. ASSUME NEW s \in SessionIds, OpenSession(s) \/ CloseSession(s) PROVE SInv'
  <2> DEFINE opens == [type |-> "open", session |-> s]
             closes == [type |-> "close", session |-> s]
  <2>1. /\ opens \in Entry /\ opens.type = "open" /\ opens.session = s
        /\ closes \in Entry /\ closes.type = "close" /\ closes.session = s
        /\ opens.type # "close" /\ closes.type # "open"
    BY DEF Entry
  <2>2. CASE OpenSession(s)
    <3>1. ~told("open", s, Len(log)) /\ Agree(opens)
      BY <2>2, Zenon DEF OpenSession
    <3> HIDE DEF opens
    <3> QED
      BY <2>1, <3>1, ServesAgree
  <2>3. CASE CloseSession(s)
    <3>1. told("open", s, Len(log)) /\ Agree(closes)
      BY <2>3, Zenon DEF CloseSession, isOpen
    <3> HIDE DEF closes
    <3> QED
      BY <2>1, <3>1, ServesAgree
  <2> QED
    BY <1>1, <2>2, <2>3
<1>2. ASSUME NEW m \in Messages, Ingress(m[1], m[2]) PROVE SInv'
  <2> DEFINE e == [type |-> "message", session |-> m[1], msg |-> m[2]]
  <2>1. e \in Entry /\ e.type \notin {"open", "close"}
    BY DEF Entry
  <2>2. Agree(e)
    BY <1>2, Zenon DEF Ingress
  <2> HIDE DEF e
  <2> QED
    BY <2>1, <2>2, ServesAgree
<1>3. CASE RequestSnapshot
  <2> DEFINE e == [type |-> "snapshot"]
  <2>1. e \in Entry /\ e.type \notin {"open", "close"}
    BY DEF Entry
  <2>2. Agree(e)
    BY <1>3, Zenon DEF RequestSnapshot
  <2> HIDE DEF e
  <2> QED
    BY <2>1, <2>2, ServesAgree
<1>4. ASSUME NEW n \in Nodes, Elect(n) PROVE SInv'
  BY <1>4 DEF Elect, SInv
<1>5. ASSUME NEW n \in Nodes, Crash(n) \/ CrashInRoute(n) \/ Handle(n) PROVE SInv'
  BY <1>5, ServesSession, ServesOther, ServesProcess, Zenon DEF Handle
<1>6. CASE UNCHANGED clusterVars
  BY <1>6 DEF clusterVars, SInv
<1> QED
  BY <1>1, <1>2, <1>3, <1>4, <1>5, <1>6, Zenon DEF ClusterNext

-----------------------------------------------------------------------------
(* What a service that never fails sends. *)

\* The offers of the ideal service for an entry.
Offered(i) ==
  /\ IsSeq(ideal[i].offers)
  /\ log[i].type = "message" =>
       ideal[i].offers =
         route(idealAt(i - 1).svc,
               OnSessionMessage(idealAt(i - 1).svc, log[i].session, log[i].msg).events, i)

\* The ideal service serves every session that is open.
Recorded ==
  /\ \A i \in 0..Len(log) :
       Serving(log, idealAt(i).svc.sessions, idealAt(i).svc.sessionIds, 0, i)
  /\ \A i \in 1..Len(log) : Offered(i)

\* At first.
LEMMA RecordedInit ==
  ASSUME CTypeOK, ClusterInit PROVE Recorded
<1>1. ASSUME NEW i \in 1..Len(log) PROVE Offered(i)
  <2>1. log[i].type = "open" /\ ideal[i].offers = << >>
    BY FirstSessions
  <2>2. "open" # "message"
    OBVIOUS
  <2> QED
    BY <2>1, <2>2, NilIsSeq, Zenon DEF Offered
<1> QED
  BY <1>1, FirstSessions DEF Recorded

\* One more entry.
LEMMA IdealServes ==
  ASSUME EngineSound, NEW r, IsService(r.svc), Sound(r.svc.book), NEW e \in Entry,
         NEW L, IsLog(L), NEW pos \in Nat, pos + 1 \in 1..Len(L), L[pos + 1] = e,
         Serving(L, r.svc.sessions, r.svc.sessionIds, 0, pos),
         NEW next, next = idealStep(r, e, pos + 1)
  PROVE  /\ Serving(L, next.svc.sessions, next.svc.sessionIds, 0, pos + 1)
         /\ IsSeq(next.offers)
         /\ e.type = "message" =>
              next.offers = route(r.svc, OnSessionMessage(r.svc, e.session, e.msg).events, pos + 1)
<1> DEFINE svc == r.svc
<1>0. e.type \in {"open", "close", "message", "snapshot"} /\ 0 \in Nat /\ 0 <= pos
  BY DEF Entry
<1>1. CASE e.type = "open"
  <2> DEFINE sessions == svc.sessions \cup {e.session}
             ids == Append(svc.sessionIds, e.session)
  <2>1. next.svc = OnSessionOpen(svc, e.session) /\ next.offers = << >>
    BY <1>1 DEF idealStep
  <2>2. e.session \in SessionIds
    BY <1>1 DEF Entry
  <2>3. Serving(L, sessions, ids, 0, pos + 1)
    BY <1>0, <1>1, <2>2, ServeOpen, Zenon
  <2>4. next.svc = [book |-> svc.book, sessions |-> sessions, sessionIds |-> ids]
    BY <2>1, ServiceForms, Zenon
  <2> HIDE DEF sessions, ids
  <2>5. next.svc.sessions = sessions /\ next.svc.sessionIds = ids
    BY <2>4
  <2> QED
    BY <1>1, <2>1, <2>3, <2>5, NilIsSeq, Zenon
<1>2. CASE e.type = "close"
  <2> DEFINE sessions == svc.sessions \ {e.session}
             ids == withoutFirst(svc.sessionIds, e.session)
  <2>1. next.svc = OnSessionClose(svc, e.session) /\ next.offers = << >>
    BY <1>2 DEF idealStep
  <2>3. Serving(L, sessions, ids, 0, pos + 1)
    BY <1>0, <1>2, ServeClose, Zenon
  <2>4. next.svc = [book |-> svc.book, sessions |-> sessions, sessionIds |-> ids]
    BY <2>1, ServiceForms, Zenon
  <2> HIDE DEF sessions, ids
  <2>5. next.svc.sessions = sessions /\ next.svc.sessionIds = ids
    BY <2>4
  <2> QED
    BY <1>2, <2>1, <2>3, <2>5, NilIsSeq, Zenon
<1>3. CASE e.type \in {"message", "snapshot"}
  <2>1. Serving(L, svc.sessions, svc.sessionIds, 0, pos + 1)
    BY <1>3, ServeOther, Zenon
  <2>2. CASE e.type = "snapshot"
    <3>1. next.svc = svc /\ next.offers = << >>
      BY <2>2 DEF idealStep
    <3> QED
      BY <2>1, <2>2, <3>1, NilIsSeq, Zenon
  <2>3. CASE e.type = "message"
    <3> DEFINE m == OnSessionMessage(svc, e.session, e.msg)
               b == m.book
    <3>1. next.svc = [svc EXCEPT !.book = b] /\ next.offers = route(svc, m.events, pos + 1)
      BY <2>3 DEF idealStep
    <3>2. PICK x \in Messages : e.msg = x[2]
      BY <2>3, SMTT(20) DEF Entry
    <3>3. IsSeq(m.events)
      BY <3>2, MessageSound, Zenon
    <3> HIDE DEF b
    <3>4. next.svc = [book |-> b, sessions |-> svc.sessions, sessionIds |-> svc.sessionIds]
      BY <3>1, ServiceForms, Zenon
    <3>5. next.svc.sessions = svc.sessions /\ next.svc.sessionIds = svc.sessionIds
      BY <3>4
    <3>6. Knows(svc, svc)
      <4>1. svc.sessionIds \in Seq(SessionIds)
        BY Zenon DEF Serving, Listed
      <4>2. IsSeq(svc.sessionIds)
        BY <4>1, Zenon DEF IsSeq
      <4> QED
        BY <4>2, PartSelf, Zenon DEF Knows
    <3> HIDE DEF m
    <3>7. IsSeq(route(svc, m.events, pos + 1))
      BY <3>3, <3>6, RoutePart, Zenon DEF PartOf
    <3> QED
      BY <2>1, <3>1, <3>5, <3>7, Zenon DEF m
  <2> QED
    BY <1>3, <2>2, <2>3, Zenon
<1> QED
  BY <1>0, <1>1, <1>2, <1>3, Zenon

\* The cluster agrees on an entry.
LEMMA RecordedAgree ==
  ASSUME EngineSound, CInv, IsLog(log), IsLog(log'), Recorded, NEW e \in Entry, Agree(e)
  PROVE  Recorded'
<1> DEFINE n == Len(log)
           was == idealAt(n)
           next == idealStep(was, e, n + 1)
<1>1. n \in Nat /\ log \in Seq(Entry) /\ IsSeq(ideal) /\ Len(ideal) = n
  BY DEF CInv, CTypeOK
<1>2. log' = Append(log, e) /\ ideal' = Append(ideal, next)
  BY DEF Agree
<1>3. /\ Len(log') = n + 1 /\ log'[n + 1] = e
      /\ \A i \in 1..n : log'[i] = log[i]
  BY <1>1, <1>2
<1>4. ideal'[n + 1] = next /\ \A i \in 1..n : ideal'[i] = ideal[i]
  <2> HIDE DEF next
  <2> QED
    BY <1>1, <1>2, SeqAppend
<1>5. \A i \in 0..n : idealAt(i)' = idealAt(i)
  BY <1>1, <1>4 DEF idealAt
<1>6. ASSUME NEW i, i = n + 1 PROVE idealAt(i)' = next
  <2>1. i # 0 /\ ideal'[i] = next
    BY <1>1, <1>4, <1>6
  <2> HIDE DEF next
  <2> QED
    BY <2>1 DEF idealAt
<1>7. IsService(was.svc) /\ Sound(was.svc.book)
  <2>1. Sound(BookAt(n))
    BY <1>1 DEF CInv
  <2>2. CASE n = 0
    BY <2>1, <2>2, Zenon DEF idealAt, Ideal0, NewMatchingService, IsService, BookAt
  <2>3. CASE n # 0
    <3>1. n \in 1..Len(log) /\ was.svc = ideal[n].svc
      BY <1>1, <2>3 DEF idealAt
    <3> QED
      BY <2>1, <3>1, Zenon DEF CInv, CTypeOK, BookAt
  <2> QED
    BY <2>2, <2>3
<1>8. Longer(log', log)
  BY <1>3 DEF Longer
<1>9. ASSUME NEW i \in 0..n
      PROVE  Serving(log', idealAt(i).svc.sessions, idealAt(i).svc.sessionIds, 0, i)
  <2>1. Serving(log, idealAt(i).svc.sessions, idealAt(i).svc.sessionIds, 0, i)
    BY SMTT(20) DEF Recorded
  <2> QED
    BY <1>8, <2>1, ServeLonger
<1>10. /\ Serving(log', next.svc.sessions, next.svc.sessionIds, 0, n + 1)
       /\ IsSeq(next.offers)
       /\ e.type = "message" =>
            next.offers = route(was.svc, OnSessionMessage(was.svc, e.session, e.msg).events, n + 1)
  <2>1. n \in 0..n /\ n + 1 \in 1..Len(log')
    BY <1>1, <1>3
  <2>2. Serving(log', was.svc.sessions, was.svc.sessionIds, 0, n)
    BY <1>9, <2>1
  <2>3. next = idealStep(was, e, n + 1) /\ n \in Nat /\ log'[n + 1] = e
    BY <1>1, <1>3
  <2> HIDE DEF was, n, next
  <2> QED
    BY <1>7, <2>1, <2>2, <2>3, IdealServes, Zenon
<1> HIDE DEF next
<1>11. ASSUME NEW i \in 0..Len(log')
       PROVE  Serving(log', idealAt(i)'.svc.sessions, idealAt(i)'.svc.sessionIds, 0, i)
  <2>1. CASE i \in 0..n
    <3>1. idealAt(i)' = idealAt(i)
      BY <1>5, <2>1
    <3> QED
      BY <1>9, <2>1, <3>1, Zenon
  <2>2. CASE i = n + 1
    BY <1>6, <1>10, <2>2, Zenon
  <2>3. i \in 0..n \/ i = n + 1
    BY <1>1, <1>3
  <2> QED
    BY <2>1, <2>2, <2>3, Zenon
<1>12. ASSUME NEW i \in 1..Len(log') PROVE Offered(i)'
  <2>1. CASE i \in 1..n
    <3>1. log'[i] = log[i] /\ ideal'[i] = ideal[i] /\ i - 1 \in 0..n
      BY <1>1, <1>3, <1>4, <2>1
    <3>2. idealAt(i - 1)' = idealAt(i - 1)
      BY <1>5, <3>1, Zenon
    <3>3. Offered(i)
      BY <2>1 DEF Recorded
    <3> QED
      BY <3>1, <3>2, <3>3, Zenon DEF Offered
  <2>2. CASE i = n + 1
    <3>1. log'[i] = e /\ ideal'[i] = next /\ i - 1 = n /\ n \in 0..n
      BY <1>1, <1>3, <1>4, <2>2
    <3>2. idealAt(i - 1)' = was
      BY <1>5, <3>1, Zenon
    <3> HIDE DEF was
    <3> QED
      BY <1>10, <2>2, <3>1, <3>2, Zenon DEF Offered
  <2>3. i \in 1..n \/ i = n + 1
    BY <1>1, <1>3
  <2> QED
    BY <2>1, <2>2, <2>3, Zenon
<1> QED
  BY <1>11, <1>12, Zenon DEF Recorded

-----------------------------------------------------------------------------
(* What the sessions got. *)

\* The frames for a session in the offers for the first p entries.
sent(I, s, p) == flatten([i \in 1..p |-> framesFor(I[i].offers, s)])

\* How far the leader's service has got, or the next leader's will have.
top == IF leader = None THEN Len(log) ELSE node[leader].pos

\* Nothing went out but what the entries up to there account for.
Sent ==
  /\ leader # None => leader \in Nodes /\ node[leader].status = "up"
  /\ egress = [s \in SessionIds |-> egress[s]]
  /\ \A s \in SessionIds : PartOf(egress[s], sent(ideal, s, top))

\* More entries, more frames.
LEMMA SentGrows ==
  (Len(log) \in Nat /\ Recorded) => \A s : \A q \in 0..Len(log) :
  \A p \in 0..q :
    PartOf(sent(ideal, s, p), sent(ideal, s, q))
\* The frames for a session in the offers for an entry.
<1>FramesAre.
     ASSUME Recorded, NEW i \in 1..Len(log), NEW s
     PROVE  IsSeq(framesFor(ideal[i].offers, s))
  <2> USE <1>FramesAre
  <2>1. PartOf(ideal[i].offers, ideal[i].offers)
    BY PartSelf DEF Recorded, Offered
  <2> QED
    BY <2>1, FramesPart, Zenon DEF PartOf
<1> HAVE Len(log) \in Nat /\ Recorded
<1> TAKE s
<1> TAKE q \in 0..Len(log)
<1> TAKE p \in 0..q
<1> DEFINE F(i) == framesFor(ideal[i].offers, s)
           ss == [i \in 1..p |-> F(i)]
           tt == [i \in 1..q |-> F(i)]
           g == [i \in 1..p |-> i]
<1>1. p \in Nat /\ q \in Nat /\ \A i \in 1..q : i \in 1..Len(log)
  OBVIOUS
<1>2. \A i \in 1..q : IsSeq(F(i))
  BY <1>1, <1>FramesAre
<1>3. sent(ideal, s, p) = flatten(ss) /\ sent(ideal, s, q) = flatten(tt)
  BY DEF sent
<1> HIDE DEF F
<1>4. Len(ss) = p /\ Len(tt) = q
  BY <1>1
<1>5. (\A i \in 1..p : ss[i] = F(i)) /\ \A i \in 1..q : tt[i] = F(i)
  OBVIOUS
<1> HIDE DEF ss, tt
<1>6. g \in [1..p -> 1..q] /\ \A i \in 1..p : g[i] = i /\ i \in 1..q
  BY <1>1
<1> HIDE DEF g
<1>7. \A i \in 1..q : IsSeq(tt[i])
  BY <1>2, <1>5, Zenon
<1>8. \A i \in 1..p : PartOf(ss[i], tt[g[i]])
  <2> SUFFICES ASSUME NEW i \in 1..p PROVE PartOf(ss[i], tt[g[i]])
    OBVIOUS
  <2>1. ss[i] = F(i) /\ tt[g[i]] = F(i) /\ IsSeq(F(i))
    BY <1>2, <1>5, <1>6
  <2> QED
    BY <2>1, PartSelf, Zenon
<1>9. \A i, j \in 1..p : i < j => g[i] < g[j]
  BY <1>6
<1>10. PartOf(flatten(ss), flatten(tt))
  BY <1>1, <1>4, <1>6, <1>7, <1>8, <1>9, FlatPart, Zenon
<1> QED
  BY <1>3, <1>10

\* The leader has not got beyond the log.
LEMMA TopIs ==
  ASSUME CTypeOK, Sent PROVE top \in 0..Len(log) /\ Len(log) \in Nat
<1>1. Len(log) \in Nat /\ \A n \in Nodes : node[n].pos \in 0..Len(log)
  BY DEF CTypeOK
<1>2. leader # None => leader \in Nodes
  BY DEF Sent
<1> QED
  BY <1>1, <1>2 DEF top

\* Nothing goes out while nodes come and go or move on.
LEMMA SentNode ==
  ASSUME CTypeOK, Recorded, Sent, UNCHANGED <<log, ideal, egress>>, NEW n \in Nodes,
         NEW st, NEW base, NEW pos \in 0..Len(log), NEW svc, becomes(n, st, base, pos, svc),
         leader' = leader \/ leader' = None,
         leader' = n => st = "up" /\ node[n].pos <= pos
  PROVE  Sent'
<1> DEFINE new == [status |-> st, base |-> base, pos |-> pos, svc |-> svc]
<1>1. node' = [node EXCEPT ![n] = new] /\ node = [m \in Nodes |-> node[m]]
  BY DEF becomes, CTypeOK
<1>2. new.status = st /\ new.pos = pos
  OBVIOUS
<1> HIDE DEF new
<1>3. node'[n] = new /\ \A m \in Nodes : m # n => node'[m] = node[m]
  BY <1>1
<1>4. leader # None => leader \in Nodes /\ node[leader].status = "up"
  BY DEF Sent
<1>5. top \in 0..Len(log) /\ Len(log) \in Nat
  BY TopIs
<1>6. leader' # None => leader' \in Nodes /\ node'[leader'].status = "up"
  BY <1>2, <1>3, <1>4, Zenon
<1>7. top' \in 0..Len(log) /\ top <= top'
  <2>1. CASE leader' = None
    BY <1>5, <2>1 DEF top
  <2>2. CASE leader' # None /\ leader' = n
    BY <1>2, <1>3, <1>5, <2>2, Zenon DEF top
  <2>3. CASE leader' # None /\ leader' # n
    BY <1>3, <1>4, <1>5, <2>3, SMTT(20) DEF top
  <2> QED
    BY <2>1, <2>2, <2>3, Zenon
<1> DEFINE q == top'
<1>8. q = top' /\ q \in 0..Len(log) /\ top \in 0..q
  BY <1>5, <1>7
<1> HIDE DEF q
<1>9. ASSUME NEW s \in SessionIds PROVE PartOf(egress'[s], sent(ideal', s, top'))
  <2>1. PartOf(egress[s], sent(ideal, s, top))
    BY DEF Sent
  <2>2. PartOf(sent(ideal, s, top), sent(ideal, s, q))
    BY <1>5, <1>8, SentGrows
  <2>3. PartOf(egress[s], sent(ideal, s, q))
    BY <2>1, <2>2, PartTrans, Zenon
  <2> QED
    BY <1>8, <2>3
<1>10. egress' = [s \in SessionIds |-> egress'[s]]
  BY DEF Sent
<1> QED
  BY <1>6, <1>9, <1>10, Zenon DEF Sent

\* The leader's offers for an entry go out, all of them or some.
LEMMA SentMore ==
  (CTypeOK /\ Recorded /\ Sent /\ UNCHANGED <<log, ideal>>) =>
  \A n \in Nodes : leader = n => \A p :
  (p = node[n].pos /\ p + 1 \in 1..Len(log)) => \A offers :
  PartOf(offers, ideal[p + 1].offers) => \A broken :
  deliver(n, offers, broken) => \A st, base : \A pos \in 0..Len(log) :
  \A svc :
  /\ becomes(n, st, base, pos, svc)
  /\ leader' = None \/ (leader' = n /\ st = "up" /\ pos = p + 1)
  =>
    Sent'
\* Some of the frames for one more entry.
<1>SentNext.
     ASSUME Len(log) \in Nat, Recorded, NEW s, NEW p \in Nat, p + 1 \in 1..Len(log),
            NEW d, PartOf(d, sent(ideal, s, p)),
            NEW x, PartOf(x, framesFor(ideal[p + 1].offers, s))
     PROVE  PartOf(d \o x, sent(ideal, s, p + 1))
  <2> USE <1>SentNext
  <2> DEFINE F(i) == framesFor(ideal[i].offers, s)
             T == {F(i) : i \in 1..(p + 1)}
             ss == [i \in 1..p |-> F(i)]
             tt == [i \in 1..(p + 1) |-> F(i)]
  <2>1. sent(ideal, s, p) = flatten(ss) /\ sent(ideal, s, p + 1) = flatten(tt)
    BY DEF sent
  <2>2. PartOf(x, F(p + 1))
    OBVIOUS
  <2>3. \A i \in 1..(p + 1) : F(i) \in T
    OBVIOUS
  <2> HIDE DEF F, T
  <2>4. ss \in Seq(T) /\ Len(ss) = p
    BY <2>3
  <2>5. tt = Append(ss, F(p + 1))
    <3>1. F(p + 1) \in T
      BY <2>3
    <3>2. tt \in Seq(T) /\ Len(tt) = p + 1 /\ \A i \in 1..(p + 1) : tt[i] = F(i)
      BY <2>3
    <3>3. /\ Append(ss, F(p + 1)) \in Seq(T) /\ Len(Append(ss, F(p + 1))) = p + 1
          /\ \A i \in 1..p : Append(ss, F(p + 1))[i] = F(i)
          /\ Append(ss, F(p + 1))[p + 1] = F(p + 1)
      BY <2>4, <3>1, AppendFacts
    <3> HIDE DEF tt, ss
    <3> DEFINE u == Append(ss, F(p + 1))
    <3> HIDE DEF u
    <3>4. u \in Seq(T) /\ Len(u) = p + 1 /\ \A i \in 1..(p + 1) : u[i] = F(i)
      BY <3>3 DEF u
    <3>5. tt = [i \in 1..(p + 1) |-> tt[i]] /\ u = [i \in 1..(p + 1) |-> u[i]]
      BY <3>2, <3>4
    <3>6. tt = u
      BY <3>2, <3>4, <3>5
    <3> QED
      BY <3>6 DEF u
  <2>6. flatten(tt) = flatten(ss) \o F(p + 1)
    <3> HIDE DEF tt, ss
    <3> QED
      BY <2>4, <2>5, JoinNext, Zenon
  <2> HIDE DEF ss, tt
  <2> QED
    BY <2>1, <2>2, <2>6, PartConcat, Zenon
<1> HAVE CTypeOK /\ Recorded /\ Sent /\ UNCHANGED <<log, ideal>>
<1> TAKE n \in Nodes
<1> HAVE leader = n
<1> TAKE p
<1> HAVE p = node[n].pos /\ p + 1 \in 1..Len(log)
<1> TAKE offers
<1> HAVE PartOf(offers, ideal[p + 1].offers)
<1> TAKE broken
<1> HAVE deliver(n, offers, broken)
<1> TAKE st, base
<1> TAKE pos \in 0..Len(log)
<1> TAKE svc
<1> HAVE /\ becomes(n, st, base, pos, svc)
         /\ leader' = None \/ (leader' = n /\ st = "up" /\ pos = p + 1)
<1> DEFINE new == [status |-> st, base |-> base, pos |-> pos, svc |-> svc]
           out(s) == IF s \in broken THEN egress[s] ELSE egress[s] \o framesFor(offers, s)
<1>1. node' = [node EXCEPT ![n] = new] /\ node = [m \in Nodes |-> node[m]]
  BY DEF becomes, CTypeOK
<1>2. new.status = st /\ new.pos = pos
  OBVIOUS
<1> HIDE DEF new
<1>3. node'[n] = new
  BY <1>1
<1>4. n # None /\ top = p /\ p \in Nat /\ Len(log) \in Nat
  BY NodesAssumption, TopIs, SMTT(20) DEF top
<1>5. leader' # None => leader' \in Nodes /\ node'[leader'].status = "up"
  BY <1>2, <1>3, Zenon
<1>6. top' \in 0..Len(log) /\ p + 1 <= top'
  BY <1>2, <1>3, <1>4 DEF top
<1> DEFINE q == top'
<1>7. q = top' /\ q \in 0..Len(log) /\ p + 1 \in 0..q
  BY <1>4, <1>6
<1> HIDE DEF q
<1>8. egress = [s \in SessionIds |-> egress[s]]
  BY DEF Sent
<1>9. egress' = [s \in SessionIds |-> out(s)]
  BY <1>8 DEF deliver
<1>10. ASSUME NEW s \in SessionIds PROVE PartOf(out(s), sent(ideal, s, q))
  <2>1. PartOf(egress[s], sent(ideal, s, p))
    BY <1>4, Zenon DEF Sent
  <2>2. PartOf(framesFor(offers, s), framesFor(ideal[p + 1].offers, s))
    BY FramesPart, Zenon
  <2>3. PartOf(sent(ideal, s, p + 1), sent(ideal, s, q))
    BY <1>4, <1>7, SentGrows, Zenon
  <2>4. PartOf(egress[s] \o framesFor(offers, s), sent(ideal, s, p + 1))
    BY <1>4, <2>1, <2>2, <1>SentNext, Zenon
  <2>5. PartOf(sent(ideal, s, p), sent(ideal, s, p + 1))
    BY <1>4, SentGrows
  <2>6. PartOf(egress[s], sent(ideal, s, p + 1))
    BY <2>1, <2>5, PartTrans, Zenon
  <2>7. PartOf(out(s), sent(ideal, s, p + 1))
    BY <2>4, <2>6, Zenon
  <2> HIDE DEF out
  <2> QED
    BY <2>3, <2>7, PartTrans, Zenon
<1> HIDE DEF out
<1>11. \A s \in SessionIds : egress'[s] = out(s)
  BY <1>9
<1>12. egress' = [s \in SessionIds |-> egress'[s]]
  BY <1>9
<1>13. ASSUME NEW s \in SessionIds PROVE PartOf(egress'[s], sent(ideal', s, top'))
  <2>1. egress'[s] = out(s) /\ ideal' = ideal
    BY <1>11, SMTT(20)
  <2> QED
    BY <1>7, <1>10, <2>1, Zenon
<1> QED
  BY <1>5, <1>12, <1>13, Zenon DEF Sent

\* A node whose service forgot sessions makes some of the offers of one that did not.
LEMMA MessageOffers ==
  ASSUME EngineSound, CInv, SInv, Recorded, NEW n \in Nodes, upcoming(n, "message"),
         NEW p, p = node[n].pos, NEW r,
         r = OnSessionMessage(node[n].svc, log[p + 1].session, log[p + 1].msg)
  PROVE  /\ p \in Nat /\ p + 1 \in 1..Len(log) /\ p + 1 \in 0..Len(log)
         /\ PartOf(route(node[n].svc, r.events, p + 1), ideal[p + 1].offers)
<1> DEFINE x == node[n].svc
           y == idealAt(p).svc
           e == log[p + 1]
<1>0. CTypeOK
  BY Zenon DEF CInv
<1>1. /\ node[n].status = "up" /\ p \in Nat /\ p + 1 \in 1..Len(log) /\ e.type = "message"
      /\ node[n].base \in Nat
      /\ Serving(log, x.sessions, x.sessionIds, node[n].base, p)
  BY <1>0, DueEntry, Zenon
<1>2. p \in 0..Len(log) /\ p + 1 \in 0..Len(log) /\ (p + 1) - 1 = p
  BY <1>1, SMTT(20)
<1>3. x.book = y.book /\ Sound(x.book)
  BY <1>1, <1>2, Zenon DEF CInv, BookAt
<1>4. OnSessionMessage(y, e.session, e.msg) = r
  BY <1>3, BookIsEnough
<1>5. e \in Entry
  <2>1. log \in Seq(Entry)
    BY <1>0, Zenon DEF CTypeOK
  <2> QED
    BY <1>1, <2>1, SMTT(20)
<1>6. PICK m \in Messages : e.msg = m[2]
  BY <1>1, <1>5, SMTT(20) DEF Entry
<1>7. IsSeq(r.events)
  BY <1>3, <1>6, MessageSound, Zenon
<1>8. IsLog(log)
  BY <1>0, LogIsLog, Zenon
<1>9. Serving(log, y.sessions, y.sessionIds, 0, p)
  BY <1>2 DEF Recorded
<1> HIDE DEF x, y
<1>10. Knows(y, x)
  BY <1>1, <1>2, <1>8, <1>9, KnowsMore, Zenon
<1>11. PartOf(route(x, r.events, p + 1), route(y, r.events, p + 1))
  BY <1>7, <1>10, RoutePart, Zenon
<1>12. Offered(p + 1)
  BY <1>1, Zenon DEF Recorded
<1>13. ideal[p + 1].offers = route(y, r.events, p + 1)
  <2>1. ideal[p + 1].offers =
          route(idealAt(p).svc, OnSessionMessage(idealAt(p).svc, e.session, e.msg).events, p + 1)
    BY <1>1, <1>2, <1>12, Zenon DEF Offered
  <2> QED
    BY <1>4, <2>1, SMTT(20) DEF y
<1> QED
  BY <1>1, <1>2, <1>11, <1>13, Zenon DEF x

\* OnSessionMessage, on the leader and on the others.
LEMMA SentMessage ==
  ASSUME EngineSound, CInv, SInv, Recorded, Sent, NEW n \in Nodes, HandleMessage(n)
  PROVE  Sent'
<1> DEFINE p == node[n].pos
           r == OnSessionMessage(node[n].svc, log[p + 1].session, log[p + 1].msg)
           panic == routable(r.events) # r.events
           offers == route(node[n].svc, r.events, p + 1)
           st == IF panic THEN "panicked" ELSE node[n].status
           new == [node[n].svc EXCEPT !.book = r.book]
<1>0. CTypeOK
  BY SMTT(20) DEF CInv
<1>1. /\ upcoming(n, "message") /\ UNCHANGED <<log, ideal>>
      /\ leader' = IF panic /\ leader = n THEN None ELSE leader
  BY Zenon DEF HandleMessage
<1>2. node' = [node EXCEPT ![n].pos = @ + 1, ![n].svc.book = r.book,
                           ![n].status = IF panic THEN "panicked" ELSE @]
  BY Zenon DEF HandleMessage
<1>3. PICK broken : deliver(n, offers, broken)
  BY Zenon DEF HandleMessage
<1>4. /\ p \in Nat /\ p + 1 \in 1..Len(log) /\ p + 1 \in 0..Len(log)
      /\ PartOf(offers, ideal[p + 1].offers)
  BY <1>1, MessageOffers, Zenon
<1>5. node[n].status = "up"
  BY <1>1, SMTT(20) DEF upcoming
<1>6. handled(n, p + 1, r.book, st)
  BY <1>0, <1>2, Zenon DEF handled, CTypeOK
<1> HIDE DEF r, panic, offers
<1>7. becomes(n, st, node[n].base, p + 1, new)
  BY <1>0, <1>6, Updates, Zenon
<1> HIDE DEF new
<1>8. CASE leader = n
  <2>1. leader' = None \/ (leader' = n /\ st = "up")
    BY <1>1, <1>5, <1>8
  <2> HIDE DEF st
  <2>2. p = node[n].pos
    BY Zenon
  <2> HIDE DEF p
  <2> QED
    BY <1>0, <1>1, <1>3, <1>4, <1>7, <1>8, <2>1, <2>2, SentMore, Zenon
<1>9. CASE leader # n
  <2>1. leader' = leader /\ egress' = egress
    BY <1>1, <1>3, <1>9, SMTT(20) DEF deliver
  <2> HIDE DEF st
  <2> QED
    BY <1>0, <1>1, <1>4, <1>7, <1>9, <2>1, SentNode, Zenon
<1> QED
  BY <1>8, <1>9, Zenon

\* The leader dies in the middle of route.
LEMMA SentCrashInRoute ==
  ASSUME EngineSound, CInv, SInv, Recorded, Sent, NEW n \in Nodes, CrashInRoute(n)
  PROVE  Sent'
<1> DEFINE p == node[n].pos
           r == OnSessionMessage(node[n].svc, log[p + 1].session, log[p + 1].msg)
           offers == route(node[n].svc, r.events, p + 1)
<1>0. CTypeOK
  BY Zenon DEF CInv
<1>1. upcoming(n, "message") /\ UNCHANGED <<log, ideal>> /\ leader = n /\ leader' = None
  BY Zenon DEF CrashInRoute
<1>2. marked(n, "down")
  BY SMTT(20) DEF CrashInRoute, marked
<1>3. PICK k \in 1..(Len(offers) - 1), broken \in SUBSET Unreachable :
        deliver(n, SubSeq(offers, 1, k), broken)
  BY Zenon DEF CrashInRoute
<1>4. /\ p \in Nat /\ p + 1 \in 1..Len(log) /\ p + 1 \in 0..Len(log)
      /\ PartOf(offers, ideal[p + 1].offers)
  BY <1>1, MessageOffers, Zenon
<1> HIDE DEF r, offers
<1>5. becomes(n, "down", node[n].base, p, node[n].svc)
  BY <1>0, <1>2, Updates, Zenon
<1>6. IsSeq(offers)
  BY <1>4, Zenon DEF PartOf
<1>7. Len(offers) \in Nat
  BY <1>6 DEF IsSeq
<1>8. k \in 0..Len(offers)
  BY <1>3, <1>7
<1>9. PartOf(SubSeq(offers, 1, k), offers)
  BY <1>6, <1>8, PartPrefix
<1>10. PartOf(SubSeq(offers, 1, k), ideal[p + 1].offers)
  BY <1>4, <1>9, PartTrans, Zenon
<1>11. p = node[n].pos /\ p \in 0..Len(log)
  BY <1>0 DEF CTypeOK
<1> HIDE DEF p
<1> QED
  BY <1>0, <1>1, <1>3, <1>4, <1>5, <1>10, <1>11, SentMore, Zenon

\* The other steps of a node.
LEMMA SentQuiet ==
  ASSUME CInv, Recorded, Sent, NEW n \in Nodes,
         Crash(n) \/ HandleOpen(n) \/ HandleClose(n) \/ HandleSnapshot(n)
           \/ StartEmpty(n) \/ StartRestored(n) \/ StartNode(n)
  PROVE  Sent'
<1>0. CTypeOK
  BY DEF CInv
<1>1. UNCHANGED <<log, ideal, egress>>
  BY DEF Crash, HandleOpen, HandleClose, HandleSnapshot, StartEmpty, StartRestored, StartNode
<1>2. leader' = leader \/ leader' = None
  BY DEF Crash, HandleOpen, HandleClose, HandleSnapshot, StartEmpty, StartRestored, StartNode
<1>3. node[n].pos \in 0..Len(log) /\ disk[n].pos \in 0..Len(log) /\ Len(log) \in Nat
  BY <1>0 DEF CTypeOK
<1>4. leader # None => node[leader].status = "up"
  BY DEF Sent
<1>5. n # None
  BY NodesAssumption
<1>6. CASE Crash(n)
  <2>1. leader' # n /\ marked(n, "down")
    BY <1>5, <1>6 DEF Crash, marked
  <2>2. becomes(n, "down", node[n].base, node[n].pos, node[n].svc)
    BY <1>0, <2>1, Updates, Zenon
  <2> QED
    BY <1>0, <1>1, <1>2, <1>3, <2>1, <2>2, SentNode, Zenon
<1>7. CASE HandleOpen(n) \/ HandleClose(n) \/ HandleSnapshot(n)
  <2>1. PICK x, type : upcoming(n, type) /\ advance(n, x)
    BY <1>7, Zenon DEF HandleOpen, HandleClose, HandleSnapshot
  <2>2. node[n].status = "up" /\ node[n].pos < Len(log)
    BY <2>1, Zenon DEF upcoming
  <2>3. becomes(n, node[n].status, node[n].base, node[n].pos + 1, x)
    BY <1>0, <2>1, Updates, Zenon
  <2>4. node[n].pos + 1 \in 0..Len(log) /\ node[n].pos <= node[n].pos + 1
    BY <1>3, <2>2, SMTT(20)
  <2> QED
    BY <1>0, <1>1, <1>2, <2>2, <2>3, <2>4, SentNode, Zenon
<1>8. CASE StartEmpty(n) \/ StartRestored(n) \/ StartNode(n)
  <2>1. node[n].status # "up"
    BY <1>8 DEF StartEmpty, StartRestored, StartNode, stopped
  <2>2. leader' # n
    BY <1>2, <1>4, <1>5, <2>1, Zenon
  <2>3. PICK base, pos, svc, st : pos \in 0..Len(log) /\ becomes(n, st, base, pos, svc)
    <3>1. CASE StartEmpty(n)
      <4>1. becomes(n, "up", 0, 0, [NewMatchingService EXCEPT !.book = NewOrderBook])
        BY <3>1, Zenon DEF StartEmpty, started, becomes
      <4>2. 0 \in 0..Len(log)
        BY <1>3
      <4> QED
        BY <4>1, <4>2, Zenon
    <3>2. CASE StartRestored(n) /\ readable(disk[n].stream)
      <4>1. becomes(n, "up", disk[n].pos, disk[n].pos,
                    [NewMatchingService EXCEPT !.book = RestoreOrderBook(disk[n].stream)])
        BY <3>2, Zenon DEF StartRestored, started, becomes
      <4> QED
        BY <1>3, <4>1, Zenon
    <3>3. CASE StartRestored(n) /\ ~readable(disk[n].stream)
      <4>1. marked(n, "panicked")
        BY <3>3, Zenon DEF StartRestored, marked
      <4>2. becomes(n, "panicked", node[n].base, node[n].pos, node[n].svc)
        BY <1>0, <4>1, Updates, Zenon
      <4> QED
        BY <1>3, <4>2, Zenon
    <3>4. CASE StartNode(n)
      <4>1. PICK ids : node' = [node EXCEPT ![n] =
                         reopened(disk[n].pos, RestoreOrderBook(disk[n].stream), ids)]
        BY <3>4, Zenon DEF StartNode
      <4>2. becomes(n, "up", 0, disk[n].pos,
                    [book |-> RestoreOrderBook(disk[n].stream), sessions |-> Range(ids),
                     sessionIds |-> ids])
        BY <4>1, Zenon DEF reopened, becomes
      <4> QED
        BY <1>3, <4>2, Zenon
    <3> QED
      BY <1>8, <3>1, <3>2, <3>3, <3>4
  <2> QED
    BY <1>0, <1>1, <1>2, <2>2, <2>3, SentNode, Zenon
<1> QED
  BY <1>6, <1>7, <1>8, Zenon

\* One more entry, of which nothing has gone out.
LEMMA SentAgree ==
  (CTypeOK /\ Sent) => \A e : Agree(e) =>
    Sent'
\* Only the entries up to there count.
<1>SentSame.
     ASSUME NEW s, NEW p, NEW I, NEW J, \A i \in 1..p : J[i] = I[i]
     PROVE  sent(J, s, p) = sent(I, s, p)
  <2> USE <1>SentSame
  <2>1. [i \in 1..p |-> framesFor(J[i].offers, s)] = [i \in 1..p |-> framesFor(I[i].offers, s)]
    OBVIOUS
  <2> QED
    BY <2>1, Zenon DEF sent
<1> HAVE CTypeOK /\ Sent
<1> TAKE e
<1> HAVE Agree(e)
<1>1. /\ IsSeq(ideal) /\ Len(ideal) = Len(log) /\ Len(log) \in Nat
      /\ \A n \in Nodes : node[n].pos \in 0..Len(log)
  BY DEF CTypeOK
<1>2. /\ leader # None /\ UNCHANGED <<node, leader, egress>>
      /\ ideal' = Append(ideal, idealStep(idealAt(Len(log)), e, Len(log) + 1))
  BY DEF Agree
<1>3. \A i \in 1..Len(log) : ideal'[i] = ideal[i]
  BY <1>1, <1>2, SeqAppend
<1>4. top' = top /\ top \in 0..Len(log)
  BY <1>2, TopIs DEF top
<1>5. ASSUME NEW s \in SessionIds PROVE PartOf(egress'[s], sent(ideal', s, top'))
  <2>1. PartOf(egress[s], sent(ideal, s, top))
    BY DEF Sent
  <2>2. \A i \in 1..top : ideal'[i] = ideal[i]
    BY <1>1, <1>3, <1>4
  <2>3. sent(ideal', s, top) = sent(ideal, s, top)
    BY <2>2, <1>SentSame, Zenon
  <2> QED
    BY <1>2, <1>4, <2>1, <2>3, Zenon
<1>6. leader' # None => leader' \in Nodes /\ node'[leader'].status = "up"
  BY <1>2 DEF Sent
<1>7. egress' = [s \in SessionIds |-> egress'[s]]
  BY <1>2 DEF Sent
<1> QED
  BY <1>5, <1>6, <1>7, Zenon DEF Sent

\* A new leader has handled the whole log.
LEMMA SentElect ==
  ASSUME CTypeOK, Recorded, Sent, NEW n \in Nodes, Elect(n) PROVE Sent'
<1>1. /\ node[n].status = "up" /\ node[n].pos = Len(log) /\ leader' = n
      /\ UNCHANGED <<log, ideal, egress, node>>
  BY DEF Elect
<1>2. n # None /\ top \in 0..Len(log) /\ Len(log) \in Nat
  BY NodesAssumption, TopIs, Zenon
<1>3. top' = Len(log)
  BY <1>1, <1>2, Zenon DEF top
<1>4. ASSUME NEW s \in SessionIds PROVE PartOf(egress'[s], sent(ideal', s, top'))
  <2>1. PartOf(egress[s], sent(ideal, s, top))
    BY DEF Sent
  <2>2. Len(log) \in 0..Len(log)
    BY <1>2
  <2>3. PartOf(sent(ideal, s, top), sent(ideal, s, Len(log)))
    BY <1>2, <2>2, SentGrows
  <2>4. PartOf(egress[s], sent(ideal, s, Len(log)))
    BY <2>1, <2>3, PartTrans, Zenon
  <2> QED
    BY <1>1, <1>3, <2>4
<1>5. egress' = [s \in SessionIds |-> egress'[s]]
  BY <1>1 DEF Sent
<1> QED
  BY <1>1, <1>4, <1>5, Zenon DEF Sent

\* The whole of it: books, sessions and egress.
EInv == CInv /\ SInv /\ Recorded /\ Sent

\* It holds when the first sessions have connected.
LEMMA EInvInit ==
  ASSUME EngineSound, ClusterInit PROVE EInv
<1>1. CInv /\ CTypeOK
  BY CInvInit DEF CInv
<1>2. SInv /\ Recorded
  BY <1>1, SInvInit, RecordedInit
<1>3. leader = None /\ egress = [s \in SessionIds |-> << >>] /\ Len(log) \in Nat
  <2>1. leader = None /\ egress = [s \in SessionIds |-> << >>]
    BY Zenon DEF ClusterInit
  <2>2. log \in Seq(Entry)
    BY <1>1, Zenon DEF CTypeOK
  <2> QED
    BY <2>1, <2>2, SMTT(20)
<1>4. top = Len(log) /\ Len(log) \in 0..Len(log)
  BY <1>3 DEF top
<1>5. ASSUME NEW s \in SessionIds PROVE PartOf(egress[s], sent(ideal, s, top))
  <2>1. PartOf(sent(ideal, s, Len(log)), sent(ideal, s, Len(log)))
    BY <1>2, <1>3, <1>4, SentGrows, Zenon
  <2>2. IsSeq(sent(ideal, s, Len(log)))
    BY <2>1, Zenon DEF PartOf
  <2> QED
    BY <1>3, <1>4, <2>2, PartNil, Zenon
<1>6. Sent
  BY <1>3, <1>5 DEF Sent
<1> QED
  BY <1>1, <1>2, <1>6, Zenon DEF EInv

\* Every step keeps it.
LEMMA EInvNext ==
  ASSUME EngineSound, EInv, [ClusterNext]_clusterVars PROVE EInv'
<1>1. CInv /\ SInv /\ Recorded /\ Sent /\ CTypeOK
  BY SMTT(20) DEF EInv, CInv
<1>2. CInv' /\ SInv' /\ CTypeOK'
  BY <1>1, CInvNext, SInvNext, Zenon DEF CInv
<1>3. IsLog(log)
  BY <1>1, LogIsLog, Zenon
<1>4. IsLog(log')
  BY <1>2 DEF CTypeOK, SInv, IsLog
<1>5. ASSUME NEW e \in Entry, Agree(e) PROVE Recorded' /\ Sent'
  BY <1>1, <1>3, <1>4, <1>5, RecordedAgree, SentAgree, Zenon
<1>6. ASSUME UNCHANGED <<log, ideal>> PROVE Recorded'
  <2>1. \A i : idealAt(i)' = idealAt(i)
    BY <1>6 DEF idealAt
  <2>2. \A i \in 0..Len(log) :
          Serving(log, idealAt(i).svc.sessions, idealAt(i).svc.sessionIds, 0, i)
    BY <1>1 DEF Recorded
  <2>3. ASSUME NEW i \in 1..Len(log) PROVE Offered(i)'
    <3>1. Offered(i)
      BY <1>1 DEF Recorded
    <3>2. log' = log /\ ideal' = ideal /\ idealAt(i - 1)' = idealAt(i - 1)
      BY <1>6, <2>1
    <3> QED
      BY <3>1, <3>2, Zenon DEF Offered
  <2>4. log' = log
    BY <1>6
  <2>5. \A i \in 0..Len(log) :
          Serving(log, idealAt(i)'.svc.sessions, idealAt(i)'.svc.sessionIds, 0, i)
    BY <2>1, <2>2, Zenon
  <2> QED
    BY <2>3, <2>4, <2>5 DEF Recorded
<1>7. ASSUME NEW s \in SessionIds, OpenSession(s) \/ CloseSession(s) PROVE Recorded' /\ Sent'
  <2>1. [type |-> "open", session |-> s] \in Entry /\ [type |-> "close", session |-> s] \in Entry
    BY DEF Entry
  <2> QED
    BY <1>5, <1>7, <2>1, Zenon DEF OpenSession, CloseSession
<1>8. ASSUME NEW m \in Messages, Ingress(m[1], m[2]) PROVE Recorded' /\ Sent'
  <2>1. [type |-> "message", session |-> m[1], msg |-> m[2]] \in Entry
    BY DEF Entry
  <2> QED
    BY <1>5, <1>8, <2>1, Zenon DEF Ingress
<1>9. ASSUME RequestSnapshot PROVE Recorded' /\ Sent'
  <2>1. [type |-> "snapshot"] \in Entry
    BY DEF Entry
  <2> QED
    BY <1>5, <1>9, <2>1, Zenon DEF RequestSnapshot
<1>10. ASSUME NEW n \in Nodes, Elect(n) PROVE Recorded' /\ Sent'
  <2>1. UNCHANGED <<log, ideal>>
    BY <1>10 DEF Elect
  <2> QED
    BY <1>1, <1>6, <1>10, <2>1, SentElect, Zenon
<1>11. ASSUME NEW n \in Nodes, Crash(n) \/ CrashInRoute(n) \/ Handle(n) PROVE Recorded' /\ Sent'
  <2>1. UNCHANGED <<log, ideal>>
    BY <1>11, Zenon DEF Handle, Crash, CrashInRoute, HandleOpen, HandleClose, HandleMessage,
              HandleSnapshot, StartEmpty, StartRestored, StartNode
  <2>2. Sent'
    BY <1>1, <1>11, SentQuiet, SentMessage, SentCrashInRoute, Zenon DEF Handle
  <2> QED
    BY <1>6, <2>1, <2>2, Zenon
<1>12. ASSUME UNCHANGED clusterVars PROVE Recorded' /\ Sent'
  <2>1. UNCHANGED <<log, ideal, leader, node, egress>>
    BY <1>12 DEF clusterVars
  <2>2. top' = top
    BY <2>1 DEF top
  <2> QED
    BY <1>1, <1>6, <2>1, <2>2, Zenon DEF Sent
<1>13. Recorded' /\ Sent'
  BY <1>7, <1>8, <1>9, <1>10, <1>11, <1>12, Zenon DEF ClusterNext
<1> QED
  BY <1>2, <1>13, Zenon DEF EInv

\* What it says about egress.
LEMMA EgressIsPart ==
  ASSUME EInv PROVE EgressAtMostOnce
<1>1. CTypeOK /\ Recorded /\ Sent
  BY DEF EInv, CInv
<1>2. top \in 0..Len(log) /\ Len(log) \in 0..Len(log) /\ Len(log) \in Nat
  BY <1>1, TopIs
<1>3. DOMAIN ideal = 1..Len(log)
  BY <1>1 DEF CTypeOK, IsSeq
<1>4. ASSUME NEW s \in SessionIds PROVE PartOf(egress[s], sent(ideal, s, Len(log)))
  <2>1. PartOf(egress[s], sent(ideal, s, top))
    BY <1>1 DEF Sent
  <2>2. PartOf(sent(ideal, s, top), sent(ideal, s, Len(log)))
    BY <1>1, <1>2, SentGrows
  <2> QED
    BY <2>1, <2>2, PartTrans, Zenon
<1>5. ASSUME NEW s \in SessionIds
      PROVE  IsPartOf(egress[s], flatten([i \in DOMAIN ideal |-> framesFor(ideal[i].offers, s)]))
  BY <1>3, <1>4, PartIsFound DEF sent
<1> QED
  BY <1>5, Zenon DEF EgressAtMostOnce

\* What it says about sessions.
LEMMA SessionsAre ==
  ASSUME EInv PROVE SessionsFollowLog
<1> SUFFICES ASSUME NEW n \in Nodes, node[n].status = "up"
             PROVE  LET svc == node[n].svc
                    IN  /\ svc.sessions = {s \in openAfter(node[n].pos) :
                                             openedAt(s) > node[n].base}
                        /\ Range(svc.sessionIds) = svc.sessions
                        /\ \A j, k \in DOMAIN svc.sessionIds :
                             j < k => openedAt(svc.sessionIds[j]) < openedAt(svc.sessionIds[k])
  BY DEF SessionsFollowLog
<1> DEFINE ids == node[n].svc.sessionIds
<1>1. Serving(log, node[n].svc.sessions, ids, node[n].base, node[n].pos)
  BY DEF EInv, SInv, Serves
<1>2. ASSUME NEW s, NEW type, NEW pos
      PROVE  heard(log, type, s, pos) = told(type, s, pos) /\ opening(log, s) = openedAt(s)
  BY Zenon DEF heard, told, opening, openedAt
<1>3. ids \in Seq(SessionIds) /\ DOMAIN ids = 1..Len(ids)
  BY <1>1 DEF Serving, Listed
<1>4. Range(ids) = node[n].svc.sessions
  BY <1>1, Zenon DEF Serving, Listed
<1>5. \A j, k \in DOMAIN ids : j < k => openedAt(ids[j]) < openedAt(ids[k])
  BY <1>1, <1>2, <1>3, Zenon DEF Serving, Listed, InOrder
<1>6. node[n].svc.sessions = served(log, node[n].base, node[n].pos)
  BY <1>1, Zenon DEF Serving
<1>7. served(log, node[n].base, node[n].pos)
        = {s \in openAfter(node[n].pos) : openedAt(s) > node[n].base}
  <2>1. ASSUME NEW s
        PROVE  /\ heard(log, "open", s, node[n].pos) = told("open", s, node[n].pos)
               /\ heard(log, "close", s, node[n].pos) = told("close", s, node[n].pos)
               /\ opening(log, s) = openedAt(s)
    BY <1>2, Zenon
  <2>2. ASSUME NEW s
        PROVE  s \in served(log, node[n].base, node[n].pos)
                 <=> s \in {t \in openAfter(node[n].pos) : openedAt(t) > node[n].base}
    BY <2>1, Zenon DEF served, openAfter
  <2> QED
    BY <2>2, Zenon
<1> QED
  BY <1>4, <1>5, <1>6, <1>7, Zenon

-----------------------------------------------------------------------------
(* Panics. *)

\* No command among the first p entries has an event that cannot be encoded.
Clear(p) == \A i \in 1..p : ~poisoned(i)

\* What PanicsFollowLog says of one node and its snapshot.
Unharmed(r, k) ==
  /\ r.status = "up" => Clear(r.pos)
  /\ Clear(k.pos)
  /\ r.status = "panicked" => poisoned(r.pos) \/ (k.pos > 0 /\ ~readable(k.stream))

\* The property in these terms.
LEMMA PanicsAre == PanicsFollowLog <=> \A n \in Nodes : Unharmed(node[n], disk[n])
BY Zenon DEF PanicsFollowLog, Unharmed, Clear

\* A step of one node.
LEMMA UnharmedStep ==
  ASSUME CTypeOK, PanicsFollowLog, UNCHANGED <<log, ideal>>, NEW n \in Nodes,
         NEW st, NEW base, NEW p, NEW x, becomes(n, st, base, p, x),
         NEW k, disk' = [disk EXCEPT ![n] = k],
         st = "up" => Clear(p), Clear(k.pos),
         st = "panicked" => poisoned(p) \/ (k.pos > 0 /\ ~readable(k.stream))
  PROVE  PanicsFollowLog'
<1> DEFINE new == [status |-> st, base |-> base, pos |-> p, svc |-> x]
<1>1. new.status = st /\ new.pos = p
  OBVIOUS
<1>2. node' = [node EXCEPT ![n] = new]
  BY Zenon DEF becomes
<1> HIDE DEF new
<1>3. Unharmed(new, k)
  BY <1>1, Zenon DEF Unharmed
<1>4. \A m \in Nodes : /\ node'[m] = IF m = n THEN new ELSE node[m]
                       /\ disk'[m] = IF m = n THEN k ELSE disk[m]
  <2>1. DOMAIN node = Nodes /\ DOMAIN disk = Nodes
    BY DEF CTypeOK
  <2> QED
    BY <1>2, <2>1
<1>5. \A m \in Nodes : Unharmed(node'[m], disk'[m])
  BY <1>3, <1>4, PanicsAre, Zenon
<1>6. \A i : poisoned(i)' <=> poisoned(i)
  <2>1. log' = log /\ ideal' = ideal
    OBVIOUS
  <2> QED
    BY <2>1, Zenon DEF poisoned, idealAt
<1>7. \A r, d : Unharmed(r, d)' <=> Unharmed(r, d)
  BY <1>6, Zenon DEF Unharmed, Clear
<1> QED
  BY <1>5, <1>6, Zenon DEF PanicsFollowLog, Unharmed, Clear

\* A disk that is not written to.
LEMMA DiskAsIs ==
  ASSUME CTypeOK, NEW n \in Nodes PROVE disk = [disk EXCEPT ![n] = disk[n]]
<1>1. DOMAIN disk = Nodes /\ disk = [m \in Nodes |-> disk[m]]
  BY DEF CTypeOK
<1> QED
  BY <1>1

\* One that leaves its disk alone.
LEMMA UnharmedProcess ==
  ASSUME CTypeOK, PanicsFollowLog, UNCHANGED <<log, ideal, disk>>, NEW n \in Nodes,
         NEW st, NEW base, NEW p, NEW x, becomes(n, st, base, p, x),
         st = "up" => Clear(p),
         st = "panicked" => poisoned(p) \/ (disk[n].pos > 0 /\ ~readable(disk[n].stream))
  PROVE  PanicsFollowLog'
<1>1. disk' = [disk EXCEPT ![n] = disk[n]]
  BY DiskAsIs, Zenon
<1>2. Clear(disk[n].pos)
  BY PanicsAre, Zenon DEF Unharmed
<1> QED
  BY <1>1, <1>2, UnharmedStep, Zenon

\* The entry after those that a node has handled.
LEMMA ClearStep ==
  ASSUME CTypeOK, PanicsFollowLog, NEW n \in Nodes, NEW type, upcoming(n, type)
  PROVE  /\ log[node[n].pos + 1].type = type
         /\ Clear(node[n].pos + 1) <=> ~poisoned(node[n].pos + 1)
<1>1. node[n].status = "up" /\ log[node[n].pos + 1].type = type
  BY Zenon DEF upcoming
<1>2. Clear(node[n].pos)
  BY <1>1, Zenon DEF PanicsFollowLog, Clear
<1>3. node[n].pos \in 0..Len(log) /\ Len(log) \in Nat
  BY DEF CTypeOK
<1>4. \A i : i \in 1..(node[n].pos + 1) <=> i \in 1..node[n].pos \/ i = node[n].pos + 1
  BY <1>3
<1> QED
  BY <1>1, <1>2, <1>4, Zenon DEF Clear

\* OnSessionMessage panics where the log says so: what it emits comes from the book
\* and the message, and the book is the one that the log implies.
LEMMA UnharmedMessage ==
  ASSUME CInv, PanicsFollowLog, NEW n \in Nodes, HandleMessage(n)
  PROVE  PanicsFollowLog'
<1> DEFINE p == node[n].pos
           e == log[p + 1]
           r == OnSessionMessage(node[n].svc, e.session, e.msg)
           panic == routable(r.events) # r.events
           st == IF panic THEN "panicked" ELSE node[n].status
           new == [node[n].svc EXCEPT !.book = r.book]
<1>0. CTypeOK
  BY Zenon DEF CInv
<1>1. upcoming(n, "message") /\ UNCHANGED <<log, ideal, disk>>
  BY Zenon DEF HandleMessage
<1>2. node' = [node EXCEPT ![n].pos = @ + 1, ![n].svc.book = r.book,
                           ![n].status = IF panic THEN "panicked" ELSE @]
  BY Zenon DEF HandleMessage
<1>3. handled(n, p + 1, r.book, st)
  BY <1>0, <1>2, Zenon DEF handled, CTypeOK
<1>4. becomes(n, st, node[n].base, p + 1, new)
  BY <1>0, <1>3, Updates, Zenon
<1>5. e.type = "message" /\ (Clear(p + 1) <=> ~poisoned(p + 1)) /\ node[n].status = "up"
  BY <1>0, <1>1, ClearStep, Zenon DEF upcoming
<1>6. node[n].svc.book = idealAt(p).svc.book
  BY <1>5, Zenon DEF CInv, BookAt
<1>7. OnSessionMessage(idealAt(p).svc, e.session, e.msg) = r
  BY <1>6, BookIsEnough
<1>8. (p + 1) - 1 = p
  BY <1>0 DEF CTypeOK
<1>11. p + 1 \in DOMAIN log
  <2>1. log \in Seq(Entry) /\ p + 1 \in 1..Len(log)
    BY <1>0, <1>1, Due, Zenon DEF CTypeOK
  <2> QED
    BY <2>1
<1>9. poisoned(p + 1) <=> panic
  BY <1>5, <1>7, <1>8, <1>11, Zenon DEF poisoned
<1> HIDE DEF r, e, new
<1>10. (st = "up" => Clear(p + 1)) /\ (st = "panicked" => poisoned(p + 1))
  BY <1>5, <1>9
<1> HIDE DEF st, p
<1> QED
  BY <1>0, <1>1, <1>4, <1>10, UnharmedProcess, Zenon

\* The other handlers do not panic.
LEMMA UnharmedOther ==
  ASSUME CTypeOK, PanicsFollowLog, NEW n \in Nodes,
         HandleOpen(n) \/ HandleClose(n) \/ HandleSnapshot(n)
  PROVE  PanicsFollowLog'
<1>1. UNCHANGED <<log, ideal>>
  BY Zenon DEF HandleOpen, HandleClose, HandleSnapshot
<1>2. PICK x, type : type # "message" /\ upcoming(n, type) /\ advance(n, x)
  <2>1. "open" # "message" /\ "close" # "message" /\ "snapshot" # "message"
    OBVIOUS
  <2> QED
    BY <2>1, Zenon DEF HandleOpen, HandleClose, HandleSnapshot
<1>3. Clear(node[n].pos + 1) /\ node[n].status = "up"
  BY <1>2, ClearStep, Zenon DEF poisoned, upcoming
<1>4. becomes(n, node[n].status, node[n].base, node[n].pos + 1, x)
  BY <1>2, Updates, Zenon
<1>5. PICK k : disk' = [disk EXCEPT ![n] = k] /\ Clear(k.pos)
  <2>1. CASE HandleSnapshot(n)
    <3>1. PICK stream : disk' = [disk EXCEPT ![n] = [pos |-> node[n].pos + 1, stream |-> stream]]
      BY <2>1, Zenon DEF HandleSnapshot
    <3>2. [pos |-> node[n].pos + 1, stream |-> stream].pos = node[n].pos + 1
      OBVIOUS
    <3> QED
      BY <1>3, <3>1, <3>2, Zenon
  <2>2. CASE HandleOpen(n) \/ HandleClose(n)
    <3>1. disk' = disk
      BY <2>2, Zenon DEF HandleOpen, HandleClose
    <3>2. disk' = [disk EXCEPT ![n] = disk[n]]
      BY <3>1, DiskAsIs, Zenon
    <3>3. Clear(disk[n].pos)
      BY PanicsAre, Zenon DEF Unharmed
    <3> QED
      BY <3>2, <3>3, Zenon
  <2> QED
    BY <2>1, <2>2, Zenon
<1>6. node[n].status # "panicked"
  BY <1>3
<1> QED
  BY <1>1, <1>3, <1>4, <1>5, <1>6, UnharmedStep, Zenon

\* A process ends, or one starts from a snapshot taken before any such command.
LEMMA UnharmedStart ==
  ASSUME CTypeOK, PanicsFollowLog, NEW n \in Nodes,
         Crash(n) \/ CrashInRoute(n) \/ StartEmpty(n) \/ StartRestored(n) \/ StartNode(n)
  PROVE  PanicsFollowLog'
<1>1. UNCHANGED <<log, ideal, disk>>
  BY Zenon DEF Crash, CrashInRoute, StartEmpty, StartRestored, StartNode
<1>2. Clear(disk[n].pos) /\ Clear(0)
  <2>1. Clear(0)
    BY DEF Clear
  <2> QED
    BY <2>1, PanicsAre, Zenon DEF Unharmed
<1>3. "down" # "up" /\ "down" # "panicked" /\ "up" # "panicked"
  OBVIOUS
<1>4. CASE Crash(n) \/ CrashInRoute(n)
  <2>1. marked(n, "down")
    BY <1>4, Zenon DEF Crash, CrashInRoute, marked
  <2>2. becomes(n, "down", node[n].base, node[n].pos, node[n].svc)
    BY <2>1, Updates, Zenon
  <2> QED
    BY <1>1, <1>3, <2>2, UnharmedProcess, Zenon
<1>5. ASSUME NEW base, NEW p \in {0, disk[n].pos}, NEW x, becomes(n, "up", base, p, x)
      PROVE  PanicsFollowLog'
  BY <1>1, <1>2, <1>3, <1>5, UnharmedProcess
<1>6. CASE StartEmpty(n)
  <2>1. becomes(n, "up", 0, 0, [NewMatchingService EXCEPT !.book = NewOrderBook])
    BY <1>6, Zenon DEF StartEmpty, started, becomes
  <2> QED
    BY <1>5, <2>1, Zenon
<1>7. CASE StartRestored(n) /\ readable(disk[n].stream)
  <2>1. becomes(n, "up", disk[n].pos, disk[n].pos,
                [NewMatchingService EXCEPT !.book = RestoreOrderBook(disk[n].stream)])
    BY <1>7, Zenon DEF StartRestored, started, becomes
  <2> QED
    BY <1>5, <2>1, Zenon
<1>8. CASE StartRestored(n) /\ ~readable(disk[n].stream)
  <2>1. marked(n, "panicked") /\ disk[n].pos > 0
    BY <1>8, Zenon DEF StartRestored, marked
  <2>2. becomes(n, "panicked", node[n].base, node[n].pos, node[n].svc)
    BY <2>1, Updates, Zenon
  <2> QED
    BY <1>1, <1>3, <1>8, <2>1, <2>2, UnharmedProcess, Zenon
<1>9. CASE StartNode(n)
  <2>1. PICK ids : node' = [node EXCEPT ![n] =
                     reopened(disk[n].pos, RestoreOrderBook(disk[n].stream), ids)]
    BY <1>9, Zenon DEF StartNode
  <2>2. becomes(n, "up", 0, disk[n].pos,
                [book |-> RestoreOrderBook(disk[n].stream), sessions |-> Range(ids),
                 sessionIds |-> ids])
    BY <2>1, Zenon DEF reopened, becomes
  <2> QED
    BY <1>5, <2>2, Zenon
<1> QED
  BY <1>4, <1>6, <1>7, <1>8, <1>9, Zenon

\* The cluster agrees on an entry, which no service has handled.
LEMMA UnharmedAgree ==
  ASSUME CTypeOK, PanicsFollowLog, NEW e \in Entry, Agree(e)
  PROVE  PanicsFollowLog'
<1>1. /\ node' = node /\ disk' = disk /\ log' = Append(log, e)
      /\ ideal' = Append(ideal, idealStep(idealAt(Len(log)), e, Len(log) + 1))
  BY Zenon DEF Agree
<1>2. log \in Seq(Entry) /\ IsSeq(ideal) /\ Len(ideal) = Len(log) /\ Len(log) \in Nat
  BY DEF CTypeOK
<1>3. /\ \A i \in 1..Len(log) : log'[i] = log[i]
      /\ DOMAIN log = 1..Len(log) /\ DOMAIN log' = 1..(Len(log) + 1)
  BY <1>1, <1>2
<1>4. \A i \in 1..Len(log) : ideal'[i] = ideal[i]
  BY <1>1, <1>2, SeqAppend
<1>5. ASSUME NEW i \in 0..Len(log) PROVE poisoned(i)' <=> poisoned(i)
  <2>1. CASE i = 0
    <3>1. 0 \notin DOMAIN log /\ 0 \notin DOMAIN log'
      BY <1>2, <1>3
    <3> QED
      BY <2>1, <3>1, Zenon DEF poisoned
  <2>2. CASE i \in 1..Len(log)
    <3>1. i - 1 = 0 \/ i - 1 \in 1..Len(log)
      BY <1>2, <2>2
    <3>2. idealAt(i - 1)' = idealAt(i - 1)
      BY <1>4, <3>1, Zenon DEF idealAt
    <3>3. log'[i] = log[i] /\ i \in DOMAIN log /\ i \in DOMAIN log'
      BY <1>2, <1>3, <2>2
    <3> QED
      BY <3>2, <3>3, Zenon DEF poisoned
  <2> QED
    BY <1>2, <2>1, <2>2
<1>6. \A n \in Nodes :
        /\ node[n].pos \in 0..Len(log)
        /\ \A i \in 1..node[n].pos : i \in 0..Len(log)
        /\ \A i \in 1..disk[n].pos : i \in 0..Len(log)
  BY <1>2 DEF CTypeOK
<1> QED
  BY <1>1, <1>5, <1>6, Zenon DEF PanicsFollowLog

\* At first only sessions have opened.
LEMMA UnharmedInit ==
  ASSUME CTypeOK, ClusterInit PROVE PanicsFollowLog
<1>1. \A i \in DOMAIN log : log[i].type = "open"
  BY DEF ClusterInit, Opened
<1>2. "open" # "message"
  OBVIOUS
<1>3. \A i : ~poisoned(i)
  BY <1>1, <1>2, Zenon DEF poisoned
<1>4. \A n \in Nodes : node[n].status # "panicked"
  BY DEF ClusterInit
<1> QED
  BY <1>3, <1>4, Zenon DEF PanicsFollowLog

\* Every step keeps it: one step per action.
LEMMA UnharmedNext ==
  ASSUME CInv, PanicsFollowLog, [ClusterNext]_clusterVars PROVE PanicsFollowLog'
<1>0. CTypeOK
  BY Zenon DEF CInv
<1>1. ASSUME NEW s \in SessionIds, OpenSession(s) \/ CloseSession(s) PROVE PanicsFollowLog'
  <2>1. [type |-> "open", session |-> s] \in Entry /\ [type |-> "close", session |-> s] \in Entry
    BY DEF Entry
  <2> QED
    BY <1>0, <1>1, <2>1, UnharmedAgree, Zenon DEF OpenSession, CloseSession
<1>2. ASSUME NEW m \in Messages, Ingress(m[1], m[2]) PROVE PanicsFollowLog'
  <2>1. [type |-> "message", session |-> m[1], msg |-> m[2]] \in Entry
    BY DEF Entry
  <2> QED
    BY <1>0, <1>2, <2>1, UnharmedAgree, Zenon DEF Ingress
<1>3. CASE RequestSnapshot
  <2>1. [type |-> "snapshot"] \in Entry
    BY DEF Entry
  <2> QED
    BY <1>0, <1>3, <2>1, UnharmedAgree, Zenon DEF RequestSnapshot
<1>4. ASSUME UNCHANGED <<log, ideal, node, disk>> PROVE PanicsFollowLog'
  <2>1. log' = log /\ ideal' = ideal /\ node' = node /\ disk' = disk
    BY <1>4
  <2> QED
    BY <2>1, Zenon DEF PanicsFollowLog, poisoned, idealAt
<1>5. ASSUME NEW n \in Nodes, Elect(n) PROVE PanicsFollowLog'
  BY <1>4, <1>5 DEF Elect
<1>6. ASSUME NEW n \in Nodes, Crash(n) \/ CrashInRoute(n) \/ Handle(n) PROVE PanicsFollowLog'
  BY <1>0, <1>6, UnharmedMessage, UnharmedOther, UnharmedStart, Zenon DEF Handle
<1>7. CASE UNCHANGED clusterVars
  BY <1>4, <1>7 DEF clusterVars
<1> QED
  BY <1>1, <1>2, <1>3, <1>5, <1>6, <1>7, Zenon DEF ClusterNext
=============================================================================
