-------------------------------- MODULE Twins --------------------------------
(***************************************************************************)
(* The Go service and its Java twin side by side on the same calls.  Both  *)
(* use the commands of module Engine: module LinkedBook, translated from   *)
(* the Java engine, is checked to implement the Go one.  This module is    *)
(* about what surrounds them: how a message is decoded, how the records of *)
(* a snapshot are read, and what encoding checks.  Each twin may at any    *)
(* time be restored from the other's snapshot.  A frame whose header       *)
(* announces another block length than the schema's is left out.           *)
(***************************************************************************)
EXTENDS MatchingService

CONSTANTS Sessions,  \* session ids
          Messages,  \* the messages of the log
          MaxOrderId, MaxCalls   \* bounds on ids and on calls

-----------------------------------------------------------------------------
(* The Java service (service/MatchingService.java, engine/Snapshots.java). *)

\* No early return: the block is all there and the side byte is BUY's or SELL's.
javaAccepted(msg) ==
  /\ msg.schema = schemaId
  /\ msg.complete
  /\ msg.template \in {newOrderTemplateId, cancelOrderTemplateId}
  /\ msg.template = newOrderTemplateId => msg.side \in {0, 1}

javaFromCode(code) == IF code = 0 THEN Buy ELSE Sell

javaOnSessionMessage(s, session, msg) ==
  CASE ~javaAccepted(msg) -> [book |-> s.book, events |-> << >>]
    [] javaAccepted(msg) /\ msg.template = newOrderTemplateId ->
         NewLimitOrder(s.book, session, javaFromCode(msg.side), msg.price, msg.qty)
    [] javaAccepted(msg) /\ msg.template = cancelOrderTemplateId ->
         Cancel(s.book, msg.orderId, session)

\* onSessionOpen and onSessionClose; sessionIds is searched for the first match.
javaOnSessionOpen(s, id) ==
  [s EXCEPT !.sessions = @ \cup {id}, !.sessionIds = Append(@, id)]
javaOnSessionClose(s, id) ==
  [s EXCEPT !.sessions = @ \ {id},
            !.sessionIds = withoutFirst(@, id)]

\* Mutant: the ids of a trade's two orders are swapped.
javaEncodeSwapped(ev, timestamp) ==
  IF ev.type = "Trade"
  THEN [encodeTrade(ev, timestamp) EXCEPT !.maker = ev.taker, !.taker = ev.maker]
  ELSE encode(ev, timestamp)

\* The encoders do not check ranges, so every event is routed.
javaEncode(ev, timestamp) ==
  CASE ev.type = "Trade" ->
         [kind |-> "TradeEvent", price |-> ev.price, qty |-> ev.qty,
          maker |-> ev.maker, taker |-> ev.taker, timestamp |-> timestamp]
    [] ev.type = "BookUpdate" ->
         [kind |-> "BookUpdate", side |-> IF ev.side = Buy THEN 0 ELSE 1,
          price |-> ev.price, aggregate |-> ev.aggregate, timestamp |-> timestamp]
    [] OTHER ->
         [kind |-> "ExecutionReport", id |-> ev.id, status |-> statusOf(ev),
          reason |-> field(ev, "reason", "None"),
          side |-> IF field(ev, "side", Buy) = Buy THEN 0 ELSE 1,
          price |-> field(ev, "price", 0), qty |-> field(ev, "qty", 0),
          remaining |-> field(ev, "remaining", 0), timestamp |-> timestamp]

\* route, sendTo and broadcast.
javaRoute(s, events, timestamp) ==
  flatten([i \in DOMAIN events |->
    LET all == events[i].type \in {"Trade", "BookUpdate"}
        to  == SelectSeq(IF all THEN s.sessionIds ELSE <<events[i].owner>>,
                         LAMBDA id : id \in s.sessions)
    IN  [k \in DOMAIN to |-> [to |-> to[k], frame |-> javaEncode(events[i], timestamp)]]])

\* Snapshots.write; a Java order's side has a code of its own, 0 or 1.
javaWriteSide(b, bs) ==
  flatten([i \in DOMAIN b.levels[bs] |->
                [k \in DOMAIN b.levels[bs][i].fifo |->
                   [b.orders[b.levels[bs][i].fifo[k]] EXCEPT
                      !.side = IF @ = Buy THEN 0 ELSE 1]]])

javaWrite(b) ==
  << [magic |-> snapshotMagic, version |-> snapshotVersion,
      nextOrderId |-> b.nextOrderId, count |-> Cardinality(DOMAIN b.orders)] >>
  \o javaWriteSide(b, Buy) \o javaWriteSide(b, Sell)

\* Mutant: records are read from the end.
javaRestoreBackwards(stream) ==
  [restAll(NewOrderBook,
           [i \in 1..stream[1].count |->
              [stream[stream[1].count + 2 - i] EXCEPT !.side = javaFromCode(@)]])
     EXCEPT !.nextOrderId = stream[1].nextOrderId]

\* Snapshots.restore of a stream that is long enough.
javaRestore(stream) ==
  [restAll(NewOrderBook,
           [i \in 1..stream[1].count |-> [stream[i + 1] EXCEPT !.side = javaFromCode(@)]])
     EXCEPT !.nextOrderId = stream[1].nextOrderId]

-----------------------------------------------------------------------------
VARIABLES go, java,          \* the two services
          goSent, javaSent,  \* what each offered for the last call
          status,            \* of each session: "new", "open" or "closed"
          calls

vars == <<go, java, goSent, javaSent, status, calls>>

Init ==
  /\ go = NewMatchingService
  /\ java = NewMatchingService
  /\ goSent = << >>
  /\ javaSent = << >>
  /\ status = [id \in Sessions |-> "new"]
  /\ calls = 0

\* Bounds the number of calls; the number serves as the timestamp.
count == calls < MaxCalls /\ calls' = calls + 1

Open(id) ==
  /\ count
  /\ status[id] = "new"
  /\ status' = [status EXCEPT ![id] = "open"]
  /\ go' = OnSessionOpen(go, id)
  /\ java' = javaOnSessionOpen(java, id)
  /\ goSent' = << >> /\ javaSent' = << >>

Close(id) ==
  /\ count
  /\ status[id] = "open"
  /\ status' = [status EXCEPT ![id] = "closed"]
  /\ go' = OnSessionClose(go, id)
  /\ java' = javaOnSessionClose(java, id)
  /\ goSent' = << >> /\ javaSent' = << >>

Message(id, msg) ==
  /\ count
  /\ status[id] = "open"
  /\ UNCHANGED status
  /\ go.book.nextOrderId <= MaxOrderId
  /\ LET g == OnSessionMessage(go, id, msg)
         j == javaOnSessionMessage(java, id, msg)
     IN  /\ go' = [go EXCEPT !.book = g.book]
         /\ java' = [java EXCEPT !.book = j.book]
         /\ goSent' = route(go, g.events, calls)
         /\ javaSent' = javaRoute(java, j.events, calls)

\* Each twin restarts from the snapshot of the other.  The sessions stay open,
\* and neither service is told of them again.
Swap ==
  /\ count
  /\ UNCHANGED status
  /\ go' = [NewMatchingService EXCEPT !.book = RestoreOrderBook(javaWrite(java.book))]
  /\ java' = [NewMatchingService EXCEPT !.book = javaRestore(TakeSnapshot(go.book))]
  /\ goSent' = << >> /\ javaSent' = << >>

Next ==
  \/ \E id \in Sessions : Open(id) \/ Close(id) \/ \E msg \in Messages : Message(id, msg)
  \/ Swap

Spec == Init /\ [][Next]_vars

-----------------------------------------------------------------------------
\* The twins are "structural mirrors and fully wire- and snapshot-compatible":
\* after every call, a swap of snapshots included, they hold the same book and
\* serve the same sessions in the same order.
TwinsAgree == go = java

\* And they send the same frames to the same sessions in the same order.
TwinsSendTheSame == goSent = javaSent
=============================================================================
