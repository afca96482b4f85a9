--------------------------- MODULE MatchingService ---------------------------
(***************************************************************************)
(* The clustered service (go/service/service.go, encoding.go) as the pure  *)
(* part of its handlers: the state of a service is a record of its book,   *)
(* its map of sessions and the order in which it broadcasts to them.  What *)
(* the handlers do with the cluster around them is in module Cluster.      *)
(***************************************************************************)
EXTENDS Engine, Snapshot, FiniteSetsExt

newOrderTemplateId == 1
cancelOrderTemplateId == 2
schemaId == 901
schemaVersion == 1

NewMatchingService == [book |-> NewOrderBook, sessions |-> {}, sessionIds |-> << >>]

OnSessionOpen(s, id) ==
  [s EXCEPT !.sessions = @ \cup {id}, !.sessionIds = Append(@, id)]

\* The list without the first entry for this session.
withoutFirst(ids, id) ==
  LET at == {k \in DOMAIN ids : ids[k] = id}
  IN  IF at = {} THEN ids ELSE removeAt(ids, Min(at))

\* Mutant: the session is only taken off the broadcasts.
OnSessionCloseMapped(s, id) ==
  [s EXCEPT !.sessionIds = withoutFirst(@, id)]

OnSessionClose(s, id) ==
  [s EXCEPT !.sessions = @ \ {id},
            !.sessionIds = withoutFirst(@, id)]

-----------------------------------------------------------------------------
(* Ingress.  A message is a record with its schema, version and template,   *)
(* whether the bytes of all fields are there, and the fields.               *)

MinInt64 == -(MaxInt64 + 1)   \* the null value of int64 fields

\* The range check of an int64 field: everything but the null value.
inRange(n) == n >= -MaxInt64 /\ n <= MaxInt64

\* The side codes that the enumeration has, its null value among them.
sideCodes == {0, 1, -128}

\* Decode with its range check succeeds.  The values of enumerations are not
\* checked in messages of a newer version than the service's.  clientOrderId is
\* left out: that it is not the null value is part of msg.complete.
decodes(msg) ==
  /\ msg.complete
  /\ msg.template = newOrderTemplateId =>
       /\ msg.side \in sideCodes \/ msg.version > schemaVersion
       /\ inRange(msg.price) /\ inRange(msg.qty)
  /\ msg.template = cancelOrderTemplateId => inRange(msg.orderId)

\* Neither of the early returns of OnSessionMessage is taken.
accepted(msg) ==
  /\ msg.schema = schemaId
  /\ msg.template \in {newOrderTemplateId, cancelOrderTemplateId}
  /\ decodes(msg)

\* OnSessionMessage up to its call of route: the new book and the events.
OnSessionMessage(s, session, msg) ==
  CASE ~accepted(msg) -> [book |-> s.book, events |-> << >>]
    [] accepted(msg) /\ msg.template = newOrderTemplateId ->
         NewLimitOrder(s.book, session, sideOf(msg.side), msg.price, msg.qty)
    [] accepted(msg) /\ msg.template = cancelOrderTemplateId ->
         Cancel(s.book, msg.orderId, session)

-----------------------------------------------------------------------------
(* Egress. *)

statusOf(ev) ==
  CASE ev.type = "Accepted" -> "ACCEPTED"
    [] ev.type = "Canceled" -> "CANCELED"
    [] ev.type = "Filled" /\ ev.remaining = 0 -> "FILLED"
    [] ev.type = "Filled" /\ ev.remaining # 0 -> "PARTIALLY_FILLED"
    [] OTHER -> "REJECTED"

\* A field of an event, or the zero value where the event does not set it.
field(ev, name, zero) == IF name \in DOMAIN ev THEN ev[name] ELSE zero

encodeExecutionReport(ev, timestamp) ==
  [kind |-> "ExecutionReport", id |-> ev.id, status |-> statusOf(ev),
   reason |-> field(ev, "reason", "None"), side |-> sideCode(field(ev, "side", Buy)),
   price |-> field(ev, "price", 0), qty |-> field(ev, "qty", 0),
   remaining |-> field(ev, "remaining", 0), timestamp |-> timestamp]

encodeTrade(ev, timestamp) ==
  [kind |-> "TradeEvent", price |-> ev.price, qty |-> ev.qty,
   maker |-> ev.maker, taker |-> ev.taker, timestamp |-> timestamp]

encodeBookUpdate(ev, timestamp) ==
  [kind |-> "BookUpdate", side |-> sideCode(ev.side), price |-> ev.price,
   aggregate |-> ev.aggregate, timestamp |-> timestamp]

\* The encoder that route picks for an event.
encode(ev, timestamp) ==
  CASE ev.type = "Trade" -> encodeTrade(ev, timestamp)
    [] ev.type = "BookUpdate" -> encodeBookUpdate(ev, timestamp)
    [] OTHER -> encodeExecutionReport(ev, timestamp)

\* The range check of Encode fails on the event's message: mustEncode panics.
\* Prices and quantities have passed the check on the way in; an aggregate need
\* not, nor the side of an order of a later version.
mustEncodePanics(ev) ==
  LET frame == encode(ev, 0)
  IN  \/ \E name \in DOMAIN frame \ {"kind", "status", "reason", "side"} :
           ~inRange(frame[name])
      \/ "side" \in DOMAIN frame /\ frame.side \notin sideCodes

\* A frame is offered to a session that the map has: to one, or to each of the list.
sendTo(s, id, frame) ==
  IF id \in s.sessions THEN << [to |-> id, frame |-> frame] >> ELSE << >>

broadcast(s, frame) ==
  flatten([k \in DOMAIN s.sessionIds |-> sendTo(s, s.sessionIds[k], frame)])

\* Reports go to the owner, trades and book updates to everyone.
offersOf(s, ev, timestamp) ==
  IF ev.type \in {"Trade", "BookUpdate"}
  THEN broadcast(s, encode(ev, timestamp))
  ELSE sendTo(s, ev.owner, encode(ev, timestamp))

\* The events that route gets to: those before the first that panics.
routable(events) ==
  LET bad == {i \in DOMAIN events : mustEncodePanics(events[i])}
  IN  IF bad = {} THEN events ELSE SubSeq(events, 1, Min(bad) - 1)

\* The offers that route makes, one after the other.
route(s, events, timestamp) ==
  flatten([i \in DOMAIN routable(events) |-> offersOf(s, events[i], timestamp)])
=============================================================================
