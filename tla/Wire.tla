-------------------------------- MODULE Wire --------------------------------
(***************************************************************************)
(* Commands and reports on the wire: the codecs (go/protocol/codecs), the  *)
(* client that submits commands and hands reports to its listener          *)
(* (go/client) and the service's ends of both paths (go/service).  A frame *)
(* is a sequence of bytes, little-endian.  Encode and Decode each list the *)
(* fields in an order of their own.  The link keeps frames in order; an    *)
(* end may also be handed a frame that is cut short or is not ours.        *)
(*                                                                         *)
(* A message may come from a program built with a later version of the     *)
(* schema: it then has fields of its own behind ours, and its enumerations *)
(* may have more values.  A frame holds one message, so what Decode leaves *)
(* unread or discards of a body (blockLength) makes no difference.         *)
(***************************************************************************)
EXTENDS Integers, Sequences, SequencesExt

CONSTANTS MaxInt64,   \* scaled down: values here fit 31 bits and a sign
          Commands,   \* what the client submits
          Reports,    \* what the service sends
          Versions,   \* the schema versions in use, ours included
          MaxFrames   \* bound on the number of frames

-----------------------------------------------------------------------------
(* Marshalling. *)

\* An arithmetic shift by k bytes; beyond the third byte only the sign is left.
shifted(v, k) == CASE k <= 3 -> v \div 256^k [] k > 3 /\ v < 0 -> -1 [] OTHER -> 0

bytesOf(v, w) == [k \in 1..w |-> shifted(v, k - 1) % 256]

signed(byte) == IF byte >= 128 THEN byte - 256 ELSE byte

\* ReadInt8 and ReadInt64, and ReadUint16.
valueOf(bytes) ==
  FoldRight(LAMBDA byte, acc : acc * 256 + byte, Front(bytes), signed(Last(bytes)))
uint16At(bytes, offset) == bytes[offset + 1] + 256 * bytes[offset + 2]

int8(v) == bytesOf(v, 1)
int64(v) == bytesOf(v, 8)

-----------------------------------------------------------------------------
(* The types of fields, as the accessors give them: the version that has the *)
(* field first, its value in a message of an earlier version, and the values *)
(* that the range check accepts.  Ids and meta attributes play no part.      *)

SbeSchemaVersion == 1

Int64 == [width |-> 8, since |-> 0, absent |-> -MaxInt64 - 1,
          values |-> -MaxInt64..MaxInt64, enum |-> FALSE]
Enum(values) == [width |-> 1, since |-> 0, absent |-> 0, values |-> values, enum |-> TRUE]

Side == Enum({0, 1, -128})
OrderStatus == Enum(0..4 \cup {-128})
RejectReason == Enum(0..4 \cup {-128})

InActingVersion(type, version) == version >= type.since

inRange(type, v, version) ==
  IF type.enum THEN version > SbeSchemaVersion \/ v \in type.values
  ELSE InActingVersion(type, version) => v \in type.values

NewOrderFields == [clientOrderId |-> Int64, side |-> Side, price |-> Int64, qty |-> Int64]
CancelOrderFields == [orderId |-> Int64]
ExecutionReportFields ==
  [orderId |-> Int64, clientOrderId |-> Int64, status |-> OrderStatus, reason |-> RejectReason,
   side |-> Side, price |-> Int64, qty |-> Int64, remainingQty |-> Int64, timestamp |-> Int64]
TradeEventFields ==
  [price |-> Int64, qty |-> Int64, makerOrderId |-> Int64, takerOrderId |-> Int64,
   timestamp |-> Int64]
BookUpdateFields ==
  [side |-> Side, price |-> Int64, aggregateQty |-> Int64, timestamp |-> Int64]

\* The named fields read one after the other; a read past the end is an error,
\* here Eof.
Eof == [template |-> 0]

readFields(bytes, version, template, types, names) ==
  LET width(n) == IF InActingVersion(types[n], version) THEN types[n].width ELSE 0
      start(i) == FoldLeft(LAMBDA k, n : k + width(n), 0, SubSeq(names, 1, i - 1))
      value(n) == LET at == start(CHOOSE i \in DOMAIN names : names[i] = n)
                  IN  IF InActingVersion(types[n], version)
                      THEN valueOf(SubSeq(bytes, at + 1, at + width(n)))
                      ELSE types[n].absent
  IN  IF Len(bytes) < start(Len(names) + 1) THEN Eof
      ELSE [n \in DOMAIN types \cup {"template"} |->
              IF n = "template" THEN template ELSE value(n)]

-----------------------------------------------------------------------------
(* The codecs of the five messages. *)

NewOrderRangeCheck(m, version) ==
  \A n \in {"clientOrderId", "side", "price", "qty"} : inRange(NewOrderFields[n], m[n], version)

NewOrderEncode(m) ==
  int64(m.clientOrderId) \o int8(m.side) \o int64(m.price) \o int64(m.qty)

NewOrderDecode(bytes, version) ==
  readFields(bytes, version, 1, NewOrderFields, <<"clientOrderId", "side", "price", "qty">>)

CancelOrderRangeCheck(m, version) == inRange(CancelOrderFields.orderId, m.orderId, version)
CancelOrderEncode(m) == int64(m.orderId)
CancelOrderDecode(bytes, version) ==
  readFields(bytes, version, 2, CancelOrderFields, <<"orderId">>)

ExecutionReportRangeCheck(m, version) ==
  \A n \in {"orderId", "clientOrderId", "status", "reason", "side", "price", "qty",
            "remainingQty", "timestamp"} : inRange(ExecutionReportFields[n], m[n], version)

ExecutionReportEncode(m) ==
  int64(m.orderId) \o int64(m.clientOrderId) \o int8(m.status) \o int8(m.reason)
    \o int8(m.side) \o int64(m.price) \o int64(m.qty) \o int64(m.remainingQty)
    \o int64(m.timestamp)

\* Mutant: the reason is read as if it were the side's byte.
ExecutionReportDecodeSwapped(bytes, version) ==
  readFields(bytes, version, 10, ExecutionReportFields,
    <<"orderId", "clientOrderId", "status", "side", "reason", "price", "qty",
      "remainingQty", "timestamp">>)

ExecutionReportDecode(bytes, version) ==
  readFields(bytes, version, 10, ExecutionReportFields,
    <<"orderId", "clientOrderId", "status", "reason", "side", "price", "qty",
      "remainingQty", "timestamp">>)

TradeEventRangeCheck(m, version) ==
  \A n \in {"price", "qty", "makerOrderId", "takerOrderId", "timestamp"} :
    inRange(TradeEventFields[n], m[n], version)

TradeEventEncode(m) ==
  int64(m.price) \o int64(m.qty) \o int64(m.makerOrderId) \o int64(m.takerOrderId)
    \o int64(m.timestamp)

TradeEventDecode(bytes, version) ==
  readFields(bytes, version, 11, TradeEventFields,
    <<"price", "qty", "makerOrderId", "takerOrderId", "timestamp">>)

BookUpdateRangeCheck(m, version) ==
  \A n \in {"side", "price", "aggregateQty", "timestamp"} :
    inRange(BookUpdateFields[n], m[n], version)

BookUpdateEncode(m) ==
  int8(m.side) \o int64(m.price) \o int64(m.aggregateQty) \o int64(m.timestamp)

BookUpdateDecode(bytes, version) ==
  readFields(bytes, version, 12, BookUpdateFields, <<"side", "price", "aggregateQty", "timestamp">>)

RangeCheck(m, version) ==
  CASE m.template = 1 -> NewOrderRangeCheck(m, version)
    [] m.template = 2 -> CancelOrderRangeCheck(m, version)
    [] m.template = 10 -> ExecutionReportRangeCheck(m, version)
    [] m.template = 11 -> TradeEventRangeCheck(m, version)
    [] m.template = 12 -> BookUpdateRangeCheck(m, version)

Encode(m) ==
  CASE m.template = 1 -> NewOrderEncode(m)
    [] m.template = 2 -> CancelOrderEncode(m)
    [] m.template = 10 -> ExecutionReportEncode(m)
    [] m.template = 11 -> TradeEventEncode(m)
    [] m.template = 12 -> BookUpdateEncode(m)

SbeBlockLength(template) ==
  CASE template = 1 -> 25 [] template = 2 -> 8 [] template = 10 -> 51
    [] template = 11 -> 40 [] template = 12 -> 25

MessageHeaderEncode(blockLength, template, version) ==
  bytesOf(blockLength, 2) \o bytesOf(template, 2) \o bytesOf(901, 2) \o bytesOf(version, 2)

\* The fields that a later version adds at the end of the block.
added(version) == [k \in 1..(version - SbeSchemaVersion) |-> 255]

\* encodeFrame, when the range check passes.
encodeFrame(m, version) ==
  MessageHeaderEncode(SbeBlockLength(m.template) + Len(added(version)), m.template, version)
    \o Encode(m) \o added(version)

-----------------------------------------------------------------------------
(* The two ends.  Both read the header in place, then decode the body. *)

body(frame) == SubSeq(frame, 9, Len(frame))

\* Mutant: messages of a later version are held against our enumerations.
soundOurs(m, version) == m # Eof /\ RangeCheck(m, SbeSchemaVersion)

\* The message is whole and passes the range check of Decode.
sound(m, version) == m # Eof /\ RangeCheck(m, version)

\* What OnSessionMessage takes from a frame: one command or nothing.
commandsIn(frame) ==
  IF Len(frame) < 8 \/ uint16At(frame, 4) # 901 THEN << >>
  ELSE LET template == uint16At(frame, 2)
           version == uint16At(frame, 6)
           m == CASE template = 1 -> NewOrderDecode(body(frame), version)
                  [] template = 2 -> CancelOrderDecode(body(frame), version)
                  [] OTHER -> Eof
       IN  IF sound(m, version) THEN <<m>> ELSE << >>

\* What onMessage hands to the listener; the schema is not looked at.
reportsIn(frame) ==
  IF Len(frame) < 8 THEN << >>
  ELSE LET template == uint16At(frame, 2)
           version == uint16At(frame, 6)
           m == CASE template = 10 -> ExecutionReportDecode(body(frame), version)
                  [] template = 11 -> TradeEventDecode(body(frame), version)
                  [] template = 12 -> BookUpdateDecode(body(frame), version)
                  [] OTHER -> Eof
       IN  IF sound(m, version) THEN <<m>> ELSE << >>

VARIABLES ingress, egress,      \* frames under way
          commands, reports,    \* what the engine and the listener were given
          submitted, sent,      \* what was encoded without an error (history)
          frames                \* number of frames so far

vars == <<ingress, egress, commands, reports, submitted, sent, frames>>

Init ==
  /\ ingress = << >> /\ egress = << >>
  /\ commands = << >> /\ reports = << >>
  /\ submitted = << >> /\ sent = << >>
  /\ frames = 0

count == frames < MaxFrames /\ frames' = frames + 1

\* Client.offer: an error of Encode is returned and nothing is sent.  A client
\* of a later version does likewise, with its own enumerations.
Offer(m, version) ==
  /\ count
  /\ IF RangeCheck(m, version)
     THEN /\ ingress' = Append(ingress, encodeFrame(m, version))
          /\ submitted' = Append(submitted, m)
     ELSE UNCHANGED <<ingress, submitted>>
  /\ UNCHANGED <<egress, commands, reports, sent>>

\* The service encodes a message for a session; an error would be a panic.
Send(m, version) ==
  /\ count
  /\ RangeCheck(m, version)
  /\ egress' = Append(egress, encodeFrame(m, version))
  /\ sent' = Append(sent, m)
  /\ UNCHANGED <<ingress, commands, reports, submitted>>

\* A frame that lacks the last of our bytes or more, or with another template id.
cut(m, version) ==
  {SubSeq(encodeFrame(m, version), 1, k) : k \in {0, 7, 8, 7 + SbeBlockLength(m.template)}}
unknown(m, version) == {[encodeFrame(m, version) EXCEPT ![3] = 99]}
foreign(m, version) == {[encodeFrame(m, version) EXCEPT ![5] = 0]}

\* Frames that are not ours turn up; on ingress, of another schema too.
OddCommand(m, version) ==
  /\ count
  /\ \E f \in cut(m, version) \cup unknown(m, version) \cup foreign(m, version) :
       ingress' = Append(ingress, f)
  /\ UNCHANGED <<egress, commands, reports, submitted, sent>>

OddReport(m, version) ==
  /\ count
  /\ \E f \in cut(m, version) \cup unknown(m, version) : egress' = Append(egress, f)
  /\ UNCHANGED <<ingress, commands, reports, submitted, sent>>

OnSessionMessage ==
  /\ ingress # << >>
  /\ ingress' = Tail(ingress)
  /\ commands' = commands \o commandsIn(Head(ingress))
  /\ UNCHANGED <<egress, reports, submitted, sent, frames>>

onMessage ==
  /\ egress # << >>
  /\ egress' = Tail(egress)
  /\ reports' = reports \o reportsIn(Head(egress))
  /\ UNCHANGED <<ingress, commands, submitted, sent, frames>>

Next ==
  \/ \E m \in Commands, version \in Versions : Offer(m, version) \/ OddCommand(m, version)
  \/ \E m \in Reports, version \in Versions : Send(m, version) \/ OddReport(m, version)
  \/ OnSessionMessage
  \/ onMessage

Spec == Init /\ [][Next]_vars

-----------------------------------------------------------------------------
\* The engine is given exactly the commands that clients submitted, field for
\* field and in order: NewOrder and CancelOrder survive Encode and Decode, also
\* from a client of a later version (its side passes unchecked, its own fields
\* are ignored), and a cut, foreign or unknown frame reaches the engine neither
\* as a command nor by shifting the one after it.
CommandsArrive ==
  /\ IsPrefix(commands, submitted)
  /\ ingress = << >> => commands = submitted

\* The listener is given exactly what the service encoded, field for field and
\* in order: what encodeFrame accepts, onMessage accepts, null values of
\* enumerations and messages of a later version included.
ReportsArrive ==
  /\ IsPrefix(reports, sent)
  /\ egress = << >> => reports = sent
=============================================================================
