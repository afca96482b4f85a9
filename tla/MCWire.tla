------------------------------- MODULE MCWire -------------------------------
(***************************************************************************)
(* Wire for TLC: messages whose fields all differ, with negative values    *)
(* and values of several bytes, and such with null values.                 *)
(***************************************************************************)
EXTENDS Wire

null == -(MaxInt64 + 1)

newOrder == [template |-> 1, clientOrderId |-> 70000, side |-> 1, price |-> -2, qty |-> 300]
cancelOrder == [template |-> 2, orderId |-> MaxInt64]
report ==
  [template |-> 10, orderId |-> 1, clientOrderId |-> -MaxInt64, status |-> 4, reason |-> 3,
   side |-> 1, price |-> 256, qty |-> 255, remainingQty |-> 65536, timestamp |-> 128]
trade ==
  [template |-> 11, price |-> 1, qty |-> 2, makerOrderId |-> 300, takerOrderId |-> 70000,
   timestamp |-> -1]
bookUpdate ==
  [template |-> 12, side |-> 0, price |-> 5, aggregateQty |-> -MaxInt64, timestamp |-> 9]

MCCommands ==
  {newOrder, cancelOrder, [newOrder EXCEPT !.side = -128], [newOrder EXCEPT !.side = 2],
   [newOrder EXCEPT !.qty = null], [cancelOrder EXCEPT !.orderId = null]}

MCReports ==
  {report, trade, bookUpdate, [report EXCEPT !.side = -128], [bookUpdate EXCEPT !.side = -128]}
=============================================================================
