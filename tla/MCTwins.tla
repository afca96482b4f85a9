------------------------------- MODULE MCTwins -------------------------------
(***************************************************************************)
(* Twins for TLC.                                                          *)
(***************************************************************************)
EXTENDS Twins

order(side, price, qty) ==
  [schema |-> schemaId, version |-> schemaVersion, template |-> newOrderTemplateId,
   complete |-> TRUE, side |-> side, price |-> price, qty |-> qty]

cancel(id) ==
  [schema |-> schemaId, version |-> schemaVersion, template |-> cancelOrderTemplateId,
   complete |-> TRUE, orderId |-> id]

\* Messages whose fields have values: orders that trade, rest or are rejected, a
\* cancel, an order of a later version, and messages that neither twin accepts.
\* Null values, and side codes of a later version, are not among them: there the
\* two decoders differ.
PlainMessages ==
  {order(1, 1, 1), order(1, 2, 2), order(0, 1, 1), order(0, 2, 2), order(0, 1, 0),
   order(2, 1, 1), [order(0, 1, 1) EXCEPT !.complete = FALSE],
   [order(1, 1, 2) EXCEPT !.version = 2], cancel(1),
   [cancel(1) EXCEPT !.schema = 0], [cancel(1) EXCEPT !.template = 0]}
=============================================================================
