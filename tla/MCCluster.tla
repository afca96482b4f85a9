------------------------------ MODULE MCCluster ------------------------------
(***************************************************************************)
(* Cluster for TLC: few sessions, and messages that make the interesting   *)
(* cases short.                                                            *)
(***************************************************************************)
EXTENDS Cluster

order(side, price, qty) ==
  [schema |-> schemaId, version |-> schemaVersion, template |-> newOrderTemplateId,
   complete |-> TRUE, side |-> side, price |-> price, qty |-> qty]

cancel(id) ==
  [schema |-> schemaId, version |-> schemaVersion, template |-> cancelOrderTemplateId,
   complete |-> TRUE, orderId |-> id]

OneSession == <<1>>

\* One client sells, and fills its sale in part; the one that connects late sends
\* an order of the null side, which is matched with sales and rests among them.
TradingMessages ==
  {<<1, order(1, 1, 2)>>, <<1, order(0, 1, 1)>>, <<2, order(-128, 1, 1)>>}

\* Orders that only ever rest, two of them at one price.
RestingMessages == {<<1, order(1, 1, 2)>>}
=============================================================================
