------------------------------ MODULE Recovery ------------------------------
(***************************************************************************)
(* The engine's state machine beside the functions that stand for it in    *)
(* the modules above it: at the end of every command the book and events   *)
(* are those of NewLimitOrder and Cancel, and the book is its snapshot.    *)
(***************************************************************************)
EXTENDS OrderBook, Engine, Snapshot

VARIABLE due   \* what the function of the current or last call returns

recoveryVars == <<book, pc, taker, changed, events, due>>

RecoveryInit == Init /\ due = [book |-> book, events |-> events]

\* The calls that return at once, and the first step of the one that does not.
Call ==
  \/ \E owner \in Owners, side \in Sides, price \in Prices, qty \in Quantities :
        /\ RejectOrder(owner, price, qty) \/ AcceptOrder(owner, side, price, qty)
        /\ due' = NewLimitOrder(book, owner, side, price, qty)
  \/ \E id \in 1..MaxOrderId, owner \in Owners :
        /\ RejectCancel(id, owner) \/ CancelOrder(id, owner)
        /\ due' = Cancel(book, id, owner)

RecoveryNext == Call \/ ((MatchBest \/ FinishOrder) /\ UNCHANGED due)

RecoverySpec == RecoveryInit /\ [][RecoveryNext]_recoveryVars

-----------------------------------------------------------------------------
\* A whole call of NewLimitOrder or Cancel, however many turns match takes,
\* gives the book and the events of the function of the same name.
CommandsAreFunctions == pc = "idle" => due = [book |-> book, events |-> events]

\* "Deterministic recovery": restoring a snapshot gives the identical book, with
\* its queues in order, its aggregates as they were, wrapped ones included, and
\* the next id.  Restore inserts level by level, by binary search, in an order
\* that the code never rests orders in.
SnapshotRestoresBook ==
  pc = "idle" => /\ readable(TakeSnapshot(book))
                 /\ RestoreOrderBook(TakeSnapshot(book)) = book
=============================================================================
