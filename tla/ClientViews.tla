----------------------------- MODULE ClientViews -----------------------------
(***************************************************************************)
(* What can be known of the book from its events alone.  A reader of every *)
(* event (the recipients that route in go/service/service.go serves) keeps *)
(* the depth of the book from the BookUpdates, and the open orders from    *)
(* the execution reports.  The views follow the engine command by command. *)
(***************************************************************************)
EXTENDS OrderBook

VARIABLES depth,  \* <<side, price>> -> aggregate, from the BookUpdates
          open    \* order id -> remaining quantity, from the reports

viewVars == <<book, pc, taker, changed, events, depth, open>>

Without(f, k) == [x \in DOMAIN f \ {k} |-> f[x]]
With(f, k, v) == [x \in DOMAIN f \cup {k} |-> IF x = k THEN v ELSE f[x]]

\* A BookUpdate replaces the aggregate of its level; 0 means the level is gone.
readDepth(d, e) ==
  CASE e.type # "BookUpdate" -> d
    [] e.type = "BookUpdate" /\ e.aggregate = 0 -> Without(d, <<e.side, e.price>>)
    [] OTHER -> With(d, <<e.side, e.price>>, e.aggregate)

\* A report gives the order's remaining quantity; FILLED and CANCELED close it.
readReport(o, e) ==
  CASE e.type = "Accepted" -> With(o, e.id, e.qty)
    [] e.type = "Filled" /\ e.remaining > 0 -> With(o, e.id, e.remaining)
    [] e.type = "Filled" /\ e.remaining = 0 -> Without(o, e.id)
    [] e.type = "Canceled" -> Without(o, e.id)
    [] OTHER -> o

\* The views after a command's events, read one by one.
depthAfter(d, evs) ==
  LET after[n \in 0..Len(evs)] == IF n = 0 THEN d ELSE readDepth(after[n - 1], evs[n])
  IN  after[Len(evs)]
openAfter(o, evs) ==
  LET after[n \in 0..Len(evs)] == IF n = 0 THEN o ELSE readReport(after[n - 1], evs[n])
  IN  after[Len(evs)]

ViewInit == Init /\ depth = << >> /\ open = << >>

ViewNext ==
  /\ Next
  /\ IF pc' = "idle"
     THEN /\ depth' = depthAfter(depth, events')
          /\ open' = openAfter(open, events')
     ELSE UNCHANGED <<depth, open>>

ViewSpec == ViewInit /\ [][ViewNext]_viewVars /\ Fairness

-----------------------------------------------------------------------------
\* The true aggregate of a level, with no limit on its size.
TrueDepth(bs, i) == sumOf(quantities(book, book.levels[bs][i].fifo))

\* BookUpdate is "new total resting quantity at a level (0 = level removed)",
\* "emitted for every level whose aggregate changed": after every command the
\* depth read from the updates is the book's, level for level.  A level missed
\* by touch, reported twice with a stale total, or reported before the
\* remainder rests in it would leave the reader wrong for good.
DepthIsExact ==
  pc = "idle" =>
    /\ DOMAIN depth = UNION {{<<bs, book.levels[bs][i].price>> :
                                i \in DOMAIN book.levels[bs]} : bs \in BookSides}
    /\ \A bs \in BookSides : \A i \in DOMAIN book.levels[bs] :
         depth[<<bs, book.levels[bs][i].price>>] = TrueDepth(bs, i)

\* The reports alone tell each owner exactly which of its orders are open and
\* how much of each is left (Accepted, Filled for both parties, Canceled).
OpenOrdersAreExact ==
  pc = "idle" => open = [id \in DOMAIN book.orders |-> book.orders[id].qty]
=============================================================================
