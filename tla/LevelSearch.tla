----------------------------- MODULE LevelSearch -----------------------------
(***************************************************************************)
(* The binary search levelIndex of go/engine/order_book.go, one turn of    *)
(* its loop per step, and what it has to return: Book's levelIndex.  As in *)
(* the code, lo and hi are 0-based and the slice is levels[lo..hi-1].      *)
(***************************************************************************)
EXTENDS Book

CONSTANTS SearchPrices,  \* the prices a level may have
          MaxLevels      \* bound on the length of a slice

ASSUME SearchAssumption == SearchPrices \subseteq Int /\ MaxLevels \in Nat

VARIABLES levels, price, bs,  \* the arguments; desc says that bs is Buy
          lo, hi,             \* the locals
          outcome             \* "loop", or the return: "found" or "missing"

searchVars == <<levels, price, bs, lo, hi, outcome>>

desc == bs = Buy

SortedSlices(side) ==
  {lv \in UNION {[1..n -> [price : SearchPrices]] : n \in 0..MaxLevels} :
     SortedSlice(lv, side)}

SearchInit ==
  /\ bs \in BookSides
  /\ levels \in SortedSlices(bs)
  /\ price \in SearchPrices
  /\ lo = 0
  /\ hi = Len(levels)
  /\ outcome = "loop"

\* Mutants: the upper half is cut one too far; the lower bound does not move.
Narrow(newLo, newHi) ==
  /\ outcome = "loop"
  /\ lo < hi
  /\ LET mid == (lo + hi) \div 2
         p   == levels[mid + 1].price
     IN  \/ p = price /\ lo' = mid /\ outcome' = "found" /\ UNCHANGED hi
         \/ /\ p # price
            /\ IF desc <=> p > price THEN lo' = mid + newLo /\ hi' = hi
               ELSE hi' = mid - newHi /\ lo' = lo
            /\ UNCHANGED outcome
  /\ UNCHANGED <<levels, price, bs>>
ProbeCutsTooFar == Narrow(1, 1)
ProbeStuck == Narrow(0, 0)

\* A turn of the loop: return the index of the price, or halve the range.
Probe ==
  /\ outcome = "loop"
  /\ lo < hi
  /\ LET mid == (lo + hi) \div 2
         p   == levels[mid + 1].price
     IN  \/ p = price /\ lo' = mid /\ outcome' = "found" /\ UNCHANGED hi
         \/ /\ p # price
            /\ IF desc <=> p > price THEN lo' = mid + 1 /\ hi' = hi
               ELSE hi' = mid /\ lo' = lo
            /\ UNCHANGED outcome
  /\ UNCHANGED <<levels, price, bs>>

\* The loop is left: the price is not there.
Miss ==
  /\ outcome = "loop"
  /\ ~(lo < hi)
  /\ outcome' = "missing"
  /\ UNCHANGED <<levels, price, bs, lo, hi>>

SearchNext == Probe \/ Miss

SearchSpec == SearchInit /\ [][SearchNext]_searchVars /\ WF_searchVars(SearchNext)

-----------------------------------------------------------------------------
\* What levelIndex returns on a sorted slice: the first index whose price does
\* not rank before the one searched for, and whether that price is there.
SearchCorrect ==
  outcome # "loop" =>
    /\ lo + 1 = levelIndex(levels, price, bs)
    /\ outcome = "found" <=> found(levels, lo + 1, price)

\* The loop ends: every turn that does not return narrows the range.
SearchEnds == <>(outcome # "loop")
=============================================================================
