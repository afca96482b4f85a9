------------------------------- MODULE Slices -------------------------------
(***************************************************************************)
(* What the code does to slices, and the folds over sequences that the     *)
(* modules share, written as recursive functions: module BookProofs proves *)
(* what they compute.                                                      *)
(***************************************************************************)
EXTENDS Integers, Sequences, Functions

\* A sequence, whatever its elements.
IsSeq(s) == \E S : s \in Seq(S)

\* append(s[:i-1], s[i:]...): the i-th element is gone.
removeAt(s, i) == SubSeq(s, 1, i - 1) \o SubSeq(s, i + 1, Len(s))

\* append, copy and assign: e becomes the i-th element.
insertAt(s, i, e) == SubSeq(s, 1, i - 1) \o <<e>> \o SubSeq(s, i, Len(s))

replaceAt(s, i, e) == [s EXCEPT ![i] = e]

\* Step, n times over, from x.
iterate(Step(_), x, n) ==
  LET after[k \in 0..n] == IF k = 0 THEN x ELSE Step(after[k - 1])
  IN  after[n]

\* The sum of a sequence of integers.
sumOf(s) ==
  LET sum[n \in 0..Len(s)] == IF n = 0 THEN 0 ELSE sum[n - 1] + s[n]
  IN  sum[Len(s)]

\* The elements of a sequence of sequences, one after the other.
flatten(ss) ==
  LET flat[n \in 0..Len(ss)] == IF n = 0 THEN << >> ELSE flat[n - 1] \o ss[n]
  IN  flat[Len(ss)]
=============================================================================
