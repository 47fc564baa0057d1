-------------------------------- MODULE Sums --------------------------------
(***************************************************************************)
(* The sum of a family of numbers over a finite set of its indices: the    *)
(* total of the scores in a weighted selection, of the EWMAs that make the *)
(* pool mean, of the calls the upstreams counted.                          *)
(***************************************************************************)
EXTENDS Integers, FiniteSets, FiniteSetsExt

TotalOf(w, S) == MapThenSumSet(LAMBDA i : w[i], S)
=============================================================================
