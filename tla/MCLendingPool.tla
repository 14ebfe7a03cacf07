--------------------------- MODULE MCLendingPool ----------------------------
(***************************************************************************)
(* LendingPool with basis points of four: 4 is 100 %, 6 the minimum ratio, *)
(* 5 the liquidation threshold.  A year is one tick, so interest and       *)
(* liquidation happen within MaxTime; MaxU64 is small enough for deposits  *)
(* and interest to overflow.                                               *)
(***************************************************************************)
EXTENDS LendingPool, TLC

Symmetry == Permutations(Owners)

\* The invariants speak of pools no checked addition has failed in; the step
\* that fails is explored, what follows it is not.
NoOverflowYet == ~overflowed
=============================================================================
