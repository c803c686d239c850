-------------------------------- MODULE Sums --------------------------------
(***************************************************************************)
(* Sums of the values of a function on 1..m, as the books of the pools     *)
(* take them over the notes of a tree.                                     *)
(***************************************************************************)
EXTENDS Integers

SumOf(f, m) ==
  LET sum[n \in 0..m] == IF n = 0 THEN 0 ELSE sum[n - 1] + f[n]
  IN sum[m]
=============================================================================
