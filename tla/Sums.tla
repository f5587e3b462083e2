-------------------------------- MODULE Sums --------------------------------
(* The sum of f[1], ..., f[n], for the properties that add things up.         *)
EXTENDS Integers

SumTo(f, n) == LET sum[k \in 0..n] == IF k = 0 THEN 0 ELSE sum[k - 1] + f[k]
               IN  sum[n]
=============================================================================
