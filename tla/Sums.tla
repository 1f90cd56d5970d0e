-------------------------------- MODULE Sums --------------------------------
(* The first values of a sequence added up or put one behind the other, as   *)
(* recursive functions, so that SumProofs can say how they grow.             *)
EXTENDS Integers, Sequences

\* f[1] + ... + f[n], where an absent value counts nothing.
Total(f, n) ==
  LET upto[i \in Nat] ==
        IF i = 0 THEN 0 ELSE upto[i - 1] + (IF i \in DOMAIN f THEN f[i] ELSE 0)
  IN  upto[n]

\* f[1] \o ... \o f[n], where an absent value adds nothing.
Joined(f, n) ==
  LET upto[i \in Nat] ==
        IF i = 0 THEN <<>> ELSE upto[i - 1] \o (IF i \in DOMAIN f THEN f[i] ELSE <<>>)
  IN  upto[n]
=============================================================================
