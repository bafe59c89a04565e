-------------------------------- MODULE Sums --------------------------------
(***************************************************************************)
(* The sum of the first numbers of a list, as a recursive function: where  *)
(* the headers of a packet and the extensions of a hello start, and what   *)
(* the bytes of a segment add up to.                                       *)
(***************************************************************************)
EXTENDS Naturals

\* g[1] + ... + g[n]
SumUpTo(g, n) == LET s[k \in Nat] == IF k = 0 THEN 0 ELSE s[k - 1] + g[k] IN s[n]
=============================================================================
