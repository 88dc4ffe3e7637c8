------------------------------- MODULE Sums -------------------------------
(***************************************************************************)
(* The total of an integer function over 1..n.  The contracts never add up *)
(* what a vault owes; the properties of the vaults do.  The sum is written *)
(* as a recursive FUNCTION, so that modules with proofs may use it.        *)
(***************************************************************************)
EXTENDS Integers

\* PrefixSums(f, n)[i] is f[1] + ... + f[i].
PrefixSums(f, n) ==
  LET s[i \in 0..n] == IF i = 0 THEN 0 ELSE s[i - 1] + f[i] IN s

Total(f, n) == PrefixSums(f, n)[n]
===========================================================================
