------------------------------- MODULE Totals -------------------------------
(***************************************************************************)
(* The sum of the values of a function, which the contracts never compute  *)
(* but which what they hold is compared with.                              *)
(***************************************************************************)
EXTENDS Naturals, FiniteSets

\* One element for every unit that f gives to a member of its domain.
units(f) == UNION {{x} \X (1..f[x]) : x \in DOMAIN f}
Total(f) == Cardinality(units(f))
=============================================================================
