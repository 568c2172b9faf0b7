--------------------------- MODULE SequenceParts ----------------------------
(***************************************************************************)
(* Operators on sequences that the specifications use.  SequencesExt has   *)
(* them too; it also extends Bags and more, and all of that would be part  *)
(* of every obligation of the proofs.                                      *)
(***************************************************************************)
EXTENDS Naturals, Sequences

BoundedSeq(S, n) == UNION {[1..m -> S] : m \in 0..n}

Last(s) == s[Len(s)]
Front(s) == SubSeq(s, 1, Len(s) - 1)

IsPrefix(s, t) == Len(s) <= Len(t) /\ SubSeq(t, 1, Len(s)) = s
IsSuffix(s, t) == Len(s) <= Len(t) /\ SubSeq(t, Len(t) - Len(s) + 1, Len(t)) = s
=============================================================================
