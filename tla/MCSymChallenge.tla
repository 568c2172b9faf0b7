---------------------------- MODULE MCSymChallenge ----------------------------
(* Small instances of SymChallenge and SymBisection for TLC. *)
EXTENDS SymBisection, TLC

\* Only the hash both players agree on and bytes32(0) are told apart.
OtherHash == Hash \ {ZeroHash, StartHash}
Symmetry == Permutations(Address) \cup Permutations(OtherHash)
=============================================================================
