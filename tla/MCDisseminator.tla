--------------------------- MODULE MCDisseminator ---------------------------
(* Small instances of Disseminator for TLC. *)
EXTENDS Disseminator
=============================================================================
