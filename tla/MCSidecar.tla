------------------------------ MODULE MCSidecar -----------------------------
(* A channel holds one header.  Configurations: both services, with both   *)
(* kinds of signer; the disseminator alone; none; one without a signer; a  *)
(* malformed key of a service that is off.                                 *)
EXTENDS Sidecar

flags(enabled, key, clef) == [enabled |-> enabled, key |-> key, clef |-> clef]
config(d, v) == [s \in Service |-> IF s = "disseminator" THEN d ELSE v]
off == flags(FALSE, "none", FALSE)
MCSystemConfig ==
    {config(flags(TRUE, "valid", FALSE), flags(TRUE, "none", TRUE)),
     config(flags(TRUE, "valid", TRUE), off), config(off, off),
     config(flags(TRUE, "valid", FALSE), flags(TRUE, "none", FALSE)),
     config(flags(TRUE, "valid", FALSE), flags(FALSE, "malformed", FALSE))}
=============================================================================
