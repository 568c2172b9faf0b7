----------------------------- MODULE MCValidator ----------------------------
(* One validator or two, against both contracts. *)
EXTENDS Validator

MCConfig == [confirmationPeriod |-> 1, challengePeriod |-> 1, minimumAssertionPeriod |-> 0,
             baseStakeAmount |-> 2, daProvider |-> "inbox"]
MCNode == {{"alice"}, {"alice", "bob"}}
MCHash == {<<"block", n>> : n \in 1..MaxSafe}
MCBlockHash(n) == <<"block", n>>
=============================================================================
