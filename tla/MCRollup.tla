------------------------------ MODULE MCRollup ------------------------------
(***************************************************************************)
(* Instances of Rollup and RollupForks for TLC.                            *)
(***************************************************************************)
EXTENDS RollupForks, TLC

MCConfig == [confirmationPeriod |-> 1, challengePeriod |-> 1, minimumAssertionPeriod |-> 0,
             baseStakeAmount |-> 2, daProvider |-> "inbox"]

\* RollupForks while the administrator is idle.
QuietForkSpec == Init /\ [][Step \/ ProposeForks]_vars

\* Total is the sum of the values of a function.
Ext == INSTANCE FiniteSetsExt
ASSUME TotalIsSum ==
    \A f \in [Address -> 0..3] : Total(f) = Ext!MapThenSumSet(LAMBDA a : f[a], Address)

Symmetry == Permutations(Address) \cup Permutations(Hash)
=============================================================================
