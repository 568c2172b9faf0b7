---------------------------- MODULE SymBisection ----------------------------
(***************************************************************************)
(* SymChallenge with bisection.  As coded, bisectExecution never succeeds  *)
(* (SymChallenge!LongDisputeStuck): its modifier postInitialization        *)
(* lets it run only while there is nothing to bisect.  Here the modifier   *)
(* does what its comment says, and every other call is SymChallenge's,     *)
(* unchanged: this is the specification under which the rounds of          *)
(* bisection are examined.                                                 *)
(***************************************************************************)
EXTENDS SymChallenge

\* The states a responder may cut a segment into.
Cuts == UNION {[1..k -> Hash] : k \in 1..MaxBisectionDegree + 1}

BisectExecution(sender, cut, i) ==
    /\ onTurn(sender)
    /\ bisection # NoBisection
    /\ isCut(bisection, cut, i)
    /\ bisection' = [hashes |-> cut, start |-> segmentStart(bisection, i),
                     length |-> segmentLength(bisection, i)]
    /\ EndTurn
    /\ UNCHANGED <<blockNumber, players, endHash, numSteps, bound, completed, thinking, proposed>>

BisectNext ==
    \/ Next
    \/ \E a \in Address, cut \in Cuts, i \in 1..MaxBisectionDegree : BisectExecution(a, cut, i)

BisectSpec == Init /\ [][BisectNext]_vars

-----------------------------------------------------------------------------
(* Properties *)

\* The segment in dispute lies within the steps of the assertion and has as many
\* hashes as its length allows, after any number of bisections.
SegmentInRange ==
    bisection # NoBisection =>
        /\ bisection.length > 0 /\ bisection.start + bisection.length <= numSteps
        /\ Len(bisection.hashes) \in {2, 3}
        /\ Len(bisection.hashes) = 3 => bisection.length > 1

\* A round makes the segment in dispute shorter, from the second one on, and
\* never leaves the segment it starts from: bisection ends.
Narrows ==
    [][bisection # NoBisection /\ bisection' # bisection =>
          /\ Len(bisection.hashes) = 3 => bisection'.length < bisection.length
          /\ bisection.start <= bisection'.start
          /\ bisection'.start + bisection'.length <= bisection.start + bisection.length]_vars
=============================================================================
