---------------------------- MODULE SymChallenge ----------------------------
(***************************************************************************)
(* One challenge contract (contracts/src/challenge/SymChallenge.sol with   *)
(* ChallengeBase.sol and ChallengeLib.sol) from the moment Rollup has      *)
(* initialized it.  One action is one call that does not revert.  Rollup,  *)
(* the receiver of the result, is reduced to whether it still holds both   *)
(* players in this challenge.                                              *)
(*                                                                         *)
(* bisectionHash commits to hashes, a start and a length; the commitment   *)
(* is modelled by what it commits to.  The words that are hashed are       *)
(* <<hashes, start, length>> one after the other, so that distinct triples *)
(* give distinct strings.                                                  *)
(*                                                                         *)
(* X_why is a faulty variant of operator X: no specification uses it, it   *)
(* shows which property notices that fault in X.                           *)
(***************************************************************************)
EXTENDS Naturals, Sequences

CONSTANTS
    Address,                  \* accounts that may call the contract
    Hash, ZeroHash,           \* state hashes; bytes32(0) may be one of them
    StartHash,                \* the state both players agree on
    NoBisection,              \* bisectionHash = 0
    Steps,                    \* numbers of steps that may be proposed
    ChallengePeriod,
    InclusionVerifies,        \* can the DA provider verify a transaction's inclusion?
    MaxBlock                  \* bound on the L1 block number

VARIABLES
    blockNumber,
    players,                  \* defender and challenger, who may be one account
    endHash,                  \* endStateDefenseHash and endStateChallengeHash
    turn, lastMoveBlock,
    timeLeft,                 \* defenderTimeLeft and challengerTimeLeft
    numSteps,
    bisection,                \* what bisectionHash commits to
    bound,                    \* Rollup holds both players in this challenge
    completed,                \* history: the Completed event
    thinking,                 \* history: blocks mined on a player's turn
    proposed                  \* history: the number of steps a player proposed

vars == <<blockNumber, players, endHash, turn, lastMoveBlock, timeLeft, numSteps, bisection,
          bound, completed, thinking, proposed>>

Player == {"Defender", "Challenger"}
MaxBisectionDegree == 2
NotCompleted == [winner |-> "none", reason |-> "none"]
Bisection == [hashes : Seq(Hash), start : Nat, length : Nat]

ASSUME ChallengeAssumption ==
    /\ ZeroHash \in Hash /\ StartHash \in Hash /\ NoBisection \notin Bisection
    /\ Steps \subseteq Nat /\ ChallengePeriod \in Nat /\ MaxBlock \in Nat
    /\ InclusionVerifies \in BOOLEAN

\* initialize, called by challengeAssertion with any two stakers.
Init ==
    /\ blockNumber = 0
    /\ players \in [Player -> Address]
    /\ endHash \in [Player -> Hash]
    /\ turn = "Defender"
    /\ lastMoveBlock = blockNumber
    /\ timeLeft = [p \in Player |-> ChallengePeriod]
    /\ numSteps = 0
    /\ bisection = NoBisection
    /\ bound = TRUE
    /\ completed = NotCompleted
    /\ thinking = [p \in Player |-> 0]
    /\ proposed = [p \in Player |-> 0]

-----------------------------------------------------------------------------
(* Turns *)

opponent(p) == IF p = "Defender" THEN "Challenger" ELSE "Defender"
elapsed == blockNumber - lastMoveBlock
inTime == elapsed <= timeLeft[turn]
onTurn(sender) == sender = players[turn] /\ inTime

\* The end of onlyOnTurn.
EndTurn_noRestart ==
    /\ timeLeft' = [timeLeft EXCEPT ![turn] = @ - elapsed]
    /\ turn' = opponent(turn)
    /\ lastMoveBlock' = lastMoveBlock
EndTurn ==
    /\ timeLeft' = [timeLeft EXCEPT ![turn] = @ - elapsed]
    /\ turn' = opponent(turn)
    /\ lastMoveBlock' = blockNumber

\* _asserterWin and _challengerWin: Rollup's completeChallenge reverts unless
\* both players are in this challenge, and frees them.
Complete(p, why) ==
    /\ bound
    /\ bound' = FALSE
    /\ completed' = [winner |-> p, reason |-> why]

-----------------------------------------------------------------------------
(* Segments *)

firstSegmentLength(length) == (length \div MaxBisectionDegree) + (length % MaxBisectionDegree)
otherSegmentLength(length) == length \div MaxBisectionDegree

\* Length and start of the i-th segment of bisection b.  Two hashes delimit the
\* single segment of the first round.
segmentLength_whole(b, i) == b.length
segmentLength(b, i) ==
    IF Len(b.hashes) = 2 THEN b.length
    ELSE IF i = 1 THEN firstSegmentLength(b.length) ELSE otherSegmentLength(b.length)
segmentStart(b, i) ==
    IF Len(b.hashes) = 2 \/ i = 1 THEN b.start
    ELSE b.start + firstSegmentLength(b.length) + (otherSegmentLength(b.length) * (i - 2))

isIndex(b, i) == i \in 1..Len(b.hashes) - 1
isLastRound_any(b) == TRUE
isLastRound(b) == b.length \div MaxBisectionDegree <= 1

\* The arguments bisectExecution accepts: from the agreed start of segment i to
\* another end, cut in MaxBisectionDegree or in single steps.
isCut(b, cut, i) ==
    LET length == segmentLength(b, i)
        target == IF length < MaxBisectionDegree THEN length ELSE MaxBisectionDegree
    IN  /\ isIndex(b, i)
        /\ length > 1
        /\ Len(cut) = target + 1
        /\ cut[1] = b.hashes[i]
        /\ cut[Len(cut)] # b.hashes[i + 1]

\* The modifier bisectExecution carries.
postInitialization == bisection = NoBisection

-----------------------------------------------------------------------------
(* The calls *)

\* Whose proposal stands when the challenger answers steps with n.
standing(n, steps) == IF n < steps THEN "Challenger" ELSE "Defender"

\* The defender proposes a number of steps, then the challenger; the smaller one
\* stands, with the end state of the player who proposed it.  A call by anybody
\* else only restarts the clock.  One account that plays both sides does both at
\* once; its second subtraction is checked too.
InitializeChallengeLength(sender, n) ==
    LET defends == turn = "Defender" /\ sender = players["Defender"]
        attacks == (defends \/ turn = "Challenger") /\ sender = players["Challenger"]
        moves == [p \in Player |-> IF p = "Defender" THEN defends ELSE attacks]
        steps == IF defends THEN n ELSE numSteps
        chosen == standing(n, steps)
    IN  /\ inTime /\ bisection = NoBisection /\ n > 0
        /\ attacks => elapsed <= timeLeft["Challenger"]
        /\ timeLeft' = [p \in Player |-> IF moves[p] THEN timeLeft[p] - elapsed ELSE timeLeft[p]]
        /\ numSteps' = IF attacks /\ chosen = "Challenger" THEN n ELSE steps
        /\ turn' = IF attacks THEN opponent(chosen) ELSE IF defends THEN "Challenger" ELSE turn
        /\ bisection' = IF attacks
                        THEN [hashes |-> <<StartHash, endHash[chosen]>>, start |-> 0, length |-> numSteps']
                        ELSE NoBisection
        /\ lastMoveBlock' = blockNumber
        /\ proposed' = [p \in Player |-> IF moves[p] THEN n ELSE proposed[p]]
        /\ UNCHANGED <<blockNumber, players, endHash, bound, completed, thinking>>

\* Verifier.sol's verifyOneStepProof returns 0 whatever it is given.
verifierResult == ZeroHash

\* The responder wins if the step does not end where the other player says; if
\* it does, only the turn passes.
VerifyOneStepProof(sender, i) ==
    /\ onTurn(sender)
    /\ bisection # NoBisection
    /\ isIndex(bisection, i)
    /\ isLastRound(bisection)
    /\ InclusionVerifies
    /\ \/ verifierResult # bisection.hashes[i + 1] /\ Complete(turn, "OSP_VERIFIED")
       \/ verifierResult = bisection.hashes[i + 1] /\ UNCHANGED <<bound, completed>>
    /\ EndTurn
    /\ UNCHANGED <<blockNumber, players, endHash, numSteps, bisection, thinking, proposed>>

Timeout ==
    /\ ~inTime
    /\ Complete(opponent(turn), "TIMEOUT")
    /\ UNCHANGED <<blockNumber, players, endHash, turn, lastMoveBlock, timeLeft, numSteps,
                   bisection, thinking, proposed>>

\* Rollup's removeStake deletes a player.
ReleasePlayer ==
    /\ bound
    /\ bound' = FALSE
    /\ UNCHANGED <<blockNumber, players, endHash, turn, lastMoveBlock, timeLeft, numSteps,
                   bisection, completed, thinking, proposed>>

MineBlock ==
    /\ blockNumber < MaxBlock
    /\ blockNumber' = blockNumber + 1
    /\ thinking' = [thinking EXCEPT ![turn] = @ + 1]
    /\ UNCHANGED <<players, endHash, turn, lastMoveBlock, timeLeft, numSteps, bisection,
                   bound, completed, proposed>>

\* bisectExecution is not among them: its modifier wants bisectionHash to be 0
\* and its body the hash of an argument, so that it always reverts.
Next ==
    \/ MineBlock \/ Timeout \/ ReleasePlayer
    \/ \E a \in Address, n \in Steps : InitializeChallengeLength(a, n)
    \/ \E a \in Address, i \in 1..MaxBisectionDegree : VerifyOneStepProof(a, i)

Spec == Init /\ [][Next]_vars

-----------------------------------------------------------------------------
(* Properties *)

TwoPlayers == players["Defender"] # players["Challenger"]

\* Every variable has the type of its storage slot: no clock goes below zero.
TypeOK ==
    /\ blockNumber \in Nat /\ lastMoveBlock \in 0..blockNumber
    /\ players \in [Player -> Address] /\ endHash \in [Player -> Hash]
    /\ turn \in Player /\ timeLeft \in [Player -> Nat]
    /\ numSteps \in Nat /\ bisection \in Bisection \cup {NoBisection}
    /\ bound \in BOOLEAN /\ thinking \in [Player -> Nat] /\ proposed \in [Player -> Nat]
    /\ completed \in [winner : Player, reason : {"OSP_VERIFIED", "TIMEOUT"}] \cup {NotCompleted}

\* A player times out only after the challenge period has been spent on that
\* player's turns, whoever called what in between (timeout, onlyOnTurn).
TimeoutDeserved ==
    TwoPlayers /\ completed.reason = "TIMEOUT" =>
        thinking[opponent(completed.winner)] > ChallengePeriod

\* The dispute is over the smaller number of steps proposed, and its end state is
\* that of the player who proposed it (initializeChallengeLength).
LeastStepsStand ==
    bisection # NoBisection /\ Len(bisection.hashes) = 2 =>
        \E p \in Player : /\ bisection.length = proposed[p]
                          /\ bisection.hashes = <<StartHash, endHash[p]>>
                          /\ proposed[p] <= proposed[opponent(p)]

\* What the reversed check of postInitialization amounts to: once more than three
\* steps are disputed nobody can move any more, and the only verdict left is that
\* the player to respond loses by timeout.
LongDisputeStuck ==
    [][bisection # NoBisection /\ bisection.length > 3 =>
          /\ UNCHANGED <<turn, lastMoveBlock, timeLeft, bisection>>
          /\ completed' \in {completed, [winner |-> opponent(turn), reason |-> "TIMEOUT"]}]_vars
=============================================================================
