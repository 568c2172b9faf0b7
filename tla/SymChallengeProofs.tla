-------------------------- MODULE SymChallengeProofs --------------------------
(***************************************************************************)
(* Proofs about SymChallenge and SymBisection, for every number of         *)
(* accounts, steps and blocks and every challenge period.                  *)
(***************************************************************************)
EXTENDS SymBisection, SequenceTheorems, TLAPS

\* A leaf is left to Zenon unless it names another prover.
USE Zenon

\* The clock of a player is charged at most the blocks mined on that player's
\* turns, those of the turn in progress included.
ClocksFair ==
    TwoPlayers => \A p \in Player :
        ChallengePeriod + (IF turn = p THEN elapsed ELSE 0) <= timeLeft[p] + thinking[p]

\* A timeout stays visible in the contract: nothing moves the turn on afterwards.
TimeoutFinal ==
    completed.reason = "TIMEOUT" => completed.winner = opponent(turn) /\ ~inTime

ClockInv == TypeOK /\ ClocksFair /\ TimeoutFinal

-----------------------------------------------------------------------------
(* Arithmetic of segments *)

\* firstSegmentLength and otherSegmentLength split a segment without loss, and
\* both parts of a segment of several steps are shorter than it and not empty.
LEMMA SegmentsAddUp ==
    ASSUME NEW n \in Nat
    PROVE  /\ firstSegmentLength(n) \in Nat /\ otherSegmentLength(n) \in Nat
           /\ firstSegmentLength(n) + otherSegmentLength(n) = n
           /\ n > 1 => /\ firstSegmentLength(n) < n /\ otherSegmentLength(n) < n
                       /\ firstSegmentLength(n) > 0 /\ otherSegmentLength(n) > 0
  BY SMT DEF firstSegmentLength, otherSegmentLength, MaxBisectionDegree

\* The last round has at most three steps (the BISECTION_INCOMPLETE check).
LEMMA LastRoundShort ==
    ASSUME NEW n \in Nat, n \div MaxBisectionDegree <= 1
    PROVE  n <= 3
  BY SMT DEF MaxBisectionDegree

-----------------------------------------------------------------------------
(* Types and clocks *)

\* initialize starts both clocks at the challenge period.
LEMMA ClockInit == Init => ClockInv
  <1> SUFFICES ASSUME Init PROVE ClockInv
    OBVIOUS
  <1>1. TypeOK
    BY ChallengeAssumption, SMT DEF Init, TypeOK, Player, NotCompleted
  <1>2. ClocksFair
    BY ChallengeAssumption, SMT DEF Init, ClocksFair, Player, elapsed
  <1>3. TimeoutFinal
    BY DEF Init, TimeoutFinal, NotCompleted
  <1> QED BY <1>1, <1>2, <1>3 DEF ClockInv

\* A turn that ends in time is charged to the player whose turn it was.
LEMMA EndTurnKeepsClocks ==
    ASSUME ClockInv, inTime, EndTurn, UNCHANGED <<blockNumber, players, thinking>>
    PROVE  /\ lastMoveBlock' \in 0..blockNumber' /\ turn' \in Player
           /\ timeLeft' \in [Player -> Nat]
           /\ ClocksFair'
  <1>1. /\ blockNumber \in Nat /\ lastMoveBlock \in 0..blockNumber /\ turn \in Player
        /\ timeLeft \in [Player -> Nat] /\ thinking \in [Player -> Nat]
    BY DEF ClockInv, TypeOK
  <1>2. elapsed \in Nat /\ elapsed <= timeLeft[turn] /\ elapsed' = 0
    BY <1>1, SMT DEF elapsed, inTime, EndTurn
  <1>3. /\ lastMoveBlock' \in 0..blockNumber' /\ turn' \in Player
        /\ timeLeft' \in [Player -> Nat]
    BY <1>1, <1>2, SMT DEF EndTurn, opponent, Player
  <1>4. ASSUME TwoPlayers', NEW p \in Player
        PROVE  ChallengePeriod + (IF turn' = p THEN elapsed' ELSE 0) <= timeLeft'[p] + thinking'[p]
    <2>1. ChallengePeriod + (IF turn = p THEN elapsed ELSE 0) <= timeLeft[p] + thinking[p]
      BY <1>4 DEF ClockInv, ClocksFair, TwoPlayers
    <2>2. timeLeft'[p] = timeLeft[p] - (IF turn = p THEN elapsed ELSE 0)
      BY <1>1, <1>2, SMT DEF EndTurn
    <2> QED BY <1>1, <1>2, <2>1, <2>2, ChallengeAssumption, SMT
  <1> QED BY <1>3, <1>4 DEF ClocksFair

\* initializeChallengeLength charges at most the player on turn.
LEMMA LengthKeepsClocks ==
    ASSUME ClockInv, NEW a \in Address, NEW n \in Steps, InitializeChallengeLength(a, n)
    PROVE  ClockInv'
  <1> DEFINE defends == turn = "Defender" /\ a = players["Defender"]
             attacks == (defends \/ turn = "Challenger") /\ a = players["Challenger"]
             chosen == standing(n, IF defends THEN n ELSE numSteps)
  <1>1. /\ blockNumber \in Nat /\ lastMoveBlock \in 0..blockNumber /\ turn \in Player
        /\ timeLeft \in [Player -> Nat] /\ thinking \in [Player -> Nat] /\ numSteps \in Nat
        /\ n \in Nat /\ endHash \in [Player -> Hash] /\ proposed \in [Player -> Nat]
        /\ players \in [Player -> Address]
    BY ChallengeAssumption DEF ClockInv, TypeOK
  <1>2. /\ inTime /\ UNCHANGED <<blockNumber, players, endHash, bound, completed, thinking>>
        /\ lastMoveBlock' = blockNumber
        /\ attacks => elapsed <= timeLeft["Challenger"]
        /\ turn' = IF attacks THEN opponent(chosen) ELSE IF defends THEN "Challenger" ELSE turn
        /\ numSteps' = IF attacks /\ chosen = "Challenger" THEN n ELSE IF defends THEN n ELSE numSteps
    BY DEF InitializeChallengeLength
  <1>3. /\ timeLeft' = [p \in Player |->
              IF (IF p = "Defender" THEN defends ELSE attacks) THEN timeLeft[p] - elapsed ELSE timeLeft[p]]
        /\ proposed' = [p \in Player |->
              IF (IF p = "Defender" THEN defends ELSE attacks) THEN n ELSE proposed[p]]
    BY DEF InitializeChallengeLength, Player
  <1>4. elapsed \in Nat /\ elapsed <= timeLeft[turn] /\ elapsed' = 0
    BY <1>1, <1>2, SMT DEF elapsed, inTime
  <1>5. chosen \in Player /\ turn' \in Player /\ numSteps' \in Nat /\ proposed' \in [Player -> Nat]
    BY <1>1, <1>2, <1>3 DEF opponent, Player, standing
  <1>6. timeLeft' \in [Player -> Nat]
    BY <1>1, <1>2, <1>3, <1>4, SMT DEF Player
  <1>7. bisection' \in Bisection \cup {NoBisection}
    <2>1. bisection' = IF attacks
                       THEN [hashes |-> <<StartHash, endHash[chosen]>>, start |-> 0, length |-> numSteps']
                       ELSE NoBisection
      BY DEF InitializeChallengeLength
    <2>2. <<StartHash, endHash[chosen]>> \in Seq(Hash) /\ 0 \in Nat
      BY <1>1, <1>5, ChallengeAssumption, SMT
    <2> HIDE DEF attacks, chosen
    <2> QED BY <1>5, <2>1, <2>2 DEF Bisection
  <1>8. TypeOK'
    BY <1>1, <1>2, <1>5, <1>6, <1>7, SMT DEF ClockInv, TypeOK
  <1>9. ASSUME TwoPlayers', NEW p \in Player
        PROVE  ChallengePeriod + (IF turn' = p THEN elapsed' ELSE 0) <= timeLeft'[p] + thinking'[p]
    <2>1. ChallengePeriod + (IF turn = p THEN elapsed ELSE 0) <= timeLeft[p] + thinking[p]
      BY <1>2, <1>9 DEF ClockInv, ClocksFair, TwoPlayers
    <2>2. ~(defends /\ attacks)
      BY <1>2, <1>9 DEF TwoPlayers
    <2>3. timeLeft'[p] = timeLeft[p] \/ (turn = p /\ timeLeft'[p] = timeLeft[p] - elapsed)
      BY <1>1, <1>3, <2>2, SMT DEF Player
    <2> HIDE DEF defends, attacks
    <2> QED BY <1>1, <1>2, <1>4, <1>6, <2>1, <2>3, ChallengeAssumption, SMT
  <1>10. TimeoutFinal'
    BY <1>2 DEF ClockInv, TimeoutFinal
  <1> QED BY <1>8, <1>9, <1>10 DEF ClockInv, ClocksFair

\* verifyOneStepProof charges the player on turn, and decides nothing after a timeout.
LEMMA ProofKeepsClocks ==
    ASSUME ClockInv, NEW a \in Address, NEW i \in 1..MaxBisectionDegree, VerifyOneStepProof(a, i)
    PROVE  ClockInv'
  <1>1. /\ inTime /\ EndTurn
        /\ UNCHANGED <<blockNumber, players, endHash, numSteps, bisection, thinking, proposed>>
    BY DEF VerifyOneStepProof, onTurn
  <1>2. \/ completed' = [winner |-> turn, reason |-> "OSP_VERIFIED"] /\ bound' = FALSE
        \/ UNCHANGED <<bound, completed>>
    BY DEF VerifyOneStepProof, Complete
  <1>3. /\ lastMoveBlock' \in 0..blockNumber' /\ turn' \in Player
        /\ timeLeft' \in [Player -> Nat] /\ ClocksFair'
    BY <1>1, EndTurnKeepsClocks
  <1>4. TypeOK'
    <2>1. turn \in Player /\ bound' \in BOOLEAN
      BY <1>2 DEF ClockInv, TypeOK
    <2>2. [winner |-> turn, reason |-> "OSP_VERIFIED"] \in [winner : Player, reason : {"OSP_VERIFIED", "TIMEOUT"}]
      BY <2>1
    <2>3. completed' \in [winner : Player, reason : {"OSP_VERIFIED", "TIMEOUT"}] \cup {NotCompleted}
      BY <1>2, <2>2 DEF ClockInv, TypeOK
    <2> QED BY <1>1, <1>3, <2>1, <2>3 DEF ClockInv, TypeOK
  <1>5. TimeoutFinal'
    BY <1>1, <1>2, SMT DEF ClockInv, TimeoutFinal
  <1> QED BY <1>3, <1>4, <1>5 DEF ClockInv

\* A segment of a bisection has a natural start and a natural length.
LEMMA SegmentsAreNat ==
    ASSUME NEW b, b.start \in Nat, b.length \in Nat, NEW i \in {1, 2}
    PROVE  segmentStart(b, i) \in Nat /\ segmentLength(b, i) \in Nat
  <1> DEFINE x == firstSegmentLength(b.length)
             y == otherSegmentLength(b.length)
  <1>1. x \in Nat /\ y \in Nat
    BY SegmentsAddUp
  <1> HIDE DEF x, y
  <1>2. segmentLength(b, i) \in {b.length, x, y}
    BY DEF segmentLength, x, y
  <1>3. segmentStart(b, i) = b.start \/ segmentStart(b, i) = b.start + x + y * (i - 2)
    BY DEF segmentStart, x, y
  <1>4. CASE i = 1
    <2>1. segmentStart(b, i) = b.start
      BY <1>4 DEF segmentStart
    <2> QED BY <1>1, <1>2, <2>1
  <1>5. CASE i = 2
    <2>1. y * (i - 2) = 0
      BY <1>1, <1>5, SMT
    <2> QED BY <1>1, <1>2, <1>3, <2>1, SMT
  <1> QED BY <1>4, <1>5

\* The arguments of bisectExecution are sequences of hashes.
LEMMA CutsAreSequences ==
    ASSUME NEW cut \in Cuts
    PROVE  cut \in Seq(Hash)
  <1>1. PICK k \in 1..MaxBisectionDegree + 1 : cut \in [1..k -> Hash]
    BY DEF Cuts
  <1>2. k \in Nat
    BY SMT DEF MaxBisectionDegree
  <1> QED BY <1>1, <1>2, SeqDef

\* A round of bisection charges the player on turn.
LEMMA BisectKeepsClocks ==
    ASSUME ClockInv, NEW a \in Address, NEW cut \in Cuts, NEW i \in 1..MaxBisectionDegree,
           BisectExecution(a, cut, i)
    PROVE  ClockInv'
  <1>1. /\ inTime /\ EndTurn /\ isCut(bisection, cut, i) /\ bisection # NoBisection
        /\ UNCHANGED <<blockNumber, players, endHash, numSteps, bound, completed, thinking, proposed>>
    BY DEF BisectExecution, onTurn
  <1>2. /\ lastMoveBlock' \in 0..blockNumber' /\ turn' \in Player
        /\ timeLeft' \in [Player -> Nat] /\ ClocksFair'
    BY <1>1, EndTurnKeepsClocks
  <1>3. /\ segmentStart(bisection, i) \in Nat /\ segmentLength(bisection, i) \in Nat
    <2>1. bisection.start \in Nat /\ bisection.length \in Nat
      BY <1>1 DEF ClockInv, TypeOK, Bisection
    <2>2. i = 1 \/ i = 2
      BY SMT DEF MaxBisectionDegree
    <2> QED BY <2>1, <2>2, SegmentsAreNat
  <1>4. cut \in Seq(Hash)
    BY CutsAreSequences
  <1>5. bisection' \in Bisection
    BY <1>3, <1>4 DEF BisectExecution, Bisection
  <1>6. TypeOK'
    BY <1>1, <1>2, <1>5 DEF ClockInv, TypeOK
  <1>7. TimeoutFinal'
    BY <1>1 DEF ClockInv, TimeoutFinal
  <1> QED BY <1>2, <1>6, <1>7 DEF ClockInv

\* Every call keeps types, clocks and timeouts in order.
LEMMA ClockStep ==
    ASSUME ClockInv, [BisectNext]_vars
    PROVE  ClockInv'
  <1> USE DEF ClockInv
  <1>1. ASSUME MineBlock PROVE ClockInv'
    <2>1. /\ blockNumber' = blockNumber + 1 /\ thinking' = [thinking EXCEPT ![turn] = @ + 1]
          /\ UNCHANGED <<players, endHash, turn, lastMoveBlock, timeLeft, numSteps, bisection,
                         bound, completed, proposed>>
      BY <1>1 DEF MineBlock
    <2>2. /\ blockNumber \in Nat /\ lastMoveBlock \in 0..blockNumber /\ turn \in Player
          /\ timeLeft \in [Player -> Nat] /\ thinking \in [Player -> Nat]
      BY DEF TypeOK
    <2>3. TypeOK'
      BY <2>1, <2>2, SMT DEF TypeOK
    <2>4. elapsed \in Nat /\ elapsed' = elapsed + 1
      BY <2>1, <2>2, SMT DEF elapsed
    <2>5. ClocksFair'
      BY <2>1, <2>2, <2>4, ChallengeAssumption, SMT DEF ClocksFair, TwoPlayers
    <2>6. TimeoutFinal'
      BY <2>1, <2>2, <2>4, SMT DEF TimeoutFinal, inTime
    <2> QED BY <2>3, <2>5, <2>6
  <1>2. ASSUME Timeout PROVE ClockInv'
    <2>1. /\ ~inTime /\ bound' = FALSE
          /\ completed' = [winner |-> opponent(turn), reason |-> "TIMEOUT"]
          /\ UNCHANGED <<blockNumber, players, endHash, turn, lastMoveBlock, timeLeft, numSteps,
                         bisection, thinking, proposed>>
      BY <1>2 DEF Timeout, Complete
    <2>2. opponent(turn) \in Player
      BY DEF opponent, Player
    <2>3. completed' \in [winner : Player, reason : {"OSP_VERIFIED", "TIMEOUT"}] \cup {NotCompleted}
      BY <2>1, <2>2
    <2>4. TypeOK'
      BY <2>1, <2>3 DEF TypeOK
    <2> QED BY <2>1, <2>4 DEF ClocksFair, TwoPlayers, elapsed, TimeoutFinal, inTime, opponent
  <1>3. ASSUME ReleasePlayer PROVE ClockInv'
    BY <1>3 DEF ReleasePlayer, TypeOK, ClocksFair, TwoPlayers, elapsed, TimeoutFinal, inTime, opponent
  <1>4. ASSUME UNCHANGED vars PROVE ClockInv'
    BY <1>4 DEF vars, TypeOK, ClocksFair, TwoPlayers, elapsed, TimeoutFinal, inTime, opponent
  <1> HIDE DEF ClockInv
  <1> QED BY <1>1, <1>2, <1>3, <1>4, LengthKeepsClocks, ProofKeepsClocks, BisectKeepsClocks
          DEF BisectNext, Next

\* Hence they are always in order.
LEMMA ClockInvAlways == BisectSpec => []ClockInv
  <1>1. Init => ClockInv
    BY ClockInit
  <1>2. ClockInv /\ [BisectNext]_vars => ClockInv'
    BY ClockStep
  <1> QED BY <1>1, <1>2, PTL DEF BisectSpec

\* What holds with bisection holds for the contract as coded.
LEMMA CodedIsBisection == Spec => BisectSpec
  <1>1. [Next]_vars => [BisectNext]_vars
    BY DEF BisectNext
  <1> QED BY <1>1, PTL DEF Spec, BisectSpec

\* Storage keeps its types, with or without bisection: the checked subtractions of
\* onlyOnTurn and initializeChallengeLength never take a clock below zero.
THEOREM ChallengeTypeCorrect == (Spec => []TypeOK) /\ (BisectSpec => []TypeOK)
  <1>1. ClockInv => TypeOK
    BY DEF ClockInv
  <1> QED BY <1>1, ClockInvAlways, CodedIsBisection, PTL

\* A timeout costs a player the challenge only after the whole challenge period
\* was spent on that player's turns.
THEOREM TimeoutIsDeserved == (Spec => []TimeoutDeserved) /\ (BisectSpec => []TimeoutDeserved)
  <1>1. ASSUME ClockInv PROVE TimeoutDeserved
    <2> SUFFICES ASSUME TwoPlayers, completed.reason = "TIMEOUT"
                 PROVE  thinking[opponent(completed.winner)] > ChallengePeriod
      BY DEF TimeoutDeserved
    <2>1. /\ blockNumber \in Nat /\ lastMoveBlock \in 0..blockNumber /\ turn \in Player
          /\ timeLeft \in [Player -> Nat] /\ thinking \in [Player -> Nat]
      BY <1>1 DEF ClockInv, TypeOK
    <2>2. opponent(completed.winner) = turn
      BY <1>1, <2>1 DEF ClockInv, TimeoutFinal, opponent, Player
    <2>3. elapsed \in Nat /\ ~(elapsed <= timeLeft[turn])
      BY <1>1, <2>1, SMT DEF ClockInv, TimeoutFinal, inTime, elapsed
    <2>4. ChallengePeriod + elapsed <= timeLeft[turn] + thinking[turn]
      BY <1>1, <2>1 DEF ClockInv, ClocksFair
    <2> QED BY <2>1, <2>2, <2>3, <2>4, ChallengeAssumption, SMT
  <1> QED BY <1>1, ClockInvAlways, CodedIsBisection, PTL

-----------------------------------------------------------------------------
(* Who wins, and over how many steps *)

\* Once more than three steps are disputed nobody can move: bisectExecution is
\* closed by its modifier and the one-step proof by its length check.
THEOREM LongDisputesAreStuck == Spec => LongDisputeStuck
  <1>1. ASSUME ClockInv, [Next]_vars, bisection # NoBisection, bisection.length > 3
        PROVE  /\ UNCHANGED <<turn, lastMoveBlock, timeLeft, bisection>>
               /\ completed' \in {completed, [winner |-> opponent(turn), reason |-> "TIMEOUT"]}
    <2>1. bisection.length \in Nat
      BY <1>1 DEF ClockInv, TypeOK, Bisection
    <2>2. ASSUME NEW a \in Address, NEW n \in Steps, InitializeChallengeLength(a, n) PROVE FALSE
      BY <1>1, <2>2 DEF InitializeChallengeLength
    <2>3. ASSUME NEW a \in Address, NEW i \in 1..MaxBisectionDegree, VerifyOneStepProof(a, i) PROVE FALSE
      BY <1>1, <2>1, <2>3, LastRoundShort, SMT DEF VerifyOneStepProof, isLastRound
    <2>4. CASE MineBlock
      BY <2>4 DEF MineBlock
    <2>5. CASE Timeout
      BY <2>5 DEF Timeout, Complete
    <2>6. CASE ReleasePlayer
      BY <2>6 DEF ReleasePlayer
    <2>7. CASE UNCHANGED vars
      BY <2>7 DEF vars
    <2> QED BY <1>1, <2>2, <2>3, <2>4, <2>5, <2>6, <2>7 DEF Next
  <1>2. ClockInv /\ [Next]_vars =>
            [bisection # NoBisection /\ bisection.length > 3 =>
                /\ UNCHANGED <<turn, lastMoveBlock, timeLeft, bisection>>
                /\ completed' \in {completed, [winner |-> opponent(turn), reason |-> "TIMEOUT"]}]_vars
    BY <1>1
  <1> QED BY <1>2, ClockInvAlways, CodedIsBisection, PTL DEF Spec, LongDisputeStuck

\* A segment of a bisection lies within it, and is shorter from the second round on.
LEMMA CutInside ==
    ASSUME NEW b \in Bisection, NEW i \in 1..MaxBisectionDegree, Len(b.hashes) \in {2, 3}
    PROVE  /\ b.start <= segmentStart(b, i)
           /\ segmentStart(b, i) + segmentLength(b, i) <= b.start + b.length
           /\ Len(b.hashes) = 3 /\ b.length > 1 => segmentLength(b, i) < b.length
  <1>1. b.start \in Nat /\ b.length \in Nat
    BY DEF Bisection
  <1>2. i = 1 \/ i = 2
    BY SMT DEF MaxBisectionDegree
  <1> DEFINE f == firstSegmentLength(b.length)
             o == otherSegmentLength(b.length)
  <1>3. f \in Nat /\ o \in Nat /\ f + o = b.length /\ (b.length > 1 => f < b.length /\ o < b.length)
    BY <1>1, SegmentsAddUp
  <1>4. /\ segmentLength(b, i) = IF Len(b.hashes) = 2 THEN b.length ELSE IF i = 1 THEN f ELSE o
        /\ segmentStart(b, i) = IF Len(b.hashes) = 2 \/ i = 1 THEN b.start ELSE b.start + f + (o * (i - 2))
    BY DEF segmentLength, segmentStart
  <1> HIDE DEF f, o
  <1>5. CASE i = 1
    BY <1>1, <1>3, <1>4, <1>5, SMT
  <1>6. CASE i = 2
    <2>1. o * (i - 2) = 0
      BY <1>3, <1>6, SMT
    <2> QED BY <1>1, <1>3, <1>4, <1>6, <2>1, SMT
  <1> QED BY <1>2, <1>5, <1>6

\* While the challenger is to answer, the defender's proposal stands.
DefenderProposed ==
    bisection = NoBisection /\ turn = "Challenger" => numSteps = proposed["Defender"] /\ numSteps > 0

SegmentInv == ClockInv /\ DefenderProposed /\ SegmentInRange /\ LeastStepsStand

\* initializeChallengeLength opens the dispute over all the steps agreed on.
LEMMA LengthKeepsSegment ==
    ASSUME SegmentInv, NEW a \in Address, NEW n \in Steps, InitializeChallengeLength(a, n)
    PROVE  DefenderProposed' /\ SegmentInRange' /\ LeastStepsStand'
  <1> DEFINE defends == turn = "Defender" /\ a = players["Defender"]
             attacks == (defends \/ turn = "Challenger") /\ a = players["Challenger"]
             chosen == standing(n, IF defends THEN n ELSE numSteps)
  <1>1. /\ n \in Nat /\ n > 0 /\ numSteps \in Nat /\ turn \in Player /\ endHash' = endHash
        /\ proposed \in [Player -> Nat] /\ bisection = NoBisection
        /\ turn' = IF attacks THEN opponent(chosen) ELSE IF defends THEN "Challenger" ELSE turn
        /\ numSteps' = IF attacks /\ chosen = "Challenger" THEN n ELSE IF defends THEN n ELSE numSteps
    BY ChallengeAssumption DEF SegmentInv, ClockInv, TypeOK, InitializeChallengeLength
  <1>2. /\ proposed'["Defender"] = IF defends THEN n ELSE proposed["Defender"]
        /\ proposed'["Challenger"] = IF attacks THEN n ELSE proposed["Challenger"]
    BY DEF InitializeChallengeLength, Player
  <1>3. bisection' = IF attacks
                     THEN [hashes |-> <<StartHash, endHash[chosen]>>, start |-> 0, length |-> numSteps']
                     ELSE NoBisection
    BY DEF InitializeChallengeLength
  <1>4. ~defends /\ turn = "Challenger" => numSteps = proposed["Defender"] /\ numSteps > 0
    BY <1>1 DEF SegmentInv, DefenderProposed
  <1>5. CASE ~attacks
    <2>1. bisection' = NoBisection
      BY <1>3, <1>5
    <2>2. DefenderProposed'
      BY <1>1, <1>2, <1>4, <1>5 DEF DefenderProposed
    <2> QED BY <2>1, <2>2 DEF SegmentInRange, LeastStepsStand
  <1>6. CASE attacks
    <2>1. /\ bisection'.hashes = <<StartHash, endHash[chosen]>> /\ bisection'.start = 0
          /\ bisection'.length = numSteps'
      BY <1>3, <1>6
    <2>2. numSteps' \in Nat /\ numSteps' > 0
      BY <1>1, <1>4, <1>6
    <2>3. bisection' # NoBisection
      <3>1. chosen \in Player /\ endHash \in [Player -> Hash]
        BY DEF standing, Player, SegmentInv, ClockInv, TypeOK
      <3>2. <<StartHash, endHash[chosen]>> \in Seq(Hash) /\ 0 \in Nat
        BY <3>1, ChallengeAssumption, SMT
      <3> HIDE DEF attacks, chosen
      <3>3. bisection' \in Bisection
        BY <1>3, <1>6, <2>2, <3>2 DEF Bisection
      <3> QED BY <3>3, ChallengeAssumption
    <2>4. Len(bisection'.hashes) = 2
      BY <2>1
    <2>5. SegmentInRange'
      <3>1. bisection'.start = 0 /\ bisection'.length = numSteps'
        BY <2>1
      <3>2. \A x, y, z : x = 0 /\ y = z /\ z \in Nat /\ z > 0 => y > 0 /\ x + y <= z
        BY SMT
      <3>3. bisection'.length > 0 /\ bisection'.start + bisection'.length <= numSteps'
        BY <2>2, <3>1, <3>2
      <3> QED BY <2>4, <3>3, SMT DEF SegmentInRange
    <2>6. /\ chosen \in Player /\ numSteps' = proposed'[chosen]
          /\ proposed'[chosen] <= proposed'[opponent(chosen)]
      BY <1>1, <1>2, <1>4, <1>6, SMT DEF standing, opponent, Player
    <2>7. LeastStepsStand'
      BY <1>1, <2>1, <2>6 DEF LeastStepsStand
    <2> QED BY <2>3, <2>5, <2>7 DEF DefenderProposed
  <1> QED BY <1>5, <1>6

\* What a round of bisection does to the commitment.
LEMMA BisectEffect ==
    ASSUME SegmentInv, NEW a \in Address, NEW cut \in Cuts, NEW i \in 1..MaxBisectionDegree,
           BisectExecution(a, cut, i)
    PROVE  /\ bisection \in Bisection /\ bisection' \in Bisection
           /\ Len(bisection'.hashes) = 3 /\ bisection'.length > 1
           /\ bisection.start <= bisection'.start
           /\ bisection'.start + bisection'.length <= bisection.start + bisection.length
           /\ Len(bisection.hashes) = 3 => bisection'.length < bisection.length
  <1>1. bisection # NoBisection /\ isCut(bisection, cut, i)
    BY DEF BisectExecution
  <1>2. /\ bisection'.hashes = cut /\ bisection'.start = segmentStart(bisection, i)
        /\ bisection'.length = segmentLength(bisection, i)
    BY DEF BisectExecution
  <1>3. bisection \in Bisection /\ bisection' \in Bisection \cup {NoBisection}
    BY <1>1, BisectKeepsClocks DEF SegmentInv, ClockInv, TypeOK
  <1>4. segmentLength(bisection, i) > 1
    BY <1>1 DEF isCut
  <1>5. bisection.start \in Nat /\ bisection.length \in Nat /\ (i = 1 \/ i = 2)
    BY <1>3, SMT DEF Bisection, MaxBisectionDegree
  <1>6. segmentStart(bisection, i) \in Nat /\ segmentLength(bisection, i) \in Nat
    BY <1>5, SegmentsAreNat
  <1>7. Len(cut) = 3
    BY <1>1, <1>4, <1>6, SMT DEF isCut, MaxBisectionDegree
  <1>8. /\ Len(bisection.hashes) \in {2, 3}
        /\ Len(bisection.hashes) = 3 => bisection.length > 1
    BY <1>1 DEF SegmentInv, SegmentInRange
  <1>9. /\ bisection.start <= segmentStart(bisection, i)
        /\ segmentStart(bisection, i) + segmentLength(bisection, i) <= bisection.start + bisection.length
        /\ Len(bisection.hashes) = 3 => segmentLength(bisection, i) < bisection.length
    BY <1>3, <1>8, CutInside
  <1>10. bisection' \in Bisection
    <2>1. cut \in Seq(Hash)
      BY CutsAreSequences
    <2> QED BY <1>6, <2>1 DEF BisectExecution, Bisection
  <1> QED BY <1>2, <1>3, <1>4, <1>7, <1>9, <1>10

\* Every call keeps the segment in dispute within the steps agreed on.
LEMMA SegmentStep ==
    ASSUME SegmentInv, [BisectNext]_vars
    PROVE  SegmentInv'
  <1>1. ClockInv'
    BY ClockStep DEF SegmentInv
  <1>2. ASSUME NEW a \in Address, NEW n \in Steps, InitializeChallengeLength(a, n)
        PROVE  DefenderProposed' /\ SegmentInRange' /\ LeastStepsStand'
    BY <1>2, LengthKeepsSegment
  <1>3. ASSUME UNCHANGED <<bisection, endHash, numSteps, proposed>>,
               bisection # NoBisection \/ turn' = turn
        PROVE  DefenderProposed' /\ SegmentInRange' /\ LeastStepsStand'
    BY <1>3 DEF SegmentInv, DefenderProposed, SegmentInRange, LeastStepsStand
  <1>4. ASSUME NEW a \in Address, NEW i \in 1..MaxBisectionDegree, VerifyOneStepProof(a, i)
        PROVE  DefenderProposed' /\ SegmentInRange' /\ LeastStepsStand'
    BY <1>3, <1>4 DEF VerifyOneStepProof
  <1>5. ASSUME NEW a \in Address, NEW cut \in Cuts, NEW i \in 1..MaxBisectionDegree,
               BisectExecution(a, cut, i)
        PROVE  DefenderProposed' /\ SegmentInRange' /\ LeastStepsStand'
    <2>1. /\ bisection \in Bisection /\ bisection' \in Bisection
          /\ Len(bisection'.hashes) = 3 /\ bisection'.length > 1
          /\ bisection'.start + bisection'.length <= bisection.start + bisection.length
      BY <1>5, BisectEffect
    <2>2. numSteps' = numSteps /\ bisection # NoBisection /\ numSteps \in Nat
      BY <1>5 DEF BisectExecution, SegmentInv, ClockInv, TypeOK
    <2>3. /\ bisection.start \in Nat /\ bisection.length \in Nat
          /\ bisection'.start \in Nat /\ bisection'.length \in Nat
      BY <2>1 DEF Bisection
    <2>4. bisection.start + bisection.length <= numSteps
      BY <2>2 DEF SegmentInv, SegmentInRange
    <2>5. bisection'.length > 0 /\ bisection'.start + bisection'.length <= numSteps'
      BY <2>1, <2>2, <2>3, <2>4, SMT
    <2>6. bisection' # NoBisection
      BY <2>1, ChallengeAssumption
    <2> QED BY <2>1, <2>5, <2>6, SMT DEF DefenderProposed, SegmentInRange, LeastStepsStand
  <1>6. ASSUME MineBlock \/ Timeout \/ ReleasePlayer \/ UNCHANGED vars
        PROVE  DefenderProposed' /\ SegmentInRange' /\ LeastStepsStand'
    BY <1>3, <1>6 DEF MineBlock, Timeout, ReleasePlayer, vars
  <1> QED BY <1>1, <1>2, <1>4, <1>5, <1>6 DEF SegmentInv, BisectNext, Next

\* Hence it always is.
LEMMA SegmentInvAlways == BisectSpec => []SegmentInv
  <1>1. Init => SegmentInv
    BY ClockInit DEF Init, SegmentInv, DefenderProposed, SegmentInRange, LeastStepsStand
  <1>2. SegmentInv /\ [BisectNext]_vars => SegmentInv'
    BY SegmentStep
  <1> QED BY <1>1, <1>2, PTL DEF BisectSpec

\* initializeChallengeLength opens the dispute over the smaller proposal, with the
\* end state of the player who made it.
THEOREM LeastStepsAlwaysStand == (Spec => []LeastStepsStand) /\ (BisectSpec => []LeastStepsStand)
  <1>1. SegmentInv => LeastStepsStand
    BY DEF SegmentInv
  <1> QED BY <1>1, SegmentInvAlways, CodedIsBisection, PTL

\* However often a dispute is bisected, the segment in dispute lies within the
\* steps agreed on at the start.
THEOREM SegmentStaysInRange == BisectSpec => []SegmentInRange
  <1>1. SegmentInv => SegmentInRange
    BY DEF SegmentInv
  <1> QED BY <1>1, SegmentInvAlways, PTL

\* Every round of bisection narrows the dispute.
THEOREM BisectionNarrows == BisectSpec => Narrows
  <1> DEFINE Narrower == bisection # NoBisection /\ bisection' # bisection =>
                /\ Len(bisection.hashes) = 3 => bisection'.length < bisection.length
                /\ bisection.start <= bisection'.start
                /\ bisection'.start + bisection'.length <= bisection.start + bisection.length
  <1>1. ASSUME SegmentInv, BisectNext PROVE Narrower
    <2>1. ASSUME NEW a \in Address, NEW cut \in Cuts, NEW i \in 1..MaxBisectionDegree,
                 BisectExecution(a, cut, i)
          PROVE  Narrower
      BY <1>1, <2>1, BisectEffect
    <2>2. ASSUME NEW a \in Address, NEW n \in Steps, InitializeChallengeLength(a, n)
          PROVE  Narrower
      BY <2>2 DEF InitializeChallengeLength
    <2>3. ASSUME NEW a \in Address, NEW i \in 1..MaxBisectionDegree, VerifyOneStepProof(a, i)
          PROVE  Narrower
      BY <2>3 DEF VerifyOneStepProof
    <2>4. ASSUME MineBlock \/ Timeout \/ ReleasePlayer PROVE Narrower
      BY <2>4 DEF MineBlock, Timeout, ReleasePlayer
    <2> HIDE DEF Narrower
    <2> QED BY <1>1, <2>1, <2>2, <2>3, <2>4 DEF BisectNext, Next
  <1>2. SegmentInv /\ [BisectNext]_vars => [Narrower]_vars
    BY <1>1
  <1> QED BY <1>2, SegmentInvAlways, PTL DEF BisectSpec, Narrows
=============================================================================
