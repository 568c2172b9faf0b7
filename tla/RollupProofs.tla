---------------------------- MODULE RollupProofs ----------------------------
(***************************************************************************)
(* Proofs about Rollup and RollupForks, for every value of the constants:  *)
(* types and numStakers, the confirmed chain, stakes and challenges, the   *)
(* one assertion that the code as it is can create, the Ether owed, and    *)
(* the stake counts that confirmation compares.                            *)
(***************************************************************************)
EXTENDS RollupForks, TotalsProofs

\* A leaf is left to Zenon unless it names another prover.
USE Zenon

\* A step of either specification: they differ in how an assertion is created.
AnyNext == Next \/ ForkNext

-----------------------------------------------------------------------------
(* Updates of one field of a record *)

\* The fields of an assertion that no handler changes once it is created.
SameProposal(r, s) ==
    /\ r.stateHash = s.stateHash /\ r.parent = s.parent
    /\ r.deadline = s.deadline /\ r.proposalTime = s.proposalTime

\* Counting a stake leaves the rest of an assertion alone.
LEMMA CountStake ==
    ASSUME NEW r \in Assertion, NEW n \in Nat
    PROVE  /\ [r EXCEPT !.numStakers = n] \in Assertion
           /\ SameProposal([r EXCEPT !.numStakers = n], r)
           /\ [r EXCEPT !.numStakers = n].blockNum = r.blockNum
           /\ [r EXCEPT !.numStakers = n].numStakers = n
BY DEF Assertion, SameProposal

\* Recording the block number of the children leaves the proposal alone.
LEMMA RecordChildNum ==
    ASSUME NEW r \in Assertion, NEW n \in Nat
    PROVE  /\ [r EXCEPT !.blockNum = n] \in Assertion
           /\ SameProposal([r EXCEPT !.blockNum = n], r)
           /\ [r EXCEPT !.blockNum = n].blockNum = n
           /\ [r EXCEPT !.blockNum = n].numStakers = r.numStakers
           /\ [r EXCEPT !.childBlockNum = n] \in Assertion
           /\ SameProposal([r EXCEPT !.childBlockNum = n], r)
           /\ [r EXCEPT !.childBlockNum = n].numStakers = r.numStakers
BY DEF Assertion, SameProposal

\* Changing the amount staked leaves the rest of a staker alone.
LEMMA ChangeAmount ==
    ASSUME NEW r \in Staker, NEW n \in Nat
    PROVE  /\ [r EXCEPT !.amountStaked = n] \in Staker
           /\ [r EXCEPT !.amountStaked = n].isStaked = r.isStaked
           /\ [r EXCEPT !.amountStaked = n].amountStaked = n
           /\ [r EXCEPT !.amountStaked = n].assertionID = r.assertionID
           /\ [r EXCEPT !.amountStaked = n].currentChallenge = r.currentChallenge
BY DEF Staker

\* Moving a stake leaves the rest of a staker alone.
LEMMA ChangePosition ==
    ASSUME NEW r \in Staker, NEW id \in AssertionID
    PROVE  /\ [r EXCEPT !.assertionID = id] \in Staker
           /\ [r EXCEPT !.assertionID = id].isStaked = r.isStaked
           /\ [r EXCEPT !.assertionID = id].amountStaked = r.amountStaked
           /\ [r EXCEPT !.assertionID = id].assertionID = id
           /\ [r EXCEPT !.assertionID = id].currentChallenge = r.currentChallenge
BY DEF Staker

\* Entering or leaving a challenge leaves the rest of a staker alone.
LEMMA ChangeChallenge ==
    ASSUME NEW r \in Staker, NEW c \in 0..MaxChallenges
    PROVE  /\ [r EXCEPT !.currentChallenge = c] \in Staker
           /\ [r EXCEPT !.currentChallenge = c].isStaked = r.isStaked
           /\ [r EXCEPT !.currentChallenge = c].amountStaked = r.amountStaked
           /\ [r EXCEPT !.currentChallenge = c].assertionID = r.assertionID
           /\ [r EXCEPT !.currentChallenge = c].currentChallenge = c
BY DEF Staker

\* The record of an account that is not staked.
LEMMA NoStakerFields ==
    /\ NoStaker \in Staker /\ NoStaker.isStaked = FALSE
    /\ NoStaker.currentChallenge = 0
BY BoundsAssumption, SMT DEF NoStaker, Staker, AssertionID

\* Challenges are numbered from 1, and 0 is no challenge.
LEMMA ChallengeNumber ==
    ASSUME TypeOK, NEW c \in DOMAIN challenges
    PROVE  c \in Nat /\ c # 0
<1>1. challenges \in Seq(Challenge)
  BY DEF TypeOK
<1>2. ASSUME NEW S, NEW s \in Seq(S), NEW i \in DOMAIN s PROVE i \in Nat /\ i # 0
  BY SMT
<1> QED BY <1>1, <1>2

-----------------------------------------------------------------------------
(* What the handlers do to the stakers *)

\* stake adds to a stake or opens one on the last confirmed assertion.
LEMMA StakeEffect ==
    ASSUME TypeOK, NEW a \in Address, NEW n \in Amount, Stake(a, n)
    PROVE  /\ stakers' \in [Address -> Staker]
           /\ \A b \in Address \ {a} : stakers'[b] = stakers[b]
           /\ stakers'[a].isStaked
           /\ isStaked(a) => /\ stakers'[a].amountStaked = stakers[a].amountStaked + n
                             /\ stakers'[a].assertionID = stakers[a].assertionID
                             /\ stakers'[a].currentChallenge = stakers[a].currentChallenge
           /\ ~isStaked(a) => /\ stakers'[a].amountStaked = n
                              /\ stakers'[a].amountStaked >= config.baseStakeAmount
                              /\ stakers'[a].assertionID = lastConfirmedAssertionID
                              /\ stakers'[a].currentChallenge = 0
<1>1. stakers[a] \in Staker /\ n \in Nat /\ stakers[a].amountStaked + n \in Nat
  BY DataAssumption, SMT DEF TypeOK, Staker
<1> DEFINE new == [isStaked |-> TRUE, amountStaked |-> n,
                   assertionID |-> lastConfirmedAssertionID, currentChallenge |-> 0]
<1>2. new \in Staker
  BY <1>1, BoundsAssumption, SMT DEF Staker, TypeOK
<1>3. CASE isStaked(a)
  <2> DEFINE upd == [stakers[a] EXCEPT !.amountStaked = stakers[a].amountStaked + n]
  <2>1. stakers' = [stakers EXCEPT ![a] = upd]
    BY <1>3 DEF Stake
  <2>2. /\ upd \in Staker /\ upd.isStaked = stakers[a].isStaked
        /\ upd.amountStaked = stakers[a].amountStaked + n
        /\ upd.assertionID = stakers[a].assertionID
        /\ upd.currentChallenge = stakers[a].currentChallenge
    BY <1>1, ChangeAmount
  <2> HIDE DEF upd
  <2>3. QED
    BY <1>3, <2>1, <2>2 DEF TypeOK, isStaked
<1>4. CASE ~isStaked(a)
  <2>1. stakers' = [stakers EXCEPT ![a] = new] /\ n >= config.baseStakeAmount
    BY <1>4 DEF Stake
  <2>2. QED
    BY <1>2, <1>4, <2>1 DEF TypeOK
<1>5. QED
  BY <1>3, <1>4

\* unstake lowers the sender's stake, not below the required stake.
LEMMA UnstakeEffect ==
    ASSUME TypeOK, NEW a \in Address, NEW n \in Amount, Unstake(a, n)
    PROVE  /\ stakers' \in [Address -> Staker]
           /\ \A b \in Address \ {a} : stakers'[b] = stakers[b]
           /\ stakers'[a].isStaked = stakers[a].isStaked
           /\ stakers'[a].amountStaked = stakers[a].amountStaked - n
           /\ stakers'[a].amountStaked >= config.baseStakeAmount
           /\ stakers'[a].assertionID = stakers[a].assertionID
           /\ stakers'[a].currentChallenge = stakers[a].currentChallenge
<1> DEFINE m == stakers[a].amountStaked - n
           upd == [stakers[a] EXCEPT !.amountStaked = m]
<1>1. stakers[a] \in Staker /\ m \in Nat /\ m >= config.baseStakeAmount
  <2>1. /\ stakers[a].amountStaked >= config.baseStakeAmount
        /\ n <= stakers[a].amountStaked - config.baseStakeAmount
    BY DEF Unstake
  <2>2. stakers[a] \in Staker /\ config \in Config
    BY DEF TypeOK
  <2>3. QED
    BY <2>1, <2>2, DataAssumption, SMT DEF Staker, Config
<1>2. stakers' = [stakers EXCEPT ![a] = upd]
  BY DEF Unstake
<1> HIDE DEF m
<1>3. /\ upd \in Staker /\ upd.isStaked = stakers[a].isStaked
      /\ upd.amountStaked = m
      /\ upd.assertionID = stakers[a].assertionID
      /\ upd.currentChallenge = stakers[a].currentChallenge
  BY <1>1, ChangeAmount
<1> HIDE DEF upd
<1>4. QED
  BY <1>1, <1>2, <1>3 DEF TypeOK, m

\* advanceStake and createAssertion move the sender's stake.
LEMMA MoveEffect ==
    ASSUME TypeOK, NEW a \in Address, NEW id \in AssertionID,
           stakers' = [stakers EXCEPT ![a].assertionID = id]
    PROVE  /\ stakers' \in [Address -> Staker]
           /\ \A b \in Address \ {a} : stakers'[b] = stakers[b]
           /\ stakers'[a].assertionID = id
           /\ \A b \in Address : /\ stakers'[b].isStaked = stakers[b].isStaked
                                 /\ stakers'[b].amountStaked = stakers[b].amountStaked
                                 /\ stakers'[b].currentChallenge = stakers[b].currentChallenge
<1> DEFINE upd == [stakers[a] EXCEPT !.assertionID = id]
<1>1. stakers' = [stakers EXCEPT ![a] = upd]
  OBVIOUS
<1>2. stakers[a] \in Staker
  BY DEF TypeOK
<1>3. /\ upd \in Staker /\ upd.isStaked = stakers[a].isStaked
      /\ upd.amountStaked = stakers[a].amountStaked
      /\ upd.assertionID = id
      /\ upd.currentChallenge = stakers[a].currentChallenge
  BY <1>2, ChangePosition
<1> HIDE DEF upd
<1>4. QED
  BY <1>1, <1>3 DEF TypeOK

\* challengeAssertion puts the two players in the new challenge.
LEMMA ChallengeEffect ==
    ASSUME TypeOK, NEW d \in Address, NEW c \in Address, NEW n \in 0..MaxChallenges,
           stakers' = [stakers EXCEPT ![c].currentChallenge = n, ![d].currentChallenge = n]
    PROVE  /\ stakers' \in [Address -> Staker]
           /\ \A b \in Address \ {c, d} : stakers'[b] = stakers[b]
           /\ stakers'[c].currentChallenge = n /\ stakers'[d].currentChallenge = n
           /\ \A b \in Address : /\ stakers'[b].isStaked = stakers[b].isStaked
                                 /\ stakers'[b].amountStaked = stakers[b].amountStaked
                                 /\ stakers'[b].assertionID = stakers[b].assertionID
<1> DEFINE one == [stakers EXCEPT ![c].currentChallenge = n]
           updc == [stakers[c] EXCEPT !.currentChallenge = n]
           updd == [one[d] EXCEPT !.currentChallenge = n]
<1>1. stakers' = [one EXCEPT ![d] = updd] /\ one = [stakers EXCEPT ![c] = updc]
  OBVIOUS
<1>2. stakers[c] \in Staker
  BY DEF TypeOK
<1>3. /\ updc \in Staker /\ updc.isStaked = stakers[c].isStaked
      /\ updc.amountStaked = stakers[c].amountStaked
      /\ updc.assertionID = stakers[c].assertionID
      /\ updc.currentChallenge = n
  BY <1>2, ChangeChallenge
<1> HIDE DEF updc
<1>4. one \in [Address -> Staker]
  BY <1>1, <1>3 DEF TypeOK
<1> HIDE DEF one
<1>5. one[d] \in Staker
  BY <1>4
<1>6. /\ updd \in Staker /\ updd.isStaked = one[d].isStaked
      /\ updd.amountStaked = one[d].amountStaked
      /\ updd.assertionID = one[d].assertionID
      /\ updd.currentChallenge = n
  BY <1>5, ChangeChallenge
<1>7. \A b \in Address : /\ one[b].isStaked = stakers[b].isStaked
                         /\ one[b].amountStaked = stakers[b].amountStaked
                         /\ one[b].assertionID = stakers[b].assertionID
  BY <1>1, <1>3 DEF TypeOK
<1>8. one[c].currentChallenge = n /\ \A b \in Address \ {c} : one[b] = stakers[b]
  BY <1>1, <1>3 DEF TypeOK
<1> HIDE DEF updd
<1>9. \A b \in Address : stakers'[b] = IF b = d THEN updd ELSE one[b]
  BY <1>1, <1>4
<1>10. stakers' \in [Address -> Staker]
  BY <1>1, <1>4, <1>6
<1>11. QED
  <2>1. stakers'[d].currentChallenge = n
    BY <1>6, <1>9
  <2>2. c # d => stakers'[c].currentChallenge = n
    BY <1>8, <1>9
  <2>3. \A b \in Address \ {c, d} : stakers'[b] = stakers[b]
    BY <1>8, <1>9
  <2>4. \A b \in Address : /\ stakers'[b].isStaked = stakers[b].isStaked
                           /\ stakers'[b].amountStaked = stakers[b].amountStaked
                           /\ stakers'[b].assertionID = stakers[b].assertionID
    <3> TAKE b \in Address
    <3>1. CASE b = d
      BY <1>6, <1>7, <1>9, <3>1
    <3>2. CASE b # d
      BY <1>7, <1>9, <3>2
    <3> QED BY <3>1, <3>2
  <2> QED BY <1>10, <2>1, <2>2, <2>3, <2>4

\* completeChallenge frees the winner, whose stake grows by n, and deletes the loser.
Settled(w, l, n) ==
    /\ stakers' \in [Address -> Staker]
    /\ \A b \in Address \ {w, l} : stakers'[b] = stakers[b]
    /\ stakers'[l] = NoStaker
    /\ w # l => /\ stakers'[w].isStaked = stakers[w].isStaked
                /\ stakers'[w].amountStaked = stakers[w].amountStaked + n
                /\ stakers'[w].amountStaked >= stakers[w].amountStaked
                /\ stakers'[w].assertionID = stakers[w].assertionID
                /\ stakers'[w].currentChallenge = 0

\* That is what it does to the stakes of a dispute, be the two parties one or not.
LEMMA CompleteEffect ==
    ASSUME TypeOK, NEW w \in Address, NEW l \in Address, NEW n \in Nat,
           stakers' = [stakers EXCEPT ![w].amountStaked = @ + n,
                                      ![w].currentChallenge = 0, ![l] = NoStaker]
    PROVE  Settled(w, l, n)
<1> DEFINE m == stakers[w].amountStaked + n
           one == [stakers[w] EXCEPT !.amountStaked = m]
           two == [one EXCEPT !.currentChallenge = 0]
<1>1. stakers' = [[stakers EXCEPT ![w] = two] EXCEPT ![l] = NoStaker]
  <2> DEFINE s1 == [stakers EXCEPT ![w] = one]
             s2 == [s1 EXCEPT ![w] = [s1[w] EXCEPT !.currentChallenge = 0]]
  <2>1. stakers' = [s2 EXCEPT ![l] = NoStaker]
    OBVIOUS
  <2> HIDE DEF one
  <2>2. s1[w] = one
    BY DEF TypeOK
  <2>3. s2 = [stakers EXCEPT ![w] = two]
    BY <2>2 DEF TypeOK
  <2>4. QED
    BY <2>1, <2>3
<1>2. stakers[w] \in Staker /\ m \in Nat /\ m >= stakers[w].amountStaked
  BY SMT DEF TypeOK, Staker
<1> HIDE DEF m
<1>3. /\ one \in Staker /\ one.isStaked = stakers[w].isStaked
      /\ one.amountStaked = m /\ one.assertionID = stakers[w].assertionID
  BY <1>2, ChangeAmount
<1> HIDE DEF one
<1>4. /\ two \in Staker /\ two.isStaked = one.isStaked /\ two.amountStaked = one.amountStaked
      /\ two.assertionID = one.assertionID /\ two.currentChallenge = 0
  BY <1>3, ChangeChallenge, BoundsAssumption, SMT
<1> HIDE DEF two
<1>5. NoStaker \in Staker /\ stakers \in [Address -> Staker]
  BY NoStakerFields DEF TypeOK
<1>6. /\ stakers' \in [Address -> Staker]
      /\ \A b \in Address \ {w, l} : stakers'[b] = stakers[b]
      /\ stakers'[l] = NoStaker
  BY <1>1, <1>4, <1>5, SMT
<1>7. w # l => stakers'[w] = two
  BY <1>1, <1>5
<1>8. QED
  BY <1>2, <1>3, <1>4, <1>6, <1>7 DEF m, Settled

-----------------------------------------------------------------------------
(* What the handlers do to the assertions *)

\* Counting a stake changes no proposal and marks the staker.
LEMMA StakeOnEffect ==
    ASSUME TypeOK, NEW a \in Address, NEW id \in AssertionID, StakeOnAssertion(a, id)
    PROVE  /\ assertions' \in [AssertionID -> Assertion]
           /\ assertionStakers' \in [AssertionID -> SUBSET Address]
           /\ \A i \in AssertionID : /\ SameProposal(assertions'[i], assertions[i])
                                     /\ assertions'[i].blockNum = assertions[i].blockNum
                                     /\ assertionStakers[i] \subseteq assertionStakers'[i]
           /\ a \in assertionStakers'[id]
           /\ assertions'[id].numStakers = assertions[id].numStakers + 1
           /\ \A i \in AssertionID \ {id} : assertions'[i] = assertions[i]
<1> DEFINE n == assertions[id].numStakers + 1
           upd == [assertions[id] EXCEPT !.numStakers = n]
<1>1. assertions' = [assertions EXCEPT ![id] = upd]
  BY DEF StakeOnAssertion
<1>2. assertions[id] \in Assertion /\ n \in Nat
  BY SMT DEF TypeOK, Assertion
<1> HIDE DEF n
<1>3. /\ upd \in Assertion /\ SameProposal(upd, assertions[id])
      /\ upd.blockNum = assertions[id].blockNum /\ upd.numStakers = n
  BY <1>2, CountStake
<1> HIDE DEF upd
<1>4. \A i \in AssertionID : SameProposal(assertions[i], assertions[i])
  BY DEF SameProposal
<1>5. /\ assertions' \in [AssertionID -> Assertion]
      /\ \A i \in AssertionID : /\ SameProposal(assertions'[i], assertions[i])
                                /\ assertions'[i].blockNum = assertions[i].blockNum
      /\ assertions'[id].numStakers = n
      /\ \A i \in AssertionID \ {id} : assertions'[i] = assertions[i]
  BY <1>1, <1>3, <1>4 DEF TypeOK
<1>6. assertionStakers' = [assertionStakers EXCEPT ![id] = @ \cup {a}]
  BY DEF StakeOnAssertion
<1>7. QED
  BY <1>5, <1>6 DEF TypeOK, n

\* A proposal adds one assertion and, in the parent, changes only the slot
\* that holds the block number of the children.
LEMMA ProposeEffect ==
    ASSUME TypeOK, NEW a \in Address, NEW h \in Hash, NEW n \in BlockNum,
           CreateAssertion(a, h, n) \/ CreateSibling(a, h, n)
    PROVE  /\ assertions' \in [AssertionID -> Assertion]
           /\ lastCreatedAssertionID + 1 \in AssertionID
           /\ assertions'[lastCreatedAssertionID + 1] = newAssertion(h, n, stakers[a].assertionID)
           /\ newAssertion(h, n, stakers[a].assertionID) \in Assertion
           /\ \A i \in AssertionID \ {lastCreatedAssertionID + 1} :
                  /\ SameProposal(assertions'[i], assertions[i])
                  /\ assertions'[i].numStakers = assertions[i].numStakers
           /\ RecordProposal(a, h) /\ canPropose(a, n)
<1> DEFINE p == stakers[a].assertionID
           id == lastCreatedAssertionID + 1
           new == newAssertion(h, n, p)
<1>1. p \in AssertionID /\ n \in Nat /\ assertions[p] \in Assertion
  BY DataAssumption DEF TypeOK, Staker
<1>2. new \in Assertion
  <2>1. blockNumber \in Nat /\ config \in Config
    BY DEF TypeOK
  <2>2. QED
    BY <1>1, <2>1, SMT DEF newAssertion, Assertion, Config
<1>3. RecordProposal(a, h) /\ canPropose(a, n)
  BY DEF CreateAssertion, CreateSibling
<1>4. id \in AssertionID
  BY <1>3, BoundsAssumption, SMT DEF TypeOK, AssertionID, canPropose
<1>5. \A i \in AssertionID : SameProposal(assertions[i], assertions[i])
  BY DEF SameProposal
<1>6. ASSUME NEW upd \in Assertion, SameProposal(upd, assertions[p]),
             upd.numStakers = assertions[p].numStakers,
             assertions' = [assertions EXCEPT ![p] = upd, ![id] = new]
      PROVE  /\ assertions' \in [AssertionID -> Assertion]
             /\ assertions'[id] = new
             /\ \A i \in AssertionID \ {id} :
                    /\ SameProposal(assertions'[i], assertions[i])
                    /\ assertions'[i].numStakers = assertions[i].numStakers
  <2> HIDE DEF p, id, new
  <2>1. QED
    BY <1>1, <1>2, <1>4, <1>5, <1>6 DEF TypeOK
<1>7. CASE CreateAssertion(a, h, n)
  <2> DEFINE b == IF assertions[p].blockNum = 0 THEN n ELSE assertions[p].blockNum
             upd == [assertions[p] EXCEPT !.blockNum = b]
  <2>1. assertions' = [assertions EXCEPT ![p] = upd, ![id] = new]
    BY <1>7 DEF CreateAssertion
  <2>2. b \in Nat
    BY <1>1 DEF Assertion
  <2> HIDE DEF b
  <2>3. /\ upd \in Assertion /\ SameProposal(upd, assertions[p])
        /\ upd.numStakers = assertions[p].numStakers
    BY <1>1, <2>2, RecordChildNum
  <2> HIDE DEF upd, p, id, new
  <2>4. QED
    BY <1>2, <1>3, <1>4, <1>6, <2>1, <2>3 DEF p, id, new
<1>8. CASE CreateSibling(a, h, n)
  <2> DEFINE b == IF assertions[p].childBlockNum = 0 THEN n ELSE assertions[p].childBlockNum
             upd == [assertions[p] EXCEPT !.childBlockNum = b]
  <2>1. assertions' = [assertions EXCEPT ![p] = upd, ![id] = new]
    BY <1>8 DEF CreateSibling
  <2>2. b \in Nat
    BY <1>1 DEF Assertion
  <2> HIDE DEF b
  <2>3. /\ upd \in Assertion /\ SameProposal(upd, assertions[p])
        /\ upd.numStakers = assertions[p].numStakers
    BY <1>1, <2>2, RecordChildNum
  <2> HIDE DEF upd, p, id, new
  <2>4. QED
    BY <1>2, <1>3, <1>4, <1>6, <2>1, <2>3 DEF p, id, new
<1>9. QED
  BY <1>7, <1>8

-----------------------------------------------------------------------------
(* Types *)

\* A player of a running challenge is staked and is one of the two players it
\* was opened for; a challenge is numbered when it is opened.
ChallengeBook ==
    /\ \A a \in Address : stakers[a].currentChallenge # 0 =>
          LET c == stakers[a].currentChallenge
          IN  /\ isStaked(a) /\ c \in DOMAIN challenges
              /\ a \in {challenges[c].defender, challenges[c].challenger}
    /\ completed \subseteq DOMAIN challenges

TypeInv == TypeOK /\ NumStakersExact /\ ChallengeBook

\* numStakers counts a staked account.
LEMMA SomeStaker ==
    ASSUME TypeInv, NEW a \in Address, isStaked(a) PROVE numStakers > 0
<1> DEFINE S == {b \in Address : isStaked(b)}
<1>1. IsFiniteSet(S)
  BY FS_Subset, DataAssumption
<1>2. Cardinality(S) \in Nat /\ Cardinality(S) # 0
  BY <1>1, FS_CardinalityType, FS_EmptySet
<1>3. QED
  BY <1>2, SMT DEF TypeInv, NumStakersExact

\* A new staker is counted.
LEMMA CountOneMore ==
    ASSUME NumStakersExact, NEW a \in Address, ~isStaked(a), stakers'[a].isStaked,
           \A b \in Address \ {a} : stakers'[b] = stakers[b], numStakers' = numStakers + 1
    PROVE  NumStakersExact'
<1> DEFINE S == {b \in Address : isStaked(b)}
<1>1. IsFiniteSet(S)
  BY FS_Subset, DataAssumption
<1>2. {b \in Address : isStaked(b)}' = S \cup {a}
  BY SMT DEF isStaked
<1>3. Cardinality(S \cup {a}) = Cardinality(S) + 1
  BY <1>1, FS_AddElement
<1>4. QED
  BY <1>2, <1>3 DEF NumStakersExact

\* A staker that leaves is no longer counted.
LEMMA CountOneLess ==
    ASSUME NumStakersExact, NEW a \in Address, isStaked(a), ~stakers'[a].isStaked,
           \A b \in Address \ {a} : stakers'[b].isStaked = stakers[b].isStaked,
           numStakers' = numStakers - 1
    PROVE  NumStakersExact'
<1> DEFINE S == {b \in Address : isStaked(b)}
<1>1. IsFiniteSet(S)
  BY FS_Subset, DataAssumption
<1>2. {b \in Address : isStaked(b)}' = S \ {a}
  BY DEF isStaked
<1>3. Cardinality(S \ {a}) = Cardinality(S) - 1
  BY <1>1, FS_RemoveElement
<1>4. QED
  BY <1>2, <1>3 DEF NumStakersExact

\* The count stands when nobody joins or leaves.
LEMMA CountSame ==
    ASSUME NumStakersExact, \A b \in Address : stakers'[b].isStaked = stakers[b].isStaked,
           numStakers' = numStakers
    PROVE  NumStakersExact'
<1>1. {b \in Address : isStaked(b)}' = {b \in Address : isStaked(b)}
  BY DEF isStaked
<1>2. QED
  BY <1>1 DEF NumStakersExact

\* Every storage slot has its type initially.
LEMMA InitTypeOK == Init => TypeOK
<1> SUFFICES ASSUME Init PROVE TypeOK
  OBVIOUS
<1> USE BoundsAssumption, DataAssumption DEF Init
<1>1. assertions \in [AssertionID -> Assertion]
  <2>1. NoAssertion \in Assertion
    BY SMT DEF NoAssertion, Assertion, AssertionID
  <2>2. [stateHash |-> InitialHash, blockNum |-> InitialBlockNum,
         parent |-> InitialAssertionID, deadline |-> blockNumber,
         proposalTime |-> blockNumber, numStakers |-> 0, childBlockNum |-> 0] \in Assertion
    BY DEF Assertion
  <2>3. QED
    BY <2>1, <2>2
<1>2. stakers \in [Address -> Staker]
  BY SMT DEF NoStaker, Staker, AssertionID
<1>3. zombies \in Seq(Zombie) /\ challenges \in Seq(Challenge)
  BY SMT
<1>4. childStateHashes \in [AssertionID -> SUBSET (Hash \cup {InitialHash})]
  OBVIOUS
<1>5. QED
  BY <1>1, <1>2, <1>3, <1>4 DEF TypeOK

\* Initially the stakers are counted and nobody is in a challenge.
LEMMA InitTypeInv == Init => TypeInv
<1> SUFFICES ASSUME Init PROVE TypeInv
  OBVIOUS
<1>1. \A a \in Address : stakers[a].isStaked = FALSE /\ stakers[a].currentChallenge = 0
  BY NoStakerFields DEF Init
<1>2. {a \in Address : isStaked(a)} = {}
  BY <1>1 DEF isStaked
<1>3. NumStakersExact
  BY <1>2, FS_EmptySet DEF NumStakersExact, Init
<1>4. ChallengeBook
  BY <1>1 DEF ChallengeBook, Init
<1>5. QED
  BY <1>3, <1>4, InitTypeOK DEF TypeInv

\* A step that leaves stakers, stakes and challenges alone keeps the counts.
LEMMA FrameTypeInv ==
    ASSUME TypeInv, TypeOK', UNCHANGED <<numStakers, stakers, challenges, completed>>
    PROVE  TypeInv'
BY DEF TypeInv, NumStakersExact, ChallengeBook, isStaked

\* Pausing, roles, configuration and the passing of blocks preserve TypeInv.
LEMMA AdministerTypeInv == TypeInv /\ (Administer \/ MineBlock) => TypeInv'
<1> SUFFICES ASSUME TypeInv, Administer \/ MineBlock PROVE TypeInv'
  OBVIOUS
<1> USE DataAssumption, FrameTypeInv
<1>0. TypeOK
  BY DEF TypeInv
<1>1. CASE MineBlock
  BY <1>0, <1>1, SMT DEF TypeOK, MineBlock, admin, chain, ids, stakes, disputes
<1>2. CASE Pause \/ Unpause
  BY <1>0, <1>2 DEF TypeOK, Pause, Unpause, chain, ids, stakes, disputes
<1>3. CASE \E a \in Address : AddValidator(a) \/ RemoveValidator(a)
  BY <1>0, <1>3 DEF TypeOK, AddValidator, RemoveValidator, chain, ids, stakes, disputes
<1>4. ASSUME NEW c \in Config, ChangeConfig(c) PROVE TypeInv'
  BY <1>0, <1>4 DEF TypeOK, ChangeConfig, chain, ids, stakes, disputes
<1>5. CASE \E p \in DAProvider : SetDAProvider(p)
  BY <1>0, <1>4, <1>5 DEF TypeOK, SetDAProvider, Config
<1>6. CASE \E n \in Period : \/ SetConfirmationPeriod(n) \/ SetChallengePeriod(n)
                             \/ SetMinimumAssertionPeriod(n)
  BY <1>0, <1>4, <1>6 DEF TypeOK, SetConfirmationPeriod, SetChallengePeriod,
                    SetMinimumAssertionPeriod, Config
<1>7. CASE \E n \in Amount : SetBaseStakeAmount(n)
  BY <1>0, <1>4, <1>7 DEF TypeOK, SetBaseStakeAmount, Config
<1>8. QED
  BY <1>1, <1>2, <1>3, <1>5, <1>6, <1>7 DEF Administer

\* The staking operations preserve TypeInv.
LEMMA ManageStakeTypeInv == TypeInv /\ ManageStake => TypeInv'
<1> SUFFICES ASSUME TypeInv, ManageStake PROVE TypeInv'
  OBVIOUS
<1>0. TypeOK /\ NumStakersExact /\ ChallengeBook
  BY DEF TypeInv
<1>1. ASSUME NEW a \in Address, NEW n \in Amount, Stake(a, n) PROVE TypeInv'
  <2>1. n \in Nat /\ lastConfirmedAssertionID \in AssertionID
    BY <1>0, DataAssumption DEF TypeOK
  <2>2. /\ assertions' \in [AssertionID -> Assertion]
        /\ assertionStakers' \in [AssertionID -> SUBSET Address]
    <3>1. \/ StakeOnAssertion(a, lastConfirmedAssertionID)
          \/ UNCHANGED <<assertions, assertionStakers>>
      BY <1>1 DEF Stake
    <3>2. QED
      BY <1>0, <2>1, <3>1, StakeOnEffect DEF TypeOK
  <2>3. /\ balance' = balance + n
        /\ \/ isStaked(a) /\ numStakers' = numStakers
           \/ ~isStaked(a) /\ numStakers' = numStakers + 1
        /\ UNCHANGED <<blockNumber, admin, ids, childStateHashes, confirmed,
                       withdrawableFunds, disputes>>
    BY <1>1 DEF Stake
  <2>4. TypeOK'
    BY <1>0, <1>1, <2>1, <2>2, <2>3, StakeEffect, SMT DEF TypeOK, admin, ids, disputes
  <2>5. NumStakersExact'
    <3>1. CASE isStaked(a)
      <4>1. \A b \in Address : stakers'[b].isStaked = stakers[b].isStaked
        <5>1. stakers' \in [Address -> Staker] /\ stakers[a].isStaked /\ stakers'[a].isStaked
          BY <1>0, <1>1, <3>1, StakeEffect DEF isStaked
        <5>2. stakers'[a].isStaked = stakers[a].isStaked
          BY <1>0, <5>1 DEF TypeOK, Staker
        <5>3. QED
          BY <1>0, <1>1, <5>2, StakeEffect
      <4>2. QED
        BY <1>0, <2>3, <3>1, <4>1, CountSame
    <3>2. CASE ~isStaked(a)
      BY <1>0, <1>1, <2>3, <3>2, StakeEffect, CountOneMore
    <3>3. QED
      BY <3>1, <3>2
  <2>6. ChallengeBook'
    BY <1>0, <1>1, <2>3, StakeEffect, SMT DEF ChallengeBook, disputes, isStaked
  <2>7. QED
    BY <2>4, <2>5, <2>6 DEF TypeInv
<1>2. ASSUME NEW a \in Address, NEW n \in Amount, Unstake(a, n) PROVE TypeInv'
  <2>1. /\ Pays(n)
        /\ UNCHANGED <<blockNumber, admin, chain, numStakers, withdrawableFunds, disputes>>
    BY <1>2 DEF Unstake
  <2>2. TypeOK'
    BY <1>0, <1>2, <2>1, UnstakeEffect, DataAssumption, SMT
       DEF TypeOK, Pays, admin, chain, ids, disputes
  <2>3. NumStakersExact'
    BY <1>0, <1>2, <2>1, UnstakeEffect, CountSame
  <2>4. ChallengeBook'
    BY <1>0, <1>2, <2>1, UnstakeEffect, SMT DEF ChallengeBook, disputes, isStaked
  <2>5. QED
    BY <2>2, <2>3, <2>4 DEF TypeInv
<1>3. ASSUME NEW s \in Address, NEW a \in Address, RemoveStake(s, a) PROVE TypeInv'
  <2>1. /\ isStaked(a) /\ stakers' = [stakers EXCEPT ![a] = NoStaker]
        /\ numStakers' = numStakers - 1 /\ Pays(stakers[a].amountStaked)
        /\ UNCHANGED <<blockNumber, admin, chain, withdrawableFunds, disputes>>
    BY <1>3 DEF RemoveStake, isConfirmedStaker
  <2>2. numStakers > 0 /\ stakers[a].amountStaked \in Nat
    BY <1>0, <2>1, SomeStaker DEF TypeOK, Staker
  <2>3. TypeOK'
    BY <1>0, <2>1, <2>2, NoStakerFields, SMT DEF TypeOK, Pays, admin, chain, ids, disputes
  <2>4. NumStakersExact'
    <3>1. /\ stakers'[a] = NoStaker
          /\ \A b \in Address \ {a} : stakers'[b].isStaked = stakers[b].isStaked
      BY <1>0, <2>1 DEF TypeOK
    <3>2. ~stakers'[a].isStaked
      BY <3>1, NoStakerFields
    <3>3. QED
      BY <1>0, <2>1, <3>1, <3>2, CountOneLess
  <2>5. ChallengeBook'
    BY <1>0, <2>1, NoStakerFields DEF TypeOK, ChallengeBook, disputes, isStaked
  <2>6. QED
    BY <2>3, <2>4, <2>5 DEF TypeInv
<1>4. ASSUME NEW a \in Address, NEW id \in AssertionID, AdvanceStake(a, id) PROVE TypeInv'
  <2>1. /\ stakers' = [stakers EXCEPT ![a].assertionID = id] /\ StakeOnAssertion(a, id)
        /\ UNCHANGED <<blockNumber, admin, ids, childStateHashes, confirmed,
                       numStakers, withdrawableFunds, balance, disputes>>
    BY <1>4 DEF AdvanceStake
  <2>2. /\ stakers' \in [Address -> Staker]
        /\ \A b \in Address : /\ stakers'[b].isStaked = stakers[b].isStaked
                              /\ stakers'[b].currentChallenge = stakers[b].currentChallenge
    BY <1>0, <2>1, MoveEffect
  <2>3. /\ assertions' \in [AssertionID -> Assertion]
        /\ assertionStakers' \in [AssertionID -> SUBSET Address]
    BY <1>0, <2>1, StakeOnEffect
  <2>4. UNCHANGED <<blockNumber, admin, ids, childStateHashes, confirmed,
                    numStakers, withdrawableFunds, balance, disputes>>
    BY <2>1
  <2>5. TypeOK'
    BY <1>0, <2>2, <2>3, <2>4 DEF TypeOK, admin, ids, disputes
  <2>6. NumStakersExact'
    BY <1>0, <2>2, <2>4, CountSame
  <2>7. ChallengeBook'
    BY <1>0, <2>2, <2>4 DEF ChallengeBook, disputes, isStaked
  <2>8. QED
    BY <2>5, <2>6, <2>7 DEF TypeInv
<1>5. ASSUME NEW a \in Account, Withdraw(a) PROVE TypeInv'
  <2>1. balance' \in Nat /\ withdrawableFunds' \in [Account -> Nat]
    BY <1>0, <1>5, SMT DEF TypeOK, Withdraw, Pays
  <2>2. TypeOK'
    BY <1>0, <1>5, <2>1 DEF TypeOK, Withdraw, ids, chain, admin, disputes
  <2>3. QED
    BY <1>5, <2>2, FrameTypeInv DEF Withdraw, disputes
<1>6. QED
  BY <1>1, <1>2, <1>3, <1>4, <1>5 DEF ManageStake

\* Confirming, rejecting and proposing preserve TypeInv.
LEMMA ResolveTypeInv == TypeInv /\ (Resolve \/ Propose \/ ProposeForks) => TypeInv'
<1> SUFFICES ASSUME TypeInv, Resolve \/ Propose \/ ProposeForks PROVE TypeInv'
  OBVIOUS
<1>0. TypeOK /\ NumStakersExact /\ ChallengeBook
  BY DEF TypeInv
<1>1. ASSUME hasUnresolved PROVE firstUnresolved \in AssertionID
  BY <1>0, <1>1, BoundsAssumption, SMT DEF hasUnresolved, firstUnresolved, TypeOK, AssertionID
<1>2. ASSUME NEW s \in Address, ConfirmFirstUnresolvedAssertion(s) PROVE TypeInv'
  <2>1. firstUnresolved \in AssertionID
    BY <1>1, <1>2 DEF ConfirmFirstUnresolvedAssertion, firstUnresolvedIsConfirmable
  <2>2. TypeOK'
    BY <1>0, <1>2, <2>1 DEF TypeOK, ConfirmFirstUnresolvedAssertion, admin, stakes, disputes
  <2>3. QED
    BY <1>2, <2>2, FrameTypeInv DEF ConfirmFirstUnresolvedAssertion, stakes, disputes
<1>3. ASSUME NEW s \in Address, NEW a \in Address, RejectFirstUnresolvedAssertion(s, a)
      PROVE  TypeInv'
  <2>1. firstUnresolved \in AssertionID
    BY <1>1, <1>3 DEF RejectFirstUnresolvedAssertion, firstUnresolvedIsRejectable
  <2>2. NoAssertion \in Assertion
    BY BoundsAssumption, SMT DEF NoAssertion, Assertion, AssertionID
  <2>3. TypeOK'
    BY <1>0, <1>3, <2>1, <2>2 DEF TypeOK, RejectFirstUnresolvedAssertion, admin, stakes, disputes
  <2>4. QED
    BY <1>3, <2>3, FrameTypeInv DEF RejectFirstUnresolvedAssertion, stakes, disputes
<1>4. ASSUME NEW a \in Address, NEW h \in Hash, NEW n \in BlockNum,
             CreateAssertion(a, h, n) \/ CreateSibling(a, h, n)
      PROVE  TypeInv'
  <2> DEFINE id == lastCreatedAssertionID + 1
             p == stakers[a].assertionID
  <2>1. id \in AssertionID /\ RecordProposal(a, h) /\ assertions' \in [AssertionID -> Assertion]
    BY <1>0, <1>4, ProposeEffect
  <2>2. /\ stakers' = [stakers EXCEPT ![a].assertionID = id]
        /\ lastCreatedAssertionID' = id
        /\ childStateHashes' = [childStateHashes EXCEPT ![p] = @ \cup {h}]
        /\ assertionStakers' = [assertionStakers EXCEPT ![id] = @ \cup {a}]
        /\ UNCHANGED <<blockNumber, admin, lastResolvedAssertionID, lastConfirmedAssertionID,
                       confirmed, numStakers, withdrawableFunds, balance, disputes>>
    BY <2>1 DEF RecordProposal
  <2>3. /\ stakers' \in [Address -> Staker]
        /\ \A b \in Address : /\ stakers'[b].isStaked = stakers[b].isStaked
                              /\ stakers'[b].currentChallenge = stakers[b].currentChallenge
    BY <1>0, <2>1, <2>2, MoveEffect
  <2>4. /\ lastCreatedAssertionID' = id
        /\ childStateHashes' = [childStateHashes EXCEPT ![p] = @ \cup {h}]
        /\ assertionStakers' = [assertionStakers EXCEPT ![id] = @ \cup {a}]
        /\ UNCHANGED <<blockNumber, admin, lastResolvedAssertionID, lastConfirmedAssertionID,
                       confirmed, numStakers, withdrawableFunds, balance, disputes>>
    BY <2>2
  <2> HIDE DEF id, p
  <2>5. TypeOK'
    BY <1>0, <2>1, <2>3, <2>4 DEF TypeOK, admin, disputes
  <2>6. NumStakersExact'
    BY <1>0, <2>3, <2>4, CountSame
  <2>7. ChallengeBook'
    BY <1>0, <2>3, <2>4 DEF ChallengeBook, disputes, isStaked
  <2>8. QED
    BY <2>5, <2>6, <2>7 DEF TypeInv
<1>5. QED
  BY <1>2, <1>3, <1>4 DEF Resolve, Propose, ProposeForks

\* Opening and completing a challenge preserve TypeInv.
LEMMA DisputeTypeInv == TypeInv /\ Dispute => TypeInv'
<1> SUFFICES ASSUME TypeInv, Dispute PROVE TypeInv'
  OBVIOUS
<1>0. TypeOK /\ NumStakersExact /\ ChallengeBook
  BY DEF TypeInv
<1>1. ASSUME NEW s \in Address, NEW d \in Address, NEW c \in Address,
             NEW i \in AssertionID, NEW j \in AssertionID, ChallengeAssertion(s, d, c, i, j)
      PROVE  TypeInv'
  <2> DEFINE n == Len(challenges) + 1
             new == [defender |-> d, challenger |-> c,
                     startStateHash |-> assertions[assertions[i].parent].stateHash,
                     endStateDefenderHash |-> assertions[i].stateHash,
                     endStateChallengerHash |-> assertions[j].stateHash,
                     challengePeriod |-> config.challengePeriod]
  <2>1. /\ isStaked(d) /\ isStaked(c) /\ Len(challenges) < MaxChallenges
        /\ challenges' = Append(challenges, new)
        /\ stakers' = [stakers EXCEPT ![c].currentChallenge = n, ![d].currentChallenge = n]
        /\ UNCHANGED <<blockNumber, admin, chain, numStakers, withdrawableFunds, balance,
                       zombies, completed>>
    BY <1>1 DEF ChallengeAssertion, isUnchallengedStaker
  <2>2. n \in 0..MaxChallenges /\ n \in Nat
    BY <1>0, <2>1, BoundsAssumption, SMT DEF TypeOK
  <2>3. new \in Challenge
    <3>1. assertions[i] \in Assertion /\ assertions[j] \in Assertion /\ config \in Config
      BY <1>0 DEF TypeOK
    <3>2. assertions[assertions[i].parent] \in Assertion
      BY <1>0, <3>1 DEF TypeOK, Assertion
    <3>3. QED
      BY <3>1, <3>2 DEF Challenge, Assertion, Config
  <2>4. /\ stakers' \in [Address -> Staker]
        /\ \A b \in Address \ {c, d} : stakers'[b] = stakers[b]
        /\ stakers'[c].currentChallenge = n /\ stakers'[d].currentChallenge = n
        /\ \A b \in Address : /\ stakers'[b].isStaked = stakers[b].isStaked
                              /\ stakers'[b].amountStaked = stakers[b].amountStaked
                              /\ stakers'[b].assertionID = stakers[b].assertionID
    <3>1. stakers' = [stakers EXCEPT ![c].currentChallenge = n, ![d].currentChallenge = n]
      BY <2>1
    <3> HIDE DEF n, new
    <3>2. QED
      BY <1>0, <2>2, <3>1, ChallengeEffect, ZenonT(60)
  <2>5. new.defender = d /\ new.challenger = c
    OBVIOUS
  <2> HIDE DEF new
  <2>6. /\ challenges' \in Seq(Challenge) /\ challenges'[n] = new
        /\ DOMAIN challenges' = DOMAIN challenges \cup {n}
        /\ \A k \in DOMAIN challenges : challenges'[k] = challenges[k]
    BY <1>0, <2>1, <2>3, SMT DEF TypeOK
  <2>7. /\ isStaked(d) /\ isStaked(c)
        /\ UNCHANGED <<blockNumber, admin, chain, numStakers, withdrawableFunds, balance,
                       zombies, completed>>
    BY <2>1
  <2> HIDE DEF n
  <2>8. TypeOK'
    BY <1>0, <2>4, <2>6, <2>7 DEF TypeOK, admin, chain, ids
  <2>9. NumStakersExact'
    BY <1>0, <2>4, <2>7, CountSame
  <2>10. ChallengeBook'
    <3>1. completed' \subseteq DOMAIN challenges'
      BY <1>0, <2>6, <2>7 DEF ChallengeBook
    <3>2. ASSUME NEW a \in Address, stakers'[a].currentChallenge # 0
          PROVE  /\ stakers'[a].isStaked
                 /\ stakers'[a].currentChallenge \in DOMAIN challenges'
                 /\ a \in {challenges'[stakers'[a].currentChallenge].defender,
                          challenges'[stakers'[a].currentChallenge].challenger}
      <4>1. CASE a \in {c, d}
        <5>1. stakers'[a].currentChallenge = n /\ stakers'[a].isStaked
          BY <4>1, <2>4, <2>7 DEF isStaked
        <5>2. n \in DOMAIN challenges' /\ challenges'[n] = new
          BY <2>6
        <5>3. QED
          BY <4>1, <5>1, <5>2, <2>5
      <4>2. CASE a \notin {c, d}
        <5> DEFINE k == stakers[a].currentChallenge
        <5>1. stakers'[a] = stakers[a]
          BY <4>2, <2>4
        <5>2. /\ stakers[a].isStaked /\ k \in DOMAIN challenges
              /\ a \in {challenges[k].defender, challenges[k].challenger}
          BY <1>0, <3>2, <5>1 DEF ChallengeBook, isStaked
        <5>3. challenges'[k] = challenges[k] /\ k \in DOMAIN challenges'
          BY <2>6, <5>2
        <5>4. QED
          BY <5>1, <5>2, <5>3
      <4>3. QED
        BY <4>1, <4>2
    <3>3. QED
      BY <3>1, <3>2 DEF ChallengeBook, isStaked
  <2>11. QED
    BY <2>8, <2>9, <2>10 DEF TypeInv
<1>2. ASSUME NEW c \in DOMAIN challenges, NEW w \in Address, NEW l \in Address,
             CompleteChallenge(c, w, l)
      PROVE  TypeInv'
  <2> DEFINE L == stakers[l].amountStaked
             W == stakers[w].amountStaked
             rem == IF L > W THEN W ELSE L
             won == rem \div 2
             z == [stakerAddress |-> l, lastAssertionID |-> stakers[l].assertionID]
  <2>1. /\ stakers[w].currentChallenge = c /\ stakers[l].currentChallenge = c
        /\ stakers' = [stakers EXCEPT ![w].amountStaked = @ + won,
                                      ![w].currentChallenge = 0, ![l] = NoStaker]
        /\ withdrawableFunds' = [withdrawableFunds EXCEPT ![l] = @ + (L - rem),
                                                          ![Vault] = @ + (rem - won)]
        /\ numStakers' = numStakers - 1
        /\ zombies' = Append(zombies, z)
        /\ completed' = completed \cup {c}
        /\ UNCHANGED <<blockNumber, admin, chain, balance, challenges>>
    BY <1>2 DEF CompleteChallenge, settledStakers
  <2>2. won \in Nat /\ (rem - won) \in Nat /\ (L - rem) \in Nat
    <3>1. L \in Nat /\ W \in Nat
      BY <1>0 DEF TypeOK, Staker
    <3> HIDE DEF L, W
    <3> QED BY <3>1, SMT
  <2>3. z \in Zombie
    BY <1>0 DEF TypeOK, Staker, Zombie
  <2> HIDE DEF won, rem, L, W, z
  <2>4. c \in Nat /\ c # 0
    BY <1>0, ChallengeNumber
  <2>5. isStaked(l) /\ isStaked(w) /\ numStakers > 0
    <3>1. isStaked(l) /\ isStaked(w)
      BY <1>0, <2>1, <2>4 DEF ChallengeBook
    <3>2. QED
      BY <3>1, SomeStaker
  <2>6. /\ stakers' \in [Address -> Staker]
        /\ \A b \in Address \ {w, l} : stakers'[b] = stakers[b]
        /\ stakers'[l] = NoStaker
        /\ w # l => /\ stakers'[w].isStaked = stakers[w].isStaked
                    /\ stakers'[w].currentChallenge = 0
    <3>1. Settled(w, l, won)
      BY <1>0, <2>1, <2>2, CompleteEffect
    <3> QED BY <3>1 DEF Settled
  <2>7. withdrawableFunds' \in [Account -> Nat]
    <3>1. withdrawableFunds' = [withdrawableFunds EXCEPT ![l] = @ + (L - rem),
                                                         ![Vault] = @ + (rem - won)]
      BY <2>1
    <3>2. withdrawableFunds \in [Account -> Nat] /\ l \in Account /\ Vault \in Account
      BY <1>0 DEF TypeOK, Account
    <3>3. QED
      BY <2>2, <3>1, <3>2, SMT
  <2>8. zombies' \in Seq(Zombie)
    BY <1>0, <2>1, <2>3, SMT DEF TypeOK
  <2>9. /\ numStakers' = numStakers - 1 /\ completed' = completed \cup {c}
        /\ UNCHANGED <<blockNumber, admin, chain, balance, challenges>>
    BY <2>1
  <2>10. TypeOK'
    <3>1. numStakers' \in Nat
      <4>1. numStakers \in Nat /\ numStakers' = numStakers - 1 /\ numStakers > 0
        BY <1>0, <2>5, <2>9 DEF TypeOK
      <4>2. QED
        BY <4>1, SMT
    <3>2. completed' \subseteq Nat
      <4>1. completed \subseteq Nat /\ completed' = completed \cup {c}
        BY <1>0, <2>9 DEF TypeOK
      <4>2. QED
        BY <2>4, <4>1
    <3>3. stakers' \in [Address -> Staker]
      BY <2>6
    <3>4. UNCHANGED <<blockNumber, admin, chain, balance, challenges>>
      BY <2>9
    <3>5. QED
      BY <1>0, <2>7, <2>8, <3>1, <3>2, <3>3, <3>4 DEF TypeOK, admin, chain, ids
  <2>11. NumStakersExact'
    <3>1. ~stakers'[l].isStaked
      BY <2>6, NoStakerFields
    <3>2. \A b \in Address \ {l} : stakers'[b].isStaked = stakers[b].isStaked
      BY <2>6
    <3>3. QED
      BY <1>0, <2>5, <2>9, <3>1, <3>2, CountOneLess
  <2>12. ChallengeBook'
    <3>1. stakers'[l].currentChallenge = 0 /\ stakers'[w].currentChallenge = 0
      BY <2>6, NoStakerFields
    <3>2. QED
      BY <1>0, <2>6, <2>9, <3>1 DEF ChallengeBook, isStaked
  <2>13. QED
    BY <2>10, <2>11, <2>12 DEF TypeInv
<1>3. QED
  BY <1>1, <1>2 DEF Dispute

\* Every step of either specification preserves TypeInv.
LEMMA TypeInvStep == TypeInv /\ [AnyNext]_vars => TypeInv'
<1> SUFFICES ASSUME TypeInv, [AnyNext]_vars PROVE TypeInv'
  OBVIOUS
<1>1. CASE UNCHANGED vars
  <2>1. TypeOK'
    BY <1>1 DEF TypeInv, TypeOK, vars, admin, chain, ids, stakes, disputes
  <2>2. QED
    BY <1>1, <2>1, FrameTypeInv DEF vars, stakes, disputes
<1>2. QED
  BY <1>1, AdministerTypeInv, ManageStakeTypeInv, ResolveTypeInv, DisputeTypeInv
     DEF AnyNext, Next, ForkNext, Step

\* Every storage slot keeps its type, as coded and with siblings: no checked
\* subtraction leaves the naturals and no ID outgrows the assertions created.
THEOREM TypeCorrect == (Spec => []TypeOK) /\ (ForkSpec => []TypeOK)
<1>1. TypeInv /\ [Next]_vars => TypeInv'
  BY TypeInvStep DEF AnyNext
<1>2. TypeInv /\ [ForkNext]_vars => TypeInv'
  BY TypeInvStep DEF AnyNext
<1>3. TypeInv => TypeOK
  BY DEF TypeInv
<1>4. QED
  BY <1>1, <1>2, <1>3, InitTypeInv, PTL DEF Spec, ForkSpec

\* numStakers, against which confirmFirstUnresolvedAssertion compares the stakes
\* of an assertion, is the number of staked accounts after any sequence of
\* stake, removeStake and completeChallenge.
THEOREM StakersCounted == (Spec => []NumStakersExact) /\ (ForkSpec => []NumStakersExact)
<1>1. TypeInv /\ [Next]_vars => TypeInv'
  BY TypeInvStep DEF AnyNext
<1>2. TypeInv /\ [ForkNext]_vars => TypeInv'
  BY TypeInvStep DEF AnyNext
<1>3. TypeInv => NumStakersExact
  BY DEF TypeInv
<1>4. QED
  BY <1>1, <1>2, <1>3, InitTypeInv, PTL DEF Spec, ForkSpec

-----------------------------------------------------------------------------
(* The confirmed chain *)

\* Assertions are confirmed, resolved and created in this order.
Ordered ==
    /\ InitialAssertionID <= lastConfirmedAssertionID
    /\ lastConfirmedAssertionID <= lastResolvedAssertionID
    /\ lastResolvedAssertionID <= lastCreatedAssertionID

\* An assertion passed over by the confirmations is deleted: this, and not
\* PortalSound itself, is what a confirmation that skips rejected IDs needs.
Resolved ==
    /\ lastConfirmedAssertionID \in confirmed
    /\ \A id \in confirmed : id <= lastConfirmedAssertionID
    /\ \A id \in AssertionID :
          id <= lastResolvedAssertionID /\ id \notin confirmed => assertions[id].stateHash = ZeroHash

ChainInv == Ordered /\ Resolved /\ ConfirmedChain /\ DeadlineInForce

\* initialize establishes ChainInv.
LEMMA InitChainInv == Init => ChainInv
<1> SUFFICES ASSUME Init PROVE ChainInv
  OBVIOUS
<1>1. InitialAssertionID \in Nat /\ NoAssertion.stateHash = ZeroHash
  BY BoundsAssumption, SMT DEF AssertionID, NoAssertion
<1>2. Ordered /\ Resolved
  BY <1>1, SMT DEF Init, Ordered, Resolved
<1>3. ConfirmedChain /\ DeadlineInForce
  BY <1>1, SMT DEF Init, ConfirmedChain, DeadlineInForce, firstUnresolved
<1>4. QED
  BY <1>2, <1>3 DEF ChainInv

\* A step that resolves and creates nothing and changes no proposal keeps ChainInv,
\* unless it changes the confirmation period under a pending assertion.
LEMMA FrameChainInv ==
    ASSUME TypeOK, ChainInv, UNCHANGED <<ids, confirmed>>,
           \A i \in AssertionID : SameProposal(assertions'[i], assertions[i]),
           config' = config \/ ~hasUnresolved
    PROVE  ChainInv'
<1>0. /\ lastResolvedAssertionID \in Nat /\ lastCreatedAssertionID \in AssertionID
      /\ lastConfirmedAssertionID \in Nat /\ confirmed \subseteq AssertionID
      /\ AssertionID \subseteq Nat
  BY BoundsAssumption, SMT DEF TypeOK, AssertionID
<1>1. Ordered'
  BY DEF ChainInv, Ordered, ids
<1>2. Resolved'
  BY DEF ChainInv, Resolved, ids, SameProposal
<1>3. ConfirmedChain'
  BY <1>0 DEF ChainInv, ConfirmedChain, SameProposal
<1>4. DeadlineInForce'
  <2>1. CASE ~hasUnresolved
    BY <1>0, <2>1, SMT DEF hasUnresolved, DeadlineInForce, firstUnresolved, ids
  <2>2. CASE hasUnresolved
    <3>1. \A id \in firstUnresolved..lastCreatedAssertionID : id \in AssertionID
      BY <1>0, BoundsAssumption, SMT DEF firstUnresolved, AssertionID
    <3>2. QED
      BY <1>0, <2>2, <3>1 DEF ChainInv, DeadlineInForce, firstUnresolved, ids, SameProposal
  <2>3. QED
    BY <2>1, <2>2
<1>5. QED
  BY <1>1, <1>2, <1>3, <1>4 DEF ChainInv

\* Administration, staking and disputes keep ChainInv.
LEMMA QuietChainInv ==
    ASSUME TypeOK, ChainInv, Administer \/ MineBlock \/ ManageStake \/ Dispute \/ UNCHANGED vars
    PROVE  ChainInv'
<1>1. \A i \in AssertionID : SameProposal(assertions[i], assertions[i])
  BY DEF SameProposal
<1>2. ASSUME UNCHANGED <<chain>>, config' = config \/ ~hasUnresolved PROVE ChainInv'
  BY <1>1, <1>2, FrameChainInv DEF chain
<1>3. CASE MineBlock \/ UNCHANGED vars
  BY <1>2, <1>3 DEF MineBlock, vars, admin
<1>4. CASE Administer
  <2>1. ASSUME NEW c, ChangeConfig(c) PROVE ChainInv'
    BY <1>2, <2>1 DEF ChangeConfig
  <2>2. CASE Pause \/ Unpause \/ \E a \in Address : AddValidator(a) \/ RemoveValidator(a)
    BY <1>2, <2>2 DEF Pause, Unpause, AddValidator, RemoveValidator
  <2>3. QED
    BY <1>4, <2>1, <2>2 DEF Administer, SetDAProvider, SetConfirmationPeriod, SetChallengePeriod,
                            SetMinimumAssertionPeriod, SetBaseStakeAmount
<1>5. ASSUME NEW a \in Address, NEW id \in AssertionID, StakeOnAssertion(a, id),
             UNCHANGED <<ids, confirmed, admin>>
      PROVE  ChainInv'
  <2>1. \A i \in AssertionID : SameProposal(assertions'[i], assertions[i])
    BY <1>5, StakeOnEffect
  <2>2. QED
    BY <1>5, <2>1, FrameChainInv DEF admin
<1>6. CASE ManageStake
  <2>1. ASSUME NEW a \in Address, NEW n \in Amount, Stake(a, n) PROVE ChainInv'
    <3>1. /\ \/ StakeOnAssertion(a, lastConfirmedAssertionID)
             \/ UNCHANGED <<assertions, assertionStakers>>
          /\ UNCHANGED <<admin, ids, childStateHashes, confirmed>>
      BY <2>1 DEF Stake
    <3>2. lastConfirmedAssertionID \in AssertionID
      BY DEF TypeOK
    <3>3. QED
      BY <1>2, <1>5, <3>1, <3>2 DEF chain, admin
  <2>2. ASSUME NEW a \in Address, NEW n \in Amount, Unstake(a, n) PROVE ChainInv'
    <3>1. UNCHANGED <<admin, chain>>
      BY <2>2 DEF Unstake
    <3>2. QED
      BY <1>2, <3>1 DEF admin
  <2>3. ASSUME NEW s \in Address, NEW a \in Address, RemoveStake(s, a) PROVE ChainInv'
    BY <1>2, <2>3 DEF RemoveStake, admin
  <2>4. ASSUME NEW a \in Address, NEW id \in AssertionID, AdvanceStake(a, id) PROVE ChainInv'
    <3>1. StakeOnAssertion(a, id) /\ UNCHANGED <<ids, confirmed, admin>>
      BY <2>4 DEF AdvanceStake
    <3>2. QED
      BY <1>5, <3>1
  <2>5. ASSUME NEW a \in Account, Withdraw(a) PROVE ChainInv'
    BY <1>2, <2>5 DEF Withdraw, admin
  <2>6. QED
    BY <1>6, <2>1, <2>2, <2>3, <2>4, <2>5 DEF ManageStake
<1>7. CASE Dispute
  <2>1. ASSUME NEW s \in Address, NEW d \in Address, NEW c \in Address, NEW i \in AssertionID,
               NEW j \in AssertionID, ChallengeAssertion(s, d, c, i, j)
        PROVE  UNCHANGED <<admin, chain>>
    BY <2>1 DEF ChallengeAssertion
  <2>2. ASSUME NEW c \in DOMAIN challenges, NEW w \in Address, NEW l \in Address,
               CompleteChallenge(c, w, l)
        PROVE  UNCHANGED <<admin, chain>>
    BY <2>2 DEF CompleteChallenge
  <2>3. UNCHANGED <<admin, chain>>
    BY <1>7, <2>1, <2>2 DEF Dispute
  <2>4. QED
    BY <1>2, <2>3 DEF admin
<1>8. QED
  BY <1>3, <1>4, <1>6, <1>7

\* A confirmation appends the first unresolved assertion to the confirmed chain.
LEMMA ConfirmChainInv ==
    ASSUME TypeOK, ChainInv, NEW s \in Address, ConfirmFirstUnresolvedAssertion(s)
    PROVE  ChainInv'
<1> DEFINE id == lastResolvedAssertionID + 1
<1>1. /\ lastResolvedAssertionID < lastCreatedAssertionID
      /\ assertions[id].parent = lastConfirmedAssertionID
      /\ lastResolvedAssertionID' = id /\ lastConfirmedAssertionID' = id
      /\ confirmed' = confirmed \cup {id}
      /\ UNCHANGED <<lastCreatedAssertionID, assertions, config>>
  BY DEF ConfirmFirstUnresolvedAssertion, firstUnresolvedIsConfirmable, firstUnresolved,
         hasUnresolved, admin
<1>2. /\ lastResolvedAssertionID \in Nat /\ lastCreatedAssertionID \in Nat
      /\ lastConfirmedAssertionID \in Nat /\ confirmed \subseteq Nat
      /\ AssertionID \subseteq Nat /\ InitialAssertionID \in Nat
  BY BoundsAssumption, SMT DEF TypeOK, AssertionID
<1>3. Ordered'
  BY <1>1, <1>2, SMT DEF ChainInv, Ordered
<1>4. Resolved'
  <2>1. \A k \in confirmed' : k <= lastConfirmedAssertionID'
    BY <1>1, <1>2, SMT DEF ChainInv, Ordered, Resolved
  <2>2. ASSUME NEW k \in AssertionID, k <= lastResolvedAssertionID', k \notin confirmed'
        PROVE  assertions'[k].stateHash = ZeroHash
    <3>1. k <= lastResolvedAssertionID /\ k \notin confirmed
      BY <1>1, <1>2, <2>2, SMT
    <3>2. QED
      BY <1>1, <3>1 DEF ChainInv, Resolved
  <2>3. QED
    BY <1>1, <2>1, <2>2 DEF Resolved
<1>5. ConfirmedChain'
  <2>1. ASSUME NEW k \in confirmed' \ {InitialAssertionID}
        PROVE  /\ assertions[k].parent \in confirmed'
               /\ \A other \in confirmed' : other < k => other <= assertions[k].parent
    <3>1. CASE k = id
      BY <1>1, <1>2, <3>1, SMT DEF ChainInv, Resolved
    <3>2. CASE k \in confirmed
      <4>1. k <= lastConfirmedAssertionID /\ k < id
        BY <1>2, <3>2, SMT DEF ChainInv, Resolved, Ordered
      <4>2. QED
        BY <1>1, <1>2, <2>1, <3>2, <4>1, SMT DEF ChainInv, ConfirmedChain
    <3>3. QED
      BY <1>1, <3>1, <3>2
  <2>2. QED
    BY <1>1, <2>1 DEF ConfirmedChain
<1>6. DeadlineInForce'
  BY <1>1, <1>2, SMT DEF ChainInv, DeadlineInForce, firstUnresolved
<1>7. QED
  BY <1>3, <1>4, <1>5, <1>6 DEF ChainInv

\* A rejection deletes the first unresolved assertion and no confirmed one.
LEMMA RejectChainInv ==
    ASSUME TypeOK, ChainInv, NEW s \in Address, NEW a \in Address,
           RejectFirstUnresolvedAssertion(s, a)
    PROVE  ChainInv'
<1> DEFINE id == lastResolvedAssertionID + 1
<1>1. /\ lastResolvedAssertionID < lastCreatedAssertionID
      /\ lastResolvedAssertionID' = id
      /\ assertions' = [assertions EXCEPT ![id] = NoAssertion]
      /\ UNCHANGED <<lastConfirmedAssertionID, lastCreatedAssertionID, confirmed, config>>
  BY DEF RejectFirstUnresolvedAssertion, firstUnresolvedIsRejectable, firstUnresolved,
         hasUnresolved, admin
<1>2. /\ lastResolvedAssertionID \in Nat /\ lastCreatedAssertionID \in AssertionID
      /\ lastConfirmedAssertionID \in Nat /\ confirmed \subseteq AssertionID
      /\ AssertionID \subseteq Nat /\ InitialAssertionID \in Nat
  BY BoundsAssumption, SMT DEF TypeOK, AssertionID
<1>3. id \in AssertionID
  BY <1>1, <1>2, BoundsAssumption, SMT DEF AssertionID
<1>4. assertions'[id] = NoAssertion /\ \A k \in AssertionID \ {id} : assertions'[k] = assertions[k]
  BY <1>1, <1>3 DEF TypeOK
<1>5. \A k \in confirmed : k # id
  BY <1>2, SMT DEF ChainInv, Resolved, Ordered
<1>6. Ordered'
  BY <1>1, <1>2, SMT DEF ChainInv, Ordered
<1>7. Resolved'
  <2>1. NoAssertion.stateHash = ZeroHash
    BY DEF NoAssertion
  <2>2. \A k \in AssertionID : k <= id => k = id \/ k <= lastResolvedAssertionID
    BY <1>2, SMT
  <2>3. QED
    BY <1>1, <1>2, <1>4, <2>1, <2>2 DEF ChainInv, Resolved
<1>8. ConfirmedChain'
  <2>1. \A k \in confirmed : assertions'[k] = assertions[k]
    BY <1>2, <1>4, <1>5
  <2>2. QED
    BY <1>1, <2>1, SMT DEF ChainInv, ConfirmedChain
<1>9. DeadlineInForce'
  <2>1. ASSUME NEW k \in firstUnresolved'..lastCreatedAssertionID'
        PROVE  assertions'[k] = assertions[k] /\ k \in firstUnresolved..lastCreatedAssertionID
    BY <1>1, <1>2, <1>4, BoundsAssumption, SMT DEF firstUnresolved, AssertionID
  <2>2. QED
    BY <1>1, <2>1 DEF ChainInv, DeadlineInForce
<1>10. QED
  BY <1>6, <1>7, <1>8, <1>9 DEF ChainInv

\* A proposal adds an assertion above the resolved ones, due a confirmation
\* period later.
LEMMA ProposeChainInv ==
    ASSUME TypeOK, ChainInv, NEW a \in Address, NEW h \in Hash, NEW n \in BlockNum,
           CreateAssertion(a, h, n) \/ CreateSibling(a, h, n)
    PROVE  ChainInv'
<1> DEFINE id == lastCreatedAssertionID + 1
           new == newAssertion(h, n, stakers[a].assertionID)
<1>1. /\ id \in AssertionID /\ assertions'[id] = new /\ RecordProposal(a, h)
      /\ \A i \in AssertionID \ {id} : SameProposal(assertions'[i], assertions[i])
  BY ProposeEffect
<1>2. /\ lastCreatedAssertionID' = id
      /\ UNCHANGED <<lastConfirmedAssertionID, lastResolvedAssertionID, confirmed, config>>
  BY <1>1 DEF RecordProposal, admin
<1>3. /\ lastResolvedAssertionID \in Nat /\ lastCreatedAssertionID \in Nat
      /\ lastConfirmedAssertionID \in Nat /\ confirmed \subseteq AssertionID
      /\ AssertionID \subseteq Nat /\ InitialAssertionID \in Nat
  BY BoundsAssumption, SMT DEF TypeOK, AssertionID
<1>4. new.deadline = new.proposalTime + config.confirmationPeriod
  BY DEF newAssertion
<1> HIDE DEF new
<1>5. Ordered'
  BY <1>2, <1>3, SMT DEF ChainInv, Ordered
<1>6. Resolved'
  <2>1. \A k \in AssertionID : k <= lastResolvedAssertionID => k # id
    BY <1>3, SMT DEF ChainInv, Ordered
  <2>2. QED
    BY <1>1, <1>2, <2>1 DEF ChainInv, Resolved, SameProposal
<1>7. ConfirmedChain'
  <2>1. \A k \in confirmed : k # id /\ k \in AssertionID
    BY <1>3, SMT DEF ChainInv, Ordered, Resolved
  <2>2. \A k \in confirmed : assertions'[k].parent = assertions[k].parent
    BY <1>1, <2>1 DEF SameProposal
  <2>3. QED
    BY <1>2, <2>2 DEF ChainInv, ConfirmedChain
<1>8. DeadlineInForce'
  <2>1. ASSUME NEW k \in firstUnresolved'..lastCreatedAssertionID'
        PROVE  assertions'[k].deadline = assertions'[k].proposalTime + config.confirmationPeriod
    <3>1. CASE k = id
      BY <1>1, <1>4, <3>1
    <3>2. CASE k # id
      <4>1. k \in firstUnresolved..lastCreatedAssertionID /\ k \in AssertionID \ {id}
        BY <1>1, <1>2, <1>3, <3>2, BoundsAssumption, SMT DEF firstUnresolved, AssertionID
      <4>2. QED
        BY <1>1, <4>1 DEF ChainInv, DeadlineInForce, SameProposal
    <3>3. QED
      BY <3>1, <3>2
  <2>2. QED
    BY <1>2, <2>1 DEF DeadlineInForce
<1>9. QED
  BY <1>5, <1>6, <1>7, <1>8 DEF ChainInv

\* Every step of either specification preserves ChainInv.
LEMMA ChainInvStep == TypeOK /\ ChainInv /\ [AnyNext]_vars => ChainInv'
<1> SUFFICES ASSUME TypeOK, ChainInv, [AnyNext]_vars PROVE ChainInv'
  OBVIOUS
<1>1. CASE Resolve
  BY <1>1, ConfirmChainInv, RejectChainInv DEF Resolve
<1>2. CASE Propose \/ ProposeForks
  BY <1>2, ProposeChainInv DEF Propose, ProposeForks
<1>3. QED
  BY <1>1, <1>2, QuietChainInv DEF AnyNext, Next, ForkNext, Step

-----------------------------------------------------------------------------
(* Stakes and challenges *)

\* setBaseStakeAmount only lowers the required stake; no other setter touches it.
LEMMA BaseStakeNeverRises ==
    ASSUME TypeOK, Administer
    PROVE  config'.baseStakeAmount <= config.baseStakeAmount /\ UNCHANGED <<stakes, disputes>>
<1>0. config \in Config /\ config.baseStakeAmount <= config.baseStakeAmount
  BY SMT DEF TypeOK, Config
<1>1. CASE Pause \/ Unpause \/ \E a \in Address : AddValidator(a) \/ RemoveValidator(a)
  BY <1>0, <1>1 DEF Pause, Unpause, AddValidator, RemoveValidator
<1>2. ASSUME NEW c, ChangeConfig(c), c.baseStakeAmount <= config.baseStakeAmount
      PROVE  config'.baseStakeAmount <= config.baseStakeAmount /\ UNCHANGED <<stakes, disputes>>
  BY <1>2 DEF ChangeConfig
<1>3. CASE \E p \in DAProvider : SetDAProvider(p)
  <2>1. \A p : [config EXCEPT !.daProvider = p].baseStakeAmount = config.baseStakeAmount
    BY <1>0 DEF Config
  <2>2. QED
    BY <1>0, <1>2, <1>3, <2>1 DEF SetDAProvider
<1>4. CASE \E n \in Period : \/ SetConfirmationPeriod(n) \/ SetChallengePeriod(n)
                             \/ SetMinimumAssertionPeriod(n)
  <2>1. \A n : /\ [config EXCEPT !.confirmationPeriod = n].baseStakeAmount = config.baseStakeAmount
               /\ [config EXCEPT !.challengePeriod = n].baseStakeAmount = config.baseStakeAmount
               /\ [config EXCEPT !.minimumAssertionPeriod = n].baseStakeAmount
                    = config.baseStakeAmount
    BY <1>0 DEF Config
  <2>2. QED
    BY <1>0, <1>2, <1>4, <2>1
       DEF SetConfirmationPeriod, SetChallengePeriod, SetMinimumAssertionPeriod
<1>5. CASE \E n \in Amount : SetBaseStakeAmount(n)
  <2>1. \A n : [config EXCEPT !.baseStakeAmount = n].baseStakeAmount = n
    BY <1>0 DEF Config
  <2>2. QED
    BY <1>2, <1>5, <2>1 DEF SetBaseStakeAmount
<1>6. QED
  BY <1>1, <1>3, <1>4, <1>5 DEF Administer

\* An account that is staked after a step that does not administer has the
\* stake it had or more, or one that covers the required stake; and it is in the
\* challenge it was in, in none or in a new one.
StakeKept(a) ==
    stakers'[a].isStaked =>
        \/ stakers[a].isStaked /\ stakers'[a].amountStaked >= stakers[a].amountStaked
        \/ stakers'[a].amountStaked >= config.baseStakeAmount
ChallengeKept(a) ==
    stakers'[a].currentChallenge \in {0, stakers[a].currentChallenge, Len(challenges) + 1}

\* The staking operations keep both.
LEMMA ManageStakeKept ==
    ASSUME TypeOK, ManageStake, NEW x \in Address
    PROVE  StakeKept(x) /\ ChallengeKept(x) /\ UNCHANGED <<config, challenges, completed>>
<1>0. stakers[x].amountStaked \in Nat /\ Amount \subseteq Nat
  BY DataAssumption DEF TypeOK, Staker
<1> USE DEF StakeKept, ChallengeKept
<1>1. ASSUME NEW a \in Address, NEW n \in Amount, Stake(a, n)
      PROVE  StakeKept(x) /\ ChallengeKept(x) /\ UNCHANGED <<config, challenges, completed>>
  <2>1. UNCHANGED <<config, challenges, completed>>
    BY <1>1 DEF Stake, admin, disputes
  <2>2. QED
    BY <1>0, <1>1, <2>1, StakeEffect, SMT DEF isStaked
<1>2. ASSUME NEW a \in Address, NEW n \in Amount, Unstake(a, n)
      PROVE  StakeKept(x) /\ ChallengeKept(x) /\ UNCHANGED <<config, challenges, completed>>
  <2>1. UNCHANGED <<config, challenges, completed>>
    BY <1>2 DEF Unstake, admin, disputes
  <2>2. QED
    BY <1>0, <1>2, <2>1, UnstakeEffect, SMT
<1>3. ASSUME NEW s \in Address, NEW a \in Address, RemoveStake(s, a)
      PROVE  StakeKept(x) /\ ChallengeKept(x) /\ UNCHANGED <<config, challenges, completed>>
  <2>1. /\ stakers' = [stakers EXCEPT ![a] = NoStaker]
        /\ UNCHANGED <<config, challenges, completed>>
    BY <1>3 DEF RemoveStake, admin, disputes
  <2>2. QED
    BY <1>0, <2>1, NoStakerFields, SMT DEF TypeOK
<1>4. ASSUME NEW a \in Address, NEW id \in AssertionID, AdvanceStake(a, id)
      PROVE  StakeKept(x) /\ ChallengeKept(x) /\ UNCHANGED <<config, challenges, completed>>
  <2>1. /\ stakers' = [stakers EXCEPT ![a].assertionID = id]
        /\ UNCHANGED <<config, challenges, completed>>
    BY <1>4 DEF AdvanceStake, admin, disputes
  <2>2. UNCHANGED <<config, challenges, completed>>
    BY <2>1
  <2>3. /\ stakers'[x].isStaked = stakers[x].isStaked
        /\ stakers'[x].amountStaked = stakers[x].amountStaked
        /\ stakers'[x].currentChallenge = stakers[x].currentChallenge
    BY <2>1, MoveEffect
  <2>4. QED
    BY <1>0, <2>2, <2>3, SMT
<1>5. ASSUME NEW a \in Account, Withdraw(a)
      PROVE  StakeKept(x) /\ ChallengeKept(x) /\ UNCHANGED <<config, challenges, completed>>
  BY <1>0, <1>5, SMT DEF Withdraw, admin, disputes
<1>6. QED
  BY <1>1, <1>2, <1>3, <1>4, <1>5 DEF ManageStake

\* Mining, resolving and proposing keep both.
LEMMA ResolveKept ==
    ASSUME TypeOK, MineBlock \/ Resolve \/ Propose \/ ProposeForks, NEW x \in Address
    PROVE  StakeKept(x) /\ ChallengeKept(x) /\ UNCHANGED <<config, challenges, completed>>
<1>0. stakers[x].amountStaked \in Nat
  BY DEF TypeOK, Staker
<1> USE DEF StakeKept, ChallengeKept
<1>1. CASE MineBlock \/ Resolve
  <2>1. UNCHANGED <<admin, stakes, disputes>>
    BY <1>1 DEF MineBlock, Resolve, ConfirmFirstUnresolvedAssertion, RejectFirstUnresolvedAssertion
  <2>2. QED
    BY <1>0, <2>1, SMT DEF admin, stakes, disputes
<1>2. ASSUME NEW a \in Address, NEW h \in Hash, NEW n \in BlockNum,
             CreateAssertion(a, h, n) \/ CreateSibling(a, h, n)
      PROVE  StakeKept(x) /\ ChallengeKept(x) /\ UNCHANGED <<config, challenges, completed>>
  <2>1. lastCreatedAssertionID + 1 \in AssertionID /\ RecordProposal(a, h)
    BY <1>2, ProposeEffect
  <2>2. UNCHANGED <<config, challenges, completed>>
    BY <2>1 DEF RecordProposal, admin, disputes
  <2>3. stakers' = [stakers EXCEPT ![a].assertionID = lastCreatedAssertionID + 1]
    BY <2>1 DEF RecordProposal
  <2>4. /\ stakers'[x].isStaked = stakers[x].isStaked
        /\ stakers'[x].amountStaked = stakers[x].amountStaked
        /\ stakers'[x].currentChallenge = stakers[x].currentChallenge
    BY <2>1, <2>3, MoveEffect
  <2>5. QED
    BY <1>0, <2>2, <2>4, SMT
<1>3. QED
  BY <1>1, <1>2 DEF Propose, ProposeForks

\* Opening a challenge keeps both and completes none.
LEMMA OpenKept ==
    ASSUME TypeOK, NEW s \in Address, NEW d \in Address, NEW c \in Address,
           NEW i \in AssertionID, NEW j \in AssertionID, ChallengeAssertion(s, d, c, i, j),
           NEW x \in Address
    PROVE  StakeKept(x) /\ ChallengeKept(x) /\ UNCHANGED <<config, completed>>
<1> DEFINE n == Len(challenges) + 1
<1>1. Len(challenges) < MaxChallenges /\ UNCHANGED <<config, completed>>
  BY DEF ChallengeAssertion, admin
<1>2. n \in 0..MaxChallenges /\ stakers[x].amountStaked \in Nat
  BY <1>1, BoundsAssumption, SMT DEF TypeOK, Staker
<1>3. stakers' = [stakers EXCEPT ![c].currentChallenge = n, ![d].currentChallenge = n]
  BY DEF ChallengeAssertion
<1> HIDE DEF n
<1>4. /\ stakers' \in [Address -> Staker]
      /\ \A b \in Address \ {c, d} : stakers'[b] = stakers[b]
      /\ stakers'[c].currentChallenge = n /\ stakers'[d].currentChallenge = n
      /\ \A b \in Address : /\ stakers'[b].isStaked = stakers[b].isStaked
                            /\ stakers'[b].amountStaked = stakers[b].amountStaked
                            /\ stakers'[b].assertionID = stakers[b].assertionID
  BY <1>2, <1>3, ChallengeEffect, ZenonT(60)
<1>5. QED
  BY <1>1, <1>2, <1>4, SMT DEF StakeKept, ChallengeKept, n

\* Completing a challenge keeps both and leaves nobody in that challenge.
LEMMA CompleteKept ==
    ASSUME TypeOK, ChallengeBook, NEW c \in DOMAIN challenges, NEW w \in Address,
           NEW l \in Address, CompleteChallenge(c, w, l), NEW x \in Address
    PROVE  /\ StakeKept(x) /\ ChallengeKept(x) /\ stakers'[x].currentChallenge # c
           /\ completed' = completed \cup {c} /\ UNCHANGED config
<1> DEFINE L == stakers[l].amountStaked
           W == stakers[w].amountStaked
           won == (IF L > W THEN W ELSE L) \div 2
<1>1. /\ completed' = completed \cup {c} /\ UNCHANGED config
      /\ {challenges[c].defender, challenges[c].challenger} = {w, l}
  BY DEF CompleteChallenge, admin
<1>2. /\ won \in Nat /\ stakers[x].amountStaked \in Nat /\ c \in Nat /\ c # 0
  <2>1. L \in Nat /\ W \in Nat /\ stakers[x].amountStaked \in Nat
    BY DEF TypeOK, Staker
  <2>2. c \in Nat /\ c # 0
    BY ChallengeNumber
  <2> HIDE DEF L, W
  <2>3. won \in Nat
    BY <2>1, SMT
  <2> QED BY <2>1, <2>2, <2>3
<1>3. stakers' = [stakers EXCEPT ![w].amountStaked = @ + won,
                                 ![w].currentChallenge = 0, ![l] = NoStaker]
  BY DEF CompleteChallenge, settledStakers
<1> HIDE DEF won
<1>4. /\ \A b \in Address \ {w, l} : stakers'[b] = stakers[b]
      /\ stakers'[l] = NoStaker
      /\ w # l => /\ stakers'[w].isStaked = stakers[w].isStaked
                  /\ stakers'[w].amountStaked >= stakers[w].amountStaked
                  /\ stakers'[w].currentChallenge = 0
  <2>1. Settled(w, l, won)
    BY <1>2, <1>3, CompleteEffect
  <2> QED BY <2>1 DEF Settled
<1>5. StakeKept(x) /\ ChallengeKept(x)
  <2>1. CASE x = l
    BY <1>4, <2>1, NoStakerFields DEF StakeKept, ChallengeKept
  <2>2. CASE x = w /\ w # l
    BY <1>4, <2>2 DEF StakeKept, ChallengeKept
  <2>3. CASE x \in Address \ {w, l}
    <3>1. stakers[x].amountStaked >= stakers[x].amountStaked
      <4> DEFINE k == stakers[x].amountStaked
      <4>1. k \in Nat
        BY <1>2
      <4> HIDE DEF k
      <4>2. k >= k
        BY <4>1, SMT
      <4> QED BY <4>2 DEF k
    <3> QED BY <1>4, <2>3, <3>1 DEF StakeKept, ChallengeKept
  <2> QED BY <2>1, <2>2, <2>3
<1>6. stakers'[x].currentChallenge # c
  <2>1. CASE x \in {w, l}
    BY <1>2, <1>4, <2>1, NoStakerFields
  <2>2. CASE x \notin {w, l}
    BY <1>1, <1>2, <1>4, <2>2 DEF ChallengeBook
  <2>3. QED
    BY <2>1, <2>2
<1>7. QED
  BY <1>1, <1>5, <1>6

-----------------------------------------------------------------------------
(* The invariants together *)

SafeInv == TypeInv /\ ChainInv /\ StakeFloor /\ SettledForGood

\* initialize establishes them.
LEMMA InitSafeInv == Init => SafeInv
<1> SUFFICES ASSUME Init PROVE SafeInv
  OBVIOUS
<1>1. \A a \in Address : stakers[a].isStaked = FALSE
  BY NoStakerFields DEF Init
<1>2. StakeFloor
  BY <1>1 DEF StakeFloor, isStaked
<1>3. SettledForGood
  BY DEF Init, SettledForGood
<1>4. QED
  BY <1>2, <1>3, InitTypeInv, InitChainInv DEF SafeInv

\* A step that keeps the stakes and lowers, if anything, the required stake
\* keeps StakeFloor.
LEMMA FloorKept ==
    ASSUME TypeOK, TypeOK', StakeFloor, \A x \in Address : StakeKept(x),
           config'.baseStakeAmount <= config.baseStakeAmount
    PROVE  StakeFloor'
<1>1. config.baseStakeAmount \in Nat /\ config'.baseStakeAmount \in Nat
  BY DEF TypeOK, Config
<1>2. \A x \in Address : stakers[x].amountStaked \in Nat /\ stakers'[x].amountStaked \in Nat
  BY DEF TypeOK, Staker
<1>3. QED
  BY <1>1, <1>2, SMT DEF StakeFloor, StakeKept, isStaked

\* A step that completes nothing and whose players are old or in a new
\* challenge keeps SettledForGood.
LEMMA SettledKept ==
    ASSUME TypeInv, SettledForGood, completed' = completed, \A x \in Address : ChallengeKept(x)
    PROVE  SettledForGood'
<1>1. /\ completed \subseteq DOMAIN challenges /\ DOMAIN challenges = 1..Len(challenges)
      /\ Len(challenges) \in Nat
  BY SMT DEF TypeInv, ChallengeBook, TypeOK
<1>2. \A c \in completed : c # 0 /\ c # Len(challenges) + 1
  BY <1>1, SMT
<1>3. QED
  BY <1>2 DEF SettledForGood, ChallengeKept

\* Every step of either specification preserves SafeInv.
LEMMA SafeInvStep == SafeInv /\ [AnyNext]_vars => SafeInv'
<1> SUFFICES ASSUME SafeInv, [AnyNext]_vars PROVE SafeInv'
  OBVIOUS
<1>0. TypeInv /\ TypeOK /\ ChallengeBook /\ ChainInv /\ StakeFloor /\ SettledForGood
  BY DEF SafeInv, TypeInv
<1>1. TypeInv' /\ TypeOK' /\ ChainInv'
  BY <1>0, TypeInvStep, ChainInvStep DEF TypeInv
<1>2. config.baseStakeAmount \in Nat
  BY <1>0 DEF TypeOK, Config
<1>3. SUFFICES StakeFloor' /\ SettledForGood'
  BY <1>1 DEF SafeInv
<1>4. ASSUME UNCHANGED <<stakers, completed>>,
             config'.baseStakeAmount <= config.baseStakeAmount
      PROVE  StakeFloor' /\ SettledForGood'
  <2>1. \A x \in Address : stakers[x].amountStaked \in Nat
    BY <1>0 DEF TypeOK, Staker
  <2>2. \A x \in Address : StakeKept(x) /\ ChallengeKept(x)
    BY <1>4, <2>1, SMT DEF StakeKept, ChallengeKept
  <2>3. QED
    BY <1>0, <1>1, <1>4, <2>2, FloorKept, SettledKept
<1>5. CASE UNCHANGED vars
  BY <1>2, <1>4, <1>5, SMT DEF vars, admin, stakes, disputes
<1>6. CASE Administer
  BY <1>0, <1>4, <1>6, BaseStakeNeverRises DEF stakes, disputes
<1>7. CASE MineBlock \/ ManageStake \/ Resolve \/ Propose \/ ProposeForks
  <2>1. /\ \A x \in Address : StakeKept(x) /\ ChallengeKept(x)
        /\ Address # {} => UNCHANGED <<config, challenges, completed>>
    BY <1>0, <1>7, ManageStakeKept, ResolveKept
  <2>2. CASE Address = {}
    BY <2>2 DEF StakeFloor, SettledForGood
  <2>3. CASE Address # {}
    BY <1>0, <1>1, <1>2, <2>1, <2>3, FloorKept, SettledKept, SMT
  <2>4. QED
    BY <2>2, <2>3
<1>8. ASSUME NEW s \in Address, NEW d \in Address, NEW c \in Address,
             NEW i \in AssertionID, NEW j \in AssertionID, ChallengeAssertion(s, d, c, i, j)
      PROVE  StakeFloor' /\ SettledForGood'
  <2>1. \A x \in Address : StakeKept(x) /\ ChallengeKept(x) /\ UNCHANGED <<config, completed>>
    BY <1>0, <1>8, OpenKept
  <2>2. QED
    BY <1>0, <1>1, <1>2, <2>1, FloorKept, SettledKept, SMT
<1>9. ASSUME NEW c \in DOMAIN challenges, NEW w \in Address, NEW l \in Address,
             CompleteChallenge(c, w, l)
      PROVE  StakeFloor' /\ SettledForGood'
  <2>1. \A x \in Address : /\ StakeKept(x) /\ ChallengeKept(x) /\ stakers'[x].currentChallenge # c
                           /\ completed' = completed \cup {c} /\ UNCHANGED config
    BY <1>0, <1>9, CompleteKept
  <2>2. StakeFloor'
    BY <1>0, <1>1, <1>2, <2>1, FloorKept, SMT
  <2>3. SettledForGood'
    <3>1. /\ completed \subseteq DOMAIN challenges /\ DOMAIN challenges = 1..Len(challenges)
          /\ Len(challenges) \in Nat
      <4>1. completed \subseteq DOMAIN challenges
        BY <1>0 DEF ChallengeBook
      <4>2. challenges \in Seq(Challenge)
        BY <1>0 DEF TypeOK
      <4>3. QED
        BY <4>1, <4>2, SMT
    <3>2. \A k \in completed : k # 0 /\ k # Len(challenges) + 1
      BY <3>1, SMT
    <3>3. QED
      BY <1>0, <2>1, <3>2 DEF SettledForGood, ChallengeKept
  <2>4. QED
    BY <2>2, <2>3
<1>10. QED
  BY <1>5, <1>6, <1>7, <1>8, <1>9 DEF AnyNext, Next, ForkNext, Step, Dispute

\* SafeInv holds throughout, as coded and with siblings.
LEMMA SafeInvHolds == (Spec => []SafeInv) /\ (ForkSpec => []SafeInv)
<1>1. SafeInv /\ [Next]_vars => SafeInv'
  BY SafeInvStep DEF AnyNext
<1>2. SafeInv /\ [ForkNext]_vars => SafeInv'
  BY SafeInvStep DEF AnyNext
<1>3. QED
  BY <1>1, <1>2, InitSafeInv, PTL DEF Spec, ForkSpec

LEMMA SafePortal == SafeInv => PortalSound
<1> SUFFICES ASSUME SafeInv, NEW id \in AssertionID, isAssertionConfirmed(id)
             PROVE  id \in confirmed
  BY DEF PortalSound
<1>1. id <= lastResolvedAssertionID
  BY BoundsAssumption, SMT DEF SafeInv, TypeInv, TypeOK, ChainInv, Ordered, AssertionID,
                          isAssertionConfirmed
<1>2. QED
  BY <1>1 DEF SafeInv, ChainInv, Resolved, isAssertionConfirmed

\* A withdrawal is proved only against an assertion that was confirmed:
\* L1Portal's test never accepts a rejected or a pending one.
THEOREM PortalIsSound == (Spec => []PortalSound) /\ (ForkSpec => []PortalSound)
BY SafePortal, SafeInvHolds, PTL

\* confirmFirstUnresolvedAssertion builds one chain: no two confirmed assertions
\* conflict, even when rejected IDs lie between them.
THEOREM ConfirmedOneChain == (Spec => []ConfirmedChain) /\ (ForkSpec => []ConfirmedChain)
<1>1. SafeInv => ConfirmedChain
  BY DEF SafeInv, ChainInv
<1>2. QED
  BY <1>1, SafeInvHolds, PTL

\* setConfirmationPeriod never moves the deadline of a pending assertion.
THEOREM DeadlineStands == (Spec => []DeadlineInForce) /\ (ForkSpec => []DeadlineInForce)
<1>1. SafeInv => DeadlineInForce
  BY DEF SafeInv, ChainInv
<1>2. QED
  BY <1>1, SafeInvHolds, PTL

\* Every stake covers the required stake, so unstake's subtraction never reverts.
THEOREM StakesCovered == (Spec => []StakeFloor) /\ (ForkSpec => []StakeFloor)
<1>1. SafeInv => StakeFloor
  BY DEF SafeInv
<1>2. QED
  BY <1>1, SafeInvHolds, PTL

\* completeChallenge pays a challenge out at most once.
THEOREM PaidOnce == (Spec => []SettledForGood) /\ (ForkSpec => []SettledForGood)
<1>1. SafeInv => SettledForGood
  BY DEF SafeInv
<1>2. QED
  BY <1>1, SafeInvHolds, PTL

-----------------------------------------------------------------------------
(* How far the assertion tree gets as coded *)

First == InitialAssertionID

\* Every staker is on the first assertion or on its one child and is recorded
\* there; the two have the same block number, which is not 0 any more.
Stunted ==
    /\ lastResolvedAssertionID = lastConfirmedAssertionID
    /\ First <= lastConfirmedAssertionID /\ lastConfirmedAssertionID <= lastCreatedAssertionID
    /\ \/ /\ lastCreatedAssertionID = First
          /\ assertions[First].blockNum = InitialBlockNum
       \/ /\ lastCreatedAssertionID = First + 1
          /\ InitialBlockNum = 0
          /\ assertions[First].blockNum # 0 /\ assertions[First + 1].blockNum # 0
          /\ assertions[First + 1].parent = First
    /\ \A a \in Address : isStaked(a) =>
          /\ stakers[a].assertionID \in First..lastCreatedAssertionID
          /\ a \in assertionStakers[stakers[a].assertionID]
    /\ challenges = <<>> /\ zombies = <<>>

\* A chain of one assertion or of two.
LEMMA OneOrTwo ==
    ASSUME NEW f \in Nat
    PROVE  /\ \A p \in f..f : p = f
           /\ \A p \in f..(f + 1) : p = f \/ p = f + 1
  BY SMT

\* Initially there is the first assertion only.
LEMMA InitStunted == Init => Stunted
<1> SUFFICES ASSUME Init PROVE Stunted
  OBVIOUS
<1>1. InitialAssertionID \in Nat /\ \A a \in Address : ~isStaked(a)
  BY BoundsAssumption, NoStakerFields, SMT DEF AssertionID, Init, isStaked
<1>2. assertions[InitialAssertionID].blockNum = InitialBlockNum
  BY BoundsAssumption DEF Init
<1>3. QED
  BY <1>1, <1>2, SMT DEF Init, Stunted, First

\* While the tree is stunted the one unresolved assertion cannot be rejected: whoever
\* is staked past its parent is staked on it.
LEMMA NothingRejectable ==
    ASSUME TypeOK, Stunted, NEW a \in Address PROVE ~firstUnresolvedIsRejectable(a)
<1>1. /\ lastResolvedAssertionID \in Nat /\ lastCreatedAssertionID \in Nat /\ First \in Nat
      /\ stakers[a].assertionID \in Nat
  BY BoundsAssumption, SMT DEF TypeOK, AssertionID, Staker, First
<1> SUFFICES ASSUME firstUnresolvedIsRejectable(a) PROVE FALSE
  OBVIOUS
<1>2. /\ lastCreatedAssertionID = First + 1 /\ firstUnresolved = First + 1
      /\ lastConfirmedAssertionID = First
  BY <1>1, SMT DEF Stunted, firstUnresolvedIsRejectable, hasUnresolved, firstUnresolved
<1>3. isStaked(a) /\ stakers[a].assertionID >= First + 1 /\ a \notin assertionStakers[First + 1]
  BY <1>1, <1>2, SMT DEF Stunted, firstUnresolvedIsRejectable
<1>4. stakers[a].assertionID = First + 1
  BY <1>1, <1>2, <1>3, SMT DEF Stunted
<1>5. QED
  BY <1>3, <1>4 DEF Stunted

\* A step that creates, resolves and disputes nothing keeps the tree as it is.
LEMMA FrameStunted ==
    ASSUME TypeOK, Stunted, UNCHANGED <<ids, zombies, challenges>>,
           \A i \in AssertionID : /\ SameProposal(assertions'[i], assertions[i])
                                  /\ assertions'[i].blockNum = assertions[i].blockNum,
           \A a \in Address : stakers'[a].isStaked =>
               /\ stakers'[a].assertionID \in First..lastCreatedAssertionID
               /\ a \in assertionStakers'[stakers'[a].assertionID]
    PROVE  Stunted'
<1>1. First \in AssertionID /\ lastCreatedAssertionID \in AssertionID
  BY BoundsAssumption DEF First, TypeOK
<1>2. QED
  BY <1>1 DEF Stunted, ids, SameProposal, isStaked

\* Administration and the passing of blocks.
LEMMA AdministerStunted ==
    ASSUME TypeOK, Stunted, UNCHANGED <<chain, stakers, zombies, challenges>> PROVE Stunted'
BY DEF Stunted, chain, ids, isStaked, First

\* The staking operations.
LEMMA ManageStakeStunted ==
    ASSUME TypeOK, Stunted, ManageStake PROVE Stunted'
<1>0. /\ lastConfirmedAssertionID \in AssertionID /\ lastCreatedAssertionID \in AssertionID
      /\ AssertionID \subseteq Nat /\ First \in Nat
  BY BoundsAssumption, SMT DEF TypeOK, AssertionID, First
<1>1. \A i \in AssertionID : SameProposal(assertions[i], assertions[i])
  BY DEF SameProposal
<1>2. ASSUME NEW a \in Address, NEW n \in Amount, Stake(a, n) PROVE Stunted'
  <2>1. /\ UNCHANGED <<ids, zombies, challenges>>
        /\ \/ isStaked(a) /\ UNCHANGED <<assertions, assertionStakers>>
           \/ ~isStaked(a) /\ StakeOnAssertion(a, lastConfirmedAssertionID)
    BY <1>2 DEF Stake, disputes
  <2>2. \A i \in AssertionID : /\ SameProposal(assertions'[i], assertions[i])
                               /\ assertions'[i].blockNum = assertions[i].blockNum
                               /\ assertionStakers[i] \subseteq assertionStakers'[i]
    BY <1>0, <1>1, <2>1, StakeOnEffect
  <2>3. ASSUME NEW b \in Address, stakers'[b].isStaked
        PROVE  /\ stakers'[b].assertionID \in First..lastCreatedAssertionID
               /\ b \in assertionStakers'[stakers'[b].assertionID]
    <3>1. stakers[b].assertionID \in AssertionID
      BY DEF TypeOK, Staker
    <3>2. CASE b # a \/ isStaked(a)
      <4>1. isStaked(b) /\ stakers'[b].assertionID = stakers[b].assertionID
        BY <1>2, <2>3, <3>2, StakeEffect DEF isStaked
      <4>2. QED
        BY <2>2, <3>1, <4>1 DEF Stunted
    <3>3. CASE b = a /\ ~isStaked(a)
      <4>1. stakers'[a].assertionID = lastConfirmedAssertionID
        BY <1>2, <3>3, StakeEffect
      <4>2. a \in assertionStakers'[lastConfirmedAssertionID]
        BY <1>0, <2>1, <3>3, StakeOnEffect
      <4>3. QED
        BY <1>0, <3>3, <4>1, <4>2, SMT DEF Stunted
    <3>4. QED
      BY <3>2, <3>3
  <2>4. QED
    BY <2>1, <2>2, <2>3, FrameStunted
<1>3. ASSUME UNCHANGED <<chain, zombies, challenges>>,
             \A b \in Address : stakers'[b].isStaked =>
                 stakers[b].isStaked /\ stakers'[b].assertionID = stakers[b].assertionID
      PROVE  Stunted'
  BY <1>1, <1>3, FrameStunted DEF chain, Stunted, isStaked
<1>4. ASSUME NEW a \in Address, NEW n \in Amount, Unstake(a, n) PROVE Stunted'
  <2>1. UNCHANGED <<chain, zombies, challenges>>
    BY <1>4 DEF Unstake, disputes
  <2>2. QED
    BY <1>3, <1>4, <2>1, UnstakeEffect
<1>5. ASSUME NEW s \in Address, NEW a \in Address, RemoveStake(s, a) PROVE Stunted'
  <2>1. stakers' = [stakers EXCEPT ![a] = NoStaker] /\ UNCHANGED <<chain, zombies, challenges>>
    BY <1>5 DEF RemoveStake, disputes
  <2>2. QED
    BY <1>3, <2>1, NoStakerFields DEF TypeOK
<1>6. ASSUME NEW a \in Address, NEW id \in AssertionID, AdvanceStake(a, id) PROVE Stunted'
  <2>1. /\ isStaked(a) /\ stakers[a].assertionID < id /\ id <= lastCreatedAssertionID
        /\ StakeOnAssertion(a, id) /\ UNCHANGED <<ids, zombies, challenges>>
    BY <1>6 DEF AdvanceStake, disputes
  <2>2. stakers' = [stakers EXCEPT ![a].assertionID = id]
    BY <1>6 DEF AdvanceStake
  <2>3. /\ \A b \in Address \ {a} : stakers'[b] = stakers[b]
        /\ stakers'[a].assertionID = id
    BY <2>2, MoveEffect
  <2>4. /\ a \in assertionStakers'[id]
        /\ \A i \in AssertionID : /\ SameProposal(assertions'[i], assertions[i])
                                  /\ assertions'[i].blockNum = assertions[i].blockNum
                                  /\ assertionStakers[i] \subseteq assertionStakers'[i]
    BY <2>1, StakeOnEffect
  <2>5. \A b \in Address : stakers[b].assertionID \in AssertionID
    BY DEF TypeOK, Staker
  <2>6. id \in First..lastCreatedAssertionID
    BY <1>0, <2>1, <2>5, SMT DEF Stunted
  <2>7. \A b \in Address : stakers'[b].isStaked =>
           /\ stakers'[b].assertionID \in First..lastCreatedAssertionID
           /\ b \in assertionStakers'[stakers'[b].assertionID]
    BY <2>3, <2>4, <2>5, <2>6 DEF Stunted, isStaked
  <2>8. QED
    BY <2>1, <2>4, <2>7, FrameStunted
<1>7. ASSUME NEW a \in Account, Withdraw(a) PROVE Stunted'
  BY <1>3, <1>7 DEF Withdraw, disputes
<1>8. QED
  BY <1>2, <1>4, <1>5, <1>6, <1>7 DEF ManageStake

\* Confirming the one child.
LEMMA ConfirmStunted ==
    ASSUME TypeOK, Stunted, NEW s \in Address, ConfirmFirstUnresolvedAssertion(s) PROVE Stunted'
<1>1. /\ lastResolvedAssertionID \in Nat /\ lastCreatedAssertionID \in Nat /\ First \in Nat
  BY BoundsAssumption, SMT DEF TypeOK, AssertionID, First
<1>2. /\ lastResolvedAssertionID < lastCreatedAssertionID
      /\ lastResolvedAssertionID' = lastResolvedAssertionID + 1
      /\ lastConfirmedAssertionID' = lastResolvedAssertionID + 1
      /\ UNCHANGED <<lastCreatedAssertionID, assertions, assertionStakers, stakers, zombies,
                     challenges>>
  BY DEF ConfirmFirstUnresolvedAssertion, firstUnresolvedIsConfirmable, hasUnresolved,
         firstUnresolved, stakes, disputes
<1>3. QED
  BY <1>1, <1>2, SMT DEF Stunted, isStaked, First

\* createAssertion succeeds only for the first child of a first assertion at
\* block 0, and gives both the block number asserted.
LEMMA ProposeStunted ==
    ASSUME TypeOK, Stunted, NEW a \in Address, NEW h \in Hash, NEW n \in BlockNum,
           CreateAssertion(a, h, n)
    PROVE  Stunted'
<1> DEFINE p == stakers[a].assertionID
           b == IF assertions[p].blockNum = 0 THEN n ELSE assertions[p].blockNum
           upd == [assertions[p] EXCEPT !.blockNum = b]
           new == newAssertion(h, n, p)
<1>1. /\ First \in Nat /\ lastCreatedAssertionID \in Nat /\ n \in Nat /\ p \in AssertionID
      /\ assertions[p] \in Assertion /\ assertions[p].blockNum \in Nat /\ b \in Nat
  <2>1. First \in Nat /\ lastCreatedAssertionID \in Nat /\ n \in Nat
    BY BoundsAssumption, DataAssumption, SMT DEF TypeOK, AssertionID, First
  <2>2. p \in AssertionID /\ assertions[p] \in Assertion
    BY DEF TypeOK, Staker
  <2>3. assertions[p].blockNum \in Nat
    BY <2>2 DEF Assertion
  <2>4. QED
    BY <2>1, <2>2, <2>3
<1>2. /\ isStaked(a) /\ n > assertions[p].blockNum
      /\ assertions[p].blockNum # 0 => n = assertions[p].blockNum
      /\ RecordProposal(a, h) /\ lastCreatedAssertionID + 1 \in AssertionID
  <2>1. canPropose(a, n) /\ isNewChild(p, assertions[p].blockNum, h, n) /\ RecordProposal(a, h)
    BY DEF CreateAssertion
  <2>2. lastCreatedAssertionID + 1 \in AssertionID
    BY ProposeEffect
  <2>3. QED
    BY <2>1, <2>2 DEF canPropose, isNewChild
<1>3. assertions[p].blockNum = 0 /\ n # 0
  <2> DEFINE k == assertions[p].blockNum
  <2>1. k \in Nat /\ n > k /\ (k # 0 => n = k)
    BY <1>1, <1>2
  <2> HIDE DEF k
  <2>2. k = 0 /\ n # 0
    BY <2>1, SMT
  <2> QED BY <2>2 DEF k
<1>4. p = First /\ lastCreatedAssertionID = First /\ InitialBlockNum = 0
  <2>1. p \in First..lastCreatedAssertionID
    BY <1>2 DEF Stunted
  <2>2. CASE lastCreatedAssertionID = First /\ assertions[First].blockNum = InitialBlockNum
    BY <1>1, <1>3, <2>1, <2>2, OneOrTwo
  <2>3. CASE /\ lastCreatedAssertionID = First + 1
             /\ assertions[First].blockNum # 0 /\ assertions[First + 1].blockNum # 0
    BY <1>1, <1>3, <2>1, <2>3, OneOrTwo
  <2> QED BY <2>2, <2>3 DEF Stunted
<1>5. assertions' = [assertions EXCEPT ![p] = upd, ![lastCreatedAssertionID + 1] = new]
  BY DEF CreateAssertion
<1>6. b = n /\ new.blockNum = n /\ new.parent = p
  BY <1>3 DEF newAssertion
<1> HIDE DEF b, new
<1>7. upd \in Assertion /\ upd.blockNum = b
  BY <1>1, RecordChildNum
<1> HIDE DEF upd
<1>8. assertions'[First].blockNum = n /\ assertions'[First + 1] = new
  BY <1>1, <1>2, <1>4, <1>5, <1>6, <1>7 DEF TypeOK
<1>9. /\ lastCreatedAssertionID' = lastCreatedAssertionID + 1
      /\ assertionStakers' = [assertionStakers EXCEPT ![lastCreatedAssertionID + 1] = @ \cup {a}]
      /\ UNCHANGED <<lastResolvedAssertionID, lastConfirmedAssertionID, zombies, challenges>>
  BY <1>2 DEF RecordProposal, disputes
<1>10. stakers' = [stakers EXCEPT ![a].assertionID = lastCreatedAssertionID + 1]
  BY <1>2 DEF RecordProposal
<1>11. /\ \A c \in Address \ {a} : stakers'[c] = stakers[c]
       /\ stakers'[a].assertionID = lastCreatedAssertionID + 1
  BY <1>2, <1>10, MoveEffect
<1>12. \A c \in Address : stakers[c].assertionID \in AssertionID
  BY DEF TypeOK, Staker
<1>13. ASSUME NEW c \in Address, stakers'[c].isStaked
       PROVE  /\ stakers'[c].assertionID \in First..lastCreatedAssertionID'
              /\ c \in assertionStakers'[stakers'[c].assertionID]
  <2>1. CASE c = a
    BY <1>1, <1>2, <1>4, <1>9, <1>11, <2>1, SMT DEF TypeOK
  <2>2. CASE c # a
    <3>1. /\ stakers'[c].assertionID = First
          /\ c \in assertionStakers[First]
      <4>1. stakers'[c] = stakers[c] /\ isStaked(c)
        BY <1>11, <1>13, <2>2 DEF isStaked
      <4>2. /\ stakers[c].assertionID \in First..First
            /\ c \in assertionStakers[stakers[c].assertionID]
        BY <1>4, <4>1 DEF Stunted
      <4>3. stakers[c].assertionID = First
        BY <1>1, <4>2, OneOrTwo
      <4> QED BY <4>1, <4>2, <4>3
    <3>2. QED
      BY <1>1, <1>2, <1>4, <1>9, <3>1, BoundsAssumption, SMT DEF TypeOK, First
  <2>3. QED
    BY <2>1, <2>2
<1>14. /\ lastCreatedAssertionID' = First + 1 /\ InitialBlockNum = 0
       /\ assertions'[First].blockNum # 0 /\ assertions'[First + 1].blockNum # 0
       /\ assertions'[First + 1].parent = First
  BY <1>3, <1>4, <1>6, <1>8, <1>9
<1>15. /\ lastResolvedAssertionID' = lastConfirmedAssertionID'
       /\ First <= lastConfirmedAssertionID'
       /\ lastConfirmedAssertionID' <= lastCreatedAssertionID'
       /\ challenges' = <<>> /\ zombies' = <<>>
  <2>1. lastConfirmedAssertionID \in Nat
    BY BoundsAssumption, SMT DEF TypeOK, AssertionID
  <2>2. QED
    BY <1>1, <1>9, <2>1, SMT DEF Stunted
<1>16. QED
  BY <1>13, <1>14, <1>15 DEF Stunted, isStaked, First

\* Every step of Rollup as coded keeps the tree stunted.
LEMMA StuntedStep == TypeInv /\ Stunted /\ [Next]_vars => Stunted'
<1> SUFFICES ASSUME TypeInv, Stunted, [Next]_vars PROVE Stunted'
  OBVIOUS
<1>0. TypeOK
  BY DEF TypeInv
<1>1. CASE UNCHANGED vars \/ MineBlock
  BY <1>0, <1>1, AdministerStunted DEF vars, MineBlock, stakes, disputes
<1>2. CASE Administer
  <2>1. ASSUME NEW c, ChangeConfig(c) PROVE UNCHANGED <<chain, stakes, disputes>>
    BY <2>1 DEF ChangeConfig
  <2>2. UNCHANGED <<chain, stakes, disputes>>
    BY <1>2, <2>1 DEF Administer, Pause, Unpause, AddValidator, RemoveValidator, SetDAProvider,
                      SetConfirmationPeriod, SetChallengePeriod, SetMinimumAssertionPeriod,
                      SetBaseStakeAmount
  <2>3. QED
    BY <1>0, <2>2, AdministerStunted DEF stakes, disputes
<1>3. CASE ManageStake
  BY <1>0, <1>3, ManageStakeStunted
<1>4. CASE Resolve
  <2>1. \A s, a \in Address : ~RejectFirstUnresolvedAssertion(s, a)
    BY <1>0, NothingRejectable DEF RejectFirstUnresolvedAssertion
  <2>2. QED
    BY <1>0, <1>4, <2>1, ConfirmStunted DEF Resolve
<1>5. CASE Propose
  BY <1>0, <1>5, ProposeStunted DEF Propose
<1>6. ~Dispute
  <2>1. ASSUME NEW s \in Address, NEW d \in Address, NEW c \in Address,
               NEW i \in AssertionID, NEW j \in AssertionID, ChallengeAssertion(s, d, c, i, j)
        PROVE  FALSE
    <3>1. i < j /\ j <= lastCreatedAssertionID /\ lastConfirmedAssertionID < i
      BY <2>1 DEF ChallengeAssertion, areDisputable
    <3>2. /\ lastCreatedAssertionID \in Nat /\ lastConfirmedAssertionID \in Nat
          /\ First \in Nat /\ i \in Nat /\ j \in Nat
      BY <1>0, BoundsAssumption, SMT DEF TypeOK, AssertionID, First
    <3>3. QED
      BY <3>1, <3>2, SMT DEF Stunted
  <2>2. DOMAIN challenges = {}
    BY SMT DEF Stunted
  <2>3. QED
    BY <2>1, <2>2 DEF Dispute
<1>7. QED
  BY <1>1, <1>2, <1>3, <1>4, <1>5, <1>6 DEF Next, Step

\* The tree stays stunted.
LEMMA StuntedHolds == Spec => [](TypeOK /\ Stunted)
<1>1. TypeInv /\ [Next]_vars => TypeInv'
  BY TypeInvStep DEF AnyNext
<1>2. TypeInv => TypeOK
  BY DEF TypeInv
<1>3. QED
  BY <1>1, <1>2, InitTypeInv, InitStunted, StuntedStep, PTL DEF Spec

\* As coded at most one assertion is ever created, and none at all when the
\* rollup starts at a block other than 0.
THEOREM OneAssertion == Spec => []AtMostOneAssertion
<1>1. TypeOK /\ Stunted => AtMostOneAssertion
  BY BoundsAssumption, SMT DEF Stunted, AtMostOneAssertion, First, AssertionID
<1>2. QED
  BY <1>1, StuntedHolds, PTL

\* As coded challengeAssertion, completeChallenge and
\* rejectFirstUnresolvedAssertion never succeed.
THEOREM NoDispute == Spec => []NothingDisputed
<1>1. TypeOK /\ Stunted => NothingDisputed
  BY NothingRejectable DEF NothingDisputed, Stunted
<1>2. QED
  BY <1>1, StuntedHolds, PTL

-----------------------------------------------------------------------------
(* The Ether that the contract owes and the stakes that it counts *)

\* Nothing refers to an assertion that is not created yet.
Known ==
    /\ \A n \in AssertionID :
          n <= lastCreatedAssertionID => assertions[n].parent <= lastCreatedAssertionID
    /\ \A a \in Address : stakers[a].assertionID <= lastCreatedAssertionID
    /\ \A i \in DOMAIN zombies : zombies[i].lastAssertionID <= lastCreatedAssertionID

\* The count of an assertion is exact, and whoever is or was below it is recorded as
\* its staker: this is what makes countStakedZombies count the zombies below it.
CountedAt(id) ==
    /\ assertions[id].numStakers = Cardinality(stakersBelow(id)) + Cardinality(zombiesBelow(id))
    /\ stakersBelow(id) \subseteq assertionStakers[id]
    /\ \A i \in zombiesBelow(id) : zombies[i].stakerAddress \in assertionStakers[id]

CountInv == Known /\ \A id \in firstUnresolved..lastCreatedAssertionID : CountedAt(id)

StakeInv == SafeInv /\ Solvent /\ CountInv

-----------------------------------------------------------------------------
(* Ether *)

\* The stakes and the funds are finitely many amounts.
LEMMA Amounts ==
    ASSUME TypeOK
    PROVE  /\ amountsStaked \in [Address -> Nat] /\ withdrawableFunds \in [Account -> Nat]
           /\ IsFiniteSet(Address) /\ IsFiniteSet(Account)
           /\ Total(amountsStaked) \in Nat /\ Total(withdrawableFunds) \in Nat
           /\ \A a \in Address : amountsStaked[a] = stakers[a].amountStaked
<1>1. amountsStaked \in [Address -> Nat] /\ withdrawableFunds \in [Account -> Nat]
  BY DEF TypeOK, amountsStaked, Staker
<1>2. IsFiniteSet(Address) /\ IsFiniteSet(Account)
  BY DataAssumption, FS_AddElement DEF Account
<1>3. \A a \in Address : amountsStaked[a] = stakers[a].amountStaked
  BY DEF amountsStaked
<1> QED BY <1>1, <1>2, <1>3, UnitsFinite

\* When one stake changes the sum of the stakes changes by as much.
LEMMA StakesMove ==
    ASSUME TypeOK, TypeOK', NEW a \in Address,
           \A b \in Address \ {a} : stakers'[b].amountStaked = stakers[b].amountStaked
    PROVE  /\ Total(amountsStaked) \in Nat /\ Total(amountsStaked)' \in Nat
           /\ Total(amountsStaked)' + stakers[a].amountStaked
                = Total(amountsStaked) + stakers'[a].amountStaked
<1>1. /\ amountsStaked \in [Address -> Nat] /\ amountsStaked' \in [Address -> Nat]
      /\ IsFiniteSet(Address)
      /\ \A b \in Address : amountsStaked[b] = stakers[b].amountStaked
      /\ \A b \in Address : amountsStaked'[b] = stakers'[b].amountStaked
  <2>1. amountsStaked' \in [Address -> Nat]
    BY DEF TypeOK, amountsStaked, Staker
  <2>2. \A b \in Address : amountsStaked'[b] = stakers'[b].amountStaked
    BY DEF amountsStaked
  <2> QED BY <2>1, <2>2, Amounts
<1>2. \A b \in Address \ {a} : amountsStaked'[b] = amountsStaked[b]
  BY <1>1
<1>3. /\ Total(amountsStaked) \in Nat /\ Total(amountsStaked') \in Nat
      /\ Total(amountsStaked') + amountsStaked[a] = Total(amountsStaked) + amountsStaked'[a]
  BY <1>1, <1>2, OneChanges, SMT DEF Shifted
<1> QED BY <1>1, <1>3

\* The sum stands while no stake changes.
LEMMA StakesStand ==
    ASSUME \A b \in Address : stakers'[b].amountStaked = stakers[b].amountStaked
    PROVE  Total(amountsStaked)' = Total(amountsStaked)
<1>1. amountsStaked' = amountsStaked
  BY DEF amountsStaked
<1> QED BY <1>1

\* What is paid out is owed no longer, and what is owed anew was paid in.
LEMMA Balanced ==
    ASSUME NEW b \in Nat, NEW s \in Nat, NEW f \in Nat, NEW t \in Nat, NEW x \in Nat, NEW y \in Nat,
           b >= s + f, t + x = s + y
    PROVE  /\ y = x => b >= t + f
           /\ \A n \in Nat : y <= x + n => b + n >= t + f
           /\ \A n \in Nat : x = y + n => b - n >= t + f
BY SMT

\* Staking and withdrawing move as much Ether as they change what is owed.
LEMMA ManageStakeSolvent ==
    ASSUME TypeOK, TypeOK', Solvent, ManageStake
    PROVE  Solvent'
<1>0. /\ Total(amountsStaked) \in Nat /\ Total(withdrawableFunds) \in Nat /\ balance \in Nat
      /\ balance >= Total(amountsStaked) + Total(withdrawableFunds)
  BY Amounts DEF Solvent, TypeOK
<1>1. \A a \in Address : stakers[a].amountStaked \in Nat /\ stakers'[a].amountStaked \in Nat
  BY DEF TypeOK, Staker
<1>2. ASSUME NEW a \in Address, NEW n \in Amount, Stake(a, n) PROVE Solvent'
  <2>1. n \in Nat /\ balance' = balance + n /\ withdrawableFunds' = withdrawableFunds
    BY <1>2, DataAssumption DEF Stake
  <2>2. /\ \A b \in Address \ {a} : stakers'[b] = stakers[b]
        /\ stakers'[a].amountStaked <= stakers[a].amountStaked + n
    BY <1>1, <1>2, <2>1, StakeEffect, SMT
  <2>3. /\ Total(amountsStaked)' \in Nat
        /\ Total(amountsStaked)' + stakers[a].amountStaked
             = Total(amountsStaked) + stakers'[a].amountStaked
    BY <2>2, StakesMove
  <2>4. balance + n >= Total(amountsStaked)' + Total(withdrawableFunds)
    BY <1>0, <1>1, <2>1, <2>2, <2>3, Balanced, SMT
  <2> QED BY <2>1, <2>4 DEF Solvent
<1>3. ASSUME NEW a \in Address, NEW n \in Amount, Unstake(a, n) PROVE Solvent'
  <2>1. n \in Nat /\ balance' = balance - n /\ withdrawableFunds' = withdrawableFunds
    BY <1>3, DataAssumption DEF Unstake, Pays
  <2>2. /\ \A b \in Address \ {a} : stakers'[b] = stakers[b]
        /\ stakers'[a].amountStaked = stakers[a].amountStaked - n
    BY <1>3, UnstakeEffect
  <2>3. /\ Total(amountsStaked)' \in Nat
        /\ Total(amountsStaked)' + stakers[a].amountStaked
             = Total(amountsStaked) + stakers'[a].amountStaked
    BY <2>2, StakesMove
  <2>4. stakers[a].amountStaked = stakers'[a].amountStaked + n
    BY <1>1, <2>1, <2>2, SMT
  <2>5. balance - n >= Total(amountsStaked)' + Total(withdrawableFunds)
    BY <1>0, <1>1, <2>1, <2>3, <2>4, Balanced, SMT
  <2> QED BY <2>1, <2>5 DEF Solvent
<1>4. ASSUME NEW s \in Address, NEW a \in Address, RemoveStake(s, a) PROVE Solvent'
  <2>1. /\ stakers' = [stakers EXCEPT ![a] = NoStaker]
        /\ balance' = balance - stakers[a].amountStaked /\ withdrawableFunds' = withdrawableFunds
    BY <1>4 DEF RemoveStake, Pays
  <2>2. /\ \A b \in Address \ {a} : stakers'[b] = stakers[b]
        /\ stakers'[a].amountStaked = 0
    BY <2>1 DEF TypeOK, NoStaker
  <2>3. /\ Total(amountsStaked)' \in Nat
        /\ Total(amountsStaked)' + stakers[a].amountStaked
             = Total(amountsStaked) + stakers'[a].amountStaked
    BY <2>2, StakesMove
  <2>4. balance - stakers[a].amountStaked >= Total(amountsStaked)' + Total(withdrawableFunds)
    BY <1>0, <1>1, <2>2, <2>3, Balanced, SMT
  <2> QED BY <2>1, <2>4 DEF Solvent
<1>5. ASSUME NEW a \in Address, NEW id \in AssertionID, AdvanceStake(a, id) PROVE Solvent'
  <2>1. stakers' = [stakers EXCEPT ![a].assertionID = id] /\ UNCHANGED <<balance, withdrawableFunds>>
    BY <1>5 DEF AdvanceStake
  <2>2. UNCHANGED <<balance, withdrawableFunds>>
    BY <2>1
  <2>3. \A b \in Address : stakers'[b].amountStaked = stakers[b].amountStaked
    BY <2>1, MoveEffect
  <2> QED BY <2>2, <2>3, <1>0, StakesStand DEF Solvent
<1>6. ASSUME NEW a \in Account, Withdraw(a) PROVE Solvent'
  <2>1. /\ withdrawableFunds' = [withdrawableFunds EXCEPT ![a] = 0]
        /\ balance' = balance - withdrawableFunds[a] /\ stakers' = stakers
    BY <1>6 DEF Withdraw, Pays
  <2>2. /\ withdrawableFunds \in [Account -> Nat] /\ withdrawableFunds' \in [Account -> Nat]
        /\ IsFiniteSet(Account) /\ withdrawableFunds'[a] = 0
        /\ \A b \in Account \ {a} : withdrawableFunds'[b] = withdrawableFunds[b]
    BY <2>1, Amounts DEF TypeOK
  <2>3. /\ Total(withdrawableFunds') \in Nat
        /\ Total(withdrawableFunds') + withdrawableFunds[a]
             = Total(withdrawableFunds) + withdrawableFunds'[a]
    BY <2>2, OneChanges, SMT DEF Shifted
  <2>4. withdrawableFunds[a] \in Nat /\ Total(amountsStaked)' = Total(amountsStaked)
    BY <2>1, <2>2, StakesStand
  <2>5. balance - withdrawableFunds[a] >= Total(withdrawableFunds') + Total(amountsStaked)
    <3>1. balance >= Total(withdrawableFunds) + Total(amountsStaked)
      BY <1>0, SMT
    <3> QED BY <1>0, <2>2, <2>3, <2>4, <3>1, Balanced, SMT
  <2>6. balance' >= Total(amountsStaked)' + Total(withdrawableFunds)'
    BY <1>0, <2>1, <2>3, <2>4, <2>5, SMT
  <2> QED BY <2>6 DEF Solvent
<1> QED BY <1>2, <1>3, <1>4, <1>5, <1>6 DEF ManageStake

\* challengeAssertion changes only the challenge of the two players.
OpenEffect(d, c) ==
    /\ \A b \in Address : /\ stakers'[b].isStaked = stakers[b].isStaked
                          /\ stakers'[b].amountStaked = stakers[b].amountStaked
                          /\ stakers'[b].assertionID = stakers[b].assertionID
    /\ UNCHANGED <<chain, balance, withdrawableFunds, zombies>>
LEMMA OpenChallenge ==
    ASSUME TypeOK, NEW s \in Address, NEW d \in Address, NEW c \in Address,
           NEW i \in AssertionID, NEW j \in AssertionID, ChallengeAssertion(s, d, c, i, j)
    PROVE  OpenEffect(d, c)
<1> DEFINE n == Len(challenges) + 1
<1>1. Len(challenges) < MaxChallenges /\ UNCHANGED <<chain, balance, withdrawableFunds, zombies>>
  BY DEF ChallengeAssertion
<1>2. n \in 0..MaxChallenges
  BY <1>1, BoundsAssumption, SMT DEF TypeOK
<1>3. stakers' = [stakers EXCEPT ![c].currentChallenge = n, ![d].currentChallenge = n]
  BY DEF ChallengeAssertion
<1> HIDE DEF n
<1>4. \A b \in Address : /\ stakers'[b].isStaked = stakers[b].isStaked
                         /\ stakers'[b].amountStaked = stakers[b].amountStaked
                         /\ stakers'[b].assertionID = stakers[b].assertionID
  BY <1>2, <1>3, ChallengeEffect, ZenonT(60)
<1> QED BY <1>1, <1>4 DEF OpenEffect

\* The stake of the loser goes to the winner, back to the loser and to the vault, or
\* stays in the contract: a challenge of a staker against itself leaves half of the
\* stake to nobody.
LEMMA CompleteSolvent ==
    ASSUME TypeOK, TypeOK', Solvent, NEW c \in DOMAIN challenges, NEW w \in Address, NEW l \in Address,
           CompleteChallenge(c, w, l)
    PROVE  Solvent'
<1> DEFINE L == stakers[l].amountStaked
           W == stakers[w].amountStaked
           rem == IF L > W THEN W ELSE L
           won == rem \div 2
           S == Total(amountsStaked)
           F == Total(withdrawableFunds)
           refunded == [withdrawableFunds EXCEPT ![l] = @ + (L - rem)]
<1>1. /\ stakers' = [stakers EXCEPT ![w].amountStaked = @ + won,
                                    ![w].currentChallenge = 0, ![l] = NoStaker]
      /\ withdrawableFunds' = [withdrawableFunds EXCEPT ![l] = @ + (L - rem),
                                                        ![Vault] = @ + (rem - won)]
      /\ balance' = balance
  BY DEF CompleteChallenge, settledStakers
<1>2. won \in Nat /\ (rem - won) \in Nat /\ (L - rem) \in Nat /\ L \in Nat /\ W \in Nat /\ rem \in Nat
  <2>1. L \in Nat /\ W \in Nat
    BY DEF TypeOK, Staker
  <2> HIDE DEF L, W
  <2>2. rem \in Nat /\ rem <= L
    BY <2>1, SMT
  <2> HIDE DEF rem
  <2>3. won \in Nat /\ won <= rem
    BY <2>2, SMT
  <2> HIDE DEF won
  <2> QED BY <2>1, <2>2, <2>3, SMT
<1>3. /\ S \in Nat /\ F \in Nat /\ balance \in Nat /\ balance >= S + F
      /\ withdrawableFunds \in [Account -> Nat] /\ IsFiniteSet(Account)
      /\ amountsStaked \in [Address -> Nat] /\ IsFiniteSet(Address)
      /\ \A a \in Address : amountsStaked[a] = stakers[a].amountStaked
  BY Amounts DEF Solvent, TypeOK
<1>4. l \in Account /\ Vault \in Account
  BY DEF Account
<1> HIDE DEF won, rem, L, W
<1>5. Total(refunded) \in Nat /\ Total(refunded) = F + (L - rem)
  <2>1. refunded \in [Account -> Nat] /\ refunded[l] = withdrawableFunds[l] + (L - rem)
    BY <1>2, <1>3, <1>4, SMT
  <2>2. \A b \in Account \ {l} : refunded[b] = withdrawableFunds[b]
    BY <1>3, <1>4
  <2> HIDE DEF refunded
  <2>3. Total(refunded) \in Nat /\ Total(refunded) + withdrawableFunds[l] = F + refunded[l]
    <3>1. Shifted(withdrawableFunds, refunded, l)
      BY <1>3, <1>4, <2>1, <2>2, OneChanges
    <3> QED BY <3>1 DEF Shifted
  <2>4. withdrawableFunds[l] \in Nat
    BY <1>3, <1>4
  <2> QED BY <1>2, <1>3, <2>1, <2>3, <2>4, SMT
<1>6. Total(withdrawableFunds') = F + (L - rem) + (rem - won)
  <2>1. refunded \in [Account -> Nat]
    BY <1>2, <1>3, <1>4, SMT
  <2>2. withdrawableFunds' = [refunded EXCEPT ![Vault] = @ + (rem - won)]
    <3>1. refunded[Vault] = withdrawableFunds[Vault]
      BY <1>3, <1>4, DataAssumption
    <3> QED BY <1>1, <3>1
  <2> HIDE DEF refunded, F
  <2>3. /\ withdrawableFunds' \in [Account -> Nat]
        /\ withdrawableFunds'[Vault] = refunded[Vault] + (rem - won)
        /\ \A b \in Account \ {Vault} : withdrawableFunds'[b] = refunded[b]
    BY <1>2, <1>4, <2>1, <2>2, SMT
  <2>4. /\ Total(withdrawableFunds') \in Nat
        /\ Total(withdrawableFunds') + refunded[Vault] = Total(refunded) + withdrawableFunds'[Vault]
    <3>1. Shifted(refunded, withdrawableFunds', Vault)
      BY <1>3, <1>4, <2>1, <2>3, OneChanges
    <3> QED BY <3>1 DEF Shifted
  <2>5. refunded[Vault] \in Nat
    BY <1>4, <2>1
  <2> QED BY <1>2, <1>3, <1>5, <2>3, <2>4, <2>5, SMT
<1>7. /\ \A b \in Address \ {w, l} : stakers'[b] = stakers[b]
      /\ stakers'[l] = NoStaker
      /\ w # l => stakers'[w].amountStaked = W + won
  <2> HIDE DEF won, L, rem
  <2>1. Settled(w, l, won)
    BY <1>1, <1>2, CompleteEffect
  <2> QED BY <2>1 DEF Settled, W
<1>8. stakers'[l].amountStaked = 0
  BY <1>7, SMT DEF NoStaker
<1>9. Total(amountsStaked)' \in Nat /\ Total(amountsStaked)' + L <= S + won
  <2>1. CASE w = l
    <3>1. \A b \in Address \ {l} : stakers'[b].amountStaked = stakers[b].amountStaked
      BY <1>7, <2>1
    <3>2. Total(amountsStaked)' \in Nat /\ Total(amountsStaked)' + L = S + 0
      BY <1>8, <3>1, StakesMove DEF L
    <3> QED BY <1>2, <1>3, <3>2, SMT
  <2>2. CASE w # l
    <3> DEFINE paid == [amountsStaked EXCEPT ![w] = W + won]
    <3>1. paid \in [Address -> Nat] /\ paid[w] = W + won /\ paid[l] = L
      BY <1>2, <1>3, <2>2, SMT DEF L
    <3>2. \A b \in Address \ {w} : paid[b] = amountsStaked[b]
      BY <1>3
    <3>3. /\ amountsStaked' \in [Address -> Nat] /\ amountsStaked'[l] = 0
          /\ \A b \in Address \ {l} : amountsStaked'[b] = paid[b]
      <4>1. \A b \in Address : amountsStaked'[b] = stakers'[b].amountStaked
        BY DEF amountsStaked
      <4>2. amountsStaked' \in [Address -> Nat]
        BY DEF amountsStaked, TypeOK, Staker
      <4> QED BY <1>3, <1>7, <1>8, <2>2, <4>1, <4>2
    <3> HIDE DEF paid
    <3>4. Total(paid) \in Nat /\ Total(paid) + amountsStaked[w] = S + paid[w]
      <4>1. Shifted(amountsStaked, paid, w)
        BY <1>3, <3>1, <3>2, OneChanges
      <4> QED BY <4>1 DEF Shifted
    <3>5. Total(amountsStaked') \in Nat /\ Total(amountsStaked') + paid[l] = Total(paid) + amountsStaked'[l]
      <4>1. Shifted(paid, amountsStaked', l)
        BY <1>3, <3>1, <3>3, OneChanges
      <4> QED BY <4>1 DEF Shifted
    <3>6. amountsStaked[w] = W
      BY <1>3 DEF W
    <3> QED BY <1>2, <1>3, <3>1, <3>3, <3>4, <3>5, <3>6, SMT
  <2> QED BY <2>1, <2>2
<1>10. balance' >= Total(amountsStaked)' + Total(withdrawableFunds)'
  <2> HIDE DEF S, F
  <2> QED BY <1>1, <1>2, <1>3, <1>6, <1>9, SMT
<1> QED BY <1>10 DEF Solvent

\* No other step moves Ether.
LEMMA SolventStep ==
    ASSUME TypeOK, TypeOK', Solvent, [AnyNext]_vars
    PROVE  Solvent'
<1>1. ASSUME UNCHANGED <<balance, withdrawableFunds>>,
             \A b \in Address : stakers'[b].amountStaked = stakers[b].amountStaked
      PROVE  Solvent'
  BY <1>1, StakesStand DEF Solvent
<1>2. CASE Administer \/ MineBlock \/ Resolve \/ UNCHANGED vars
  <2>1. UNCHANGED stakes
    BY <1>2, BaseStakeNeverRises DEF MineBlock, Resolve, ConfirmFirstUnresolvedAssertion,
                                     RejectFirstUnresolvedAssertion, vars
  <2> QED BY <1>1, <2>1 DEF stakes
<1>3. ASSUME NEW a \in Address, NEW h \in Hash, NEW n \in BlockNum,
             CreateAssertion(a, h, n) \/ CreateSibling(a, h, n)
      PROVE  Solvent'
  <2>1. lastCreatedAssertionID + 1 \in AssertionID /\ RecordProposal(a, h)
    BY <1>3, ProposeEffect
  <2>2. UNCHANGED <<balance, withdrawableFunds>>
    BY <2>1 DEF RecordProposal
  <2>3. stakers' = [stakers EXCEPT ![a].assertionID = lastCreatedAssertionID + 1]
    BY <2>1 DEF RecordProposal
  <2>4. \A b \in Address : stakers'[b].amountStaked = stakers[b].amountStaked
    BY <2>1, <2>3, MoveEffect
  <2> QED BY <1>1, <2>2, <2>4
<1>4. ASSUME NEW s \in Address, NEW d \in Address, NEW c \in Address,
             NEW i \in AssertionID, NEW j \in AssertionID, ChallengeAssertion(s, d, c, i, j)
      PROVE  Solvent'
  <2>1. OpenEffect(d, c)
    BY <1>4, OpenChallenge
  <2> QED BY <1>1, <2>1 DEF OpenEffect
<1> QED BY <1>2, <1>3, <1>4, ManageStakeSolvent, CompleteSolvent
        DEF AnyNext, Next, ForkNext, Step, Propose, ProposeForks, Dispute

-----------------------------------------------------------------------------
(* Paths of parents *)

\* A path starts where it starts.
LEMMA MeetsSelf ==
    ASSUME NEW P, NEW id PROVE meets(P, id, id)
BY DEF meets

\* Parents are older: no path leads to a later assertion.
LEMMA MeetsOlder ==
    ASSUME NEW P, NEW id \in AssertionID, NEW anc \in AssertionID, id < anc
    PROVE  ~meets(P, id, anc)
<1>1. id \in Nat /\ anc \in Nat
  BY BoundsAssumption, SMT DEF AssertionID
<1>2. {id} \in SUBSET AssertionID /\ anc \notin {id} /\ \A n \in {id} : ~(n > anc)
  BY <1>1, SMT
<1> QED BY <1>2 DEF meets

\* The path of an assertion goes through its parent.
LEMMA MeetsParent ==
    ASSUME NEW P \in [AssertionID -> AssertionID], NEW id \in AssertionID, NEW anc \in AssertionID,
           id > anc
    PROVE  meets(P, id, anc) <=> meets(P, P[id], anc)
<1>0. id \in Nat /\ anc \in Nat /\ id # anc
  BY BoundsAssumption, SMT DEF AssertionID
<1>1. ASSUME meets(P, id, anc), NEW S \in SUBSET AssertionID, P[id] \in S,
             \A n \in S : n > anc => P[n] \in S
      PROVE  anc \in S
  <2> DEFINE T == S \cup {id}
  <2>1. T \in SUBSET AssertionID /\ id \in T /\ \A n \in T : n > anc => P[n] \in T
    BY <1>1
  <2>2. anc \in T
    BY <1>1, <2>1 DEF meets
  <2> QED BY <1>0, <2>2
<1>2. ASSUME meets(P, P[id], anc), NEW S \in SUBSET AssertionID, id \in S,
             \A n \in S : n > anc => P[n] \in S
      PROVE  anc \in S
  BY <1>2 DEF meets
<1> QED BY <1>1, <1>2 DEF meets

\* Only the parents above the ancestor matter.
LEMMA MeetsAbove ==
    ASSUME NEW P, NEW Q, NEW id, NEW anc, \A n \in AssertionID : n > anc => P[n] = Q[n]
    PROVE  meets(P, id, anc) <=> meets(Q, id, anc)
BY DEF meets

\* Only the parents of assertions up to top matter for a path among these.
LEMMA MeetsBelow ==
    ASSUME NEW P, NEW Q, NEW id \in AssertionID, NEW anc \in AssertionID, NEW top \in AssertionID,
           id <= top,
           \A n \in AssertionID : n <= top => P[n] = Q[n] /\ P[n] <= top
    PROVE  meets(P, id, anc) <=> meets(Q, id, anc)
<1>1. ASSUME NEW R, NEW U, meets(R, id, anc),
             \A n \in AssertionID : n <= top => R[n] = U[n] /\ R[n] <= top,
             NEW S \in SUBSET AssertionID, id \in S, \A n \in S : n > anc => U[n] \in S
      PROVE  anc \in S
  <2> DEFINE T == {n \in S : n <= top}
  <2>1. T \in SUBSET AssertionID /\ id \in T
    BY <1>1
  <2>2. \A n \in T : n > anc => R[n] \in T
    BY <1>1
  <2>3. anc \in T
    BY <1>1, <2>1, <2>2 DEF meets
  <2> QED BY <2>3
<1>2. ASSUME meets(P, id, anc) PROVE meets(Q, id, anc)
  BY <1>1, <1>2 DEF meets
<1>3. ASSUME meets(Q, id, anc) PROVE meets(P, id, anc)
  <2>1. \A n \in AssertionID : n <= top => Q[n] = P[n] /\ Q[n] <= top
    OBVIOUS
  <2> QED BY <1>1, <1>3, <2>1 DEF meets
<1> QED BY <1>2, <1>3

-----------------------------------------------------------------------------
(* Stake counts *)

\* What the types and the order of the three IDs give.
LEMMA IDsPlaced ==
    ASSUME TypeOK, Ordered
    PROVE  /\ AssertionID \subseteq Nat
           /\ lastConfirmedAssertionID \in AssertionID /\ lastResolvedAssertionID \in AssertionID
           /\ lastCreatedAssertionID \in AssertionID
           /\ lastConfirmedAssertionID <= lastResolvedAssertionID
           /\ lastResolvedAssertionID <= lastCreatedAssertionID
           /\ parents \in [AssertionID -> AssertionID]
           /\ \A n \in AssertionID : parents[n] = assertions[n].parent
           /\ \A a \in Address : stakers[a].assertionID \in AssertionID
           /\ \A i \in DOMAIN zombies : zombies[i].lastAssertionID \in AssertionID
           /\ \A id \in firstUnresolved..lastCreatedAssertionID :
                 id \in AssertionID /\ id > lastResolvedAssertionID /\ id <= lastCreatedAssertionID
<1>1. /\ lastConfirmedAssertionID \in AssertionID /\ lastResolvedAssertionID \in AssertionID
      /\ lastCreatedAssertionID \in AssertionID /\ AssertionID \subseteq Nat
      /\ lastConfirmedAssertionID <= lastResolvedAssertionID
      /\ lastResolvedAssertionID <= lastCreatedAssertionID
  BY BoundsAssumption, SMT DEF TypeOK, Ordered, AssertionID
<1>2. \A n \in AssertionID : assertions[n].parent \in AssertionID
  BY DEF TypeOK, Assertion
<1>3. \A a \in Address : stakers[a].assertionID \in AssertionID
  BY DEF TypeOK, Staker
<1>4. \A i \in DOMAIN zombies : zombies[i].lastAssertionID \in AssertionID
  <2>1. \A i \in DOMAIN zombies : zombies[i] \in Zombie
    BY SMT DEF TypeOK
  <2> QED BY <2>1 DEF Zombie
<1>5. \A id \in firstUnresolved..lastCreatedAssertionID :
         id \in AssertionID /\ id > lastResolvedAssertionID /\ id <= lastCreatedAssertionID
  BY <1>1, BoundsAssumption, SMT DEF AssertionID, firstUnresolved
<1> QED BY <1>1, <1>2, <1>3, <1>4, <1>5 DEF parents

\* The two counts are of finite sets.
LEMMA BelowFinite ==
    ASSUME TypeOK, NEW id
    PROVE  /\ IsFiniteSet(stakersBelow(id)) /\ Cardinality(stakersBelow(id)) \in Nat
           /\ IsFiniteSet(zombiesBelow(id)) /\ Cardinality(zombiesBelow(id)) \in Nat
<1>1. IsFiniteSet(stakersBelow(id))
  BY FS_Subset, DataAssumption DEF stakersBelow
<1>2. IsFiniteSet(zombiesBelow(id))
  <2>1. DOMAIN zombies = 1..Len(zombies) /\ Len(zombies) \in Nat
    BY SMT DEF TypeOK
  <2>2. IsFiniteSet(1..Len(zombies))
    BY <2>1, FS_Interval, SMT
  <2> QED BY <2>1, <2>2, FS_Subset DEF zombiesBelow
<1> QED BY <1>1, <1>2, FS_CardinalityType

\* The stakers below id are the same when each is below it as it was.
LEMMA SameStakers ==
    ASSUME NEW id,
           \A a \in Address :
               (stakers'[a].isStaked /\ meets(parents', stakers'[a].assertionID, id))
                 <=> (stakers[a].isStaked /\ meets(parents, stakers[a].assertionID, id))
    PROVE  stakersBelow(id)' = stakersBelow(id)
BY DEF stakersBelow, descends, isStaked

LEMMA SameZombies ==
    ASSUME NEW id, zombies' = zombies,
           \A i \in DOMAIN zombies :
               meets(parents', zombies[i].lastAssertionID, id) <=> meets(parents, zombies[i].lastAssertionID, id)
    PROVE  zombiesBelow(id)' = zombiesBelow(id)
BY DEF zombiesBelow, descends

\* The count stays exact when neither it nor those it counts change.
LEMMA CountedStays ==
    ASSUME NEW id, CountedAt(id), zombies' = zombies,
           stakersBelow(id)' = stakersBelow(id), zombiesBelow(id)' = zombiesBelow(id),
           assertions'[id].numStakers = assertions[id].numStakers,
           assertionStakers[id] \subseteq assertionStakers'[id]
    PROVE  CountedAt(id)'
<1>1. /\ assertions'[id].numStakers = Cardinality(stakersBelow(id)') + Cardinality(zombiesBelow(id)')
      /\ stakersBelow(id)' \subseteq assertionStakers'[id]
      /\ \A i \in zombiesBelow(id)' : zombies'[i].stakerAddress \in assertionStakers'[id]
  <2> DEFINE B == stakersBelow(id)
             Z == zombiesBelow(id)
             C == stakersBelow(id)'
             Y == zombiesBelow(id)'
  <2>1. /\ assertions[id].numStakers = Cardinality(B) + Cardinality(Z) /\ B \subseteq assertionStakers[id]
        /\ \A i \in Z : zombies[i].stakerAddress \in assertionStakers[id]
        /\ C = B /\ Y = Z
    BY DEF CountedAt
  <2> HIDE DEF B, Z, C, Y
  <2>2. assertions'[id].numStakers = Cardinality(C) + Cardinality(Y)
    BY <2>1
  <2>3. C \subseteq assertionStakers'[id] /\ \A i \in Y : zombies'[i].stakerAddress \in assertionStakers'[id]
    BY <2>1
  <2> QED BY <2>2, <2>3 DEF C, Y
<1> QED BY <1>1 DEF CountedAt

\* A stake that no unresolved assertion counts: none, or one on a resolved assertion.
Uncounted(r) == ~r.isStaked \/ r.assertionID <= lastResolvedAssertionID

\* A step that moves no counted stake keeps the counts.
LEMMA QuietCount ==
    ASSUME TypeOK, TypeOK', Ordered, CountInv, UNCHANGED <<ids, zombies>>,
           \A n \in AssertionID : assertions'[n].parent = assertions[n].parent,
           \A n \in AssertionID : n > lastResolvedAssertionID =>
               /\ assertions'[n].numStakers = assertions[n].numStakers
               /\ assertionStakers[n] \subseteq assertionStakers'[n],
           \A a \in Address :
               /\ stakers'[a].assertionID <= lastCreatedAssertionID
               /\ \/ /\ stakers'[a].isStaked = stakers[a].isStaked
                     /\ stakers'[a].assertionID = stakers[a].assertionID
                  \/ Uncounted(stakers[a]) /\ Uncounted(stakers'[a])
    PROVE  CountInv'
<1>1. UNCHANGED <<lastResolvedAssertionID, lastConfirmedAssertionID, lastCreatedAssertionID, zombies>>
  BY DEF ids
<1>2. parents' = parents
  BY DEF parents
<1>3. Known'
  BY <1>1 DEF CountInv, Known
<1>4. ASSUME NEW id \in firstUnresolved..lastCreatedAssertionID PROVE CountedAt(id)'
  <2>1. id \in AssertionID /\ id > lastResolvedAssertionID /\ CountedAt(id)
    BY <1>4, IDsPlaced DEF CountInv
  <2>2. \A r \in Staker : Uncounted(r) => ~(r.isStaked /\ meets(parents, r.assertionID, id))
    <3> SUFFICES ASSUME NEW r \in Staker, r.assertionID <= lastResolvedAssertionID
                 PROVE  ~meets(parents, r.assertionID, id)
      BY DEF Uncounted
    <3>1. r.assertionID \in AssertionID
      BY DEF Staker
    <3>2. r.assertionID < id
      <4>1. r.assertionID \in Nat /\ id \in Nat /\ lastResolvedAssertionID \in Nat
        BY <2>1, <3>1, IDsPlaced
      <4> QED BY <2>1, <4>1, SMT
    <3> QED BY <2>1, <3>1, <3>2, MeetsOlder
  <2>3. \A a \in Address : stakers[a] \in Staker /\ stakers'[a] \in Staker
    BY DEF TypeOK
  <2>4. \A a \in Address :
            (stakers'[a].isStaked /\ meets(parents', stakers'[a].assertionID, id))
              <=> (stakers[a].isStaked /\ meets(parents, stakers[a].assertionID, id))
    BY <1>2, <2>2, <2>3
  <2>5. stakersBelow(id)' = stakersBelow(id)
    BY <2>4, SameStakers
  <2>6. zombiesBelow(id)' = zombiesBelow(id)
    BY <1>1, <1>2, SameZombies
  <2> QED BY <1>1, <2>1, <2>5, <2>6, CountedStays
<1>5. firstUnresolved' = firstUnresolved
  BY <1>1 DEF firstUnresolved
<1> QED BY <1>1, <1>3, <1>4, <1>5 DEF CountInv

\* advanceStake is counted by the assertion advanced to, and by no other that did not
\* count the stake before: the parents of that assertion did already.
LEMMA AdvanceCount ==
    ASSUME TypeOK, TypeOK', Ordered, CountInv, NEW a \in Address, NEW to \in AssertionID,
           AdvanceStake(a, to)
    PROVE  CountInv'
<1> DEFINE from == stakers[a].assertionID
<1>1. /\ from < to /\ to <= lastCreatedAssertionID /\ assertions[to].parent = from
      /\ stakers[a].isStaked
      /\ UNCHANGED <<lastResolvedAssertionID, lastConfirmedAssertionID, lastCreatedAssertionID, zombies>>
      /\ StakeOnAssertion(a, to)
  BY DEF AdvanceStake, ids, disputes, isStaked
<1>2. stakers' = [stakers EXCEPT ![a].assertionID = to]
  BY DEF AdvanceStake
<1>3. /\ \A b \in Address \ {a} : stakers'[b] = stakers[b]
      /\ stakers'[a].assertionID = to /\ stakers'[a].isStaked
  BY <1>1, <1>2, MoveEffect
<1>4. /\ \A n \in AssertionID : /\ assertions'[n].parent = assertions[n].parent
                                /\ assertionStakers[n] \subseteq assertionStakers'[n]
      /\ a \in assertionStakers'[to]
      /\ assertions'[to].numStakers = assertions[to].numStakers + 1
      /\ \A n \in AssertionID \ {to} : assertions'[n] = assertions[n]
  BY <1>1, StakeOnEffect DEF SameProposal
<1>5. parents' = parents
  BY <1>4 DEF parents
<1>6. parents \in [AssertionID -> AssertionID] /\ parents[to] = from /\ from \in AssertionID
      /\ AssertionID \subseteq Nat /\ \A b \in Address : stakers[b].assertionID \in AssertionID
  BY <1>1, IDsPlaced
<1>7. Known'
  <2>1. \A b \in Address : stakers'[b].assertionID <= lastCreatedAssertionID
    BY <1>1, <1>3 DEF CountInv, Known
  <2> QED BY <1>1, <1>4, <2>1 DEF CountInv, Known
<1>8. ASSUME NEW id \in firstUnresolved..lastCreatedAssertionID PROVE CountedAt(id)'
  <2>1. id \in AssertionID /\ CountedAt(id)
    BY <1>8, IDsPlaced DEF CountInv
  <2>2. zombiesBelow(id)' = zombiesBelow(id)
    BY <1>1, <1>5, SameZombies
  <2>3. CASE id # to
    <3>1. meets(parents, to, id) <=> meets(parents, from, id)
      <4>1. CASE to > id
        BY <1>6, <2>1, <4>1, MeetsParent
      <4>2. CASE to < id
        <5>1. from < id
          <6>1. from \in Nat /\ to \in Nat /\ id \in Nat
            BY <1>6, <2>1
          <6> QED BY <1>1, <4>2, <6>1, SMT
        <5> QED BY <1>6, <2>1, <4>2, <5>1, MeetsOlder
      <4> QED BY <1>6, <2>1, <2>3, <4>1, <4>2, SMT
    <3>2. stakersBelow(id)' = stakersBelow(id)
      BY <1>1, <1>3, <1>5, <3>1, SameStakers
    <3>3. assertions'[id].numStakers = assertions[id].numStakers
      BY <1>4, <2>1, <2>3
    <3> QED BY <1>1, <1>4, <2>1, <2>2, <3>2, <3>3, CountedStays
  <2>4. CASE id = to
    <3> DEFINE B == stakersBelow(to)
               Z == zombiesBelow(to)
               C == stakersBelow(to)'
               Y == zombiesBelow(to)'
    <3>1. ~meets(parents, from, to) /\ meets(parents, to, to)
      BY <1>1, <1>6, MeetsOlder, MeetsSelf
    <3>2. a \notin B /\ C = B \cup {a}
      BY <1>3, <1>5, <3>1, SMT DEF stakersBelow, descends, isStaked
    <3>3. /\ assertions[to].numStakers = Cardinality(B) + Cardinality(Z)
          /\ B \subseteq assertionStakers[to]
          /\ \A i \in Z : zombies[i].stakerAddress \in assertionStakers[to]
      BY <2>1, <2>4 DEF CountedAt
    <3>4. Y = Z
      BY <2>2, <2>4
    <3>5. IsFiniteSet(B) /\ Cardinality(B) \in Nat /\ Cardinality(Z) \in Nat
      BY BelowFinite
    <3> HIDE DEF B, Z, C, Y
    <3>6. Cardinality(C) = Cardinality(B) + 1
      BY <3>2, <3>5, FS_AddElement
    <3>7. assertions'[to].numStakers = Cardinality(C) + Cardinality(Y)
      BY <1>4, <3>3, <3>4, <3>5, <3>6, SMT
    <3>8. assertionStakers[to] \subseteq assertionStakers'[to] /\ a \in assertionStakers'[to]
      BY <1>4
    <3>9. C \subseteq assertionStakers'[to]
      BY <3>2, <3>3, <3>8
    <3>10. \A i \in Y : zombies'[i].stakerAddress \in assertionStakers'[to]
      BY <1>1, <3>3, <3>4, <3>8
    <3> QED BY <2>4, <3>7, <3>9, <3>10 DEF C, Y, CountedAt
  <2> QED BY <2>3, <2>4
<1>9. firstUnresolved' = firstUnresolved
  BY <1>1 DEF firstUnresolved
<1> QED BY <1>1, <1>7, <1>8, <1>9 DEF CountInv

\* The number after the last one is new, and the only one that is.
LEMMA NextNumber ==
    ASSUME NEW S \in SUBSET Nat, NEW last \in Nat
    PROVE  /\ \A i \in S : i <= last => i # last + 1
           /\ \A i \in S : i <= last => i < last + 1 /\ i <= last + 1
           /\ \A i \in S : i <= last + 1 => i <= last \/ i = last + 1
  BY SMT

\* What is unresolved with a new assertion was unresolved, or is that assertion.
LEMMA NextUnresolved ==
    ASSUME NEW first \in Nat, NEW last \in Nat, NEW id \in first..(last + 1)
    PROVE  id \in first..last \/ id = last + 1
  BY SMT

\* completeChallenge adds the loser behind the zombies there are.
LEMMA LastZombie ==
    ASSUME NEW S, NEW s \in Seq(S), NEW z
    PROVE  /\ Len(s) + 1 \notin DOMAIN s /\ DOMAIN Append(s, z) = DOMAIN s \cup {Len(s) + 1}
           /\ Append(s, z)[Len(s) + 1] = z /\ \A i \in DOMAIN s : Append(s, z)[i] = s[i]
  BY SMT

\* createAssertion moves the proposer's stake to the new assertion, which counts it
\* alone; every other assertion counts whom it counted.
LEMMA ProposeCount ==
    ASSUME TypeOK, TypeOK', Ordered, CountInv, NEW a \in Address, NEW h \in Hash, NEW n \in BlockNum,
           CreateAssertion(a, h, n) \/ CreateSibling(a, h, n)
    PROVE  CountInv'
<1> DEFINE new == lastCreatedAssertionID + 1
           from == stakers[a].assertionID
<1>1. /\ new \in AssertionID /\ RecordProposal(a, h) /\ canPropose(a, n)
      /\ assertions'[new] = newAssertion(h, n, from)
      /\ \A i \in AssertionID \ {new} : /\ SameProposal(assertions'[i], assertions[i])
                                       /\ assertions'[i].numStakers = assertions[i].numStakers
  BY ProposeEffect
<1>2. /\ UNCHANGED <<lastResolvedAssertionID, zombies>>
      /\ lastCreatedAssertionID' = new /\ stakers[a].isStaked
      /\ stakers' = [stakers EXCEPT ![a].assertionID = new]
      /\ assertionStakers' = [assertionStakers EXCEPT ![new] = @ \cup {a}]
  BY <1>1 DEF RecordProposal, disputes, canPropose, isStaked
<1>3. assertions'[new].parent = from /\ assertions'[new].numStakers = 1
  <2>1. newAssertion(h, n, from).parent = from /\ newAssertion(h, n, from).numStakers = 1
    BY DEF newAssertion
  <2> QED BY <1>1, <2>1
<1>4. /\ \A b \in Address \ {a} : stakers'[b] = stakers[b]
      /\ stakers'[a].assertionID = new /\ stakers'[a].isStaked
  BY <1>1, <1>2, MoveEffect
<1>5. /\ AssertionID \subseteq Nat /\ parents \in [AssertionID -> AssertionID]
      /\ lastCreatedAssertionID \in AssertionID /\ from \in AssertionID
      /\ lastCreatedAssertionID \in Nat /\ lastResolvedAssertionID \in Nat
      /\ lastResolvedAssertionID <= lastCreatedAssertionID
      /\ \A b \in Address : stakers[b].assertionID \in AssertionID
      /\ \A i \in DOMAIN zombies : zombies[i].lastAssertionID \in AssertionID
  BY IDsPlaced
<1>6. /\ \A i \in AssertionID : i <= lastCreatedAssertionID => i # new
      /\ \A i \in AssertionID : i <= lastCreatedAssertionID => i < new /\ i <= new
      /\ \A i \in AssertionID : i <= new => i <= lastCreatedAssertionID \/ i = new
  BY <1>5, NextNumber
<1>7. /\ \A i \in AssertionID : i <= lastCreatedAssertionID =>
             assertions[i].parent <= lastCreatedAssertionID
      /\ \A b \in Address : stakers[b].assertionID <= lastCreatedAssertionID
      /\ \A i \in DOMAIN zombies : zombies[i].lastAssertionID <= lastCreatedAssertionID
  BY DEF CountInv, Known
<1>8. /\ parents' \in [AssertionID -> AssertionID] /\ parents'[new] = from
      /\ \A i \in AssertionID : i <= lastCreatedAssertionID =>
             parents[i] = parents'[i] /\ parents[i] <= lastCreatedAssertionID
  <2>1. parents' = [i \in AssertionID |-> assertions'[i].parent]
    BY DEF parents
  <2>2. \A i \in AssertionID : assertions'[i].parent \in AssertionID
    BY DEF TypeOK, Assertion
  <2>3. \A i \in AssertionID : i <= lastCreatedAssertionID => assertions'[i].parent = assertions[i].parent
    BY <1>1, <1>6 DEF SameProposal
  <2> QED BY <1>1, <1>3, <1>7, <2>1, <2>2, <2>3 DEF parents
<1> HIDE DEF new, from
<1>9. Known'
  <2>1. \A i \in AssertionID : i <= new => assertions'[i].parent <= new
    <3> SUFFICES ASSUME NEW i \in AssertionID, i <= new PROVE assertions'[i].parent <= new
      OBVIOUS
    <3>1. CASE i = new
      BY <1>3, <1>5, <1>6, <1>7, <3>1 DEF from
    <3>2. CASE i <= lastCreatedAssertionID
      <4>1. assertions'[i].parent = assertions[i].parent
        BY <1>1, <1>6, <3>2 DEF SameProposal
      <4>2. assertions[i].parent <= lastCreatedAssertionID /\ assertions[i].parent \in AssertionID
        BY <1>7, <3>2 DEF TypeOK, Assertion
      <4> QED BY <1>6, <4>1, <4>2
    <3> QED BY <1>6, <3>1, <3>2
  <2>2. \A b \in Address : stakers'[b].assertionID <= new
    <3>1. \A b \in Address : stakers[b].assertionID <= new
      BY <1>5, <1>6, <1>7
    <3>2. new <= new
      BY <1>1, <1>5, SMT
    <3> QED BY <1>4, <3>1, <3>2
  <2>3. \A i \in DOMAIN zombies : zombies[i].lastAssertionID <= new
    BY <1>5, <1>6, <1>7
  <2> QED BY <1>2, <2>1, <2>2, <2>3 DEF Known
<1>10. \A pos \in AssertionID, id \in AssertionID : pos <= lastCreatedAssertionID =>
          (meets(parents', pos, id) <=> meets(parents, pos, id))
  BY <1>5, <1>8, MeetsBelow
<1>11. ASSUME NEW id \in firstUnresolved..lastCreatedAssertionID PROVE CountedAt(id)'
  <2>1. id \in AssertionID /\ CountedAt(id) /\ id # new /\ new > id
    <3>1. id \in AssertionID /\ CountedAt(id) /\ id <= lastCreatedAssertionID
      BY <1>11, IDsPlaced DEF CountInv
    <3>2. id \in Nat /\ new \in Nat
      BY <1>1, <1>5, <3>1
    <3> QED BY <1>6, <3>1, <3>2
  <2>2. meets(parents', new, id) <=> meets(parents, from, id)
    <3>1. meets(parents', new, id) <=> meets(parents', from, id)
      BY <1>1, <1>8, <2>1, MeetsParent
    <3> QED BY <1>5, <1>7, <1>10, <2>1, <3>1 DEF from
  <2>3. stakersBelow(id)' = stakersBelow(id)
    <3>1. \A b \in Address \ {a} : meets(parents', stakers'[b].assertionID, id)
                                     <=> meets(parents, stakers[b].assertionID, id)
      BY <1>4, <1>5, <1>7, <1>10, <2>1
    <3>2. meets(parents', stakers'[a].assertionID, id) <=> meets(parents, stakers[a].assertionID, id)
      BY <1>4, <2>2 DEF from
    <3>3. \A b \in Address : stakers'[b].isStaked <=> stakers[b].isStaked
      BY <1>2, <1>4
    <3> QED BY <3>1, <3>2, <3>3, SameStakers
  <2>4. zombiesBelow(id)' = zombiesBelow(id)
    BY <1>2, <1>5, <1>7, <1>10, <2>1, SameZombies
  <2>5. assertions'[id].numStakers = assertions[id].numStakers /\ assertionStakers'[id] = assertionStakers[id]
    BY <1>1, <1>2, <2>1 DEF TypeOK
  <2> QED BY <1>2, <2>1, <2>3, <2>4, <2>5, CountedStays
<1>12. ASSUME NEW k \in AssertionID, k = new PROVE CountedAt(k)'
  <2>1. \A pos \in AssertionID : pos <= lastCreatedAssertionID => ~meets(parents', pos, k)
    BY <1>6, <1>12, MeetsOlder
  <2>2. meets(parents', k, k)
    BY MeetsSelf
  <2>3. stakersBelow(k)' = {a}
    BY <1>4, <1>5, <1>7, <1>12, <2>1, <2>2 DEF stakersBelow, descends, isStaked
  <2>4. zombiesBelow(k)' = {}
    BY <1>2, <1>5, <1>7, <2>1 DEF zombiesBelow, descends
  <2>5. Cardinality({a}) = 1 /\ Cardinality({}) = 0
    BY FS_Singleton, FS_EmptySet
  <2>6. a \in assertionStakers'[k]
    BY <1>2, <1>12 DEF TypeOK
  <2>7. assertions'[k].numStakers = Cardinality(stakersBelow(k)') + Cardinality(zombiesBelow(k)')
    <3>1. 1 = 1 + 0
      BY SMT
    <3> QED BY <1>3, <1>12, <2>3, <2>4, <2>5, <3>1
  <2> QED BY <2>3, <2>4, <2>6, <2>7 DEF CountedAt
<1>13. firstUnresolved' = firstUnresolved /\ firstUnresolved \in Nat
  BY <1>2, <1>5, SMT DEF firstUnresolved
<1>14. \A id \in firstUnresolved..new :
          id \in firstUnresolved..lastCreatedAssertionID \/ (id \in AssertionID /\ id = new)
  <2> TAKE id \in firstUnresolved..new
  <2>1. id \in firstUnresolved..lastCreatedAssertionID \/ id = lastCreatedAssertionID + 1
    BY <1>5, <1>13, NextUnresolved DEF new
  <2> QED BY <1>1, <2>1 DEF new
<1> QED BY <1>2, <1>9, <1>11, <1>12, <1>13, <1>14 DEF CountInv

\* A confirmation or a rejection resolves one assertion; those left count the same
\* stakes, since only the path above an assertion decides who is below it.
LEMMA ResolveCount ==
    ASSUME TypeOK, TypeOK', Ordered, CountInv, Resolve
    PROVE  CountInv'
<1>1. /\ lastResolvedAssertionID < lastCreatedAssertionID
      /\ lastResolvedAssertionID' = lastResolvedAssertionID + 1
      /\ UNCHANGED <<lastCreatedAssertionID, assertionStakers, stakers, zombies>>
      /\ \/ assertions' = assertions
         \/ assertions' = [assertions EXCEPT ![lastResolvedAssertionID + 1] = NoAssertion]
  BY DEF Resolve, ConfirmFirstUnresolvedAssertion, RejectFirstUnresolvedAssertion, disputes, stakes,
         firstUnresolvedIsConfirmable, firstUnresolvedIsRejectable, hasUnresolved, firstUnresolved
<1>2. /\ AssertionID \subseteq Nat /\ lastResolvedAssertionID \in Nat
      /\ lastCreatedAssertionID \in AssertionID
  BY IDsPlaced
<1>3. /\ \A i \in AssertionID : i # lastResolvedAssertionID + 1 => assertions'[i] = assertions[i]
      /\ \/ assertions'[lastResolvedAssertionID + 1] = assertions[lastResolvedAssertionID + 1]
         \/ assertions'[lastResolvedAssertionID + 1] = NoAssertion
  <2>1. lastResolvedAssertionID + 1 \in AssertionID
    BY <1>1, <1>2, BoundsAssumption, SMT DEF AssertionID
  <2> QED BY <1>1, <2>1 DEF TypeOK
<1>4. Known'
  <2>1. \A i \in AssertionID : i <= lastCreatedAssertionID =>
            assertions'[i].parent <= lastCreatedAssertionID
    <3>1. NoAssertion.parent = 0 /\ 0 <= lastCreatedAssertionID
      BY <1>2, SMT DEF NoAssertion
    <3> QED BY <1>3, <3>1 DEF CountInv, Known
  <2> QED BY <1>1, <2>1 DEF CountInv, Known
<1>5. ASSUME NEW id \in firstUnresolved'..lastCreatedAssertionID PROVE CountedAt(id)'
  <2>1. /\ id \in AssertionID /\ id > lastResolvedAssertionID + 1
        /\ id \in firstUnresolved..lastCreatedAssertionID
    BY <1>1, <1>2, <1>5, BoundsAssumption, SMT DEF firstUnresolved, AssertionID
  <2>2. \A i \in AssertionID : i > id => parents'[i] = parents[i]
    <3>1. \A i \in AssertionID : i > id => i # lastResolvedAssertionID + 1
      BY <1>2, <2>1, SMT
    <3> QED BY <1>3, <3>1 DEF parents
  <2>3. \A pos : meets(parents', pos, id) <=> meets(parents, pos, id)
    BY <2>2, MeetsAbove
  <2>4. stakersBelow(id)' = stakersBelow(id) /\ zombiesBelow(id)' = zombiesBelow(id)
    BY <1>1, <2>3, SameStakers, SameZombies
  <2>5. assertions'[id] = assertions[id] /\ CountedAt(id)
    BY <1>2, <1>3, <2>1, SMT DEF CountInv
  <2> QED BY <1>1, <2>4, <2>5, CountedStays
<1> QED BY <1>1, <1>4, <1>5 DEF CountInv

\* completeChallenge moves the loser from the stakers below an assertion to the
\* zombies below it.
LEMMA CompleteCount ==
    ASSUME TypeInv, TypeOK', Ordered, CountInv, NEW c \in DOMAIN challenges, NEW w \in Address,
           NEW l \in Address, CompleteChallenge(c, w, l)
    PROVE  CountInv'
<1> DEFINE pos == stakers[l].assertionID
           last == Len(zombies) + 1
           z == [stakerAddress |-> l, lastAssertionID |-> pos]
<1>0. TypeOK /\ ChallengeBook
  BY DEF TypeInv
<1>1. /\ UNCHANGED <<lastResolvedAssertionID, lastCreatedAssertionID, assertions, assertionStakers>>
      /\ zombies' = Append(zombies, z) /\ stakers[l].currentChallenge = c
  BY DEF CompleteChallenge, chain, ids
<1>2. stakers[l].isStaked
  <2>1. c # 0
    BY <1>0, SMT DEF TypeOK
  <2> QED BY <1>0, <1>1, <2>1 DEF ChallengeBook, isStaked
<1>3. /\ ~stakers'[l].isStaked /\ stakers'[l].assertionID = 0
      /\ \A b \in Address \ {l} : /\ stakers'[b].isStaked = stakers[b].isStaked
                                  /\ stakers'[b].assertionID = stakers[b].assertionID
  <2> DEFINE L == stakers[l].amountStaked
             W == stakers[w].amountStaked
             won == (IF L > W THEN W ELSE L) \div 2
  <2>1. won \in Nat
    <3>1. L \in Nat /\ W \in Nat
      BY <1>0 DEF TypeOK, Staker
    <3> HIDE DEF L, W
    <3> QED BY <3>1, SMT
  <2>2. stakers' = [stakers EXCEPT ![w].amountStaked = @ + won,
                                   ![w].currentChallenge = 0, ![l] = NoStaker]
    BY DEF CompleteChallenge, settledStakers
  <2> HIDE DEF won
  <2>3. /\ \A b \in Address \ {w, l} : stakers'[b] = stakers[b]
        /\ stakers'[l] = NoStaker
        /\ w # l => /\ stakers'[w].isStaked = stakers[w].isStaked
                    /\ stakers'[w].assertionID = stakers[w].assertionID
    <3>1. TypeOK
      BY <1>0
    <3>2. Settled(w, l, won)
      BY <3>1, <2>1, <2>2, CompleteEffect
    <3> QED BY <3>2 DEF Settled
  <2>4. NoStaker.isStaked = FALSE /\ NoStaker.assertionID = 0
    BY DEF NoStaker
  <2> QED BY <2>3, <2>4
<1>4. parents' = parents
  BY <1>1 DEF parents
<1>5. /\ last \notin DOMAIN zombies /\ DOMAIN zombies' = DOMAIN zombies \cup {last}
      /\ zombies'[last] = z /\ \A i \in DOMAIN zombies : zombies'[i] = zombies[i]
  <2>1. zombies \in Seq(Zombie) /\ Len(zombies) \in Nat
    BY <1>0, SMT DEF TypeOK
  <2> HIDE DEF z
  <2>2. /\ Len(zombies) + 1 \notin DOMAIN zombies
        /\ DOMAIN Append(zombies, z) = DOMAIN zombies \cup {Len(zombies) + 1}
        /\ Append(zombies, z)[Len(zombies) + 1] = z
        /\ \A i \in DOMAIN zombies : Append(zombies, z)[i] = zombies[i]
    BY <2>1, LastZombie
  <2> QED BY <1>1, <2>2
<1>6. z.stakerAddress = l /\ z.lastAssertionID = pos
  OBVIOUS
<1> HIDE DEF z, last
<1>7. Known'
  <2>1. /\ \A b \in Address : stakers[b].assertionID <= lastCreatedAssertionID
        /\ \A i \in DOMAIN zombies : zombies[i].lastAssertionID <= lastCreatedAssertionID
        /\ \A n \in AssertionID :
              n <= lastCreatedAssertionID => assertions[n].parent <= lastCreatedAssertionID
    BY DEF CountInv, Known
  <2>2. 0 <= lastCreatedAssertionID
    BY <1>0, BoundsAssumption, SMT DEF TypeOK, AssertionID
  <2>3. \A b \in Address : stakers'[b].assertionID <= lastCreatedAssertionID
    BY <1>3, <2>1, <2>2
  <2>4. \A i \in DOMAIN zombies' : zombies'[i].lastAssertionID <= lastCreatedAssertionID
    BY <1>5, <1>6, <2>1
  <2> QED BY <1>1, <2>1, <2>3, <2>4 DEF Known
<1>8. ASSUME NEW id \in firstUnresolved..lastCreatedAssertionID PROVE CountedAt(id)'
  <2> DEFINE B == stakersBelow(id)
             Z == zombiesBelow(id)
             C == stakersBelow(id)'
             Y == zombiesBelow(id)'
  <2>1. /\ assertions[id].numStakers = Cardinality(B) + Cardinality(Z)
        /\ B \subseteq assertionStakers[id]
        /\ \A i \in Z : zombies[i].stakerAddress \in assertionStakers[id]
    BY <1>8 DEF CountInv, CountedAt
  <2>2. /\ IsFiniteSet(B) /\ Cardinality(B) \in Nat
        /\ IsFiniteSet(Z) /\ Cardinality(Z) \in Nat
    BY <1>0, BelowFinite
  <2>3. C = B \ {l}
    BY <1>3, <1>4 DEF stakersBelow, descends, isStaked
  <2>4. Z \subseteq DOMAIN zombies
    BY DEF zombiesBelow
  <2>5. (l \in B) <=> meets(parents, pos, id)
    BY <1>2 DEF stakersBelow, descends, isStaked
  <2>6. Y = IF meets(parents, pos, id) THEN Z \cup {last} ELSE Z
    BY <1>4, <1>5, <1>6 DEF zombiesBelow, descends
  <2> HIDE DEF B, Z, C, Y
  <2>7. assertions'[id].numStakers = Cardinality(C) + Cardinality(Y)
    <3>1. CASE l \in B
      <4>1. Cardinality(C) = Cardinality(B) - 1
        BY <2>2, <2>3, <3>1, FS_RemoveElement
      <4>2. last \notin Z
        BY <1>5, <2>4
      <4>3. Cardinality(Y) = Cardinality(Z) + 1
        BY <2>2, <2>5, <2>6, <3>1, <4>2, FS_AddElement
      <4> QED BY <1>1, <2>1, <2>2, <4>1, <4>3, SMT
    <3>2. CASE l \notin B
      <4>1. C = B /\ Y = Z
        BY <2>3, <2>5, <2>6, <3>2
      <4> QED BY <1>1, <2>1, <4>1
    <3> QED BY <3>1, <3>2
  <2>8. C \subseteq assertionStakers'[id]
    BY <1>1, <2>1, <2>3
  <2>9. \A i \in Y : zombies'[i].stakerAddress \in assertionStakers'[id]
    BY <1>1, <1>5, <1>6, <2>1, <2>4, <2>5, <2>6
  <2> QED BY <2>7, <2>8, <2>9 DEF C, Y, CountedAt
<1>9. firstUnresolved' = firstUnresolved
  BY <1>1 DEF firstUnresolved
<1> QED BY <1>1, <1>7, <1>8, <1>9 DEF CountInv

\* A stake is placed on, and removed from, a resolved assertion.
LEMMA ManageStakeCount ==
    ASSUME TypeOK, TypeOK', Ordered, CountInv, ManageStake
    PROVE  CountInv'
<1>0. /\ \A a \in Address : stakers[a].assertionID <= lastCreatedAssertionID
      /\ \A n \in AssertionID : assertionStakers[n] \subseteq assertionStakers[n]
      /\ lastConfirmedAssertionID <= lastResolvedAssertionID
      /\ lastConfirmedAssertionID <= lastCreatedAssertionID /\ 0 <= lastCreatedAssertionID
      /\ lastConfirmedAssertionID \in AssertionID
      /\ AssertionID \subseteq Nat
      /\ lastConfirmedAssertionID \in Nat /\ lastResolvedAssertionID \in Nat
  <2>1. \A a \in Address : stakers[a].assertionID <= lastCreatedAssertionID
    BY DEF CountInv, Known
  <2>2. /\ lastConfirmedAssertionID <= lastResolvedAssertionID
        /\ lastResolvedAssertionID <= lastCreatedAssertionID
        /\ lastConfirmedAssertionID \in Nat /\ lastResolvedAssertionID \in Nat
        /\ lastCreatedAssertionID \in Nat
        /\ lastConfirmedAssertionID \in AssertionID /\ AssertionID \subseteq Nat
    BY IDsPlaced
  <2> QED BY <2>1, <2>2, SMT
<1>1. ASSUME NEW a \in Address, NEW n \in Amount, Stake(a, n) PROVE CountInv'
  <2>1. UNCHANGED <<ids, zombies>>
    BY <1>1 DEF Stake, disputes
  <2>2. /\ \A b \in Address \ {a} : stakers'[b] = stakers[b]
        /\ stakers[a].isStaked => /\ stakers'[a].isStaked
                                  /\ stakers'[a].assertionID = stakers[a].assertionID
        /\ ~stakers[a].isStaked => stakers'[a].assertionID = lastConfirmedAssertionID
    BY <1>1, StakeEffect DEF isStaked
  <2>3. /\ \A i \in AssertionID : /\ assertions'[i].parent = assertions[i].parent
                                  /\ assertionStakers[i] \subseteq assertionStakers'[i]
        /\ \A i \in AssertionID : i # lastConfirmedAssertionID =>
              assertions'[i].numStakers = assertions[i].numStakers
    <3>1. \/ UNCHANGED <<assertions, assertionStakers>>
          \/ StakeOnAssertion(a, lastConfirmedAssertionID)
      BY <1>1 DEF Stake
    <3>2. CASE UNCHANGED <<assertions, assertionStakers>>
      BY <3>2
    <3>3. CASE StakeOnAssertion(a, lastConfirmedAssertionID)
      BY <1>0, <3>3, StakeOnEffect DEF SameProposal
    <3> QED BY <3>1, <3>2, <3>3
  <2>4. \A i \in AssertionID : i > lastResolvedAssertionID => i # lastConfirmedAssertionID
    BY <1>0, SMT
  <2>5. \A b \in Address :
            /\ stakers'[b].assertionID <= lastCreatedAssertionID
            /\ \/ /\ stakers'[b].isStaked = stakers[b].isStaked
                  /\ stakers'[b].assertionID = stakers[b].assertionID
               \/ Uncounted(stakers[b]) /\ Uncounted(stakers'[b])
    <3>1. stakers[a].isStaked \in BOOLEAN /\ stakers'[a].isStaked \in BOOLEAN
      BY DEF TypeOK, Staker
    <3>2. CASE stakers[a].isStaked
      BY <1>0, <2>2, <3>1, <3>2
    <3>3. CASE ~stakers[a].isStaked
      <4>1. Uncounted(stakers[a]) /\ Uncounted(stakers'[a])
        BY <1>0, <2>2, <3>3 DEF Uncounted
      <4> QED BY <1>0, <2>2, <3>3, <4>1
    <3> QED BY <3>2, <3>3
  <2> QED BY <2>1, <2>3, <2>4, <2>5, QuietCount
<1>2. ASSUME NEW a \in Address, NEW n \in Amount, Unstake(a, n) PROVE CountInv'
  <2>1. UNCHANGED <<ids, zombies, assertions, assertionStakers>>
    BY <1>2 DEF Unstake, disputes, chain
  <2>2. \A b \in Address : /\ stakers'[b].isStaked = stakers[b].isStaked
                            /\ stakers'[b].assertionID = stakers[b].assertionID
    BY <1>2, UnstakeEffect
  <2> QED BY <1>0, <2>1, <2>2, QuietCount
<1>3. ASSUME NEW s \in Address, NEW a \in Address, RemoveStake(s, a) PROVE CountInv'
  <2>1. /\ UNCHANGED <<ids, zombies, assertions, assertionStakers>>
        /\ stakers' = [stakers EXCEPT ![a] = NoStaker]
        /\ stakers[a].assertionID <= lastConfirmedAssertionID
    BY <1>3 DEF RemoveStake, disputes, chain, isConfirmedStaker
  <2>2. UNCHANGED <<ids, zombies, assertions, assertionStakers>>
    BY <2>1
  <2>3. /\ \A b \in Address \ {a} : stakers'[b] = stakers[b]
        /\ stakers'[a].isStaked = FALSE /\ stakers'[a].assertionID = 0
    BY <2>1 DEF TypeOK, NoStaker
  <2>4. Uncounted(stakers[a]) /\ Uncounted(stakers'[a])
    <3>1. stakers[a].assertionID \in Nat
      BY <1>0, IDsPlaced
    <3> QED BY <1>0, <2>1, <2>3, <3>1, SMT DEF Uncounted
  <2>5. \A b \in Address :
            /\ stakers'[b].assertionID <= lastCreatedAssertionID
            /\ \/ /\ stakers'[b].isStaked = stakers[b].isStaked
                  /\ stakers'[b].assertionID = stakers[b].assertionID
               \/ Uncounted(stakers[b]) /\ Uncounted(stakers'[b])
    BY <1>0, <2>3, <2>4
  <2> QED BY <1>0, <2>2, <2>5, QuietCount
<1>4. ASSUME NEW a \in Account, Withdraw(a) PROVE CountInv'
  <2>1. UNCHANGED <<ids, zombies, assertions, assertionStakers, stakers>>
    BY <1>4 DEF Withdraw, disputes, chain
  <2> QED BY <1>0, <2>1, QuietCount
<1> QED BY <1>1, <1>2, <1>3, <1>4, AdvanceCount DEF ManageStake

\* Every step of either specification keeps the counts.
LEMMA CountInvStep ==
    ASSUME SafeInv, SafeInv', CountInv, [AnyNext]_vars
    PROVE  CountInv'
<1>0. TypeInv /\ TypeOK /\ TypeOK' /\ Ordered
  BY DEF SafeInv, TypeInv, ChainInv
<1>1. ASSUME UNCHANGED <<chain, zombies>>,
             \A b \in Address : /\ stakers'[b].isStaked = stakers[b].isStaked
                                /\ stakers'[b].assertionID = stakers[b].assertionID
      PROVE  CountInv'
  <2>1. UNCHANGED <<ids, zombies>> /\ assertions' = assertions /\ assertionStakers' = assertionStakers
    BY <1>1 DEF chain
  <2>2. UNCHANGED <<ids, zombies>>
    BY <2>1
  <2>3. \A b \in Address : stakers'[b].assertionID <= lastCreatedAssertionID
    BY <1>1 DEF CountInv, Known
  <2> QED BY <1>0, <1>1, <2>1, <2>2, <2>3, QuietCount
<1>2. CASE MineBlock \/ UNCHANGED vars
  BY <1>1, <1>2 DEF MineBlock, vars, stakes, disputes
<1>3. CASE Administer
  <2>1. UNCHANGED <<chain, stakers, zombies>>
    BY <1>3 DEF Administer, Pause, Unpause, AddValidator, RemoveValidator, SetDAProvider,
                SetConfirmationPeriod, SetChallengePeriod, SetMinimumAssertionPeriod,
                SetBaseStakeAmount, ChangeConfig, stakes, disputes
  <2> QED BY <1>1, <2>1
<1>4. ASSUME NEW s \in Address, NEW d \in Address, NEW c \in Address,
             NEW i \in AssertionID, NEW j \in AssertionID, ChallengeAssertion(s, d, c, i, j)
      PROVE  CountInv'
  <2>1. OpenEffect(d, c)
    BY <1>0, <1>4, OpenChallenge
  <2> QED BY <1>1, <2>1 DEF OpenEffect
<1>5. CASE Propose \/ ProposeForks
  BY <1>0, <1>5, ProposeCount DEF Propose, ProposeForks
<1>6. CASE Resolve
  BY <1>0, <1>6, ResolveCount
<1>7. CASE ManageStake
  BY <1>0, <1>7, ManageStakeCount
<1>8. CASE \E c \in DOMAIN challenges, w, l \in Address : CompleteChallenge(c, w, l)
  BY <1>0, <1>8, CompleteCount
<1> QED BY <1>2, <1>3, <1>4, <1>5, <1>6, <1>7, <1>8 DEF AnyNext, Next, ForkNext, Step, Dispute

-----------------------------------------------------------------------------
(* Results *)

\* initialize leaves nothing owed and nothing unresolved.
LEMMA InitStakeInv == Init => StakeInv
<1> SUFFICES ASSUME Init PROVE StakeInv
  OBVIOUS
<1>1. TypeOK
  BY InitTypeOK
<1>2. Solvent
  <2>1. IsFiniteSet(Address) /\ IsFiniteSet(Account)
    BY <1>1, Amounts
  <2>2. \A a \in Address : amountsStaked[a] = 0
    BY DEF Init, amountsStaked, NoStaker
  <2>3. amountsStaked \in [Address -> Nat]
    BY <1>1, Amounts
  <2>4. withdrawableFunds \in [Account -> Nat] /\ \A a \in Account : withdrawableFunds[a] = 0
    BY DEF Init
  <2>5. Total(amountsStaked) = 0 /\ Total(withdrawableFunds) = 0
    BY <2>1, <2>2, <2>3, <2>4, NoneTotal
  <2> QED BY <2>5, SMT DEF Init, Solvent
<1>3. CountInv
  <2>0. InitialAssertionID \in Nat /\ 0 <= InitialAssertionID
    BY BoundsAssumption, SMT DEF AssertionID
  <2>1. Known
    <3>1. /\ lastCreatedAssertionID = InitialAssertionID /\ DOMAIN zombies = {}
          /\ \A a \in Address : stakers[a].assertionID = 0
          /\ \A n \in AssertionID : assertions[n].parent \in {InitialAssertionID, 0}
      <4>1. DOMAIN << >> = {}
        BY SMT
      <4> QED BY <4>1 DEF Init, NoAssertion, NoStaker
    <3>2. InitialAssertionID <= InitialAssertionID
      BY <2>0, SMT
    <3> QED BY <2>0, <3>1, <3>2 DEF Known
  <2>2. firstUnresolved..lastCreatedAssertionID = {}
    BY <2>0, SMT DEF Init, firstUnresolved
  <2> QED BY <2>1, <2>2 DEF CountInv
<1> QED BY <1>2, <1>3, InitSafeInv DEF StakeInv

LEMMA StakeInvStep == StakeInv /\ [AnyNext]_vars => StakeInv'
<1> SUFFICES ASSUME StakeInv, [AnyNext]_vars PROVE StakeInv'
  OBVIOUS
<1>1. SafeInv /\ SafeInv' /\ Solvent /\ CountInv
  BY SafeInvStep DEF StakeInv
<1>2. TypeOK /\ TypeOK'
  BY <1>1 DEF SafeInv, TypeInv
<1> QED BY <1>1, <1>2, SolventStep, CountInvStep DEF StakeInv

\* StakeInv holds throughout, as coded and with siblings.
LEMMA StakeInvHolds == (Spec => []StakeInv) /\ (ForkSpec => []StakeInv)
<1>1. StakeInv /\ [Next]_vars => StakeInv'
  BY StakeInvStep DEF AnyNext
<1>2. StakeInv /\ [ForkNext]_vars => StakeInv'
  BY StakeInvStep DEF AnyNext
<1> QED BY <1>1, <1>2, InitStakeInv, PTL DEF Spec, ForkSpec

\* The contract can always pay all that unstake, removeStake and withdraw may ask of
\* it, through refunds, lost challenges and removals.
THEOREM Solvency == (Spec => []Solvent) /\ (ForkSpec => []Solvent)
<1>1. StakeInv => Solvent
  BY DEF StakeInv
<1> QED BY <1>1, StakeInvHolds, PTL

\* The stake count of an unresolved assertion is the number of stakers at or below it
\* and of zombies that were: stake, advanceStake, createAssertion, removeStake and
\* completeChallenge count nobody twice and forget nobody.
THEOREM StakesCountedExactly == (Spec => []StakeCountExact) /\ (ForkSpec => []StakeCountExact)
<1>1. StakeInv => StakeCountExact
  BY DEF StakeInv, CountInv, CountedAt, StakeCountExact
<1> QED BY <1>1, StakeInvHolds, PTL

\* Only confirmFirstUnresolvedAssertion moves the last confirmed assertion.
LEMMA OnlyConfirm ==
    ASSUME [AnyNext]_vars, \A a \in Address : ~ConfirmFirstUnresolvedAssertion(a)
    PROVE  UNCHANGED lastConfirmedAssertionID
<1>1. CASE MineBlock \/ Administer
  BY <1>1 DEF MineBlock, Administer, Pause, Unpause, AddValidator, RemoveValidator, ChangeConfig,
              SetDAProvider, SetConfirmationPeriod, SetChallengePeriod, SetMinimumAssertionPeriod,
              SetBaseStakeAmount, chain, ids
<1>2. CASE ManageStake
  BY <1>2 DEF ManageStake, Stake, Unstake, RemoveStake, AdvanceStake, Withdraw, chain, ids
<1>3. CASE Resolve
  BY <1>3 DEF Resolve, RejectFirstUnresolvedAssertion
<1>4. CASE Dispute
  <2>1. ASSUME NEW s, NEW d, NEW c, NEW x, NEW y, ChallengeAssertion(s, d, c, x, y) PROVE UNCHANGED chain
    BY <2>1 DEF ChallengeAssertion
  <2>2. ASSUME NEW c, NEW w, NEW l, CompleteChallenge(c, w, l) PROVE UNCHANGED chain
    BY <2>2 DEF CompleteChallenge
  <2>3. UNCHANGED chain
    BY <1>4, <2>1, <2>2 DEF Dispute
  <2> QED BY <2>3 DEF chain, ids
<1>5. CASE Propose \/ ProposeForks
  BY <1>5 DEF Propose, ProposeForks, CreateAssertion, CreateSibling, RecordProposal
<1>6. CASE UNCHANGED vars
  BY <1>6 DEF vars, chain, ids
<1> QED BY <1>1, <1>2, <1>3, <1>4, <1>5, <1>6 DEF AnyNext, Next, ForkNext, Step

\* The comparison that confirmFirstUnresolvedAssertion makes is enough: every zombie
\* below the assertion is among the staked zombies it counts, so every staker is at or
\* below it.
LEMMA ConfirmedByAllStep == StakeInv /\ [AnyNext]_vars => ConfirmedByAllAction
<1> SUFFICES ASSUME StakeInv, [AnyNext]_vars, lastConfirmedAssertionID' # lastConfirmedAssertionID,
                    NEW a \in Address, isStaked(a)
             PROVE  descends(stakers[a].assertionID, lastConfirmedAssertionID')
  BY DEF ConfirmedByAllAction
<1>0. TypeInv /\ TypeOK /\ Ordered /\ CountInv
  BY DEF StakeInv, SafeInv, TypeInv, ChainInv
<1>1. PICK s \in Address : ConfirmFirstUnresolvedAssertion(s)
  BY OnlyConfirm
<1> DEFINE first == firstUnresolved
<1>2. /\ lastConfirmedAssertionID' = first /\ lastResolvedAssertionID < lastCreatedAssertionID
      /\ assertions[first].numStakers = countStakedZombies(first) + numStakers
  BY <1>1 DEF ConfirmFirstUnresolvedAssertion, firstUnresolvedIsConfirmable, hasUnresolved
<1>3. PICK id : id = first
  OBVIOUS
<1>4. CountedAt(id)
  <2>1. id \in firstUnresolved..lastCreatedAssertionID
    BY <1>0, <1>2, <1>3, BoundsAssumption, SMT DEF firstUnresolved, TypeOK, AssertionID
  <2> QED BY <1>0, <2>1 DEF CountInv
<1> DEFINE B == stakersBelow(id)
           Z == zombiesBelow(id)
           All == {b \in Address : isStaked(b)}
           Seen == {i \in DOMAIN zombies : zombies[i].stakerAddress \in assertionStakers[id]}
<1>5. B \subseteq All /\ Z \subseteq Seen
  BY <1>4 DEF CountedAt, stakersBelow, zombiesBelow
<1>6. Cardinality(B) + Cardinality(Z) = Cardinality(Seen) + Cardinality(All)
  BY <1>0, <1>2, <1>3, <1>4 DEF CountedAt, countStakedZombies, TypeInv, NumStakersExact
<1>7. IsFiniteSet(All) /\ IsFiniteSet(Seen)
  <2>1. DOMAIN zombies = 1..Len(zombies) /\ Len(zombies) \in Nat
    BY <1>0, SMT DEF TypeOK
  <2>2. IsFiniteSet(1..Len(zombies))
    BY <2>1, FS_Interval, SMT
  <2> QED BY <2>1, <2>2, FS_Subset, DataAssumption
<1> HIDE DEF B, Z, All, Seen
<1>8. /\ Cardinality(B) <= Cardinality(All) /\ Cardinality(Z) <= Cardinality(Seen)
      /\ Cardinality(B) = Cardinality(All) => B = All
      /\ Cardinality(B) \in Nat /\ Cardinality(Z) \in Nat
      /\ Cardinality(All) \in Nat /\ Cardinality(Seen) \in Nat
  BY <1>5, <1>7, FS_Subset, FS_CardinalityType
<1>9. Cardinality(B) = Cardinality(All)
  BY <1>6, <1>8, SMT
<1>10. a \in B
  BY <1>8, <1>9 DEF All
<1> QED BY <1>2, <1>3, <1>10 DEF B, stakersBelow

\* No assertion is confirmed over the head of a staker on another branch: condition
\* (4) of confirmFirstUnresolvedAssertion means what it says whatever zombies there are.
THEOREM ConfirmedByEveryone == (Spec => ConfirmedByAll) /\ (ForkSpec => ConfirmedByAll)
<1>1. StakeInv /\ [Next]_vars => ConfirmedByAllAction
  BY ConfirmedByAllStep DEF AnyNext
<1>2. StakeInv /\ [ForkNext]_vars => ConfirmedByAllAction
  BY ConfirmedByAllStep DEF AnyNext
<1> QED BY <1>1, <1>2, StakeInvHolds, PTL DEF Spec, ForkSpec, ConfirmedByAll
=============================================================================
