------------------------------- MODULE Rollup -------------------------------
(***************************************************************************)
(* The L1 contract contracts/src/Rollup.sol: staking, the assertion tree   *)
(* and its resolution, disputes and the administrator's configuration.     *)
(*                                                                         *)
(* One action is one external call that does not revert (a reverting call  *)
(* leaves no trace).  Ether leaves the contract only after the storage is  *)
(* updated, so a call that re-enters the contract is the same as one made  *)
(* right after.                                                            *)
(*                                                                         *)
(* X_why is a faulty variant of operator X: no specification uses it, it   *)
(* shows which property notices that fault in X.                           *)
(***************************************************************************)
EXTENDS Naturals, Sequences, FiniteSets, Totals

CONSTANTS
    Address,                  \* accounts that may hold the validator role
    Vault,                    \* receives half of a loser's stake
    Hash,                     \* VM hashes that may be asserted
    ZeroHash,                 \* bytes32(0), the hash of a deleted assertion
    BlockNum,                 \* L2 block numbers that may be asserted
    Amount,                   \* values paid in and amounts taken out
    DAProvider,               \* data availability contracts
    Period,                   \* values of the three periods
    InitialAssertionID, InitialBlockNum, InitialHash,
    InitialConfig, InitialValidators,
    MaxAssertionID,           \* bound on the assertions created
    MaxBlock,                 \* bound on the L1 block number
    MaxBalance,               \* bound on the Ether held
    MaxStakes,                \* bound on the stakes placed on one assertion
    MaxChallenges             \* bound on the challenges opened

VARIABLES
    blockNumber,              \* block.number
    paused,                   \* Pausable
    validators,               \* holders of VALIDATOR_ROLE
    config,                   \* the periods, the base stake, the DA provider
    lastResolvedAssertionID, lastConfirmedAssertionID, lastCreatedAssertionID,
    assertions,               \* assertion ID -> Assertion
    assertionStakers,         \* assertionState[ID].stakers as a set
    childStateHashes,         \* assertionState[ID].childStateHashes as a set
    numStakers, stakers, withdrawableFunds, zombies,
    balance,                  \* Ether held by the contract
    challenges,               \* challenge contracts; an address is an index
    confirmed,                \* history: assertions confirmed so far
    completed                 \* history: challenges paid out so far

ids == <<lastResolvedAssertionID, lastConfirmedAssertionID, lastCreatedAssertionID>>
chain == <<ids, assertions, assertionStakers, childStateHashes, confirmed>>
stakes == <<numStakers, stakers, withdrawableFunds, balance>>
disputes == <<zombies, challenges, completed>>
admin == <<paused, validators, config>>
vars == <<blockNumber, admin, chain, stakes, disputes>>

AssertionID == 0..MaxAssertionID
Account == Address \cup {Vault}

Assertion == [stateHash : Hash \cup {ZeroHash, InitialHash}, blockNum : Nat,
              parent : AssertionID, deadline : Nat, proposalTime : Nat,
              numStakers : Nat, childBlockNum : Nat]
Staker == [isStaked : BOOLEAN, amountStaked : Nat, assertionID : AssertionID,
           currentChallenge : 0..MaxChallenges]
Config == [confirmationPeriod : Nat, challengePeriod : Nat,
           minimumAssertionPeriod : Nat, baseStakeAmount : Nat,
           daProvider : DAProvider]
Challenge == [defender : Address, challenger : Address,
              startStateHash : Hash \cup {ZeroHash, InitialHash},
              endStateDefenderHash : Hash \cup {ZeroHash, InitialHash},
              endStateChallengerHash : Hash \cup {ZeroHash, InitialHash},
              challengePeriod : Nat]
Zombie == [stakerAddress : Address, lastAssertionID : AssertionID]

ASSUME BoundsAssumption ==
    /\ MaxAssertionID \in Nat /\ MaxBlock \in Nat /\ MaxBalance \in Nat
    /\ MaxStakes \in Nat /\ MaxChallenges \in Nat
    /\ InitialAssertionID \in AssertionID
ASSUME DataAssumption ==
    /\ IsFiniteSet(Address) /\ Vault \notin Address
    /\ BlockNum \subseteq Nat /\ Amount \subseteq Nat /\ Period \subseteq Nat
    /\ InitialBlockNum \in Nat /\ InitialConfig \in Config
    /\ InitialValidators \subseteq Address

NoAssertion == [stateHash |-> ZeroHash, blockNum |-> 0, parent |-> 0, deadline |-> 0,
                proposalTime |-> 0, numStakers |-> 0, childBlockNum |-> 0]
NoStaker == [isStaked |-> FALSE, amountStaked |-> 0, assertionID |-> 0,
             currentChallenge |-> 0]

(***************************************************************************)
(* initialize: the first assertion is its own parent, resolved and         *)
(* confirmed from the start, and nobody is staked.                         *)
(***************************************************************************)
Init ==
    /\ blockNumber = 1
    /\ paused = FALSE
    /\ validators = InitialValidators
    /\ config = InitialConfig
    /\ lastResolvedAssertionID = InitialAssertionID
    /\ lastConfirmedAssertionID = InitialAssertionID
    /\ lastCreatedAssertionID = InitialAssertionID
    /\ assertions = [id \in AssertionID |->
          IF id = InitialAssertionID
          THEN [stateHash |-> InitialHash, blockNum |-> InitialBlockNum,
                parent |-> InitialAssertionID, deadline |-> blockNumber,
                proposalTime |-> blockNumber, numStakers |-> 0, childBlockNum |-> 0]
          ELSE NoAssertion]
    /\ assertionStakers = [id \in AssertionID |-> {}]
    /\ childStateHashes = [id \in AssertionID |->
          IF id = InitialAssertionID THEN {InitialHash} ELSE {}]
    /\ numStakers = 0
    /\ stakers = [a \in Address |-> NoStaker]
    /\ withdrawableFunds = [a \in Account |-> 0]
    /\ zombies = <<>>
    /\ balance = 0
    /\ challenges = <<>>
    /\ confirmed = {InitialAssertionID}
    /\ completed = {}

-----------------------------------------------------------------------------
(* Helpers *)

isStaked(a) == stakers[a].isStaked
isUnchallengedStaker(a) == isStaked(a) /\ stakers[a].currentChallenge = 0
isConfirmedStaker_anyPosition(a) == isStaked(a)
isConfirmedStaker(a) == isStaked(a) /\ stakers[a].assertionID <= lastConfirmedAssertionID
hasUnresolved == lastResolvedAssertionID < lastCreatedAssertionID
firstUnresolved == lastResolvedAssertionID + 1
confirmedBlockNum == assertions[lastConfirmedAssertionID].blockNum

\* L1Portal's test of an assertion a withdrawal is proved against.
isAssertionConfirmed_deletedToo(id) == id <= lastConfirmedAssertionID
isAssertionConfirmed(id) ==
    id <= lastConfirmedAssertionID /\ assertions[id].stateHash # ZeroHash

countStakedZombies(id) ==
    Cardinality({i \in DOMAIN zombies : zombies[i].stakerAddress \in assertionStakers[id]})

\* Ether paid out by the last call of a handler.
Pays(amount) == balance >= amount /\ balance' = balance - amount

\* stakeOnAssertion for an assertion that exists already.
StakeOnAssertion(a, id) ==
    /\ assertions[id].numStakers < MaxStakes
    /\ assertions' = [assertions EXCEPT ![id].numStakers = @ + 1]
    /\ assertionStakers' = [assertionStakers EXCEPT ![id] = @ \cup {a}]

firstUnresolvedIsConfirmable_noZombies ==
    /\ hasUnresolved
    /\ numStakers > 0
    /\ blockNumber >= assertions[firstUnresolved].deadline
    /\ assertions[firstUnresolved].parent = lastConfirmedAssertionID
    /\ assertions[firstUnresolved].numStakers = numStakers
firstUnresolvedIsConfirmable ==
    /\ hasUnresolved
    /\ numStakers > 0
    /\ blockNumber >= assertions[firstUnresolved].deadline
    /\ assertions[firstUnresolved].parent = lastConfirmedAssertionID
    /\ assertions[firstUnresolved].numStakers
         = countStakedZombies(firstUnresolved) + numStakers

firstUnresolvedIsRejectable(a) ==
    /\ hasUnresolved
    /\ assertions[firstUnresolved].parent = lastConfirmedAssertionID =>
          /\ blockNumber >= assertions[firstUnresolved].deadline
          /\ isStaked(a)
          /\ stakers[a].assertionID >= firstUnresolved
          /\ a \notin assertionStakers[firstUnresolved]
          /\ assertions[firstUnresolved].numStakers = countStakedZombies(firstUnresolved)

-----------------------------------------------------------------------------
(* Staking *)

Stake(a, value) ==
    /\ a \in validators
    /\ balance + value <= MaxBalance
    /\ balance' = balance + value
    /\ \/ /\ isStaked(a)
          /\ stakers' = [stakers EXCEPT ![a].amountStaked = @ + value]
          /\ UNCHANGED <<numStakers, assertions, assertionStakers>>
       \/ /\ ~isStaked(a)
          /\ value >= config.baseStakeAmount
          /\ stakers' = [stakers EXCEPT ![a] =
                [isStaked |-> TRUE, amountStaked |-> value,
                 assertionID |-> lastConfirmedAssertionID, currentChallenge |-> 0]]
          /\ numStakers' = numStakers + 1
          /\ StakeOnAssertion(a, lastConfirmedAssertionID)
    /\ UNCHANGED <<blockNumber, admin, ids, childStateHashes, confirmed,
                   withdrawableFunds, disputes>>

\* The subtraction of the required stake is checked: it reverts below zero.
Unstake(a, amount) ==
    /\ isConfirmedStaker(a)
    /\ stakers[a].amountStaked >= config.baseStakeAmount
    /\ amount <= stakers[a].amountStaked - config.baseStakeAmount
    /\ stakers' = [stakers EXCEPT ![a].amountStaked = @ - amount]
    /\ Pays(amount)
    /\ UNCHANGED <<blockNumber, admin, chain, numStakers, withdrawableFunds, disputes>>

RemoveStake(sender, a) ==
    /\ sender \in validators
    /\ isConfirmedStaker(a)
    /\ numStakers' = numStakers - 1
    /\ stakers' = [stakers EXCEPT ![a] = NoStaker]
    /\ Pays(stakers[a].amountStaked)
    /\ UNCHANGED <<blockNumber, admin, chain, withdrawableFunds, disputes>>

AdvanceStake(a, id) ==
    /\ isStaked(a) /\ ~paused /\ a \in validators
    /\ stakers[a].assertionID < id /\ id <= lastCreatedAssertionID
    /\ assertions[id].parent = stakers[a].assertionID
    /\ stakers' = [stakers EXCEPT ![a].assertionID = id]
    /\ StakeOnAssertion(a, id)
    /\ UNCHANGED <<blockNumber, admin, ids, childStateHashes, confirmed,
                   numStakers, withdrawableFunds, balance, disputes>>

Withdraw_noReset(a) ==
    /\ Pays(withdrawableFunds[a])
    /\ UNCHANGED <<blockNumber, admin, chain, numStakers, stakers, withdrawableFunds, disputes>>
Withdraw(a) ==
    /\ withdrawableFunds' = [withdrawableFunds EXCEPT ![a] = 0]
    /\ Pays(withdrawableFunds[a])
    /\ UNCHANGED <<blockNumber, admin, chain, numStakers, stakers, disputes>>

-----------------------------------------------------------------------------
(* Assertions *)

\* The checks createAssertion makes itself.
canPropose(a, blockNum) ==
    /\ isStaked(a) /\ ~paused /\ a \in validators
    /\ LET parent == assertions[stakers[a].assertionID]
       IN  /\ blockNumber - parent.proposalTime >= config.minimumAssertionPeriod
           /\ blockNum > parent.blockNum
    /\ lastCreatedAssertionID < MaxAssertionID

\* createAssertionHelper's check of the number kept for a parent's children.
isNewChild_anyBlock(parentID, childNum, vmHash, blockNum) ==
    childNum # 0 => vmHash \notin childStateHashes[parentID]
isNewChild(parentID, childNum, vmHash, blockNum) ==
    childNum # 0 => blockNum = childNum /\ vmHash \notin childStateHashes[parentID]

newAssertion(vmHash, blockNum, parentID) ==
    [stateHash |-> vmHash, blockNum |-> blockNum, parent |-> parentID,
     deadline |-> blockNumber + config.confirmationPeriod, proposalTime |-> blockNumber,
     numStakers |-> 1, childBlockNum |-> 0]

\* The rest of createAssertion, its final stakeOnAssertion included.
RecordProposal(a, vmHash) ==
    LET id == lastCreatedAssertionID + 1
    IN  /\ lastCreatedAssertionID' = id
        /\ childStateHashes' = [childStateHashes EXCEPT ![stakers[a].assertionID] = @ \cup {vmHash}]
        /\ stakers' = [stakers EXCEPT ![a].assertionID = id]
        /\ assertionStakers' = [assertionStakers EXCEPT ![id] = @ \cup {a}]
        /\ UNCHANGED <<blockNumber, admin, lastResolvedAssertionID, lastConfirmedAssertionID,
                       confirmed, numStakers, withdrawableFunds, balance, disputes>>

CreateAssertion(a, vmHash, blockNum) ==
    LET parentID == stakers[a].assertionID
    IN  /\ canPropose(a, blockNum)
        /\ isNewChild(parentID, assertions[parentID].blockNum, vmHash, blockNum)
        /\ assertions' = [assertions EXCEPT
              ![parentID].blockNum = IF @ = 0 THEN blockNum ELSE @,
              ![lastCreatedAssertionID + 1] = newAssertion(vmHash, blockNum, parentID)]
        /\ RecordProposal(a, vmHash)

ConfirmFirstUnresolvedAssertion(sender) ==
    /\ sender \in validators
    /\ firstUnresolvedIsConfirmable
    /\ lastResolvedAssertionID' = firstUnresolved
    /\ lastConfirmedAssertionID' = firstUnresolved
    /\ confirmed' = confirmed \cup {firstUnresolved}
    /\ UNCHANGED <<blockNumber, admin, lastCreatedAssertionID, assertions, assertionStakers,
                   childStateHashes, stakes, disputes>>

RejectFirstUnresolvedAssertion(sender, a) ==
    /\ sender \in validators
    /\ firstUnresolvedIsRejectable(a)
    /\ lastResolvedAssertionID' = firstUnresolved
    /\ assertions' = [assertions EXCEPT ![firstUnresolved] = NoAssertion]
    /\ UNCHANGED <<blockNumber, admin, lastConfirmedAssertionID, lastCreatedAssertionID,
                   assertionStakers, childStateHashes, confirmed, stakes, disputes>>

-----------------------------------------------------------------------------
(* Disputes *)

areDisputable(defenderID, challengerID) ==
    /\ defenderID < challengerID
    /\ challengerID <= lastCreatedAssertionID
    /\ lastConfirmedAssertionID < defenderID
    /\ assertions[defenderID].parent = assertions[challengerID].parent

\* The players are not compared with the stakers of the two assertions, nor
\* with each other.
ChallengeAssertion(sender, defender, challenger, defenderID, challengerID) ==
    /\ sender \in validators
    /\ areDisputable(defenderID, challengerID)
    /\ isUnchallengedStaker(defender) /\ isUnchallengedStaker(challenger)
    /\ Len(challenges) < MaxChallenges
    /\ challenges' = Append(challenges,
          [defender |-> defender, challenger |-> challenger,
           startStateHash |-> assertions[assertions[defenderID].parent].stateHash,
           endStateDefenderHash |-> assertions[defenderID].stateHash,
           endStateChallengerHash |-> assertions[challengerID].stateHash,
           challengePeriod |-> config.challengePeriod])
    /\ stakers' = [stakers EXCEPT ![challenger].currentChallenge = Len(challenges) + 1,
                                  ![defender].currentChallenge = Len(challenges) + 1]
    /\ UNCHANGED <<blockNumber, admin, chain, numStakers, withdrawableFunds, balance,
                   zombies, completed>>

\* The stakers when a challenge is settled: the winner is free again, the
\* loser deleted (the winner too if it played against itself).
settledStakers(winner, loser, amountWon) ==
    [stakers EXCEPT ![winner].amountStaked = @ + amountWon,
                    ![winner].currentChallenge = 0,
                    ![loser] = NoStaker]

\* Called by challenge contract c, which names its own two players, in either
\* order and as often as it is made to (a challenge keeps no completed flag).
CompleteChallenge(c, winner, loser) ==
    LET loserStake == stakers[loser].amountStaked
        winnerStake == stakers[winner].amountStaked
        remaining == IF loserStake > winnerStake THEN winnerStake ELSE loserStake
        amountWon == remaining \div 2
    IN  /\ \/ winner = challenges[c].defender /\ loser = challenges[c].challenger
           \/ winner = challenges[c].challenger /\ loser = challenges[c].defender
        /\ stakers[winner].currentChallenge = c
        /\ stakers[loser].currentChallenge = c
        /\ stakers' = settledStakers(winner, loser, amountWon)
        /\ withdrawableFunds' = [withdrawableFunds EXCEPT
              ![loser] = @ + (loserStake - remaining),
              ![Vault] = @ + (remaining - amountWon)]
        /\ numStakers' = numStakers - 1
        /\ zombies' = Append(zombies, [stakerAddress |-> loser,
                                       lastAssertionID |-> stakers[loser].assertionID])
        /\ completed' = completed \cup {c}
        /\ UNCHANGED <<blockNumber, admin, chain, balance, challenges>>

-----------------------------------------------------------------------------
(* Administration, and the passing of L1 blocks *)

Pause == ~paused /\ paused' = TRUE /\ UNCHANGED <<blockNumber, validators, config, chain, stakes, disputes>>
Unpause == paused /\ paused' = FALSE /\ UNCHANGED <<blockNumber, validators, config, chain, stakes, disputes>>

AddValidator(a) ==
    /\ a \notin validators
    /\ validators' = validators \cup {a}
    /\ UNCHANGED <<blockNumber, paused, config, chain, stakes, disputes>>

\* removeValidator by the administrator and removeOwnValidatorRole by the holder.
RemoveValidator(a) ==
    /\ a \in validators
    /\ validators' = validators \ {a}
    /\ UNCHANGED <<blockNumber, paused, config, chain, stakes, disputes>>

ChangeConfig(newConfig) ==
    /\ ~hasUnresolved
    /\ config' = newConfig
    /\ UNCHANGED <<blockNumber, paused, validators, chain, stakes, disputes>>

SetDAProvider(p) == ChangeConfig([config EXCEPT !.daProvider = p])
SetConfirmationPeriod(n) == ChangeConfig([config EXCEPT !.confirmationPeriod = n])
SetChallengePeriod(n) == ChangeConfig([config EXCEPT !.challengePeriod = n])
SetMinimumAssertionPeriod(n) == ChangeConfig([config EXCEPT !.minimumAssertionPeriod = n])
SetBaseStakeAmount_upToo(n) == ChangeConfig([config EXCEPT !.baseStakeAmount = n])
SetBaseStakeAmount(n) ==
    n <= config.baseStakeAmount /\ ChangeConfig([config EXCEPT !.baseStakeAmount = n])

MineBlock ==
    /\ blockNumber < MaxBlock
    /\ blockNumber' = blockNumber + 1
    /\ UNCHANGED <<admin, chain, stakes, disputes>>

-----------------------------------------------------------------------------
Administer ==
    \/ Pause \/ Unpause
    \/ \E a \in Address : AddValidator(a) \/ RemoveValidator(a)
    \/ \E p \in DAProvider : SetDAProvider(p)
    \/ \E n \in Period : \/ SetConfirmationPeriod(n)
                         \/ SetChallengePeriod(n)
                         \/ SetMinimumAssertionPeriod(n)
    \/ \E n \in Amount : SetBaseStakeAmount(n)

ManageStake ==
    \/ \E a \in Address, n \in Amount : Stake(a, n) \/ Unstake(a, n)
    \/ \E a, b \in Address : RemoveStake(a, b)
    \/ \E a \in Address, id \in AssertionID : AdvanceStake(a, id)
    \/ \E a \in Account : Withdraw(a)

Resolve ==
    \E a, b \in Address :
        \/ ConfirmFirstUnresolvedAssertion(a)
        \/ RejectFirstUnresolvedAssertion(a, b)

Dispute ==
    \/ \E s, d, c \in Address, i, j \in AssertionID : ChallengeAssertion(s, d, c, i, j)
    \/ \E c \in DOMAIN challenges, w, l \in Address : CompleteChallenge(c, w, l)

\* Every step but administration and the creation of an assertion.
Step == MineBlock \/ ManageStake \/ Resolve \/ Dispute

Propose == \E a \in Address, h \in Hash, n \in BlockNum : CreateAssertion(a, h, n)

Next == Step \/ Administer \/ Propose

Spec == Init /\ [][Next]_vars

-----------------------------------------------------------------------------
(* Properties *)

\* Every variable has the type of its storage slot.
TypeOK ==
    /\ blockNumber \in Nat /\ paused \in BOOLEAN
    /\ validators \subseteq Address /\ config \in Config
    /\ lastResolvedAssertionID \in AssertionID
    /\ lastConfirmedAssertionID \in AssertionID
    /\ lastCreatedAssertionID \in AssertionID
    /\ assertions \in [AssertionID -> Assertion]
    /\ assertionStakers \in [AssertionID -> SUBSET Address]
    /\ childStateHashes \in [AssertionID -> SUBSET (Hash \cup {InitialHash})]
    /\ numStakers \in Nat /\ stakers \in [Address -> Staker]
    /\ withdrawableFunds \in [Account -> Nat] /\ balance \in Nat
    /\ zombies \in Seq(Zombie) /\ challenges \in Seq(Challenge)
    /\ confirmed \subseteq AssertionID /\ completed \subseteq Nat

\* The contract can pay what it owes: the stakes and the withdrawable funds
\* never exceed its Ether, through refunds, lost challenges and removals.
amountsStaked == [a \in Address |-> stakers[a].amountStaked]
Solvent == balance >= Total(amountsStaked) + Total(withdrawableFunds)

\* The stake of every staker covers the required stake whatever setBaseStakeAmount,
\* unstake and completeChallenge did since, so that unstake's checked subtraction
\* never underflows and a winner always has something to win.
StakeFloor ==
    \A a \in Address : isStaked(a) => stakers[a].amountStaked >= config.baseStakeAmount

\* numStakers, against which confirmation compares, counts the staked accounts.
NumStakersExact == numStakers = Cardinality({a \in Address : isStaked(a)})

\* The path of parents from id meets anc: every set that holds id and the parents of
\* its members above anc holds anc.
meets(parent, id, anc) ==
    \A S \in SUBSET AssertionID :
        id \in S /\ (\A n \in S : n > anc => parent[n] \in S) => anc \in S
parents == [n \in AssertionID |-> assertions[n].parent]
descends(id, anc) == meets(parents, id, anc)

\* The stake count of an unresolved assertion is the number of stakers at or
\* below it plus the number of zombies that were when they lost: nobody is
\* counted twice or forgotten by stake, advanceStake, removeStake and
\* completeChallenge.
stakersBelow(id) == {a \in Address : isStaked(a) /\ descends(stakers[a].assertionID, id)}
zombiesBelow(id) == {i \in DOMAIN zombies : descends(zombies[i].lastAssertionID, id)}
StakeCountExact ==
    \A id \in firstUnresolved..lastCreatedAssertionID :
        assertions[id].numStakers = Cardinality(stakersBelow(id)) + Cardinality(zombiesBelow(id))

\* An assertion is confirmed only when every staker is staked on it or on one
\* of its descendants, whatever zombies were counted (condition (4) of
\* confirmFirstUnresolvedAssertion).
ConfirmedByAllAction ==
    lastConfirmedAssertionID' # lastConfirmedAssertionID =>
        \A a \in Address : isStaked(a) => descends(stakers[a].assertionID, lastConfirmedAssertionID')
ConfirmedByAll == [][ConfirmedByAllAction]_vars

\* What L1Portal takes for a confirmed assertion was confirmed by
\* confirmFirstUnresolvedAssertion: no rejected or pending one passes its test.
PortalSound == \A id \in AssertionID : isAssertionConfirmed(id) => id \in confirmed

\* The confirmed assertions form one chain: the parent of each is the confirmed
\* assertion just before it, so that no two confirmed assertions conflict.
ConfirmedChain ==
    \A id \in confirmed \ {InitialAssertionID} :
        /\ assertions[id].parent \in confirmed
        /\ \A other \in confirmed : other < id => other <= assertions[id].parent

\* An assertion waits for the confirmation period that is in force: the
\* administrator cannot change the period under a pending assertion.
DeadlineInForce ==
    \A id \in firstUnresolved..lastCreatedAssertionID :
        assertions[id].deadline = assertions[id].proposalTime + config.confirmationPeriod

\* A challenge pays out at most once although its contract can call
\* completeChallenge again: nobody is left in, or enters, a completed challenge.
SettledForGood ==
    \A c \in completed, a \in Address : stakers[a].currentChallenge # c

\* What createAssertionHelper's check amounts to: it wants a child to have its
\* parent's block number and createAssertion a larger one, so that only an
\* assertion at block 0 ever gets a child, and only one.
AtMostOneAssertion ==
    /\ lastCreatedAssertionID <= InitialAssertionID + 1
    /\ InitialBlockNum # 0 => lastCreatedAssertionID = InitialAssertionID

\* Hence nothing can be disputed or rejected: challengeAssertion,
\* completeChallenge and rejectFirstUnresolvedAssertion always revert.
NothingDisputed ==
    /\ challenges = <<>> /\ zombies = <<>>
    /\ \A a \in Address : ~firstUnresolvedIsRejectable(a)
=============================================================================
