-------------------------- MODULE ValidatorProofs ---------------------------
(***************************************************************************)
(* Proofs about the validators composed with the Rollup contract: each of  *)
(* their steps is one of the contract's or leaves it alone, so that what   *)
(* is proved of the contract holds of the composition; a node believes     *)
(* only what the contract holds; and two stakers confirm nothing.          *)
(***************************************************************************)
EXTENDS Validator, RollupProofs

\* A leaf is left to Zenon unless it names another prover.
USE Zenon

-----------------------------------------------------------------------------
(* The inductive invariant *)

\* What a node sends: the required stake, or a safe block.
GoodCall(c) ==
    /\ c \in Call
    /\ c.op = "stake" => c.arg = InitialConfig.baseStakeAmount
    /\ c.op = "create" => c.arg \in 1..MaxSafe

Places == {"down", "ensureStaked", "stake", "staking", "rollback", "rollbackTo",
           "tick", "create", "creating", "resolve", "confirm", "confirming"}
Waiting == {"staking", "creating", "confirming"}
Stepping == {"tick", "create", "creating", "resolve", "confirm", "confirming"}

\* With only validators about, nobody loses a challenge, nothing is rejected, and an
\* unresolved assertion has the stake of the node that created it and no other.
ContractInv ==
    /\ config = InitialConfig /\ zombies = <<>>
    /\ lastConfirmedAssertionID = lastResolvedAssertionID
    /\ lastResolvedAssertionID <= lastCreatedAssertionID
    /\ \A a \in Address : stakers[a].assertionID <= lastCreatedAssertionID
    /\ \A id \in AssertionID : id <= lastCreatedAssertionID =>
          /\ assertions[id].blockNum = 0 => InitialBlockNum = 0
          /\ lastResolvedAssertionID < id => assertions[id].numStakers = 1

\* The contract holds an assertion at block n.
Holds(n) == \E id \in AssertionID : id <= lastCreatedAssertionID /\ assertions[id].blockNum = n

\* What a node at place x has read, believes, is sending and may have left pending.
Fits(x, r, l, c, t) ==
    /\ c # NoCall => GoodCall(c) /\ (x = "staking" <=> c.op = "stake")
    /\ t # NoCall => GoodCall(t)
    /\ x = "stake" => r = InitialConfig.baseStakeAmount
    /\ x = "create" => r \in 1..MaxSafe
    /\ x = "rollbackTo" => r \in AssertionID /\ r <= lastCreatedAssertionID
    /\ x \in Stepping /\ l # InitialBlockNum => Holds(l)

NodeInv == \A a \in Address : Fits(pc[a], read[a], last[a], call[a], late[a])

VInv == TypeInv /\ VTypeOK /\ ContractInv /\ NodeInv

LEMMA NodesAreAddresses ==
    ASSUME VTypeOK
    PROVE  nodes \subseteq Address
BY NodeAssumption, DataAssumption DEF VTypeOK

LEMMA VInvInit == VInit => VInv
<1> SUFFICES ASSUME VInit PROVE VInv
  OBVIOUS
<1>1. TypeInv
  BY InitTypeInv DEF VInit
<1>2. VTypeOK
  BY SafeAssumption, SMT DEF VInit, VTypeOK
<1>3. NodeInv
  BY DEF VInit, NodeInv, Fits, Stepping
<1>4. ContractInv
  <2>1. InitialAssertionID \in Nat /\ InitialAssertionID = 0 /\ 0 \in AssertionID
    BY GenesisAssumption, BoundsAssumption DEF AssertionID
  <2>2. /\ config = InitialConfig /\ zombies = <<>> /\ lastCreatedAssertionID = 0
        /\ lastResolvedAssertionID = 0 /\ lastConfirmedAssertionID = 0
        /\ \A a \in Address : stakers[a].assertionID = 0
        /\ assertions[0].blockNum = InitialBlockNum
    BY <2>1 DEF VInit, Init, NoStaker
  <2>3. \A id \in AssertionID : id <= 0 => id = 0
    BY SMT DEF AssertionID
  <2> QED BY <2>1, <2>2, <2>3, SMT DEF ContractInv
<1> QED BY <1>1, <1>2, <1>3, <1>4 DEF VInv

-----------------------------------------------------------------------------
(* What a transaction of a node does to the contract *)

\* The contract keeps its invariant and forgets no block but the first.
Keeps ==
    /\ ContractInv'
    /\ lastCreatedAssertionID <= lastCreatedAssertionID'
    /\ \A n \in Nat \ {InitialBlockNum} : Holds(n) => Holds(n)'

\* A change of one record's count, or of the number a parent keeps, and nothing else.
LEMMA CountOnly ==
    ASSUME NEW r \in Assertion, NEW n \in Nat
    PROVE  /\ [r EXCEPT !.numStakers = n].numStakers = n
           /\ [r EXCEPT !.numStakers = n].blockNum = r.blockNum
           /\ [r EXCEPT !.blockNum = n].blockNum = n
           /\ [r EXCEPT !.blockNum = n].numStakers = r.numStakers
           /\ [r EXCEPT !.childBlockNum = n].blockNum = r.blockNum
           /\ [r EXCEPT !.childBlockNum = n].numStakers = r.numStakers
BY DEF Assertion

LEMMA QuietKeeps ==
    ASSUME TypeOK, ContractInv, UNCHANGED <<config, ids, assertions, stakers, zombies>>
    PROVE  Keeps
<1>1. lastCreatedAssertionID \in Nat
  BY BoundsAssumption, SMT DEF TypeOK, AssertionID
<1> QED BY <1>1, SMT DEF Keeps, ContractInv, Holds, ids

LEMMA StakeKeeps ==
    ASSUME TypeOK, ContractInv, NEW a \in Address, NEW n \in Amount, Stake(a, n)
    PROVE  Keeps
<1>1. /\ UNCHANGED <<config, ids, zombies>>
      /\ UNCHANGED <<lastCreatedAssertionID, lastResolvedAssertionID, lastConfirmedAssertionID>>
  BY DEF Stake, admin, ids, disputes
<1>2. /\ lastCreatedAssertionID \in Nat /\ lastConfirmedAssertionID \in AssertionID
      /\ lastResolvedAssertionID \in Nat
  BY BoundsAssumption, SMT DEF TypeOK, AssertionID
<1>3. \A b \in Address : stakers'[b].assertionID <= lastCreatedAssertionID
  BY <1>2, StakeEffect, SMT DEF ContractInv
<1>4. \A id \in AssertionID :
          /\ assertions'[id].blockNum = assertions[id].blockNum
          /\ id # lastConfirmedAssertionID => assertions'[id].numStakers = assertions[id].numStakers
  <2>1. CASE UNCHANGED assertions
    BY <2>1
  <2>2. CASE StakeOnAssertion(a, lastConfirmedAssertionID)
    <3> DEFINE c == lastConfirmedAssertionID
               m == assertions[c].numStakers + 1
               upd == [assertions[c] EXCEPT !.numStakers = m]
    <3>1. assertions' = [assertions EXCEPT ![c] = upd]
      BY <2>2 DEF StakeOnAssertion
    <3>2. assertions[c] \in Assertion
      BY <1>2 DEF TypeOK
    <3>3. m \in Nat
      BY <3>2, SMT DEF Assertion
    <3> HIDE DEF m
    <3>4. upd.blockNum = assertions[c].blockNum
      BY <3>2, <3>3, CountOnly
    <3> HIDE DEF upd
    <3> QED BY <3>1, <3>4, <1>2 DEF TypeOK
  <2> QED BY <2>1, <2>2 DEF Stake
<1>5. ContractInv'
  <2>1. \A id \in AssertionID : lastResolvedAssertionID < id => id # lastConfirmedAssertionID
    BY <1>2, SMT DEF ContractInv, AssertionID
  <2> QED BY <1>1, <1>3, <1>4, <2>1 DEF ContractInv
<1> QED BY <1>1, <1>2, <1>4, <1>5, SMT DEF Keeps, Holds

LEMMA ProposeKeeps ==
    ASSUME TypeOK, ContractInv, NEW a \in Address, NEW h \in Hash, NEW n \in BlockNum, n # 0,
           CreateAssertion(a, h, n) \/ CreateSibling(a, h, n)
    PROVE  Keeps /\ Holds(n)'
<1> DEFINE p == stakers[a].assertionID
           id == lastCreatedAssertionID + 1
           new == newAssertion(h, n, p)
<1>1. /\ RecordProposal(a, h) /\ canPropose(a, n)
      /\ id \in AssertionID /\ assertions'[id] = new
      /\ assertions' \in [AssertionID -> Assertion]
  BY ProposeEffect
<1>2. /\ lastCreatedAssertionID \in Nat /\ lastCreatedAssertionID \in AssertionID
      /\ lastResolvedAssertionID \in Nat
      /\ p \in AssertionID /\ p <= lastCreatedAssertionID /\ n \in Nat
      /\ assertions[p] \in Assertion
  BY BoundsAssumption, DataAssumption, SMT DEF TypeOK, AssertionID, Staker, ContractInv
<1>3. /\ lastCreatedAssertionID' = id
      /\ UNCHANGED <<config, zombies, lastResolvedAssertionID, lastConfirmedAssertionID>>
  BY <1>1 DEF RecordProposal, admin, disputes
<1>4. new.blockNum = n /\ new.numStakers = 1
  BY DEF newAssertion
<1>5. \A i \in AssertionID \ {id} :
          /\ assertions'[i].numStakers = assertions[i].numStakers
          /\ \/ assertions'[i].blockNum = assertions[i].blockNum
             \/ (assertions[i].blockNum = 0 /\ assertions'[i].blockNum = n)
  <2>1. CASE CreateAssertion(a, h, n)
    <3> DEFINE b == IF assertions[p].blockNum = 0 THEN n ELSE assertions[p].blockNum
               upd == [assertions[p] EXCEPT !.blockNum = b]
    <3>1. assertions' = [assertions EXCEPT ![p] = upd, ![id] = new]
      BY <2>1 DEF CreateAssertion
    <3>2. b \in Nat /\ (b = assertions[p].blockNum \/ (assertions[p].blockNum = 0 /\ b = n))
      BY <1>2 DEF Assertion
    <3> HIDE DEF b
    <3>3. upd.blockNum = b /\ upd.numStakers = assertions[p].numStakers
      BY <1>2, <3>2, CountOnly
    <3> HIDE DEF upd, p, id, new
    <3> QED BY <1>1, <1>2, <3>1, <3>2, <3>3 DEF TypeOK
  <2>2. CASE CreateSibling(a, h, n)
    <3> DEFINE b == IF assertions[p].childBlockNum = 0 THEN n ELSE assertions[p].childBlockNum
               upd == [assertions[p] EXCEPT !.childBlockNum = b]
    <3>1. assertions' = [assertions EXCEPT ![p] = upd, ![id] = new]
      BY <2>2 DEF CreateSibling
    <3>2. b \in Nat
      BY <1>2 DEF Assertion
    <3> HIDE DEF b
    <3>3. upd.blockNum = assertions[p].blockNum /\ upd.numStakers = assertions[p].numStakers
      BY <1>2, <3>2, CountOnly
    <3> HIDE DEF upd, p, id, new
    <3> QED BY <1>1, <1>2, <3>1, <3>3 DEF TypeOK
  <2> QED BY <2>1, <2>2
<1>6. \A b \in Address : stakers'[b].assertionID <= id
  <2>1. stakers' = [stakers EXCEPT ![a].assertionID = id]
    BY <1>1 DEF RecordProposal
  <2>2. \A b \in Address : stakers[b] \in Staker /\ stakers[b].assertionID \in Nat
    BY BoundsAssumption, SMT DEF TypeOK, Staker, AssertionID
  <2>3. stakers'[a].assertionID = id
    <3>1. [stakers[a] EXCEPT !.assertionID = id].assertionID = id
      BY <2>2 DEF Staker
    <3> QED BY <2>1, <3>1 DEF TypeOK
  <2>4. \A b \in Address \ {a} : stakers'[b].assertionID = stakers[b].assertionID
    BY <2>1 DEF TypeOK
  <2> QED BY <1>2, <2>2, <2>3, <2>4, SMT DEF ContractInv
<1> HIDE DEF p, new
<1>7. ContractInv'
  <2>1. \A i \in AssertionID : i <= id => i = id \/ i <= lastCreatedAssertionID
    BY <1>2, SMT DEF AssertionID
  <2>2. lastResolvedAssertionID <= id
    BY <1>2, SMT DEF ContractInv
  <2>3. \A i \in AssertionID : i <= id =>
            /\ assertions'[i].blockNum = 0 => InitialBlockNum = 0
            /\ lastResolvedAssertionID < i => assertions'[i].numStakers = 1
    <3> HIDE DEF id
    <3> QED BY <1>1, <1>4, <1>5, <2>1 DEF ContractInv
  <2> HIDE DEF id
  <2> QED BY <1>3, <1>6, <2>2, <2>3 DEF ContractInv
<1>8. ASSUME NEW m \in Nat \ {InitialBlockNum}, Holds(m)
      PROVE  Holds(m)'
  <2>1. PICK i \in AssertionID : i <= lastCreatedAssertionID /\ assertions[i].blockNum = m
    BY <1>8 DEF Holds
  <2>2. m # 0
    BY <2>1 DEF ContractInv
  <2>3. i # id /\ i <= id
    BY <1>2, <2>1, SMT DEF AssertionID
  <2>4. assertions'[i].blockNum = m
    BY <1>5, <2>1, <2>2, <2>3
  <2> QED BY <1>3, <2>3, <2>4 DEF Holds
<1>9. Holds(n)'
  <2>1. id <= id
    BY <1>2, SMT
  <2> QED BY <1>1, <1>3, <1>4, <2>1 DEF Holds
<1> QED BY <1>2, <1>3, <1>7, <1>8, <1>9, SMT DEF Keeps

LEMMA ConfirmKeeps ==
    ASSUME TypeOK, ContractInv, NEW a \in Address, ConfirmFirstUnresolvedAssertion(a)
    PROVE  Keeps
<1>1. lastCreatedAssertionID \in Nat /\ lastResolvedAssertionID \in Nat
  BY BoundsAssumption, SMT DEF TypeOK, AssertionID
<1>2. /\ lastResolvedAssertionID' = lastResolvedAssertionID + 1
      /\ lastConfirmedAssertionID' = lastResolvedAssertionID + 1
      /\ lastResolvedAssertionID < lastCreatedAssertionID
      /\ UNCHANGED <<config, zombies, lastCreatedAssertionID, assertions, stakers>>
  BY DEF ConfirmFirstUnresolvedAssertion, firstUnresolvedIsConfirmable, hasUnresolved,
         firstUnresolved, admin, stakes, disputes
<1>3. ContractInv'
  <2>1. \A id \in AssertionID : lastResolvedAssertionID + 1 < id => lastResolvedAssertionID < id
    BY <1>1, SMT DEF AssertionID
  <2>2. lastResolvedAssertionID + 1 <= lastCreatedAssertionID
    BY <1>1, <1>2, SMT
  <2> QED BY <1>2, <2>1, <2>2 DEF ContractInv
<1> QED BY <1>1, <1>2, <1>3, SMT DEF Keeps, Holds

\* A transaction of a node is a step of the contract.
LEMMA ExecuteEffect ==
    ASSUME TypeOK, ContractInv, NEW a \in Address, NEW c, GoodCall(c), Execute(a, c)
    PROVE  AnyNext /\ Keeps /\ (c.op = "create" => Holds(c.arg)')
<1>1. CASE c.op = "stake" /\ Stake(a, c.arg)
  <2>1. c.arg \in Amount
    BY <1>1, StakeFits DEF GoodCall
  <2>2. AnyNext
    BY <1>1, <2>1 DEF AnyNext, Next, Step, ManageStake
  <2> QED BY <1>1, <2>1, <2>2, StakeKeeps
<1>2. CASE c.op = "create"
  <2>1. c.arg \in BlockNum /\ blockHash(c.arg) \in Hash /\ c.arg # 0
    BY <1>2, SafeAssumption, SMT DEF GoodCall
  <2>2. CreateAssertion(a, blockHash(c.arg), c.arg) \/ CreateSibling(a, blockHash(c.arg), c.arg)
    BY <1>2 DEF Execute
  <2>3. AnyNext
    BY <2>1, <2>2 DEF AnyNext, Next, ForkNext, Propose, ProposeForks
  <2> QED BY <2>1, <2>2, <2>3, ProposeKeeps
<1>3. CASE c.op = "confirm" /\ ConfirmFirstUnresolvedAssertion(a)
  <2>1. AnyNext
    BY <1>3 DEF AnyNext, Next, Step, Resolve
  <2> QED BY <1>3, <2>1, ConfirmKeeps
<1> QED BY <1>1, <1>2, <1>3 DEF Execute

-----------------------------------------------------------------------------
(* The steps of a node *)

\* One node moves, and the contract keeps what it has.
LEMMA Moves ==
    ASSUME VInv, Keeps, TypeOK', UNCHANGED <<nodes, variant>>,
           safe' \in 0..MaxSafe, faults' \in 0..MaxFaults, NEW a \in Address,
           NEW x \in Places, NEW r \in Nat, NEW l \in Nat,
           NEW c \in Call \cup {NoCall}, NEW t \in Call \cup {NoCall},
           pc' = [pc EXCEPT ![a] = x], read' = [read EXCEPT ![a] = r],
           last' = [last EXCEPT ![a] = l], call' = [call EXCEPT ![a] = c],
           late' = [late EXCEPT ![a] = t],
           c # NoCall <=> x \in Waiting,
           Fits(x, r, l, c, t)'
    PROVE  VTypeOK' /\ NodeInv'
<1>1. /\ pc \in [Address -> Places] /\ read \in [Address -> Nat] /\ last \in [Address -> Nat]
      /\ call \in [Address -> Call \cup {NoCall}] /\ late \in [Address -> Call \cup {NoCall}]
      /\ nodes \in Node /\ variant \in Variant
      /\ \A b \in Address : call[b] # NoCall <=> pc[b] \in Waiting
  BY DEF VInv, VTypeOK, Places, Waiting
<1>2. /\ pc' \in [Address -> Places] /\ read' \in [Address -> Nat] /\ last' \in [Address -> Nat]
      /\ call' \in [Address -> Call \cup {NoCall}] /\ late' \in [Address -> Call \cup {NoCall}]
  BY <1>1
<1>3. /\ pc'[a] = x /\ read'[a] = r /\ last'[a] = l /\ call'[a] = c /\ late'[a] = t
      /\ \A b \in Address \ {a} :
            /\ pc'[b] = pc[b] /\ read'[b] = read[b] /\ last'[b] = last[b]
            /\ call'[b] = call[b] /\ late'[b] = late[b]
  BY <1>1
<1>4. \A b \in Address : call'[b] # NoCall <=> pc'[b] \in Waiting
  BY <1>1, <1>3
<1>5. VTypeOK'
  BY <1>1, <1>2, <1>4 DEF VTypeOK, Places, Waiting
<1>6. ASSUME NEW b \in Address
      PROVE  Fits(pc[b], read[b], last[b], call[b], late[b])'
  <2>1. CASE b = a
    <3>1. pc'[b] = x /\ read'[b] = r /\ last'[b] = l /\ call'[b] = c /\ late'[b] = t
      BY <1>3, <2>1
    <3> QED BY <3>1 DEF Fits, Holds, GoodCall
  <2>2. CASE b # a
    <3>1. Fits(pc[b], read[b], last[b], call[b], late[b])
      BY DEF VInv, NodeInv
    <3>2. read[b] \in Nat /\ last[b] \in Nat
      BY <1>1
    <3>3. lastCreatedAssertionID \in Nat /\ lastCreatedAssertionID' \in Nat
      BY BoundsAssumption, SMT DEF VInv, TypeInv, TypeOK, AssertionID
    <3>4. read[b] <= lastCreatedAssertionID => read[b] <= lastCreatedAssertionID'
      BY <3>2, <3>3, SMT DEF Keeps
    <3>5. last[b] # InitialBlockNum /\ Holds(last[b]) =>
              \E id \in AssertionID : id <= lastCreatedAssertionID' /\ assertions'[id].blockNum = last[b]
      BY <3>2 DEF Keeps, Holds
    <3> QED BY <1>3, <2>2, <3>1, <3>4, <3>5, SMT DEF Fits, Holds
  <2> QED BY <2>1, <2>2
<1> QED BY <1>5, <1>6 DEF NodeInv

\* The same when the contract does not change.
LEMMA MovesQuietly ==
    ASSUME VInv, UNCHANGED <<vars, nodes, variant>>,
           safe' \in 0..MaxSafe, faults' \in 0..MaxFaults, NEW a \in Address,
           NEW x \in Places, NEW r \in Nat, NEW l \in Nat,
           NEW c \in Call \cup {NoCall}, NEW t \in Call \cup {NoCall},
           pc' = [pc EXCEPT ![a] = x], read' = [read EXCEPT ![a] = r],
           last' = [last EXCEPT ![a] = l], call' = [call EXCEPT ![a] = c],
           late' = [late EXCEPT ![a] = t],
           c # NoCall <=> x \in Waiting,
           Fits(x, r, l, c, t)
    PROVE  VInv'
<1>1. TypeInv' /\ TypeOK' /\ TypeOK
  BY TypeInvStep DEF VInv, TypeInv
<1>2. UNCHANGED <<config, ids, assertions, stakers, zombies>>
  BY DEF vars, admin, chain, stakes, disputes
<1>3. Keeps
  BY <1>1, <1>2, QuietKeeps DEF VInv
<1>4. Fits(x, r, l, c, t)'
  BY <1>2 DEF Fits, Holds, GoodCall, ids
<1> QED BY <1>1, <1>3, <1>4, Moves DEF VInv, Keeps

\* What a lemma about one node needs of the invariant.
LEMMA AtNode ==
    ASSUME VInv, NEW a \in Address
    PROVE  /\ pc[a] \in Places /\ read[a] \in Nat /\ last[a] \in Nat
           /\ call[a] \in Call \cup {NoCall} /\ late[a] \in Call \cup {NoCall}
           /\ call[a] # NoCall <=> pc[a] \in Waiting
           /\ Fits(pc[a], read[a], last[a], call[a], late[a])
           /\ pc = [pc EXCEPT ![a] = pc[a]] /\ read = [read EXCEPT ![a] = read[a]]
           /\ last = [last EXCEPT ![a] = last[a]] /\ call = [call EXCEPT ![a] = call[a]]
           /\ late = [late EXCEPT ![a] = late[a]]
           /\ safe \in 0..MaxSafe /\ faults \in 0..MaxFaults
BY DEF VInv, VTypeOK, NodeInv, Places, Waiting

LEMMA BeginStep ==
    ASSUME VInv, NEW a \in Address, validateGenesis(a)
    PROVE  VInv'
<1> DEFINE x == IF assertions[0].stateHash = InitialHash THEN "ensureStaked" ELSE pc[a]
<1>1. pc[a] = "down" /\ call[a] = NoCall
  BY AtNode DEF validateGenesis, Waiting
<1>2. /\ UNCHANGED <<vars, nodes, variant>> /\ safe' \in 0..MaxSafe /\ faults' \in 0..MaxFaults
      /\ call' = [call EXCEPT ![a] = call[a]] /\ late' = [late EXCEPT ![a] = late[a]]
      /\ pc' = [pc EXCEPT ![a] = x]
      /\ last' = [last EXCEPT ![a] = 0] /\ read' = [read EXCEPT ![a] = 0]
  BY AtNode DEF validateGenesis, Goto, env
<1>3. x \in {"down", "ensureStaked"}
  BY <1>1
<1> HIDE DEF x
<1>4. Fits(x, 0, 0, call[a], late[a])
  BY <1>1, <1>3, AtNode DEF Fits, Stepping
<1>5. call[a] # NoCall <=> x \in Waiting
  BY <1>1, <1>3 DEF Waiting
<1>6. x \in Places
  BY <1>3 DEF Places
<1> QED BY <1>2, <1>4, <1>5, <1>6, AtNode, MovesQuietly

\* A Send goes out and is waited for, or its gas estimation fails.
LEMMA SendStep ==
    ASSUME VInv, NEW a \in Address, NEW c, GoodCall(c), NEW nx \in Waiting,
           nx = "staking" <=> c.op = "stake", nx = "staking" \/ pc[a] \in Stepping,
           Sends(a, c, nx), UNCHANGED <<vars, read, last, late, env>>
    PROVE  VInv'
<1> DEFINE x == IF accepts(a, c) THEN nx ELSE IF nx = "staking" THEN "down" ELSE "tick"
           d == IF accepts(a, c) THEN c ELSE NoCall
<1>1. /\ UNCHANGED <<vars, nodes, variant>> /\ safe' \in 0..MaxSafe /\ faults' \in 0..MaxFaults
      /\ read' = [read EXCEPT ![a] = read[a]] /\ last' = [last EXCEPT ![a] = last[a]]
      /\ late' = [late EXCEPT ![a] = late[a]]
      /\ pc' = [pc EXCEPT ![a] = x] /\ call' = [call EXCEPT ![a] = d]
  BY AtNode DEF Sends, Goto, env
<1>2. c \in Call /\ c # NoCall
  BY SafeAssumption DEF GoodCall
<1>3. /\ d # NoCall <=> x \in Waiting
      /\ d \in Call \cup {NoCall} /\ x \in Places
      /\ d # NoCall => d = c /\ x = nx
      /\ x \in Stepping => nx # "staking"
      /\ x \notin {"stake", "create", "rollbackTo"}
  BY <1>2 DEF Waiting, Places, Stepping
<1> HIDE DEF x, d
<1>4. Fits(x, read[a], last[a], d, late[a])
  BY <1>3, AtNode DEF Fits
<1>5. read[a] \in Nat /\ last[a] \in Nat /\ late[a] \in Call \cup {NoCall}
  BY AtNode
<1> QED BY <1>1, <1>3, <1>4, <1>5, MovesQuietly

LEMMA SmallMod ==
    ASSUME NEW n \in Nat, NEW w \in Nat, n < w
    PROVE  n % w = n
BY SMT

LEMMA EnsureStakedStep ==
    ASSUME VInv, NEW a \in Address, ensureStaked(a)
    PROVE  VInv'
<1>0. config = InitialConfig /\ InitialConfig.baseStakeAmount \in Nat
  BY DataAssumption DEF VInv, ContractInv, Config
<1>1. CASE pc[a] = "ensureStaked"
  <2> DEFINE x == IF isStaked(a) THEN "rollback" ELSE "stake"
             r == InitialConfig.baseStakeAmount
  <2>1. /\ UNCHANGED <<vars, nodes, variant>> /\ safe' \in 0..MaxSafe /\ faults' \in 0..MaxFaults
        /\ last' = [last EXCEPT ![a] = last[a]] /\ call' = [call EXCEPT ![a] = call[a]]
        /\ late' = [late EXCEPT ![a] = late[a]]
        /\ pc' = [pc EXCEPT ![a] = x] /\ read' = [read EXCEPT ![a] = r]
    BY <1>0, <1>1, AtNode DEF ensureStaked, Goto, env
  <2>2. x \in {"rollback", "stake"} /\ call[a] = NoCall
    BY <1>1, AtNode DEF Waiting
  <2> HIDE DEF x
  <2>3. Fits(x, r, last[a], call[a], late[a])
    BY <2>2, AtNode DEF Fits, Stepping
  <2>4. x \in Places /\ (call[a] # NoCall <=> x \in Waiting)
    BY <2>2 DEF Places, Waiting
  <2> HIDE DEF r
  <2>5. r \in Nat
    BY <1>0 DEF r
  <2> QED BY <2>1, <2>3, <2>4, <2>5, AtNode, MovesQuietly
<1>2. CASE pc[a] = "stake"
  <2>1. read[a] = InitialConfig.baseStakeAmount
    BY <1>2, AtNode DEF Fits
  <2>2. read[a] % Word = InitialConfig.baseStakeAmount
    BY <1>0, <2>1, StakeFits, SmallMod
  <2>3. GoodCall(stakeCall(read[a])) /\ stakeCall(read[a]).op = "stake"
    BY <1>0, <2>2 DEF stakeCall, GoodCall, Call
  <2>4. /\ Sends(a, stakeCall(read[a]), "staking")
        /\ UNCHANGED <<vars, read, last, late, env>>
    BY <1>2 DEF ensureStaked
  <2>5. "staking" \in Waiting
    BY DEF Waiting
  <2> QED BY <2>3, <2>4, <2>5, SendStep
<1> QED BY <1>1, <1>2 DEF ensureStaked

LEMMA RollbackStep ==
    ASSUME VInv, NEW a \in Address, rollback(a)
    PROVE  VInv'
<1>0. /\ stakers[a].assertionID \in AssertionID
      /\ stakers[a].assertionID <= lastCreatedAssertionID
      /\ stakers[a].assertionID \in Nat
      /\ \A id \in AssertionID : assertions[id].blockNum \in Nat
  <2>1. stakers[a] \in Staker /\ \A id \in AssertionID : assertions[id] \in Assertion
    BY DEF VInv, TypeInv, TypeOK
  <2>2. stakers[a].assertionID \in AssertionID
    BY <2>1 DEF Staker
  <2>3. \A id \in AssertionID : assertions[id].blockNum \in Nat
    BY <2>1 DEF Assertion
  <2> QED BY <2>2, <2>3, SMT DEF VInv, ContractInv, AssertionID
<1>1. CASE pc[a] = "rollback"
  <2>1. /\ UNCHANGED <<vars, nodes, variant>> /\ safe' \in 0..MaxSafe /\ faults' \in 0..MaxFaults
        /\ last' = [last EXCEPT ![a] = last[a]] /\ call' = [call EXCEPT ![a] = call[a]]
        /\ late' = [late EXCEPT ![a] = late[a]]
        /\ pc' = [pc EXCEPT ![a] = "rollbackTo"]
        /\ read' = [read EXCEPT ![a] = stakers[a].assertionID]
    BY <1>1, AtNode DEF rollback, Goto, env
  <2>2. call[a] = NoCall
    BY <1>1, AtNode DEF Waiting
  <2>3. Fits("rollbackTo", stakers[a].assertionID, last[a], call[a], late[a])
    BY <1>0, <2>2, AtNode DEF Fits, Stepping
  <2>4. "rollbackTo" \in Places \ Waiting
    BY DEF Places, Waiting
  <2> QED BY <1>0, <2>1, <2>2, <2>3, <2>4, AtNode, MovesQuietly
<1>2. CASE pc[a] = "rollbackTo"
  <2> DEFINE l == assertions[read[a]].blockNum
  <2>1. /\ UNCHANGED <<vars, nodes, variant>> /\ safe' \in 0..MaxSafe /\ faults' \in 0..MaxFaults
        /\ read' = [read EXCEPT ![a] = read[a]] /\ call' = [call EXCEPT ![a] = call[a]]
        /\ late' = [late EXCEPT ![a] = late[a]]
        /\ pc' = [pc EXCEPT ![a] = "tick"] /\ last' = [last EXCEPT ![a] = l]
    BY <1>2, AtNode DEF rollback, Goto, env
  <2>2. /\ call[a] = NoCall
        /\ read[a] \in AssertionID /\ read[a] <= lastCreatedAssertionID
    BY <1>2, AtNode DEF Waiting, Fits
  <2>3. Holds(l) /\ l \in Nat
    BY <1>0, <2>2 DEF Holds
  <2> HIDE DEF l
  <2>4. Fits("tick", read[a], l, call[a], late[a])
    BY <2>2, <2>3, AtNode DEF Fits
  <2>5. "tick" \in Places \ Waiting
    BY DEF Places, Waiting
  <2> QED BY <2>1, <2>2, <2>3, <2>4, <2>5, AtNode, MovesQuietly
<1> QED BY <1>1, <1>2 DEF rollback

LEMMA TickStep ==
    ASSUME VInv, NEW a \in Address, getNextAssertionAttrs(a)
    PROVE  VInv'
<1> DEFINE x == IF isNew(safe, last[a]) THEN "create" ELSE "resolve"
<1>1. /\ UNCHANGED <<vars, nodes, variant>> /\ safe' \in 0..MaxSafe /\ faults' \in 0..MaxFaults
      /\ last' = [last EXCEPT ![a] = last[a]] /\ call' = [call EXCEPT ![a] = call[a]]
      /\ late' = [late EXCEPT ![a] = late[a]]
      /\ pc' = [pc EXCEPT ![a] = x] /\ read' = [read EXCEPT ![a] = safe]
  BY AtNode DEF getNextAssertionAttrs, Goto, env
<1>2. pc[a] = "tick" /\ call[a] = NoCall
  BY AtNode DEF getNextAssertionAttrs, Waiting
<1>3. x \in {"create", "resolve"} /\ (x = "create" => safe \in 1..MaxSafe) /\ safe \in Nat
  BY AtNode, SafeAssumption, SMT DEF isNew
<1> HIDE DEF x
<1>4. pc[a] \in Stepping /\ x \in Places /\ (call[a] # NoCall <=> x \in Waiting)
  BY <1>2, <1>3 DEF Stepping, Places, Waiting
<1>5. Fits(x, safe, last[a], call[a], late[a])
  BY <1>2, <1>3, <1>4, AtNode DEF Fits
<1>6. last[a] \in Nat /\ call[a] \in Call \cup {NoCall} /\ late[a] \in Call \cup {NoCall}
  BY AtNode
<1> QED BY <1>1, <1>3, <1>4, <1>5, <1>6, MovesQuietly

LEMMA CreateStep ==
    ASSUME VInv, NEW a \in Address, createAssertion(a)
    PROVE  VInv'
<1>1. pc[a] = "create" /\ read[a] \in 1..MaxSafe /\ read[a] \in Nat
  BY AtNode DEF createAssertion, Fits
<1>2. GoodCall(createCall(read[a])) /\ createCall(read[a]).op = "create"
  BY <1>1 DEF createCall, GoodCall, Call
<1>3. "creating" \in Waiting /\ pc[a] \in Stepping
  BY <1>1 DEF Waiting, Stepping
<1>4. /\ Sends(a, createCall(read[a]), "creating")
      /\ UNCHANGED <<vars, read, last, late, env>>
  BY DEF createAssertion
<1> QED BY <1>2, <1>3, <1>4, SendStep

LEMMA ResolveStep ==
    ASSUME VInv, NEW a \in Address, resolveFirstUnresolvedAssertion(a)
    PROVE  VInv'
<1>1. CASE pc[a] = "resolve"
  <2> DEFINE x == IF firstUnresolvedIsConfirmable THEN "confirm" ELSE "tick"
  <2>1. /\ UNCHANGED <<vars, nodes, variant>> /\ safe' \in 0..MaxSafe /\ faults' \in 0..MaxFaults
        /\ last' = [last EXCEPT ![a] = last[a]] /\ call' = [call EXCEPT ![a] = call[a]]
        /\ late' = [late EXCEPT ![a] = late[a]] /\ read' = [read EXCEPT ![a] = read[a]]
        /\ pc' = [pc EXCEPT ![a] = x]
    BY <1>1, AtNode DEF resolveFirstUnresolvedAssertion, Goto, env
  <2>2. x \in {"confirm", "tick"} /\ call[a] = NoCall
    BY <1>1, AtNode DEF Waiting
  <2> HIDE DEF x
  <2>3. pc[a] \in Stepping /\ x \in Places /\ (call[a] # NoCall <=> x \in Waiting)
    BY <1>1, <2>2 DEF Stepping, Places, Waiting
  <2>4. Fits(x, read[a], last[a], call[a], late[a])
    BY <2>2, <2>3, AtNode DEF Fits
  <2>5. /\ read[a] \in Nat /\ last[a] \in Nat
        /\ call[a] \in Call \cup {NoCall} /\ late[a] \in Call \cup {NoCall}
    BY AtNode
  <2> QED BY <2>1, <2>3, <2>4, <2>5, MovesQuietly
<1>2. CASE pc[a] = "confirm"
  <2>1. GoodCall(confirmCall) /\ confirmCall.op = "confirm"
    BY DEF confirmCall, GoodCall, Call
  <2>2. "confirming" \in Waiting /\ pc[a] \in Stepping
    BY <1>2 DEF Waiting, Stepping
  <2>3. /\ Sends(a, confirmCall, "confirming")
        /\ UNCHANGED <<vars, read, last, late, env>>
    BY <1>2 DEF resolveFirstUnresolvedAssertion
  <2> QED BY <2>1, <2>2, <2>3, SendStep
<1> QED BY <1>1, <1>2 DEF resolveFirstUnresolvedAssertion

\* L1 includes a transaction: the contract takes it or it reverts.
LEMMA IncludeEffect ==
    ASSUME VInv, NEW a \in Address, NEW c, GoodCall(c),
           IF accepts(a, c) THEN Execute(a, c) ELSE UNCHANGED vars
    PROVE  /\ [AnyNext]_vars /\ TypeInv' /\ TypeOK' /\ Keeps
           /\ c.op = "create" /\ accepts(a, c) => Holds(c.arg)'
<1>1. TypeOK /\ TypeInv /\ ContractInv
  BY DEF VInv, TypeInv
<1>2. CASE accepts(a, c)
  <2>1. AnyNext /\ Keeps /\ (c.op = "create" => Holds(c.arg)')
    BY <1>1, <1>2, ExecuteEffect
  <2> QED BY <1>1, <2>1, TypeInvStep DEF TypeInv
<1>3. CASE ~accepts(a, c)
  <2>1. UNCHANGED vars
    BY <1>3
  <2>2. UNCHANGED <<config, ids, assertions, stakers, zombies>>
    BY <2>1 DEF vars, admin, chain, stakes, disputes
  <2> QED BY <1>1, <1>3, <2>1, <2>2, TypeInvStep, QuietKeeps DEF TypeInv
<1> QED BY <1>2, <1>3

LEMMA ReceiptStep ==
    ASSUME VInv, NEW a \in Address, Receipt(a)
    PROVE  VInv' /\ [AnyNext]_vars
<1>1. PICK c, r, t : c = call[a] /\ r = read[a] /\ t = late[a]
  OBVIOUS
<1>2. PICK x, l : x = next(a) /\ l = IF created(a) THEN c.arg ELSE last[a]
  OBVIOUS
<1>3. /\ c \in Call /\ GoodCall(c) /\ pc[a] \in Waiting
      /\ pc[a] = "staking" <=> c.op = "stake"
      /\ r \in Nat /\ t \in Call \cup {NoCall} /\ (t # NoCall => GoodCall(t))
      /\ pc[a] \in Stepping /\ last[a] # InitialBlockNum => Holds(last[a])
  BY <1>1, AtNode DEF Receipt, Fits
<1>4. IF accepts(a, c) THEN Execute(a, c) ELSE UNCHANGED vars
  BY <1>1 DEF Receipt
<1>5. /\ [AnyNext]_vars /\ TypeInv' /\ TypeOK' /\ Keeps
      /\ c.op = "create" /\ accepts(a, c) => Holds(c.arg)'
  BY <1>3, <1>4, IncludeEffect
<1>6. /\ UNCHANGED <<nodes, variant>> /\ safe' \in 0..MaxSafe /\ faults' \in 0..MaxFaults
      /\ read' = [read EXCEPT ![a] = r] /\ late' = [late EXCEPT ![a] = t]
      /\ last' = [last EXCEPT ![a] = l]
      /\ call' = [call EXCEPT ![a] = NoCall] /\ pc' = [pc EXCEPT ![a] = x]
  BY <1>1, <1>2, AtNode DEF Receipt, Goto, env
<1>7. x \in {"rollback", "resolve", "tick"} /\ (x # "rollback" => pc[a] \in Stepping)
  BY <1>2, <1>3 DEF next, Waiting, Stepping
<1>8. l \in Nat
  BY <1>2, <1>3, AtNode DEF Call
<1>9. x # "rollback" /\ l # InitialBlockNum => Holds(l)'
  <2>1. CASE created(a)
    BY <1>1, <1>2, <1>5, <2>1 DEF created
  <2>2. CASE ~created(a)
    <3>1. l = last[a]
      BY <1>2, <2>2
    <3>2. pc[a] \in Stepping /\ l # InitialBlockNum => Holds(l)
      BY <1>3, <3>1 DEF Holds
    <3> QED BY <1>5, <1>7, <1>8, <3>2 DEF Keeps
  <2> QED BY <2>1, <2>2
<1>10. /\ x \in Places /\ x \notin Waiting /\ x \notin {"stake", "create", "rollbackTo"}
       /\ x \in Stepping => x # "rollback"
  BY <1>7 DEF Places, Waiting, Stepping
<1>11. Fits(x, r, l, NoCall, t)'
  BY <1>3, <1>9, <1>10 DEF Fits, GoodCall
<1>12. VTypeOK' /\ NodeInv'
  BY <1>3, <1>5, <1>6, <1>8, <1>10, <1>11, Moves
<1> QED BY <1>5, <1>12 DEF VInv, Keeps

LEMMA LateStep ==
    ASSUME VInv, NEW a \in Address, IncludedLate(a)
    PROVE  VInv' /\ [AnyNext]_vars
<1>1. PICK x, r, l, c, t :
          x = pc[a] /\ r = read[a] /\ l = last[a] /\ c = call[a] /\ t = late[a]
  OBVIOUS
<1>2. /\ x \in Places /\ r \in Nat /\ l \in Nat /\ c \in Call \cup {NoCall}
      /\ c # NoCall <=> x \in Waiting
      /\ Fits(x, r, l, c, t) /\ GoodCall(t)
  BY <1>1, AtNode DEF IncludedLate, Fits
<1>3. IF accepts(a, t) THEN Execute(a, t) ELSE UNCHANGED vars
  BY <1>1 DEF IncludedLate
<1>4. [AnyNext]_vars /\ TypeInv' /\ TypeOK' /\ Keeps
  BY <1>2, <1>3, IncludeEffect
<1>5. /\ UNCHANGED <<nodes, variant>> /\ safe' \in 0..MaxSafe /\ faults' \in 0..MaxFaults
      /\ pc' = [pc EXCEPT ![a] = x] /\ read' = [read EXCEPT ![a] = r]
      /\ last' = [last EXCEPT ![a] = l] /\ call' = [call EXCEPT ![a] = c]
      /\ late' = [late EXCEPT ![a] = NoCall]
  BY <1>1, AtNode DEF IncludedLate, env
<1>6. lastCreatedAssertionID \in Nat /\ lastCreatedAssertionID' \in Nat
  BY <1>4, BoundsAssumption, SMT DEF VInv, TypeInv, TypeOK, AssertionID
<1>7. r <= lastCreatedAssertionID => r <= lastCreatedAssertionID'
  BY <1>2, <1>4, <1>6, SMT DEF Keeps
<1>8. l # InitialBlockNum /\ Holds(l) => Holds(l)'
  BY <1>2, <1>4 DEF Keeps
<1>9. Fits(x, r, l, c, NoCall)'
  BY <1>2, <1>7, <1>8 DEF Fits, GoodCall
<1>10. VTypeOK' /\ NodeInv'
  BY <1>2, <1>4, <1>5, <1>9, Moves
<1> QED BY <1>4, <1>10 DEF VInv, Keeps

\* A Send that fails and a crash: the node leaves its transaction, which may stay pending.
LEMMA FaultStep ==
    ASSUME VInv, NEW a \in Address, SendFails(a) \/ Crash(a)
    PROVE  VInv'
<1>1. PICK x : x = IF Crash(a) THEN "down" ELSE IF call[a].op = "stake" THEN "down" ELSE "tick"
  OBVIOUS
<1>2. PICK t : t = late'[a]
  OBVIOUS
<1>3. /\ late \in [Address -> Call \cup {NoCall}]
      /\ late[a] # NoCall => GoodCall(late[a])
      /\ call[a] # NoCall => call[a] \in Call /\ GoodCall(call[a])
  BY AtNode DEF VInv, VTypeOK, Fits
<1>4. late' = late \/ (call[a] # NoCall /\ late' = [late EXCEPT ![a] = call[a]])
  BY DEF SendFails, Crash
<1>5. /\ t \in Call \cup {NoCall} /\ (t # NoCall => GoodCall(t))
      /\ late' = [late EXCEPT ![a] = t]
  BY <1>2, <1>3, <1>4
<1>6. /\ UNCHANGED <<vars, nodes, variant>> /\ safe' \in 0..MaxSafe /\ faults' \in 0..MaxFaults
      /\ read' = [read EXCEPT ![a] = read[a]] /\ last' = [last EXCEPT ![a] = last[a]]
      /\ call' = [call EXCEPT ![a] = NoCall]
  BY AtNode, SafeAssumption, SMT DEF SendFails, Crash, fault
<1>7. pc' = [pc EXCEPT ![a] = x]
  BY <1>1 DEF SendFails, Crash, Goto
<1>8. x \in {"down", "tick"} /\ (x = "tick" => pc[a] \in Stepping)
  BY <1>1, AtNode DEF SendFails, Fits, Waiting, Stepping
<1>9. x \in Places /\ x \notin Waiting
  BY <1>8 DEF Places, Waiting
<1>10. Fits(x, read[a], last[a], NoCall, t)
  BY <1>5, <1>8, AtNode DEF Fits, Stepping
<1>11. read[a] \in Nat /\ last[a] \in Nat
  BY AtNode
<1> QED BY <1>5, <1>6, <1>7, <1>9, <1>10, <1>11, MovesQuietly

-----------------------------------------------------------------------------
(* The steps of the environment, and the whole *)

LEMMA ChainStep ==
    ASSUME VInv, UNCHANGED node, UNCHANGED <<nodes, variant>>,
           safe' \in 0..MaxSafe, faults' \in 0..MaxFaults, MineBlock \/ UNCHANGED vars
    PROVE  VInv' /\ [AnyNext]_vars
<1>1. [AnyNext]_vars
  BY DEF AnyNext, Next, Step
<1>2. TypeInv' /\ TypeOK
  BY <1>1, TypeInvStep DEF VInv, TypeInv
<1>3. UNCHANGED <<config, ids, assertions, stakers, zombies>> /\ UNCHANGED lastCreatedAssertionID
  BY DEF MineBlock, vars, admin, chain, stakes, disputes, ids
<1>4. ContractInv'
  BY <1>2, <1>3, QuietKeeps DEF VInv, Keeps
<1>5. NodeInv'
  BY <1>3 DEF VInv, NodeInv, Fits, Holds, GoodCall, node
<1>6. VTypeOK'
  BY DEF VInv, VTypeOK, node
<1> QED BY <1>1, <1>2, <1>4, <1>5, <1>6 DEF VInv

LEMMA VStep == VInv /\ [VNext]_all => VInv' /\ [AnyNext]_vars
<1> SUFFICES ASSUME VInv, [VNext]_all PROVE VInv' /\ [AnyNext]_vars
  OBVIOUS
<1>0. safe \in 0..MaxSafe /\ faults \in 0..MaxFaults /\ nodes \subseteq Address
  BY NodesAreAddresses DEF VInv, VTypeOK
<1>1. ASSUME NEW a \in nodes, Progress(a) \/ SendFails(a) \/ IncludedLate(a) \/ Crash(a)
      PROVE  VInv' /\ [AnyNext]_vars
  <2>0. a \in Address
    BY <1>0
  <2>1. CASE validateGenesis(a)
    BY <2>0, <2>1, BeginStep DEF validateGenesis
  <2>2. CASE ensureStaked(a)
    BY <2>0, <2>2, EnsureStakedStep DEF ensureStaked
  <2>3. CASE rollback(a)
    BY <2>0, <2>3, RollbackStep DEF rollback
  <2>4. CASE getNextAssertionAttrs(a)
    BY <2>0, <2>4, TickStep DEF getNextAssertionAttrs
  <2>5. CASE createAssertion(a)
    BY <2>0, <2>5, CreateStep DEF createAssertion
  <2>6. CASE resolveFirstUnresolvedAssertion(a)
    BY <2>0, <2>6, ResolveStep DEF resolveFirstUnresolvedAssertion
  <2>7. CASE Receipt(a)
    BY <2>0, <2>7, ReceiptStep
  <2>8. CASE SendFails(a) \/ Crash(a)
    BY <2>0, <2>8, FaultStep DEF SendFails, Crash
  <2>9. CASE IncludedLate(a)
    BY <2>0, <2>9, LateStep
  <2> QED BY <1>1, <2>1, <2>2, <2>3, <2>4, <2>5, <2>6, <2>7, <2>8, <2>9 DEF Progress
<1>2. CASE L1Block
  <2>1. MineBlock /\ UNCHANGED node /\ UNCHANGED <<nodes, variant, safe, faults>>
    BY <1>2 DEF L1Block, env
  <2> QED BY <1>0, <2>1, ChainStep
<1>3. CASE NewSafe
  <2>1. UNCHANGED vars /\ UNCHANGED node /\ UNCHANGED <<nodes, variant, faults>>
    BY <1>3 DEF NewSafe
  <2>2. safe' \in 0..MaxSafe
    BY <1>0, <1>3, SafeAssumption, SMT DEF NewSafe
  <2> QED BY <1>0, <2>1, <2>2, ChainStep
<1>4. CASE UNCHANGED all
  <2>1. UNCHANGED vars /\ UNCHANGED node /\ UNCHANGED <<nodes, variant, safe, faults>>
    BY <1>4 DEF all, env
  <2> QED BY <1>0, <2>1, ChainStep
<1> QED BY <1>1, <1>2, <1>3, <1>4 DEF VNext

-----------------------------------------------------------------------------
(* Theorems *)

\* However many validators run, fail and restart, variables have their types, and start
\* waits for a receipt exactly while a transaction is under way.
THEOREM NodeTypes == VSpec => []VTypeOK
<1>1. VInv => VTypeOK
  BY DEF VInv
<1> QED BY <1>1, VInvInit, VStep, PTL DEF VSpec

\* For every number of validators, faults and safe blocks, and for either form of the
\* contract: what a stepping node takes for its last assertion is one the contract holds.
THEOREM Believes == VSpec => []BelievesAsserted
<1>1. VInv => BelievesAsserted
  <2> SUFFICES ASSUME VInv, NEW a \in nodes, stepping(a), last[a] # InitialBlockNum
               PROVE  Holds(last[a])
    BY DEF BelievesAsserted, Holds
  <2>1. a \in Address
    BY NodesAreAddresses DEF VInv
  <2>2. pc[a] \in Stepping
    BY DEF stepping, Stepping
  <2> QED BY <2>1, <2>2 DEF VInv, NodeInv, Fits
<1> QED BY <1>1, VInvInit, VStep, PTL DEF VSpec

\* With two stakers, validators that run this code never confirm an assertion: an
\* unresolved one has a single stake, and confirmFirstUnresolvedAssertion wants them all.
THEOREM Stall == VSpec => TwoStakersStall
<1>1. ASSUME VInv, NEW a \in Address, ConfirmFirstUnresolvedAssertion(a)
      PROVE  numStakers # 2
  <2> DEFINE id == firstUnresolved
  <2>1. /\ hasUnresolved
        /\ assertions[id].numStakers = countStakedZombies(id) + numStakers
    BY <1>1 DEF ConfirmFirstUnresolvedAssertion, firstUnresolvedIsConfirmable
  <2>2. countStakedZombies(id) = 0
    <3>1. zombies = <<>>
      BY <1>1 DEF VInv, ContractInv
    <3>2. DOMAIN zombies = {}
      BY <3>1, SMT
    <3>3. {i \in DOMAIN zombies : zombies[i].stakerAddress \in assertionStakers[id]} = {}
      BY <3>2
    <3> QED BY <3>3, FS_EmptySet DEF countStakedZombies
  <2>3. /\ lastResolvedAssertionID \in AssertionID /\ lastCreatedAssertionID \in AssertionID
        /\ numStakers \in Nat
    BY <1>1 DEF VInv, TypeInv, TypeOK
  <2>4. id \in AssertionID /\ id <= lastCreatedAssertionID /\ lastResolvedAssertionID < id
    BY <2>1, <2>3, BoundsAssumption, SMT DEF AssertionID, hasUnresolved, firstUnresolved
  <2> HIDE DEF id
  <2>5. assertions[id].numStakers = 1
    BY <1>1, <2>4 DEF VInv, ContractInv
  <2>6. numStakers = 1
    BY <2>1, <2>2, <2>3, <2>5, SMT
  <2> QED BY <2>6, SMT
<1>2. VInv /\ [VNext]_all => [numStakers = 2 => lastConfirmedAssertionID' = lastConfirmedAssertionID]_all
  BY <1>1, VStep, OnlyConfirm
<1> QED BY <1>2, VInvInit, VStep, PTL DEF VSpec, TwoStakersStall

\* Every transaction of a validator is a call the contract's own specifications allow: the
\* composition implements the contract, so that what is proved of the contract (the soundness
\* of L1Portal's test, the chain of confirmed assertions, that stakes are covered, can be paid
\* and are counted exactly, and that confirmation takes all stakers) holds for it.
THEOREM ValidatorsUseContract ==
    VSpec => /\ Init /\ [][AnyNext]_vars
             /\ [](PortalSound /\ ConfirmedChain /\ StakeFloor /\ Solvent /\ StakeCountExact)
             /\ ConfirmedByAll
<1>1. StakeInv => PortalSound /\ ConfirmedChain /\ StakeFloor /\ Solvent /\ StakeCountExact
  BY SafePortal DEF SafeInv, ChainInv, StakeInv, CountInv, CountedAt, StakeCountExact
<1>2. VInit => Init
  BY DEF VInit
<1> QED BY <1>1, <1>2, VInvInit, VStep, InitStakeInv, StakeInvStep, ConfirmedByAllStep, PTL
        DEF VSpec, ConfirmedByAll
=============================================================================
