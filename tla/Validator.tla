------------------------------ MODULE Validator -----------------------------
(***************************************************************************)
(* services/validator/validator.go composed with the contract of module    *)
(* Rollup.  Each node runs Validator.start: it checks the genesis, makes   *)
(* sure it is staked, reads back what it asserted last, and then on every  *)
(* tick proposes the safe L2 block and tries to confirm the first          *)
(* unresolved assertion.  Every remote call is a step of its own where its  *)
(* answer may have changed since the call before.                          *)
(*                                                                         *)
(* A transaction goes through the transaction manager (TxSend): its gas is *)
(* estimated, which fails if it would revert; then it is included, and may *)
(* revert; or Send returns an error and L1 may still include it later.     *)
(*                                                                         *)
(* X_why is a faulty variant of operator X, used by no specification.      *)
(***************************************************************************)
EXTENDS RollupForks

CONSTANTS
    Node,               \* the sets of validators that may be running
    Variant,            \* the contract as coded, with sibling assertions, or either
    blockHash(_),       \* computeVmHash: the hash of an L2 block
    Word,               \* 2^64
    MaxSafe,            \* bound on the safe L2 block number
    MaxFaults,          \* bound on failed sends and crashes
    NoCall

VARIABLES
    nodes, variant,     \* who runs, and against which contract
    pc,                 \* node -> where start is
    read,               \* node -> the number it read last: an amount, an ID or a block
    last,               \* node -> lastCreatedAssertionAttrs.l2BlockNum
    call,               \* node -> the transaction being sent
    late,               \* node -> a transaction whose Send failed, still pending on L1
    safe,               \* the safe L2 block
    faults

node == <<pc, read, last, call, late>>
env == <<nodes, variant, safe, faults>>
all == <<vars, node, env>>

Call == [op : {"stake", "create", "confirm"}, arg : Nat]

ASSUME NodeAssumption == UNION Node \subseteq InitialValidators
ASSUME StakeFits ==
    Word \in Nat /\ InitialConfig.baseStakeAmount < Word /\ InitialConfig.baseStakeAmount \in Amount
ASSUME SafeAssumption ==
    /\ MaxSafe \in Nat /\ MaxFaults \in Nat /\ NoCall \notin Call
    /\ \A n \in 1..MaxSafe : n \in BlockNum /\ blockHash(n) \in Hash
\* validateGenesis takes assertion 0 for the first one.
ASSUME GenesisAssumption == InitialAssertionID = 0

VInit ==
    /\ Init
    /\ nodes \in Node /\ variant \in Variant
    /\ pc = [a \in Address |-> "down"]
    /\ read = [a \in Address |-> 0] /\ last = [a \in Address |-> 0]
    /\ call = [a \in Address |-> NoCall] /\ late = [a \in Address |-> NoCall]
    /\ safe = 0 /\ faults = 0

-----------------------------------------------------------------------------
(* The transactions: bridge/tx_mgr.go *)

\* The amount is converted to a uint64.
stakeCall(amount) == [op |-> "stake", arg |-> amount % Word]
createCall(n) == [op |-> "create", arg |-> n]
confirmCall == [op |-> "confirm", arg |-> 0]

createAssertionHelper(a, n) ==
    LET parentID == stakers[a].assertionID
    IN  isNewChild(parentID, IF variant = "coded" THEN assertions[parentID].blockNum
                             ELSE assertions[parentID].childBlockNum, blockHash(n), n)

\* Whether the contract accepts a transaction now, and what it does.
accepts(a, c) ==
    \/ c.op = "stake" /\ a \in validators /\ (isStaked(a) \/ c.arg >= config.baseStakeAmount)
    \/ c.op = "create" /\ canPropose(a, c.arg) /\ createAssertionHelper(a, c.arg)
    \/ c.op = "confirm" /\ a \in validators /\ firstUnresolvedIsConfirmable
Execute(a, c) ==
    \/ c.op = "stake" /\ Stake(a, c.arg)
    \/ c.op = "create" /\ variant = "coded" /\ CreateAssertion(a, blockHash(c.arg), c.arg)
    \/ c.op = "create" /\ variant = "forks" /\ CreateSibling(a, blockHash(c.arg), c.arg)
    \/ c.op = "confirm" /\ ConfirmFirstUnresolvedAssertion(a)

-----------------------------------------------------------------------------
(* The steps of a node *)

Goto(a, next) == pc' = [pc EXCEPT ![a] = next]
Sends(a, c, next) ==
    /\ Goto(a, IF accepts(a, c) THEN next ELSE IF next = "staking" THEN "down" ELSE "tick")
    /\ call' = [call EXCEPT ![a] = IF accepts(a, c) THEN c ELSE NoCall]

\* start begins: validateGenesis compares assertion 0 with the L2 genesis block.
validateGenesis(a) ==
    /\ pc[a] = "down"
    /\ IF assertions[0].stateHash = InitialHash THEN Goto(a, "ensureStaked") ELSE UNCHANGED pc
    /\ last' = [last EXCEPT ![a] = 0] /\ read' = [read EXCEPT ![a] = 0]
    /\ UNCHANGED <<vars, call, late, env>>

ensureStaked(a) ==
    \/ /\ pc[a] = "ensureStaked"
       /\ Goto(a, IF isStaked(a) THEN "rollback" ELSE "stake")
       /\ read' = [read EXCEPT ![a] = config.baseStakeAmount]
       /\ UNCHANGED <<vars, last, call, late, env>>
    \/ /\ pc[a] = "stake"
       /\ Sends(a, stakeCall(read[a]), "staking")
       /\ UNCHANGED <<vars, read, last, late, env>>

\* The staker's position, then the assertion there.
rollback(a) ==
    \/ /\ pc[a] = "rollback"
       /\ read' = [read EXCEPT ![a] = stakers[a].assertionID]
       /\ Goto(a, "rollbackTo")
       /\ UNCHANGED <<vars, last, call, late, env>>
    \/ /\ pc[a] = "rollbackTo"
       /\ last' = [last EXCEPT ![a] = assertions[read[a]].blockNum]
       /\ Goto(a, "tick")
       /\ UNCHANGED <<vars, read, call, late, env>>

\* createAssertion: step ends if it fails.
isNew_same(n, previous) == n >= previous
isNew(n, previous) == n > previous
getNextAssertionAttrs(a) ==
    /\ pc[a] = "tick"
    /\ read' = [read EXCEPT ![a] = safe]
    /\ Goto(a, IF isNew(safe, last[a]) THEN "create" ELSE "resolve")
    /\ UNCHANGED <<vars, last, call, late, env>>

createAssertion_goesOn(a) ==
    /\ pc[a] = "create"
    /\ Goto(a, IF accepts(a, createCall(read[a])) THEN "creating" ELSE "resolve")
    /\ call' = [call EXCEPT ![a] = IF accepts(a, createCall(read[a])) THEN createCall(read[a]) ELSE NoCall]
    /\ UNCHANGED <<vars, read, last, late, env>>
createAssertion(a) ==
    /\ pc[a] = "create"
    /\ Sends(a, createCall(read[a]), "creating")
    /\ UNCHANGED <<vars, read, last, late, env>>

\* Whatever the reason why it is not confirmable, the node goes on.
resolveFirstUnresolvedAssertion(a) ==
    \/ /\ pc[a] = "resolve"
       /\ Goto(a, IF firstUnresolvedIsConfirmable THEN "confirm" ELSE "tick")
       /\ UNCHANGED <<vars, read, last, call, late, env>>
    \/ /\ pc[a] = "confirm"
       /\ Sends(a, confirmCall, "confirming")
       /\ UNCHANGED <<vars, read, last, late, env>>

-----------------------------------------------------------------------------
(* The ends of a Send *)

next(a) == CASE pc[a] = "staking" -> "rollback" [] pc[a] = "creating" -> "resolve"
             [] pc[a] = "confirming" -> "tick" [] OTHER -> pc[a]

\* A receipt.  Its status matters for an assertion only.
created_anyStatus(a) == call[a].op = "create"
created(a) == call[a].op = "create" /\ accepts(a, call[a])
Receipt(a) ==
    /\ call[a] # NoCall
    /\ IF accepts(a, call[a]) THEN Execute(a, call[a]) ELSE UNCHANGED vars
    /\ last' = IF created(a) THEN [last EXCEPT ![a] = call[a].arg] ELSE last
    /\ call' = [call EXCEPT ![a] = NoCall] /\ Goto(a, next(a))
    /\ UNCHANGED <<read, late, env>>

fault == faults < MaxFaults /\ faults' = faults + 1 /\ UNCHANGED <<nodes, variant, safe>>

\* An error, with the transaction pending or not; a node that was staking gives up.
SendFails(a) ==
    /\ call[a] # NoCall /\ fault
    /\ late' \in {late, [late EXCEPT ![a] = call[a]]}
    /\ call' = [call EXCEPT ![a] = NoCall]
    /\ Goto(a, IF call[a].op = "stake" THEN "down" ELSE "tick")
    /\ UNCHANGED <<vars, read, last>>

IncludedLate(a) ==
    /\ late[a] # NoCall
    /\ late' = [late EXCEPT ![a] = NoCall]
    /\ IF accepts(a, late[a]) THEN Execute(a, late[a]) ELSE UNCHANGED vars
    /\ UNCHANGED <<pc, read, last, call, env>>

Crash(a) ==
    /\ pc[a] # "down" /\ fault
    /\ Goto(a, "down")
    /\ late' \in {late} \cup (IF call[a] = NoCall THEN {} ELSE {[late EXCEPT ![a] = call[a]]})
    /\ call' = [call EXCEPT ![a] = NoCall]
    /\ UNCHANGED <<vars, read, last>>

-----------------------------------------------------------------------------
(* L1 and L2 go on.  Only blocks that a deadline waits for matter. *)

L1Block == hasUnresolved /\ blockNumber < assertions[firstUnresolved].deadline /\ MineBlock
                         /\ UNCHANGED <<node, env>>
NewSafe ==
    /\ safe < MaxSafe /\ safe' = safe + 1
    /\ UNCHANGED <<vars, node, nodes, variant, faults>>

Progress(a) ==
    \/ validateGenesis(a) \/ ensureStaked(a) \/ rollback(a)
    \/ getNextAssertionAttrs(a) \/ createAssertion(a) \/ resolveFirstUnresolvedAssertion(a)
    \/ Receipt(a)

VNext ==
    \/ \E a \in nodes : Progress(a) \/ SendFails(a) \/ IncludedLate(a) \/ Crash(a)
    \/ L1Block \/ NewSafe

VSpec == VInit /\ [][VNext]_all

\* Nodes tick and are restarted; L1 and L2 go on.
VFairSpec ==
    VSpec /\ WF_all(L1Block) /\ WF_all(NewSafe) /\ \A a \in UNION Node : WF_all(a \in nodes /\ Progress(a))

-----------------------------------------------------------------------------
(* Properties *)

\* Variables have their types, and a transaction is under way exactly where start waits
\* for a receipt: an error of sendRollupTx is never taken for one.
VTypeOK ==
    /\ nodes \in Node /\ variant \in Variant
    /\ pc \in [Address -> {"down", "ensureStaked", "stake", "staking", "rollback", "rollbackTo",
                           "tick", "create", "creating", "resolve", "confirm", "confirming"}]
    /\ read \in [Address -> Nat] /\ last \in [Address -> Nat]
    /\ call \in [Address -> Call \cup {NoCall}] /\ late \in [Address -> Call \cup {NoCall}]
    /\ safe \in 0..MaxSafe /\ faults \in 0..MaxFaults
    /\ \A a \in Address : call[a] # NoCall <=> pc[a] \in {"staking", "creating", "confirming"}

stepping(a) == pc[a] \in {"tick", "create", "creating", "resolve", "confirm", "confirming"}

\* What a stepping node takes for its last assertion is one the contract holds, whatever
\* reverted, was lost, or was included after its Send failed or the node restarted.
BelievesAsserted ==
    \A a \in nodes : stepping(a) /\ last[a] # InitialBlockNum =>
        \E id \in AssertionID : id <= lastCreatedAssertionID /\ assertions[id].blockNum = last[a]

\* The contract holds the safe block, but the node does not know: its Send had failed.
inVain(a) == last[a] < safe /\ assertions[stakers[a].assertionID].blockNum = safe

\* A node alone, with sibling assertions: every safe block is covered in the end by a
\* confirmed assertion, whatever sends failed, were late or were cut off by a crash.  The
\* exception: a proposal included after its Send failed is tried again in vain, and
\* nothing is confirmed meanwhile, unless L2 has a new safe block or the node restarts.
Confirms ==
    \A n \in 1..MaxSafe :
        (variant = "forks" /\ Cardinality(nodes) = 1 /\ safe >= n)
            ~> (confirmedBlockNum >= n \/ [](\E a \in nodes : inVain(a)))

\* With two stakers that run this code nothing is ever confirmed: the proposal of the
\* second is a duplicate, no node advances its stake, and confirmation wants all stakers.
TwoStakersStall == [][numStakers = 2 => lastConfirmedAssertionID' = lastConfirmedAssertionID]_all

\* As coded, a second proposal always fails and ends the step before it resolves anything:
\* once L2 is past the assertion, nothing that is not on its way confirms it.
resolving(a) ==
    \/ pc[a] \in {"resolve", "confirm", "confirming"} \/ call[a] # NoCall \/ late[a] # NoCall
starved ==
    /\ variant = "coded" /\ hasUnresolved /\ safe > assertions[firstUnresolved].blockNum
    /\ \A a \in nodes : ~resolving(a) /\ (pc[a] = "create" => read[a] = safe)
ConfirmationStarves == [](starved => []hasUnresolved)
=============================================================================
