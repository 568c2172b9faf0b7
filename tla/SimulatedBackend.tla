-------------------------- MODULE SimulatedBackend --------------------------
(***************************************************************************)
(* ops/backends/simulated.go: the simulated chain on which the genesis     *)
(* tool deploys contracts.  A block stands for its whole chain, a sequence *)
(* of bodies from the genesis block <<>> on, as a hash does: two blocks    *)
(* with the same content are one.  Every method runs under the mutex, so a *)
(* call is a step; one that returns an error changes nothing and is not a  *)
(* step.  core.BlockChain is external: what InsertChain does to the head   *)
(* and to the index of transactions is modelled from how Commit uses it.   *)
(*                                                                         *)
(* X_why is a faulty variant of operator X, used by no specification.      *)
(***************************************************************************)
EXTENDS Integers, Sequences, SequencesExt, FiniteSets, TLC

CONSTANTS
    Account,
    Adjustment,         \* time shifts, in seconds
    TxGas, BlockGas,    \* the least gas of a transaction, the gas limit of a block
    Gas64,              \* 2^64
    MaxSteps,           \* bound on the steps of a search, beyond which it has no end
    MaxNumber,          \* bound on the numbers of forked blocks
    MaxNonce,           \* bound on the nonces a client uses
    MaxBlocks           \* bound on the blocks inserted

VARIABLES
    merged,             \* the chain configuration: proof of stake, or the longest chain
    chain, head,        \* the blocks inserted, the current block
    index,              \* transaction -> number of the block it is looked up in
    pendingBlock, pendingState, pendingReceipts,
    panicked

backend == <<merged, chain, head, index, pendingBlock, pendingState, pendingReceipts, panicked>>

\* What a transaction does: deploys a contract, reverts, or cannot be applied at all.
Tx == [from : Account, nonce : Nat, does : {"deploys", "reverts", "isInvalid"}]

parent(b) == Front(b)
txs(b) == b[Len(b)].txs
time(b) == IF b = <<>> THEN 0 ELSE b[Len(b)].time
allTxs(b) == FlattenSeq([i \in DOMAIN b |-> b[i].txs])

\* The state after a block: nonces, contracts, and what calls leave behind (nothing).
StateOf(b) ==
    LET all == ToSet(allTxs(b))
    IN  [nonce |-> [a \in Account |-> Cardinality({t \in all : t.from = a})],
         code |-> {[t EXCEPT !.does = "deployed"] : t \in {u \in all : u.does = "deploys"}},
         rich |-> {}]

\* core.GenerateChain for one block.
child(b, list, shift) == Append(b, [txs |-> list, time |-> time(b) + 10 + shift])

rollback(b) ==
    /\ pendingBlock' = child(b, <<>>, 0)
    /\ pendingState' = StateOf(child(b, <<>>, 0))

BackendInit ==
    /\ merged \in BOOLEAN
    /\ chain = {<<>>} /\ head = <<>> /\ index = <<>>
    /\ pendingBlock = child(<<>>, <<>>, 0) /\ pendingState = StateOf(<<>>)
    /\ pendingReceipts = <<>> /\ panicked = FALSE

-----------------------------------------------------------------------------
(* Writing *)

\* The block becomes the head or not: after the merge always, before it if its chain is
\* longer, perhaps if it is as long; a block of the current chain never does.
heads(b) ==
    IF IsPrefix(b, head) THEN {head}
    ELSE IF merged \/ Len(b) > Len(head) THEN {b}
    ELSE IF Len(b) = Len(head) THEN {b, head} ELSE {head}

\* A reorganisation drops the entries of transactions that are gone and writes those of
\* the new ancestors; those of the block itself are written in the background.
reindexed(new) ==
    LET gone == ToSet(allTxs(head)) \ ToSet(allTxs(new))
        adopted == {i \in 1..(Len(new) - 1) : ~IsPrefix(SubSeq(new, 1, i), head)}
    IN  IF new = head THEN index
        ELSE [t \in UNION {ToSet(new[i].txs) : i \in adopted} |->
                CHOOSE i \in adopted : t \in ToSet(new[i].txs)]
             @@ [t \in DOMAIN index \ gone |-> index[t]]

entries(b) == [t \in ToSet(txs(b)) |-> Len(b)]

Commit_noIndex ==
    /\ parent(pendingBlock) \in chain
    /\ chain' = chain \cup {pendingBlock}
    /\ head' \in heads(pendingBlock)
    /\ index' = reindexed(head')
    /\ rollback(pendingBlock)
    /\ UNCHANGED <<merged, pendingReceipts, panicked>>
Commit ==
    \/ /\ parent(pendingBlock) \in chain
       /\ chain' = chain \cup {pendingBlock}
       /\ head' \in heads(pendingBlock)
       /\ index' = entries(pendingBlock) @@ reindexed(head')
       /\ rollback(pendingBlock)
       /\ UNCHANGED <<merged, pendingReceipts, panicked>>
    \/ /\ parent(pendingBlock) \notin chain
       /\ panicked' = TRUE
       /\ UNCHANGED <<merged, chain, head, index, pendingBlock, pendingState, pendingReceipts>>

Rollback ==
    /\ rollback(head)
    /\ UNCHANGED <<merged, chain, head, index, pendingReceipts, panicked>>

\* The parent may be any block of the chain, and the pending block itself.
Fork(b) ==
    /\ txs(pendingBlock) = <<>>
    /\ rollback(b)
    /\ UNCHANGED <<merged, chain, head, index, pendingReceipts, panicked>>

\* The block is built again with one transaction more; a shift of its time is lost.
SendTransaction(t) ==
    /\ parent(pendingBlock) \in chain
    /\ t.nonce = pendingState.nonce[t.from]
    /\ IF t.does = "isInvalid"
       THEN panicked' = TRUE /\ UNCHANGED <<pendingBlock, pendingState, pendingReceipts>>
       ELSE LET b == child(parent(pendingBlock), Append(txs(pendingBlock), t), 0)
            IN  /\ pendingBlock' = b /\ pendingState' = StateOf(b) /\ pendingReceipts' = txs(b)
                /\ UNCHANGED panicked
    /\ UNCHANGED <<merged, chain, head, index>>

AdjustTime(shift) ==
    /\ txs(pendingBlock) = <<>>
    /\ parent(pendingBlock) \in chain
    /\ LET b == child(parent(pendingBlock), <<>>, shift)
       IN  IF time(b) <= time(parent(b))
           THEN panicked' = TRUE /\ UNCHANGED <<pendingBlock, pendingState>>
           ELSE pendingBlock' = b /\ pendingState' = StateOf(b) /\ UNCHANGED panicked
    /\ UNCHANGED <<merged, chain, head, index, pendingReceipts>>

-----------------------------------------------------------------------------
(* Reading *)

blockByNumber(n) == IF n = Len(pendingBlock) THEN head ELSE SubSeq(head, 1, n)
stateByBlockNumber(n) == IF n = Len(head) THEN StateOf(head) ELSE StateOf(blockByNumber(n))
NonceAt(a, n) == stateByBlockNumber(n).nonce[a]
CodeAt(t) == [t EXCEPT !.does = "deployed"] \in StateOf(head).code

\* The entry names a block of the current chain, which has the receipt or not.
TransactionReceipt(t) ==
    t \in DOMAIN index /\ index[t] <= Len(head) /\ t \in ToSet(head[index[t]].txs)

\* A call makes its caller rich, in a state that is thrown away or taken back.
callContract(state, a) == [state EXCEPT !.rich = @ \cup {a}]
RevertToSnapshot(state, snapshot) == snapshot
PendingCallContract_noRevert(a) ==
    /\ pendingState' = callContract(pendingState, a)
    /\ UNCHANGED <<merged, chain, head, index, pendingBlock, pendingReceipts, panicked>>
PendingCallContract(a) ==
    /\ pendingState' = RevertToSnapshot(callContract(pendingState, a), pendingState)
    /\ UNCHANGED <<merged, chain, head, index, pendingBlock, pendingReceipts, panicked>>

\* EstimateGas of a call with a gas limit, a price, a value and a balance, that needs
\* c.needs gas (Gas64: fails with any).  No answer is an error; Endless, no answer.
NoGas == -1
Endless == -2
allowance(c) ==
    LET hi == IF c.gas >= TxGas THEN c.gas ELSE BlockGas
    IN  IF c.price = 0 THEN hi
        ELSE IF c.value >= c.balance THEN NoGas
        ELSE Min({hi, (c.balance - c.value) \div c.price})
middle(lo, hi) == ((lo + hi) % Gas64) \div 2
\* The search may have ended at the cap without trying it.
failsAtCap_untried(hi, cap, c) == FALSE
failsAtCap(hi, cap, c) == hi = cap /\ cap < c.needs
EstimateGas(c) ==
    LET cap == allowance(c)
        search[k \in 0..MaxSteps] ==
            IF k = 0 THEN <<TxGas - 1, cap>>
            ELSE LET s == search[k - 1]
                     mid == middle(s[1], s[2])
                 IN  IF s[1] + 1 >= s[2] THEN s
                     ELSE IF mid < c.needs THEN <<mid, s[2]>> ELSE <<s[1], mid>>
        end == search[MaxSteps]
        hi == end[2]
    IN  IF cap = NoGas THEN NoGas
        ELSE IF end[1] + 1 < hi THEN Endless
        ELSE IF failsAtCap(hi, cap, c) THEN NoGas
        ELSE hi

\* Any client: an actor that calls the methods in any order.
Client ==
    /\ ~panicked
    /\ \/ Cardinality(chain) < MaxBlocks /\ Commit
       \/ Rollback
       \/ \E b \in chain \cup {pendingBlock} : Len(b) < MaxNumber /\ Fork(b)
       \/ \E t \in [from : Account, nonce : 0..MaxNonce, does : {"deploys", "reverts", "isInvalid"}] :
             SendTransaction(t)
       \/ \E s \in Adjustment : AdjustTime(s)
       \/ \E a \in Account : PendingCallContract(a)

-----------------------------------------------------------------------------
(* Properties *)

\* The pending state is the state after the pending block, whatever calls were simulated
\* on it, and the pending receipts are those of the pending block, if it has any.
PendingExact ==
    /\ pendingState = StateOf(pendingBlock)
    /\ txs(pendingBlock) # <<>> => pendingReceipts = txs(pendingBlock)

\* Through every Fork and reorganisation the receipt of a transaction of the current chain
\* can be read, unless the same transaction was also committed in another block, at another
\* height: Commit then has overwritten its entry.  The states read by number agree with
\* the receipt: before its block the transaction's nonce was still to come, after it it is
\* used.  (The number of the pending block reads the head, even if it is lower.)
ReceiptsFound ==
    /\ \A t \in ToSet(allTxs(head)) :
          \/ TransactionReceipt(t)
          \/ \E b \in chain : /\ ~IsPrefix(b, head) /\ b # <<>> /\ t \in ToSet(txs(b))
                              /\ Len(b) > Len(head) \/ t \notin ToSet(head[Len(b)].txs)
    /\ \A t \in DOMAIN index : TransactionReceipt(t) =>
          /\ t.nonce < NonceAt(t.from, index[t])
          /\ NonceAt(t.from, index[t] - 1) <= t.nonce \/ index[t] - 1 = Len(pendingBlock)

\* An estimate is the least gas limit with which the call succeeds, and there is one if
\* the call succeeds at the cap; below 2^63 the search ends.  Above, it may have no end.
EstimatesLeast(calls) ==
    \A c \in calls :
        LET e == EstimateGas(c)
        IN  /\ e >= 0 => e = c.needs /\ e <= allowance(c)
            /\ e = NoGas => allowance(c) < c.needs
            /\ e = Endless => 2 * allowance(c) >= Gas64
=============================================================================
