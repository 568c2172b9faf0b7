----------------------------- MODULE TxManager ------------------------------
(***************************************************************************)
(* services/sidecar/rollup/rpc/eth/txmgr: one transaction manager, several *)
(* concurrent calls of its Send.  A call crafts a transaction (craftTx in  *)
(* retry.Do), then runs sendTx: a loop that bumps the fees on every tick,  *)
(* and a goroutine per published version that polls for its receipt.  Each *)
(* remote call is a step; the L1 node (pool, blocks, reorganisations) is   *)
(* modelled as the manager uses it.                                        *)
(*                                                                         *)
(* X_why is a faulty variant of operator X, used by no specification.      *)
(***************************************************************************)
EXTENDS Naturals, Sequences

CONSTANTS
    Call,                     \* calls of Send, each with its own candidate
    NoCall, NoTx, NoNonce,    \* nil
    Impatient,                \* calls with a deadline: TxSendTimeout or the caller's
    Market,                   \* the tips and base fees L1 may suggest
    FeeSample,                \* the fees FeesReplace speaks of
    PriceBump,                \* priceBump, in percent
    FeeLimitMultiplier,       \* feeLimitMultiplier
    NumConfirmations,
    SafeAbort,                \* SafeAbortNonceTooLowCount
    MaxAttempts,              \* the attempts send gives retry.Do
    MaxFaults                 \* bound on failed signatures, publications and further
                              \* calls, evictions and reorganisations

VARIABLES
    nonce,                    \* m.nonce
    pc,                       \* call -> where Send is
    attempts,                 \* call -> failed rounds of retry.Do
    tx,                       \* call -> tx of sendTx
    publishing,               \* call -> goroutines in SendTransaction
    waiting,                  \* call -> goroutines in waitMined; height is that of
                              \* a receipt just read, or 0
    sendState,                \* call -> SendState
    receipt,                  \* call -> receiptChan
    mempool, chain,           \* L1: pending transactions, blocks
    orphaned,                 \* history: transactions in blocks reorganised away
    faults                    \* how many happened so far

calls == <<pc, attempts, tx, publishing, waiting, sendState, receipt>>
l1 == <<mempool, chain, orphaned>>
vars == <<nonce, calls, l1, faults>>

Tx == [call : Call, nonce : Nat, tip : Nat, fee : Nat]
SendState == [minedTxs : SUBSET Tx, nonceTooLowCount : Nat, published : BOOLEAN]
Waiter == [tx : Tx, height : Nat]
Block == [tx : Tx \cup {NoTx}, nonce : Nat]

ASSUME MarketAssumption == Market \subseteq [tip : Nat, baseFee : Nat] /\ FeeSample \subseteq Nat
ASSUME NilAssumption == Impatient \subseteq Call /\ NoCall \notin Call /\ NoTx \notin Tx /\ NoNonce \notin Nat
ASSUME LimitAssumption ==
    /\ PriceBump \in Nat /\ FeeLimitMultiplier \in Nat /\ NumConfirmations \in Nat \ {0}
    /\ SafeAbort \in Nat \ {0} /\ MaxAttempts \in Nat \ {0, 1}
    /\ MaxFaults \in Nat

newSendState == [minedTxs |-> {}, nonceTooLowCount |-> 0, published |-> FALSE]

Init ==
    /\ nonce = NoNonce
    /\ pc = [c \in Call |-> "idle"] /\ attempts = [c \in Call |-> 0]
    /\ tx = [c \in Call |-> NoTx] /\ receipt = [c \in Call |-> NoTx]
    /\ publishing = [c \in Call |-> {}] /\ waiting = [c \in Call |-> {}]
    /\ sendState = [c \in Call |-> newSendState]
    /\ mempool = {} /\ chain = <<>> /\ orphaned = {} /\ faults = 0

-----------------------------------------------------------------------------
(* Fees *)

\* Division rounds down.
calcThresholdValue(x) == (x * (100 + PriceBump)) \div 100
calcGasFeeCap(baseFee, tip) == tip + 2 * baseFee

updateFees(old, market) ==
    LET newFee == calcGasFeeCap(market.baseFee, market.tip)
        tip == calcThresholdValue(old.tip)
        fee == calcThresholdValue(old.fee)
    IN  IF market.tip >= tip
        THEN [tip |-> market.tip, fee |-> IF newFee >= fee THEN newFee ELSE fee]
        ELSE [tip |-> tip,
              fee |-> IF newFee >= fee THEN calcGasFeeCap(market.baseFee, tip) ELSE fee]

atMost(x, limit) == IF x > limit THEN limit ELSE x

\* The rest of increaseGasPrice: the nonce and the candidate stay.
increaseGasPrice_newNonce(old, market) ==
    [call |-> old.call, nonce |-> old.nonce + 1, tip |-> updateFees(old, market).tip,
     fee |-> updateFees(old, market).fee]
increaseGasPrice(old, market) ==
    LET bumped == updateFees(old, market)
        maxTip == market.tip * FeeLimitMultiplier
        maxFee == calcGasFeeCap(market.baseFee * FeeLimitMultiplier, maxTip)
    IN  [call |-> old.call, nonce |-> old.nonce,
         tip |-> atMost(bumped.tip, maxTip), fee |-> atMost(bumped.fee, maxFee)]

-----------------------------------------------------------------------------
(* What the manager uses of an L1 node *)

latestNonce == IF chain = <<>> THEN 0 ELSE chain[Len(chain)].nonce
heightsOf(t) == {i \in DOMAIN chain : chain[i].tx = t}

\* go-ethereum's rule for replacing a pending transaction.
outbids(t, u) ==
    /\ t.tip > u.tip /\ t.tip >= calcThresholdValue(u.tip)
    /\ t.fee > u.fee /\ t.fee >= calcThresholdValue(u.fee)
rivals(t) == {u \in mempool : u.nonce = t.nonce}
accepts(t) == t.nonce >= latestNonce /\ \A u \in rivals(t) : outbids(t, u)
Pooled(t) == (mempool \ rivals(t)) \cup {t}

Mine(t) ==
    /\ t.nonce = latestNonce
    /\ chain' = Append(chain, [tx |-> t, nonce |-> latestNonce + 1])
    /\ mempool' = mempool \ rivals(t)
    /\ UNCHANGED <<nonce, calls, orphaned, faults>>

\* A block without a transaction of this account matters while one is unconfirmed.
unsettled == \E i \in DOMAIN chain : chain[i].tx # NoTx /\ Len(chain) < i + NumConfirmations - 1
MineEmpty ==
    /\ unsettled
    /\ chain' = Append(chain, [tx |-> NoTx, nonce |-> latestNonce])
    /\ UNCHANGED <<nonce, calls, mempool, orphaned, faults>>

\* The last block is dropped; its transaction is pending again or lost.
Reorganise ==
    /\ chain # <<>>
    /\ faults < MaxFaults /\ faults' = faults + 1
    /\ chain' = SubSeq(chain, 1, Len(chain) - 1)
    /\ LET t == chain[Len(chain)].tx
       IN  IF t = NoTx THEN UNCHANGED <<mempool, orphaned>>
           ELSE orphaned' = orphaned \cup {t} /\ mempool' \in {mempool, Pooled(t)}
    /\ UNCHANGED <<nonce, calls>>

Evict(t) ==
    /\ faults < MaxFaults /\ faults' = faults + 1
    /\ mempool' = mempool \ {t}
    /\ UNCHANGED <<nonce, calls, chain, orphaned>>

-----------------------------------------------------------------------------
(* Crafting the transaction *)

\* Send runs the rounds of retry.Do, then sendTx, without a lock between them.
Send(c) == pc[c] \in {"idle", "craft"}

nextNonce == IF nonce = NoNonce THEN latestNonce ELSE nonce + 1

\* A round of retry.Do in which craftTx succeeds, and the start of sendTx.
CraftTx(c) ==
    \E market \in Market :
        LET t == [call |-> c, nonce |-> nextNonce, tip |-> market.tip,
                  fee |-> calcGasFeeCap(market.baseFee, market.tip)]
        IN  /\ Send(c)
            /\ nonce' = nextNonce
            /\ tx' = [tx EXCEPT ![c] = t]
            /\ publishing' = [publishing EXCEPT ![c] = {t}]
            /\ pc' = [pc EXCEPT ![c] = "loop"]
            /\ attempts' = [attempts EXCEPT ![c] = 0]
            /\ UNCHANGED <<waiting, sendState, receipt, l1, faults>>

\* A round in which a remote call fails or, with the nonce taken, the signature.
CraftFails(c) ==
    /\ Send(c)
    /\ attempts' = [attempts EXCEPT ![c] = @ + 1]
    /\ \/ /\ attempts[c] + 1 < MaxAttempts
          /\ pc' = [pc EXCEPT ![c] = "craft"]
          /\ \/ UNCHANGED <<nonce, faults>>
             \/ faults < MaxFaults /\ faults' = faults + 1 /\ nonce' = nextNonce
       \/ /\ attempts[c] + 1 = MaxAttempts
          /\ pc' = [pc EXCEPT ![c] = "failed"]
          /\ nonce' = NoNonce /\ UNCHANGED faults
    /\ UNCHANGED <<tx, publishing, waiting, sendState, receipt, l1>>

\* TxSendTimeout, or the caller's context, is done while rounds fail.
GiveUp(c) ==
    /\ c \in Impatient /\ pc[c] = "craft"
    /\ pc' = [pc EXCEPT ![c] = "failed"]
    /\ nonce' = NoNonce
    /\ UNCHANGED <<attempts, tx, publishing, waiting, sendState, receipt, l1, faults>>

\* A further call that ends without a transaction leaves only this behind.
resetNonce ==
    /\ nonce # NoNonce
    /\ faults < MaxFaults /\ faults' = faults + 1
    /\ nonce' = NoNonce
    /\ UNCHANGED <<calls, l1>>

-----------------------------------------------------------------------------
(* The goroutines that publish a version and wait for its receipt *)

\* The loop is over and the context of the goroutines canceled.
leaving(c) == pc[c] \in {"failing", "succeeding"}

ProcessSendError(c, err) ==
    sendState' = [sendState EXCEPT
        ![c].published = @ \/ err = "nil",
        ![c].nonceTooLowCount = IF err = "nonce too low" THEN atMost(@ + 1, SafeAbort) ELSE @]

Publish(c, t) ==
    /\ t \in publishing[c]
    /\ publishing' = [publishing EXCEPT ![c] = @ \ {t}]
    /\ \/ /\ accepts(t) /\ ~leaving(c)
          /\ mempool' = Pooled(t)
          /\ ProcessSendError(c, "nil")
          /\ waiting' = [waiting EXCEPT ![c] = @ \cup {[tx |-> t, height |-> 0]}]
          /\ UNCHANGED faults
       \/ /\ ~accepts(t) /\ ~leaving(c)
          /\ ProcessSendError(c, IF t.nonce < latestNonce THEN "nonce too low" ELSE "other")
          /\ UNCHANGED <<mempool, waiting, faults>>
       \/ /\ leaving(c) \/ faults < MaxFaults
          /\ faults' = IF leaving(c) THEN faults ELSE faults + 1
          /\ mempool' \in {mempool} \cup (IF accepts(t) THEN {Pooled(t)} ELSE {})
          /\ UNCHANGED <<waiting, sendState>>
    /\ UNCHANGED <<nonce, pc, attempts, tx, receipt, chain, orphaned>>

TxMined(s, t) == [s EXCEPT !.minedTxs = @ \cup {t}]
TxNotMined(s, t) ==
    [s EXCEPT !.minedTxs = @ \ {t},
              !.nonceTooLowCount = IF s.minedTxs = {t} THEN 0 ELSE @]

\* queryReceipt, first call.
QueryReceipt(c, w) ==
    /\ w \in waiting[c] /\ w.height = 0
    /\ \/ \E i \in heightsOf(w.tx) :
             /\ sendState' = [sendState EXCEPT ![c] = TxMined(@, w.tx)]
             /\ waiting' = [waiting EXCEPT ![c] = (@ \ {w}) \cup {[w EXCEPT !.height = i]}]
       \/ /\ heightsOf(w.tx) = {}
          /\ sendState' = [sendState EXCEPT ![c] = TxNotMined(@, w.tx)]
          /\ UNCHANGED waiting
    /\ UNCHANGED <<nonce, pc, attempts, tx, publishing, receipt, l1, faults>>

\* queryReceipt, second call, which reads the tip, and the send to receiptChan.
isConfirmed(height) == height + NumConfirmations <= Len(chain) + 1
QueryTip(c, w) ==
    /\ w \in waiting[c] /\ w.height # 0
    /\ \/ /\ isConfirmed(w.height)
          /\ waiting' = [waiting EXCEPT ![c] = @ \ {w}]
          /\ receipt' = [receipt EXCEPT ![c] = IF @ = NoTx THEN w.tx ELSE @]
       \/ /\ ~isConfirmed(w.height)
          /\ waiting' = [waiting EXCEPT ![c] = (@ \ {w}) \cup {[w EXCEPT !.height = 0]}]
          /\ UNCHANGED receipt
    /\ UNCHANGED <<nonce, pc, attempts, tx, publishing, sendState, l1, faults>>

-----------------------------------------------------------------------------
(* The loop of sendTx *)

IsWaitingForConfirmation(c) == sendState[c].minedTxs # {}
\* txInMempoolDeadline may pass at any time.
mayAbort(c) == ~IsWaitingForConfirmation(c) /\ ~sendState[c].published
ShouldAbortImmediately_never(c) == FALSE
ShouldAbortImmediately(c) ==
    ~IsWaitingForConfirmation(c) /\ sendState[c].nonceTooLowCount >= SafeAbort

\* A tick whose fee bump succeeds; without a signature it is the old transaction.
\* NetworkTimeout is below ResubmissionTimeout, so the last version has been published.
Resubmit(c) ==
    /\ pc[c] = "loop" /\ publishing[c] = {} /\ ~IsWaitingForConfirmation(c) /\ ~ShouldAbortImmediately(c)
    /\ \E t \in {increaseGasPrice(tx[c], market) : market \in Market} \cup {tx[c]} :
          /\ tx' = [tx EXCEPT ![c] = t]
          /\ publishing' = [publishing EXCEPT ![c] = @ \cup {t}]
    /\ UNCHANGED <<nonce, pc, attempts, waiting, sendState, receipt, l1, faults>>

\* The three ways out of the loop: too many errors, a context that is done, a receipt.
\* wg.Wait waits for the goroutine that publishes; those in waitMined stop at once.
Leave(c) ==
    /\ pc[c] = "loop"
    /\ waiting' = [waiting EXCEPT ![c] = {}]
    /\ sendState' = [sendState EXCEPT ![c] = newSendState]
    /\ UNCHANGED <<nonce, attempts, publishing, l1, faults>>
Failed(c) ==
    /\ Leave(c)
    /\ pc' = [pc EXCEPT ![c] = "failing"]
    /\ tx' = [tx EXCEPT ![c] = NoTx] /\ receipt' = [receipt EXCEPT ![c] = NoTx]
Abort(c) == (ShouldAbortImmediately(c) \/ mayAbort(c)) /\ Failed(c)
TimeOut(c) == c \in Impatient /\ Failed(c)
Confirm(c) ==
    /\ receipt[c] # NoTx /\ Leave(c)
    /\ pc' = [pc EXCEPT ![c] = "succeeding"]
    /\ UNCHANGED <<tx, receipt>>

\* Send resets the nonce after an error.
Return(c) ==
    /\ publishing[c] = {}
    /\ \/ pc[c] = "failing" /\ pc' = [pc EXCEPT ![c] = "failed"] /\ nonce' = NoNonce
       \/ pc[c] = "succeeding" /\ pc' = [pc EXCEPT ![c] = "ok"] /\ UNCHANGED nonce
    /\ UNCHANGED <<attempts, tx, publishing, waiting, sendState, receipt, l1, faults>>

-----------------------------------------------------------------------------
Goroutine(c) ==
    \/ \E t \in publishing[c] : Publish(c, t)
    \/ \E w \in waiting[c] : QueryReceipt(c, w) \/ QueryTip(c, w)
Loop(c) == Resubmit(c) \/ Abort(c) \/ Confirm(c) \/ Return(c)
Blocks == (\E t \in mempool : Mine(t)) \/ MineEmpty

Next ==
    \/ \E c \in Call : \/ CraftTx(c) \/ CraftFails(c) \/ GiveUp(c) \/ Goroutine(c) \/ Loop(c) \/ TimeOut(c)
    \/ resetNonce \/ Blocks \/ Reorganise \/ \E t \in mempool : Evict(t)

Spec == Init /\ [][Next]_vars

\* Goroutines run and tickers fire; L1 mines what is pending and executable.
FairSpec ==
    /\ Spec /\ WF_vars(Blocks)
    /\ \A c \in Call : WF_vars(Goroutine(c)) /\ WF_vars(Loop(c))

-----------------------------------------------------------------------------
(* Properties *)

\* Variables have their types.
TypeOK ==
    /\ nonce \in Nat \cup {NoNonce}
    /\ pc \in [Call -> {"idle", "craft", "loop", "failing", "succeeding", "failed", "ok"}]
    /\ attempts \in [Call -> Nat]
    /\ tx \in [Call -> Tx \cup {NoTx}] /\ receipt \in [Call -> Tx \cup {NoTx}]
    /\ publishing \in [Call -> SUBSET Tx]
    /\ waiting \in [Call -> SUBSET Waiter]
    /\ sendState \in [Call -> SendState]
    /\ mempool \subseteq Tx /\ chain \in Seq(Block) /\ orphaned \subseteq Tx
    /\ faults \in Nat

\* A receipt is delivered only for a transaction that is NumConfirmations deep, or
\* that was reorganised away between the two calls of queryReceipt or before.
ReceiptConfirmed ==
    [][\A c \in Call : receipt'[c] \notin {receipt[c], NoTx} =>
          \/ receipt'[c] \in orphaned
          \/ \E i \in heightsOf(receipt'[c]) : Len(chain) - i + 1 >= NumConfirmations]_vars

\* Two calls may get the same nonce, after resetNonce, but not both a receipt, unless
\* L1 reorganised one of the two away.
OneReceiptPerNonce ==
    \A c, d \in Call : c # d /\ pc[c] = "ok" /\ pc[d] = "ok" /\ tx[c].nonce = tx[d].nonce =>
        receipt[c] \in orphaned \/ receipt[d] \in orphaned

\* Before the limit is applied, new fees replace the old ones in the pool and cover
\* what L1 suggests, (a) to (c) of updateFees' comment, whichever of tip and base fee
\* moved, unless the old fees are so small that the bump is rounded away.
replaces(old, market) ==
    LET new == updateFees(old, market)
    IN  /\ outbids(new, old) \/ calcThresholdValue(old.tip) = old.tip
        /\ new.tip >= market.tip /\ new.fee >= calcGasFeeCap(market.baseFee, market.tip)
FeesReplace ==
    (\A c \in Call : pc[c] = "idle") =>
        \A tip, fee \in FeeSample, quote \in [tip : FeeSample, baseFee : FeeSample] :
            tip <= fee => replaces([tip |-> tip, fee |-> fee], quote)

\* The call waits for a nonce that nobody is using: one burnt by a failed signature,
\* or of a call that failed.
blocked(c) ==
    /\ pc[c] = "loop" /\ tx[c].nonce > latestNonce
    /\ \A t \in mempool \cup UNION {publishing[d] : d \in Call} : t.nonce # latestNonce
    /\ \A d \in Call : pc[d] = "loop" => tx[d].nonce # latestNonce

\* Send returns without the help of a deadline, even if its nonce went to another
\* call, its versions were replaced, evicted or reorganised away, or the replies were
\* lost, unless it waits for ever for a nonce that nobody uses.
SendReturns ==
    \A c \in Call \ Impatient : pc[c] = "loop" ~> (pc[c] \in {"ok", "failed"} \/ []blocked(c))

statusOf == [c \in Call |-> IF pc[c] \in {"idle", "ok", "failed"} THEN pc[c] ELSE "pending"]
callOf(b) == IF b.tx = NoTx THEN NoCall ELSE b.tx.call
blocksOf == [i \in DOMAIN chain |-> callOf(chain[i])]
droppedOf == {t.call : t \in orphaned}
Sends == INSTANCE TxSend WITH status <- statusOf, blocks <- blocksOf, dropped <- droppedOf

\* The manager implements TxSend: no call's transaction is on L1 twice, whatever
\* versions, conflicting calls and reorganisations there were, and a receipt
\* means inclusion.
ImplementsTxSend == Sends!Spec
=============================================================================
