-------------------------- MODULE TxManagerProofs ---------------------------
(***************************************************************************)
(* TxManager implements TxSend, and what that rests on: all versions of a  *)
(* call's transaction carry one nonce, and no two transactions of the      *)
(* chain share one.                                                        *)
(***************************************************************************)
EXTENDS TxManager, TLAPS

\* A leaf is left to Zenon unless it names another prover.
USE Zenon

-----------------------------------------------------------------------------
(* Types *)

\* Fees stay natural numbers when they are bumped and limited.
LEMMA BumpedType ==
    ASSUME NEW old \in Tx, NEW market \in Market
    PROVE  increaseGasPrice(old, market) \in Tx
<1>1. old.call \in Call /\ old.nonce \in Nat /\ old.tip \in Nat /\ old.fee \in Nat
  BY DEF Tx
<1>2. market.tip \in Nat /\ market.baseFee \in Nat
  BY MarketAssumption
<1>3. ASSUME NEW x \in Nat PROVE calcThresholdValue(x) \in Nat
  <2>1. x * (100 + PriceBump) \in Nat
    BY LimitAssumption, SMT
  <2> QED BY <2>1, SMT DEF calcThresholdValue
<1>4. ASSUME NEW x \in Nat, NEW y \in Nat PROVE calcGasFeeCap(x, y) \in Nat
  BY SMT DEF calcGasFeeCap
<1>5. updateFees(old, market).tip \in Nat /\ updateFees(old, market).fee \in Nat
  BY <1>1, <1>2, <1>3, <1>4 DEF updateFees
<1>6. market.tip * FeeLimitMultiplier \in Nat /\ market.baseFee * FeeLimitMultiplier \in Nat
  BY <1>2, LimitAssumption, SMT
<1>7. ASSUME NEW x \in Nat, NEW y \in Nat PROVE atMost(x, y) \in Nat
  BY DEF atMost
<1> QED BY <1>1, <1>4, <1>5, <1>6, <1>7 DEF increaseGasPrice, Tx

LEMMA LatestType ==
    ASSUME TypeOK
    PROVE  latestNonce \in Nat /\ nextNonce \in Nat
<1>1. chain # <<>> => chain[Len(chain)] \in Block
  BY SMT DEF TypeOK
<1> QED BY <1>1, SMT DEF TypeOK, latestNonce, nextNonce, Block

LEMMA FirstType ==
    ASSUME TypeOK, NEW c \in Call, NEW market \in Market
    PROVE  [call |-> c, nonce |-> nextNonce, tip |-> market.tip,
            fee |-> calcGasFeeCap(market.baseFee, market.tip)] \in Tx
<1>1. market.tip \in Nat /\ market.baseFee \in Nat
  BY MarketAssumption
<1>2. calcGasFeeCap(market.baseFee, market.tip) \in Nat
  BY <1>1, SMT DEF calcGasFeeCap
<1>3. nextNonce \in Nat
  BY LatestType
<1> QED BY <1>1, <1>2, <1>3 DEF Tx

LEMMA WaiterAt ==
    ASSUME NEW w \in Waiter, NEW h \in Nat
    PROVE  /\ w.tx \in Tx /\ w.height \in Nat
           /\ [w EXCEPT !.height = h] \in Waiter
           /\ [w EXCEPT !.height = h].tx = w.tx /\ [w EXCEPT !.height = h].height = h
BY DEF Waiter

LEMMA NewWaiter ==
    ASSUME NEW t \in Tx
    PROVE  [tx |-> t, height |-> 0] \in Waiter
BY DEF Waiter

LEMMA SendErrorType ==
    ASSUME sendState \in [Call -> SendState], NEW c \in Call, NEW err, ProcessSendError(c, err)
    PROVE  sendState' \in [Call -> SendState]
<1> DEFINE s == sendState[c]
           n == IF err = "nonce too low" THEN atMost(s.nonceTooLowCount + 1, SafeAbort)
                ELSE s.nonceTooLowCount
           p == s.published \/ err = "nil"
<1>1. s \in SendState /\ s.nonceTooLowCount \in Nat /\ s.published \in BOOLEAN
  BY DEF SendState
<1>2. n \in Nat
  <2>1. \A x \in Nat : atMost(x, SafeAbort) \in Nat
    BY LimitAssumption DEF atMost
  <2>2. atMost(s.nonceTooLowCount + 1, SafeAbort) \in Nat
    BY <1>1, <2>1, SMT
  <2> HIDE DEF s
  <2> QED BY <1>1, <2>2
<1>3. p \in BOOLEAN
  <2>1. p = TRUE \/ p = FALSE
    OBVIOUS
  <2> QED BY <2>1
<1>4. [s EXCEPT !.published = p, !.nonceTooLowCount = n] \in SendState
  BY <1>1, <1>2, <1>3 DEF SendState
<1>5. sendState' = [sendState EXCEPT ![c] = [s EXCEPT !.published = p, !.nonceTooLowCount = n]]
  BY DEF ProcessSendError
<1> QED BY <1>4, <1>5

LEMMA TypeInit == Init => TypeOK
BY SMT DEF Init, TypeOK, newSendState, SendState

\* The pool and the chain keep their types, whatever L1 does.
LEMMA TypeL1 ==
    ASSUME TypeOK, Blocks \/ Reorganise \/ \E t \in mempool : Evict(t)
    PROVE  TypeOK'
<1> USE DEF TypeOK, vars, calls
<1>1. CASE \E t \in mempool : Mine(t)
  <2> PICK t \in mempool : Mine(t)
    BY <1>1
  <2>1. [tx |-> t, nonce |-> latestNonce + 1] \in Block
    BY LatestType, SMT DEF Block
  <2> QED BY <2>1, SMT DEF Mine
<1>2. CASE MineEmpty
  <2>1. [tx |-> NoTx, nonce |-> latestNonce] \in Block
    BY LatestType DEF Block
  <2> QED BY <1>2, <2>1, SMT DEF MineEmpty
<1>3. CASE Reorganise
  <2>1. chain' \in Seq(Block) /\ chain[Len(chain)] \in Block
    BY <1>3, SMT DEF Reorganise
  <2>2. mempool' \subseteq Tx /\ orphaned' \subseteq Tx
    BY <1>3, <2>1 DEF Reorganise, Block, Pooled
  <2> QED BY <1>3, <2>1, <2>2, SMT DEF Reorganise
<1>4. CASE \E t \in mempool : Evict(t)
  BY <1>4, SMT DEF Evict
<1> QED BY <1>1, <1>2, <1>3, <1>4 DEF Blocks

LEMMA TypeCall ==
    ASSUME TypeOK, NEW c \in Call, pc[c] = "loop" => tx[c] # NoTx,
           CraftTx(c) \/ CraftFails(c) \/ GiveUp(c) \/ Goroutine(c) \/ Loop(c) \/ TimeOut(c)
    PROVE  TypeOK'
<1> USE DEF TypeOK, l1, calls
<1>1. CASE CraftTx(c)
  <2> PICK market \in Market :
          /\ nonce' = nextNonce
          /\ LET t == [call |-> c, nonce |-> nextNonce, tip |-> market.tip,
                       fee |-> calcGasFeeCap(market.baseFee, market.tip)]
             IN  tx' = [tx EXCEPT ![c] = t] /\ publishing' = [publishing EXCEPT ![c] = {t}]
    BY <1>1 DEF CraftTx
  <2>1. [call |-> c, nonce |-> nextNonce, tip |-> market.tip,
         fee |-> calcGasFeeCap(market.baseFee, market.tip)] \in Tx
    BY FirstType
  <2> QED BY <1>1, <2>1, LatestType, SMT DEF CraftTx
<1>2. CASE CraftFails(c)
  <2>1. nonce' \in Nat \cup {NoNonce} /\ faults' \in Nat
    BY <1>2, LatestType, SMT DEF CraftFails
  <2>2. attempts' \in [Call -> Nat]
    BY <1>2, SMT DEF CraftFails
  <2> QED BY <1>2, <2>1, <2>2 DEF CraftFails
<1>3. CASE GiveUp(c)
  BY <1>3 DEF GiveUp
<1>4. ASSUME NEW t \in publishing[c], Publish(c, t) PROVE TypeOK'
  <2>1. sendState' \in [Call -> SendState]
    BY <1>4, SendErrorType DEF Publish
  <2>2. mempool' \subseteq Tx
    <3>1. t \in Tx /\ Pooled(t) \subseteq Tx
      BY DEF Pooled
    <3> QED BY <1>4, <3>1 DEF Publish
  <2>3. waiting' \in [Call -> SUBSET Waiter]
    <3>1. waiting[c] \cup {[tx |-> t, height |-> 0]} \in SUBSET Waiter
      BY NewWaiter
    <3> QED BY <1>4, <3>1 DEF Publish
  <2>4. publishing' \in [Call -> SUBSET Tx]
    <3>1. publishing[c] \ {t} \in SUBSET Tx
      OBVIOUS
    <3> QED BY <1>4, <3>1 DEF Publish
  <2>5. faults' \in Nat
    <3>1. faults' = faults \/ faults' = faults + 1
      BY <1>4 DEF Publish
    <3> QED BY <3>1, SMT
  <2> QED BY <1>4, <2>1, <2>2, <2>3, <2>4, <2>5 DEF Publish
<1>5. ASSUME NEW w \in waiting[c], QueryReceipt(c, w) PROVE TypeOK'
  <2>0. w \in Waiter
    OBVIOUS
  <2>1. sendState' \in [Call -> SendState]
    <3>1. sendState[c] \in SendState /\ w.tx \in Tx
      BY <2>0, WaiterAt
    <3>2. TxMined(sendState[c], w.tx) \in SendState
      BY <3>1 DEF TxMined, SendState
    <3>3. TxNotMined(sendState[c], w.tx) \in SendState
      BY <3>1 DEF TxNotMined, SendState
    <3> QED BY <1>5, <3>2, <3>3 DEF QueryReceipt
  <2>2. waiting' \in [Call -> SUBSET Waiter]
    <3>1. ASSUME NEW i \in DOMAIN chain
          PROVE  (waiting[c] \ {w}) \cup {[w EXCEPT !.height = i]} \in SUBSET Waiter
      <4>1. i \in Nat
        BY SMT
      <4> QED BY <2>0, <4>1, WaiterAt, SMT
    <3>2. ASSUME NEW i \in heightsOf(w.tx),
                 waiting' = [waiting EXCEPT ![c] = (@ \ {w}) \cup {[w EXCEPT !.height = i]}]
          PROVE  waiting' \in [Call -> SUBSET Waiter]
      BY <3>1, <3>2 DEF heightsOf
    <3>3. waiting' = waiting => waiting' \in [Call -> SUBSET Waiter]
      OBVIOUS
    <3> QED BY <1>5, <3>2, <3>3 DEF QueryReceipt
  <2> QED BY <1>5, <2>1, <2>2 DEF QueryReceipt
<1>6. ASSUME NEW w \in waiting[c], QueryTip(c, w) PROVE TypeOK'
  <2>0. w \in Waiter /\ w.tx \in Tx /\ [w EXCEPT !.height = 0] \in Waiter
    BY WaiterAt
  <2>1. waiting' \in [Call -> SUBSET Waiter]
    <3>1. /\ waiting[c] \ {w} \in SUBSET Waiter
          /\ (waiting[c] \ {w}) \cup {[w EXCEPT !.height = 0]} \in SUBSET Waiter
      BY <2>0
    <3> QED BY <1>6, <3>1 DEF QueryTip
  <2>2. receipt' \in [Call -> Tx \cup {NoTx}]
    BY <1>6, <2>0 DEF QueryTip
  <2> QED BY <1>6, <2>1, <2>2 DEF QueryTip
<1>7. CASE Resubmit(c)
  <2>1. \A market \in Market : increaseGasPrice(tx[c], market) \in Tx
    BY <1>7, BumpedType DEF Resubmit
  <2>2. tx' \in [Call -> Tx \cup {NoTx}] /\ publishing' \in [Call -> SUBSET Tx]
    BY <1>7, <2>1, SMT DEF Resubmit
  <2> QED BY <1>7, <2>2 DEF Resubmit
<1>8. CASE Abort(c) \/ TimeOut(c) \/ Confirm(c)
  <2>1. newSendState \in SendState
    BY DEF newSendState, SendState
  <2>2. Leave(c) => waiting' \in [Call -> SUBSET Waiter] /\ sendState' \in [Call -> SendState]
    BY <2>1, SMT DEF Leave
  <2>3. Failed(c) => TypeOK'
    BY <2>2 DEF Failed, Leave
  <2>4. Confirm(c) => TypeOK'
    BY <2>2 DEF Confirm, Leave
  <2> QED BY <1>8, <2>3, <2>4 DEF Abort, TimeOut
<1>9. CASE Return(c)
  BY <1>9 DEF Return
<1> QED BY <1>1, <1>2, <1>3, <1>4, <1>5, <1>6, <1>7, <1>8, <1>9 DEF Goroutine, Loop

-----------------------------------------------------------------------------
(* The inductive invariant *)

\* Transaction t is somewhere: with L1, or with the call that made it.
Known(t) ==
    \/ t \in mempool \/ t \in orphaned
    \/ \E i \in DOMAIN chain : chain[i].tx = t
    \/ \E c \in Call : t \in publishing[c] \/ t = tx[c] \/ \E w \in waiting[c] : w.tx = t

\* The versions of a call's transaction appear once it is crafted and share its nonce.
OneNonce ==
    /\ \A t \in Tx : Known(t) => ~Send(t.call)
    /\ \A t, u \in Tx : Known(t) /\ Known(u) /\ t.call = u.call => t.nonce = u.nonce

\* What a call holds is its own.
Own ==
    \A c \in Call :
        /\ \A t \in publishing[c] : t.call = c
        /\ tx[c] # NoTx => tx[c].call = c
        /\ \A w \in waiting[c] : w.tx.call = c
        /\ receipt[c] # NoTx => receipt[c].call = c

\* A receipt read or delivered is of a transaction that L1 included.
Landed ==
    \A c \in Call :
        /\ \A w \in waiting[c] : w.height # 0 =>
              w.tx \in orphaned \/ (w.height \in DOMAIN chain /\ chain[w.height].tx = w.tx)
        /\ receipt[c] # NoTx =>
              receipt[c] \in orphaned \/ \E i \in DOMAIN chain : chain[i].tx = receipt[c]

\* The account's nonce never falls along the chain, and a block uses the one before it.
NoncesRise ==
    /\ \A i \in DOMAIN chain : chain[i].tx # NoTx => chain[i].tx.nonce < chain[i].nonce
    /\ \A i, j \in DOMAIN chain : i < j =>
          /\ chain[i].nonce <= chain[j].nonce
          /\ chain[j].tx # NoTx => chain[i].nonce <= chain[j].tx.nonce

\* What a call has at each point of Send.
Progress ==
    \A c \in Call :
        /\ pc[c] = "idle" => attempts[c] = 0
        /\ pc[c] \in {"loop", "succeeding", "ok"} => tx[c] # NoTx
        /\ pc[c] \in {"succeeding", "ok"} => receipt[c] # NoTx

IInv == TypeOK /\ OneNonce /\ Own /\ Landed /\ NoncesRise /\ Progress

\* What a new block and a dropped block do to the chain.
LEMMA AppendBlock ==
    ASSUME chain \in Seq(Block), NEW b \in Block, chain' = Append(chain, b)
    PROVE  /\ DOMAIN chain' = DOMAIN chain \cup {Len(chain) + 1}
           /\ \A i \in DOMAIN chain : i \in Nat \ {0} /\ i < Len(chain) + 1 /\ chain'[i] = chain[i]
           /\ Len(chain) + 1 \in Nat /\ chain'[Len(chain) + 1] = b
BY SMT

LEMMA DropBlock ==
    ASSUME chain \in Seq(Block), chain # <<>>, chain' = SubSeq(chain, 1, Len(chain) - 1)
    PROVE  /\ DOMAIN chain' = DOMAIN chain \ {Len(chain)} /\ Len(chain) \in DOMAIN chain
           /\ \A i \in DOMAIN chain' : chain'[i] = chain[i]
BY SMT

\* L1 adds no transaction of its own.
LEMMA KnownL1 ==
    ASSUME TypeOK, Blocks \/ Reorganise \/ \E t \in mempool : Evict(t),
           NEW u \in Tx, Known(u)'
    PROVE  Known(u)
<1>0. chain \in Seq(Block) /\ NoTx \notin Tx
  BY NilAssumption DEF TypeOK
<1>1. CASE \E t \in mempool : Mine(t)
  <2> PICK t \in mempool : Mine(t)
    BY <1>1
  <2>1. [tx |-> t, nonce |-> latestNonce + 1] \in Block
    BY LatestType, SMT DEF Block, TypeOK
  <2>2. \A i \in DOMAIN chain' : chain'[i].tx = u =>
            u = t \/ \E j \in DOMAIN chain : chain[j].tx = u
    BY <1>0, <2>1, AppendBlock, SMT DEF Mine
  <2> QED BY <2>2 DEF Known, Mine, calls
<1>2. CASE MineEmpty
  <2>1. [tx |-> NoTx, nonce |-> latestNonce] \in Block
    BY LatestType DEF Block
  <2>2. \A i \in DOMAIN chain' : chain'[i].tx = u => \E j \in DOMAIN chain : chain[j].tx = u
    BY <1>0, <1>2, <2>1, AppendBlock, SMT DEF MineEmpty
  <2> QED BY <1>2, <2>2 DEF Known, MineEmpty, calls
<1>3. CASE Reorganise
  <2> DEFINE t == chain[Len(chain)].tx
  <2>1. chain' = SubSeq(chain, 1, Len(chain) - 1) /\ chain # <<>>
    BY <1>3 DEF Reorganise
  <2>2. \A i \in DOMAIN chain' : chain'[i].tx = u => \E j \in DOMAIN chain : chain[j].tx = u
    BY <1>0, <2>1, DropBlock
  <2>3. Len(chain) \in DOMAIN chain
    BY <1>0, <2>1, DropBlock
  <2>4. u \in orphaned' => u \in orphaned \/ u = t
    BY <1>3 DEF Reorganise
  <2>5. u \in mempool' => u \in mempool \/ u = t
    BY <1>3, SMT DEF Reorganise, Pooled
  <2>6. UNCHANGED <<publishing, tx, waiting>>
    BY <1>3 DEF Reorganise, calls
  <2> QED BY <2>2, <2>3, <2>4, <2>5, <2>6 DEF Known
<1>4. CASE \E t \in mempool : Evict(t)
  BY <1>4 DEF Evict, Known, calls
<1> QED BY <1>1, <1>2, <1>3, <1>4 DEF Blocks

\* A call adds the transaction it crafts, and further versions with the nonce of the last.
CallStep(c) == CraftTx(c) \/ CraftFails(c) \/ GiveUp(c) \/ Goroutine(c) \/ Loop(c) \/ TimeOut(c)

LEMMA KnownCall ==
    ASSUME TypeOK, Own, Progress, NEW c \in Call, CallStep(c), NEW u \in Tx, Known(u)'
    PROVE  \/ Known(u)
           \/ u.call = c /\ CraftTx(c) /\ u = tx'[c]
           \/ u.call = c /\ tx[c] \in Tx /\ u.nonce = tx[c].nonce
<1>0. /\ NoTx \notin Tx
      /\ publishing \in [Call -> SUBSET Tx] /\ tx \in [Call -> Tx \cup {NoTx}]
      /\ waiting \in [Call -> SUBSET Waiter]
  BY NilAssumption DEF TypeOK
<1>1. CASE CraftTx(c)
  <2> PICK market \in Market :
          LET t == [call |-> c, nonce |-> nextNonce, tip |-> market.tip,
                    fee |-> calcGasFeeCap(market.baseFee, market.tip)]
          IN  tx' = [tx EXCEPT ![c] = t] /\ publishing' = [publishing EXCEPT ![c] = {t}]
    BY <1>1 DEF CraftTx
  <2>1. tx'[c].call = c /\ publishing'[c] = {tx'[c]}
    BY <1>0
  <2>2. \A d \in Call \ {c} : tx'[d] = tx[d] /\ publishing'[d] = publishing[d]
    BY <1>0
  <2>3. UNCHANGED <<waiting, mempool, chain, orphaned>>
    BY <1>1 DEF CraftTx, l1
  <2>4. CASE u = tx'[c]
    BY <1>1, <2>1, <2>4
  <2>5. CASE u # tx'[c]
    BY <2>1, <2>2, <2>3, <2>5 DEF Known
  <2> QED BY <2>4, <2>5
<1>2. CASE CraftFails(c) \/ GiveUp(c) \/ Return(c)
  <2>1. UNCHANGED <<tx, publishing, waiting, mempool, chain, orphaned>>
    BY <1>2 DEF CraftFails, GiveUp, Return, l1
  <2> QED BY <2>1 DEF Known
<1>4. ASSUME NEW t \in publishing[c], Publish(c, t) PROVE Known(u)
  <2>1. UNCHANGED <<tx, chain, orphaned>>
    BY <1>4 DEF Publish
  <2>2. u \in mempool' => u \in mempool \/ u = t
    BY <1>4 DEF Publish, Pooled
  <2>3. \A d \in Call : publishing'[d] \subseteq publishing[d]
    BY <1>0, <1>4 DEF Publish
  <2>4. waiting' = waiting \/ waiting' = [waiting EXCEPT ![c] = @ \cup {[tx |-> t, height |-> 0]}]
    BY <1>4 DEF Publish
  <2>5. \A d \in Call : \A w \in waiting'[d] : w \in waiting[d] \/ w.tx = t
    BY <1>0, <2>4, SMT
  <2> QED BY <2>1, <2>2, <2>3, <2>5 DEF Known
<1>5. ASSUME NEW w \in waiting[c], QueryReceipt(c, w) \/ QueryTip(c, w) PROVE Known(u)
  <2>1. UNCHANGED <<tx, publishing, mempool, chain, orphaned>>
    BY <1>5 DEF QueryReceipt, QueryTip, l1
  <2>2. \/ waiting' = waiting
        \/ waiting' = [waiting EXCEPT ![c] = @ \ {w}]
        \/ \E i \in Nat : waiting' = [waiting EXCEPT ![c] = (@ \ {w}) \cup {[w EXCEPT !.height = i]}]
    <3>1. DOMAIN chain \subseteq Nat
      BY SMT DEF TypeOK
    <3> QED BY <1>5, <3>1 DEF QueryReceipt, QueryTip, heightsOf
  <2>3. \A i \in Nat : [w EXCEPT !.height = i].tx = w.tx
    BY <1>0, WaiterAt
  <2>4. \A d \in Call : \A x \in waiting'[d] : x \in waiting[d] \/ x.tx = w.tx
    <3>1. \A d \in Call \ {c} : waiting'[d] = waiting[d]
      BY <1>0, <2>2
    <3>2. \/ waiting'[c] \subseteq waiting[c]
          \/ \E i \in Nat : waiting'[c] = (waiting[c] \ {w}) \cup {[w EXCEPT !.height = i]}
      BY <1>0, <2>2
    <3> QED BY <2>3, <3>1, <3>2
  <2> QED BY <2>1, <2>4 DEF Known
<1>6. CASE Resubmit(c)
  <2>1. tx[c] \in Tx /\ tx[c].call = c
    BY <1>0, <1>6 DEF Resubmit, Progress, Own
  <2>2. PICK t \in {increaseGasPrice(tx[c], market) : market \in Market} \cup {tx[c]} :
          tx' = [tx EXCEPT ![c] = t] /\ publishing' = [publishing EXCEPT ![c] = @ \cup {t}]
    BY <1>6 DEF Resubmit
  <2>3. t.call = c /\ t.nonce = tx[c].nonce
    BY <2>1, <2>2, SMT DEF increaseGasPrice
  <2>4. \A d \in Call : /\ tx'[d] = tx[d] \/ tx'[d] = t
                        /\ \A x \in publishing'[d] : x \in publishing[d] \/ x = t
    BY <1>0, <2>2
  <2>5. UNCHANGED <<waiting, mempool, chain, orphaned>>
    BY <1>6 DEF Resubmit, l1
  <2>6. CASE u = t
    BY <2>1, <2>3, <2>6
  <2>7. CASE u # t
    BY <2>4, <2>5, <2>7 DEF Known
  <2> QED BY <2>6, <2>7
<1>7. CASE Abort(c) \/ TimeOut(c) \/ Confirm(c)
  <2>1. UNCHANGED <<publishing, mempool, chain, orphaned>> /\ waiting' = [waiting EXCEPT ![c] = {}]
    BY <1>7 DEF Abort, TimeOut, Confirm, Failed, Leave, l1
  <2>2. tx' = tx \/ tx' = [tx EXCEPT ![c] = NoTx]
    BY <1>7 DEF Abort, TimeOut, Confirm, Failed
  <2>3. \A d \in Call : tx'[d] \in {tx[d], NoTx} /\ waiting'[d] \subseteq waiting[d]
    BY <1>0, <2>1, <2>2
  <2> QED BY <1>0, <2>1, <2>3 DEF Known
<1> QED BY <1>1, <1>2, <1>4, <1>5, <1>6, <1>7 DEF CallStep, Goroutine, Loop

\* A call that has left Send's first part does not return to it.
LEMMA CraftedStays ==
    ASSUME TypeOK, Next, NEW d \in Call, ~Send(d)
    PROVE  ~Send(d)'
<1>0. pc \in [Call -> {"idle", "craft", "loop", "failing", "succeeding", "failed", "ok"}]
  BY DEF TypeOK
<1>1. ASSUME NEW c \in Call, CallStep(c) PROVE ~Send(d)'
  <2>1. CASE CraftTx(c) \/ CraftFails(c) \/ GiveUp(c)
    BY <1>0, <2>1 DEF CraftTx, CraftFails, GiveUp, Send
  <2>2. CASE Goroutine(c) \/ Resubmit(c)
    BY <2>2 DEF Goroutine, Publish, QueryReceipt, QueryTip, Resubmit, Send
  <2>3. CASE Abort(c) \/ TimeOut(c) \/ Confirm(c) \/ Return(c)
    BY <1>0, <2>3 DEF Abort, TimeOut, Confirm, Failed, Return, Send
  <2> QED BY <1>1, <2>1, <2>2, <2>3 DEF CallStep, Loop
<1>2. CASE resetNonce \/ Blocks \/ Reorganise \/ \E t \in mempool : Evict(t)
  BY <1>2 DEF resetNonce, Blocks, Mine, MineEmpty, Reorganise, Evict, calls, Send
<1> QED BY <1>1, <1>2 DEF Next, CallStep

LEMMA OneNonceNext ==
    ASSUME TypeOK, OneNonce, Own, Progress, Next
    PROVE  OneNonce'
<1>0. tx \in [Call -> Tx \cup {NoTx}] /\ NoTx \notin Tx
  BY NilAssumption DEF TypeOK
<1>1. ASSUME \A u \in Tx : Known(u)' => \E v \in Tx : Known(v) /\ v.call = u.call /\ v.nonce = u.nonce
      PROVE  OneNonce'
  <2>1. \A t \in Tx : Known(t)' => ~Send(t.call)'
    <3>1. \A t \in Tx : t.call \in Call
      BY DEF Tx
    <3> QED BY <1>1, <3>1, CraftedStays DEF OneNonce
  <2>2. \A t, u \in Tx : Known(t)' /\ Known(u)' /\ t.call = u.call => t.nonce = u.nonce
    BY <1>1, SMT DEF OneNonce
  <2> QED BY <2>1, <2>2 DEF OneNonce
<1>2. ASSUME NEW c \in Call, CallStep(c) PROVE OneNonce'
  <2>1. tx[c] \in Tx => Known(tx[c]) /\ tx[c].call = c
    BY <1>0 DEF Known, Own
  <2>2. CASE CraftTx(c)
    <3>1. Send(c) /\ ~Send(c)'
      BY <2>2 DEF CraftTx, Send, TypeOK
    <3>2. tx[c] \notin Tx /\ \A u \in Tx : Known(u) => u.call # c
      BY <2>1, <3>1 DEF OneNonce
    <3>3. \A u \in Tx : Known(u)' => Known(u) \/ (u.call = c /\ u = tx'[c])
      BY <1>2, <3>2, KnownCall
    <3>4. \A t \in Tx : Known(t)' => ~Send(t.call)'
      <4>1. \A t \in Tx : t.call \in Call
        BY DEF Tx
      <4> QED BY <3>1, <3>3, <4>1, CraftedStays DEF OneNonce
    <3>5. \A t, u \in Tx : Known(t)' /\ Known(u)' /\ t.call = u.call => t.nonce = u.nonce
      BY <3>2, <3>3 DEF OneNonce
    <3> QED BY <3>4, <3>5 DEF OneNonce
  <2>3. CASE ~CraftTx(c)
    <3>1. \A u \in Tx : Known(u)' => \E v \in Tx : Known(v) /\ v.call = u.call /\ v.nonce = u.nonce
      BY <1>2, <2>1, <2>3, KnownCall, SMT
    <3> QED BY <1>1, <3>1
  <2> QED BY <2>2, <2>3
<1>3. CASE Blocks \/ Reorganise \/ \E t \in mempool : Evict(t)
  BY <1>1, <1>3, KnownL1
<1>4. CASE resetNonce
  <2>1. \A u \in Tx : Known(u)' => Known(u)
    BY <1>4 DEF resetNonce, calls, l1, Known
  <2> QED BY <1>1, <2>1
<1> QED BY <1>2, <1>3, <1>4 DEF Next, CallStep

\* Where the waiting goroutines of a call come from.
LEMMA Waits ==
    ASSUME TypeOK, NEW c \in Call, CallStep(c), NEW d \in Call, NEW w \in waiting'[d]
    PROVE  \/ w \in waiting[d]
           \/ d = c /\ w.tx \in publishing[c] /\ w.height = 0
           \/ d = c /\ \E x \in waiting[c] :
                 w.tx = x.tx /\ (w.height = 0 \/ w.height \in heightsOf(x.tx)) /\ chain' = chain
<1>0. waiting \in [Call -> SUBSET Waiter] /\ DOMAIN chain \subseteq Nat
  BY SMT DEF TypeOK
<1>1. CASE CraftTx(c) \/ CraftFails(c) \/ GiveUp(c) \/ Resubmit(c) \/ Return(c)
  BY <1>1 DEF CraftTx, CraftFails, GiveUp, Resubmit, Return
<1>2. ASSUME NEW t \in publishing[c], Publish(c, t)
      PROVE  w \in waiting[d] \/ (d = c /\ w.tx \in publishing[c] /\ w.height = 0)
  <2>1. waiting' = waiting \/ waiting' = [waiting EXCEPT ![c] = @ \cup {[tx |-> t, height |-> 0]}]
    BY <1>2 DEF Publish
  <2>2. w \in waiting[d] \/ (d = c /\ w = [tx |-> t, height |-> 0])
    BY <1>0, <2>1
  <2> QED BY <2>2, SMT
<1>3. ASSUME NEW x \in waiting[c], QueryReceipt(c, x)
      PROVE  \/ w \in waiting[d]
             \/ d = c /\ w.tx = x.tx /\ w.height \in heightsOf(x.tx) /\ chain' = chain
  <2>1. \/ waiting' = waiting
        \/ \E i \in heightsOf(x.tx) :
              waiting' = [waiting EXCEPT ![c] = (@ \ {x}) \cup {[x EXCEPT !.height = i]}]
    BY <1>3 DEF QueryReceipt
  <2>2. \/ w \in waiting[d]
        \/ d = c /\ \E i \in heightsOf(x.tx) : w = [x EXCEPT !.height = i]
    BY <1>0, <2>1, SMT
  <2>3. \A i \in heightsOf(x.tx) :
            [x EXCEPT !.height = i].tx = x.tx /\ [x EXCEPT !.height = i].height = i
    BY <1>0, WaiterAt DEF heightsOf
  <2>4. chain' = chain
    BY <1>3 DEF QueryReceipt, l1
  <2> QED BY <2>2, <2>3, <2>4
<1>4. ASSUME NEW x \in waiting[c], QueryTip(c, x)
      PROVE  w \in waiting[d] \/ (d = c /\ w.tx = x.tx /\ w.height = 0 /\ chain' = chain)
  <2>1. \/ waiting' = [waiting EXCEPT ![c] = @ \ {x}]
        \/ waiting' = [waiting EXCEPT ![c] = (@ \ {x}) \cup {[x EXCEPT !.height = 0]}]
    BY <1>4 DEF QueryTip
  <2>2. w \in waiting[d] \/ (d = c /\ w = [x EXCEPT !.height = 0])
    BY <1>0, <2>1
  <2>3. [x EXCEPT !.height = 0].tx = x.tx /\ [x EXCEPT !.height = 0].height = 0
    BY <1>0, WaiterAt
  <2>4. chain' = chain
    BY <1>4 DEF QueryTip, l1
  <2> QED BY <2>2, <2>3, <2>4
<1>5. CASE Abort(c) \/ TimeOut(c) \/ Confirm(c)
  <2>1. waiting' = [waiting EXCEPT ![c] = {}]
    BY <1>5 DEF Abort, TimeOut, Confirm, Failed, Leave
  <2> QED BY <1>0, <2>1
<1> QED BY <1>1, <1>2, <1>3, <1>4, <1>5 DEF CallStep, Goroutine, Loop

\* And the receipts.
LEMMA Receipts ==
    ASSUME TypeOK, NEW c \in Call, CallStep(c), NEW d \in Call, receipt'[d] # NoTx
    PROVE  \/ receipt'[d] = receipt[d]
           \/ d = c /\ \E w \in waiting[c] :
                 QueryTip(c, w) /\ w.height # 0 /\ isConfirmed(w.height) /\ receipt'[d] = w.tx
<1>0. receipt \in [Call -> Tx \cup {NoTx}]
  BY DEF TypeOK
<1>1. CASE CraftTx(c) \/ CraftFails(c) \/ GiveUp(c) \/ Resubmit(c) \/ Return(c) \/ Confirm(c)
  BY <1>1 DEF CraftTx, CraftFails, GiveUp, Resubmit, Return, Confirm
<1>2. ASSUME NEW t \in publishing[c], Publish(c, t) PROVE receipt'[d] = receipt[d]
  BY <1>2 DEF Publish
<1>3. ASSUME NEW w \in waiting[c], QueryReceipt(c, w) PROVE receipt'[d] = receipt[d]
  BY <1>3 DEF QueryReceipt
<1>4. ASSUME NEW w \in waiting[c], QueryTip(c, w)
      PROVE  \/ receipt'[d] = receipt[d]
             \/ d = c /\ w.height # 0 /\ isConfirmed(w.height) /\ receipt'[d] = w.tx
  BY <1>0, <1>4 DEF QueryTip
<1>5. CASE Abort(c) \/ TimeOut(c)
  BY <1>0, <1>5 DEF Abort, TimeOut, Failed
<1> QED BY <1>1, <1>2, <1>3, <1>4, <1>5 DEF CallStep, Goroutine, Loop

LEMMA OwnNext ==
    ASSUME TypeOK, Own, Progress, Next
    PROVE  Own'
<1>1. ASSUME NEW c \in Call, CallStep(c), NEW d \in Call
      PROVE  /\ \A t \in publishing'[d] : t.call = d
             /\ tx'[d] # NoTx => tx'[d].call = d
  <2>0. publishing \in [Call -> SUBSET Tx] /\ tx \in [Call -> Tx \cup {NoTx}]
    BY DEF TypeOK
  <2>1. CASE CraftTx(c)
    BY <2>0, <2>1, SMT DEF CraftTx, Own
  <2>2. CASE CraftFails(c) \/ GiveUp(c) \/ Return(c)
    BY <2>2 DEF CraftFails, GiveUp, Return, Own
  <2>3. CASE Goroutine(c)
    <3>1. tx' = tx /\ publishing'[d] \subseteq publishing[d]
      BY <2>0, <2>3 DEF Goroutine, Publish, QueryReceipt, QueryTip
    <3> QED BY <3>1 DEF Own
  <2>4. CASE Resubmit(c)
    <3>1. PICK t \in {increaseGasPrice(tx[c], market) : market \in Market} \cup {tx[c]} :
            tx' = [tx EXCEPT ![c] = t] /\ publishing' = [publishing EXCEPT ![c] = @ \cup {t}]
      BY <2>4 DEF Resubmit
    <3>2. tx[c].call = c
      BY <2>4 DEF Resubmit, Progress, Own
    <3>3. t.call = c
      BY <3>1, <3>2, SMT DEF increaseGasPrice
    <3> QED BY <2>0, <3>1, <3>3 DEF Own
  <2>5. CASE Abort(c) \/ TimeOut(c) \/ Confirm(c)
    BY <2>0, <2>5 DEF Abort, TimeOut, Confirm, Failed, Leave, Own
  <2> QED BY <1>1, <2>1, <2>2, <2>3, <2>4, <2>5 DEF CallStep, Loop
<1>2. ASSUME NEW c \in Call, CallStep(c), NEW d \in Call
      PROVE  /\ \A w \in waiting'[d] : w.tx.call = d
             /\ receipt'[d] # NoTx => receipt'[d].call = d
  <2>1. \A w \in waiting'[d] : w.tx.call = d
    BY <1>2, Waits, SMT DEF Own
  <2>2. receipt'[d] # NoTx => receipt'[d].call = d
    BY <1>2, Receipts, SMT DEF Own
  <2> QED BY <2>1, <2>2
<1>3. CASE resetNonce \/ Blocks \/ Reorganise \/ \E t \in mempool : Evict(t)
  BY <1>3 DEF resetNonce, Blocks, Mine, MineEmpty, Reorganise, Evict, calls, Own
<1>4. (\E c \in Call : CallStep(c)) => Own'
  BY <1>1, <1>2 DEF Own
<1> QED BY <1>3, <1>4 DEF Next, CallStep

LEMMA ProgressNext ==
    ASSUME TypeOK, Progress, Next
    PROVE  Progress'
<1>0. /\ pc \in [Call -> {"idle", "craft", "loop", "failing", "succeeding", "failed", "ok"}]
      /\ tx \in [Call -> Tx \cup {NoTx}] /\ receipt \in [Call -> Tx \cup {NoTx}]
      /\ attempts \in [Call -> Nat] /\ NoTx \notin Tx
  BY NilAssumption DEF TypeOK
<1>1. ASSUME NEW c \in Call, CallStep(c) PROVE Progress'
  <2>1. CASE CraftTx(c)
    <3>1. \E t \in Tx : tx' = [tx EXCEPT ![c] = t]
      BY <2>1, FirstType DEF CraftTx
    <3>2. pc' = [pc EXCEPT ![c] = "loop"] /\ UNCHANGED receipt /\ attempts' = [attempts EXCEPT ![c] = 0]
      BY <2>1 DEF CraftTx
    <3> QED BY <1>0, <3>1, <3>2 DEF Progress
  <2>2. CASE CraftFails(c) \/ GiveUp(c)
    BY <1>0, <2>2 DEF CraftFails, GiveUp, Progress
  <2>3. CASE Return(c)
    BY <1>0, <2>3 DEF Return, Progress
  <2>4. CASE Goroutine(c)
    <3>1. UNCHANGED <<pc, tx, attempts>>
      BY <2>4 DEF Goroutine, Publish, QueryReceipt, QueryTip
    <3>2. \A d \in Call : receipt[d] # NoTx => receipt'[d] # NoTx
      BY <1>0, <2>4 DEF Goroutine, Publish, QueryReceipt, QueryTip
    <3> QED BY <3>1, <3>2 DEF Progress
  <2>5. CASE Resubmit(c)
    <3>1. tx[c] \in Tx
      BY <1>0, <2>5 DEF Resubmit, Progress
    <3>2. \A market \in Market : increaseGasPrice(tx[c], market) \in Tx
      BY <3>1, BumpedType
    <3>3. \E t \in Tx : tx' = [tx EXCEPT ![c] = t]
      BY <2>5, <3>1, <3>2 DEF Resubmit
    <3>4. UNCHANGED <<pc, attempts, receipt>>
      BY <2>5 DEF Resubmit
    <3> QED BY <1>0, <3>3, <3>4 DEF Progress
  <2>6. CASE Abort(c) \/ TimeOut(c)
    BY <1>0, <2>6 DEF Abort, TimeOut, Failed, Leave, Progress
  <2>7. CASE Confirm(c)
    BY <1>0, <2>7 DEF Confirm, Leave, Progress
  <2> QED BY <1>1, <2>1, <2>2, <2>3, <2>4, <2>5, <2>6, <2>7 DEF CallStep, Loop
<1>2. CASE resetNonce \/ Blocks \/ Reorganise \/ \E t \in mempool : Evict(t)
  BY <1>2 DEF resetNonce, Blocks, Mine, MineEmpty, Reorganise, Evict, calls, Progress
<1> QED BY <1>1, <1>2 DEF Next, CallStep

\* A call leaves the chain to L1.
LEMMA CallKeepsChain ==
    ASSUME NEW c \in Call, CallStep(c)
    PROVE  chain' = chain /\ orphaned' = orphaned
<1>1. CASE Goroutine(c)
  BY <1>1 DEF Goroutine, Publish, QueryReceipt, QueryTip, l1
<1>2. CASE ~Goroutine(c)
  BY <1>2 DEF CallStep, CraftTx, CraftFails, GiveUp, Loop, Resubmit, Abort, TimeOut, Confirm, Failed,
              Leave, Return, l1
<1> QED BY <1>1, <1>2

\* What was included stays in the chain, where it was, or is orphaned.
LEMMA IncludedStays ==
    ASSUME TypeOK, Next, NEW t \in Tx, NEW i \in DOMAIN chain, chain[i].tx = t
    PROVE  t \in orphaned' \/ (i \in DOMAIN chain' /\ chain'[i].tx = t)
<1>0. chain \in Seq(Block) /\ NoTx \notin Tx
  BY NilAssumption DEF TypeOK
<1>1. CASE \E u \in mempool : Mine(u)
  <2> PICK u \in mempool : Mine(u)
    BY <1>1
  <2>1. [tx |-> u, nonce |-> latestNonce + 1] \in Block
    BY LatestType, SMT DEF Block, TypeOK
  <2> QED BY <1>0, <2>1, AppendBlock DEF Mine
<1>2. CASE MineEmpty
  <2>1. [tx |-> NoTx, nonce |-> latestNonce] \in Block
    BY LatestType DEF Block
  <2> QED BY <1>0, <1>2, <2>1, AppendBlock DEF MineEmpty
<1>3. CASE Reorganise
  <2>1. chain' = SubSeq(chain, 1, Len(chain) - 1) /\ chain # <<>>
    BY <1>3 DEF Reorganise
  <2>2. CASE i = Len(chain)
    BY <1>0, <1>3, <2>2 DEF Reorganise
  <2>3. CASE i # Len(chain)
    BY <1>0, <2>1, <2>3, DropBlock
  <2> QED BY <2>2, <2>3
<1>4. CASE resetNonce \/ \E u \in mempool : Evict(u)
  BY <1>4 DEF resetNonce, Evict, l1
<1>5. CASE \E c \in Call : CallStep(c)
  BY <1>5, CallKeepsChain
<1> QED BY <1>1, <1>2, <1>3, <1>4, <1>5 DEF Next, CallStep, Blocks

LEMMA OrphanedStays ==
    ASSUME Next
    PROVE  orphaned \subseteq orphaned'
<1>1. CASE \E c \in Call : CallStep(c)
  BY <1>1, CallKeepsChain
<1>2. CASE ~\E c \in Call : CallStep(c)
  BY <1>2 DEF Next, CallStep, resetNonce, Blocks, Mine, MineEmpty, Reorganise, Evict, l1
<1> QED BY <1>1, <1>2

LEMMA LandedNext ==
    ASSUME TypeOK, Landed, Next
    PROVE  Landed'
<1>0. /\ waiting \in [Call -> SUBSET Waiter] /\ receipt \in [Call -> Tx \cup {NoTx}]
      /\ DOMAIN chain \subseteq Nat
  BY SMT DEF TypeOK
<1>1. \A d \in Call : \A w \in waiting[d] : w.height # 0 =>
          w.tx \in orphaned' \/ (w.height \in DOMAIN chain' /\ chain'[w.height].tx = w.tx)
  <2>1. \A d \in Call : \A w \in waiting[d] : w.tx \in Tx
    BY <1>0, WaiterAt
  <2> QED BY <2>1, IncludedStays, OrphanedStays DEF Landed
<1>2. \A d \in Call : receipt[d] # NoTx =>
          receipt[d] \in orphaned' \/ \E i \in DOMAIN chain' : chain'[i].tx = receipt[d]
  BY <1>0, IncludedStays, OrphanedStays DEF Landed
<1>3. CASE \E c \in Call : CallStep(c)
  <2> PICK c \in Call : CallStep(c)
    BY <1>3
  <2>1. ASSUME NEW d \in Call, NEW w \in waiting'[d], w.height # 0
        PROVE  w.tx \in orphaned' \/ (w.height \in DOMAIN chain' /\ chain'[w.height].tx = w.tx)
    <3>1. w \in waiting[d] \/ (w.height \in heightsOf(w.tx) /\ chain' = chain)
      BY <2>1, Waits
    <3> QED BY <1>1, <2>1, <3>1 DEF heightsOf
  <2>2. ASSUME NEW d \in Call, receipt'[d] # NoTx
        PROVE  receipt'[d] \in orphaned' \/ \E i \in DOMAIN chain' : chain'[i].tx = receipt'[d]
    <3>1. \/ receipt'[d] = receipt[d]
          \/ \E w \in waiting[c] : w.height # 0 /\ receipt'[d] = w.tx
      BY <2>2, Receipts
    <3> QED BY <1>1, <1>2, <2>2, <3>1
  <2> QED BY <2>1, <2>2 DEF Landed
<1>4. CASE ~\E c \in Call : CallStep(c)
  <2>1. UNCHANGED <<waiting, receipt>>
    BY <1>4 DEF Next, CallStep, resetNonce, Blocks, Mine, MineEmpty, Reorganise, Evict, calls
  <2> QED BY <1>1, <1>2, <2>1 DEF Landed
<1> QED BY <1>3, <1>4

LEMMA NoncesRiseNext ==
    ASSUME TypeOK, NoncesRise, Next
    PROVE  NoncesRise'
<1>0. /\ chain \in Seq(Block) /\ NoTx \notin Tx /\ latestNonce \in Nat
      /\ \A i \in DOMAIN chain : i \in Nat /\ chain[i].nonce \in Nat /\ i <= Len(chain)
      /\ \A i \in DOMAIN chain : chain[i].tx # NoTx => chain[i].tx.nonce \in Nat
  <2>1. chain \in Seq(Block) /\ NoTx \notin Tx /\ latestNonce \in Nat
    BY NilAssumption, LatestType DEF TypeOK
  <2>2. \A i \in DOMAIN chain : i \in Nat /\ i <= Len(chain) /\ chain[i] \in Block
    BY <2>1, SMT
  <2>3. \A b \in Block : b.nonce \in Nat /\ (b.tx # NoTx => b.tx \in Tx)
    BY DEF Block
  <2>4. \A t \in Tx : t.nonce \in Nat
    BY DEF Tx
  <2> QED BY <2>1, <2>2, <2>3, <2>4
<1>1. \A i \in DOMAIN chain : chain[i].nonce <= latestNonce
  <2>1. \A i \in DOMAIN chain : chain # <<>> /\ (i < Len(chain) \/ i = Len(chain)) /\ Len(chain) \in DOMAIN chain
    BY <1>0, SMT
  <2> QED BY <1>0, <2>1, SMT DEF latestNonce, NoncesRise
<1>2. ASSUME NEW b \in Block, chain' = Append(chain, b), latestNonce <= b.nonce,
             b.tx # NoTx => b.tx.nonce = latestNonce /\ b.nonce = latestNonce + 1
      PROVE  NoncesRise'
  <2>0. b.nonce \in Nat
    BY DEF Block
  <2>1. \A i \in DOMAIN chain' : i \in DOMAIN chain \/ i = Len(chain) + 1
    BY <1>0, <1>2, AppendBlock
  <2>2. /\ \A i \in DOMAIN chain : chain'[i] = chain[i] /\ i < Len(chain) + 1
        /\ chain'[Len(chain) + 1] = b
    BY <1>0, <1>2, AppendBlock
  <2>3. \A i \in DOMAIN chain' : chain'[i].tx # NoTx => chain'[i].tx.nonce < chain'[i].nonce
    BY <1>0, <1>2, <2>0, <2>1, <2>2, SMT DEF NoncesRise
  <2>4. ASSUME NEW i \in DOMAIN chain', NEW j \in DOMAIN chain', i < j
        PROVE  /\ chain'[i].nonce <= chain'[j].nonce
               /\ chain'[j].tx # NoTx => chain'[i].nonce <= chain'[j].tx.nonce
    <3>1. i \in DOMAIN chain
      BY <1>0, <2>1, <2>2, <2>4, SMT
    <3>2. CASE j \in DOMAIN chain
      BY <2>2, <2>4, <3>1, <3>2 DEF NoncesRise
    <3>3. CASE j = Len(chain) + 1
      BY <1>0, <1>1, <1>2, <2>0, <2>2, <3>1, <3>3, SMT
    <3> QED BY <2>1, <3>2, <3>3
  <2> QED BY <2>3, <2>4 DEF NoncesRise
<1>3. CASE \E t \in mempool : Mine(t)
  <2> PICK t \in mempool : Mine(t)
    BY <1>3
  <2>1. [tx |-> t, nonce |-> latestNonce + 1] \in Block
    BY <1>0, SMT DEF Block, TypeOK
  <2> QED BY <1>0, <1>2, <2>1, SMT DEF Mine
<1>4. CASE MineEmpty
  <2>1. [tx |-> NoTx, nonce |-> latestNonce] \in Block
    BY <1>0 DEF Block
  <2> QED BY <1>0, <1>2, <1>4, <2>1, SMT DEF MineEmpty
<1>5. CASE Reorganise
  <2>1. /\ \A i \in DOMAIN chain' : i \in DOMAIN chain /\ chain'[i] = chain[i]
    BY <1>0, <1>5, DropBlock DEF Reorganise
  <2> QED BY <2>1 DEF NoncesRise
<1>6. CASE resetNonce \/ (\E t \in mempool : Evict(t)) \/ \E c \in Call : CallStep(c)
  <2>1. chain' = chain
    BY <1>6, CallKeepsChain DEF resetNonce, Evict, l1
  <2> QED BY <2>1 DEF NoncesRise
<1> QED BY <1>3, <1>4, <1>5, <1>6 DEF Next, CallStep, Blocks

LEMMA IInvInit == Init => IInv
<1> SUFFICES ASSUME Init PROVE IInv
  OBVIOUS
<1>1. TypeOK
  BY TypeInit
<1>2. \A t \in Tx : ~Known(t)
  BY NilAssumption, SMT DEF Init, Known
<1>3. OneNonce
  BY <1>2 DEF OneNonce
<1>4. Own /\ Landed /\ Progress
  BY DEF Init, Own, Landed, Progress
<1>5. NoncesRise
  BY SMT DEF Init, NoncesRise
<1> QED BY <1>1, <1>3, <1>4, <1>5 DEF IInv

LEMMA IInvNext == IInv /\ [Next]_vars => IInv'
<1> SUFFICES ASSUME IInv, [Next]_vars PROVE IInv'
  OBVIOUS
<1> USE DEF IInv
<1>1. CASE Next
  <2>1. TypeOK'
    <3>1. \A c \in Call : CallStep(c) => TypeOK'
      BY TypeCall DEF Progress, CallStep
    <3>2. resetNonce => TypeOK'
      BY SMT DEF resetNonce, TypeOK, calls, l1
    <3> QED BY <1>1, <3>1, <3>2, TypeL1 DEF Next, CallStep
  <2> QED BY <1>1, <2>1, OneNonceNext, OwnNext, LandedNext, NoncesRiseNext, ProgressNext
<1>2. CASE UNCHANGED vars
  <2> USE <1>2 DEF vars, calls, l1
  <2>1. TypeOK'
    BY DEF TypeOK
  <2>2. OneNonce'
    BY SMT DEF OneNonce, Known, Send
  <2>3. Own' /\ Progress'
    BY DEF Own, Progress
  <2>4. Landed' /\ NoncesRise'
    BY DEF Landed, NoncesRise
  <2> QED BY <2>1, <2>2, <2>3, <2>4
<1> QED BY <1>1, <1>2

-----------------------------------------------------------------------------
(* Theorems *)

LEMMA Invariant == Spec => []IInv
BY IInvInit, IInvNext, PTL DEF Spec

\* The variables of TxManager keep their types in every behaviour.
THEOREM TypeCorrect == Spec => []TypeOK
<1>1. IInv => TypeOK
  BY DEF IInv
<1> QED BY <1>1, Invariant, PTL

\* The chain holds a call's transaction, and a nonce, at most once.
LEMMA OncePerChain ==
    ASSUME IInv, NEW i \in DOMAIN chain, NEW j \in DOMAIN chain,
           chain[i].tx # NoTx, chain[j].tx # NoTx,
           chain[i].tx.nonce = chain[j].tx.nonce \/ chain[i].tx.call = chain[j].tx.call
    PROVE  i = j
<1>1. /\ i \in Nat /\ j \in Nat /\ chain[i] \in Block /\ chain[j] \in Block
  BY SMT DEF IInv, TypeOK
<1>2. /\ chain[i].tx \in Tx /\ chain[j].tx \in Tx
      /\ chain[i].nonce \in Nat /\ chain[j].nonce \in Nat
  BY <1>1 DEF Block
<1>3. chain[i].tx.nonce \in Nat /\ chain[j].tx.nonce \in Nat
  BY <1>2 DEF Tx
<1>4. chain[i].tx.nonce = chain[j].tx.nonce
  BY <1>2 DEF IInv, OneNonce, Known
<1>5. ~(i < j) /\ ~(j < i)
  BY <1>2, <1>3, <1>4, SMT DEF IInv, NoncesRise
<1> QED BY <1>1, <1>5, SMT

\* Of two calls of Send that resetNonce gave the same nonce at most one returns a
\* receipt, as long as no reorganisation removed the transaction of either.
THEOREM OneReceipt == Spec => []OneReceiptPerNonce
<1>1. IInv => OneReceiptPerNonce
  <2> SUFFICES ASSUME IInv, NEW c \in Call, NEW d \in Call,
                      pc[c] = "ok", pc[d] = "ok", tx[c].nonce = tx[d].nonce,
                      receipt[c] \notin orphaned, receipt[d] \notin orphaned
               PROVE  c = d
    BY DEF OneReceiptPerNonce
  <2>1. /\ tx[c] \in Tx /\ tx[d] \in Tx /\ receipt[c] \in Tx /\ receipt[d] \in Tx
        /\ receipt[c] # NoTx /\ receipt[d] # NoTx /\ tx[c] # NoTx /\ tx[d] # NoTx
    BY DEF IInv, TypeOK, Progress
  <2>2. /\ tx[c].call = c /\ tx[d].call = d /\ receipt[c].call = c /\ receipt[d].call = d
    BY <2>1 DEF IInv, Own
  <2>3. PICK i \in DOMAIN chain, j \in DOMAIN chain : chain[i].tx = receipt[c] /\ chain[j].tx = receipt[d]
    BY <2>1 DEF IInv, Landed
  <2>4. Known(tx[c]) /\ Known(tx[d]) /\ Known(receipt[c]) /\ Known(receipt[d])
    BY <2>3 DEF Known
  <2>5. receipt[c].nonce = receipt[d].nonce
    BY <2>1, <2>2, <2>4 DEF IInv, OneNonce
  <2>6. i = j
    BY <2>1, <2>3, <2>5, OncePerChain
  <2> QED BY <2>2, <2>3, <2>6
<1> QED BY <1>1, Invariant, PTL

\* queryReceipt reads the receipt and the tip in two calls; what waitMined delivers is
\* nevertheless a receipt NumConfirmations deep, unless L1 reorganised it away.
THEOREM Confirmed == Spec => ReceiptConfirmed
<1> DEFINE A == \A c \in Call : receipt'[c] \notin {receipt[c], NoTx} =>
                  \/ receipt'[c] \in orphaned
                  \/ \E i \in heightsOf(receipt'[c]) : Len(chain) - i + 1 >= NumConfirmations
<1>1. IInv /\ [Next]_vars => [A]_vars
  <2> SUFFICES ASSUME IInv, Next, NEW d \in Call, receipt'[d] \notin {receipt[d], NoTx}
               PROVE  \/ receipt'[d] \in orphaned
                      \/ \E i \in heightsOf(receipt'[d]) : Len(chain) - i + 1 >= NumConfirmations
    OBVIOUS
  <2>1. PICK c \in Call : CallStep(c)
    BY DEF Next, CallStep, resetNonce, Blocks, Mine, MineEmpty, Reorganise, Evict, calls
  <2>2. PICK w \in waiting[c] : w.height # 0 /\ isConfirmed(w.height) /\ receipt'[d] = w.tx
    BY <2>1, Receipts DEF IInv
  <2>3. w.tx \in orphaned \/ w.height \in heightsOf(w.tx)
    BY <2>2 DEF IInv, Landed, heightsOf
  <2>4. w.height \in Nat /\ Len(chain) \in Nat
    <3>1. w \in Waiter /\ Len(chain) \in Nat
      BY SMT DEF IInv, TypeOK
    <3> QED BY <3>1, WaiterAt
  <2>5. Len(chain) - w.height + 1 >= NumConfirmations
    BY <2>2, <2>4, LimitAssumption, SMT DEF isConfirmed
  <2> QED BY <2>2, <2>3, <2>5
<1> QED BY <1>1, Invariant, PTL DEF Spec, ReceiptConfirmed

-----------------------------------------------------------------------------
(* Refinement *)

LEMMA BlocksAppend ==
    ASSUME chain \in Seq(Block), NEW b \in Block, chain' = Append(chain, b)
    PROVE  blocksOf' = Append(blocksOf, callOf(b))
<1>1. /\ DOMAIN blocksOf = 1 .. Len(chain) /\ Len(chain) \in Nat
      /\ DOMAIN blocksOf' = 1 .. Len(chain) + 1
  BY AppendBlock, SMT DEF blocksOf
<1>2. /\ \A i \in 1 .. Len(chain) : blocksOf'[i] = blocksOf[i]
      /\ blocksOf'[Len(chain) + 1] = callOf(b)
  BY AppendBlock, SMT DEF blocksOf, callOf
<1>3. Len(blocksOf) = Len(chain) /\ blocksOf \in Seq({callOf(x) : x \in Block})
  BY SMT DEF blocksOf
<1>4. blocksOf' \in Seq({callOf(x) : x \in Block}) /\ Len(blocksOf') = Len(chain) + 1
  BY SMT DEF blocksOf
<1> QED BY <1>1, <1>2, <1>3, <1>4, SMT

LEMMA BlocksDrop ==
    ASSUME chain \in Seq(Block), chain # <<>>, chain' = SubSeq(chain, 1, Len(chain) - 1)
    PROVE  /\ blocksOf # <<>> /\ blocksOf' = SubSeq(blocksOf, 1, Len(blocksOf) - 1)
           /\ blocksOf[Len(blocksOf)] = callOf(chain[Len(chain)])
<1>1. /\ Len(blocksOf) = Len(chain) /\ blocksOf \in Seq({callOf(x) : x \in Block})
      /\ Len(chain) \in Nat \ {0}
  BY SMT DEF blocksOf
<1>2. /\ blocksOf' \in Seq({callOf(x) : x \in Block}) /\ Len(blocksOf') = Len(chain) - 1
  BY SMT DEF blocksOf
<1>3. \A i \in 1 .. Len(chain) - 1 : blocksOf'[i] = blocksOf[i]
  BY SMT DEF blocksOf, callOf
<1>4. blocksOf[Len(blocksOf)] = callOf(chain[Len(chain)])
  BY <1>1, SMT DEF blocksOf
<1> QED BY <1>1, <1>2, <1>3, <1>4, SMT

\* Each step of the manager is one of TxSend or changes nothing there.
LEMMA RefinesStep == IInv /\ [Next]_vars => [Sends!Next]_(Sends!vars)
<1> SUFFICES ASSUME IInv, [Next]_vars PROVE Sends!Next \/ UNCHANGED <<statusOf, blocksOf, droppedOf>>
  BY DEF Sends!vars
<1>0. /\ pc \in [Call -> {"idle", "craft", "loop", "failing", "succeeding", "failed", "ok"}]
      /\ chain \in Seq(Block) /\ NoTx \notin Tx /\ NoCall \notin Call
      /\ attempts \in [Call -> Nat] /\ MaxAttempts \in Nat \ {0, 1}
  BY NilAssumption, LimitAssumption DEF IInv, TypeOK
<1>1. ASSUME NEW c \in Call, CallStep(c)
      PROVE  Sends!Next \/ UNCHANGED <<statusOf, blocksOf, droppedOf>>
  <2>1. UNCHANGED <<blocksOf, droppedOf>>
    BY <1>1, CallKeepsChain DEF blocksOf, droppedOf, callOf
  <2>2. ASSUME pc' = [pc EXCEPT ![c] = "craft"] \/ pc' = [pc EXCEPT ![c] = "loop"], Send(c)
        PROVE  Sends!Begin(c) \/ UNCHANGED statusOf
    BY <1>0, <2>1, <2>2 DEF Sends!Begin, statusOf, Send
  <2>3. ASSUME pc' = [pc EXCEPT ![c] = "failed"], pc[c] \in {"craft", "failing"}
        PROVE  Sends!Fail(c)
    BY <1>0, <2>1, <2>3 DEF Sends!Fail, statusOf
  <2>4. CASE CraftTx(c)
    BY <2>1, <2>2, <2>4 DEF CraftTx, Sends!Next
  <2>5. CASE CraftFails(c)
    <3>1. pc[c] = "idle" => attempts[c] + 1 # MaxAttempts
      BY <1>0, SMT DEF IInv, Progress
    <3> QED BY <2>1, <2>2, <2>3, <2>5, <3>1 DEF CraftFails, Send, Sends!Next
  <2>6. CASE GiveUp(c)
    BY <2>3, <2>6 DEF GiveUp, Sends!Next
  <2>7. CASE Goroutine(c) \/ Resubmit(c)
    <3>1. pc' = pc
      BY <2>7 DEF Goroutine, Publish, QueryReceipt, QueryTip, Resubmit
    <3> QED BY <2>1, <3>1 DEF statusOf
  <2>8. CASE Abort(c) \/ TimeOut(c) \/ Confirm(c)
    <3>1. /\ pc[c] = "loop"
          /\ pc' = [pc EXCEPT ![c] = "failing"] \/ pc' = [pc EXCEPT ![c] = "succeeding"]
      BY <2>8 DEF Abort, TimeOut, Confirm, Failed, Leave
    <3>2. UNCHANGED statusOf
      BY <1>0, <3>1 DEF statusOf
    <3> QED BY <2>1, <3>2
  <2>9. CASE Return(c)
    <3>1. CASE pc[c] = "failing" /\ pc' = [pc EXCEPT ![c] = "failed"]
      BY <2>3, <3>1 DEF Sends!Next
    <3>2. CASE pc[c] = "succeeding" /\ pc' = [pc EXCEPT ![c] = "ok"]
      <4>1. receipt[c] # NoTx /\ receipt[c].call = c
        BY <3>2 DEF IInv, Progress, Own
      <4>2. receipt[c] \in orphaned => c \in droppedOf
        BY <4>1 DEF droppedOf
      <4>3. \A i \in DOMAIN chain : chain[i].tx = receipt[c] => blocksOf[i] = c /\ i \in DOMAIN blocksOf
        BY <4>1 DEF blocksOf, callOf
      <4>4. Sends!includes(c) \/ c \in droppedOf
        BY <4>1, <4>2, <4>3 DEF Sends!includes, IInv, Landed
      <4>5. Sends!Succeed(c)
        BY <1>0, <2>1, <3>2, <4>4 DEF Sends!Succeed, statusOf
      <4> QED BY <4>5 DEF Sends!Next
    <3> QED BY <2>9, <3>1, <3>2 DEF Return
  <2> QED BY <1>1, <2>4, <2>5, <2>6, <2>7, <2>8, <2>9 DEF CallStep, Loop
<1>2. CASE \E t \in mempool : Mine(t)
  <2> PICK t \in mempool : Mine(t)
    BY <1>2
  <2> DEFINE b == [tx |-> t, nonce |-> latestNonce + 1]
  <2>1. t \in Tx /\ t.call \in Call /\ latestNonce \in Nat /\ t # NoTx
    BY <1>0, LatestType DEF IInv, TypeOK, Tx
  <2>2. b \in Block /\ callOf(b) = t.call
    BY <2>1, SMT DEF Block, callOf
  <2>3. blocksOf' = Append(blocksOf, t.call) /\ UNCHANGED <<statusOf, droppedOf>>
    BY <1>0, <2>2, BlocksAppend DEF Mine, statusOf, droppedOf, calls
  <2>4. statusOf[t.call] # "idle"
    BY <1>0, <2>1 DEF IInv, OneNonce, Known, Send, statusOf
  <2>5. ~Sends!includes(t.call)
    <3> SUFFICES ASSUME NEW i \in DOMAIN chain, blocksOf[i] = t.call PROVE FALSE
      BY DEF Sends!includes, blocksOf
    <3>1. chain[i].tx # NoTx /\ chain[i].tx.call = t.call /\ chain[i] \in Block
      BY <1>0, <2>1, SMT DEF blocksOf, callOf
    <3>2. chain[i].tx \in Tx /\ chain[i].nonce \in Nat /\ chain[i].tx.nonce \in Nat
      BY <3>1 DEF Block, Tx
    <3>3. chain[i].tx.nonce = t.nonce
      BY <2>1, <3>1, <3>2 DEF IInv, OneNonce, Known
    <3>4. chain[i].tx.nonce < chain[i].nonce
      BY <3>1 DEF IInv, NoncesRise
    <3>5. chain[i].nonce <= latestNonce
      <4>1. chain # <<>> /\ Len(chain) \in DOMAIN chain /\ (i < Len(chain) \/ i = Len(chain))
        BY <1>0, SMT
      <4> QED BY <3>2, <4>1, SMT DEF latestNonce, IInv, NoncesRise
    <3> QED BY <2>1, <3>2, <3>3, <3>4, <3>5, SMT DEF Mine
  <2> QED BY <2>1, <2>3, <2>4, <2>5 DEF Sends!Next, Sends!Include
<1>3. CASE MineEmpty
  <2>1. [tx |-> NoTx, nonce |-> latestNonce] \in Block
    BY LatestType DEF Block, IInv
  <2>2. callOf([tx |-> NoTx, nonce |-> latestNonce]) = NoCall
    BY DEF callOf
  <2>3. blocksOf' = Append(blocksOf, NoCall) /\ UNCHANGED <<statusOf, droppedOf>>
    BY <1>0, <1>3, <2>1, <2>2, BlocksAppend DEF MineEmpty, statusOf, droppedOf, calls
  <2> QED BY <2>3 DEF Sends!Next, Sends!Include
<1>4. CASE Reorganise
  <2> DEFINE t == chain[Len(chain)].tx
  <2>1. /\ blocksOf # <<>> /\ blocksOf' = SubSeq(blocksOf, 1, Len(blocksOf) - 1)
        /\ blocksOf[Len(blocksOf)] = callOf(chain[Len(chain)])
    BY <1>0, <1>4, BlocksDrop DEF Reorganise
  <2>2. UNCHANGED statusOf
    BY <1>4 DEF Reorganise, calls, statusOf
  <2>3. t = NoTx \/ (t \in Tx /\ t.call \in Call)
    <3>1. chain[Len(chain)] \in Block
      BY <1>0, <1>4, SMT DEF Reorganise
    <3> QED BY <3>1 DEF Block, Tx
  <2>4. droppedOf' = droppedOf \cup ({blocksOf[Len(blocksOf)]} \ {NoCall})
    <3>1. CASE t = NoTx
      BY <1>4, <2>1, <3>1 DEF Reorganise, droppedOf, callOf
    <3>2. CASE t # NoTx
      BY <1>0, <1>4, <2>1, <2>3, <3>2 DEF Reorganise, droppedOf, callOf
    <3> QED BY <3>1, <3>2
  <2> QED BY <2>1, <2>2, <2>4 DEF Sends!Next, Sends!Drop
<1>5. CASE resetNonce \/ (\E t \in mempool : Evict(t)) \/ UNCHANGED vars
  BY <1>5 DEF resetNonce, Evict, vars, calls, l1, statusOf, blocksOf, callOf, droppedOf
<1> QED BY <1>1, <1>2, <1>3, <1>4, <1>5 DEF Next, CallStep, Blocks

\* The transaction manager implements TxSend, for any number of concurrent calls, fees,
\* failures and reorganisations: Send ends with a receipt or an error, L1 holds a call's
\* transaction at most once, and a receipt means that L1 included it.
THEOREM Refinement == Spec => ImplementsTxSend
<1>1. Init => Sends!Init
  BY SMT DEF Init, Sends!Init, statusOf, blocksOf, droppedOf
<1> QED BY <1>1, Invariant, RefinesStep, PTL DEF Spec, ImplementsTxSend, Sends!Spec

-----------------------------------------------------------------------------
(* Fees *)

LEMMA Rounding ==
    ASSUME NEW x \in Nat, NEW q \in Nat
    PROVE  /\ (100 * x + q) \div 100 \in Nat /\ (100 * x + q) \div 100 >= x
           /\ q >= 100 => (100 * x + q) \div 100 > x
           /\ q < 100 => (100 * x + q) \div 100 = x
BY SMT

\* A bump never lowers a fee; if it raises one, it raises every larger one.
LEMMA Threshold ==
    ASSUME NEW x \in Nat, NEW y \in Nat, x <= y
    PROVE  /\ calcThresholdValue(x) \in Nat /\ calcThresholdValue(x) >= x
           /\ calcThresholdValue(x) # x => calcThresholdValue(y) > y
<1>1. PriceBump \in Nat
  BY LimitAssumption
<1>2. PICK k \in Nat : y = x + k
  <2>1. y - x \in Nat /\ y = x + (y - x)
    BY SMT
  <2> QED BY <2>1
<1>3. x * PriceBump \in Nat /\ k * PriceBump \in Nat /\ y * PriceBump \in Nat
  BY <1>1, SMT
<1>4. y * PriceBump = x * PriceBump + k * PriceBump
  BY <1>1, <1>2, SMT
<1>5. x * PriceBump <= y * PriceBump
  BY <1>3, <1>4, SMT
<1>6. /\ x * (100 + PriceBump) = 100 * x + x * PriceBump
      /\ y * (100 + PriceBump) = 100 * y + y * PriceBump
  BY <1>1, SMT
<1>7. /\ calcThresholdValue(x) = (100 * x + x * PriceBump) \div 100
      /\ calcThresholdValue(y) = (100 * y + y * PriceBump) \div 100
  BY <1>6 DEF calcThresholdValue
<1>8. calcThresholdValue(x) # x => x * PriceBump >= 100
  BY <1>3, <1>7, Rounding, SMT
<1>9. y * PriceBump >= 100 => calcThresholdValue(y) > y
  BY <1>3, <1>7, Rounding, SMT
<1>10. calcThresholdValue(x) \in Nat /\ calcThresholdValue(x) >= x
  BY <1>3, <1>7, Rounding, SMT
<1>11. x * PriceBump >= 100 => y * PriceBump >= 100
  <2> HIDE DEF calcThresholdValue
  <2> QED BY <1>3, <1>5, SMT
<1> QED BY <1>8, <1>9, <1>10, <1>11

\* Whatever the old fees and the market are, updateFees gives fees that replace the old
\* ones in the pool and cover the market's, unless the bump of the old tip is rounded away.
THEOREM FeesAlwaysReplace == Spec => []FeesReplace
<1>1. ASSUME NEW tip \in Nat, NEW fee \in Nat, NEW market \in [tip : Nat, baseFee : Nat], tip <= fee
      PROVE  replaces([tip |-> tip, fee |-> fee], market)
  <2> DEFINE old == [tip |-> tip, fee |-> fee]
             T == calcThresholdValue(tip)
             F == calcThresholdValue(fee)
             n == calcGasFeeCap(market.baseFee, market.tip)
             new == updateFees(old, market)
  <2>1. /\ T \in Nat /\ F \in Nat /\ T >= tip /\ F >= fee
        /\ T # tip => T > tip /\ F > fee
    <3>1. fee <= fee /\ tip <= tip
      BY SMT
    <3> QED BY <1>1, <3>1, Threshold
  <2>2. /\ market.tip \in Nat /\ market.baseFee \in Nat /\ n = market.tip + 2 * market.baseFee
        /\ n \in Nat
    BY SMT DEF calcGasFeeCap
  <2>3. calcGasFeeCap(market.baseFee, T) = T + 2 * market.baseFee
    BY DEF calcGasFeeCap
  <2>4. /\ market.tip >= T => new.tip = market.tip /\ new.fee = (IF n >= F THEN n ELSE F)
        /\ ~(market.tip >= T) =>
              new.tip = T /\ new.fee = (IF n >= F THEN T + 2 * market.baseFee ELSE F)
    BY <2>3 DEF updateFees
  <2> HIDE DEF T, F, n, new
  <2>5. new.tip \in Nat /\ new.tip >= T /\ new.tip >= market.tip
    BY <2>1, <2>2, <2>4, SMT
  <2>6. new.fee \in Nat /\ new.fee >= F /\ new.fee >= n
    BY <2>1, <2>2, <2>4, SMT
  <2>7. T # tip => new.tip > tip /\ new.fee > fee
    BY <2>1, <2>5, <2>6, SMT
  <2> QED BY <2>5, <2>6, <2>7 DEF replaces, outbids, T, F, n, new
<1>2. FeesReplace
  <2>1. FeeSample \subseteq Nat
    BY MarketAssumption
  <2>2. [tip : FeeSample, baseFee : FeeSample] \subseteq [tip : Nat, baseFee : Nat]
    BY <2>1
  <2> QED BY <1>1, <2>1, <2>2 DEF FeesReplace
<1> QED BY <1>2, PTL
=============================================================================
