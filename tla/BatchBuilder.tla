---------------------------- MODULE BatchBuilder ----------------------------
(***************************************************************************)
(* services/sidecar/rollup/derivation: the batch builder                   *)
(* (batch_builder.go) and the encoder it drives (batch_v0_encoder.go), as  *)
(* operators on the builder's state.  Disseminator makes them actions.     *)
(*                                                                         *)
(* An L2 block is the sequence of the bodies of the chain up to it: its    *)
(* length is the block number, its last element what the block holds, and  *)
(* it serves as the block's hash.  The genesis block is <<>>.              *)
(*                                                                         *)
(* Two abstractions of the encoder keep its state finite.  A closed        *)
(* sub-batch without blocks only counts in runningLen; it is not kept.     *)
(* runningLen stops growing above TargetBatchSize, where every comparison  *)
(* the code makes has the same outcome.                                    *)
(*                                                                         *)
(* X_why is a faulty variant of operator X: no specification uses it, it   *)
(* shows which property notices that fault in X.                           *)
(***************************************************************************)
EXTENDS Naturals, SequenceParts

CONSTANTS
    TargetBatchSize, SeqWindowSize, SubSafetyMargin,     \* the configuration
    TxsSize,          \* bytes of a block's transactions
    NoBlock,          \* types.EmptyBlockID
    NoBatch           \* lastBuilt = nil

\* What a block holds: no transaction; transactions that start with one to the L1
\* oracle for an epoch, with one to the oracle that cannot be unpacked, or with
\* any other.
Body(epochs) ==
    [txs : {"none", "other", "bad"}, epoch : {0}] \cup [txs : {"oracle"}, epoch : epochs]

ASSUME BuilderAssumption ==
    /\ TargetBatchSize \in Nat /\ TxsSize \in Nat \ {0}
    /\ SeqWindowSize \in Nat /\ SubSafetyMargin \in 0..SeqWindowSize
    /\ NoBlock \notin Seq(Body(Nat)) /\ NoBatch \notin Seq(Seq(Seq(Body(Nat))))

number(block) == IF block = NoBlock THEN 0 ELSE Len(block)
isEmpty(block) == Last(block).txs = "none"

-----------------------------------------------------------------------------
(* The encoder *)

newEncoder == [closed |-> <<>>, open |-> <<>>, openSize |-> 0, runningLen |-> 0]

\* rlp.ListSize of a content shorter than 56 bytes: one byte of header.
ListSize(contentSize) == contentSize + 1
IntSize == 1

shouldCloseBatch_nonEmpty(e) ==
    e.open # <<>> /\ e.runningLen + ListSize(e.openSize) > TargetBatchSize
shouldCloseBatch_content(e) == e.runningLen + e.openSize > TargetBatchSize
shouldCloseBatch(e) == e.runningLen + ListSize(e.openSize) > TargetBatchSize

\* The size of a sub-batch is never 0, so that one without blocks is closed too.
closeSubBatch(e) ==
    LET length == e.runningLen + ListSize(e.openSize)
    IN  [closed |-> IF e.open = <<>> THEN e.closed ELSE Append(e.closed, e.open),
         open |-> <<>>,
         openSize |-> 0,
         runningLen |-> IF length > TargetBatchSize THEN TargetBatchSize + 1 ELSE length]

appendTxBlock(e, block) ==
    [e EXCEPT !.open = Append(@, block),
              !.openSize = @ + TxsSize + (IF e.open = <<>> THEN IntSize ELSE 0)]

closesSubBatch_notSkipped(block, isNewEpoch) == isNewEpoch
closesSubBatch(block, isNewEpoch) == isEmpty(block) \/ isNewEpoch

\* A block that does not fit closes the sub-batch and is left for the next batch.
ProcessBlock(e, block, isNewEpoch) ==
    IF shouldCloseBatch(e) THEN [encoder |-> closeSubBatch(e), err |-> "full"]
    ELSE LET f == IF closesSubBatch(block, isNewEpoch) THEN closeSubBatch(e) ELSE e
         IN  [encoder |-> IF isEmpty(block) THEN f ELSE appendTxBlock(f, block), err |-> "none"]

\* All sub-batches but the open one, which is closed first if the batch is full.
GetBatch(e, force) ==
    IF ~force /\ e.runningLen + e.openSize < TargetBatchSize
    THEN [encoder |-> e, err |-> "small"]
    ELSE [encoder |-> IF shouldCloseBatch(e) THEN closeSubBatch(e) ELSE e, err |-> "none"]

-----------------------------------------------------------------------------
(* The builder *)

newBuilder ==
    [encoder |-> newEncoder, pendingBlocks |-> <<>>, lastEnqueued |-> NoBlock,
     lastBuilt |-> NoBatch, timeout |-> 0]

canEnqueue(b, block) == b.lastEnqueued = NoBlock \/ Front(block) = b.lastEnqueued
Enqueue(b, block) ==
    [b EXCEPT !.pendingBlocks = Append(@, block), !.lastEnqueued = block]

\* The timeout survives a reset.
Reset_encoderKept(b, block) ==
    [newBuilder EXCEPT !.lastEnqueued = block, !.timeout = b.timeout, !.encoder = b.encoder]
Reset(b, block) ==
    [newBuilder EXCEPT !.lastEnqueued = block, !.timeout = b.timeout]

Advance_kept(b) == b
Advance(b) == [b EXCEPT !.lastBuilt = NoBatch]

deadline(epoch) == epoch + SeqWindowSize - SubSafetyMargin
updateTimeout_latest(timeout, epoch) == deadline(epoch)
updateTimeout(timeout, epoch) ==
    IF timeout = 0 \/ timeout > deadline(epoch) THEN deadline(epoch) ELSE timeout

processBlock(b, block) ==
    LET body == Last(block)
        result == ProcessBlock(b.encoder, block, body.epoch # 0)
    IN  IF body.txs = "bad" THEN [builder |-> b, err |-> "unpack"]
        ELSE [builder |-> [b EXCEPT !.encoder = result.encoder,
                                    !.timeout = IF body.txs = "oracle" THEN updateTimeout(@, body.epoch) ELSE @],
              err |-> result.err]

\* Blocks are processed up to the first that is refused.  The queue advances past
\* them if the batch is full, and not if a block could not be processed.
processNext(acc, block) ==
    LET result == processBlock(acc.builder, block)
    IN  IF acc.err # "none" THEN acc
        ELSE [builder |-> result.builder, err |-> result.err,
              numProcessed |-> acc.numProcessed + (IF result.err = "none" THEN 1 ELSE 0)]
processFirst(b) ==
    LET acc[n \in 0..Len(b.pendingBlocks)] ==
            IF n = 0 THEN [builder |-> b, err |-> "none", numProcessed |-> 0]
            ELSE processNext(acc[n - 1], b.pendingBlocks[n])
    IN  acc
encodePending(b) ==
    LET done == processFirst(b)[Len(b.pendingBlocks)]
    IN  IF done.err = "unpack" THEN [builder |-> done.builder, err |-> "unpack"]
        ELSE [builder |-> [done.builder EXCEPT
                               !.pendingBlocks = SubSeq(@, done.numProcessed + 1, Len(@))],
              err |-> "none"]

isForced(b, l1Head) == b.timeout # 0 /\ l1Head >= b.timeout

getBatch_notCached(b, l1Head) ==
    LET result == GetBatch(b.encoder, isForced(b, l1Head))
    IN  IF result.err = "small" THEN [builder |-> b, err |-> "EOF"]
        ELSE [builder |-> [b EXCEPT !.encoder = result.encoder], err |-> "none"]
getBatch(b, l1Head) ==
    LET result == GetBatch(b.encoder, isForced(b, l1Head))
    IN  IF result.err = "small" THEN [builder |-> b, err |-> "EOF"]
        ELSE [builder |-> [b EXCEPT !.encoder = result.encoder, !.lastBuilt = result.encoder.closed],
              err |-> "none"]

Build_anew(b, l1Head) ==
    LET encoded == encodePending(b)
    IN  IF b.pendingBlocks = <<>> THEN [builder |-> b, err |-> "EOF"]
        ELSE IF encoded.err # "none" THEN encoded
        ELSE getBatch(encoded.builder, l1Head)
Build(b, l1Head) ==
    LET encoded == encodePending(b)
    IN  IF b.lastBuilt # NoBatch THEN [builder |-> b, err |-> "none"]
        ELSE IF b.pendingBlocks = <<>> THEN [builder |-> b, err |-> "EOF"]
        ELSE IF encoded.err # "none" THEN encoded
        ELSE getBatch(encoded.builder, l1Head)
=============================================================================
