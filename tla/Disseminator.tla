---------------------------- MODULE Disseminator ----------------------------
(***************************************************************************)
(* services/sidecar/rollup/services/disseminator/batch_disseminator.go: the *)
(* service that reads L2 blocks from an execution client, feeds them to    *)
(* the batch builder and posts the batches to L1.  Each remote call is a   *)
(* step of its own; between two of them the L2 chain may grow or reorganise *)
(* and its safe head advance, and each may fail.  The L2 client and the    *)
(* transaction manager are environment, as the service sees them.          *)
(***************************************************************************)
EXTENDS BatchBuilder, FiniteSets, Functions

CONSTANTS
    Txs,              \* the kinds of blocks that are produced
    MaxL2,            \* bound on the length of the L2 chain
    MaxL1,            \* bound on L1 block numbers
    MaxReorgs, MaxCrashes

ASSUME DisseminatorAssumption == MaxL2 \in Nat /\ MaxL1 \in Nat

VARIABLES
    pc,               \* where the service's goroutine is
    builder,
    next, end,        \* the rest of the range appendToBuilder reads
    l1Head,           \* l1State.Head()
    chain, safe,      \* the L2 chain and the number of its safe head
    posted,           \* history: blocks in batches that L1 has included
    base,             \* history: the block number the builder started from
    reorgs, crashes   \* how often it happened so far

service == <<pc, builder, next, end, base>>
environment == <<l1Head, chain, safe, reorgs, crashes>>
vars == <<pc, builder, next, end, base, l1Head, chain, safe, reorgs, crashes, posted>>

block(n) == SubSeq(chain, 1, n)
blocksOf(batch) == UNION {Range(batch[i]) : i \in DOMAIN batch}

Init ==
    /\ pc = "start"
    /\ builder = newBuilder
    /\ next = 0 /\ end = 0 /\ base = 0
    /\ l1Head = 0 /\ chain = <<>> /\ safe = 0
    /\ posted = {} /\ reorgs = 0 /\ crashes = 0

-----------------------------------------------------------------------------
(* The service *)

\* The ticker of start.
Tick ==
    /\ pc = "idle"
    /\ pc' = "safe"
    /\ UNCHANGED <<builder, next, end, base, environment, posted>>

\* pendingL2BlockRange, first call.  The error for a safe head beyond the last
\* enqueued block is returned as a pointer and looked for as a value, so that
\* start logs it and goes on.
safeIsAhead == builder.lastEnqueued # NoBlock /\ safe > number(builder.lastEnqueued)
ReadSafe ==
    /\ pc = "safe"
    /\ pc' = IF safeIsAhead THEN "idle" ELSE "head"
    /\ next' = (IF builder.lastEnqueued = NoBlock THEN safe ELSE number(builder.lastEnqueued)) + 1
    /\ UNCHANGED <<builder, end, base, environment, posted>>

\* pendingL2BlockRange, second call.
ReadHead ==
    /\ pc = "head"
    /\ end' = Len(chain)
    /\ pc' = IF next > end' THEN "build" ELSE "fetch"
    /\ UNCHANGED <<builder, next, base, environment, posted>>

\* One round of the loop of appendToBuilder.
FetchBlock ==
    /\ pc = "fetch"
    /\ \/ /\ next > Len(chain)
          /\ pc' = "idle"
          /\ UNCHANGED <<builder, next, base>>
       \/ /\ next <= Len(chain) /\ ~canEnqueue(builder, block(next))
          /\ pc' = "rollback"
          /\ UNCHANGED <<builder, next, base>>
       \/ /\ next <= Len(chain) /\ canEnqueue(builder, block(next))
          /\ builder' = Enqueue(builder, block(next))
          /\ base' = IF builder.lastEnqueued = NoBlock THEN next - 1 ELSE base
          /\ next' = next + 1
          /\ pc' = IF next < end THEN "fetch" ELSE "build"
    /\ UNCHANGED <<end, environment, posted>>

\* rollback, at the start and after a reorganisation.
Rollback ==
    /\ pc \in {"start", "rollback"}
    /\ builder' = Reset(builder, block(safe))
    /\ base' = safe
    /\ pc' = "idle"
    /\ UNCHANGED <<next, end, environment, posted>>

\* A call of the L2 client fails.  step returns the error; the error of rollback
\* is dropped.
CallFails ==
    /\ pc \in {"start", "safe", "head", "fetch", "rollback"}
    /\ pc' = "idle"
    /\ UNCHANGED <<builder, next, end, base, environment, posted>>

\* disseminateBatch up to the call of the transaction manager.
BuildBatch ==
    LET result == Build(builder, l1Head)
    IN  /\ pc = "build"
        /\ builder' = result.builder
        /\ pc' = IF result.err = "none" THEN "send" ELSE "idle"
        /\ UNCHANGED <<next, end, base, environment, posted>>

\* The rest of it: the batch is included and its receipt returned, or the call
\* fails, whether or not L1 has included the batch.
SendBatch ==
    /\ pc = "send"
    /\ posted' = posted \cup blocksOf(builder.lastBuilt)
    /\ builder' = Advance(builder)
    /\ pc' = "build"
    /\ UNCHANGED <<next, end, base, environment>>
SendFails ==
    /\ pc = "send"
    /\ posted' \in {posted, posted \cup blocksOf(builder.lastBuilt)}
    /\ pc' = "idle"
    /\ UNCHANGED <<builder, next, end, base, environment>>

\* The process dies and is started again.
Restart ==
    /\ crashes < MaxCrashes
    /\ crashes' = crashes + 1
    /\ pc' = "start"
    /\ builder' = newBuilder
    /\ base' = 0
    /\ UNCHANGED <<next, end, l1Head, chain, safe, reorgs, posted>>

-----------------------------------------------------------------------------
(* The environment *)

lastEpoch == IF \E i \in DOMAIN chain : chain[i].epoch # 0
             THEN Last(SelectSeq(chain, LAMBDA body : body.epoch # 0)).epoch ELSE 0

ProduceBlock(body) ==
    /\ Len(chain) < MaxL2
    /\ body.txs \in Txs
    /\ body.epoch # 0 => body.epoch > lastEpoch
    /\ chain' = Append(chain, body)
    /\ UNCHANGED <<service, l1Head, safe, reorgs, crashes, posted>>

\* The L2 client drops unsafe blocks.
Reorganise(n) ==
    /\ reorgs < MaxReorgs
    /\ reorgs' = reorgs + 1
    /\ n \in safe..Len(chain) - 1
    /\ chain' = block(n)
    /\ UNCHANGED <<service, l1Head, safe, crashes, posted>>

\* The L2 client derives blocks from the batches on L1, filling in empty ones.
DeriveBlocks(n) ==
    /\ n \in safe + 1..Len(chain)
    /\ block(n) \in posted
    /\ \A i \in safe + 1..n : isEmpty(block(i)) \/ block(i) \in posted
    /\ safe' = n
    /\ UNCHANGED <<service, l1Head, chain, reorgs, crashes, posted>>

\* OnLatest stores every header, older ones too.
OnLatest(n) ==
    /\ l1Head' = n
    /\ UNCHANGED <<service, chain, safe, reorgs, crashes, posted>>

Work == Tick \/ ReadSafe \/ ReadHead \/ FetchBlock \/ Rollback \/ BuildBatch

Next ==
    \/ Work \/ SendBatch \/ SendFails \/ CallFails \/ Restart
    \/ \E body \in Body(1..MaxL1) : ProduceBlock(body)
    \/ \E n \in 0..MaxL2 : Reorganise(n)
    \/ \E n \in 1..MaxL1 : OnLatest(n)
    \/ \E n \in 1..MaxL2 : DeriveBlocks(n)

Spec == Init /\ [][Next]_vars

\* The goroutine runs: weak fairness of Work, which is enabled unless pc = "send",
\* written out.  And no remote call that is made again and again fails for ever.
Runs == []<>(pc = "send") \/ []<><<Work>>_vars
FairSpec ==
    /\ Spec /\ Runs
    /\ SF_vars(ReadSafe) /\ SF_vars(ReadHead) /\ SF_vars(FetchBlock) /\ SF_vars(Rollback)
    /\ SF_vars(SendBatch)

-----------------------------------------------------------------------------
(* Properties *)

subBatches == Append(builder.encoder.closed, builder.encoder.open)

\* No block in the queue is one that cannot be processed.
isProcessable == \A i \in DOMAIN builder.pendingBlocks : Last(builder.pendingBlocks[i]).txs # "bad"

\* Variables have their types, and the counters stay within their bounds.
TypeOK ==
    /\ pc \in {"start", "idle", "safe", "head", "fetch", "rollback", "build", "send"}
    /\ chain \in Seq(Body(1..MaxL1)) /\ safe \in 0..Len(chain)
    /\ builder.timeout \in Nat /\ builder.encoder.runningLen \in 0..TargetBatchSize + 1
    /\ builder.encoder.openSize \in Nat
    /\ pc = "send" => builder.lastBuilt # NoBatch

\* The builder holds, in order and once, the non-empty blocks of the chain of the
\* last block enqueued, from where it started: no failed call, failed batch or
\* reorganisation makes it lose, repeat or mix up blocks (Enqueue, encodePending,
\* Reset).  Not so while a block that cannot be processed is in the queue: every
\* attempt encodes the blocks before it again.
precedes(i, j, k, l) == i < k \/ (i = k /\ j < l)
isOrdered(batch) ==
    \A i, k \in DOMAIN batch : \A j \in DOMAIN batch[i], l \in DOMAIN batch[k] :
        precedes(i, j, k, l) => Len(batch[i][j]) < Len(batch[k][l])
prefixes(b, from, to) == {c \in {SubSeq(b, 1, n) : n \in from + 1..to} : ~isEmpty(c)}
HoldsChain ==
    builder.lastEnqueued # NoBlock /\ isProcessable =>
        LET last == builder.lastEnqueued
            queue == builder.pendingBlocks
            processed == Len(last) - Len(queue)
        IN  /\ base <= processed
            /\ blocksOf(subBatches) = prefixes(last, base, processed) /\ isOrdered(subBatches)
            /\ \A i \in DOMAIN queue : queue[i] = SubSeq(last, 1, processed + i)

\* A sub-batch is written with the number of its first block only: its blocks have
\* consecutive numbers, each the child of the one before, and at most the first
\* begins an epoch (ProcessBlock), but for the blocks that are encoded again.
SubBatchConsecutive ==
    isProcessable =>
        \A i \in DOMAIN subBatches : \A j \in 2..Len(subBatches[i]) :
            Front(subBatches[i][j]) = subBatches[i][j - 1] /\ Last(subBatches[i][j]).epoch = 0

\* The builder forces a batch out before the sequencing window of any epoch it has
\* encoded closes, whatever was reset or sent in between (updateTimeout).
TimeoutCoversEpochs ==
    \A b \in blocksOf(subBatches) : LET epoch == Last(b).epoch IN
        epoch # 0 => builder.timeout # 0 /\ builder.timeout <= deadline(epoch)

\* A batch that is built is sent until L1 has included it or a reorganisation or a
\* restart discards it (lastBuilt), unless the safe head overtakes the builder:
\* then every step of the service fails from there on.
BuiltIsSent == builder.lastBuilt # NoBatch ~> (builder.lastBuilt = NoBatch \/ safeIsAhead)

\* A batch that was built stays as it is until it is included or discarded: a retry
\* sends the same bytes (Build's short-circuit).
BatchStands ==
    [][builder.lastBuilt # NoBatch /\ builder'.lastBuilt # NoBatch =>
          builder'.lastBuilt = builder.lastBuilt]_vars

\* A batch that is built for its size leaves no encoded block behind: the comparison
\* that lets it go (GetBatch) implies the one that closes the last sub-batch
\* (shouldCloseBatch).  One that the timeout forces leaves the open sub-batch out.
UnforcedIsWhole ==
    [][builder.lastBuilt = NoBatch /\ builder'.lastBuilt # NoBatch /\ ~isForced(builder', l1Head) =>
          builder'.encoder.open = <<>>]_vars

\* Advance does not empty the encoder, so that a batch that was full once is full for
\* ever: until a rollback or a restart discards all of it, its blocks stay, no other joins
\* them and none leaves the queue.  disseminateBatches then sends the same blocks again
\* and again.
FullStaysFull ==
    [][builder.encoder.runningLen > TargetBatchSize =>
          \/ builder'.encoder.closed = builder.encoder.closed
             /\ IsPrefix(builder.pendingBlocks, builder'.pendingBlocks)
          \/ builder'.encoder = newEncoder /\ builder'.pendingBlocks = <<>>]_vars
=============================================================================
