------------------------- MODULE DisseminatorProofs -------------------------
(***************************************************************************)
(* Proofs about the batch builder and the disseminator, for every size of  *)
(* batches, every sequencing window, and every chain with its              *)
(* reorganisations, failed calls and restarts.                             *)
(***************************************************************************)
EXTENDS Disseminator, SequenceTheorems, WellFoundedInduction, TLAPS

\* A leaf is left to Zenon unless it names another prover.
USE Zenon

-----------------------------------------------------------------------------
(* The loop of encodePending *)

\* A set of numbers has a least one.
LEMMA Least ==
    ASSUME NEW T, T \subseteq Nat, T # {}
    PROVE  \E x \in T : \A y \in T : ~(y < x)
  <1>1. \E x \in T : \A y \in T : ~(<<y, x>> \in OpToRel(<, Nat))
    BY NatLessThanWellFounded, WFMin
  <1> QED BY <1>1 DEF OpToRel

\* What the loop has done after n blocks is well defined.
firstRound(b) == [builder |-> b, err |-> "none", numProcessed |-> 0]
isLoop(b, k, f) ==
    f = [n \in 0..k |-> IF n = 0 THEN firstRound(b) ELSE processNext(f[n - 1], b.pendingBlocks[n])]

LEMMA LoopExtends ==
    ASSUME NEW b, NEW k \in Nat, NEW f, isLoop(b, k, f)
    PROVE  \E g : isLoop(b, k + 1, g)
  <1> DEFINE g == [n \in 0..k + 1 |-> IF n = k + 1 THEN processNext(f[k], b.pendingBlocks[k + 1]) ELSE f[n]]
             h == [n \in 0..k + 1 |-> IF n = 0 THEN firstRound(b) ELSE processNext(g[n - 1], b.pendingBlocks[n])]
  <1>1. DOMAIN f = 0..k
    BY DEF isLoop
  <1>2. \A n \in 0..k : f[n] = IF n = 0 THEN firstRound(b) ELSE processNext(f[n - 1], b.pendingBlocks[n])
    BY DEF isLoop
  <1>3. ASSUME NEW n \in 0..k + 1 PROVE g[n] = h[n]
    <2>1. CASE n = k + 1
      <3>1. n # 0 /\ n - 1 = k /\ k \in 0..k + 1 /\ k # k + 1
        BY <2>1, SMT
      <3>2. g[n] = processNext(f[k], b.pendingBlocks[k + 1]) /\ g[k] = f[k]
        BY <2>1, <3>1
      <3>3. h[n] = processNext(g[n - 1], b.pendingBlocks[n])
        BY <3>1
      <3> QED BY <2>1, <3>1, <3>2, <3>3
    <2>2. CASE n # k + 1
      <3>1. n \in 0..k /\ g[n] = f[n]
        BY <2>2, SMT
      <3>2. CASE n = 0
        BY <1>2, <3>1, <3>2
      <3>3. CASE n # 0
        <4>1. n - 1 \in 0..k + 1 /\ n - 1 # k + 1
          BY <3>1, <3>3, SMT
        <4>2. g[n - 1] = f[n - 1]
          BY <4>1
        <4>3. h[n] = processNext(g[n - 1], b.pendingBlocks[n])
          BY <3>3
        <4> QED BY <1>2, <3>1, <3>3, <4>2, <4>3
      <3> QED BY <3>2, <3>3
    <2> QED BY <2>1, <2>2
  <1>4. g = h
    BY <1>3
  <1> QED BY <1>4 DEF isLoop

LEMMA LoopExists ==
    ASSUME NEW b, NEW k \in Nat
    PROVE  \E f : isLoop(b, k, f)
  <1> DEFINE T == {n \in Nat : ~\E f : isLoop(b, n, f)}
  <1>1. T = {}
    <2> SUFFICES ASSUME T # {} PROVE FALSE
      OBVIOUS
    <2>1. PICK x \in T : \A y \in T : ~(y < x)
      BY Least
    <2>2. CASE x = 0
      <3> DEFINE f == [n \in 0..0 |-> firstRound(b)]
                 g == [n \in 0..0 |-> IF n = 0 THEN firstRound(b) ELSE processNext(f[n - 1], b.pendingBlocks[n])]
      <3>1. f = g
        BY SMT
      <3>2. isLoop(b, 0, f)
        BY <3>1 DEF isLoop
      <3> QED BY <2>2, <3>2
    <2>3. CASE x # 0
      <3>1. x - 1 \in Nat /\ x - 1 < x /\ (x - 1) + 1 = x
        BY <2>3, SMT
      <3>2. x - 1 \notin T
        BY <2>1, <3>1
      <3>3. PICK f : isLoop(b, x - 1, f)
        BY <3>1, <3>2
      <3>4. \E g : isLoop(b, (x - 1) + 1, g)
        BY <3>1, <3>3, LoopExtends
      <3> QED BY <3>1, <3>4
    <2> QED BY <2>2, <2>3
  <1> QED BY <1>1

LEMMA LoopIs ==
    ASSUME NEW b, Len(b.pendingBlocks) \in Nat
    PROVE  /\ processFirst(b)[0] = firstRound(b)
           /\ \A n \in 1..Len(b.pendingBlocks) :
                 processFirst(b)[n] = processNext(processFirst(b)[n - 1], b.pendingBlocks[n])
  <1> DEFINE k == Len(b.pendingBlocks)
  <1>1. isLoop(b, k, processFirst(b))
    <2>1. \E f : isLoop(b, k, f)
      BY LoopExists
    <2>2. processFirst(b) = CHOOSE f : isLoop(b, k, f)
      BY DEF processFirst, isLoop, firstRound
    <2> QED BY <2>1, <2>2
  <1> HIDE DEF k
  <1>2. k \in Nat
    BY DEF k
  <1>3. 0 \in 0..k /\ \A n \in 1..k : n \in 0..k /\ n # 0
    BY <1>2, SMT
  <1> QED BY <1>1, <1>3 DEF isLoop, k

\* A set of states that every round keeps holds the state after every round.
LEMMA LoopKeeps ==
    ASSUME NEW b, Len(b.pendingBlocks) \in Nat, NEW I, firstRound(b) \in I[0],
           \A n \in 1..Len(b.pendingBlocks) : \A acc \in I[n - 1] :
               processNext(acc, b.pendingBlocks[n]) \in I[n]
    PROVE  processFirst(b)[Len(b.pendingBlocks)] \in I[Len(b.pendingBlocks)]
  <1> DEFINE k == Len(b.pendingBlocks)
             f == processFirst(b)
             T == {n \in 0..k : f[n] \notin I[n]}
  <1>0. /\ f[0] = firstRound(b)
        /\ \A n \in 1..k : f[n] = processNext(f[n - 1], b.pendingBlocks[n])
    BY LoopIs
  <1> HIDE DEF f
  <1>1. T = {}
    <2> SUFFICES ASSUME T # {} PROVE FALSE
      OBVIOUS
    <2>1. PICK x \in T : \A y \in T : ~(y < x)
      <3>1. T \subseteq Nat
        BY SMT
      <3> HIDE DEF T
      <3> QED BY <3>1, Least
    <2>2. x # 0
      BY <1>0
    <2>3. x \in 1..k /\ x - 1 \in 0..k /\ x - 1 < x
      BY <2>2, SMT
    <2>4. f[x - 1] \in I[x - 1]
      BY <2>1, <2>3
    <2>5. f[x] \in I[x]
      BY <1>0, <2>3, <2>4
    <2> QED BY <2>5
  <1>2. k \in 0..k
    BY SMT
  <1> QED BY <1>1, <1>2 DEF f

-----------------------------------------------------------------------------
(* Types *)

Bodies == Body(1..MaxL1)
Block == Seq(Bodies)
FullBlock == {b \in Block : b # <<>>}
Encoder == [closed : Seq(Seq(FullBlock)), open : Seq(FullBlock), openSize : Nat,
            runningLen : 0..TargetBatchSize + 1]
Builder == [encoder : Encoder, pendingBlocks : Seq(FullBlock), lastEnqueued : Block \cup {NoBlock},
            lastBuilt : Seq(Seq(FullBlock)) \cup {NoBatch}, timeout : Nat]
Progress == [builder : Builder, err : {"none", "full", "unpack"}, numProcessed : Nat]

\* A full encoder has no open sub-batch.
isSound(e) == e.runningLen > TargetBatchSize => e.open = <<>>

LEMMA LastBody ==
    ASSUME NEW b \in FullBlock
    PROVE  /\ Len(b) \in Nat /\ Len(b) # 0 /\ Last(b) \in Bodies
           /\ Last(b).epoch \in Nat /\ Last(b).txs \in {"none", "other", "bad", "oracle"}
           /\ Last(b).epoch # 0 <=> Last(b).txs = "oracle"
  <1>1. Len(b) \in Nat /\ Len(b) # 0 /\ b[Len(b)] \in Bodies
    BY SMT DEF FullBlock, Block
  <1>2. \A x \in Bodies : /\ x.epoch \in Nat /\ x.txs \in {"none", "other", "bad", "oracle"}
                          /\ x.epoch # 0 <=> x.txs = "oracle"
    BY DisseminatorAssumption, SMT DEF Bodies, Body
  <1> QED BY <1>1, <1>2 DEF Last

LEMMA CloseTyped ==
    ASSUME NEW e \in Encoder
    PROVE  /\ closeSubBatch(e) \in Encoder /\ closeSubBatch(e).open = <<>>
           /\ closeSubBatch(e).openSize = 0
           /\ closeSubBatch(e).closed = IF e.open = <<>> THEN e.closed ELSE Append(e.closed, e.open)
           /\ closeSubBatch(e).runningLen =
                 IF e.runningLen + e.openSize + 1 > TargetBatchSize THEN TargetBatchSize + 1
                 ELSE e.runningLen + e.openSize + 1
  <1> DEFINE length == e.runningLen + ListSize(e.openSize)
             closed == IF e.open = <<>> THEN e.closed ELSE Append(e.closed, e.open)
             len == IF length > TargetBatchSize THEN TargetBatchSize + 1 ELSE length
  <1>1. e.openSize \in Nat /\ e.runningLen \in Nat /\ TargetBatchSize \in Nat
    BY BuilderAssumption, SMT DEF Encoder
  <1>2. length = e.runningLen + e.openSize + 1 /\ length \in Nat
    BY <1>1, SMT DEF ListSize
  <1>3. closed \in Seq(Seq(FullBlock))
    BY SMT DEF Encoder
  <1> HIDE DEF length
  <1>4. len \in 0..TargetBatchSize + 1
    BY <1>1, <1>2, SMT
  <1>5. <<>> \in Seq(FullBlock) /\ 0 \in Nat
    BY SMT
  <1>6. closeSubBatch(e) = [closed |-> closed, open |-> <<>>, openSize |-> 0, runningLen |-> len]
    BY DEF closeSubBatch, length
  <1> HIDE DEF closed, len
  <1>7. closeSubBatch(e) \in Encoder
    BY <1>3, <1>4, <1>5, <1>6, SMT DEF Encoder
  <1> QED BY <1>2, <1>6, <1>7, SMT DEF closed, len

LEMMA AppendTyped ==
    ASSUME NEW e \in Encoder, NEW c \in FullBlock
    PROVE  /\ appendTxBlock(e, c) \in Encoder
           /\ appendTxBlock(e, c).open = Append(e.open, c)
           /\ appendTxBlock(e, c).closed = e.closed
           /\ appendTxBlock(e, c).runningLen = e.runningLen
  <1>1. e.open \in Seq(FullBlock) /\ e.openSize \in Nat /\ TxsSize \in Nat
    BY BuilderAssumption DEF Encoder
  <1>2. Append(e.open, c) \in Seq(FullBlock)
    BY <1>1, SMT
  <1>3. e.openSize + TxsSize + (IF e.open = <<>> THEN IntSize ELSE 0) \in Nat
    BY <1>1, SMT DEF IntSize
  <1> QED BY <1>2, <1>3 DEF Encoder, appendTxBlock

LEMMA ProcessTyped ==
    ASSUME NEW e \in Encoder, isSound(e), NEW c \in FullBlock, NEW isNewEpoch \in BOOLEAN
    PROVE  LET r == ProcessBlock(e, c, isNewEpoch)
           IN  /\ r.encoder \in Encoder /\ isSound(r.encoder) /\ r.err \in {"none", "full"}
               /\ r.err = "full" <=> shouldCloseBatch(e)
  <1> DEFINE f == IF closesSubBatch(c, isNewEpoch) THEN closeSubBatch(e) ELSE e
             g == IF isEmpty(c) THEN f ELSE appendTxBlock(f, c)
             r == ProcessBlock(e, c, isNewEpoch)
  <1>1. e.runningLen \in Nat /\ e.openSize \in Nat /\ TargetBatchSize \in Nat
    BY BuilderAssumption, SMT DEF Encoder
  <1>2. CASE shouldCloseBatch(e)
    <2>1. r.encoder = closeSubBatch(e) /\ r.err = "full"
      BY <1>2 DEF ProcessBlock
    <2> QED BY <1>2, <2>1, CloseTyped DEF isSound
  <1>3. CASE ~shouldCloseBatch(e)
    <2>1. r.encoder = g /\ r.err = "none"
      BY <1>3 DEF ProcessBlock
    <2>2. e.runningLen + e.openSize + 1 <= TargetBatchSize
      BY <1>1, <1>3, SMT DEF shouldCloseBatch, ListSize
    <2>3. f \in Encoder /\ f.runningLen <= TargetBatchSize
      BY <1>1, <2>2, CloseTyped, SMT
    <2> HIDE DEF f
    <2>4. g \in Encoder /\ g.runningLen <= TargetBatchSize /\ g.runningLen \in Nat
      BY <2>3, AppendTyped, SMT DEF Encoder
    <2> HIDE DEF g
    <2>5. isSound(g)
      BY <1>1, <2>4, SMT DEF isSound
    <2> QED BY <1>3, <2>1, <2>4, <2>5
  <1> QED BY <1>2, <1>3

LEMMA DeadlineTyped ==
    ASSUME NEW epoch \in Nat
    PROVE  deadline(epoch) \in Nat /\ deadline(epoch) >= epoch
  BY BuilderAssumption, SMT DEF deadline

LEMMA TimeoutTyped ==
    ASSUME NEW timeout \in Nat, NEW epoch \in Nat
    PROVE  updateTimeout(timeout, epoch) \in Nat
  BY DeadlineTyped DEF updateTimeout

\* What processing a block leaves alone of the builder.
sameQueue(b, c) ==
    c.pendingBlocks = b.pendingBlocks /\ c.lastEnqueued = b.lastEnqueued /\ c.lastBuilt = b.lastBuilt

\* processBlock, field by field.
LEMMA BlockProcessed ==
    ASSUME NEW b \in Builder, isSound(b.encoder), NEW c \in FullBlock
    PROVE  LET r == processBlock(b, c)
               body == Last(c)
               result == ProcessBlock(b.encoder, c, body.epoch # 0)
           IN  /\ r.builder \in Builder /\ isSound(r.builder.encoder) /\ sameQueue(b, r.builder)
               /\ r.err \in {"none", "full", "unpack"} /\ (r.err = "unpack" <=> body.txs = "bad")
               /\ r.err = "unpack" => r.builder = b
               /\ r.err # "unpack" =>
                     /\ r.err = result.err /\ r.builder.encoder = result.encoder
                     /\ r.builder.timeout = IF body.txs = "oracle" THEN updateTimeout(b.timeout, body.epoch)
                                            ELSE b.timeout
  <1> DEFINE r == processBlock(b, c)
             body == Last(c)
             result == ProcessBlock(b.encoder, c, body.epoch # 0)
             timeout == IF body.txs = "oracle" THEN updateTimeout(b.timeout, body.epoch) ELSE b.timeout
  <1>1. b.encoder \in Encoder /\ b.timeout \in Nat
    BY DEF Builder
  <1>2. body.epoch \in Nat
    BY LastBody
  <1>3. timeout \in Nat
    BY <1>1, <1>2, TimeoutTyped
  <1>4. (body.epoch # 0) \in BOOLEAN
    OBVIOUS
  <1>5. result.encoder \in Encoder /\ isSound(result.encoder) /\ result.err \in {"none", "full"}
    BY <1>1, <1>4, ProcessTyped
  <1>6. r = IF body.txs = "bad" THEN [builder |-> b, err |-> "unpack"]
            ELSE [builder |-> [b EXCEPT !.encoder = result.encoder, !.timeout = timeout], err |-> result.err]
    BY DEF processBlock
  <1> HIDE DEF r, result, timeout, body
  <1>7. CASE body.txs = "bad"
    <2>1. r.builder = b /\ r.err = "unpack"
      BY <1>6, <1>7
    <2> QED BY <1>7, <2>1 DEF sameQueue, r, result, body
  <1>8. CASE body.txs # "bad"
    <2> DEFINE d == [b EXCEPT !.encoder = result.encoder, !.timeout = timeout]
    <2>1. r.builder = d /\ r.err = result.err
      BY <1>6, <1>8
    <2>2. d \in Builder /\ d.encoder = result.encoder /\ d.timeout = timeout /\ sameQueue(b, d)
      BY <1>3, <1>5 DEF Builder, sameQueue
    <2> HIDE DEF d
    <2> QED BY <1>5, <1>8, <2>1, <2>2 DEF r, result, timeout, body
  <1> QED BY <1>7, <1>8

\* What the loop of encodePending has done after n rounds at most.
Reached(b, n) ==
    {acc \in Progress : /\ sameQueue(b, acc.builder) /\ isSound(acc.builder.encoder)
                        /\ acc.numProcessed <= n}

\* A round of that loop: after an error nothing happens any more, else the block is
\* processed and counted unless it fails.
Round(b, n, acc, c) ==
    /\ processNext(acc, c) \in Reached(b, n)
    /\ acc.err # "none" => processNext(acc, c) = acc
    /\ acc.err = "none" =>
          /\ processNext(acc, c).builder = processBlock(acc.builder, c).builder
          /\ processNext(acc, c).err = processBlock(acc.builder, c).err
          /\ processNext(acc, c).numProcessed =
                IF processBlock(acc.builder, c).err = "none" THEN acc.numProcessed + 1
                ELSE acc.numProcessed

LEMMA RoundTyped ==
    ASSUME NEW b \in Builder, NEW n \in Nat, n - 1 \in Nat, NEW acc \in Reached(b, n - 1),
           NEW c \in FullBlock
    PROVE  Round(b, n, acc, c)
  <1> DEFINE result == processBlock(acc.builder, c)
  <1>1. acc.builder \in Builder /\ isSound(acc.builder.encoder) /\ sameQueue(b, acc.builder)
        /\ acc.numProcessed \in Nat /\ acc.numProcessed <= n - 1
    BY DEF Reached, Progress
  <1>2. /\ result.builder \in Builder /\ isSound(result.builder.encoder)
        /\ sameQueue(acc.builder, result.builder) /\ result.err \in {"none", "full", "unpack"}
    BY <1>1, BlockProcessed
  <1>3. sameQueue(b, result.builder)
    BY <1>1, <1>2 DEF sameQueue
  <1>4. CASE acc.err # "none"
    <2>1. processNext(acc, c) = acc
      BY <1>4 DEF processNext
    <2>2. acc \in Reached(b, n)
      BY <1>1, SMT DEF Reached
    <2> QED BY <1>4, <2>1, <2>2 DEF Round
  <1>5. CASE acc.err = "none"
    <2> DEFINE k == acc.numProcessed + (IF result.err = "none" THEN 1 ELSE 0)
    <2>1. processNext(acc, c) = [builder |-> result.builder, err |-> result.err, numProcessed |-> k]
      BY <1>5 DEF processNext
    <2> HIDE DEF result
    <2>2. k \in Nat /\ k <= n
          /\ k = IF result.err = "none" THEN acc.numProcessed + 1 ELSE acc.numProcessed
      BY <1>1, SMT
    <2> HIDE DEF k
    <2>3. processNext(acc, c) \in Reached(b, n)
      BY <1>2, <1>3, <2>1, <2>2, SMT DEF Reached, Progress
    <2>4. /\ processNext(acc, c).builder = result.builder /\ processNext(acc, c).err = result.err
          /\ processNext(acc, c).numProcessed = k
      BY <2>1, SMT
    <2> QED BY <1>5, <2>2, <2>3, <2>4 DEF result, Round
  <1> QED BY <1>4, <1>5

LEMMA LoopTyped ==
    ASSUME NEW b \in Builder, isSound(b.encoder)
    PROVE  /\ Len(b.pendingBlocks) \in Nat
           /\ \A n \in 1..Len(b.pendingBlocks) : b.pendingBlocks[n] \in FullBlock
           /\ firstRound(b) \in Reached(b, 0)
           /\ processFirst(b)[Len(b.pendingBlocks)] \in Reached(b, Len(b.pendingBlocks))
  <1> DEFINE size == Len(b.pendingBlocks)
             I == [n \in 0..size |-> Reached(b, n)]
  <1>1. size \in Nat /\ \A n \in 1..size : b.pendingBlocks[n] \in FullBlock
    BY SMT DEF Builder
  <1>2. firstRound(b) \in Reached(b, 0)
    BY SMT DEF firstRound, Reached, Progress, sameQueue
  <1>3. firstRound(b) \in I[0]
    BY <1>1, <1>2, SMT
  <1>4. ASSUME NEW n \in 1..size, NEW acc \in I[n - 1]
        PROVE  processNext(acc, b.pendingBlocks[n]) \in I[n]
    <2>1. n \in Nat /\ n - 1 \in Nat /\ n - 1 \in 0..size /\ n \in 0..size
      BY <1>1, SMT
    <2>2. acc \in Reached(b, n - 1)
      BY <1>4, <2>1
    <2>3. Round(b, n, acc, b.pendingBlocks[n])
      BY <1>1, <2>1, <2>2, RoundTyped
    <2> QED BY <2>1, <2>3 DEF Round
  <1>5. size \in 0..size
    BY <1>1, SMT
  <1> HIDE DEF I
  <1>6. processFirst(b)[size] \in I[size]
    BY <1>1, <1>3, <1>4, LoopKeeps
  <1> QED BY <1>1, <1>2, <1>5, <1>6 DEF I

LEMMA SeqGrows ==
    ASSUME NEW S, NEW T, S \subseteq T
    PROVE  Seq(S) \subseteq Seq(T)
  BY SMT

LEMMA NoneIsNoBlock == NoBlock \notin Block /\ NoBatch \notin Seq(Seq(FullBlock))
  <1>1. Bodies \subseteq Body(Nat)
    BY DisseminatorAssumption, SMT DEF Bodies, Body
  <1>2. Block \subseteq Seq(Body(Nat))
    BY <1>1, SeqGrows DEF Block
  <1>3. FullBlock \subseteq Seq(Body(Nat))
    BY <1>2 DEF FullBlock
  <1>4. Seq(FullBlock) \subseteq Seq(Seq(Body(Nat)))
    BY <1>3, SeqGrows
  <1>5. Seq(Seq(FullBlock)) \subseteq Seq(Seq(Seq(Body(Nat))))
    BY <1>4, SeqGrows
  <1> QED BY <1>2, <1>5, BuilderAssumption

LEMMA EncodeTyped ==
    ASSUME NEW b \in Builder, isSound(b.encoder)
    PROVE  LET r == encodePending(b)
               done == processFirst(b)[Len(b.pendingBlocks)]
           IN  /\ r.builder \in Builder /\ isSound(r.builder.encoder)
               /\ r.builder.lastEnqueued = b.lastEnqueued /\ r.builder.lastBuilt = b.lastBuilt
               /\ r.builder.encoder = done.builder.encoder /\ r.builder.timeout = done.builder.timeout
               /\ r.err \in {"none", "unpack"} /\ (r.err = "unpack" <=> done.err = "unpack")
               /\ r.err = "unpack" => r.builder.pendingBlocks = b.pendingBlocks
               /\ r.err = "none" =>
                     r.builder.pendingBlocks =
                         SubSeq(b.pendingBlocks, done.numProcessed + 1, Len(b.pendingBlocks))
  <1> DEFINE r == encodePending(b)
             done == processFirst(b)[Len(b.pendingBlocks)]
             rest == SubSeq(b.pendingBlocks, done.numProcessed + 1, Len(b.pendingBlocks))
  <1>1. done \in Reached(b, Len(b.pendingBlocks)) /\ Len(b.pendingBlocks) \in Nat
    BY LoopTyped
  <1>2. r = IF done.err = "unpack" THEN [builder |-> done.builder, err |-> "unpack"]
            ELSE [builder |-> [done.builder EXCEPT !.pendingBlocks = 
                                   SubSeq(@, done.numProcessed + 1, Len(@))], err |-> "none"]
    BY DEF encodePending
  <1> HIDE DEF done
  <1>3. /\ done.builder \in Builder /\ isSound(done.builder.encoder) /\ sameQueue(b, done.builder)
        /\ done.numProcessed \in Nat
    BY <1>1 DEF Reached, Progress
  <1>4. b.pendingBlocks \in Seq(FullBlock)
    BY DEF Builder
  <1>5. rest \in Seq(FullBlock)
    BY <1>1, <1>3, <1>4, SMT
  <1> HIDE DEF r
  <1>6. CASE done.err = "unpack"
    <2>1. r.builder = done.builder /\ r.err = "unpack"
      BY <1>2, <1>6
    <2> QED BY <1>3, <1>6, <2>1 DEF sameQueue, r, done
  <1>7. CASE done.err # "unpack"
    <2> DEFINE d == [done.builder EXCEPT !.pendingBlocks = rest]
    <2>1. r.builder = d /\ r.err = "none"
      BY <1>2, <1>3, <1>7 DEF sameQueue
    <2>2. /\ d \in Builder /\ d.pendingBlocks = rest /\ d.encoder = done.builder.encoder
          /\ d.timeout = done.builder.timeout
          /\ d.lastEnqueued = b.lastEnqueued /\ d.lastBuilt = b.lastBuilt
      BY <1>3, <1>5 DEF Builder, sameQueue
    <2> HIDE DEF d, rest
    <2> QED BY <1>3, <1>7, <2>1, <2>2 DEF sameQueue, r, done, rest
  <1> QED BY <1>6, <1>7

LEMMA GetTyped ==
    ASSUME NEW b \in Builder, isSound(b.encoder), NEW head
    PROVE  LET r == getBatch(b, head)
               e == r.builder.encoder
           IN  /\ r.builder \in Builder /\ isSound(e)
               /\ r.builder.lastEnqueued = b.lastEnqueued /\ r.builder.pendingBlocks = b.pendingBlocks
               /\ r.builder.timeout = b.timeout /\ r.err \in {"EOF", "none"}
               /\ r.err = "EOF" => r.builder = b
               /\ r.err = "none" =>
                     /\ r.builder.lastBuilt = e.closed /\ r.builder.lastBuilt # NoBatch
                     /\ e = IF shouldCloseBatch(b.encoder) THEN closeSubBatch(b.encoder) ELSE b.encoder
                     /\ isForced(b, head) \/ b.encoder.runningLen + b.encoder.openSize >= TargetBatchSize
  <1> DEFINE r == getBatch(b, head)
             f == IF shouldCloseBatch(b.encoder) THEN closeSubBatch(b.encoder) ELSE b.encoder
             small == ~isForced(b, head) /\ b.encoder.runningLen + b.encoder.openSize < TargetBatchSize
             d == [b EXCEPT !.encoder = f, !.lastBuilt = f.closed]
  <1>1. r = IF small THEN [builder |-> b, err |-> "EOF"] ELSE [builder |-> d, err |-> "none"]
    BY DEF getBatch, GetBatch
  <1>2. b.encoder \in Encoder /\ b.encoder.runningLen \in Nat /\ b.encoder.openSize \in Nat
        /\ TargetBatchSize \in Nat
    BY BuilderAssumption, SMT DEF Builder, Encoder
  <1>3. f \in Encoder /\ isSound(f)
    BY <1>2, CloseTyped DEF isSound
  <1>4. f.closed \in Seq(Seq(FullBlock)) /\ f.closed # NoBatch
    BY <1>3, NoneIsNoBlock DEF Encoder
  <1> HIDE DEF f, r
  <1>5. CASE small
    <2>1. r.builder = b /\ r.err = "EOF"
      BY <1>1, <1>5
    <2> QED BY <2>1 DEF r
  <1>6. CASE ~small
    <2>1. r.builder = d /\ r.err = "none"
      BY <1>1, <1>6
    <2>2. /\ d \in Builder /\ d.encoder = f /\ d.lastBuilt = f.closed /\ d.pendingBlocks = b.pendingBlocks
          /\ d.timeout = b.timeout /\ d.lastEnqueued = b.lastEnqueued
      BY <1>3, <1>4 DEF Builder
    <2>3. isForced(b, head) \/ b.encoder.runningLen + b.encoder.openSize >= TargetBatchSize
      BY <1>2, <1>6, SMT
    <2> HIDE DEF d, small
    <2> QED BY <1>3, <1>4, <2>1, <2>2, <2>3 DEF r, f
  <1> QED BY <1>5, <1>6

\* Build, by the cases of disseminateBatch: the batch that was built before, nothing to
\* build from, a block that cannot be processed, and the batch of the blocks encoded.
LEMMA BuildTyped ==
    ASSUME NEW b \in Builder, isSound(b.encoder), NEW head
    PROVE  LET r == Build(b, head)
           IN  /\ r.builder \in Builder /\ isSound(r.builder.encoder)
               /\ r.builder.lastEnqueued = b.lastEnqueued
               /\ r.err = "none" => r.builder.lastBuilt # NoBatch
               /\ \/ r.builder = b
                  \/ /\ b.lastBuilt = NoBatch /\ b.pendingBlocks # <<>> /\ encodePending(b).err = "unpack"
                     /\ r.builder = encodePending(b).builder
                  \/ /\ b.lastBuilt = NoBatch /\ b.pendingBlocks # <<>> /\ encodePending(b).err = "none"
                     /\ r.builder = getBatch(encodePending(b).builder, head).builder
  <1> DEFINE r == Build(b, head)
             encoded == encodePending(b)
  <1>1. /\ encoded.builder \in Builder /\ isSound(encoded.builder.encoder)
        /\ encoded.builder.lastEnqueued = b.lastEnqueued /\ encoded.err \in {"none", "unpack"}
    BY EncodeTyped
  <1>2. r = IF b.lastBuilt # NoBatch THEN [builder |-> b, err |-> "none"]
            ELSE IF b.pendingBlocks = <<>> THEN [builder |-> b, err |-> "EOF"]
            ELSE IF encoded.err # "none" THEN encoded
            ELSE getBatch(encoded.builder, head)
    BY DEF Build
  <1> HIDE DEF encoded, r
  <1>3. CASE b.lastBuilt # NoBatch
    BY <1>2, <1>3, SMT DEF r, encoded
  <1>4. CASE b.lastBuilt = NoBatch /\ b.pendingBlocks = <<>>
    BY <1>2, <1>4, SMT DEF r, encoded
  <1>5. CASE b.lastBuilt = NoBatch /\ b.pendingBlocks # <<>> /\ encoded.err # "none"
    <2>1. r = encoded /\ encoded.err = "unpack"
      BY <1>1, <1>2, <1>5
    <2> QED BY <1>1, <1>5, <2>1 DEF r, encoded
  <1>6. CASE b.lastBuilt = NoBatch /\ b.pendingBlocks # <<>> /\ encoded.err = "none"
    <2> DEFINE g == getBatch(encoded.builder, head)
    <2>1. r = g
      BY <1>2, <1>6
    <2>2. /\ g.builder \in Builder /\ isSound(g.builder.encoder)
          /\ g.builder.lastEnqueued = encoded.builder.lastEnqueued
          /\ g.err = "none" => g.builder.lastBuilt # NoBatch
      BY <1>1, GetTyped
    <2> HIDE DEF g
    <2>3. r.builder = getBatch(encodePending(b).builder, head).builder
      BY <2>1 DEF g, encoded
    <2> QED BY <1>1, <1>6, <2>1, <2>2, <2>3 DEF r, encoded
  <1> QED BY <1>3, <1>4, <1>5, <1>6

-----------------------------------------------------------------------------
(* The service *)

DInv ==
    /\ pc \in {"start", "idle", "safe", "head", "fetch", "rollback", "build", "send"}
    /\ chain \in Seq(Bodies) /\ safe \in 0..Len(chain)
    /\ builder \in Builder /\ isSound(builder.encoder)
    /\ next \in Nat /\ base \in Nat
    /\ pc \in {"head", "fetch"} => next # 0
    /\ pc = "send" => builder.lastBuilt # NoBatch

Enqueues ==
    /\ next \in 1..Len(chain) /\ canEnqueue(builder, block(next))
    /\ builder' = Enqueue(builder, block(next))
    /\ base' = IF builder.lastEnqueued = NoBlock THEN next - 1 ELSE base

\* What a step does to the builder: nothing, Enqueue, Reset, Build, Advance or a restart.
LEMMA BuilderMoves ==
    ASSUME DInv, [Next]_vars
    PROVE  \/ builder' = builder /\ base' = base
           \/ Enqueues
           \/ builder' = Reset(builder, block(safe)) /\ base' = safe
           \/ builder' = Build(builder, l1Head).builder /\ base' = base /\ l1Head' = l1Head
           \/ builder' = Advance(builder) /\ base' = base
           \/ builder' = newBuilder /\ base' = 0
  <1>1. CASE UNCHANGED vars
    BY <1>1 DEF vars
  <1>2. CASE Tick \/ ReadSafe \/ ReadHead
    BY <1>2 DEF Tick, ReadSafe, ReadHead
  <1>3. CASE FetchBlock
    <2>1. next \in Nat /\ Len(chain) \in Nat /\ next # 0
      BY <1>3, SMT DEF DInv, FetchBlock
    <2>2. CASE builder' = builder /\ base' = base
      BY <2>2
    <2>3. CASE ~(builder' = builder /\ base' = base)
      <3>1. /\ next <= Len(chain) /\ canEnqueue(builder, block(next))
            /\ builder' = Enqueue(builder, block(next))
            /\ base' = IF builder.lastEnqueued = NoBlock THEN next - 1 ELSE base
        BY <1>3, <2>3 DEF FetchBlock
      <3> QED BY <2>1, <3>1, SMT DEF Enqueues
    <2> QED BY <2>2, <2>3
  <1>4. CASE Rollback
    BY <1>4 DEF Rollback
  <1>5. CASE BuildBatch
    BY <1>5 DEF BuildBatch, environment
  <1>6. CASE SendBatch
    BY <1>6 DEF SendBatch
  <1>7. CASE SendFails \/ CallFails
    BY <1>7 DEF SendFails, CallFails
  <1>8. CASE Restart
    BY <1>8 DEF Restart
  <1>9. CASE \E body \in Body(1..MaxL1) : ProduceBlock(body)
    BY <1>9 DEF ProduceBlock, service
  <1>10. CASE \E n \in 0..MaxL2 : Reorganise(n)
    BY <1>10 DEF Reorganise, service
  <1>11. CASE \E n \in 1..MaxL1 : OnLatest(n)
    BY <1>11 DEF OnLatest, service
  <1>12. CASE \E n \in 1..MaxL2 : DeriveBlocks(n)
    BY <1>12 DEF DeriveBlocks, service
  <1> QED BY <1>1, <1>2, <1>3, <1>4, <1>5, <1>6, <1>7, <1>8, <1>9, <1>10, <1>11, <1>12 DEF Next, Work

LEMMA PrefixTyped ==
    ASSUME NEW S, NEW s \in Seq(S), NEW n \in 0..Len(s)
    PROVE  SubSeq(s, 1, n) \in Seq(S) /\ Len(SubSeq(s, 1, n)) = n
  BY SMT

LEMMA BlockTyped ==
    ASSUME chain \in Seq(Bodies), NEW n \in 0..Len(chain)
    PROVE  block(n) \in Block /\ Len(block(n)) = n /\ (n # 0 => block(n) \in FullBlock)
  <1>1. SubSeq(chain, 1, n) \in Seq(Bodies) /\ Len(SubSeq(chain, 1, n)) = n
    BY PrefixTyped
  <1>2. n # 0 => SubSeq(chain, 1, n) # <<>>
    BY <1>1
  <1> QED BY <1>1, <1>2 DEF block, Block, FullBlock

LEMMA NewTyped == newEncoder \in Encoder /\ newBuilder \in Builder /\ isSound(newEncoder)
                  /\ newBuilder.encoder = newEncoder
  <1>1. TargetBatchSize \in Nat /\ 0 \in Nat /\ 0 \in 0..TargetBatchSize + 1
    BY BuilderAssumption, SMT
  <1>2. newEncoder \in Encoder /\ isSound(newEncoder)
    BY <1>1, SMT DEF Encoder, newEncoder, isSound
  <1> QED BY <1>1, <1>2, SMT DEF Builder, newBuilder

LEMMA ResetTyped ==
    ASSUME NEW b \in Builder, NEW c \in Block
    PROVE  /\ Reset(b, c) \in Builder /\ Reset(b, c).encoder = newEncoder
           /\ Reset(b, c).pendingBlocks = <<>> /\ Reset(b, c).lastEnqueued = c
           /\ Reset(b, c).lastBuilt = NoBatch /\ Reset(b, c).timeout = b.timeout
  <1>1. /\ newBuilder \in Builder /\ newBuilder.encoder = newEncoder /\ newBuilder.pendingBlocks = <<>>
        /\ newBuilder.lastBuilt = NoBatch
    BY NewTyped DEF newBuilder
  <1>2. b.timeout \in Nat
    BY DEF Builder
  <1> QED BY <1>1, <1>2 DEF Builder, Reset

LEMMA EnqueueTyped ==
    ASSUME NEW b \in Builder, NEW c \in FullBlock
    PROVE  /\ Enqueue(b, c) \in Builder /\ Enqueue(b, c).encoder = b.encoder
           /\ Enqueue(b, c).pendingBlocks = Append(b.pendingBlocks, c) /\ Enqueue(b, c).lastEnqueued = c
           /\ Enqueue(b, c).lastBuilt = b.lastBuilt /\ Enqueue(b, c).timeout = b.timeout
  <1>1. Append(b.pendingBlocks, c) \in Seq(FullBlock) /\ c \in Block
    BY SMT DEF Builder, FullBlock
  <1> QED BY <1>1 DEF Builder, Enqueue

LEMMA AdvanceTyped ==
    ASSUME NEW b \in Builder
    PROVE  /\ Advance(b) \in Builder /\ Advance(b).encoder = b.encoder
           /\ Advance(b).pendingBlocks = b.pendingBlocks /\ Advance(b).lastEnqueued = b.lastEnqueued
           /\ Advance(b).lastBuilt = NoBatch /\ Advance(b).timeout = b.timeout
  BY DEF Builder, Advance

LEMMA BuilderTyped ==
    ASSUME DInv, [Next]_vars
    PROVE  builder' \in Builder /\ isSound(builder'.encoder) /\ base' \in Nat
  <1>1. CASE builder' = builder /\ base' = base
    BY <1>1 DEF DInv
  <1>2. CASE Enqueues
    <2>1. block(next) \in FullBlock /\ next - 1 \in Nat
      BY <1>2, BlockTyped, SMT DEF DInv, Enqueues
    <2>2. builder' = Enqueue(builder, block(next)) /\ base' \in Nat
      BY <1>2, <2>1 DEF DInv, Enqueues
    <2> QED BY <2>1, <2>2, EnqueueTyped DEF DInv
  <1>3. CASE builder' = Reset(builder, block(safe)) /\ base' = safe
    <2>1. block(safe) \in Block /\ safe \in Nat
      BY BlockTyped, SMT DEF DInv
    <2> QED BY <1>3, <2>1, ResetTyped, NewTyped DEF DInv
  <1>4. CASE builder' = Build(builder, l1Head).builder /\ base' = base
    BY <1>4, BuildTyped DEF DInv
  <1>5. CASE builder' = Advance(builder) /\ base' = base
    BY <1>5, AdvanceTyped DEF DInv
  <1>6. CASE builder' = newBuilder /\ base' = 0
    BY <1>6, NewTyped
  <1> QED BY <1>1, <1>2, <1>3, <1>4, <1>5, <1>6, BuilderMoves

LEMMA DInvStep ==
    ASSUME DInv, [Next]_vars
    PROVE  DInv'
  <1>0. builder' \in Builder /\ isSound(builder'.encoder) /\ base' \in Nat
    BY BuilderTyped
  <1>1. CASE UNCHANGED vars
    BY <1>0, <1>1 DEF DInv, vars
  <1>2. CASE Tick
    BY <1>0, <1>2 DEF DInv, Tick, environment
  <1>3. CASE ReadSafe
    <2>1. next' \in Nat /\ next' # 0
      <3>1. builder.lastEnqueued \in Block \cup {NoBlock} /\ safe \in Nat
        BY SMT DEF DInv, Builder
      <3>2. number(builder.lastEnqueued) \in Nat
        BY <3>1, SMT DEF number, Block
      <3> QED BY <1>3, <3>1, <3>2, SMT DEF ReadSafe
    <2> QED BY <1>0, <1>3, <2>1 DEF DInv, ReadSafe, environment
  <1>4. CASE ReadHead
    BY <1>0, <1>4 DEF DInv, ReadHead, environment
  <1>5. CASE FetchBlock
    <2>1. next' \in Nat /\ next' # 0
      BY <1>5, SMT DEF DInv, FetchBlock
    <2>2. pc' \in {"idle", "rollback", "fetch", "build"} /\ chain' = chain /\ safe' = safe
      BY <1>5 DEF FetchBlock, environment
    <2> QED BY <1>0, <2>1, <2>2 DEF DInv
  <1>6. CASE Rollback
    BY <1>0, <1>6 DEF DInv, Rollback, environment
  <1>7. CASE BuildBatch
    <2>1. Build(builder, l1Head).err = "none" => builder'.lastBuilt # NoBatch
      BY <1>7, BuildTyped DEF DInv, BuildBatch
    <2>2. /\ pc' = IF Build(builder, l1Head).err = "none" THEN "send" ELSE "idle"
          /\ next' = next /\ chain' = chain /\ safe' = safe
      BY <1>7 DEF BuildBatch, environment
    <2> QED BY <1>0, <2>1, <2>2 DEF DInv
  <1>8. CASE SendBatch
    BY <1>0, <1>8 DEF DInv, SendBatch, environment
  <1>9. CASE SendFails
    BY <1>0, <1>9 DEF DInv, SendFails, environment
  <1>10. CASE CallFails
    BY <1>0, <1>10 DEF DInv, CallFails, environment
  <1>11. CASE Restart
    BY <1>0, <1>11 DEF DInv, Restart
  <1>12. CASE \E body \in Body(1..MaxL1) : ProduceBlock(body)
    <2>1. PICK body \in Bodies : ProduceBlock(body)
      BY <1>12 DEF Bodies
    <2>2. chain' \in Seq(Bodies) /\ Len(chain') = Len(chain) + 1 /\ Len(chain) \in Nat
      BY <2>1, SMT DEF DInv, ProduceBlock
    <2>3. safe' \in 0..Len(chain')
      BY <2>1, <2>2, SMT DEF DInv, ProduceBlock
    <2> QED BY <1>0, <2>1, <2>2, <2>3 DEF DInv, ProduceBlock, service
  <1>13. CASE \E n \in 0..MaxL2 : Reorganise(n)
    <2>1. PICK n \in 0..MaxL2 : Reorganise(n)
      BY <1>13
    <2>2. n \in 0..Len(chain) /\ safe \in 0..n /\ Len(chain) \in Nat
      BY <2>1, SMT DEF DInv, Reorganise
    <2>3. chain' \in Seq(Bodies) /\ Len(chain') = n
      BY <2>1, <2>2, BlockTyped DEF DInv, Reorganise, Block
    <2> QED BY <1>0, <2>1, <2>2, <2>3 DEF DInv, Reorganise, service
  <1>14. CASE \E n \in 1..MaxL1 : OnLatest(n)
    BY <1>0, <1>14 DEF DInv, OnLatest, service
  <1>15. CASE \E n \in 1..MaxL2 : DeriveBlocks(n)
    <2>1. PICK n \in 1..MaxL2 : DeriveBlocks(n)
      BY <1>15
    <2>2. safe' \in 0..Len(chain)
      BY <2>1, SMT DEF DInv, DeriveBlocks
    <2> QED BY <1>0, <2>1, <2>2 DEF DInv, DeriveBlocks, service
  <1> QED BY <1>1, <1>2, <1>3, <1>4, <1>5, <1>6, <1>7, <1>8, <1>9, <1>10, <1>11, <1>12, <1>13, <1>14, <1>15
             DEF Next, Work

LEMMA InitDInv == Init => DInv
  BY NewTyped, SMT DEF Init, DInv

LEMMA DInvHolds == Spec => []DInv
  BY InitDInv, DInvStep, PTL DEF Spec

\* The state of the builder and of the encoder is what the code declares, whatever the
\* configuration: the encoder's lengths are never negative, an L2 block that is fetched
\* is one of the chain, and the service sends only when there is a batch (step, Build).
THEOREM DisseminatorTypeCorrect == Spec => []TypeOK
  <1>1. DInv => TypeOK
    <2> SUFFICES ASSUME DInv PROVE TypeOK
      OBVIOUS
    <2>1. builder.timeout \in Nat /\ builder.encoder \in Encoder
      BY DEF DInv, Builder
    <2>2. builder.encoder.runningLen \in 0..TargetBatchSize + 1 /\ builder.encoder.openSize \in Nat
      BY <2>1 DEF Encoder
    <2> QED BY <2>1, <2>2 DEF DInv, TypeOK, Bodies
  <1> QED BY <1>1, DInvHolds, PTL

\* A batch that was built is the one that every retry sends: Build returns it as long as
\* Advance, Reset or a restart has not removed it.
THEOREM BuiltBatchStands == Spec => BatchStands
  <1>1. ASSUME DInv, [Next]_vars, builder.lastBuilt # NoBatch, builder'.lastBuilt # NoBatch
        PROVE  builder'.lastBuilt = builder.lastBuilt
    <2>1. builder \in Builder /\ isSound(builder.encoder)
      BY <1>1 DEF DInv
    <2>2. CASE Enqueues
      <3>1. block(next) \in FullBlock
        BY <1>1, <2>2, BlockTyped, SMT DEF DInv, Enqueues
      <3> QED BY <2>1, <2>2, <3>1, EnqueueTyped DEF Enqueues
    <2>3. CASE builder' = Reset(builder, block(safe))
      BY <1>1, <2>1, <2>3, BlockTyped, ResetTyped DEF DInv
    <2>4. CASE builder' = Build(builder, l1Head).builder
      BY <1>1, <2>1, <2>4, BuildTyped
    <2>5. CASE builder' = Advance(builder)
      BY <1>1, <2>1, <2>5, AdvanceTyped
    <2>6. CASE builder' = newBuilder
      BY <1>1, <2>6 DEF newBuilder
    <2> QED BY <1>1, <2>2, <2>3, <2>4, <2>5, <2>6, BuilderMoves
  <1>2. DInv /\ [Next]_vars =>
           [builder.lastBuilt # NoBatch /\ builder'.lastBuilt # NoBatch =>
               builder'.lastBuilt = builder.lastBuilt]_vars
    BY <1>1
  <1> QED BY <1>2, DInvHolds, PTL DEF Spec, BatchStands

\* A batch that is built for its size holds every encoded block: if GetBatch lets it go
\* without being forced, shouldCloseBatch has closed the open sub-batch.
THEOREM UnforcedBatchIsWhole == Spec => UnforcedIsWhole
  <1>1. ASSUME DInv, [Next]_vars, builder.lastBuilt = NoBatch, builder'.lastBuilt # NoBatch,
               ~isForced(builder', l1Head)
        PROVE  builder'.encoder.open = <<>>
    <2>1. builder \in Builder /\ isSound(builder.encoder)
      BY <1>1 DEF DInv
    <2>2. CASE Enqueues
      <3>1. block(next) \in FullBlock
        BY <1>1, <2>2, BlockTyped, SMT DEF DInv, Enqueues
      <3> QED BY <1>1, <2>1, <2>2, <3>1, EnqueueTyped DEF Enqueues
    <2>3. CASE builder' = Reset(builder, block(safe))
      BY <1>1, <2>1, <2>3, BlockTyped, ResetTyped DEF DInv
    <2>4. CASE builder' = Build(builder, l1Head).builder
      <3> DEFINE b == encodePending(builder).builder
                 r == getBatch(b, l1Head)
                 e == b.encoder
      <3>1. b \in Builder /\ isSound(b.encoder) /\ b.lastBuilt = NoBatch
        BY <1>1, <2>1, EncodeTyped
      <3>2. builder' = r.builder
        BY <1>1, <2>1, <2>4, <3>1, BuildTyped
      <3> HIDE DEF b
      <3>3. /\ r.builder.timeout = b.timeout /\ r.err \in {"EOF", "none"}
            /\ r.err = "EOF" => r.builder = b
            /\ r.err = "none" =>
                  /\ r.builder.encoder = IF shouldCloseBatch(e) THEN closeSubBatch(e) ELSE e
                  /\ isForced(b, l1Head) \/ e.runningLen + e.openSize >= TargetBatchSize
        BY <3>1, GetTyped
      <3> HIDE DEF r
      <3>4. r.err = "none" /\ ~isForced(b, l1Head)
        BY <1>1, <3>1, <3>2, <3>3 DEF isForced
      <3>5. e \in Encoder /\ e.runningLen \in Nat /\ e.openSize \in Nat /\ TargetBatchSize \in Nat
        BY <3>1, BuilderAssumption, SMT DEF Builder, Encoder
      <3>6. e.runningLen + e.openSize >= TargetBatchSize
        BY <3>3, <3>4
      <3>7. shouldCloseBatch(e)
        BY <3>5, <3>6, SMT DEF shouldCloseBatch, ListSize
      <3> QED BY <3>2, <3>3, <3>4, <3>5, <3>7, CloseTyped, SMT
    <2>5. CASE builder' = Advance(builder)
      BY <1>1, <2>1, <2>5, AdvanceTyped
    <2>6. CASE builder' = newBuilder
      BY <1>1, <2>6 DEF newBuilder
    <2> QED BY <1>1, <2>2, <2>3, <2>4, <2>5, <2>6, BuilderMoves
  <1>2. DInv /\ [Next]_vars =>
           [builder.lastBuilt = NoBatch /\ builder'.lastBuilt # NoBatch /\ ~isForced(builder', l1Head) =>
               builder'.encoder.open = <<>>]_vars
    BY <1>1
  <1> QED BY <1>2, DInvHolds, PTL DEF Spec, UnforcedIsWhole

LEMMA FullCloses ==
    ASSUME NEW e \in Encoder, isSound(e), e.runningLen > TargetBatchSize
    PROVE  /\ shouldCloseBatch(e) /\ closeSubBatch(e).closed = e.closed
           /\ closeSubBatch(e).runningLen > TargetBatchSize
  <1>1. e.runningLen \in Nat /\ e.openSize \in Nat /\ TargetBatchSize \in Nat
    BY BuilderAssumption, SMT DEF Encoder
  <1>2. e.runningLen + e.openSize + 1 > TargetBatchSize
    BY <1>1, SMT
  <1>3. shouldCloseBatch(e)
    BY <1>1, <1>2, SMT DEF shouldCloseBatch, ListSize
  <1>4. closeSubBatch(e).runningLen = TargetBatchSize + 1
    BY <1>2, CloseTyped
  <1> QED BY <1>1, <1>3, <1>4, CloseTyped, SMT DEF isSound

\* A full encoder takes no block: the loop of encodePending ends at the first.
LEMMA FullTakesNone ==
    ASSUME NEW b \in Builder, isSound(b.encoder), b.encoder.runningLen > TargetBatchSize
    PROVE  LET r == encodePending(b).builder
           IN  /\ r.encoder.closed = b.encoder.closed /\ r.pendingBlocks = b.pendingBlocks
               /\ r.encoder.runningLen > TargetBatchSize
  <1> DEFINE size == Len(b.pendingBlocks)
             Full(n) == {acc \in Reached(b, n) : /\ acc.builder.encoder.closed = b.encoder.closed
                                                 /\ acc.builder.encoder.runningLen > TargetBatchSize
                                                 /\ acc.numProcessed = 0}
             I == [n \in 0..size |-> Full(n)]
             done == processFirst(b)[size]
  <1>1. size \in Nat /\ (\A n \in 1..size : b.pendingBlocks[n] \in FullBlock) /\ firstRound(b) \in Reached(b, 0)
    BY LoopTyped
  <1>2. firstRound(b) \in I[0]
    BY <1>1, SMT DEF firstRound
  <1>3. ASSUME NEW n \in 1..size, NEW acc \in I[n - 1]
        PROVE  processNext(acc, b.pendingBlocks[n]) \in I[n]
    <2> DEFINE c == b.pendingBlocks[n]
               a == processNext(acc, c)
               result == processBlock(acc.builder, c)
    <2>1. n \in Nat /\ n - 1 \in Nat /\ n - 1 \in 0..size /\ n \in 0..size /\ (n - 1) + 1 = n /\ c \in FullBlock
      BY <1>1, SMT
    <2>2. acc \in Full(n - 1)
      BY <1>3, <2>1
    <2>3. /\ a \in Reached(b, n) /\ (acc.err # "none" => a = acc)
          /\ acc.err = "none" =>
                /\ a.builder = result.builder
                /\ a.numProcessed = IF result.err = "none" THEN acc.numProcessed + 1 ELSE acc.numProcessed
      <3>1. Round(b, n, acc, c)
        BY <2>1, <2>2, RoundTyped
      <3> QED BY <3>1 DEF Round
    <2>4. acc.builder \in Builder /\ isSound(acc.builder.encoder)
      BY <2>2 DEF Reached, Progress
    <2>5. acc.builder.encoder \in Encoder
      BY <2>4 DEF Builder
    <2>6. /\ shouldCloseBatch(acc.builder.encoder)
          /\ closeSubBatch(acc.builder.encoder).closed = b.encoder.closed
          /\ closeSubBatch(acc.builder.encoder).runningLen > TargetBatchSize
      BY <2>2, <2>4, <2>5, FullCloses
    <2>7. /\ result.err # "none"
          /\ result.builder.encoder \in {acc.builder.encoder, closeSubBatch(acc.builder.encoder)}
      BY <2>1, <2>4, <2>6, BlockProcessed DEF ProcessBlock
    <2> HIDE DEF a, result, c
    <2>8. a \in Full(n)
      BY <2>2, <2>3, <2>6, <2>7
    <2> QED BY <2>1, <2>8 DEF a, c
  <1> HIDE DEF I
  <1>4. done \in I[size]
    BY <1>1, <1>2, <1>3, LoopKeeps
  <1>5. done \in Full(size)
    BY <1>1, <1>4, SMT DEF I
  <1> HIDE DEF done
  <1>6. b.pendingBlocks \in Seq(FullBlock)
    BY DEF Builder
  <1>7. SubSeq(b.pendingBlocks, 0 + 1, size) = b.pendingBlocks
    BY <1>6, SMT
  <1> DEFINE r == encodePending(b)
  <1>8. /\ r.builder.encoder = done.builder.encoder /\ r.err \in {"none", "unpack"}
        /\ r.err = "unpack" => r.builder.pendingBlocks = b.pendingBlocks
        /\ r.err = "none" => r.builder.pendingBlocks = SubSeq(b.pendingBlocks, done.numProcessed + 1, size)
    BY EncodeTyped DEF done
  <1> HIDE DEF r
  <1>9. r.builder.pendingBlocks = b.pendingBlocks
    BY <1>5, <1>7, <1>8
  <1> QED BY <1>5, <1>8, <1>9 DEF r

LEMMA PrefixOfSelf ==
    ASSUME NEW S, NEW s \in Seq(S), NEW x \in S
    PROVE  IsPrefix(s, s) /\ IsPrefix(s, Append(s, x))
  <1>1. Len(s) \in Nat /\ Len(Append(s, x)) = Len(s) + 1
    BY SMT
  <1>2. SubSeq(s, 1, Len(s)) = SubSeq(Append(s, x), 1, Len(s))
    BY SMT
  <1> QED BY <1>1, <1>2, SMT DEF IsPrefix

\* A batch that was full once is full until a rollback or a restart: Advance leaves the
\* encoder as it is, so that no queued block is ever encoded after it.
THEOREM FullBatchStaysFull == Spec => FullStaysFull
  <1> DEFINE Same == /\ builder'.encoder.closed = builder.encoder.closed
                     /\ IsPrefix(builder.pendingBlocks, builder'.pendingBlocks)
             Gone == builder'.encoder = newEncoder /\ builder'.pendingBlocks = <<>>
  <1>1. ASSUME DInv, [Next]_vars, builder.encoder.runningLen > TargetBatchSize
        PROVE  Same \/ Gone
    <2>1. builder \in Builder /\ isSound(builder.encoder) /\ builder.pendingBlocks \in Seq(FullBlock)
      BY <1>1 DEF DInv, Builder
    <2>2. CASE Enqueues
      <3>1. block(next) \in FullBlock
        BY <1>1, <2>2, BlockTyped, SMT DEF DInv, Enqueues
      <3>2. builder'.pendingBlocks = Append(builder.pendingBlocks, block(next))
            /\ builder'.encoder = builder.encoder
        BY <2>1, <2>2, <3>1, EnqueueTyped DEF Enqueues
      <3> QED BY <2>1, <3>1, <3>2, PrefixOfSelf
    <2>3. CASE builder' = Reset(builder, block(safe))
      BY <1>1, <2>1, <2>3, BlockTyped, ResetTyped DEF DInv
    <2>4. ASSUME builder'.pendingBlocks = builder.pendingBlocks,
                 builder'.encoder.closed = builder.encoder.closed
          PROVE  Same
      <3>1. IsPrefix(builder.pendingBlocks, builder.pendingBlocks)
        BY <2>1, SMT DEF IsPrefix
      <3> QED BY <2>4, <3>1
    <2>5. CASE builder' = Build(builder, l1Head).builder
      <3> DEFINE b == encodePending(builder).builder
                 g == getBatch(b, l1Head).builder
      <3>1. b.encoder.closed = builder.encoder.closed /\ b.pendingBlocks = builder.pendingBlocks
            /\ b.encoder.runningLen > TargetBatchSize
        BY <1>1, <2>1, FullTakesNone
      <3>2. b \in Builder /\ isSound(b.encoder) /\ b.encoder \in Encoder
        BY <2>1, EncodeTyped DEF Builder
      <3>3. CASE builder' = builder
        BY <2>4, <3>3
      <3>4. CASE builder' = b
        BY <2>4, <3>1, <3>4
      <3>5. CASE builder' = g
        <4> HIDE DEF b
        <4>1. g.pendingBlocks = b.pendingBlocks /\ g.encoder.closed \in {b.encoder.closed, closeSubBatch(b.encoder).closed}
          BY <3>2, GetTyped
        <4>2. closeSubBatch(b.encoder).closed = b.encoder.closed
          BY <3>1, <3>2, FullCloses
        <4> QED BY <2>4, <3>1, <3>5, <4>1, <4>2
      <3> QED BY <2>1, <2>5, <3>3, <3>4, <3>5, BuildTyped
    <2>6. CASE builder' = Advance(builder)
      BY <2>1, <2>4, <2>6, AdvanceTyped
    <2>7. CASE builder' = newBuilder
      BY <2>7 DEF newBuilder
    <2>8. CASE builder' = builder
      BY <2>4, <2>8
    <2> HIDE DEF Same, Gone
    <2> QED BY <1>1, <2>2, <2>3, <2>5, <2>6, <2>7, <2>8, BuilderMoves
  <1>2. DInv /\ [Next]_vars => [builder.encoder.runningLen > TargetBatchSize => Same \/ Gone]_vars
    BY <1>1
  <1> QED BY <1>2, DInvHolds, PTL DEF Spec, FullStaysFull

-----------------------------------------------------------------------------
(* What the encoder holds *)

LEMMA InSequence ==
    ASSUME NEW S, NEW s \in Seq(S), NEW x
    PROVE  x \in Range(s) <=> \E j \in 1..Len(s) : x = s[j]
  BY SMT DEF Range

LEMMA InBatch ==
    ASSUME NEW S, NEW batch \in Seq(Seq(S)), NEW x
    PROVE  x \in blocksOf(batch) <=> \E i \in 1..Len(batch) : x \in Range(batch[i])
  <1>1. DOMAIN batch = 1..Len(batch)
    BY SMT
  <1> QED BY <1>1 DEF blocksOf

LEMMA BatchGrows ==
    ASSUME NEW S, NEW batch \in Seq(Seq(S)), NEW s \in Seq(S), NEW x
    PROVE  x \in blocksOf(Append(batch, s)) <=> x \in blocksOf(batch) \/ x \in Range(s)
  <1> DEFINE more == Append(batch, s)
  <1>1. /\ more \in Seq(Seq(S)) /\ Len(batch) \in Nat /\ Len(more) = Len(batch) + 1
        /\ \A i \in 1..Len(batch) : more[i] = batch[i]
        /\ more[Len(batch) + 1] = s
    BY SMT
  <1> HIDE DEF more
  <1>2. x \in blocksOf(more) <=> \E i \in 1..Len(more) : x \in Range(more[i])
    BY <1>1, InBatch
  <1>3. x \in blocksOf(batch) <=> \E i \in 1..Len(batch) : x \in Range(batch[i])
    BY InBatch
  <1>4. 1..Len(more) = 1..Len(batch) \cup {Len(batch) + 1}
    BY <1>1, SMT
  <1>5. (\E i \in 1..Len(more) : x \in Range(more[i])) <=>
           (\E i \in 1..Len(batch) : x \in Range(batch[i])) \/ x \in Range(s)
    BY <1>1, <1>4
  <1> QED BY <1>2, <1>3, <1>5 DEF more

\* The sub-batches of an encoder, the open one last, and the blocks in them.
batchOf(e) == Append(e.closed, e.open)
held(e) == blocksOf(batchOf(e))

LEMMA HeldIn ==
    ASSUME NEW e \in Encoder, NEW x
    PROVE  x \in held(e) <=> x \in blocksOf(e.closed) \/ x \in Range(e.open)
  BY BatchGrows DEF Encoder, held, batchOf

LEMMA EmptyHoldsNone ==
    ASSUME NEW x
    PROVE  x \notin Range(<<>>) /\ x \notin blocksOf(<<>>)
  BY SMT DEF Range, blocksOf

LEMMA HeldTyped ==
    ASSUME NEW e \in Encoder
    PROVE  held(e) \subseteq FullBlock
  <1>1. e.closed \in Seq(Seq(FullBlock)) /\ e.open \in Seq(FullBlock)
    BY DEF Encoder
  <1>2. ASSUME NEW s \in Seq(FullBlock) PROVE Range(s) \subseteq FullBlock
    BY InSequence, SMT
  <1>3. ASSUME NEW x \in blocksOf(e.closed) PROVE x \in FullBlock
    <2>1. PICK i \in 1..Len(e.closed) : x \in Range(e.closed[i])
      BY <1>1, InBatch
    <2>2. e.closed[i] \in Seq(FullBlock)
      BY <1>1, SMT
    <2> QED BY <1>2, <2>1, <2>2
  <1> QED BY <1>1, <1>2, <1>3, HeldIn

LEMMA HeldClosed ==
    ASSUME NEW e \in Encoder
    PROVE  held(closeSubBatch(e)) = held(e)
  <1> DEFINE f == closeSubBatch(e)
  <1>1. f \in Encoder /\ f.open = <<>> /\ f.closed = IF e.open = <<>> THEN e.closed ELSE Append(e.closed, e.open)
    BY CloseTyped
  <1> HIDE DEF f
  <1>2. e.closed \in Seq(Seq(FullBlock)) /\ e.open \in Seq(FullBlock)
    BY DEF Encoder
  <1>3. ASSUME NEW x
        PROVE  x \in held(f) <=> x \in held(e)
    <2>1. x \in held(f) <=> x \in blocksOf(f.closed)
      BY <1>1, HeldIn, EmptyHoldsNone
    <2>2. CASE e.open = <<>>
      BY <1>1, <2>1, <2>2, HeldIn, EmptyHoldsNone
    <2>3. CASE e.open # <<>>
      BY <1>1, <2>1, <2>3 DEF held, batchOf
    <2> QED BY <2>2, <2>3
  <1> QED BY <1>3 DEF f

LEMMA HeldAppended ==
    ASSUME NEW e \in Encoder, NEW c \in FullBlock
    PROVE  held(appendTxBlock(e, c)) = held(e) \cup {c}
  <1> DEFINE f == appendTxBlock(e, c)
  <1>1. f \in Encoder /\ f.open = Append(e.open, c) /\ f.closed = e.closed
    BY AppendTyped
  <1> HIDE DEF f
  <1>2. e.open \in Seq(FullBlock)
    BY DEF Encoder
  <1>3. ASSUME NEW x
        PROVE  x \in Range(Append(e.open, c)) <=> x \in Range(e.open) \/ x = c
    <2> DEFINE t == Append(e.open, c)
    <2>1. /\ Len(e.open) \in Nat /\ t \in Seq(FullBlock) /\ Len(t) = Len(e.open) + 1
          /\ \A j \in 1..Len(e.open) : t[j] = e.open[j]
          /\ t[Len(e.open) + 1] = c
      BY <1>2, SMT
    <2> HIDE DEF t
    <2>2. 1..Len(t) = 1..Len(e.open) \cup {Len(e.open) + 1}
      BY <2>1, SMT
    <2>3. x \in Range(e.open) <=> \E j \in 1..Len(e.open) : x = e.open[j]
      BY <1>2, InSequence
    <2>4. x \in Range(t) <=> \E j \in 1..Len(t) : x = t[j]
      BY <2>1, InSequence, SMT
    <2> QED BY <2>1, <2>2, <2>3, <2>4 DEF t
  <1>4. ASSUME NEW x
        PROVE  x \in held(f) <=> x \in held(e) \/ x = c
    BY <1>1, <1>3, HeldIn
  <1> QED BY <1>4 DEF f

LEMMA HeldProcessed ==
    ASSUME NEW e \in Encoder, NEW c \in FullBlock, NEW isNewEpoch \in BOOLEAN
    PROVE  LET r == ProcessBlock(e, c, isNewEpoch)
           IN  /\ r.err = "full" => held(r.encoder) = held(e)
               /\ r.err # "full" => held(r.encoder) = IF isEmpty(c) THEN held(e) ELSE held(e) \cup {c}
  <1> DEFINE r == ProcessBlock(e, c, isNewEpoch)
             f == IF closesSubBatch(c, isNewEpoch) THEN closeSubBatch(e) ELSE e
  <1>1. CASE shouldCloseBatch(e)
    <2>1. r.encoder = closeSubBatch(e) /\ r.err = "full"
      BY <1>1 DEF ProcessBlock
    <2> QED BY <2>1, HeldClosed
  <1>2. CASE ~shouldCloseBatch(e)
    <2>1. r.encoder = (IF isEmpty(c) THEN f ELSE appendTxBlock(f, c)) /\ r.err = "none"
      BY <1>2 DEF ProcessBlock
    <2>2. f \in Encoder /\ held(f) = held(e)
      BY CloseTyped, HeldClosed
    <2> HIDE DEF f, r
    <2>3. held(appendTxBlock(f, c)) = held(e) \cup {c}
      BY <2>2, HeldAppended
    <2> QED BY <2>1, <2>2, <2>3 DEF r
  <1> QED BY <1>1, <1>2

-----------------------------------------------------------------------------
(* The timeout *)

\* The timeout of a builder is no later than the deadline of any epoch it has encoded.
covers(timeout, c) == Last(c).epoch # 0 => timeout # 0 /\ timeout <= deadline(Last(c).epoch)
coversHeld(b) == \A c \in held(b.encoder) : covers(b.timeout, c)

LEMMA TimeoutCovers ==
    ASSUME NEW timeout \in Nat, NEW epoch \in Nat, epoch # 0
    PROVE  LET t == updateTimeout(timeout, epoch)
           IN  /\ t # 0 /\ t <= deadline(epoch)
               /\ \A c \in FullBlock : covers(timeout, c) => covers(t, c)
  <1>1. deadline(epoch) \in Nat /\ deadline(epoch) # 0
    BY DeadlineTyped, SMT
  <1> DEFINE t == updateTimeout(timeout, epoch)
  <1>2. t \in Nat /\ t # 0 /\ t <= deadline(epoch) /\ (timeout # 0 => t <= timeout)
    BY <1>1, SMT DEF updateTimeout
  <1> HIDE DEF t
  <1>3. ASSUME NEW c \in FullBlock, covers(timeout, c)
        PROVE  covers(t, c)
    <2>1. deadline(Last(c).epoch) \in Nat
      BY LastBody, DeadlineTyped
    <2> QED BY <1>2, <1>3, <2>1, SMT DEF covers
  <1> QED BY <1>2, <1>3 DEF t

LEMMA ProcessCovers ==
    ASSUME NEW b \in Builder, isSound(b.encoder), coversHeld(b), NEW c \in FullBlock
    PROVE  coversHeld(processBlock(b, c).builder)
  <1> DEFINE r == processBlock(b, c)
             body == Last(c)
             result == ProcessBlock(b.encoder, c, body.epoch # 0)
             d == r.builder
  <1>1. /\ r.err = "unpack" => d = b
        /\ r.err # "unpack" =>
              /\ d.encoder = result.encoder
              /\ d.timeout = IF body.txs = "oracle" THEN updateTimeout(b.timeout, body.epoch) ELSE b.timeout
    BY BlockProcessed
  <1>2. b.encoder \in Encoder /\ b.timeout \in Nat /\ (body.epoch # 0) \in BOOLEAN
    BY DEF Builder
  <1>3. held(result.encoder) \subseteq held(b.encoder) \cup {c} /\ held(b.encoder) \subseteq FullBlock
    BY <1>2, HeldProcessed, HeldTyped
  <1>4. body.epoch \in Nat /\ (body.epoch # 0 <=> body.txs = "oracle")
    BY LastBody
  <1> HIDE DEF r, result
  <1>5. CASE r.err = "unpack"
    BY <1>1, <1>5 DEF r
  <1>6. CASE r.err # "unpack" /\ body.txs = "oracle"
    <2> DEFINE t == updateTimeout(b.timeout, body.epoch)
    <2>1. t # 0 /\ t <= deadline(body.epoch) /\ \A x \in FullBlock : covers(b.timeout, x) => covers(t, x)
      BY <1>2, <1>4, <1>6, TimeoutCovers
    <2> HIDE DEF t
    <2>2. covers(t, c)
      BY <2>1 DEF covers
    <2>3. ASSUME NEW x \in held(b.encoder) PROVE covers(t, x)
      BY <1>3, <2>1 DEF coversHeld
    <2>4. d.timeout = t /\ d.encoder = result.encoder
      BY <1>1, <1>6 DEF t
    <2> QED BY <1>3, <2>2, <2>3, <2>4 DEF coversHeld, r
  <1>7. CASE r.err # "unpack" /\ body.txs # "oracle"
    <2>1. covers(b.timeout, c)
      BY <1>4, <1>7 DEF covers
    <2>2. d.timeout = b.timeout /\ d.encoder = result.encoder
      BY <1>1, <1>7
    <2> QED BY <1>3, <2>1, <2>2 DEF coversHeld, r
  <1> QED BY <1>5, <1>6, <1>7

LEMMA EncodeCovers ==
    ASSUME NEW b \in Builder, isSound(b.encoder), coversHeld(b)
    PROVE  coversHeld(encodePending(b).builder)
  <1> DEFINE size == Len(b.pendingBlocks)
             Covered(n) == {acc \in Reached(b, n) : coversHeld(acc.builder)}
             I == [n \in 0..size |-> Covered(n)]
             done == processFirst(b)[size]
  <1>1. size \in Nat /\ (\A n \in 1..size : b.pendingBlocks[n] \in FullBlock) /\ firstRound(b) \in Reached(b, 0)
    BY LoopTyped
  <1>2. firstRound(b) \in I[0]
    BY <1>1, SMT DEF firstRound
  <1>3. ASSUME NEW n \in 1..size, NEW acc \in I[n - 1]
        PROVE  processNext(acc, b.pendingBlocks[n]) \in I[n]
    <2> DEFINE c == b.pendingBlocks[n]
    <2>1. n \in Nat /\ n - 1 \in Nat /\ n - 1 \in 0..size /\ n \in 0..size /\ (n - 1) + 1 = n /\ c \in FullBlock
      BY <1>1, SMT
    <2>2. acc \in Covered(n - 1)
      BY <1>3, <2>1
    <2>3. /\ processNext(acc, c) \in Reached(b, n) /\ (acc.err # "none" => processNext(acc, c) = acc)
          /\ acc.err = "none" => processNext(acc, c).builder = processBlock(acc.builder, c).builder
      <3>1. Round(b, n, acc, c)
        BY <2>1, <2>2, RoundTyped
      <3> QED BY <3>1 DEF Round
    <2>4. acc.builder \in Builder /\ isSound(acc.builder.encoder)
      BY <2>2 DEF Reached, Progress
    <2>5. coversHeld(processBlock(acc.builder, c).builder)
      BY <2>1, <2>2, <2>4, ProcessCovers
    <2> QED BY <2>1, <2>2, <2>3, <2>5
  <1> HIDE DEF I
  <1>4. done \in I[size]
    BY <1>1, <1>2, <1>3, LoopKeeps
  <1>5. coversHeld(done.builder)
    BY <1>1, <1>4, SMT DEF I
  <1>6. encodePending(b).builder.encoder = done.builder.encoder
        /\ encodePending(b).builder.timeout = done.builder.timeout
    BY EncodeTyped
  <1> QED BY <1>5, <1>6 DEF coversHeld

LEMMA BuildCovers ==
    ASSUME NEW b \in Builder, isSound(b.encoder), coversHeld(b), NEW head
    PROVE  coversHeld(Build(b, head).builder)
  <1> DEFINE d == encodePending(b).builder
             g == getBatch(d, head).builder
  <1>1. d \in Builder /\ isSound(d.encoder) /\ d.encoder \in Encoder /\ coversHeld(d)
    BY EncodeTyped, EncodeCovers DEF Builder
  <1> HIDE DEF d
  <1>2. g.timeout = d.timeout /\ g.encoder \in {d.encoder, closeSubBatch(d.encoder)}
    BY <1>1, GetTyped
  <1> HIDE DEF g
  <1>3. coversHeld(g)
    BY <1>1, <1>2, HeldClosed DEF coversHeld
  <1> QED BY <1>1, <1>3, BuildTyped DEF d, g

LEMMA NewHoldsNone == held(newEncoder) = {}
  <1>1. ASSUME NEW x PROVE x \notin held(newEncoder)
    BY NewTyped, HeldIn, EmptyHoldsNone DEF newEncoder
  <1> QED BY <1>1

LEMMA CoversStep ==
    ASSUME DInv, coversHeld(builder), [Next]_vars
    PROVE  coversHeld(builder')
  <1>1. builder \in Builder /\ isSound(builder.encoder)
    BY DEF DInv
  <1>2. CASE Enqueues
    <2>1. block(next) \in FullBlock
      BY <1>2, BlockTyped, SMT DEF DInv, Enqueues
    <2>2. builder'.encoder = builder.encoder /\ builder'.timeout = builder.timeout
      BY <1>1, <1>2, <2>1, EnqueueTyped DEF Enqueues
    <2> QED BY <2>2 DEF coversHeld
  <1>3. CASE builder' = Reset(builder, block(safe))
    <2>1. builder'.encoder = newEncoder
      BY <1>1, <1>3, BlockTyped, ResetTyped DEF DInv
    <2> QED BY <2>1, NewHoldsNone DEF coversHeld
  <1>4. CASE builder' = Build(builder, l1Head).builder
    BY <1>1, <1>4, BuildCovers
  <1>5. CASE builder' = Advance(builder)
    <2>1. builder'.encoder = builder.encoder /\ builder'.timeout = builder.timeout
      BY <1>1, <1>5, AdvanceTyped
    <2> QED BY <2>1 DEF coversHeld
  <1>6. CASE builder' = newBuilder
    <2>1. builder'.encoder = newEncoder
      BY <1>6, NewTyped
    <2> QED BY <2>1, NewHoldsNone DEF coversHeld
  <1>7. CASE builder' = builder
    BY <1>7
  <1> QED BY <1>2, <1>3, <1>4, <1>5, <1>6, <1>7, BuilderMoves

\* The builder's timeout is set, and no later than the sequencing window of any epoch it
\* has encoded allows, whatever was reset, sent or restarted in between (updateTimeout).
THEOREM TimeoutIsInTime == Spec => []TimeoutCoversEpochs
  <1> DEFINE Inv == DInv /\ coversHeld(builder)
  <1>1. Init => Inv
    <2> SUFFICES ASSUME Init PROVE Inv
      OBVIOUS
    <2>1. builder.encoder = newEncoder
      BY NewTyped DEF Init
    <2> QED BY <2>1, InitDInv, NewHoldsNone DEF coversHeld
  <1>2. Inv /\ [Next]_vars => Inv'
    BY DInvStep, CoversStep
  <1>3. Inv => TimeoutCoversEpochs
    BY DEF TimeoutCoversEpochs, coversHeld, covers, held, batchOf, subBatches
  <1> QED BY <1>1, <1>2, <1>3, PTL DEF Spec

-----------------------------------------------------------------------------
(* The order of the blocks *)

\* isOrdered and the condition of SubBatchConsecutive, sub-batch by sub-batch.
rises(s) == \A j, l \in 1..Len(s) : j < l => Len(s[j]) < Len(s[l])
isBelow(batch, s) == \A x \in blocksOf(batch), y \in Range(s) : Len(x) < Len(y)
isChained(s) == \A j \in 2..Len(s) : Front(s[j]) = s[j - 1] /\ Last(s[j]).epoch = 0
isConsecutive(batch) == \A i \in DOMAIN batch : isChained(batch[i])

LEMMA LastPlace ==
    ASSUME NEW S, NEW s \in Seq(S), NEW x \in S
    PROVE  LET t == Append(s, x)
           IN  /\ t \in Seq(S) /\ Len(s) \in Nat /\ Len(t) = Len(s) + 1
               /\ DOMAIN s = 1..Len(s) /\ DOMAIN t = DOMAIN s \cup {Len(s) + 1}
               /\ \A i \in 1..Len(s) : t[i] = s[i]
               /\ t[Len(s) + 1] = x
  BY SMT

LEMMA OrderedGrows ==
    ASSUME NEW batch \in Seq(Seq(FullBlock)), NEW s \in Seq(FullBlock),
           isOrdered(batch), rises(s), isBelow(batch, s)
    PROVE  isOrdered(Append(batch, s))
  <1> DEFINE t == Append(batch, s)
             n == Len(batch) + 1
  <1>1. /\ Len(batch) \in Nat /\ DOMAIN batch = 1..Len(batch) /\ DOMAIN t = DOMAIN batch \cup {n}
        /\ (\A i \in DOMAIN batch : t[i] = batch[i]) /\ t[n] = s
    BY LastPlace, SMT
  <1> HIDE DEF t
  <1>2. ASSUME NEW i \in DOMAIN t, NEW k \in DOMAIN t, NEW j \in DOMAIN t[i], NEW l \in DOMAIN t[k],
               precedes(i, j, k, l)
        PROVE  Len(t[i][j]) < Len(t[k][l])
    <2>1. CASE i \in DOMAIN batch /\ k \in DOMAIN batch
      BY <1>1, <1>2, <2>1 DEF isOrdered
    <2>2. CASE i \in DOMAIN batch /\ k = n
      <3>1. t[i] \in Seq(FullBlock)
        BY <1>1, <2>2, SMT
      <3>2. t[i][j] \in Range(t[i]) /\ t[k][l] \in Range(s)
        BY <1>1, <1>2, <2>2, <3>1 DEF Range
      <3>3. t[i][j] \in blocksOf(batch)
        BY <1>1, <2>2, <3>2, InBatch
      <3> QED BY <3>2, <3>3 DEF isBelow
    <2>3. CASE i = n /\ k \in DOMAIN batch
      BY <1>1, <1>2, <2>3, SMT DEF precedes
    <2>4. CASE i = n /\ k = n
      <3>1. DOMAIN s = 1..Len(s)
        BY SMT
      <3>2. j < l
        BY <1>1, <1>2, <2>4, SMT DEF precedes
      <3> QED BY <1>1, <1>2, <2>4, <3>1, <3>2 DEF rises
    <2> QED BY <1>1, <2>1, <2>2, <2>3, <2>4
  <1> QED BY <1>2 DEF isOrdered, t

LEMMA OrderedParts ==
    ASSUME NEW batch \in Seq(Seq(FullBlock)), NEW s \in Seq(FullBlock), isOrdered(Append(batch, s))
    PROVE  isOrdered(batch) /\ rises(s) /\ isBelow(batch, s)
  <1> DEFINE t == Append(batch, s)
             n == Len(batch) + 1
  <1>1. /\ Len(batch) \in Nat /\ DOMAIN batch = 1..Len(batch) /\ DOMAIN t = DOMAIN batch \cup {n}
        /\ (\A i \in DOMAIN batch : t[i] = batch[i]) /\ t[n] = s
    BY LastPlace, SMT
  <1>2. isOrdered(t) /\ DOMAIN s = 1..Len(s)
    BY SMT
  <1> HIDE DEF t
  <1>3. isOrdered(batch)
    BY <1>1, <1>2 DEF isOrdered
  <1>4. rises(s)
    <2> SUFFICES ASSUME NEW j \in 1..Len(s), NEW l \in 1..Len(s), j < l
                 PROVE  Len(s[j]) < Len(s[l])
      BY DEF rises
    <2>1. precedes(n, j, n, l)
      BY DEF precedes
    <2> QED BY <1>1, <1>2, <2>1 DEF isOrdered
  <1>5. ASSUME NEW x \in blocksOf(batch), NEW y \in Range(s)
        PROVE  Len(x) < Len(y)
    <2>1. PICK i \in 1..Len(batch) : x \in Range(batch[i])
      BY InBatch
    <2>2. batch[i] \in Seq(FullBlock)
      BY SMT
    <2>3. PICK j \in 1..Len(batch[i]) : x = batch[i][j]
      BY <2>1, <2>2, InSequence
    <2>4. PICK l \in 1..Len(s) : y = s[l]
      BY InSequence
    <2>5. precedes(i, j, n, l) /\ DOMAIN batch[i] = 1..Len(batch[i])
      BY <1>1, <2>2, SMT DEF precedes
    <2> QED BY <1>1, <1>2, <2>3, <2>4, <2>5 DEF isOrdered
  <1> QED BY <1>3, <1>4, <1>5 DEF isBelow

LEMMA ConsecutiveGrows ==
    ASSUME NEW batch \in Seq(Seq(FullBlock)), NEW s \in Seq(FullBlock)
    PROVE  isConsecutive(Append(batch, s)) <=> isConsecutive(batch) /\ isChained(s)
  <1> DEFINE t == Append(batch, s)
             n == Len(batch) + 1
  <1>1. /\ DOMAIN t = DOMAIN batch \cup {n} /\ (\A i \in DOMAIN batch : t[i] = batch[i]) /\ t[n] = s
    BY LastPlace, SMT
  <1> HIDE DEF t, n
  <1> QED BY <1>1 DEF isConsecutive, t

\* The encoder holds the non-empty blocks of the chain of last after number from, up to
\* number to, in order; its open sub-batch, if it has a block, ends with block number to.
holds(e, last, from, to) ==
    /\ held(e) = prefixes(last, from, to)
    /\ isOrdered(batchOf(e)) /\ isConsecutive(batchOf(e))
    /\ e.open # <<>> => Last(e.open) = SubSeq(last, 1, to)

LEMMA NothingOrdered ==
    /\ rises(<<>>) /\ isChained(<<>>) /\ isOrdered(<<>>) /\ isConsecutive(<<>>)
    /\ \A batch : isBelow(batch, <<>>)
  <1>1. Len(<<>>) = 0 /\ DOMAIN <<>> = {} /\ 1..0 = {} /\ 2..0 = {}
    BY SMT
  <1>2. rises(<<>>)
    BY <1>1 DEF rises
  <1>3. isChained(<<>>)
    BY <1>1 DEF isChained
  <1>4. isOrdered(<<>>)
    BY <1>1 DEF isOrdered
  <1>5. isConsecutive(<<>>)
    BY <1>1 DEF isConsecutive
  <1>6. \A batch : isBelow(batch, <<>>)
    BY EmptyHoldsNone DEF isBelow
  <1> QED BY <1>2, <1>3, <1>4, <1>5, <1>6

LEMMA NewHolds ==
    ASSUME NEW last, NEW from \in Nat
    PROVE  holds(newEncoder, last, from, from)
  <1>1. newEncoder.closed = <<>> /\ newEncoder.open = <<>>
    BY DEF newEncoder
  <1>2. <<>> \in Seq(Seq(FullBlock)) /\ <<>> \in Seq(FullBlock)
    BY SMT
  <1>3. isOrdered(Append(<<>>, <<>>)) /\ isConsecutive(Append(<<>>, <<>>))
    BY <1>2, NothingOrdered, OrderedGrows, ConsecutiveGrows
  <1>4. from + 1..from = {}
    BY SMT
  <1>5. prefixes(last, from, from) = {}
    BY <1>4 DEF prefixes
  <1> QED BY <1>1, <1>3, <1>5, NewHoldsNone DEF holds, batchOf

LEMMA CloseHolds ==
    ASSUME NEW e \in Encoder, NEW last, NEW from, NEW to, holds(e, last, from, to)
    PROVE  holds(closeSubBatch(e), last, from, to)
  <1> DEFINE f == closeSubBatch(e)
  <1>1. /\ f.open = <<>> /\ held(f) = held(e)
        /\ f.closed = IF e.open = <<>> THEN e.closed ELSE Append(e.closed, e.open)
    BY CloseTyped, HeldClosed
  <1> HIDE DEF f
  <1>2. /\ held(e) = prefixes(last, from, to)
        /\ isOrdered(Append(e.closed, e.open)) /\ isConsecutive(Append(e.closed, e.open))
    BY DEF holds, batchOf
  <1>3. CASE e.open = <<>>
    BY <1>1, <1>2, <1>3 DEF holds, batchOf, f
  <1>4. CASE e.open # <<>>
    <2> DEFINE more == Append(e.closed, e.open)
    <2>1. more \in Seq(Seq(FullBlock)) /\ <<>> \in Seq(FullBlock)
      BY SMT DEF Encoder
    <2>2. isOrdered(more) /\ isConsecutive(more) /\ f.closed = more
      BY <1>1, <1>2, <1>4
    <2> HIDE DEF more
    <2>3. isOrdered(Append(more, <<>>)) /\ isConsecutive(Append(more, <<>>))
      BY <2>1, <2>2, NothingOrdered, OrderedGrows, ConsecutiveGrows
    <2> QED BY <1>1, <1>2, <2>2, <2>3 DEF holds, batchOf, f
  <1> QED BY <1>3, <1>4

LEMMA PrefixOfPrefix ==
    ASSUME NEW S, NEW s \in Seq(S), NEW m \in 0..Len(s), NEW n \in 0..m
    PROVE  SubSeq(SubSeq(s, 1, m), 1, n) = SubSeq(s, 1, n)
  BY SMT

LEMMA PrefixesGrow ==
    ASSUME NEW last, NEW from \in Nat, NEW to \in Nat, from <= to
    PROVE  prefixes(last, from, to + 1) =
              IF isEmpty(SubSeq(last, 1, to + 1)) THEN prefixes(last, from, to)
              ELSE prefixes(last, from, to) \cup {SubSeq(last, 1, to + 1)}
  <1>1. from + 1..to + 1 = (from + 1..to) \cup {to + 1}
    BY SMT
  <1>2. {SubSeq(last, 1, n) : n \in from + 1..to + 1} =
           {SubSeq(last, 1, n) : n \in from + 1..to} \cup {SubSeq(last, 1, to + 1)}
    BY <1>1
  <1> QED BY <1>2 DEF prefixes

LEMMA PrefixesShort ==
    ASSUME NEW last \in Block, NEW from \in Nat, NEW to \in 0..Len(last), NEW x \in prefixes(last, from, to)
    PROVE  Len(x) \in Nat /\ Len(x) <= to
  <1>1. PICK n \in from + 1..to : x = SubSeq(last, 1, n)
    BY DEF prefixes
  <1>2. n \in 0..Len(last)
    BY SMT
  <1>3. Len(x) = n
    BY <1>1, <1>2, PrefixTyped DEF Block
  <1> QED BY <1>2, <1>3, SMT

LEMMA FrontOfPrefix ==
    ASSUME NEW last \in Block, NEW n \in 1..Len(last)
    PROVE  Front(SubSeq(last, 1, n)) = SubSeq(last, 1, n - 1)
  <1>1. Len(last) \in Nat /\ n \in 0..Len(last) /\ n - 1 \in 0..n
    BY SMT DEF Block
  <1>2. Len(SubSeq(last, 1, n)) = n
    BY <1>1, PrefixTyped DEF Block
  <1>3. SubSeq(SubSeq(last, 1, n), 1, n - 1) = SubSeq(last, 1, n - 1)
    BY <1>1, PrefixOfPrefix DEF Block
  <1> QED BY <1>2, <1>3 DEF Front

\* A place up to the next one is an old place or the next.
LEMMA UpToNext ==
    ASSUME NEW k \in Nat
    PROVE  /\ \A l \in 1..(k + 1) : l \in 1..k \/ l = k + 1
           /\ \A l \in 2..(k + 1) : l \in 2..k \/ l = k + 1
  BY SMT

\* A block that is appended is longer than all before it; if the sub-batch it joins has
\* a block, it is the child of the last one and begins no epoch.
LEMMA AppendHolds ==
    ASSUME NEW e \in Encoder, NEW last \in Block, NEW from \in Nat, NEW to \in Nat, from <= to,
           to + 1 <= Len(last), holds(e, last, from, to), ~isEmpty(SubSeq(last, 1, to + 1)),
           e.open # <<>> => Last(SubSeq(last, 1, to + 1)).epoch = 0
    PROVE  holds(appendTxBlock(e, SubSeq(last, 1, to + 1)), last, from, to + 1)
  <1> DEFINE c == SubSeq(last, 1, to + 1)
             f == appendTxBlock(e, c)
             s == Append(e.open, c)
  <1>1. /\ Len(last) \in Nat /\ to + 1 \in 0..Len(last) /\ to + 1 \in 1..Len(last) /\ to \in 0..Len(last)
        /\ (to + 1) - 1 = to
    BY SMT DEF Block
  <1>2. c \in Block /\ Len(c) = to + 1
    BY <1>1, PrefixTyped DEF Block
  <1>3. c \in FullBlock
    BY <1>2, SMT DEF FullBlock
  <1>4. Front(c) = SubSeq(last, 1, to)
    BY <1>1, FrontOfPrefix
  <1>5. held(e) \cup {c} = prefixes(last, from, to + 1)
    <2>1. prefixes(last, from, to + 1) = prefixes(last, from, to) \cup {SubSeq(last, 1, to + 1)}
      BY PrefixesGrow
    <2>2. held(e) = prefixes(last, from, to)
      BY DEF holds
    <2> QED BY <2>1, <2>2
  <1>6. /\ isOrdered(Append(e.closed, e.open)) /\ isConsecutive(Append(e.closed, e.open))
        /\ e.open # <<>> => Last(e.open) = SubSeq(last, 1, to) /\ Last(c).epoch = 0
    BY DEF holds, batchOf
  <1>7. ASSUME NEW x \in held(e) PROVE Len(x) < to + 1
    BY <1>1, PrefixesShort, SMT DEF holds
  <1> HIDE DEF c
  <1>8. f.open = s /\ f.closed = e.closed /\ held(f) = held(e) \cup {c}
    BY <1>3, AppendTyped, HeldAppended
  <1> HIDE DEF f
  <1>9. e.open \in Seq(FullBlock) /\ e.closed \in Seq(Seq(FullBlock))
    BY DEF Encoder
  <1>10. /\ s \in Seq(FullBlock) /\ Len(e.open) \in Nat /\ Len(s) = Len(e.open) + 1
         /\ (\A j \in 1..Len(e.open) : s[j] = e.open[j]) /\ s[Len(e.open) + 1] = c
    BY <1>3, <1>9, LastPlace, SMT
  <1> HIDE DEF s
  <1>11. isOrdered(e.closed) /\ rises(e.open) /\ isBelow(e.closed, e.open)
         /\ isConsecutive(e.closed) /\ isChained(e.open)
    BY <1>6, <1>9, OrderedParts, ConsecutiveGrows
  <1>12. \A j \in 1..Len(e.open) : Len(e.open[j]) < to + 1
    <2> TAKE j \in 1..Len(e.open)
    <2>1. e.open[j] \in held(e)
      BY <1>9, InSequence, HeldIn
    <2> QED BY <1>7, <2>1
  <1>13. rises(s)
    <2> SUFFICES ASSUME NEW j \in 1..Len(s), NEW l \in 1..Len(s), j < l
                 PROVE  Len(s[j]) < Len(s[l])
      BY DEF rises
    <2>1. j \in 1..Len(e.open)
      BY <1>10, SMT
    <2>2. CASE l \in 1..Len(e.open)
      BY <1>10, <1>11, <2>1, <2>2 DEF rises
    <2>3. CASE l = Len(e.open) + 1
      BY <1>2, <1>10, <1>12, <2>1, <2>3
    <2> QED BY <1>10, <2>2, <2>3, UpToNext
  <1>14. isBelow(e.closed, s)
    <2> SUFFICES ASSUME NEW x \in blocksOf(e.closed), NEW y \in Range(s)
                 PROVE  Len(x) < Len(y)
      BY DEF isBelow
    <2>1. PICK l \in 1..Len(s) : y = s[l]
      BY <1>10, InSequence, SMT
    <2>2. CASE l \in 1..Len(e.open)
      <3>1. y \in Range(e.open)
        BY <1>9, <1>10, <2>1, <2>2, InSequence
      <3> QED BY <1>11, <3>1 DEF isBelow
    <2>3. CASE l = Len(e.open) + 1
      <3>1. x \in held(e)
        BY HeldIn
      <3> QED BY <1>2, <1>7, <1>10, <2>1, <2>3, <3>1
    <2> QED BY <1>10, <2>2, <2>3, UpToNext
  <1>15. isChained(s)
    <2> SUFFICES ASSUME NEW j \in 2..Len(s)
                 PROVE  Front(s[j]) = s[j - 1] /\ Last(s[j]).epoch = 0
      BY DEF isChained
    <2>1. j - 1 \in 1..Len(e.open)
      BY <1>10, SMT
    <2>2. CASE j \in 2..Len(e.open)
      <3>1. j \in 1..Len(e.open)
        BY <1>10, <2>2, SMT
      <3> QED BY <1>10, <1>11, <2>1, <2>2, <3>1 DEF isChained
    <2>3. CASE j = Len(e.open) + 1
      <3>1. e.open # <<>> /\ j - 1 = Len(e.open)
        BY <1>9, <1>10, <2>1, <2>3, SMT
      <3>2. s[j - 1] = Last(e.open) /\ s[j] = c
        BY <1>10, <2>1, <2>3, <3>1 DEF Last
      <3> QED BY <1>4, <1>6, <3>1, <3>2
    <2> QED BY <1>10, <2>2, <2>3, UpToNext
  <1>16. isOrdered(Append(e.closed, s)) /\ isConsecutive(Append(e.closed, s))
    BY <1>9, <1>10, <1>11, <1>13, <1>14, <1>15, OrderedGrows, ConsecutiveGrows
  <1>17. Last(s) = c
    BY <1>10 DEF Last
  <1> QED BY <1>5, <1>8, <1>16, <1>17 DEF holds, batchOf, c, f

\* What the encoder holds after block c: the block too, unless the batch was full.
holdsAfter(e, c, last, from, to) ==
    LET r == ProcessBlock(e, c, Last(c).epoch # 0)
    IN  /\ r.err = "full" => holds(r.encoder, last, from, to)
        /\ r.err # "full" => holds(r.encoder, last, from, to + 1)

LEMMA ProcessHolds ==
    ASSUME NEW e \in Encoder, NEW last \in Block, NEW from \in Nat, NEW to \in Nat, from <= to,
           to + 1 <= Len(last), holds(e, last, from, to)
    PROVE  holdsAfter(e, SubSeq(last, 1, to + 1), last, from, to)
  <1> DEFINE c == SubSeq(last, 1, to + 1)
             r == ProcessBlock(e, c, Last(c).epoch # 0)
             f == IF closesSubBatch(c, Last(c).epoch # 0) THEN closeSubBatch(e) ELSE e
  <1> SUFFICES /\ r.err = "full" => holds(r.encoder, last, from, to)
               /\ r.err # "full" => holds(r.encoder, last, from, to + 1)
    BY DEF holdsAfter
  <1>1. CASE shouldCloseBatch(e)
    <2>1. r.encoder = closeSubBatch(e) /\ r.err = "full"
      BY <1>1 DEF ProcessBlock
    <2> QED BY <2>1, CloseHolds
  <1>2. CASE ~shouldCloseBatch(e)
    <2>1. r.encoder = (IF isEmpty(c) THEN f ELSE appendTxBlock(f, c)) /\ r.err = "none"
      BY <1>2 DEF ProcessBlock
    <2>2. f \in Encoder /\ holds(f, last, from, to)
      BY CloseTyped, CloseHolds
    <2>3. /\ isEmpty(c) \/ Last(c).epoch # 0 => f.open = <<>>
      BY CloseTyped DEF closesSubBatch
    <2> HIDE DEF f, r
    <2>4. CASE isEmpty(c)
      <3>1. prefixes(last, from, to + 1) = prefixes(last, from, to)
        BY <2>4, PrefixesGrow
      <3>2. holds(f, last, from, to + 1)
        BY <2>2, <2>3, <2>4, <3>1 DEF holds
      <3> QED BY <2>1, <2>4, <3>2 DEF r
    <2>5. CASE ~isEmpty(c)
      <3>1. f.open # <<>> => Last(c).epoch = 0
        BY <2>3
      <3>2. holds(appendTxBlock(f, c), last, from, to + 1)
        BY <2>2, <2>5, <3>1, AppendHolds
      <3> QED BY <2>1, <2>5, <3>2 DEF r
    <2> QED BY <2>4, <2>5
  <1> QED BY <1>1, <1>2

-----------------------------------------------------------------------------
(* The builder and the chain *)

canProcess(b) == \A i \in DOMAIN b.pendingBlocks : Last(b.pendingBlocks[i]).txs # "bad"
processedOf(b) == Len(b.lastEnqueued) - Len(b.pendingBlocks)

\* The queue is the end of the chain of the last block enqueued; the encoder holds what
\* comes before it.
follows(b, from) ==
    /\ from <= processedOf(b)
    /\ \A i \in 1..Len(b.pendingBlocks) : b.pendingBlocks[i] = SubSeq(b.lastEnqueued, 1, processedOf(b) + i)
    /\ canProcess(b) => holds(b.encoder, b.lastEnqueued, from, processedOf(b))

\* The strengthened invariant: it holds of a builder that has no last block as well,
\* which has nothing yet.
inChain(b, from) ==
    /\ b.lastEnqueued = NoBlock => b.pendingBlocks = <<>> /\ b.encoder = newEncoder
    /\ b.lastEnqueued # NoBlock => follows(b, from)

\* The loop of encodePending moves blocks from the queue into the encoder one by one,
\* and stops in front of the one that does not fit.
LEMMA LoopHolds ==
    ASSUME NEW b \in Builder, isSound(b.encoder), b.lastEnqueued # NoBlock,
           NEW from \in Nat, follows(b, from), canProcess(b)
    PROVE  LET done == processFirst(b)[Len(b.pendingBlocks)]
           IN  /\ done.err # "unpack" /\ done.numProcessed \in 0..Len(b.pendingBlocks)
               /\ holds(done.builder.encoder, b.lastEnqueued, from, processedOf(b) + done.numProcessed)
  <1> DEFINE size == Len(b.pendingBlocks)
             last == b.lastEnqueued
             p == processedOf(b)
             Held(n) == {acc \in Reached(b, n) :
                            /\ acc.err # "unpack" /\ (acc.err = "none" => acc.numProcessed = n)
                            /\ holds(acc.builder.encoder, last, from, p + acc.numProcessed)}
             I == [n \in 0..size |-> Held(n)]
             done == processFirst(b)[size]
  <1>1. size \in Nat /\ (\A n \in 1..size : b.pendingBlocks[n] \in FullBlock) /\ firstRound(b) \in Reached(b, 0)
    BY LoopTyped
  <1>2. last \in Block /\ Len(last) \in Nat
    BY SMT DEF Builder, Block
  <1>3. p \in Nat /\ from <= p /\ p + size = Len(last)
    BY <1>1, <1>2, SMT DEF follows, processedOf
  <1>4. \A n \in 1..size : b.pendingBlocks[n] = SubSeq(last, 1, p + n) /\ Last(b.pendingBlocks[n]).txs # "bad"
    <2>1. DOMAIN b.pendingBlocks = 1..size
      BY SMT DEF Builder
    <2> QED BY <2>1 DEF follows, canProcess
  <1>5. holds(b.encoder, last, from, p)
    BY DEF follows
  <1> HIDE DEF p, last
  <1>6. firstRound(b) \in I[0]
    <2>1. firstRound(b).err = "none" /\ firstRound(b).numProcessed = 0 /\ firstRound(b).builder = b /\ p + 0 = p
      BY <1>3, SMT DEF firstRound
    <2>2. firstRound(b) \in Held(0)
      BY <1>1, <1>5, <2>1
    <2> QED BY <1>1, <2>2, SMT
  <1>7. ASSUME NEW n \in 1..size, NEW acc \in I[n - 1]
        PROVE  processNext(acc, b.pendingBlocks[n]) \in I[n]
    <2> DEFINE c == b.pendingBlocks[n]
               a == processNext(acc, c)
               result == processBlock(acc.builder, c)
               r == ProcessBlock(acc.builder.encoder, c, Last(c).epoch # 0)
    <2>1. n \in Nat /\ n - 1 \in Nat /\ n - 1 \in 0..size /\ n \in 0..size /\ (n - 1) + 1 = n /\ c \in FullBlock
      BY <1>1, SMT
    <2>2. acc \in Held(n - 1)
      BY <1>7, <2>1
    <2>3. /\ a \in Reached(b, n) /\ (acc.err # "none" => a = acc)
          /\ acc.err = "none" =>
                /\ a.builder = result.builder /\ a.err = result.err
                /\ a.numProcessed = IF result.err = "none" THEN acc.numProcessed + 1 ELSE acc.numProcessed
      <3>1. Round(b, n, acc, c)
        BY <2>1, <2>2, RoundTyped
      <3> QED BY <3>1 DEF Round
    <2>4. acc.builder \in Builder /\ isSound(acc.builder.encoder) /\ acc.builder.encoder \in Encoder
      BY <2>2 DEF Reached, Progress, Builder
    <2>5. CASE acc.err # "none"
      <3>1. a \in Held(n)
        BY <2>2, <2>3, <2>5
      <3> QED BY <2>1, <3>1
    <2>6. CASE acc.err = "none"
      <3> DEFINE q == p + (n - 1)
      <3>1. /\ q \in Nat /\ from <= q /\ q + 1 <= Len(last) /\ q + 1 = p + n
        BY <1>1, <1>2, <1>3, <2>1, SMT
      <3>2. acc.numProcessed = n - 1 /\ holds(acc.builder.encoder, last, from, q)
        BY <2>2, <2>6
      <3>3. c = SubSeq(last, 1, q + 1) /\ Last(c).txs # "bad"
        BY <1>4, <3>1
      <3>4. /\ result.err = r.err /\ result.builder.encoder = r.encoder /\ result.err \in {"none", "full"}
        BY <2>1, <2>4, <3>3, BlockProcessed
      <3> HIDE DEF q, result, a
      <3>5. /\ r.err = "full" => holds(r.encoder, last, from, q)
            /\ r.err # "full" => holds(r.encoder, last, from, q + 1)
        <4>1. holdsAfter(acc.builder.encoder, SubSeq(last, 1, q + 1), last, from, q)
          BY <1>2, <2>4, <3>1, <3>2, ProcessHolds
        <4>2. holdsAfter(acc.builder.encoder, c, last, from, q)
          BY <3>3, <4>1
        <4> QED BY <4>2 DEF holdsAfter
      <3> HIDE DEF r, c
      <3>6. a.err # "unpack" /\ (a.err = "none" => a.numProcessed = n)
        BY <2>1, <2>3, <2>6, <3>2, <3>4
      <3>7. holds(a.builder.encoder, last, from, p + a.numProcessed)
        <4>1. CASE result.err = "none"
          <5>1. p + a.numProcessed = q + 1
            BY <2>1, <2>3, <2>6, <3>1, <3>2, <4>1
          <5> QED BY <2>3, <2>6, <3>4, <3>5, <4>1, <5>1
        <4>2. CASE result.err = "full"
          <5>1. p + a.numProcessed = q
            BY <2>1, <2>3, <2>6, <3>2, <4>2 DEF q
          <5> QED BY <2>3, <2>6, <3>4, <3>5, <4>2, <5>1
        <4> QED BY <3>4, <4>1, <4>2
      <3>8. a \in Held(n)
        BY <2>3, <3>6, <3>7
      <3> QED BY <2>1, <3>8 DEF a, c
    <2> QED BY <2>5, <2>6
  <1> HIDE DEF I
  <1>8. done \in I[size]
    BY <1>1, <1>6, <1>7, LoopKeeps
  <1>9. done \in Held(size)
    BY <1>1, <1>8, SMT DEF I
  <1> HIDE DEF done
  <1>10. done.numProcessed \in 0..size
    BY <1>1, <1>9, SMT DEF Reached, Progress
  <1> QED BY <1>9, <1>10 DEF done, last, p

\* No block that is processed is one that cannot be.
LEMMA LoopTakesGood ==
    ASSUME NEW b \in Builder, isSound(b.encoder)
    PROVE  LET done == processFirst(b)[Len(b.pendingBlocks)]
           IN  \A i \in 1..done.numProcessed : Last(b.pendingBlocks[i]).txs # "bad"
  <1> DEFINE size == Len(b.pendingBlocks)
             isGood(i) == Last(b.pendingBlocks[i]).txs # "bad"
             Good(n) == {acc \in Reached(b, n) : /\ acc.err = "none" => acc.numProcessed = n
                                                 /\ \A i \in 1..acc.numProcessed : isGood(i)}
             I == [n \in 0..size |-> Good(n)]
             done == processFirst(b)[size]
  <1>1. size \in Nat /\ (\A n \in 1..size : b.pendingBlocks[n] \in FullBlock) /\ firstRound(b) \in Reached(b, 0)
    BY LoopTyped
  <1>2. firstRound(b) \in I[0]
    <2>1. firstRound(b).numProcessed = 0
      BY DEF firstRound
    <2>2. firstRound(b) \in Good(0)
      BY <1>1, <2>1, SMT
    <2> QED BY <1>1, <2>2, SMT
  <1>3. ASSUME NEW n \in 1..size, NEW acc \in I[n - 1]
        PROVE  processNext(acc, b.pendingBlocks[n]) \in I[n]
    <2> DEFINE c == b.pendingBlocks[n]
               a == processNext(acc, c)
               result == processBlock(acc.builder, c)
    <2>1. n \in Nat /\ n - 1 \in Nat /\ n - 1 \in 0..size /\ n \in 0..size /\ (n - 1) + 1 = n /\ c \in FullBlock
      BY <1>1, SMT
    <2>2. acc \in Good(n - 1)
      BY <1>3, <2>1
    <2>3. /\ a \in Reached(b, n) /\ (acc.err # "none" => a = acc)
          /\ acc.err = "none" =>
                /\ a.err = result.err
                /\ a.numProcessed = IF result.err = "none" THEN acc.numProcessed + 1 ELSE acc.numProcessed
      <3>1. Round(b, n, acc, c)
        BY <2>1, <2>2, RoundTyped
      <3> QED BY <3>1 DEF Round
    <2>4. acc.builder \in Builder /\ isSound(acc.builder.encoder)
      BY <2>2 DEF Reached, Progress
    <2>5. result.err = "none" => isGood(n)
      BY <2>1, <2>4, BlockProcessed
    <2> HIDE DEF isGood, a, result
    <2>6. a \in Good(n)
      <3>1. CASE acc.err # "none"
        BY <2>2, <2>3, <3>1, SMT
      <3>2. CASE acc.err = "none" /\ result.err # "none"
        BY <2>2, <2>3, <3>2
      <3>3. CASE acc.err = "none" /\ result.err = "none"
        <4>1. acc.numProcessed = n - 1 /\ a.numProcessed = n
          BY <2>1, <2>2, <2>3, <3>3
        <4>2. 1..n = 1..(n - 1) \cup {n}
          BY <2>1, SMT
        <4> QED BY <2>2, <2>3, <2>5, <3>3, <4>1, <4>2
      <3> QED BY <3>1, <3>2, <3>3
    <2> QED BY <2>1, <2>6 DEF a
  <1> HIDE DEF I
  <1>4. done \in I[size]
    BY <1>1, <1>2, <1>3, LoopKeeps
  <1> QED BY <1>1, <1>4, SMT DEF I

LEMMA CutQueue ==
    ASSUME NEW S, NEW s \in Seq(S), NEW k \in 0..Len(s)
    PROVE  LET t == SubSeq(s, k + 1, Len(s))
           IN  /\ Len(t) = Len(s) - k /\ DOMAIN t = 1..Len(t)
               /\ \A i \in 1..Len(t) : k + i \in 1..Len(s) /\ t[i] = s[k + i]
  BY SMT

LEMMA EncodeFollows ==
    ASSUME NEW b \in Builder, isSound(b.encoder), b.lastEnqueued # NoBlock,
           NEW from \in Nat, follows(b, from)
    PROVE  follows(encodePending(b).builder, from)
  <1> DEFINE r == encodePending(b)
             d == r.builder
             queue == b.pendingBlocks
             size == Len(queue)
             p == processedOf(b)
             done == processFirst(b)[size]
  <1>1. /\ d.lastEnqueued = b.lastEnqueued /\ d.encoder = done.builder.encoder
        /\ r.err \in {"none", "unpack"} /\ (r.err = "unpack" <=> done.err = "unpack")
        /\ r.err = "unpack" => d.pendingBlocks = queue
        /\ r.err = "none" => d.pendingBlocks = SubSeq(queue, done.numProcessed + 1, size)
    BY EncodeTyped
  <1>2. queue \in Seq(FullBlock) /\ size \in Nat /\ DOMAIN queue = 1..size /\ Len(b.lastEnqueued) \in Nat
    BY SMT DEF Builder, Block
  <1>3. /\ p \in Int /\ from <= p /\ p = Len(b.lastEnqueued) - size
        /\ \A i \in 1..size : queue[i] = SubSeq(b.lastEnqueued, 1, p + i)
    <2>1. p \in Int /\ p = Len(b.lastEnqueued) - size
      BY <1>2, SMT DEF processedOf
    <2> QED BY <2>1 DEF follows
  <1>4. done.numProcessed \in Nat /\ done.numProcessed <= size
    BY LoopTyped DEF Reached, Progress
  <1> HIDE DEF r, done
  <1>5. CASE r.err = "unpack"
    <2>1. ~canProcess(b)
      BY <1>1, <1>5, LoopHolds DEF done
    <2>2. processedOf(d) = p /\ ~canProcess(d)
      BY <1>1, <1>5, <2>1 DEF processedOf, canProcess
    <2> HIDE DEF p, d
    <2> QED BY <1>1, <1>3, <1>5, <2>2 DEF follows, r, d
  <1>6. CASE r.err = "none"
    <2> DEFINE k == done.numProcessed
               t == SubSeq(queue, k + 1, size)
    <2>1. /\ Len(t) = size - k /\ DOMAIN t = 1..Len(t)
          /\ \A i \in 1..Len(t) : k + i \in 1..size /\ t[i] = queue[k + i]
      <3>1. k \in 0..size
        BY <1>2, <1>4, SMT
      <3> HIDE DEF k
      <3> QED BY <1>2, <3>1, CutQueue
    <2>2. d.pendingBlocks = t
      BY <1>1, <1>6
    <2>3. k \in Nat /\ k <= size
      BY <1>4
    <2> HIDE DEF t, k, d, p
    <2>4. processedOf(d) = p + k /\ from <= p + k
      <3> HIDE DEF size
      <3>1. processedOf(d) = Len(b.lastEnqueued) - (size - k)
        BY <1>1, <2>1, <2>2 DEF processedOf, d
      <3>2. Len(b.lastEnqueued) - (size - k) = p + k /\ from <= p + k
        <4>1. Len(b.lastEnqueued) \in Nat /\ size \in Nat
          BY <1>2
        <4>2. p \in Int /\ p = Len(b.lastEnqueued) - size /\ from <= p
          BY <1>3
        <4> QED BY <2>3, <4>1, <4>2, SMT
      <3> QED BY <3>1, <3>2
    <2>5. \A i \in 1..Len(t) : t[i] = SubSeq(b.lastEnqueued, 1, (p + k) + i)
      <3> TAKE i \in 1..Len(t)
      <3>1. p \in Int /\ k \in Int /\ i \in Int
        BY <1>3, <2>3, SMT
      <3>2. p + (k + i) = (p + k) + i
        BY <3>1, SMT
      <3> QED BY <1>3, <2>1, <3>2
    <2>6. ASSUME canProcess(d) PROVE holds(d.encoder, b.lastEnqueued, from, p + k)
      <3>1. CASE canProcess(b)
        BY <1>1, <3>1, LoopHolds DEF done, p, k, d
      <3>2. CASE ~canProcess(b)
        <4>1. PICK j \in 1..size : Last(queue[j]).txs = "bad"
          BY <1>2, <3>2 DEF canProcess
        <4>2. ~(j \in 1..k)
          BY <4>1, LoopTakesGood DEF done, k
        <4>3. j - k \in 1..Len(t) /\ k + (j - k) = j
          BY <1>2, <2>1, <2>3, <4>2, SMT
        <4>4. t[j - k] = queue[j]
          BY <2>1, <4>3
        <4> QED BY <2>1, <2>2, <2>6, <4>1, <4>3, <4>4 DEF canProcess
      <3> QED BY <3>1, <3>2
    <2> QED BY <1>1, <2>2, <2>4, <2>5, <2>6 DEF follows, r, d
  <1> QED BY <1>1, <1>5, <1>6

LEMMA BuildInChain ==
    ASSUME NEW b \in Builder, isSound(b.encoder), NEW from \in Nat, inChain(b, from), NEW head
    PROVE  inChain(Build(b, head).builder, from)
  <1> DEFINE r == Build(b, head).builder
             d == encodePending(b).builder
             g == getBatch(d, head).builder
  <1>1. CASE r = b
    BY <1>1
  <1>2. CASE r # b
    <2>1. b.pendingBlocks # <<>> /\ r \in {d, g}
      BY <1>2, BuildTyped
    <2>2. b.lastEnqueued # NoBlock /\ follows(b, from)
      BY <2>1 DEF inChain
    <2>3. follows(d, from)
      BY <2>2, EncodeFollows
    <2>4. d \in Builder /\ isSound(d.encoder) /\ d.encoder \in Encoder /\ d.lastEnqueued = b.lastEnqueued
      BY EncodeTyped DEF Builder
    <2> HIDE DEF d
    <2>5. /\ g.lastEnqueued = d.lastEnqueued /\ g.pendingBlocks = d.pendingBlocks
          /\ g.encoder \in {d.encoder, closeSubBatch(d.encoder)}
      BY <2>4, GetTyped
    <2> HIDE DEF g, r
    <2>6. canProcess(g) = canProcess(d) /\ processedOf(g) = processedOf(d)
      BY <2>5 DEF canProcess, processedOf
    <2>7. ASSUME canProcess(d) PROVE holds(g.encoder, g.lastEnqueued, from, processedOf(d))
      <3>1. holds(d.encoder, d.lastEnqueued, from, processedOf(d))
        BY <2>3, <2>7 DEF follows
      <3> QED BY <2>4, <2>5, <3>1, CloseHolds
    <2>8. follows(g, from)
      BY <2>3, <2>5, <2>6, <2>7 DEF follows
    <2> QED BY <2>1, <2>2, <2>3, <2>4, <2>5, <2>8 DEF inChain, r
  <1> QED BY <1>1, <1>2

\* The prefixes of a block are those of its parent, up to the parent.
LEMMA ChildHolds ==
    ASSUME NEW e, NEW c \in FullBlock, NEW from \in Nat, NEW to \in 0..Len(c) - 1,
           holds(e, Front(c), from, to)
    PROVE  holds(e, c, from, to)
  <1>1. Len(c) \in Nat /\ Len(c) # 0 /\ c \in Seq(Bodies) /\ Len(c) - 1 \in 0..Len(c)
    BY SMT DEF FullBlock, Block
  <1>2. ASSUME NEW n \in 0..to PROVE SubSeq(Front(c), 1, n) = SubSeq(c, 1, n)
    <2>1. n \in 0..Len(c) - 1
      BY <1>1, SMT
    <2> QED BY <1>1, <2>1, PrefixOfPrefix DEF Front
  <1>3. from + 1..to \subseteq 0..to /\ to \in 0..to
    BY <1>1, SMT
  <1>4. {SubSeq(Front(c), 1, n) : n \in from + 1..to} = {SubSeq(c, 1, n) : n \in from + 1..to}
    BY <1>2, <1>3
  <1>5. prefixes(Front(c), from, to) = prefixes(c, from, to)
    BY <1>4 DEF prefixes
  <1>6. SubSeq(Front(c), 1, to) = SubSeq(c, 1, to)
    BY <1>2, <1>3
  <1> QED BY <1>5, <1>6 DEF holds

LEMMA EnqueueInChain ==
    ASSUME NEW b \in Builder, NEW from \in Nat, inChain(b, from), NEW c \in FullBlock, canEnqueue(b, c)
    PROVE  inChain(Enqueue(b, c), IF b.lastEnqueued = NoBlock THEN Len(c) - 1 ELSE from)
  <1> DEFINE d == Enqueue(b, c)
             queue == b.pendingBlocks
             more == Append(queue, c)
             size == Len(queue)
  <1>1. d.encoder = b.encoder /\ d.pendingBlocks = more /\ d.lastEnqueued = c
    BY EnqueueTyped
  <1> HIDE DEF d
  <1>2. Len(c) \in Nat /\ Len(c) # 0 /\ c \in Seq(Bodies) /\ c # NoBlock
    BY NoneIsNoBlock, SMT DEF FullBlock, Block
  <1>3. queue \in Seq(FullBlock) /\ size \in Nat /\ DOMAIN queue = 1..size
    BY SMT DEF Builder
  <1>4. /\ Len(more) = size + 1 /\ DOMAIN more = 1..size \cup {size + 1}
        /\ (\A i \in 1..size : more[i] = queue[i]) /\ more[size + 1] = c
    BY <1>3, LastPlace, SMT
  <1>5. SubSeq(c, 1, Len(c)) = c
    BY <1>2, SMT
  <1> HIDE DEF more
  <1>6. CASE b.lastEnqueued = NoBlock
    <2>1. queue = <<>> /\ b.encoder = newEncoder
      BY <1>6 DEF inChain
    <2>2. size = 0
      BY <2>1, SMT
    <2>3. processedOf(d) = Len(c) - 1 /\ Len(more) = 1 /\ Len(c) - 1 \in Nat /\ (Len(c) - 1) + 1 = Len(c)
      BY <1>1, <1>2, <1>4, <2>2, SMT DEF processedOf
    <2>4. \A i \in 1..Len(more) : more[i] = SubSeq(c, 1, (Len(c) - 1) + i)
      <3> TAKE i \in 1..Len(more)
      <3>1. i = 1
        BY <2>3, SMT
      <3> QED BY <1>4, <1>5, <2>2, <2>3, <3>1
    <2>5. holds(d.encoder, c, Len(c) - 1, Len(c) - 1)
      BY <1>1, <2>1, <2>3, NewHolds
    <2>6. follows(d, Len(c) - 1)
      BY <1>1, <2>3, <2>4, <2>5, SMT DEF follows
    <2> QED BY <1>1, <1>2, <1>6, <2>6 DEF inChain, d
  <1>7. CASE b.lastEnqueued # NoBlock
    <2> DEFINE last == b.lastEnqueued
               p == processedOf(b)
    <2>1. last = Front(c) /\ follows(b, from)
      BY <1>7 DEF canEnqueue, inChain
    <2>2. Len(c) - 1 \in 0..Len(c) /\ Front(c) = SubSeq(c, 1, Len(c) - 1)
      BY <1>2, SMT DEF Front
    <2>3. Len(last) = Len(c) - 1
      <3>1. Len(SubSeq(c, 1, Len(c) - 1)) = Len(c) - 1
        BY <1>2, <2>2, PrefixTyped
      <3> QED BY <2>1, <2>2, <3>1
    <2>4. /\ p = Len(c) - 1 - size /\ from <= p
          /\ \A i \in 1..size : queue[i] = SubSeq(last, 1, p + i)
          /\ canProcess(b) => holds(b.encoder, last, from, p)
      BY <2>1, <2>3 DEF follows, processedOf
    <2>5. processedOf(d) = Len(c) - (size + 1)
      BY <1>1, <1>4 DEF processedOf
    <2> HIDE DEF p, last, size
    <2>6. processedOf(d) = p /\ p \in 0..Len(c) - 1 /\ p + (size + 1) = Len(c)
      BY <1>2, <1>3, <2>4, <2>5, SMT
    <2>7. \A i \in 1..Len(more) : more[i] = SubSeq(c, 1, p + i)
      <3> TAKE i \in 1..Len(more)
      <3>1. CASE i \in 1..size
        <4>1. p + i \in 0..Len(c) - 1
          BY <1>2, <1>3, <2>6, <3>1, SMT
        <4>2. SubSeq(SubSeq(c, 1, Len(c) - 1), 1, p + i) = SubSeq(c, 1, p + i)
          BY <1>2, <2>2, <4>1, PrefixOfPrefix
        <4> QED BY <1>4, <2>1, <2>2, <2>4, <3>1, <4>2
      <3>2. CASE i = size + 1
        BY <1>4, <1>5, <2>6, <3>2
      <3> QED BY <1>3, <1>4, <3>1, <3>2, SMT
    <2>8. ASSUME canProcess(d) PROVE holds(d.encoder, c, from, p)
      <3>1. canProcess(b)
        BY <1>1, <1>3, <1>4, <2>8 DEF canProcess
      <3>2. holds(b.encoder, Front(c), from, p)
        BY <2>1, <2>4, <3>1
      <3> QED BY <1>1, <2>6, <3>2, ChildHolds
    <2>9. follows(d, from)
      BY <1>1, <2>4, <2>6, <2>7, <2>8 DEF follows
    <2> QED BY <1>1, <1>2, <1>7, <2>9 DEF inChain, d
  <1> QED BY <1>6, <1>7

LEMMA InChainStep ==
    ASSUME DInv, inChain(builder, base), [Next]_vars
    PROVE  inChain(builder', base')
  <1>1. builder \in Builder /\ isSound(builder.encoder) /\ base \in Nat
    BY DEF DInv
  <1>2. CASE builder' = builder /\ base' = base
    BY <1>2
  <1>3. CASE Enqueues
    <2>1. block(next) \in FullBlock /\ Len(block(next)) = next
      BY <1>3, BlockTyped, SMT DEF DInv, Enqueues
    <2>2. inChain(Enqueue(builder, block(next)),
                  IF builder.lastEnqueued = NoBlock THEN Len(block(next)) - 1 ELSE base)
      BY <1>1, <1>3, <2>1, EnqueueInChain DEF Enqueues
    <2> QED BY <1>3, <2>1, <2>2 DEF Enqueues
  <1>4. CASE builder' = Reset(builder, block(safe)) /\ base' = safe
    <2> DEFINE c == block(safe)
    <2>1. c \in Block /\ Len(c) = safe /\ safe \in Nat /\ c # NoBlock
      BY BlockTyped, NoneIsNoBlock, SMT DEF DInv
    <2> HIDE DEF c
    <2>2. builder'.encoder = newEncoder /\ builder'.pendingBlocks = <<>> /\ builder'.lastEnqueued = c
      BY <1>1, <1>4, <2>1, ResetTyped DEF c
    <2>3. processedOf(builder') = safe /\ Len(builder'.pendingBlocks) = 0
      BY <2>1, <2>2, SMT DEF processedOf
    <2>4. holds(newEncoder, c, safe, safe)
      BY <2>1, NewHolds
    <2>5. follows(builder', safe)
      BY <2>1, <2>2, <2>3, <2>4, SMT DEF follows
    <2> QED BY <1>4, <2>1, <2>2, <2>5 DEF inChain
  <1>5. CASE builder' = Build(builder, l1Head).builder /\ base' = base
    BY <1>1, <1>5, BuildInChain
  <1>6. CASE builder' = Advance(builder) /\ base' = base
    <2>1. /\ builder'.encoder = builder.encoder /\ builder'.pendingBlocks = builder.pendingBlocks
          /\ builder'.lastEnqueued = builder.lastEnqueued
      BY <1>1, <1>6, AdvanceTyped
    <2>2. canProcess(builder') = canProcess(builder) /\ processedOf(builder') = processedOf(builder)
      BY <2>1 DEF canProcess, processedOf
    <2> QED BY <1>6, <2>1, <2>2 DEF inChain, follows
  <1>7. CASE builder' = newBuilder /\ base' = 0
    <2>1. builder'.lastEnqueued = NoBlock /\ builder'.pendingBlocks = <<>> /\ builder'.encoder = newEncoder
      BY <1>7 DEF newBuilder
    <2> QED BY <2>1 DEF inChain
  <1> QED BY <1>2, <1>3, <1>4, <1>5, <1>6, <1>7, BuilderMoves

LEMMA InChainHolds == Spec => [](DInv /\ inChain(builder, base))
  <1>1. Init => DInv /\ inChain(builder, base)
    <2> SUFFICES ASSUME Init PROVE inChain(builder, base)
      BY InitDInv
    <2>1. builder.lastEnqueued = NoBlock /\ builder.pendingBlocks = <<>> /\ builder.encoder = newEncoder
      BY DEF Init, newBuilder
    <2> QED BY <2>1 DEF inChain
  <1>2. (DInv /\ inChain(builder, base)) /\ [Next]_vars => (DInv /\ inChain(builder, base))'
    BY DInvStep, InChainStep
  <1> QED BY <1>1, <1>2, PTL DEF Spec

\* No failed call, failed batch, reorganisation or restart makes the builder lose, repeat
\* or mix up blocks: the encoder and the queue together are the non-empty blocks of the
\* chain of the last block enqueued, for every configuration and every chain.
THEOREM BuilderHoldsChain == Spec => []HoldsChain
  <1>1. ASSUME DInv, inChain(builder, base), builder.lastEnqueued # NoBlock, isProcessable
        PROVE  LET last == builder.lastEnqueued
                   queue == builder.pendingBlocks
                   processed == Len(last) - Len(queue)
               IN  /\ base <= processed
                   /\ blocksOf(subBatches) = prefixes(last, base, processed) /\ isOrdered(subBatches)
                   /\ \A i \in DOMAIN queue : queue[i] = SubSeq(last, 1, processed + i)
    <2>1. follows(builder, base) /\ canProcess(builder)
      BY <1>1 DEF inChain, isProcessable, canProcess
    <2>2. DOMAIN builder.pendingBlocks = 1..Len(builder.pendingBlocks)
      BY <1>1, SMT DEF DInv, Builder
    <2>3. holds(builder.encoder, builder.lastEnqueued, base, processedOf(builder))
      BY <2>1 DEF follows
    <2>4. /\ blocksOf(subBatches) = prefixes(builder.lastEnqueued, base, processedOf(builder))
          /\ isOrdered(subBatches)
      BY <2>3 DEF holds, held, batchOf, subBatches
    <2> QED BY <2>1, <2>2, <2>4 DEF follows, processedOf
  <1>2. DInv /\ inChain(builder, base) => HoldsChain
    BY <1>1 DEF HoldsChain
  <1> QED BY <1>2, InChainHolds, PTL

\* A sub-batch can be written with the number of its first block only: each of its blocks
\* is the child of the one before it, and only the first can begin an epoch (ProcessBlock).
THEOREM SubBatchesAreConsecutive == Spec => []SubBatchConsecutive
  <1>1. ASSUME DInv, inChain(builder, base), isProcessable
        PROVE  isConsecutive(subBatches)
    <2>1. CASE builder.lastEnqueued = NoBlock
      <3>1. holds(newEncoder, NoBlock, 0, 0)
        BY NewHolds
      <3> QED BY <1>1, <2>1, <3>1 DEF inChain, holds, batchOf, subBatches
    <2>2. CASE builder.lastEnqueued # NoBlock
      <3>1. follows(builder, base) /\ canProcess(builder)
        BY <1>1, <2>2 DEF inChain, isProcessable, canProcess
      <3> QED BY <3>1 DEF follows, holds, batchOf, subBatches
    <2> QED BY <2>1, <2>2
  <1>2. DInv /\ inChain(builder, base) => SubBatchConsecutive
    BY <1>1 DEF SubBatchConsecutive, isConsecutive, isChained
  <1> QED BY <1>2, InChainHolds, PTL
=============================================================================
