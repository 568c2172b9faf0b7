------------------------------- MODULE FeeHook ------------------------------
(***************************************************************************)
(* lib/el_golang_lib/hook/fee_hook.go: the fee for L1 data that every L2   *)
(* message pays, on a chain that starts from the genesis of module         *)
(* L2Genesis and reads the base fee in the storage of its L1Oracle.        *)
(***************************************************************************)
EXTENDS L2Genesis

CONSTANTS
    Message,            \* sender, zero and other bytes of the encoded message and of a signature
    Coinbase,
    L1FeeOverhead, L1FeeMultiplier,   \* the multiplier in thousandths
    BaseFeeSlot, NumberSlot,
    BaseFees,           \* base fees that the oracle may be told
    MaxMessages         \* bound on the messages executed

VARIABLE messages

all == <<backend, tool, inputs, messages>>

txDataZero == 4
txDataOne == 16
txSignatureOverhead == 68

\* Three decimals, rounded up.  The binary scalar is inexact unless it is a number of
\* eighths, and then the product of an exact multiple may lie just above it.
ScaleBigInt(num, scalar) ==
    LET q == (num * scalar) \div 1000
    IN  IF (num * scalar) % 1000 # 0 THEN {q + 1}
        ELSE IF scalar % 125 = 0 THEN {q} ELSE {q, q + 1}

oracle == predeploy("L1Oracle")
readStorageSlot(a, slot) == alloc[a].storage[<<slot>>]

\* Of the encoding the last three bytes are cut off: of an unsigned transaction, its empty
\* signature; of a signed one, the end of its signature.
calculateL1Fee_unsignedOverhead(zeroes, ones, signed) ==
    ScaleBigInt((zeroes * txDataZero + (ones + (IF signed THEN 0 ELSE txSignatureOverhead)) * txDataOne
                    + L1FeeOverhead) * readStorageSlot(oracle, BaseFeeSlot), L1FeeMultiplier)
calculateL1Fee(zeroes, ones, signed) ==
    ScaleBigInt((zeroes * txDataZero + (ones + txSignatureOverhead) * txDataOne + L1FeeOverhead)
                    * readStorageSlot(oracle, BaseFeeSlot), L1FeeMultiplier)

\* The hook rebuilds the transaction without its signature; the reader is given it signed.
hookFee(m) == calculateL1Fee(m.zeroes, m.ones, FALSE)
readerFee(m) == calculateL1Fee(m.zeroes + m.sigZeroes, m.ones + m.sigOnes, TRUE)

\* The state of the L2 client, which makes the accounts it writes to.
GetBalance(db, a) == CreateAccount(db, a)[a].balance
AddBalance(db, a, amount) == [CreateAccount(db, a) EXCEPT ![a].balance = @ + amount]
SubBalance(db, a, amount) == [CreateAccount(db, a) EXCEPT ![a].balance = @ - amount]

covers(db, m, fee) == GetBalance(db, m.from) >= fee
transfer_stale(db, m, fee) ==
    [CreateAccount(CreateAccount(db, Coinbase), m.from) EXCEPT
        ![Coinbase].balance = @ + fee, ![m.from].balance = GetBalance(db, m.from) - fee]
transfer(db, m, fee) == SubBalance(AddBalance(db, Coinbase, fee), m.from, fee)

\* The hook: a message that cannot pay is refused.
chargeL1Fee(m) ==
    /\ pc = "done" /\ messages < MaxMessages
    /\ \E fee \in hookFee(m) : covers(alloc, m, fee) /\ alloc' = transfer(alloc, m, fee)
    /\ messages' = messages + 1
    /\ UNCHANGED <<backend, pc, queue, todo, codes, inputs>>

\* L1Oracle, by the coinbase, if there is code at its address.  Nobody here reads the
\* timestamp, the hash and the state root that it also stores.
setL1OracleValues(n, fee) ==
    /\ pc = "done" /\ messages < MaxMessages
    /\ alloc[oracle].code # <<>> /\ n > readStorageSlot(oracle, NumberSlot)
    /\ alloc' = SetStates(alloc, oracle, (<<NumberSlot>> :> n) @@ (<<BaseFeeSlot>> :> fee))
    /\ messages' = messages + 1
    /\ UNCHANGED <<backend, pc, queue, todo, codes, inputs>>

Init == GenesisInit /\ messages = 0
Next ==
    \/ user = "client" /\ Client /\ UNCHANGED <<tool, inputs, messages>>
    \/ user = "tool" /\ Tool /\ UNCHANGED messages
    \/ \E m \in Message : chargeL1Fee(m)
    \/ \E fee \in BaseFees : setL1OracleValues(readStorageSlot(oracle, NumberSlot) + 1, fee)

Spec == Init /\ [][Next]_all

\* The tool is a program that runs to its end.
FairSpec == Spec /\ WF_all(user = "tool" /\ Tool /\ UNCHANGED messages)

-----------------------------------------------------------------------------
(* Properties *)

Total(db) == SumFunction([a \in DOMAIN db |-> db[a].balance])

\* Fees move Ether and make none, even if the coinbase pays itself, and no balance falls
\* below zero.
FeesMoveEther ==
    [][pc = "done" => Total(alloc') = Total(alloc) /\ \A a \in DOMAIN alloc' : alloc'[a].balance >= 0]_all

\* A quote of the fee reader for a signed transaction is not below what the hook charges
\* for its message, rounding apart, though the two encode the transaction differently.
QuoteCovers ==
    pc = "done" =>
        \A m \in Message : \A quote \in readerFee(m), charge \in hookFee(m) : quote + 1 >= charge
=============================================================================
