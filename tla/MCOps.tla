-------------------------------- MODULE MCOps -------------------------------
(* Base 16 for bytes, words of four; the namespaces are two bytes wide. *)
EXTENDS FeeHook

MCAdjustment == {5, -10}
MCIndexes == [UUPSPlaceholder |-> 0, L1Oracle |-> 16, L2Portal |-> 17, L2StandardBridge |-> 18]

type(kind, bytes) == [encoding |-> "inplace", kind |-> kind, bytes |-> bytes]
entry(label, slot, offset, t) == [label |-> label, slot |-> slot, offset |-> offset, type |-> t]
ownable == <<entry("_initialized", 0, 0, type("uint", 1)), entry("_initializing", 0, 1, type("bool", 1)),
             entry("__gap", 1, 0, [encoding |-> "inplace", kind |-> "array", bytes |-> 8]),
             entry("_owner", 2, 0, type("address", 3))>>
full == [UUPSPlaceholder |-> ownable,
         L1Oracle |-> ownable \o <<entry("number", 3, 0, type("uint", 4)), entry("timestamp", 4, 0, type("uint", 4)),
            entry("baseFee", 5, 0, type("uint", 4)), entry("hash", 6, 0, type("bytes32", 4)),
            entry("stateRoot", 7, 0, type("bytes32", 4))>>,
         L2Portal |-> ownable \o <<entry("l1PortalAddress", 3, 0, type("address", 3)),
            entry("l1Sender", 4, 0, type("address", 3))>>,
         L2StandardBridge |-> ownable \o <<entry("OTHER_BRIDGE", 3, 0, type("contract", 3)),
            entry("PORTAL_ADDRESS", 4, 0, type("address", 3))>>]
MCLayouts == [good |-> full, lacking |-> [full EXCEPT !["L2Portal"] = ownable]]

account(balance, code) == [balance |-> balance, code |-> code, storage |-> <<>>, nonce |-> 0]
plain == [chainID |-> 1, extraData |-> 32, owner |-> 9, l1Portal |-> 10, l1Bridge |-> 11, l1Sender |-> 3501,
          alloc |-> 1000 :> account(3000, <<>>)]
MCConfigs == {plain, [plain EXCEPT !.chainID = 0],
              [plain EXCEPT !.alloc = (1000 :> account(3000, <<>>)) @@ (272 :> account(5, <<"ERC1967Proxy">>))]}
MCL1Blocks == {[number |-> 700, time |-> 100, baseFee |-> f, hash |-> 60000, root |-> 50000] : f \in {2, Bad}}
MCMessage == {[from |-> a, zeroes |-> 1, ones |-> 2, sigZeroes |-> z, sigOnes |-> 64 - z] : a \in {1000, 1001}, z \in {0, 5}}

entries2 == {entry("x", s, o, t) : s \in {0}, o \in 0..3,
                t \in {type("bool", 1), type("uint", 1), type("uint", 2), type("address", 3), type("bytes32", 4)}}
inRange == {e \in entries2 : e.offset + e.type.bytes <= WordBytes}
goValues == {go("bool", 1), go("uint8", 15), go("uint64", 200), go("*Int", 70000), go("Address", 4095),
             go("Hash", 65535), go("int", 0), go("string", 17)}
calls == {[gas |-> g, price |-> 0, value |-> 0, balance |-> 0, needs |-> n] : g \in 0..(Gas64 - 1), n \in TxGas..Gas64}
         \cup {[gas |-> g, price |-> p, value |-> v, balance |-> b, needs |-> n] :
                  g \in {0, 10}, p \in 1..2, v \in 0..2, b \in 0..12, n \in {3, 5, 9}}

started == pc = "start" /\ chain = {<<>>} /\ ~panicked
Packs == started => PacksExactly(inRange, goValues)
Estimates == started => EstimatesLeast(calls)
=============================================================================
