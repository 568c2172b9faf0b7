--------------------------- MODULE StorageEncoding --------------------------
(***************************************************************************)
(* ops/state/encoding.go and state.go: from Go values, by label, to the    *)
(* storage slots of a contract.  A word is a number of WordBytes digits in *)
(* base Byte; a Go value is the name of its type and the number it stands  *)
(* for (a string also its length; v = Bad is one that does not parse, or a *)
(* nil pointer).                                                           *)
(*                                                                         *)
(* X_why is a faulty variant of operator X, used by no specification.      *)
(***************************************************************************)
EXTENDS Integers, Sequences, FiniteSetsExt, Functions, Bitwise

CONSTANTS
    Byte,               \* 2^8
    WordBytes,          \* 32
    AddressBytes,       \* 20
    Uint64              \* 2^64

Error == -1
Panic == -2
Bad == -3
Word == Byte ^ WordBytes

-----------------------------------------------------------------------------
(* Values *)

encodeBoolValue(x) == IF x.go \in {"bool", "string"} THEN (IF x.v = 1 THEN 1 ELSE 0) ELSE Error

\* HexToAddress keeps the last bytes; of what it cannot read, none.
encodeAddressValue(x) ==
    IF x.go \notin {"Address", "*Address", "string"} THEN Error
    ELSE IF x.v = Bad THEN 0 ELSE x.v % Byte ^ AddressBytes

\* Of the pointers only *big.Int is taken; its sign is lost, and it may be nil.
encodeUintValue(x) ==
    CASE x.go \in {"uint", "int", "uint64", "uint32", "uint16", "uint8"} -> x.v % Uint64
      [] x.go = "bool" -> x.v
      [] x.go = "*Int" -> IF x.v = Bad THEN Panic ELSE (IF x.v < 0 THEN -x.v ELSE x.v) % Word
      [] x.go = "string" -> IF x.v = Bad THEN Error ELSE x.v % Word
      [] OTHER -> Error

encodeBytes32Value(x) ==
    IF x.go \in {"string", "Hash"} /\ x.v # Bad THEN x.v % Word ELSE Error

\* Left-aligned, with twice the length in the last byte; one slot at most.
encodeStringValue(x) ==
    IF x.go = "string" /\ x.len < WordBytes THEN x.v * Byte ^ (WordBytes - x.len) + 2 * x.len
    ELSE Error

handleOffset_none(w, offset) == w
handleOffset(w, offset) == IF w < 0 THEN w ELSE (w * Byte ^ offset) % Word

EncodeBoolValue(x, offset) == handleOffset(encodeBoolValue(x), offset)
EncodeAddressValue(x, offset) == handleOffset(encodeAddressValue(x), offset)
EncodeUintValue(x, offset) == handleOffset(encodeUintValue(x), offset)
EncodeBytes32Value(x, offset) == IF offset # 0 THEN Error ELSE encodeBytes32Value(x)
EncodeStringValue(x, offset) == IF offset # 0 THEN Error ELSE encodeStringValue(x)

-----------------------------------------------------------------------------
(* Slots.  An entry has a label, a slot, an offset and a type; a type has an encoding, *)
(* a kind (its label) and, for a mapping, the kinds of its keys and values.            *)

encodeSlotKey(entry) == <<entry.slot>>

getElementEncoder(kind, x) ==
    CASE kind = "address" -> EncodeAddressValue(x, 0)
      [] kind = "bool" -> EncodeBoolValue(x, 0)
      [] kind = "bytes32" -> EncodeBytes32Value(x, 0)
      [] kind = "uint" -> EncodeUintValue(x, 0)
      [] OTHER -> Error

inplace(x, entry) ==
    CASE entry.type.kind = "bool" -> EncodeBoolValue(x, entry.offset)
      [] entry.type.kind \in {"address", "contract"} -> EncodeAddressValue(x, entry.offset)
      [] entry.type.kind = "bytes32" -> EncodeBytes32Value(x, entry.offset)
      [] entry.type.kind = "uint" -> EncodeUintValue(x, entry.offset)
      [] OTHER -> Error

\* The pairs <<key, word>>; a dynamic array has none, whatever its value.
EncodeStorageKeyValue(x, entry) ==
    LET key == encodeSlotKey(entry)
        encoding == entry.type.encoding
    IN  CASE encoding = "inplace" -> {<<key, inplace(x, entry)>>}
          [] encoding = "dynamic_array" -> {}
          [] encoding = "bytes" /\ entry.type.kind = "string" ->
                {<<key, EncodeStringValue(x, entry.offset)>>}
          [] encoding = "mapping" /\ entry.type.value # "mapping" /\ x.go = "map" ->
                {LET k == getElementEncoder(entry.type.key, pair[1])
                     v == getElementEncoder(entry.type.value, pair[2])
                 IN  IF k < 0 THEN <<key, k>> ELSE <<key \o <<k>>, v>> : pair \in x.v}
          [] OTHER -> {<<key, Error>>}

EncodeStorage(x, entry) ==
    IF entry.type.bytes > WordBytes THEN {<<encodeSlotKey(entry), Error>>}
    ELSE EncodeStorageKeyValue(x, entry)

\* Values packed in one slot are or-ed together, in any order.
MergeStorage(pairs) ==
    [k \in {p[1] : p \in pairs} |->
        FoldSet(LAMBDA w, acc : w | acc, 0, {p[2] : p \in {q \in pairs : q[1] = k}})]

\* values is a function from labels; the last entry of a label counts.
ComputeStorageSlots(layout, values) ==
    LET found(label) == {i \in DOMAIN layout : layout[i].label = label}
        pairs == UNION {IF found(label) = {} THEN {<<<<>>, Error>>}
                        ELSE EncodeStorage(values[label], layout[Max(found(label))])
                        : label \in DOMAIN values}
        failures == {p[2] : p \in {q \in pairs : q[2] < 0}}
    IN  [failures |-> failures, slots |-> IF failures = {} THEN MergeStorage(pairs) ELSE <<>>]

-----------------------------------------------------------------------------
(* Property *)

\* What a contract reads at an entry.
decode(slots, entry) ==
    (slots[<<entry.slot>>] \div Byte ^ entry.offset) % Byte ^ entry.type.bytes

fits(x, entry) == x.v \in 0..(Byte ^ entry.type.bytes - 1)
overlap(e, f) ==
    e.slot = f.slot /\ e.offset < f.offset + f.type.bytes /\ f.offset < e.offset + e.type.bytes

\* Two variables of a contract that share a slot without overlapping are both read back as
\* they were given, if they encode at all: shifting loses no byte of a value that fits its
\* type, and or-ing the halves of a slot mixes none.
PacksExactly(entries, xs) ==
    \A e, f \in entries, x, y \in xs :
        LET layout == <<[e EXCEPT !.label = "e"], [f EXCEPT !.label = "f"]>>
            r == ComputeStorageSlots(layout, [e |-> x, f |-> y])
        IN  ~overlap(e, f) /\ fits(x, e) /\ fits(y, f) /\ r.failures = {} =>
                decode(r.slots, e) = x.v /\ decode(r.slots, f) = y.v
=============================================================================
