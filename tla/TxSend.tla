------------------------------- MODULE TxSend -------------------------------
(***************************************************************************)
(* What the callers of a transaction manager (the disseminator and the     *)
(* validator) can rely on: a call of Send ends with a receipt or with an   *)
(* error; L1 holds its transaction at most once; there is a receipt only   *)
(* if L1 has included the transaction.  Nothing more: the transaction of a *)
(* call that ended with an error may be included later, and one with a     *)
(* receipt may have been dropped by a reorganisation since.                *)
(***************************************************************************)
EXTENDS Naturals, Sequences

CONSTANTS
    Call,             \* the calls of Send
    NoCall            \* an L1 block without a transaction of this account

VARIABLES
    status,           \* call -> how far it is
    blocks,           \* the L1 chain: the call each block includes
    dropped           \* calls whose transaction a reorganisation removed

vars == <<status, blocks, dropped>>

includes(c) == \E i \in DOMAIN blocks : blocks[i] = c

Init ==
    /\ status = [c \in Call |-> "idle"]
    /\ blocks = <<>>
    /\ dropped = {}

Begin(c) ==
    /\ status[c] = "idle"
    /\ status' = [status EXCEPT ![c] = "pending"]
    /\ UNCHANGED <<blocks, dropped>>

Succeed(c) ==
    /\ status[c] = "pending"
    /\ includes(c) \/ c \in dropped
    /\ status' = [status EXCEPT ![c] = "ok"]
    /\ UNCHANGED <<blocks, dropped>>

Fail(c) ==
    /\ status[c] = "pending"
    /\ status' = [status EXCEPT ![c] = "failed"]
    /\ UNCHANGED <<blocks, dropped>>

Include(c) ==
    /\ c # NoCall => status[c] # "idle" /\ ~includes(c)
    /\ blocks' = Append(blocks, c)
    /\ UNCHANGED <<status, dropped>>

Drop ==
    /\ blocks # <<>>
    /\ blocks' = SubSeq(blocks, 1, Len(blocks) - 1)
    /\ dropped' = dropped \cup ({blocks[Len(blocks)]} \ {NoCall})
    /\ UNCHANGED status

Next ==
    \/ \E c \in Call : Begin(c) \/ Succeed(c) \/ Fail(c)
    \/ \E c \in Call \cup {NoCall} : Include(c)
    \/ Drop

Spec == Init /\ [][Next]_vars
=============================================================================
