------------------------------- MODULE Portals -------------------------------
(***************************************************************************)
(* L1Portal.sol and L2Portal.sol, which pass messages with Ether between   *)
(* the two chains, and what each may prove of the other: L1Oracle.sol on   *)
(* L2, the confirmed assertions of Rollup.sol on L1.                       *)
(*                                                                         *)
(* A transaction is atomic on its chain, except that the contract a        *)
(* message calls may call back: frame[s] holds the messages whose call is  *)
(* running on chain s, and until it returns only that contract acts there. *)
(* A call that reverts undoes its transaction, so it takes no step here.   *)
(*                                                                         *)
(* The block numbers of a chain are counted in messages: block n is one    *)
(* whose state holds the messages with a nonce below n.                    *)
(***************************************************************************)
EXTENDS Integers, FiniteSets, SequenceParts, Totals

CONSTANTS User,           \* externally owned accounts
          App,            \* contracts that may call back when they are called
          Token,          \* ERC20 contracts, on either chain
          NoToken,
          Value,          \* amounts of Ether or tokens in one call
          HashKind,       \* what validators assert: "root" of the state, "block" hash
          Pausable,       \* the contracts whose owner uses pause
          GenesisEther,   \* Ether of every account on each chain at the start
          MaxNonce,       \* bound on the messages sent from one chain
          MaxMessages     \* and from both

Side == {"L1", "L2"}
other(s) == IF s = "L1" THEN "L2" ELSE "L1"
portal(s) == IF s = "L1" THEN "L1Portal" ELSE "L2Portal"
bridge(s) == IF s = "L1" THEN "L1Bridge" ELSE "L2Bridge"
Account == User \cup App \cup {"L1Portal", "L2Portal", "L1Bridge", "L2Bridge"}

\* A sender as the other chain sees it; aliased marks the shifted address of a
\* contract of L1.
Sender == [addr : Account, aliased : BOOLEAN]

\* The calldata of a message: a plain transfer, or a call of a bridge.
Data == [fn : {"none", "eth", "erc20"}, local : Token \cup {NoToken},
         remote : Token \cup {NoToken}, to : Account, amount : Nat]

\* A message stands for its hash, which covers every field.
Message == [nonce : Nat, sender : Sender, target : Account, value : Nat, data : Data]

\* DEFAULT_L1_SENDER and DEFAULT_L2_SENDER: no call is running.
DefaultSender == [addr |-> "dEaD", aliased |-> FALSE]

ASSUME PortalsAssumption ==
    /\ IsFiniteSet(User) /\ IsFiniteSet(App) /\ IsFiniteSet(Token)
    /\ User \cap App = {} /\ "dEaD" \notin Account
    /\ (User \cup App) \cap {"L1Portal", "L2Portal", "L1Bridge", "L2Bridge"} = {}
    /\ NoToken \notin Token /\ Value \subseteq Nat
    /\ HashKind \subseteq {"root", "block"}
    /\ GenesisEther \in [Side -> [Account -> Nat]]
    /\ MaxNonce \in Nat /\ MaxMessages \in Nat

VARIABLES nonce,          \* nonce of each portal
          initiated,      \* initiatedDeposits of L1, initiatedWithdrawals of L2
          finalized,      \* finalizedWithdrawals of L1, finalizedDeposits of L2
          xSender,        \* l2Sender of L1Portal, l1Sender of L2Portal
          ether,          \* balances
          frame,          \* messages whose call is running
          paused,         \* the paused contracts
          oracleNumber,   \* number of L1Oracle, whose stateRoot is that block's
          assertions      \* the confirmed assertions

portals == <<nonce, initiated, finalized, xSender, ether, frame>>
roots == <<oracleNumber, assertions>>

PortalsInit ==
    /\ nonce = [s \in Side |-> 0]
    /\ initiated = [s \in Side |-> {}]
    /\ finalized = [s \in Side |-> {}]
    /\ xSender = [s \in Side |-> DefaultSender]
    /\ ether = GenesisEther
    /\ frame = [s \in Side |-> <<>>]
    /\ paused = {}
    /\ oracleNumber = 0
    /\ assertions = {}

-----------------------------------------------------------------------------
(* Calls *)

idle(s) == frame[s] = <<>>

\* The contract that received the call of message m on chain s.
callee(s, m) == IF m.target = bridge(s) THEN m.data.to ELSE m.target

\* An account sends a transaction, or the contract that is running calls back.
mayCall(s, a) ==
    IF idle(s) THEN a \in User \cup App ELSE a = callee(s, Last(frame[s]))

\* address(msg.sender) of a caller on chain s, as its messages carry it.
senderOf(s, a) == [addr |-> a, aliased |-> s = "L1" /\ a \notin User]

message(s, a, target, value, data) ==
    [nonce |-> nonce[s], sender |-> senderOf(s, a), target |-> target,
     value |-> value, data |-> data]

transfer(balances, from, to, v) ==
    LET taken == [balances EXCEPT ![from] = @ - v] IN [taken EXCEPT ![to] = @ + v]

\* initiateDeposit and initiateWithdrawal by contract or account a, with Ether
\* that payer sends along.
Initiate(s, a, payer, target, value, data) ==
    /\ portal(s) \notin paused
    /\ nonce[s] < MaxNonce /\ nonce["L1"] + nonce["L2"] < MaxMessages
    /\ value <= ether[s][payer]
    /\ initiated' = [initiated EXCEPT ![s] = @ \cup {message(s, a, target, value, data)}]
    /\ ether' = [ether EXCEPT ![s] = transfer(@, payer, portal(s), value)]
    /\ nonce' = [nonce EXCEPT ![s] = @ + 1]

\* The proofs of L2Portal are verified against the latest root of the oracle,
\* those of L1Portal against the hash that validators asserted, which must be
\* the root of the state.
inOracleRoot(m) == m \in initiated["L1"] /\ m.nonce < oracleNumber
inConfirmedAssertion(m) ==
    m \in initiated["L2"] /\ \E a \in assertions : a.kind = "root" /\ m.nonce < a.block
isIncluded(s, m) == IF s = "L2" THEN inOracleRoot(m) ELSE inConfirmedAssertion(m)

\* What finalizeWithdrawalTransaction and finalizeDepositTransaction require
\* before they call the target, and the Ether that call takes.
isFinalizable_nested(s, m) ==
    /\ portal(s) \notin paused
    /\ m.target # portal(s)
    /\ m \notin finalized[s]
    /\ isIncluded(s, m)
    /\ m.value <= ether[s][portal(s)]
isFinalizable_again(s, m) ==
    /\ portal(s) \notin paused
    /\ xSender[s] = DefaultSender
    /\ m.target # portal(s)
    /\ isIncluded(s, m)
    /\ m.value <= ether[s][portal(s)]
isFinalizable(s, m) ==
    /\ portal(s) \notin paused
    /\ xSender[s] = DefaultSender
    /\ m.target # portal(s)
    /\ m \notin finalized[s]
    /\ isIncluded(s, m)
    /\ m.value <= ether[s][portal(s)]

\* The call of m pays payee; if that is a contract it runs, else the call is over.
Deliver(s, m, payee) ==
    /\ finalized' = [finalized EXCEPT ![s] = @ \cup {m}]
    /\ ether' = [ether EXCEPT ![s] = transfer(@, portal(s), payee, m.value)]
    /\ IF payee \in App
       THEN /\ xSender' = [xSender EXCEPT ![s] = m.sender]
            /\ frame' = [frame EXCEPT ![s] = Append(@, m)]
       ELSE /\ xSender' = [xSender EXCEPT ![s] = DefaultSender]
            /\ frame' = frame
    /\ UNCHANGED <<nonce, initiated>>

\* The called contract returns and the portal resets its sender.
Return_senderKept(s) ==
    /\ ~idle(s)
    /\ frame' = [frame EXCEPT ![s] = Front(@)]
    /\ UNCHANGED <<nonce, initiated, finalized, xSender, ether>>
Return(s) ==
    /\ ~idle(s)
    /\ frame' = [frame EXCEPT ![s] = Front(@)]
    /\ xSender' = [xSender EXCEPT ![s] = DefaultSender]
    /\ UNCHANGED <<nonce, initiated, finalized, ether>>

\* donateETH
Donate(s, a, v) ==
    /\ mayCall(s, a)
    /\ v <= ether[s][a]
    /\ ether' = [ether EXCEPT ![s] = transfer(@, a, portal(s), v)]
    /\ UNCHANGED <<nonce, initiated, finalized, xSender, frame>>

-----------------------------------------------------------------------------
(* What a chain learns of the other, and its owner's switches *)

\* The coinbase of an L2 block reports L1 block n.
SetL1OracleValues(n) ==
    /\ idle("L1") /\ idle("L2")
    /\ "L1Oracle" \notin paused
    /\ oracleNumber < n /\ n <= nonce["L1"]
    /\ oracleNumber' = n
    /\ UNCHANGED assertions

\* Rollup confirms an assertion of L2 block n.
ConfirmAssertion(n, kind) ==
    /\ idle("L1") /\ idle("L2")
    /\ n <= nonce["L2"] /\ \A a \in assertions : a.block < n
    /\ assertions' = assertions \cup {[block |-> n, kind |-> kind]}
    /\ UNCHANGED oracleNumber

isOn(c, s) == c \in {portal(s), bridge(s)} \/ (c = "L1Oracle" /\ s = "L2")

Pause(c) ==
    /\ c \in Pausable \ paused
    /\ \A s \in Side : isOn(c, s) => idle(s)
    /\ paused' = paused \cup {c}

Unpause(c) ==
    /\ c \in paused
    /\ \A s \in Side : isOn(c, s) => idle(s)
    /\ paused' = paused \ {c}
=============================================================================
