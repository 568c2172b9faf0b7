--------------------------- MODULE StandardBridge ---------------------------
(***************************************************************************)
(* StandardBridge.sol with its two sides L1StandardBridge.sol and          *)
(* L2StandardBridge.sol on top of the portals: Ether is forwarded, a token *)
(* is escrowed on its own chain and minted by a MintableERC20 on the       *)
(* other.  Tokens are standard ERC20 contracts whose owners approved the   *)
(* bridge.                                                                 *)
(***************************************************************************)
EXTENDS Portals

CONSTANTS chainOf,        \* the chain of every token
          remoteToken,    \* REMOTE_TOKEN of a MintableERC20, NoToken of another token
          GenesisTokens,  \* token balances at the start
          RawCall,        \* calls that accounts send through a portal by themselves
          Recipient       \* accounts that Ether and tokens are sent to

ASSUME BridgeAssumption ==
    /\ chainOf \in [Token -> Side]
    /\ remoteToken \in [Token -> Token \cup {NoToken}]
    /\ \A t \in Token : remoteToken[t] # NoToken =>
          chainOf[remoteToken[t]] # chainOf[t] /\ remoteToken[remoteToken[t]] = NoToken
    /\ GenesisTokens \in [Token -> [Account -> Nat]]
    /\ \A t \in Token : remoteToken[t] # NoToken =>
          \A a \in Account : GenesisTokens[t][a] = 0
    /\ RawCall \subseteq [target : Account, value : Nat, data : Data]
    /\ Recipient \subseteq Account

VARIABLES deposits,       \* deposits of both bridges, by local and remote token
          tokens          \* balanceOf every token

vars == <<portals, roots, paused, deposits, tokens>>

Init ==
    /\ PortalsInit
    /\ deposits = [pair \in Token \X Token |-> 0]
    /\ tokens = GenesisTokens

-----------------------------------------------------------------------------
(* Sending *)

isNonNativeTokenPair(local, remote) == remoteToken[local] = remote

plainCall == [fn |-> "none", local |-> NoToken, remote |-> NoToken, to |-> "L1Portal", amount |-> 0]
finalizeETH(to, amount) ==
    [fn |-> "eth", local |-> NoToken, remote |-> NoToken, to |-> to, amount |-> amount]
finalizeERC20(local, remote, to, amount) ==
    [fn |-> "erc20", local |-> local, remote |-> remote, to |-> to, amount |-> amount]

\* An account calls its portal directly (receive included).
Send(s, a, target, v, data) ==
    /\ mayCall(s, a)
    /\ Initiate(s, a, a, target, v, data)
    /\ UNCHANGED <<finalized, xSender, frame, roots, paused, deposits, tokens>>

\* bridgeETH, bridgeETHTo and receive.
BridgeETH(s, a, to, v) ==
    /\ mayCall(s, a)
    /\ bridge(s) \notin paused
    /\ Initiate(s, bridge(s), a, bridge(other(s)), v, finalizeETH(to, v))
    /\ UNCHANGED <<finalized, xSender, frame, roots, paused, deposits, tokens>>

\* bridgeERC20 and bridgeERC20To: burn a token of the other chain, escrow one's own.
BridgeERC20(s, a, local, remote, to, v) ==
    /\ mayCall(s, a)
    /\ bridge(s) \notin paused
    /\ chainOf[local] = s
    /\ v <= tokens[local][a]
    /\ IF isNonNativeTokenPair(local, remote)
       THEN /\ tokens' = [tokens EXCEPT ![local][a] = @ - v]
            /\ deposits' = deposits
       ELSE /\ tokens' = [tokens EXCEPT ![local] = transfer(@, a, bridge(s), v)]
            /\ deposits' = [deposits EXCEPT ![<<local, remote>>] = @ + v]
    /\ Initiate(s, bridge(s), a, bridge(other(s)), 0, finalizeERC20(remote, local, to, v))
    /\ UNCHANGED <<finalized, xSender, frame, roots, paused>>

-----------------------------------------------------------------------------
(* Receiving *)

\* onlyOtherBridge: the portal relays a message of the bridge of the other chain,
\* whose address is aliased on L2.
isFromOtherBridge_anySender(s, m) == TRUE
isFromOtherBridge(s, m) == m.sender = [addr |-> bridge(other(s)), aliased |-> s = "L2"]

\* The target has no code, or is a contract that runs.
FinalizeCall(s, m) ==
    /\ isFinalizable(s, m)
    /\ m.target # bridge(s)
    /\ Deliver(s, m, m.target)
    /\ UNCHANGED <<roots, paused, deposits, tokens>>

\* finalizeBridgeETH
FinalizeBridgeETH(s, m) ==
    /\ isFinalizable(s, m)
    /\ m.target = bridge(s) /\ m.data.fn = "eth"
    /\ isFromOtherBridge(s, m) /\ bridge(s) \notin paused
    /\ m.value = m.data.amount
    /\ m.data.to \notin {bridge(s), portal(s)}
    /\ Deliver(s, m, m.data.to)
    /\ UNCHANGED <<roots, paused, deposits, tokens>>

\* What finalizeBridgeERC20 does to the tokens.
Release_unchecked(s, d) ==
    /\ chainOf[d.local] = s
    /\ IF isNonNativeTokenPair(d.local, d.remote)
       THEN /\ tokens' = [tokens EXCEPT ![d.local][d.to] = @ + d.amount]
            /\ deposits' = deposits
       ELSE /\ d.amount <= tokens[d.local][bridge(s)]
            /\ deposits' = [deposits EXCEPT ![<<d.local, d.remote>>] = @ - d.amount]
            /\ tokens' = [tokens EXCEPT ![d.local] = transfer(@, bridge(s), d.to, d.amount)]
Release_notRecorded(s, d) ==
    /\ chainOf[d.local] = s
    /\ IF isNonNativeTokenPair(d.local, d.remote)
       THEN /\ tokens' = [tokens EXCEPT ![d.local][d.to] = @ + d.amount]
            /\ deposits' = deposits
       ELSE /\ d.amount <= deposits[<<d.local, d.remote>>]
            /\ d.amount <= tokens[d.local][bridge(s)]
            /\ deposits' = deposits
            /\ tokens' = [tokens EXCEPT ![d.local] = transfer(@, bridge(s), d.to, d.amount)]
Release(s, d) ==
    /\ chainOf[d.local] = s
    /\ IF isNonNativeTokenPair(d.local, d.remote)
       THEN /\ tokens' = [tokens EXCEPT ![d.local][d.to] = @ + d.amount]
            /\ deposits' = deposits
       ELSE /\ d.amount <= deposits[<<d.local, d.remote>>]
            /\ d.amount <= tokens[d.local][bridge(s)]
            /\ deposits' = [deposits EXCEPT ![<<d.local, d.remote>>] = @ - d.amount]
            /\ tokens' = [tokens EXCEPT ![d.local] = transfer(@, bridge(s), d.to, d.amount)]

\* finalizeBridgeERC20, which takes no Ether.
FinalizeBridgeERC20(s, m) ==
    /\ isFinalizable(s, m)
    /\ m.target = bridge(s) /\ m.data.fn = "erc20" /\ m.value = 0
    /\ isFromOtherBridge(s, m) /\ bridge(s) \notin paused
    /\ Release(s, m.data)
    /\ Deliver(s, m, bridge(s))
    /\ UNCHANGED <<roots, paused>>

\* A plain transfer to the bridge: its receive function sends the Ether back
\* through the portal, to the portal's own address on the other chain.
FinalizeReceive(s, m) ==
    /\ isFinalizable(s, m)
    /\ m.target = bridge(s) /\ m.data.fn = "none"
    /\ bridge(s) \notin paused
    /\ Initiate(s, bridge(s), portal(s), bridge(other(s)), m.value, finalizeETH(portal(s), m.value))
    /\ finalized' = [finalized EXCEPT ![s] = @ \cup {m}]
    /\ UNCHANGED <<xSender, frame, roots, paused, deposits, tokens>>

Finalize(s, m) ==
    \/ FinalizeCall(s, m)
    \/ FinalizeBridgeETH(s, m)
    \/ FinalizeBridgeERC20(s, m)
    \/ FinalizeReceive(s, m)

-----------------------------------------------------------------------------
(* The specification *)

Operate ==
    \E s \in Side, a \in User \cup App, v \in Value :
        \/ Donate(s, a, v) /\ UNCHANGED <<roots, paused, deposits, tokens>>
        \/ \E c \in RawCall : Send(s, a, c.target, c.value, c.data)
        \/ \E to \in Recipient : \/ BridgeETH(s, a, to, v)
                                \/ \E l, r \in Token : BridgeERC20(s, a, l, r, to, v)

Relay ==
    \E s \in Side :
        \/ \E m \in initiated[other(s)] : Finalize(s, m)
        \/ Return(s) /\ UNCHANGED <<roots, paused, deposits, tokens>>

ReportL1 ==
    /\ \E n \in 1..MaxNonce : SetL1OracleValues(n)
    /\ UNCHANGED <<portals, paused, deposits, tokens>>

AssertL2 ==
    /\ \E n \in 1..MaxNonce, kind \in HashKind : ConfirmAssertion(n, kind)
    /\ UNCHANGED <<portals, paused, deposits, tokens>>

Own ==
    /\ \E c \in Pausable : Pause(c) \/ Unpause(c)
    /\ UNCHANGED <<portals, roots, deposits, tokens>>

Next == Operate \/ Relay \/ ReportL1 \/ AssertL2 \/ Own

Spec == Init /\ [][Next]_vars

\* A called contract returns, the sequencer reports L1 blocks, validators get
\* assertions confirmed, and someone relays every message that can be relayed.
RelayNonce(s, n) ==
    \E m \in initiated[other(s)] : m.nonce = n /\ Finalize(s, m)
ReturnCall(s) == Return(s) /\ UNCHANGED <<roots, paused, deposits, tokens>>
Fairness ==
    /\ WF_vars(ReportL1) /\ WF_vars(AssertL2)
    /\ \A s \in Side : WF_vars(ReturnCall(s)) /\ \A n \in 0..MaxNonce - 1 : WF_vars(RelayNonce(s, n))
FairSpec == Spec /\ Fairness

-----------------------------------------------------------------------------
(* Properties *)

\* Every storage slot has its type; no balance, deposit or nonce is negative.
TypeOK ==
    /\ nonce \in [Side -> 0..MaxNonce]
    /\ \A s \in Side : initiated[s] \subseteq Message /\ finalized[s] \subseteq Message
    /\ xSender \in [Side -> Sender \cup {DefaultSender}]
    /\ ether \in [Side -> [Account -> Nat]]
    /\ \A s \in Side : frame[s] \in Seq(initiated[other(s)])
    /\ oracleNumber \in 0..MaxNonce
    /\ assertions \subseteq [block : 1..MaxNonce, kind : HashKind]
    /\ deposits \in [Token \X Token -> Nat]
    /\ tokens \in [Token -> [Account -> Nat]]

\* Messages on their way to chain s.
inFlight(s) == initiated[other(s)] \ finalized[s]

\* Ether on L2 that can be sent back and Ether on its way, in either direction,
\* never exceed what L1Portal holds and what L2 accounts were given at genesis:
\* no message is paid twice, or paid without having been paid for, whatever a
\* called contract does and however often a failed relay is repeated.
outside(balances) == Total([a \in Account \ {"L2Portal"} |-> balances[a]])
etherInFlight(s) == Total([m \in inFlight(s) |-> m.value])
EtherBacked ==
    outside(ether["L2"]) + etherInFlight("L1") + etherInFlight("L2")
        <= ether["L1"]["L1Portal"] + outside(GenesisEther["L2"])

\* The supply of a MintableERC20, with what is on its way to and from it, is
\* what the bridge of the token's own chain recorded for this pair in deposits:
\* only messages of the other bridge mint or release, each once, and a token
\* paired wrongly touches no other pair.
isTransfer(s, m, local, remote) ==
    /\ m.sender.addr = bridge(other(s)) /\ m.data.fn = "erc20"
    /\ m.data.local = local /\ m.data.remote = remote
tokensInFlight(s, local, remote) ==
    Total([m \in {k \in inFlight(s) : isTransfer(s, k, local, remote)} |-> m.data.amount])
TokensBacked ==
    \A t \in Token : remoteToken[t] # NoToken =>
        LET home == remoteToken[t]
        IN  deposits[<<home, t>>] =
              Total(tokens[t]) + tokensInFlight(chainOf[t], t, home)
                               + tokensInFlight(chainOf[home], home, t)

\* A bridge holds the tokens that its deposits record, over all pairs.
recorded(t) == [r \in Token |-> deposits[<<t, r>>]]
EscrowHeld ==
    \A t \in Token : Total(recorded(t)) <= tokens[t][bridge(chainOf[t])]

\* While a contract runs on behalf of a message, its portal names the sender of
\* that message, and otherwise no sender: a call back that finalizes another
\* message, which would replace the sender, is refused.
OwnSender ==
    \A s \in Side :
        xSender[s] = IF idle(s) THEN DefaultSender ELSE Last(frame[s]).sender

\* Every transfer through the bridge to an account that can receive it is finalized on
\* the other chain, a withdrawal once an assertion that covers it is confirmed, as
\* test_standard_bridge_withdraw_eth.ts expects: no failed attempt uses it up, no later
\* report of the oracle makes it unprovable, and the portal has the Ether and the escrow
\* the tokens to pay it.
isDeliverable(s, m) ==
    /\ m.target = bridge(s) /\ m.sender.addr = bridge(other(s))
    /\ \/ m.data.fn = "eth" /\ m.data.to \notin {bridge(s), portal(s)}
       \/ /\ m.data.fn = "erc20" /\ chainOf[m.data.local] = s
          /\ \/ isNonNativeTokenPair(m.data.local, m.data.remote)
             \/ isNonNativeTokenPair(m.data.remote, m.data.local)
isDelivered(s, n) == \E m \in finalized[s] : m.nonce = n
TransfersDelivered ==
    \A s \in Side, n \in 0..MaxNonce - 1 :
        (\E m \in initiated[other(s)] : m.nonce = n /\ isDeliverable(s, m)) ~> isDelivered(s, n)
=============================================================================
