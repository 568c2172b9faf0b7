-------------------------- MODULE MCStandardBridge --------------------------
(***************************************************************************)
(* Instances of StandardBridge for TLC: one account, a contract that calls *)
(* back, a token T of L1 with its MintableERC20 M on L2, a token N of L2.   *)
(***************************************************************************)
EXTENDS StandardBridge, TLC

MCTokens == {"T", "M", "N"}
MCChainOf == [t \in MCTokens |-> IF t = "T" THEN "L1" ELSE "L2"]
MCRemoteToken == [t \in MCTokens |-> IF t = "M" THEN "T" ELSE "none"]
MCGenesisTokens == [t \in MCTokens |-> [a \in Account |-> IF t # "M" /\ a = "user" THEN 1 ELSE 0]]
MCGenesisEther ==
    [s \in Side |-> [a \in Account |-> CASE a = "user" -> IF s = "L1" THEN 1 ELSE 0
                                         [] s = "L2" /\ a = "L2Portal" -> 2
                                         [] OTHER -> 0]]

\* Transfers to an account, a contract and a bridge, and calls of the bridges
\* that no bridge has sent.
MCRawCall ==
    {[target |-> t, value |-> 1, data |-> plainCall] : t \in {"app", "L1Bridge", "L2Bridge"}}
    \cup {[target |-> "L2Bridge", value |-> 0, data |-> finalizeERC20("M", "T", "user", 1)],
          [target |-> "L1Bridge", value |-> 0, data |-> finalizeERC20("T", "M", "user", 1)]}

\* A few calls for the liveness runs.
MCFewCalls == {[target |-> "app", value |-> 0, data |-> plainCall]}
=============================================================================
