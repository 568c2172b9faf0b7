---------------------------- MODULE BridgeProofs ----------------------------
(***************************************************************************)
(* Proofs about the portals and bridges, for every value of the constants. *)
(***************************************************************************)
EXTENDS StandardBridge, TotalsProofs

\* A leaf is left to Zenon unless it names another prover.
USE Zenon

\* At most one call runs on a chain, and the portal's sender is that of its
\* message; no message has the default sender.
Calls(s) ==
    \/ frame[s] = <<>> /\ xSender[s] = DefaultSender
    \/ \E m \in initiated[other(s)] : frame[s] = <<m>> /\ xSender[s] = m.sender
CallInv ==
    /\ DOMAIN frame = Side /\ DOMAIN xSender = Side
    /\ DOMAIN initiated = Side /\ DOMAIN finalized = Side
    /\ \A s \in Side : Calls(s)
    /\ \A s \in Side : \A m \in initiated[s] : m.sender # DefaultSender
    /\ \A s \in Side : finalized[s] \subseteq initiated[other(s)]

\* The two chains are each other's other chain, and their contracts are accounts.
LEMMA Sides ==
    ASSUME NEW s \in Side
    PROVE  /\ other(s) \in Side /\ other(s) # s /\ other(other(s)) = s
           /\ \A r \in Side : r # s => r = other(s)
           /\ bridge(s) \in Account /\ portal(s) \in Account /\ bridge(s) # portal(s)
           /\ bridge(s) \notin User \cup App /\ portal(s) \notin User \cup App
           /\ User \cup App \subseteq Account
  BY PortalsAssumption DEF Side, other, bridge, portal, Account

\* No account has the default address, so no message carries the default sender.
LEMMA SenderNotDefault ==
    ASSUME NEW s \in Side, NEW a \in Account
    PROVE  senderOf(s, a) # DefaultSender
  BY PortalsAssumption DEF senderOf, DefaultSender

\* Sending a message adds one with a sender, whoever calls.
LEMMA InitiateKeepsCalls ==
    ASSUME CallInv, NEW s \in Side, NEW a \in Account, NEW payer, NEW target, NEW v, NEW data,
           Initiate(s, a, payer, target, v, data), UNCHANGED <<xSender, frame>>,
           \/ finalized' = finalized
           \/ \E m \in initiated[other(s)] : finalized' = [finalized EXCEPT ![s] = @ \cup {m}]
    PROVE  CallInv'
  <1> DEFINE new == message(s, a, target, v, data)
  <1>1. initiated' = [initiated EXCEPT ![s] = @ \cup {new}]
    BY DEF Initiate
  <1>2. new.sender # DefaultSender
    BY SenderNotDefault DEF message
  <1> HIDE DEF new
  <1>3. /\ DOMAIN initiated' = Side
        /\ \A r \in Side : initiated[r] \subseteq initiated'[r]
        /\ \A r \in Side : initiated'[r] \subseteq initiated[r] \cup {new}
    BY <1>1 DEF CallInv
  <1>4. \A r \in Side : \A m \in initiated'[r] : m.sender # DefaultSender
    BY <1>2, <1>3, SMT DEF CallInv
  <1>5. \A r \in Side : Calls(r)'
    BY <1>3, Sides DEF CallInv, Calls
  <1>6. DOMAIN finalized' = Side /\ \A r \in Side : finalized'[r] \subseteq initiated[other(r)]
    BY Sides, SMT DEF CallInv
  <1>7. \A r \in Side : finalized'[r] \subseteq initiated'[other(r)]
    BY <1>3, <1>6, Sides
  <1> QED BY <1>3, <1>4, <1>5, <1>6, <1>7 DEF CallInv

\* Delivering a message starts at most one call: isFinalizable refuses a nested one.
LEMMA DeliverKeepsCalls ==
    ASSUME CallInv, NEW s \in Side, NEW m \in initiated[other(s)], NEW payee,
           isFinalizable(s, m), Deliver(s, m, payee)
    PROVE  CallInv'
  <1>1. /\ finalized' = [finalized EXCEPT ![s] = @ \cup {m}]
        /\ initiated' = initiated
    BY DEF Deliver
  <1>2. xSender[s] = DefaultSender /\ frame[s] = <<>>
    <2>1. xSender[s] = DefaultSender
      BY DEF isFinalizable
    <2>2. \A k \in initiated[other(s)] : k.sender # DefaultSender
      BY Sides DEF CallInv
    <2> QED BY <2>1, <2>2 DEF CallInv, Calls
  <1>3. /\ DOMAIN finalized' = Side
        /\ \A r \in Side : finalized'[r] \subseteq initiated'[other(r)]
    BY <1>1 DEF CallInv
  <1>4. CASE payee \in App
    <2>1. /\ xSender' = [xSender EXCEPT ![s] = m.sender]
          /\ frame' = [frame EXCEPT ![s] = Append(@, m)]
      BY <1>4 DEF Deliver
    <2>2. Append(frame[s], m) = <<m>>
      BY <1>2, SMT
    <2>3. frame'[s] = <<m>> /\ xSender'[s] = m.sender
      BY <2>1, <2>2 DEF CallInv
    <2>4. /\ DOMAIN frame' = Side /\ DOMAIN xSender' = Side
          /\ \A r \in Side \ {s} : frame'[r] = frame[r] /\ xSender'[r] = xSender[r]
      BY <2>1 DEF CallInv
    <2>5. \A r \in Side : Calls(r)'
      BY <1>1, <2>3, <2>4 DEF CallInv, Calls
    <2> QED BY <1>1, <1>3, <2>4, <2>5 DEF CallInv
  <1>5. CASE payee \notin App
    <2>1. xSender' = [xSender EXCEPT ![s] = DefaultSender] /\ frame' = frame
      BY <1>5 DEF Deliver
    <2>2. /\ DOMAIN xSender' = Side
          /\ \A r \in Side : xSender'[r] = xSender[r]
      BY <1>2, <2>1 DEF CallInv
    <2>3. \A r \in Side : Calls(r)'
      BY <1>1, <2>1, <2>2, SMT DEF CallInv, Calls
    <2> QED BY <1>1, <1>3, <2>1, <2>2, <2>3 DEF CallInv
  <1> QED BY <1>4, <1>5

\* When the called contract returns nothing runs and nobody is the sender.
LEMMA ReturnKeepsCalls ==
    ASSUME CallInv, NEW s \in Side, Return(s)
    PROVE  CallInv'
  <1>1. /\ frame' = [frame EXCEPT ![s] = Front(@)] /\ frame[s] # <<>>
        /\ xSender' = [xSender EXCEPT ![s] = DefaultSender]
        /\ UNCHANGED <<initiated, finalized>>
    BY DEF Return, idle
  <1>2. Front(frame[s]) = <<>>
    <2>1. PICK m \in initiated[other(s)] : frame[s] = <<m>>
      BY <1>1 DEF CallInv, Calls
    <2>2. Front(<<m>>) = SubSeq(<<m>>, 1, 0)
      BY SMT DEF Front
    <2> QED BY <2>1, <2>2, SMT
  <1>3. /\ DOMAIN frame' = Side /\ DOMAIN xSender' = Side
        /\ frame'[s] = <<>> /\ xSender'[s] = DefaultSender
        /\ \A r \in Side \ {s} : frame'[r] = frame[r] /\ xSender'[r] = xSender[r]
    BY <1>1, <1>2 DEF CallInv
  <1>4. \A r \in Side : Calls(r)'
    BY <1>1, <1>3, SMT DEF CallInv, Calls
  <1> QED BY <1>1, <1>3, <1>4 DEF CallInv

\* Every step keeps one call at a time, named by the sender of its message.
LEMMA NextKeepsCalls ==
    ASSUME CallInv, [Next]_vars
    PROVE  CallInv'
  <1>1. ASSUME UNCHANGED <<initiated, finalized, xSender, frame>> PROVE CallInv'
    BY <1>1 DEF CallInv, Calls
  <1>2. CASE Operate
    <2> PICK s \in Side, a \in User \cup App, v \in Value :
          \/ Donate(s, a, v) /\ UNCHANGED <<roots, paused, deposits, tokens>>
          \/ \E c \in RawCall : Send(s, a, c.target, c.value, c.data)
          \/ \E to \in Recipient : \/ BridgeETH(s, a, to, v)
                                  \/ \E l, r \in Token : BridgeERC20(s, a, l, r, to, v)
      BY <1>2 DEF Operate
    <2>1. CASE Donate(s, a, v)
      BY <1>1, <2>1 DEF Donate
    <2>2. ASSUME NEW c \in RawCall, Send(s, a, c.target, c.value, c.data) PROVE CallInv'
      <3>1. a \in Account
        BY DEF Account
      <3> QED BY <2>2, <3>1, InitiateKeepsCalls DEF Send
    <2>3. ASSUME NEW to \in Recipient, BridgeETH(s, a, to, v) PROVE CallInv'
      BY <2>3, Sides, InitiateKeepsCalls DEF BridgeETH
    <2>4. ASSUME NEW to \in Recipient, NEW l \in Token, NEW r \in Token,
                 BridgeERC20(s, a, l, r, to, v)
          PROVE  CallInv'
      BY <2>4, Sides, InitiateKeepsCalls DEF BridgeERC20
    <2> QED BY <2>1, <2>2, <2>3, <2>4
  <1>3. CASE Relay
    <2> PICK s \in Side :
          \/ \E m \in initiated[other(s)] : Finalize(s, m)
          \/ Return(s) /\ UNCHANGED <<roots, paused, deposits, tokens>>
      BY <1>3 DEF Relay
    <2>1. ASSUME NEW m \in initiated[other(s)], FinalizeCall(s, m) PROVE CallInv'
      BY <2>1, DeliverKeepsCalls DEF FinalizeCall
    <2>2. ASSUME NEW m \in initiated[other(s)], FinalizeBridgeETH(s, m) PROVE CallInv'
      BY <2>2, DeliverKeepsCalls DEF FinalizeBridgeETH
    <2>3. ASSUME NEW m \in initiated[other(s)], FinalizeBridgeERC20(s, m) PROVE CallInv'
      BY <2>3, DeliverKeepsCalls DEF FinalizeBridgeERC20
    <2>4. ASSUME NEW m \in initiated[other(s)], FinalizeReceive(s, m) PROVE CallInv'
      BY <2>4, Sides, InitiateKeepsCalls DEF FinalizeReceive
    <2>5. CASE Return(s)
      BY <2>5, ReturnKeepsCalls
    <2> QED BY <2>1, <2>2, <2>3, <2>4, <2>5 DEF Finalize
  <1>4. CASE ReportL1 \/ AssertL2 \/ Own
    BY <1>1, <1>4 DEF ReportL1, AssertL2, Own, portals
  <1>5. CASE UNCHANGED vars
    BY <1>1, <1>5 DEF vars, portals
  <1> QED BY <1>2, <1>3, <1>4, <1>5 DEF Next

\* Initially nothing was sent and nothing runs.
LEMMA InitCalls == Init => CallInv
  BY DEF Init, PortalsInit, CallInv, Calls

\* For every set of accounts, tokens and calls: the portal names the sender of
\* the message whose call is running and nobody else, however the called
\* contract calls back (finalizeWithdrawalTransaction, finalizeDepositTransaction).
THEOREM SenderIsOwn == Spec => []OwnSender
  <1>1. CallInv => OwnSender
    <2> SUFFICES ASSUME CallInv, NEW s \in Side
                 PROVE  xSender[s] = IF idle(s) THEN DefaultSender ELSE Last(frame[s]).sender
      BY DEF OwnSender
    <2>1. CASE frame[s] = <<>> /\ xSender[s] = DefaultSender
      BY <2>1 DEF idle
    <2>2. ASSUME NEW m \in initiated[other(s)], frame[s] = <<m>>, xSender[s] = m.sender
          PROVE  xSender[s] = IF idle(s) THEN DefaultSender ELSE Last(frame[s]).sender
      <3>1. <<m>> # <<>> /\ Last(<<m>>) = m
        BY DEF Last
      <3> QED BY <2>2, <3>1 DEF idle
    <2> QED BY <2>1, <2>2 DEF CallInv, Calls
  <1> QED BY <1>1, InitCalls, NextKeepsCalls, PTL DEF Spec

-----------------------------------------------------------------------------
(* Transfers *)

\* A transfer takes from one account what it gives to another.
LEMMA Transfer ==
    ASSUME NEW b \in [Account -> Nat], NEW from \in Account, NEW to \in Account, NEW v \in Nat,
           v <= b[from]
    PROVE  /\ transfer(b, from, to, v) \in [Account -> Nat]
           /\ from = to => transfer(b, from, to, v) = b
           /\ from # to => /\ transfer(b, from, to, v)[from] = b[from] - v
                           /\ transfer(b, from, to, v)[to] = b[to] + v
           /\ \A a \in Account \ {from, to} : transfer(b, from, to, v)[a] = b[a]
  <1> DEFINE taken == [b EXCEPT ![from] = @ - v]
             t == [taken EXCEPT ![to] = @ + v]
  <1>1. transfer(b, from, to, v) = t
    BY DEF transfer
  <1>2. b[from] \in Nat /\ b[to] \in Nat /\ b[from] - v \in Nat
    BY SMT
  <1>3. /\ taken \in [Account -> Nat] /\ taken[from] = b[from] - v
        /\ \A a \in Account \ {from} : taken[a] = b[a]
    BY <1>2
  <1> HIDE DEF taken
  <1>4. /\ t \in [Account -> Nat] /\ t[to] = taken[to] + v
        /\ \A a \in Account \ {to} : t[a] = taken[a]
    BY <1>3, SMT
  <1> HIDE DEF t
  <1>5. from = to => t = b
    <2>1. ASSUME from = to PROVE \A a \in Account : t[a] = b[a]
      BY <1>2, <1>3, <1>4, <2>1, SMT
    <2> QED BY <1>4, <2>1, SMT
  <1>6. from # to => t[from] = b[from] - v /\ t[to] = b[to] + v
    BY <1>3, <1>4
  <1>7. \A a \in Account \ {from, to} : t[a] = b[a]
    BY <1>3, <1>4
  <1> QED BY <1>1, <1>4, <1>5, <1>6, <1>7

LEMMA AccountsFinite == IsFiniteSet(Account) /\ IsFiniteSet(Account \ {"L2Portal"})
  <1>1. IsFiniteSet({"L1Portal", "L2Portal", "L1Bridge", "L2Bridge"})
    <2>1. /\ IsFiniteSet({"L1Portal"}) /\ IsFiniteSet({"L2Portal"})
          /\ IsFiniteSet({"L1Bridge"}) /\ IsFiniteSet({"L2Bridge"})
      BY FS_Singleton
    <2>2. IsFiniteSet({"L1Portal"} \cup {"L2Portal"}) /\ IsFiniteSet({"L1Bridge"} \cup {"L2Bridge"})
      BY <2>1, FS_Union
    <2>3. IsFiniteSet(({"L1Portal"} \cup {"L2Portal"}) \cup ({"L1Bridge"} \cup {"L2Bridge"}))
      BY <2>2, FS_Union
    <2>4. {"L1Portal", "L2Portal", "L1Bridge", "L2Bridge"}
            = ({"L1Portal"} \cup {"L2Portal"}) \cup ({"L1Bridge"} \cup {"L2Bridge"})
      OBVIOUS
    <2> QED BY <2>3, <2>4
  <1>2. IsFiniteSet(Account)
    BY <1>1, PortalsAssumption, FS_Union DEF Account
  <1> QED BY <1>2, FS_RemoveElement

\* What the two ends of a movement do to a sum over the accounts.
LEMMA Moved ==
    ASSUME NEW D, IsFiniteSet(D), NEW b \in [D -> Nat], NEW c \in [D -> Nat],
           NEW from \in D, NEW to \in D, from # to, NEW v \in Nat,
           c[from] = b[from] - v, c[to] = b[to] + v, \A a \in D \ {from, to} : c[a] = b[a]
    PROVE  Total(b) \in Nat /\ Total(c) = Total(b)
  <1> DEFINE t == [b EXCEPT ![from] = c[from]]
  <1>1. /\ t \in [D -> Nat] /\ t[from] = c[from] /\ t[to] = b[to]
        /\ \A a \in D \ {from} : t[a] = b[a]
    OBVIOUS
  <1>2. \A a \in D \ {to} : c[a] = t[a]
    BY <1>1
  <1> HIDE DEF t
  <1>3. Total(b) \in Nat /\ Total(t) \in Nat /\ Total(t) + b[from] = Total(b) + t[from]
    BY <1>1, OneChanges, SMT DEF Shifted
  <1>4. Total(c) \in Nat /\ Total(c) + t[to] = Total(t) + c[to]
    BY <1>1, <1>2, OneChanges, SMT DEF Shifted
  <1>5. b[from] \in Nat /\ b[to] \in Nat /\ c[from] \in Nat /\ c[to] \in Nat
    OBVIOUS
  <1> QED BY <1>1, <1>3, <1>4, <1>5, SMT

\* A transfer keeps the supply.
LEMMA SupplyKept ==
    ASSUME NEW b \in [Account -> Nat], NEW from \in Account, NEW to \in Account, NEW v \in Nat,
           v <= b[from]
    PROVE  Total(b) \in Nat /\ Total(transfer(b, from, to, v)) = Total(b)
  <1>0. Total(b) \in Nat
    BY AccountsFinite, UnitsFinite
  <1>1. CASE from = to
    BY <1>0, <1>1, Transfer, SMT
  <1>2. CASE from # to
    <2> DEFINE c == transfer(b, from, to, v)
    <2>1. /\ c \in [Account -> Nat] /\ c[from] = b[from] - v /\ c[to] = b[to] + v
          /\ \A a \in Account \ {from, to} : c[a] = b[a]
      BY <1>2, Transfer, SMT
    <2> HIDE DEF c
    <2>2. Total(c) = Total(b)
      BY <1>2, <2>1, AccountsFinite, Moved, SMT
    <2> QED BY <1>0, <2>2 DEF c
  <1> QED BY <1>1, <1>2

LEMMA Cancelled ==
    ASSUME NEW g \in Nat, NEW f \in Nat, NEW x \in Nat, NEW v \in Nat, g + x = f + (x + v)
    PROVE  g = f + v
  BY SMT

\* The Ether outside L2Portal changes by what the portal takes or gives.
LEMMA OutsideMoved ==
    ASSUME NEW b \in [Account -> Nat], NEW from \in Account, NEW to \in Account, NEW v \in Nat,
           v <= b[from]
    PROVE  LET c == transfer(b, from, to, v)
           IN  /\ outside(b) \in Nat /\ outside(c) \in Nat
               /\ from = to => outside(c) = outside(b)
               /\ from # to /\ to = "L2Portal" => outside(c) + v = outside(b)
               /\ from = "L2Portal" /\ to # from => outside(c) = outside(b) + v
  <1> DEFINE c == transfer(b, from, to, v)
             D == Account \ {"L2Portal"}
             f == [a \in D |-> b[a]]
             g == [a \in D |-> c[a]]
  <1>1. /\ c \in [Account -> Nat] /\ (from = to => c = b)
        /\ from # to => c[from] = b[from] - v /\ c[to] = b[to] + v
        /\ \A a \in Account \ {from, to} : c[a] = b[a]
    BY Transfer, SMT
  <1> HIDE DEF c
  <1>2. f \in [D -> Nat] /\ g \in [D -> Nat] /\ IsFiniteSet(D)
    BY <1>1, AccountsFinite
  <1>3. outside(b) = Total(f) /\ outside(c) = Total(g)
    BY DEF outside
  <1>4. Total(f) \in Nat /\ Total(g) \in Nat
    BY <1>2, UnitsFinite
  <1>5. ASSUME from # to, to = "L2Portal" PROVE Total(g) + v = Total(f)
    <2>1. from \in D /\ f[from] = b[from] /\ g[from] = b[from] - v /\ \A a \in D \ {from} : g[a] = f[a]
      BY <1>1, <1>5
    <2> HIDE DEF f, g, D
    <2>2. Total(g) + f[from] = Total(f) + g[from]
      BY <1>2, <2>1, OneChanges, SMT DEF Shifted
    <2>3. b[from] \in Nat
      OBVIOUS
    <2> QED BY <1>4, <2>1, <2>2, <2>3, SMT
  <1>6. ASSUME from = "L2Portal", to # from PROVE Total(g) = Total(f) + v
    <2>1. to \in D /\ f[to] = b[to] /\ g[to] = b[to] + v /\ \A a \in D \ {to} : g[a] = f[a]
      BY <1>1, <1>6
    <2> HIDE DEF f, g, D
    <2>2. Total(g) + f[to] = Total(f) + g[to]
      BY <1>2, <2>1, OneChanges, SMT DEF Shifted
    <2>3. b[to] \in Nat
      OBVIOUS
    <2>4. Total(g) + b[to] = Total(f) + (b[to] + v)
      BY <2>1, <2>2
    <2> QED BY <1>4, <2>3, <2>4, Cancelled, SMT
  <1>7. from = to => outside(c) = outside(b)
    BY <1>1
  <1> HIDE DEF f, g
  <1> QED BY <1>3, <1>4, <1>5, <1>6, <1>7 DEF c

-----------------------------------------------------------------------------
(* What a step does to messages, Ether and tokens *)

\* A bridge calls the other bridge, to pay Ether or to release a token.
BridgeCall(s, m) ==
    /\ m.target = bridge(other(s))
    /\ m.data.fn = "eth" \/ (m.data.fn = "erc20" /\ m.data.local \in Token /\ m.data.remote \in Token)
isTokenMessage(s, m) == m.sender.addr = bridge(s) /\ m.data.fn = "erc20"

\* The messages of a chain are numbered, and those of its bridge are well formed.
MsgInv ==
    \A s \in Side :
        /\ IsFiniteSet(initiated[s])
        /\ \A m \in initiated[s] :
              m.nonce < nonce[s] /\ (m.sender.addr = bridge(s) => BridgeCall(s, m))

BInv == TypeOK /\ CallInv /\ MsgInv

\* New message m leaves chain s with the Ether of payer.
Sends(s, payer, m) ==
    /\ m \in Message /\ m.nonce = nonce[s] /\ m \notin initiated[s]
    /\ m.sender.addr = bridge(s) => BridgeCall(s, m)
    /\ payer \in Account /\ m.value <= ether[s][payer]
    /\ nonce[s] < MaxNonce /\ nonce' = [nonce EXCEPT ![s] = @ + 1]
    /\ initiated' = [initiated EXCEPT ![s] = @ \cup {m}]
    /\ ether' = [ether EXCEPT ![s] = transfer(@, payer, portal(s), m.value)]

\* Message m reaches chain s.
Passes(s, m) ==
    /\ m \in initiated[other(s)] /\ m \notin finalized[s]
    /\ finalized' = [finalized EXCEPT ![s] = @ \cup {m}]

\* The portal of chain s pays for it.
Pays(s, m, payee) ==
    /\ payee \in Account /\ payee # portal(s) /\ m.value <= ether[s][portal(s)]
    /\ ether' = [ether EXCEPT ![s] = transfer(@, portal(s), payee, m.value)]

QuietStep == UNCHANGED <<nonce, initiated, finalized, ether, deposits, tokens>>
DonateStep ==
    \E s \in Side, a \in User \cup App, v \in Nat :
        /\ v <= ether[s][a]
        /\ ether' = [ether EXCEPT ![s] = transfer(@, a, portal(s), v)]
        /\ UNCHANGED <<nonce, initiated, finalized, deposits, tokens>>
SendStep ==
    \E s \in Side, a \in User \cup App, m \in Message :
        /\ Sends(s, a, m) /\ ~isTokenMessage(s, m)
        /\ UNCHANGED <<finalized, deposits, tokens>>
TokenStep ==
    \E s \in Side, a \in User \cup App, m \in Message, l, r \in Token, to \in Account, v \in Nat :
        /\ Sends(s, a, m) /\ isTokenMessage(s, m)
        /\ m.data.local = r /\ m.data.remote = l /\ m.data.amount = v
        /\ BridgeERC20(s, a, l, r, to, v)
        /\ UNCHANGED finalized
DeliverStep ==
    \E s \in Side, m \in Message, payee \in Account :
        /\ Passes(s, m) /\ Pays(s, m, payee) /\ ~isTokenMessage(other(s), m)
        /\ UNCHANGED <<nonce, initiated, deposits, tokens>>
ReleaseStep ==
    \E s \in Side, m \in Message :
        /\ Passes(s, m) /\ Pays(s, m, bridge(s)) /\ isTokenMessage(other(s), m)
        /\ Release(s, m.data)
        /\ UNCHANGED <<nonce, initiated>>
BounceStep ==
    \E s \in Side, m \in Message, n \in Message :
        /\ Passes(s, m) /\ Sends(s, portal(s), n) /\ n.value = m.value
        /\ ~isTokenMessage(other(s), m) /\ ~isTokenMessage(s, n)
        /\ UNCHANGED <<deposits, tokens>>

\* An account paid for a message that is now sent.
Sent(s, a, payer, target, v, data) ==
    \E m \in Message : /\ Sends(s, payer, m) /\ m.sender.addr = a /\ m.target = target
                       /\ m.value = v /\ m.data = data

\* initiateDeposit and initiateWithdrawal send a new message.
LEMMA InitiateSends ==
    ASSUME BInv, NEW s \in Side, NEW a \in Account, NEW payer \in Account, NEW target \in Account,
           NEW v \in Nat, NEW data \in Data, Initiate(s, a, payer, target, v, data),
           a = bridge(s) => BridgeCall(s, [target |-> target, data |-> data])
    PROVE  Sent(s, a, payer, target, v, data)
  <1>1. PICK m : m = message(s, a, target, v, data)
    OBVIOUS
  <1>2. /\ m.nonce = nonce[s] /\ m.sender.addr = a /\ m.target = target /\ m.value = v /\ m.data = data
        /\ m.sender = senderOf(s, a)
    BY <1>1 DEF message, senderOf
  <1>3. nonce[s] \in Nat
    BY PortalsAssumption, SMT DEF BInv, TypeOK
  <1>4. m \in Message
    <2>1. senderOf(s, a) \in Sender
      BY DEF senderOf, Sender
    <2> QED BY <1>1, <1>3, <2>1 DEF message, Message
  <1>5. m \notin initiated[s]
    BY <1>2, <1>3, SMT DEF BInv, MsgInv
  <1>6. m.sender.addr = bridge(s) => BridgeCall(s, m)
    BY <1>2 DEF BridgeCall
  <1>7. Sends(s, payer, m)
    BY <1>1, <1>2, <1>4, <1>5, <1>6 DEF Initiate, Sends
  <1> QED BY <1>2, <1>4, <1>7 DEF Sent

\* A message that can be relayed was sent, is new and can be paid.
LEMMA FinalizablePasses ==
    ASSUME BInv, NEW s \in Side, NEW m \in initiated[other(s)], isFinalizable(s, m)
    PROVE  /\ m \in Message /\ m \notin finalized[s] /\ m.value <= ether[s][portal(s)]
           /\ m.target # portal(s) /\ m.target \in Account /\ m.data \in Data /\ m.data.to \in Account
           /\ m.sender.addr = bridge(other(s)) => m.target = bridge(s)
           /\ isTokenMessage(other(s), m) => m.data.local \in Token /\ m.data.remote \in Token
  <1>1. m \in Message /\ other(s) \in Side /\ other(other(s)) = s
    BY Sides DEF BInv, TypeOK
  <1>2. m.target \in Account /\ m.data \in Data
    BY <1>1 DEF Message
  <1>3. m.data.to \in Account
    BY <1>2 DEF Data
  <1>4. m.sender.addr = bridge(other(s)) => BridgeCall(other(s), m)
    BY <1>1 DEF BInv, MsgInv
  <1> QED BY <1>1, <1>2, <1>3, <1>4 DEF isFinalizable, BridgeCall, isTokenMessage

\* The calls of accounts.
LEMMA OperateShape ==
    ASSUME BInv, Operate
    PROVE  DonateStep \/ SendStep \/ TokenStep
  <1> PICK s \in Side, a \in User \cup App, v \in Value :
        \/ Donate(s, a, v) /\ UNCHANGED <<roots, paused, deposits, tokens>>
        \/ \E c \in RawCall : Send(s, a, c.target, c.value, c.data)
        \/ \E to \in Recipient : \/ BridgeETH(s, a, to, v)
                                \/ \E l, r \in Token : BridgeERC20(s, a, l, r, to, v)
    BY DEF Operate
  <1>0. v \in Nat /\ a \in Account /\ bridge(s) \in Account /\ bridge(other(s)) \in Account /\ a # bridge(s)
    <2>1. v \in Nat
      BY PortalsAssumption
    <2>2. other(s) \in Side /\ a \in Account /\ bridge(s) \in Account /\ a # bridge(s)
      BY Sides
    <2>3. bridge(other(s)) \in Account
      BY <2>2, Sides
    <2> QED BY <2>1, <2>2, <2>3
  <1>1. CASE Donate(s, a, v) /\ UNCHANGED <<roots, paused, deposits, tokens>>
    BY <1>0, <1>1 DEF Donate, DonateStep
  <1>2. ASSUME NEW c \in RawCall, Send(s, a, c.target, c.value, c.data) PROVE SendStep
    <2>1. c.target \in Account /\ c.value \in Nat /\ c.data \in Data
      BY BridgeAssumption
    <2>2. PICK m \in Message : Sends(s, a, m) /\ m.sender.addr = a
      <3>1. Initiate(s, a, a, c.target, c.value, c.data)
        BY <1>2 DEF Send
      <3>2. a = bridge(s) => BridgeCall(s, [target |-> c.target, data |-> c.data])
        BY <1>0
      <3>3. Sent(s, a, a, c.target, c.value, c.data)
        BY <1>0, <2>1, <3>1, <3>2, InitiateSends
      <3> QED BY <3>3 DEF Sent
    <2>3. ~isTokenMessage(s, m)
      BY <1>0, <2>2 DEF isTokenMessage
    <2>4. UNCHANGED <<finalized, deposits, tokens>>
      BY <1>2 DEF Send
    <2> QED BY <2>2, <2>3, <2>4 DEF SendStep
  <1>3. ASSUME NEW to \in Recipient, BridgeETH(s, a, to, v) PROVE SendStep
    <2> DEFINE data == finalizeETH(to, v)
    <2>1. data \in Data /\ data.fn = "eth"
      BY <1>0, BridgeAssumption DEF finalizeETH, Data
    <2>2. BridgeCall(s, [target |-> bridge(other(s)), data |-> data])
      BY <2>1 DEF BridgeCall
    <2>3. PICK m \in Message : Sends(s, a, m) /\ m.data = data
      <3>1. Initiate(s, bridge(s), a, bridge(other(s)), v, data)
        BY <1>3 DEF BridgeETH
      <3> HIDE DEF data
      <3>2. Sent(s, bridge(s), a, bridge(other(s)), v, data)
        BY <1>0, <2>1, <2>2, <3>1, InitiateSends
      <3> QED BY <3>2 DEF Sent
    <2>4. ~isTokenMessage(s, m)
      BY <2>1, <2>3 DEF isTokenMessage
    <2>5. UNCHANGED <<finalized, deposits, tokens>>
      BY <1>3 DEF BridgeETH
    <2> QED BY <2>3, <2>4, <2>5 DEF SendStep
  <1>4. ASSUME NEW to \in Recipient, NEW l \in Token, NEW r \in Token, BridgeERC20(s, a, l, r, to, v)
        PROVE  TokenStep
    <2> DEFINE data == finalizeERC20(r, l, to, v)
    <2>1. /\ data \in Data /\ data.fn = "erc20" /\ data.local = r /\ data.remote = l
          /\ data.amount = v /\ to \in Account
      BY <1>0, BridgeAssumption DEF finalizeERC20, Data
    <2>2. BridgeCall(s, [target |-> bridge(other(s)), data |-> data])
      BY <2>1 DEF BridgeCall
    <2>3. PICK m \in Message : Sends(s, a, m) /\ m.data = data /\ m.sender.addr = bridge(s)
      <3>1. Initiate(s, bridge(s), a, bridge(other(s)), 0, data)
        BY <1>4 DEF BridgeERC20
      <3>2. 0 \in Nat
        OBVIOUS
      <3> HIDE DEF data
      <3>3. Sent(s, bridge(s), a, bridge(other(s)), 0, data)
        BY <1>0, <2>1, <2>2, <3>1, <3>2, InitiateSends
      <3> QED BY <3>3 DEF Sent
    <2>4. isTokenMessage(s, m)
      BY <2>1, <2>3 DEF isTokenMessage
    <2>5. UNCHANGED finalized
      BY <1>4 DEF BridgeERC20
    <2> HIDE DEF data
    <2>6. m.data.local = r /\ m.data.remote = l /\ m.data.amount = v
      BY <2>1, <2>3
    <2> QED BY <1>0, <1>4, <2>1, <2>3, <2>4, <2>5, <2>6 DEF TokenStep
  <1> QED BY <1>1, <1>2, <1>3, <1>4

\* The relays.
LEMMA FinalizeShape ==
    ASSUME BInv, NEW s \in Side, NEW m \in initiated[other(s)], Finalize(s, m)
    PROVE  DeliverStep \/ ReleaseStep \/ BounceStep
  <1>0. isFinalizable(s, m)
    BY DEF Finalize, FinalizeCall, FinalizeBridgeETH, FinalizeBridgeERC20, FinalizeReceive
  <1>1. /\ m \in Message /\ m \notin finalized[s] /\ m.value <= ether[s][portal(s)]
        /\ m.target # portal(s) /\ m.target \in Account /\ m.data \in Data /\ m.data.to \in Account
        /\ m.sender.addr = bridge(other(s)) => m.target = bridge(s)
        /\ isTokenMessage(other(s), m) => m.data.local \in Token /\ m.data.remote \in Token
    BY <1>0, FinalizablePasses
  <1>2. ASSUME NEW payee \in Account, payee # portal(s), Deliver(s, m, payee)
        PROVE  Passes(s, m) /\ Pays(s, m, payee) /\ UNCHANGED <<nonce, initiated>>
    BY <1>1, <1>2 DEF Deliver, Passes, Pays
  <1>3. CASE FinalizeCall(s, m)
    <2>1. m.target # bridge(s) /\ Deliver(s, m, m.target) /\ UNCHANGED <<deposits, tokens>>
      BY <1>3 DEF FinalizeCall
    <2>2. ~isTokenMessage(other(s), m)
      BY <1>1, <2>1 DEF isTokenMessage
    <2>3. Passes(s, m) /\ Pays(s, m, m.target) /\ UNCHANGED <<nonce, initiated>>
      BY <1>1, <1>2, <2>1
    <2> QED BY <1>1, <2>1, <2>2, <2>3 DEF DeliverStep
  <1>4. CASE FinalizeBridgeETH(s, m)
    <2>1. /\ m.data.fn = "eth" /\ m.data.to # portal(s) /\ Deliver(s, m, m.data.to)
          /\ UNCHANGED <<deposits, tokens>>
      BY <1>4 DEF FinalizeBridgeETH
    <2>2. ~isTokenMessage(other(s), m)
      BY <2>1 DEF isTokenMessage
    <2>3. Passes(s, m) /\ Pays(s, m, m.data.to) /\ UNCHANGED <<nonce, initiated>>
      BY <1>1, <1>2, <2>1
    <2> QED BY <1>1, <2>1, <2>2, <2>3 DEF DeliverStep
  <1>5. CASE FinalizeBridgeERC20(s, m)
    <2>1. /\ m.data.fn = "erc20" /\ m.sender.addr = bridge(other(s)) /\ Deliver(s, m, bridge(s))
          /\ Release(s, m.data)
      BY <1>5, SMT DEF FinalizeBridgeERC20, isFromOtherBridge
    <2>2. isTokenMessage(other(s), m)
      BY <2>1 DEF isTokenMessage
    <2>3. Passes(s, m) /\ Pays(s, m, bridge(s)) /\ UNCHANGED <<nonce, initiated>>
      BY <1>2, <2>1, Sides
    <2> QED BY <1>1, <2>1, <2>2, <2>3 DEF ReleaseStep
  <1>6. CASE FinalizeReceive(s, m)
    <2> DEFINE data == finalizeETH(portal(s), m.value)
    <2>0. m.value \in Nat
      BY <1>1 DEF Message
    <2>1. data \in Data /\ data.fn = "eth"
      BY <2>0, Sides DEF finalizeETH, Data
    <2>2. BridgeCall(s, [target |-> bridge(other(s)), data |-> data])
      BY <2>1 DEF BridgeCall
    <2>3. PICK n \in Message : Sends(s, portal(s), n) /\ n.data = data /\ n.value = m.value
      <3>1. Initiate(s, bridge(s), portal(s), bridge(other(s)), m.value, data)
        BY <1>6 DEF FinalizeReceive
      <3>2. bridge(s) \in Account /\ portal(s) \in Account /\ bridge(other(s)) \in Account
        BY Sides
      <3> HIDE DEF data
      <3>3. Sent(s, bridge(s), portal(s), bridge(other(s)), m.value, data)
        BY <2>0, <2>1, <2>2, <3>1, <3>2, InitiateSends
      <3> QED BY <3>3 DEF Sent
    <2>4. ~isTokenMessage(s, n) /\ ~isTokenMessage(other(s), m)
      BY <1>6, <2>1, <2>3 DEF isTokenMessage, FinalizeReceive
    <2>5. Passes(s, m) /\ UNCHANGED <<deposits, tokens>>
      BY <1>1, <1>6 DEF Passes, FinalizeReceive
    <2> QED BY <1>1, <2>3, <2>4, <2>5 DEF BounceStep
  <1> QED BY <1>3, <1>4, <1>5, <1>6 DEF Finalize

\* Every step is of one of these kinds.
LEMMA StepShape ==
    ASSUME BInv, [Next]_vars
    PROVE  \/ QuietStep \/ DonateStep \/ SendStep \/ TokenStep
           \/ DeliverStep \/ ReleaseStep \/ BounceStep
  <1>1. CASE Operate
    BY <1>1, OperateShape
  <1>2. CASE Relay
    <2>1. ASSUME NEW s \in Side, NEW m \in initiated[other(s)], Finalize(s, m)
          PROVE  DeliverStep \/ ReleaseStep \/ BounceStep
      BY <2>1, FinalizeShape
    <2>2. ASSUME NEW s \in Side, Return(s), UNCHANGED <<roots, paused, deposits, tokens>>
          PROVE  QuietStep
      BY <2>2 DEF Return, QuietStep
    <2> QED BY <1>2, <2>1, <2>2 DEF Relay
  <1>3. CASE ReportL1 \/ AssertL2 \/ Own \/ UNCHANGED vars
    BY <1>3 DEF ReportL1, AssertL2, Own, vars, portals, QuietStep
  <1> QED BY <1>1, <1>2, <1>3 DEF Next

-----------------------------------------------------------------------------
(* Types *)

\* Sending keeps the types of the portals and the numbering of the messages.
LEMMA SendsTyped ==
    ASSUME BInv, NEW s \in Side, NEW payer, NEW m, Sends(s, payer, m)
    PROVE  /\ nonce' \in [Side -> 0..MaxNonce]
           /\ \A r \in Side : initiated'[r] \subseteq Message
           /\ ether' \in [Side -> [Account -> Nat]]
           /\ MsgInv'
  <1>1. /\ nonce \in [Side -> 0..MaxNonce] /\ ether \in [Side -> [Account -> Nat]]
        /\ \A r \in Side : initiated[r] \subseteq Message
        /\ DOMAIN initiated = Side
    BY DEF BInv, TypeOK, CallInv
  <1>2. /\ m \in Message /\ m.nonce = nonce[s] /\ payer \in Account /\ m.value <= ether[s][payer]
        /\ m.sender.addr = bridge(s) => BridgeCall(s, m)
        /\ nonce[s] < MaxNonce /\ nonce' = [nonce EXCEPT ![s] = @ + 1]
        /\ initiated' = [initiated EXCEPT ![s] = @ \cup {m}]
        /\ ether' = [ether EXCEPT ![s] = transfer(@, payer, portal(s), m.value)]
    BY DEF Sends
  <1>3. nonce' \in [Side -> 0..MaxNonce]
    BY <1>1, <1>2, PortalsAssumption, SMT
  <1>4. \A r \in Side : initiated'[r] = IF r = s THEN initiated[r] \cup {m} ELSE initiated[r]
    BY <1>1, <1>2
  <1>5. \A r \in Side : initiated'[r] \subseteq Message
    BY <1>1, <1>2, <1>4
  <1>6. ether' \in [Side -> [Account -> Nat]]
    <2>1. ether[s] \in [Account -> Nat] /\ m.value \in Nat /\ portal(s) \in Account
      BY <1>1, <1>2, Sides DEF Message
    <2>2. transfer(ether[s], payer, portal(s), m.value) \in [Account -> Nat]
      BY <1>2, <2>1, Transfer
    <2> QED BY <1>1, <1>2, <2>2
  <1>7. MsgInv'
    <2> SUFFICES ASSUME NEW r \in Side
                 PROVE  /\ IsFiniteSet(initiated'[r])
                        /\ \A k \in initiated'[r] :
                              k.nonce < nonce'[r] /\ (k.sender.addr = bridge(r) => BridgeCall(r, k))
      BY DEF MsgInv, BridgeCall
    <2>1. /\ IsFiniteSet(initiated[r])
          /\ \A k \in initiated[r] :
                k.nonce < nonce[r] /\ (k.sender.addr = bridge(r) => BridgeCall(r, k))
      BY DEF BInv, MsgInv
    <2>2. IsFiniteSet(initiated'[r])
      <3>1. IsFiniteSet(initiated[r] \cup {m})
        BY <2>1, FS_AddElement
      <3>2. initiated'[r] = initiated[r] \cup {m} \/ initiated'[r] = initiated[r]
        BY <1>4
      <3> QED BY <2>1, <3>1, <3>2
    <2>3. CASE r # s
      BY <1>1, <1>2, <1>4, <2>1, <2>2, <2>3
    <2>4. CASE r = s
      <3>1. nonce[r] \in Nat /\ nonce'[r] = nonce[r] + 1 /\ initiated'[r] = initiated[r] \cup {m}
        BY <1>1, <1>2, <1>4, <2>4, PortalsAssumption, SMT
      <3>2. \A k \in initiated[r] : k.nonce \in Nat
        BY <1>1 DEF Message
      <3> QED BY <1>2, <2>1, <2>2, <2>4, <3>1, <3>2, SMT
    <2> QED BY <2>3, <2>4
  <1> QED BY <1>3, <1>5, <1>6, <1>7

\* Relaying keeps them.
LEMMA PassesTyped ==
    ASSUME BInv, NEW s \in Side, NEW m, Passes(s, m)
    PROVE  \A r \in Side : finalized'[r] \subseteq Message
  BY Sides, SMT DEF BInv, TypeOK, CallInv, Passes

LEMMA PaysTyped ==
    ASSUME BInv, NEW s \in Side, NEW m \in Message, NEW payee, Pays(s, m, payee)
    PROVE  ether' \in [Side -> [Account -> Nat]]
  <1>1. ether \in [Side -> [Account -> Nat]]
    BY DEF BInv, TypeOK
  <1>2. ether[s] \in [Account -> Nat] /\ m.value \in Nat /\ portal(s) \in Account
    BY <1>1, Sides DEF Message
  <1>3. transfer(ether[s], portal(s), payee, m.value) \in [Account -> Nat]
    BY <1>2, Transfer DEF Pays
  <1> QED BY <1>1, <1>3 DEF Pays

LEMMA MsgInvKept ==
    ASSUME MsgInv, UNCHANGED <<nonce, initiated>>
    PROVE  MsgInv'
  BY DEF MsgInv, BridgeCall

\* bridgeERC20 keeps the types of tokens and deposits.
LEMMA EscrowTyped ==
    ASSUME BInv, NEW s \in Side, NEW a \in Account, NEW l \in Token, NEW r \in Token, NEW to,
           NEW v \in Nat, BridgeERC20(s, a, l, r, to, v)
    PROVE  tokens' \in [Token -> [Account -> Nat]] /\ deposits' \in [Token \X Token -> Nat]
  <1>1. tokens \in [Token -> [Account -> Nat]] /\ deposits \in [Token \X Token -> Nat]
    BY DEF BInv, TypeOK
  <1>2. tokens[l] \in [Account -> Nat] /\ v <= tokens[l][a] /\ bridge(s) \in Account
    BY <1>1, Sides DEF BridgeERC20
  <1>3. CASE isNonNativeTokenPair(l, r)
    <2>1. tokens' = [tokens EXCEPT ![l][a] = @ - v] /\ deposits' = deposits
      BY <1>3 DEF BridgeERC20
    <2>2. tokens[l][a] - v \in Nat
      BY <1>2, SMT
    <2> QED BY <1>1, <2>1, <2>2
  <1>4. CASE ~isNonNativeTokenPair(l, r)
    <2>1. /\ tokens' = [tokens EXCEPT ![l] = transfer(@, a, bridge(s), v)]
          /\ deposits' = [deposits EXCEPT ![<<l, r>>] = @ + v]
      BY <1>4 DEF BridgeERC20
    <2>2. transfer(tokens[l], a, bridge(s), v) \in [Account -> Nat]
      BY <1>2, Transfer
    <2> QED BY <1>1, <2>1, <2>2, SMT
  <1> QED BY <1>3, <1>4

\* finalizeBridgeERC20 keeps them.
LEMMA ReleaseTyped ==
    ASSUME BInv, NEW s \in Side, NEW d \in Data, d.local \in Token, d.remote \in Token, Release(s, d)
    PROVE  tokens' \in [Token -> [Account -> Nat]] /\ deposits' \in [Token \X Token -> Nat]
  <1>1. tokens \in [Token -> [Account -> Nat]] /\ deposits \in [Token \X Token -> Nat]
    BY DEF BInv, TypeOK
  <1>2. d.to \in Account /\ d.amount \in Nat
    BY DEF Data
  <1>3. tokens[d.local] \in [Account -> Nat] /\ bridge(s) \in Account
    BY <1>1, Sides
  <1>4. CASE isNonNativeTokenPair(d.local, d.remote)
    <2>1. tokens' = [tokens EXCEPT ![d.local][d.to] = @ + d.amount] /\ deposits' = deposits
      BY <1>4 DEF Release
    <2>2. tokens[d.local][d.to] + d.amount \in Nat
      BY <1>2, <1>3, SMT
    <2> QED BY <1>1, <1>2, <2>1, <2>2
  <1>5. CASE ~isNonNativeTokenPair(d.local, d.remote)
    <2>1. /\ d.amount <= deposits[<<d.local, d.remote>>] /\ d.amount <= tokens[d.local][bridge(s)]
          /\ deposits' = [deposits EXCEPT ![<<d.local, d.remote>>] = @ - d.amount]
          /\ tokens' = [tokens EXCEPT ![d.local] = transfer(@, bridge(s), d.to, d.amount)]
      BY <1>5 DEF Release
    <2>2. transfer(tokens[d.local], bridge(s), d.to, d.amount) \in [Account -> Nat]
      BY <1>2, <1>3, <2>1, Transfer
    <2>3. deposits[<<d.local, d.remote>>] - d.amount \in Nat
      BY <1>1, <1>2, <2>1, SMT
    <2> QED BY <1>1, <2>1, <2>2, <2>3
  <1> QED BY <1>4, <1>5

\* What the steps do to the slots of the portals and bridges that hold values.
LEMMA ValuesTyped ==
    ASSUME BInv, [Next]_vars
    PROVE  /\ nonce' \in [Side -> 0..MaxNonce]
           /\ \A s \in Side : initiated'[s] \subseteq Message /\ finalized'[s] \subseteq Message
           /\ ether' \in [Side -> [Account -> Nat]]
           /\ deposits' \in [Token \X Token -> Nat]
           /\ tokens' \in [Token -> [Account -> Nat]]
           /\ MsgInv'
  <1>0. /\ nonce \in [Side -> 0..MaxNonce]
        /\ \A s \in Side : initiated[s] \subseteq Message /\ finalized[s] \subseteq Message
        /\ ether \in [Side -> [Account -> Nat]]
        /\ deposits \in [Token \X Token -> Nat]
        /\ tokens \in [Token -> [Account -> Nat]]
        /\ MsgInv
    BY DEF BInv, TypeOK
  <1>1. CASE QuietStep
    BY <1>0, <1>1, MsgInvKept DEF QuietStep
  <1>2. CASE DonateStep
    <2> PICK s \in Side, a \in User \cup App, v \in Nat :
          /\ v <= ether[s][a]
          /\ ether' = [ether EXCEPT ![s] = transfer(@, a, portal(s), v)]
          /\ UNCHANGED <<nonce, initiated, finalized, deposits, tokens>>
      BY <1>2 DEF DonateStep
    <2>1. ether[s] \in [Account -> Nat] /\ a \in Account /\ portal(s) \in Account
      BY <1>0, Sides
    <2>2. transfer(ether[s], a, portal(s), v) \in [Account -> Nat]
      BY <2>1, Transfer
    <2>3. ether' \in [Side -> [Account -> Nat]]
      BY <1>0, <2>2
    <2> QED BY <1>0, <2>3, MsgInvKept
  <1>3. CASE SendStep
    BY <1>0, <1>3, SendsTyped DEF SendStep
  <1>4. CASE TokenStep
    <2> PICK s \in Side, a \in User \cup App, m \in Message, l \in Token, r \in Token, to \in Account, v \in Nat :
          Sends(s, a, m) /\ BridgeERC20(s, a, l, r, to, v) /\ UNCHANGED finalized
      BY <1>4, SMT DEF TokenStep
    <2>1. tokens' \in [Token -> [Account -> Nat]] /\ deposits' \in [Token \X Token -> Nat]
      BY Sides, EscrowTyped
    <2> QED BY <1>0, <2>1, SendsTyped
  <1>5. CASE DeliverStep
    <2> PICK s \in Side, m \in Message, payee \in Account :
          Passes(s, m) /\ Pays(s, m, payee) /\ UNCHANGED <<nonce, initiated, deposits, tokens>>
      BY <1>5 DEF DeliverStep
    <2> QED BY <1>0, PassesTyped, PaysTyped, MsgInvKept
  <1>6. CASE ReleaseStep
    <2> PICK s \in Side, m \in Message :
          /\ Passes(s, m) /\ Pays(s, m, bridge(s)) /\ isTokenMessage(other(s), m)
          /\ Release(s, m.data) /\ UNCHANGED <<nonce, initiated>>
      BY <1>6 DEF ReleaseStep
    <2>1. m.data \in Data /\ m.data.local \in Token /\ m.data.remote \in Token
      BY Sides DEF Message, BInv, MsgInv, BridgeCall, isTokenMessage, Passes
    <2>2. tokens' \in [Token -> [Account -> Nat]] /\ deposits' \in [Token \X Token -> Nat]
      BY <2>1, ReleaseTyped
    <2> QED BY <1>0, <2>2, PassesTyped, PaysTyped, MsgInvKept
  <1>7. CASE BounceStep
    <2> PICK s \in Side, m \in Message, n \in Message :
          Passes(s, m) /\ Sends(s, portal(s), n) /\ UNCHANGED <<deposits, tokens>>
      BY <1>7 DEF BounceStep
    <2> QED BY <1>0, PassesTyped, SendsTyped
  <1> QED BY <1>1, <1>2, <1>3, <1>4, <1>5, <1>6, <1>7, StepShape

\* What the steps do to the reports, and that a portal's sender changes on one
\* chain at a time.
LEMMA ReportsTyped ==
    ASSUME TypeOK, [Next]_vars
    PROVE  /\ oracleNumber' \in 0..MaxNonce
           /\ assertions' \subseteq [block : 1..MaxNonce, kind : HashKind]
           /\ xSender' = xSender \/ \E s \in Side : \E v : xSender' = [xSender EXCEPT ![s] = v]
  <1>0. /\ oracleNumber \in 0..MaxNonce
        /\ assertions \subseteq [block : 1..MaxNonce, kind : HashKind]
    BY DEF TypeOK
  <1>1. CASE ReportL1
    BY <1>0, <1>1, PortalsAssumption, SMT DEF ReportL1, SetL1OracleValues, portals
  <1>2. CASE AssertL2
    <2> PICK n \in 1..MaxNonce, kind \in HashKind : ConfirmAssertion(n, kind)
      BY <1>2 DEF AssertL2
    <2> QED BY <1>0, <1>2, SMT DEF AssertL2, ConfirmAssertion, portals
  <1>3. CASE Own \/ UNCHANGED vars
    BY <1>0, <1>3 DEF Own, vars, portals, roots
  <1>4. CASE Operate
    <2>1. UNCHANGED <<roots, xSender>>
      <3>1. ASSUME NEW s, NEW a, NEW v, Donate(s, a, v), UNCHANGED <<roots, paused, deposits, tokens>>
            PROVE  UNCHANGED <<roots, xSender>>
        BY <3>1 DEF Donate
      <3>2. ASSUME NEW s, NEW a, NEW c, Send(s, a, c.target, c.value, c.data)
            PROVE  UNCHANGED <<roots, xSender>>
        BY <3>2 DEF Send
      <3>3. ASSUME NEW s, NEW a, NEW to, NEW v, BridgeETH(s, a, to, v)
            PROVE  UNCHANGED <<roots, xSender>>
        BY <3>3 DEF BridgeETH
      <3>4. ASSUME NEW s, NEW a, NEW l, NEW r, NEW to, NEW v, BridgeERC20(s, a, l, r, to, v)
            PROVE  UNCHANGED <<roots, xSender>>
        BY <3>4 DEF BridgeERC20
      <3> QED BY <1>4, <3>1, <3>2, <3>3, <3>4 DEF Operate
    <2> QED BY <1>0, <2>1 DEF roots
  <1>5. CASE Relay
    <2> PICK s \in Side :
          \/ \E m \in initiated[other(s)] : Finalize(s, m)
          \/ Return(s) /\ UNCHANGED <<roots, paused, deposits, tokens>>
      BY <1>5 DEF Relay
    <2>1. UNCHANGED roots
      BY DEF Finalize, FinalizeCall, FinalizeBridgeETH, FinalizeBridgeERC20, FinalizeReceive
    <2>2. xSender' = xSender \/ \E v : xSender' = [xSender EXCEPT ![s] = v]
      <3>1. ASSUME NEW m, NEW payee, Deliver(s, m, payee)
            PROVE  \E v : xSender' = [xSender EXCEPT ![s] = v]
        BY <3>1 DEF Deliver
      <3> QED BY <3>1 DEF Finalize, FinalizeCall, FinalizeBridgeETH, FinalizeBridgeERC20, FinalizeReceive, Return
    <2> QED BY <1>0, <2>1, <2>2 DEF roots
  <1> QED BY <1>1, <1>2, <1>3, <1>4, <1>5 DEF Next

\* Every step keeps the types and the invariants of calls and messages.
LEMMA BInvStep ==
    ASSUME BInv, [Next]_vars
    PROVE  BInv'
  <1>1. CallInv'
    BY NextKeepsCalls DEF BInv
  <1>2. /\ nonce' \in [Side -> 0..MaxNonce]
        /\ \A s \in Side : initiated'[s] \subseteq Message /\ finalized'[s] \subseteq Message
        /\ ether' \in [Side -> [Account -> Nat]]
        /\ deposits' \in [Token \X Token -> Nat]
        /\ tokens' \in [Token -> [Account -> Nat]]
        /\ MsgInv'
    BY ValuesTyped
  <1>3. /\ oracleNumber' \in 0..MaxNonce
        /\ assertions' \subseteq [block : 1..MaxNonce, kind : HashKind]
        /\ xSender' = xSender \/ \E s \in Side : \E v : xSender' = [xSender EXCEPT ![s] = v]
    BY ReportsTyped DEF BInv
  <1>4. \A s \in Side : frame'[s] \in Seq(initiated'[other(s)])
    <2>1. ASSUME NEW S, NEW m \in S PROVE <<m>> \in Seq(S)
      BY SMT
    <2>2. ASSUME NEW S PROVE <<>> \in Seq(S)
      BY SMT
    <2> QED BY <1>1, <2>1, <2>2 DEF CallInv, Calls
  <1>5. \A s \in Side : xSender'[s] \in Sender \cup {DefaultSender}
    <2>1. \A s \in Side : \A m \in initiated'[other(s)] : m.sender \in Sender
      BY <1>2, Sides, SMT DEF Message
    <2> QED BY <1>1, <2>1 DEF CallInv, Calls
  <1>6. xSender' \in [Side -> Sender \cup {DefaultSender}]
    <2>1. xSender \in [Side -> Sender \cup {DefaultSender}]
      BY DEF BInv, TypeOK
    <2>2. xSender' = [s \in Side |-> xSender'[s]]
      BY <1>3, <2>1
    <2> QED BY <1>5, <2>2
  <1>7. TypeOK'
    BY <1>2, <1>3, <1>4, <1>6 DEF TypeOK
  <1> QED BY <1>1, <1>2, <1>7 DEF BInv

LEMMA InitBInv == Init => BInv
  <1> SUFFICES ASSUME Init PROVE BInv
    OBVIOUS
  <1>1. CallInv
    BY InitCalls
  <1>2. MsgInv
    BY FS_EmptySet DEF Init, PortalsInit, MsgInv
  <1>3. TypeOK
    <2>1. \A s \in Side : frame[s] \in Seq(initiated[other(s)])
      BY SMT DEF Init, PortalsInit
    <2> QED BY <2>1, PortalsAssumption, BridgeAssumption, SMT DEF Init, PortalsInit, TypeOK
  <1> QED BY <1>1, <1>2, <1>3 DEF BInv

LEMMA BInvHolds == Spec => []BInv
  <1>1. BInv /\ [Next]_vars => BInv'
    BY BInvStep
  <1> QED BY <1>1, InitBInv, PTL DEF Spec

\* For every set of accounts, tokens and calls: every storage slot keeps its type,
\* so no balance of Ether or tokens and no deposit record ever goes below zero and
\* no nonce passes its bound (Portal.sol, StandardBridge.sol).
THEOREM BridgeTypeCorrect == Spec => []TypeOK
  <1>1. BInv => TypeOK
    BY DEF BInv
  <1> QED BY <1>1, BInvHolds, PTL

-----------------------------------------------------------------------------
(* Messages on their way *)

\* Sending adds a message to those on their way to the other chain.
LEMMA Joins ==
    ASSUME BInv, NEW s \in Side, NEW payer, NEW m, Sends(s, payer, m),
           finalized'[other(s)] = finalized[other(s)]
    PROVE  m \notin inFlight(other(s)) /\ inFlight(other(s))' = inFlight(other(s)) \cup {m}
  <1>1. other(other(s)) = s /\ other(s) \in Side
    BY Sides
  <1>2. m \notin initiated[s] /\ initiated'[s] = initiated[s] \cup {m}
    BY DEF Sends, BInv, CallInv
  <1>3. finalized[other(s)] \subseteq initiated[s]
    BY <1>1 DEF BInv, CallInv
  <1> QED BY <1>1, <1>2, <1>3 DEF inFlight

\* Relaying takes one from those on their way.
LEMMA Leaves ==
    ASSUME BInv, NEW s \in Side, NEW m, Passes(s, m), initiated'[other(s)] = initiated[other(s)]
    PROVE  m \in inFlight(s) /\ m \notin inFlight(s)' /\ inFlight(s) = inFlight(s)' \cup {m}
  BY SMT DEF Passes, inFlight, BInv, CallInv

LEMMA FlightKept ==
    ASSUME BInv, NEW s \in Side, initiated'[other(s)] = initiated[other(s)], finalized'[s] = finalized[s]
    PROVE  inFlight(s)' = inFlight(s)
  BY DEF inFlight

LEMMA FlightFinite ==
    ASSUME BInv, NEW s \in Side
    PROVE  IsFiniteSet(inFlight(s)) /\ inFlight(s) \subseteq Message
  <1>1. other(s) \in Side
    BY Sides
  <1>2. IsFiniteSet(initiated[other(s)]) /\ initiated[other(s)] \subseteq Message
    BY <1>1 DEF BInv, MsgInv, TypeOK
  <1>3. inFlight(s) \subseteq initiated[other(s)]
    BY DEF inFlight
  <1> QED BY <1>2, <1>3, FS_Subset

\* The value and the amount that one more message adds.
LEMMA ValueJoins ==
    ASSUME NEW S, IsFiniteSet(S), S \subseteq Message, NEW m \in Message, m \notin S
    PROVE  /\ Total([k \in S |-> k.value]) \in Nat /\ m.value \in Nat
           /\ Total([k \in S \cup {m} |-> k.value]) = Total([k \in S |-> k.value]) + m.value
  <1> DEFINE f == [k \in S |-> k.value]
             g == [k \in S \cup {m} |-> k.value]
  <1>1. \A k \in Message : k.value \in Nat
    BY DEF Message
  <1>2. f \in [S -> Nat] /\ g \in [S \cup {m} -> Nat] /\ (\A k \in S : g[k] = f[k]) /\ g[m] = m.value
    BY <1>1
  <1> HIDE DEF f, g
  <1>3. Total(f) \in Nat /\ Total(g) = Total(f) + g[m]
    BY <1>2, OneJoins, SMT
  <1> QED BY <1>1, <1>2, <1>3 DEF f, g

LEMMA AmountJoins ==
    ASSUME NEW S, IsFiniteSet(S), S \subseteq Message, NEW m \in Message, m \notin S
    PROVE  /\ Total([k \in S |-> k.data.amount]) \in Nat /\ m.data.amount \in Nat
           /\ Total([k \in S \cup {m} |-> k.data.amount])
                = Total([k \in S |-> k.data.amount]) + m.data.amount
  <1> DEFINE f == [k \in S |-> k.data.amount]
             g == [k \in S \cup {m} |-> k.data.amount]
  <1>1. \A k \in Message : k.data.amount \in Nat
    BY DEF Message, Data
  <1>2. f \in [S -> Nat] /\ g \in [S \cup {m} -> Nat] /\ (\A k \in S : g[k] = f[k]) /\ g[m] = m.data.amount
    BY <1>1
  <1> HIDE DEF f, g
  <1>3. Total(f) \in Nat /\ Total(g) = Total(f) + g[m]
    BY <1>2, OneJoins, SMT
  <1> QED BY <1>1, <1>2, <1>3 DEF f, g

LEMMA EtherJoins ==
    ASSUME BInv, NEW s \in Side, NEW payer, NEW m, Sends(s, payer, m),
           finalized'[other(s)] = finalized[other(s)]
    PROVE  /\ etherInFlight(other(s)) \in Nat /\ m.value \in Nat
           /\ etherInFlight(other(s))' = etherInFlight(other(s)) + m.value
  <1>1. m \notin inFlight(other(s)) /\ inFlight(other(s))' = inFlight(other(s)) \cup {m}
    BY Joins
  <1>2. IsFiniteSet(inFlight(other(s))) /\ inFlight(other(s)) \subseteq Message /\ m \in Message
    BY Sides, FlightFinite DEF Sends
  <1>3. etherInFlight(other(s))' = Total([k \in inFlight(other(s)) \cup {m} |-> k.value])
    BY <1>1 DEF etherInFlight
  <1> QED BY <1>1, <1>2, <1>3, ValueJoins DEF etherInFlight

LEMMA EtherLeaves ==
    ASSUME BInv, NEW s \in Side, NEW m, Passes(s, m), initiated'[other(s)] = initiated[other(s)]
    PROVE  /\ etherInFlight(s)' \in Nat /\ m.value \in Nat
           /\ etherInFlight(s) = etherInFlight(s)' + m.value
  <1>1. PICK S : S = inFlight(s)'
    OBVIOUS
  <1>2. m \in inFlight(s) /\ m \notin S /\ inFlight(s) = S \cup {m}
    BY <1>1, Leaves
  <1>3. IsFiniteSet(inFlight(s)) /\ inFlight(s) \subseteq Message
    BY FlightFinite
  <1>4. IsFiniteSet(S) /\ S \subseteq Message /\ m \in Message
    BY <1>2, <1>3, FS_Subset
  <1>5. /\ etherInFlight(s)' = Total([k \in S |-> k.value])
        /\ etherInFlight(s) = Total([k \in S \cup {m} |-> k.value])
    BY <1>1, <1>2 DEF etherInFlight
  <1> QED BY <1>2, <1>4, <1>5, ValueJoins

LEMMA EtherStays ==
    ASSUME BInv, NEW s \in Side, initiated'[other(s)] = initiated[other(s)], finalized'[s] = finalized[s]
    PROVE  etherInFlight(s) \in Nat /\ etherInFlight(s)' = etherInFlight(s)
  <1>1. etherInFlight(s)' = etherInFlight(s)
    BY FlightKept DEF etherInFlight
  <1> DEFINE S == inFlight(s)
             f == [k \in S |-> k.value]
  <1>2. IsFiniteSet(S) /\ S \subseteq Message
    BY FlightFinite
  <1> HIDE DEF S
  <1>3. f \in [S -> Nat]
    BY <1>2 DEF Message
  <1> HIDE DEF f
  <1>4. Total(f) \in Nat
    BY <1>2, <1>3, UnitsFinite
  <1> QED BY <1>1, <1>4 DEF etherInFlight, f, S

-----------------------------------------------------------------------------
(* Ether *)

\* What moving Ether does to the two holdings that the books compare.
EtherMoved(s, from, to, v) ==
    LET O == outside(ether["L2"])
        P == ether["L1"]["L1Portal"]
    IN  /\ O \in Nat /\ P \in Nat /\ O' \in Nat /\ P' \in Nat
        /\ from = to => O' = O /\ P' = P
        /\ s = "L1" => /\ O' = O
                       /\ (to = "L1Portal" /\ from # to => P' = P + v)
                       /\ (from = "L1Portal" /\ from # to => P = P' + v)
        /\ s = "L2" => /\ P' = P
                       /\ (to = "L2Portal" /\ from # to => O = O' + v)
                       /\ (from = "L2Portal" /\ from # to => O' = O + v)

\* A transfer between two accounts of a side moves the holdings so.
LEMMA EtherMoves ==
    ASSUME BInv, NEW s \in Side, NEW from \in Account, NEW to \in Account, NEW v \in Nat,
           v <= ether[s][from], ether' = [ether EXCEPT ![s] = transfer(@, from, to, v)]
    PROVE  EtherMoved(s, from, to, v)
  <1> DEFINE O == outside(ether["L2"])
             P == ether["L1"]["L1Portal"]
  <1>0. /\ ether \in [Side -> [Account -> Nat]] /\ "L1" \in Side /\ "L2" \in Side
        /\ "L1Portal" \in Account
    BY DEF BInv, TypeOK, Side, Account
  <1>1. ether[s] \in [Account -> Nat] /\ ether["L1"] \in [Account -> Nat] /\ ether["L2"] \in [Account -> Nat]
    BY <1>0
  <1>2. P \in Nat /\ O \in Nat
    BY <1>0, <1>1, PortalsAssumption, OutsideMoved, SMT
  <1>3. CASE s = "L1"
    <2>1. ether'["L2"] = ether["L2"] /\ ether'["L1"] = transfer(ether["L1"], from, to, v)
      BY <1>0, <1>3
    <2>2. O' = O
      BY <2>1
    <2>3. /\ from = to => P' = P
          /\ (to = "L1Portal" /\ from # to => P' = P + v)
          /\ (from = "L1Portal" /\ from # to => P' = P - v)
          /\ P' \in Nat
      BY <1>0, <1>1, <1>3, <2>1, Transfer, SMT
    <2> HIDE DEF O, P
    <2>4. from = "L1Portal" /\ from # to => P = P' + v
      BY <1>2, <2>3, SMT
    <2> QED BY <1>2, <1>3, <2>2, <2>3, <2>4 DEF O, P, EtherMoved
  <1>4. CASE s = "L2"
    <2>1. ether'["L1"] = ether["L1"] /\ ether'["L2"] = transfer(ether["L2"], from, to, v)
      BY <1>0, <1>4
    <2>2. P' = P
      BY <2>1
    <2>3. /\ O' \in Nat
          /\ from = to => O' = O
          /\ (to = "L2Portal" /\ from # to => O' + v = O)
          /\ (from = "L2Portal" /\ from # to => O' = O + v)
      BY <1>1, <1>4, <2>1, OutsideMoved, SMT
    <2> HIDE DEF O, P
    <2> QED BY <1>2, <1>4, <2>2, <2>3 DEF O, P, EtherMoved
  <1> QED BY <1>3, <1>4 DEF Side

LEMMA PortalTakes ==
    ASSUME BInv, NEW s \in Side, NEW a \in Account, NEW v \in Nat, a # portal(s),
           v <= ether[s][a], ether' = [ether EXCEPT ![s] = transfer(@, a, portal(s), v)]
    PROVE  LET O == outside(ether["L2"])
               P == ether["L1"]["L1Portal"]
           IN  /\ O' \in Nat /\ P' \in Nat
               /\ s = "L1" => O' = O /\ P' = P + v
               /\ s = "L2" => P' = P /\ O = O' + v
  <1>1. portal(s) \in Account
    BY Sides
  <1>2. EtherMoved(s, a, portal(s), v)
    BY <1>1, EtherMoves
  <1>3. CASE s = "L1"
    <2>1. portal(s) = "L1Portal" /\ s # "L2"
      BY <1>3 DEF portal
    <2> QED BY <1>2, <1>3, <2>1 DEF EtherMoved
  <1>4. CASE s = "L2"
    <2>1. portal(s) = "L2Portal" /\ s # "L1"
      BY <1>4 DEF portal
    <2> QED BY <1>2, <1>4, <2>1 DEF EtherMoved
  <1> QED BY <1>3, <1>4 DEF Side

LEMMA PortalGives ==
    ASSUME BInv, NEW s \in Side, NEW a \in Account, NEW v \in Nat, a # portal(s),
           v <= ether[s][portal(s)], ether' = [ether EXCEPT ![s] = transfer(@, portal(s), a, v)]
    PROVE  LET O == outside(ether["L2"])
               P == ether["L1"]["L1Portal"]
           IN  /\ O' \in Nat /\ P' \in Nat
               /\ s = "L1" => O' = O /\ P = P' + v
               /\ s = "L2" => P' = P /\ O' = O + v
  <1>1. portal(s) \in Account
    BY Sides
  <1>2. EtherMoved(s, portal(s), a, v)
    BY <1>1, EtherMoves
  <1>3. CASE s = "L1"
    <2>1. portal(s) = "L1Portal" /\ s # "L2"
      BY <1>3 DEF portal
    <2> QED BY <1>2, <1>3, <2>1 DEF EtherMoved
  <1>4. CASE s = "L2"
    <2>1. portal(s) = "L2Portal" /\ s # "L1"
      BY <1>4 DEF portal
    <2> QED BY <1>2, <1>4, <2>1 DEF EtherMoved
  <1> QED BY <1>3, <1>4 DEF Side

LEMMA LessSpent ==
    ASSUME NEW x \in Nat, NEW v \in Nat, NEW f \in Nat, NEW g \in Nat, NEW p \in Nat, NEW q \in Nat,
           (x + v) + f + g <= p + q
    PROVE  x + f + g <= p + q
  BY SMT

\* Every step keeps the books of Ether.
LEMMA EtherBackedStep ==
    ASSUME BInv, EtherBacked, [Next]_vars
    PROVE  EtherBacked'
  <1> DEFINE O == outside(ether["L2"])
             P == ether["L1"]["L1Portal"]
             F1 == etherInFlight("L1")
             F2 == etherInFlight("L2")
             G == outside(GenesisEther["L2"])
  <1>a. "L1" \in Side /\ "L2" \in Side /\ other("L1") = "L2" /\ other("L2") = "L1"
        /\ portal("L1") = "L1Portal" /\ portal("L2") = "L2Portal"
    BY DEF Side, other, portal
  <1>b. G \in Nat
    <2>1. GenesisEther["L2"] \in [Account -> Nat] /\ "L1Portal" \in Account
      BY <1>a, PortalsAssumption DEF Account
    <2> QED BY <2>1, OutsideMoved, SMT
  <1>c. O + F1 + F2 <= P + G
    BY DEF EtherBacked
  <1>d. F1 \in Nat /\ F2 \in Nat
    <2>1. ASSUME NEW s \in Side PROVE etherInFlight(s) \in Nat
      <3> DEFINE S == inFlight(s)
                 f == [k \in S |-> k.value]
      <3>1. IsFiniteSet(S) /\ S \subseteq Message
        BY FlightFinite
      <3> HIDE DEF S
      <3>2. f \in [S -> Nat]
        BY <3>1 DEF Message
      <3> HIDE DEF f
      <3>3. Total(f) \in Nat
        BY <3>1, <3>2, UnitsFinite
      <3> QED BY <3>3 DEF etherInFlight, f, S
    <2> QED BY <1>a, <2>1
  <1>e. O \in Nat /\ P \in Nat
    <2>1. ether["L2"] \in [Account -> Nat] /\ ether["L1"] \in [Account -> Nat] /\ "L1Portal" \in Account
      BY <1>a DEF Account, BInv, TypeOK
    <2> QED BY <2>1, OutsideMoved, SMT
  <1>0. SUFFICES O' + F1' + F2' <= P' + G
    BY DEF EtherBacked
  <1>1. CASE QuietStep
    <2>1. UNCHANGED <<O, P, F1, F2>>
      BY <1>1 DEF QuietStep, etherInFlight, inFlight
    <2> HIDE DEF O, P, F1, F2, G
    <2> QED BY <1>c, <2>1
  <1>2. CASE DonateStep
    <2> PICK s \in Side, a \in User \cup App, v \in Nat :
          /\ v <= ether[s][a]
          /\ ether' = [ether EXCEPT ![s] = transfer(@, a, portal(s), v)]
          /\ UNCHANGED <<nonce, initiated, finalized, deposits, tokens>>
      BY <1>2 DEF DonateStep
    <2>1. UNCHANGED <<F1, F2>>
      BY DEF etherInFlight, inFlight
    <2>2. a \in Account /\ a # portal(s) /\ portal(s) \in Account
      BY Sides
    <2>3. /\ O' \in Nat /\ P' \in Nat
          /\ s = "L1" => O' = O /\ P' = P + v
          /\ s = "L2" => P' = P /\ O = O' + v
      BY <2>2, PortalTakes
    <2> HIDE DEF O, P, F1, F2, G
    <2>4. CASE s = "L1"
      BY <1>b, <1>c, <1>d, <1>e, <2>1, <2>3, <2>4, SMT
    <2>5. CASE s = "L2"
      <3>1. O' \in Nat /\ P' = P /\ O = O' + v /\ F1' = F1 /\ F2' = F2
        BY <2>1, <2>3, <2>5
      <3>2. (O' + v) + F1 + F2 <= P + G
        BY <1>c, <3>1
      <3>3. O' + F1 + F2 <= P + G
        BY <1>b, <1>d, <1>e, <3>1, <3>2, LessSpent
      <3> QED BY <3>1, <3>3
    <2> QED BY <2>4, <2>5 DEF Side
  <1>3. ASSUME NEW s \in Side, NEW a \in User \cup App, NEW m, Sends(s, a, m), UNCHANGED finalized
        PROVE  O' + F1' + F2' <= P' + G
    <2>1. a \in Account /\ a # portal(s) /\ portal(s) \in Account
      BY Sides
    <2>2. etherInFlight(other(s))' = etherInFlight(other(s)) + m.value /\ m.value \in Nat
      BY <1>3, EtherJoins
    <2>3. etherInFlight(s)' = etherInFlight(s)
      <3>1. initiated'[other(s)] = initiated[other(s)]
        BY <1>3, Sides DEF Sends, BInv, CallInv
      <3> QED BY <1>3, <3>1, EtherStays
    <2>4. /\ O' \in Nat /\ P' \in Nat
          /\ s = "L1" => O' = O /\ P' = P + m.value
          /\ s = "L2" => P' = P /\ O = O' + m.value
      <3>1. /\ m.value <= ether[s][a]
            /\ ether' = [ether EXCEPT ![s] = transfer(@, a, portal(s), m.value)]
        BY <1>3 DEF Sends
      <3> QED BY <2>1, <2>2, <3>1, PortalTakes
    <2>5. /\ s = "L1" => F2' = F2 + m.value /\ F1' = F1
          /\ s = "L2" => F1' = F1 + m.value /\ F2' = F2
      BY <1>a, <2>2, <2>3
    <2> HIDE DEF O, P, F1, F2, G
    <2> QED BY <1>b, <1>c, <1>d, <1>e, <2>2, <2>4, <2>5, SMT DEF Side
  <1>4. ASSUME NEW s \in Side, NEW m, NEW payee, Passes(s, m), Pays(s, m, payee),
               UNCHANGED initiated
        PROVE  O' + F1' + F2' <= P' + G
    <2>1. etherInFlight(s) = etherInFlight(s)' + m.value /\ m.value \in Nat /\ etherInFlight(s)' \in Nat
      BY <1>4, EtherLeaves
    <2>2. etherInFlight(other(s))' = etherInFlight(other(s))
      <3>1. finalized'[other(s)] = finalized[other(s)]
        BY <1>4, Sides DEF Passes, BInv, CallInv
      <3> QED BY <1>4, <3>1, Sides, EtherStays
    <2>3. /\ O' \in Nat /\ P' \in Nat
          /\ s = "L1" => O' = O /\ P = P' + m.value
          /\ s = "L2" => P' = P /\ O' = O + m.value
      <3>1. /\ m.value <= ether[s][portal(s)] /\ payee \in Account /\ payee # portal(s)
            /\ ether' = [ether EXCEPT ![s] = transfer(@, portal(s), payee, m.value)]
            /\ portal(s) \in Account
        BY <1>4, Sides DEF Pays
      <3> QED BY <2>1, <3>1, PortalGives
    <2>4. /\ s = "L1" => F1 = F1' + m.value /\ F1' \in Nat /\ F2' = F2
          /\ s = "L2" => F2 = F2' + m.value /\ F2' \in Nat /\ F1' = F1
      BY <1>a, <2>1, <2>2
    <2> HIDE DEF O, P, F1, F2, G
    <2> QED BY <1>b, <1>c, <1>d, <1>e, <2>1, <2>3, <2>4, SMT DEF Side
  <1>5. CASE BounceStep
    <2> PICK s \in Side, m \in Message, n \in Message :
          Passes(s, m) /\ Sends(s, portal(s), n) /\ n.value = m.value
      BY <1>5 DEF BounceStep
    <2>1. etherInFlight(s) = etherInFlight(s)' + m.value /\ m.value \in Nat /\ etherInFlight(s)' \in Nat
      <3>1. initiated'[other(s)] = initiated[other(s)]
        BY Sides DEF Sends, BInv, CallInv
      <3> QED BY <3>1, EtherLeaves
    <2>2. etherInFlight(other(s))' = etherInFlight(other(s)) + m.value
      <3>1. finalized'[other(s)] = finalized[other(s)]
        BY Sides DEF Passes, BInv, CallInv
      <3> QED BY <3>1, EtherJoins
    <2>3. O' = O /\ P' = P
      <3>1. /\ m.value <= ether[s][portal(s)] /\ portal(s) \in Account
            /\ ether' = [ether EXCEPT ![s] = transfer(@, portal(s), portal(s), m.value)]
        BY Sides DEF Sends
      <3>2. EtherMoved(s, portal(s), portal(s), m.value)
        BY <2>1, <3>1, EtherMoves
      <3> QED BY <3>2 DEF EtherMoved
    <2>4. /\ s = "L1" => F1 = F1' + m.value /\ F1' \in Nat /\ F2' = F2 + m.value
          /\ s = "L2" => F2 = F2' + m.value /\ F2' \in Nat /\ F1' = F1 + m.value
      BY <1>a, <2>1, <2>2
    <2> HIDE DEF O, P, F1, F2, G
    <2> QED BY <1>b, <1>c, <1>d, <1>e, <2>1, <2>3, <2>4, SMT DEF Side
  <1>6. CASE SendStep \/ TokenStep
    BY <1>3, <1>6, SMT DEF SendStep, TokenStep
  <1>7. CASE DeliverStep \/ ReleaseStep
    BY <1>4, <1>7 DEF DeliverStep, ReleaseStep
  <1> QED BY <1>1, <1>2, <1>5, <1>6, <1>7, StepShape

\* For every set of accounts, amounts and calls: the Ether of L2 and the Ether on
\* its way never exceed what L1Portal holds and what L2 was given at genesis, so
\* every withdrawal can be paid (initiateDeposit, initiateWithdrawal and the two
\* finalize functions of the portals, and the bridges on top of them).
THEOREM EtherIsBacked == Spec => []EtherBacked
  <1>1. Init => EtherBacked
    <2> SUFFICES ASSUME Init PROVE EtherBacked
      OBVIOUS
    <2>1. \A s \in Side : etherInFlight(s) = 0
      <3>1. ASSUME NEW s \in Side PROVE inFlight(s) = {}
        BY Sides DEF Init, PortalsInit, inFlight
      <3> QED BY <3>1, NoneTotal DEF etherInFlight
    <2>2. ether["L2"] = GenesisEther["L2"] /\ ether["L1"]["L1Portal"] \in Nat
      BY PortalsAssumption DEF Init, PortalsInit, Side, Account
    <2>3. outside(GenesisEther["L2"]) \in Nat
      <3>1. GenesisEther["L2"] \in [Account -> Nat] /\ "L1Portal" \in Account
        BY PortalsAssumption DEF Account, Side
      <3> QED BY <3>1, OutsideMoved, SMT
    <2>4. "L1" \in Side /\ "L2" \in Side
      BY DEF Side
    <2> QED BY <2>1, <2>2, <2>3, <2>4, SMT DEF EtherBacked
  <1>2. BInv /\ EtherBacked /\ [Next]_vars => EtherBacked'
    BY EtherBackedStep
  <1> QED BY <1>1, <1>2, BInvHolds, PTL DEF Spec

-----------------------------------------------------------------------------
(* Tokens *)

\* The messages on their way to chain s that carry a transfer of this pair.
carrying(s, local, remote) == {k \in inFlight(s) : isTransfer(s, k, local, remote)}

\* What a new message adds to the transfers of a pair.
LEMMA TransferJoins ==
    ASSUME BInv, NEW s \in Side, NEW payer, NEW m, Sends(s, payer, m),
           finalized'[other(s)] = finalized[other(s)], NEW l, NEW r
    PROVE  /\ tokensInFlight(other(s), l, r) \in Nat /\ m.data.amount \in Nat
           /\ tokensInFlight(other(s), l, r)'
                = IF isTransfer(other(s), m, l, r) THEN tokensInFlight(other(s), l, r) + m.data.amount
                                                   ELSE tokensInFlight(other(s), l, r)
  <1>1. m \notin inFlight(other(s)) /\ inFlight(other(s))' = inFlight(other(s)) \cup {m}
    BY Joins
  <1>2. IsFiniteSet(inFlight(other(s))) /\ inFlight(other(s)) \subseteq Message /\ m \in Message
    BY Sides, FlightFinite DEF Sends
  <1> DEFINE S == carrying(other(s), l, r)
  <1>3. S \subseteq inFlight(other(s))
    BY DEF carrying
  <1>4. IsFiniteSet(S) /\ S \subseteq Message /\ m \notin S
    BY <1>1, <1>2, <1>3, FS_Subset
  <1>5. carrying(other(s), l, r)' = IF isTransfer(other(s), m, l, r) THEN S \cup {m} ELSE S
    BY <1>1 DEF carrying, isTransfer
  <1>6. /\ tokensInFlight(other(s), l, r) = Total([k \in S |-> k.data.amount])
        /\ tokensInFlight(other(s), l, r)' = Total([k \in carrying(other(s), l, r)' |-> k.data.amount])
    BY DEF tokensInFlight, carrying
  <1> HIDE DEF S
  <1>7. /\ Total([k \in S |-> k.data.amount]) \in Nat /\ m.data.amount \in Nat
        /\ Total([k \in S \cup {m} |-> k.data.amount]) = Total([k \in S |-> k.data.amount]) + m.data.amount
    BY <1>2, <1>4, AmountJoins
  <1>8. CASE isTransfer(other(s), m, l, r)
    BY <1>5, <1>6, <1>7, <1>8
  <1>9. CASE ~isTransfer(other(s), m, l, r)
    BY <1>5, <1>6, <1>7, <1>9
  <1> QED BY <1>8, <1>9

\* What a relayed one takes from them.
LEMMA TransferLeaves ==
    ASSUME BInv, NEW s \in Side, NEW m, Passes(s, m), initiated'[other(s)] = initiated[other(s)],
           NEW l, NEW r
    PROVE  /\ tokensInFlight(s, l, r)' \in Nat /\ m.data.amount \in Nat
           /\ tokensInFlight(s, l, r)
                = IF isTransfer(s, m, l, r) THEN tokensInFlight(s, l, r)' + m.data.amount
                                            ELSE tokensInFlight(s, l, r)'
  <1>1. PICK S : S = carrying(s, l, r)'
    OBVIOUS
  <1>2. /\ m \in inFlight(s) /\ m \notin inFlight(s)' /\ inFlight(s) = inFlight(s)' \cup {m}
    BY Leaves
  <1>3. IsFiniteSet(inFlight(s)) /\ inFlight(s) \subseteq Message
    BY FlightFinite
  <1>4. S \subseteq inFlight(s)' /\ S \subseteq inFlight(s)
    BY <1>1, <1>2 DEF carrying
  <1>5. IsFiniteSet(S) /\ S \subseteq Message /\ m \notin S /\ m \in Message
    BY <1>2, <1>3, <1>4, FS_Subset
  <1>6. carrying(s, l, r) = IF isTransfer(s, m, l, r) THEN S \cup {m} ELSE S
    BY <1>1, <1>2 DEF carrying, isTransfer
  <1>7. /\ tokensInFlight(s, l, r)' = Total([k \in S |-> k.data.amount])
        /\ tokensInFlight(s, l, r) = Total([k \in carrying(s, l, r) |-> k.data.amount])
    BY <1>1 DEF tokensInFlight, carrying
  <1>8. /\ Total([k \in S |-> k.data.amount]) \in Nat /\ m.data.amount \in Nat
        /\ Total([k \in S \cup {m} |-> k.data.amount]) = Total([k \in S |-> k.data.amount]) + m.data.amount
    BY <1>5, AmountJoins
  <1>9. CASE isTransfer(s, m, l, r)
    BY <1>6, <1>7, <1>8, <1>9
  <1>10. CASE ~isTransfer(s, m, l, r)
    BY <1>6, <1>7, <1>8, <1>10
  <1> QED BY <1>9, <1>10

LEMMA TransfersStay ==
    ASSUME BInv, NEW s \in Side, initiated'[other(s)] = initiated[other(s)], finalized'[s] = finalized[s],
           NEW l, NEW r
    PROVE  tokensInFlight(s, l, r) \in Nat /\ tokensInFlight(s, l, r)' = tokensInFlight(s, l, r)
  <1>1. tokensInFlight(s, l, r)' = tokensInFlight(s, l, r)
    BY FlightKept DEF tokensInFlight, isTransfer
  <1> DEFINE S == carrying(s, l, r)
             f == [k \in S |-> k.data.amount]
  <1>2. S \subseteq inFlight(s) /\ IsFiniteSet(inFlight(s)) /\ inFlight(s) \subseteq Message
    BY FlightFinite DEF carrying
  <1>3. IsFiniteSet(S) /\ S \subseteq Message
    BY <1>2, FS_Subset
  <1>4. tokensInFlight(s, l, r) = Total(f)
    BY DEF tokensInFlight, carrying
  <1> HIDE DEF S
  <1>5. f \in [S -> Nat]
    BY <1>3 DEF Message, Data
  <1> HIDE DEF f
  <1>6. Total(f) \in Nat
    BY <1>3, <1>5, UnitsFinite
  <1> QED BY <1>1, <1>4, <1>6

\* What a change of one account's balance does to the supply.
LEMMA SupplyMoves ==
    ASSUME NEW b \in [Account -> Nat], NEW c \in [Account -> Nat], NEW a \in Account, NEW v \in Nat,
           \A x \in Account \ {a} : c[x] = b[x]
    PROVE  /\ Total(b) \in Nat /\ Total(c) \in Nat
           /\ b[a] = c[a] + v => Total(b) = Total(c) + v
           /\ c[a] = b[a] + v => Total(c) = Total(b) + v
  <1>1. Total(b) \in Nat /\ Total(c) \in Nat /\ Total(c) + b[a] = Total(b) + c[a]
    BY AccountsFinite, OneChanges, SMT DEF Shifted
  <1>2. b[a] \in Nat /\ c[a] \in Nat
    OBVIOUS
  <1>3. ASSUME c[a] = b[a] + v PROVE Total(c) = Total(b) + v
    BY <1>1, <1>2, <1>3, Cancelled, SMT
  <1>4. ASSUME b[a] = c[a] + v PROVE Total(b) = Total(c) + v
    BY <1>1, <1>2, <1>4, Cancelled, SMT
  <1> QED BY <1>1, <1>3, <1>4

\* bridgeERC20 burns a token of the other chain and records the deposit of one's own.
TokensEscrowed(s, l, r, v) ==
    /\ chainOf[l] = s
    /\ \A t \in Token : Total(tokens[t]) \in Nat /\ Total(tokens'[t]) \in Nat
    /\ \A t \in Token : t # l \/ ~isNonNativeTokenPair(l, r) => Total(tokens'[t]) = Total(tokens[t])
    /\ isNonNativeTokenPair(l, r) => Total(tokens[l]) = Total(tokens'[l]) + v
    /\ \A x, y \in Token :
          deposits'[<<x, y>>] = IF x = l /\ y = r /\ ~isNonNativeTokenPair(l, r)
                                THEN deposits[<<x, y>>] + v ELSE deposits[<<x, y>>]

\* That is what a call of it that succeeds does to the books.
LEMMA EscrowEffect ==
    ASSUME BInv, NEW s \in Side, NEW a \in Account, NEW l \in Token, NEW r \in Token, NEW to,
           NEW v \in Nat, BridgeERC20(s, a, l, r, to, v)
    PROVE  TokensEscrowed(s, l, r, v)
  <1>1. tokens \in [Token -> [Account -> Nat]] /\ deposits \in [Token \X Token -> Nat]
    BY DEF BInv, TypeOK
  <1>2. chainOf[l] = s /\ v <= tokens[l][a] /\ bridge(s) \in Account /\ tokens[l] \in [Account -> Nat]
    BY <1>1, Sides DEF BridgeERC20
  <1>3. tokens' \in [Token -> [Account -> Nat]]
    BY EscrowTyped
  <1>4. \A t \in Token : Total(tokens[t]) \in Nat /\ Total(tokens'[t]) \in Nat
    <2> SUFFICES ASSUME NEW t \in Token PROVE Total(tokens[t]) \in Nat /\ Total(tokens'[t]) \in Nat
      OBVIOUS
    <2>1. tokens[t] \in [Account -> Nat] /\ tokens'[t] \in [Account -> Nat]
      BY <1>1, <1>3
    <2> QED BY <2>1, AccountsFinite, UnitsFinite
  <1>5. CASE isNonNativeTokenPair(l, r)
    <2>1. tokens' = [tokens EXCEPT ![l][a] = @ - v] /\ deposits' = deposits
      BY <1>5 DEF BridgeERC20
    <2>2. \A t \in Token : t # l => tokens'[t] = tokens[t]
      BY <1>1, <2>1
    <2>3. /\ tokens'[l] \in [Account -> Nat] /\ tokens'[l][a] = tokens[l][a] - v
          /\ \A x \in Account \ {a} : tokens'[l][x] = tokens[l][x]
      BY <1>1, <1>2, <1>3, <2>1
    <2>4. tokens[l][a] = tokens'[l][a] + v
      <3>1. tokens[l][a] \in Nat
        BY <1>2
      <3> QED BY <2>3, <3>1, SMT
    <2>5. Total(tokens[l]) = Total(tokens'[l]) + v
      BY <1>2, <2>3, <2>4, SupplyMoves, SMT
    <2> QED BY <1>2, <1>4, <1>5, <2>1, <2>2, <2>5 DEF TokensEscrowed
  <1>6. CASE ~isNonNativeTokenPair(l, r)
    <2>1. /\ tokens' = [tokens EXCEPT ![l] = transfer(@, a, bridge(s), v)]
          /\ deposits' = [deposits EXCEPT ![<<l, r>>] = @ + v]
      BY <1>6 DEF BridgeERC20
    <2>2. tokens'[l] = transfer(tokens[l], a, bridge(s), v)
      BY <1>1, <2>1
    <2>3. Total(tokens'[l]) = Total(tokens[l])
      BY <1>2, <2>2, SupplyKept, SMT
    <2>4. \A t \in Token : t # l => tokens'[t] = tokens[t]
      BY <1>1, <2>1
    <2>5. \A x, y \in Token :
             deposits'[<<x, y>>] = IF x = l /\ y = r THEN deposits[<<x, y>>] + v ELSE deposits[<<x, y>>]
      BY <1>1, <2>1
    <2>6. \A t \in Token : Total(tokens'[t]) = Total(tokens[t])
      BY <2>3, <2>4
    <2> QED BY <1>2, <1>4, <1>6, <2>5, <2>6 DEF TokensEscrowed
  <1> QED BY <1>5, <1>6

\* finalizeBridgeERC20 mints a token of the other chain and takes the deposit of one's
\* own from the record.
TokensReleased(s, l, r, v) ==
    /\ chainOf[l] = s /\ v \in Nat
    /\ \A t \in Token : Total(tokens[t]) \in Nat /\ Total(tokens'[t]) \in Nat
    /\ \A t \in Token : t # l \/ ~isNonNativeTokenPair(l, r) => Total(tokens'[t]) = Total(tokens[t])
    /\ isNonNativeTokenPair(l, r) => Total(tokens'[l]) = Total(tokens[l]) + v
    /\ \A x, y \in Token :
          deposits[<<x, y>>] = IF x = l /\ y = r /\ ~isNonNativeTokenPair(l, r)
                               THEN deposits'[<<x, y>>] + v ELSE deposits'[<<x, y>>]

\* That is what a message that is not sent back does to the books.
LEMMA ReleaseEffect ==
    ASSUME BInv, NEW s \in Side, NEW d \in Data, NEW l \in Token, NEW r \in Token, NEW v,
           d.local = l, d.remote = r, d.amount = v, Release(s, d)
    PROVE  TokensReleased(s, l, r, v)
  <1>1. tokens \in [Token -> [Account -> Nat]] /\ deposits \in [Token \X Token -> Nat]
    BY DEF BInv, TypeOK
  <1> PICK to : to = d.to
    OBVIOUS
  <1>2. /\ chainOf[l] = s /\ bridge(s) \in Account /\ tokens[l] \in [Account -> Nat]
        /\ to \in Account /\ v \in Nat
    BY <1>1, Sides DEF Release, Data
  <1>3. tokens' \in [Token -> [Account -> Nat]] /\ deposits' \in [Token \X Token -> Nat]
    BY ReleaseTyped
  <1>4. \A t \in Token : Total(tokens[t]) \in Nat /\ Total(tokens'[t]) \in Nat
    <2> SUFFICES ASSUME NEW t \in Token PROVE Total(tokens[t]) \in Nat /\ Total(tokens'[t]) \in Nat
      OBVIOUS
    <2>1. tokens[t] \in [Account -> Nat] /\ tokens'[t] \in [Account -> Nat]
      BY <1>1, <1>3
    <2> QED BY <2>1, AccountsFinite, UnitsFinite
  <1>5. CASE isNonNativeTokenPair(l, r)
    <2>1. tokens' = [tokens EXCEPT ![l][to] = @ + v] /\ deposits' = deposits
      BY <1>5 DEF Release
    <2>2. \A t \in Token : t # l => tokens'[t] = tokens[t]
      BY <1>1, <2>1
    <2>3. /\ tokens'[l] \in [Account -> Nat] /\ tokens'[l][to] = tokens[l][to] + v
          /\ \A x \in Account \ {to} : tokens'[l][x] = tokens[l][x]
      BY <1>1, <1>2, <1>3, <2>1, SMT
    <2>4. Total(tokens'[l]) = Total(tokens[l]) + v
      BY <1>2, <2>3, SupplyMoves, SMT
    <2> QED BY <1>2, <1>4, <1>5, <2>1, <2>2, <2>4 DEF TokensReleased
  <1>6. CASE ~isNonNativeTokenPair(l, r)
    <2>1. /\ v <= deposits[<<l, r>>] /\ v <= tokens[l][bridge(s)]
          /\ deposits' = [deposits EXCEPT ![<<l, r>>] = @ - v]
          /\ tokens' = [tokens EXCEPT ![l] = transfer(@, bridge(s), to, v)]
      BY <1>6 DEF Release
    <2>2. tokens'[l] = transfer(tokens[l], bridge(s), to, v)
      BY <1>1, <2>1
    <2>3. Total(tokens'[l]) = Total(tokens[l])
      BY <1>2, <2>1, <2>2, SupplyKept, SMT
    <2>4. \A t \in Token : t # l => tokens'[t] = tokens[t]
      BY <1>1, <2>1
    <2>5. \A x, y \in Token :
             deposits'[<<x, y>>] = IF x = l /\ y = r THEN deposits[<<x, y>>] - v ELSE deposits[<<x, y>>]
      BY <1>1, <2>1
    <2>6. \A x, y \in Token :
             deposits[<<x, y>>] = IF x = l /\ y = r THEN deposits'[<<x, y>>] + v ELSE deposits'[<<x, y>>]
      <3>1. \A x, y \in Token : deposits[<<x, y>>] \in Nat
        BY <1>1
      <3> SUFFICES ASSUME NEW x \in Token, NEW y \in Token
                   PROVE  deposits[<<x, y>>] = IF x = l /\ y = r THEN deposits'[<<x, y>>] + v
                                                                ELSE deposits'[<<x, y>>]
        OBVIOUS
      <3>2. CASE x = l /\ y = r
        <4>1. deposits'[<<x, y>>] = deposits[<<x, y>>] - v /\ deposits[<<x, y>>] \in Nat
          BY <2>5, <3>1, <3>2
        <4> QED BY <1>2, <3>2, <4>1, SMT
      <3>3. CASE ~(x = l /\ y = r)
        BY <2>5, <3>3
      <3> QED BY <3>2, <3>3
    <2>7. \A t \in Token : Total(tokens'[t]) = Total(tokens[t])
      BY <2>3, <2>4
    <2> QED BY <1>2, <1>4, <1>6, <2>6, <2>7 DEF TokensReleased
  <1> QED BY <1>5, <1>6

\* The books of one pair: token t of another chain, whose home token is home.
Books(t, home) ==
    deposits[<<home, t>>] =
        Total(tokens[t]) + tokensInFlight(chainOf[t], t, home)
                         + tokensInFlight(chainOf[home], home, t)

\* A MintableERC20 and the token it stands for, which are on different chains.
Paired(t, home) ==
    /\ home \in Token /\ remoteToken[home] = NoToken /\ NoToken \notin Token
    /\ chainOf[t] \in Side /\ chainOf[home] = other(chainOf[t]) /\ chainOf[home] \in Side
    /\ chainOf[t] = other(chainOf[home]) /\ chainOf[t] # chainOf[home]

LEMMA Pair ==
    ASSUME NEW t \in Token, NEW home, home = remoteToken[t], home # NoToken
    PROVE  Paired(t, home)
  BY BridgeAssumption, PortalsAssumption, Sides, SMT DEF Paired

LEMMA PairTyped ==
    ASSUME BInv, NEW t \in Token, NEW home \in Token, chainOf[t] \in Side, chainOf[home] \in Side
    PROVE  /\ deposits[<<home, t>>] \in Nat /\ Total(tokens[t]) \in Nat
           /\ tokensInFlight(chainOf[t], t, home) \in Nat
           /\ tokensInFlight(chainOf[home], home, t) \in Nat
  <1>1. tokens[t] \in [Account -> Nat] /\ deposits[<<home, t>>] \in Nat
    BY DEF BInv, TypeOK
  <1>2. Total(tokens[t]) \in Nat
    BY <1>1, AccountsFinite, UnitsFinite
  <1>3. ASSUME NEW s \in Side, NEW l, NEW r PROVE tokensInFlight(s, l, r) \in Nat
    <2> DEFINE S == carrying(s, l, r)
               f == [k \in S |-> k.data.amount]
    <2>1. S \subseteq inFlight(s) /\ IsFiniteSet(inFlight(s)) /\ inFlight(s) \subseteq Message
      BY FlightFinite DEF carrying
    <2>2. IsFiniteSet(S) /\ S \subseteq Message
      BY <2>1, FS_Subset
    <2>3. tokensInFlight(s, l, r) = Total(f)
      BY DEF tokensInFlight, carrying
    <2> HIDE DEF S
    <2>4. f \in [S -> Nat]
      BY <2>2 DEF Message, Data
    <2> HIDE DEF f
    <2>5. Total(f) \in Nat
      BY <2>2, <2>4, UnitsFinite
    <2> QED BY <2>3, <2>5
  <1> QED BY <1>1, <1>2, <1>3

\* Steps that carry no token change no books.
LEMMA BooksStay ==
    ASSUME BInv, NEW t \in Token, NEW home, home = remoteToken[t], home # NoToken, Books(t, home),
           UNCHANGED <<deposits, tokens>>,
           \A s \in Side : \A l, r \in Token : tokensInFlight(s, l, r)' = tokensInFlight(s, l, r)
    PROVE  Books(t, home)'
  <1>1. home \in Token /\ chainOf[t] \in Side /\ chainOf[home] \in Side
    BY Pair DEF Paired
  <1>2. /\ tokensInFlight(chainOf[t], t, home)' = tokensInFlight(chainOf[t], t, home)
        /\ tokensInFlight(chainOf[home], home, t)' = tokensInFlight(chainOf[home], home, t)
    BY <1>1
  <1> QED BY <1>2 DEF Books

\* Deposits d stand for a supply s and for what is on its way there (a) and back (b).
Balanced(d, s, a, b) == d = s + a + b

\* The books stay balanced when an amount joins both sides of them, and when it moves
\* from the supply to the way back or from the way there to the supply.
LEMMA BooksMoved ==
    ASSUME NEW d \in Nat, NEW s \in Nat, NEW a \in Nat, NEW b \in Nat, NEW v \in Nat
    PROVE  /\ Balanced(d, s, a, b) => Balanced(d + v, s, a + v, b)
           /\ Balanced(d, s + v, a, b) => Balanced(d, s, a, b + v)
           /\ Balanced(d, s, a + v, b) => Balanced(d, s + v, a, b)
  BY SMT DEF Balanced

\* An amount both sides of the books lose leaves them balanced.
LEMMA Outstanding ==
    ASSUME NEW d \in Nat, NEW s \in Nat, NEW a \in Nat, NEW b \in Nat, NEW v \in Nat,
           Balanced(d + v, s, a, b + v)
    PROVE  Balanced(d, s, a, b)
  BY SMT DEF Balanced

\* bridgeERC20 keeps the books of every pair, right or wrong as the pair it names may be.
LEMMA BooksEscrow ==
    ASSUME BInv, NEW t \in Token, NEW home, home = remoteToken[t], home # NoToken, Books(t, home),
           TokenStep
    PROVE  Books(t, home)'
  <1> PICK s \in Side, a \in User \cup App, m \in Message, l \in Token, r \in Token, to \in Account, v \in Nat :
        /\ Sends(s, a, m) /\ isTokenMessage(s, m)
        /\ m.data.local = r /\ m.data.remote = l /\ m.data.amount = v
        /\ BridgeERC20(s, a, l, r, to, v)
        /\ UNCHANGED finalized
    BY DEF TokenStep
  <1>1. /\ home \in Token /\ remoteToken[home] = NoToken /\ NoToken \notin Token
        /\ chainOf[t] \in Side /\ chainOf[home] = other(chainOf[t]) /\ chainOf[home] \in Side
        /\ chainOf[t] = other(chainOf[home]) /\ chainOf[t] # chainOf[home]
    <2>1. Paired(t, home)
      BY Pair
    <2> QED BY <2>1 DEF Paired
  <1> DEFINE D == deposits[<<home, t>>]
             S == Total(tokens[t])
             A == tokensInFlight(chainOf[t], t, home)
             B == tokensInFlight(chainOf[home], home, t)
  <1>2. D \in Nat /\ S \in Nat /\ A \in Nat /\ B \in Nat
    BY <1>1, PairTyped
  <1>3. D = S + A + B
    BY DEF Books
  <1>4. \A x, y \in Token :
           /\ x = r /\ y = l => tokensInFlight(other(s), x, y)' = tokensInFlight(other(s), x, y) + v
           /\ ~(x = r /\ y = l) => tokensInFlight(other(s), x, y)' = tokensInFlight(other(s), x, y)
           /\ tokensInFlight(s, x, y)' = tokensInFlight(s, x, y)
    <2> SUFFICES ASSUME NEW x \in Token, NEW y \in Token
                 PROVE  /\ x = r /\ y = l =>
                             tokensInFlight(other(s), x, y)' = tokensInFlight(other(s), x, y) + v
                        /\ ~(x = r /\ y = l) =>
                             tokensInFlight(other(s), x, y)' = tokensInFlight(other(s), x, y)
                        /\ tokensInFlight(s, x, y)' = tokensInFlight(s, x, y)
      OBVIOUS
    <2>1. isTransfer(other(s), m, x, y) <=> x = r /\ y = l
      BY Sides DEF isTransfer, isTokenMessage
    <2>2. tokensInFlight(other(s), x, y)'
            = IF isTransfer(other(s), m, x, y) THEN tokensInFlight(other(s), x, y) + m.data.amount
                                               ELSE tokensInFlight(other(s), x, y)
      BY TransferJoins
    <2>3. initiated'[other(s)] = initiated[other(s)]
      BY Sides DEF Sends, BInv, CallInv
    <2>4. tokensInFlight(s, x, y)' = tokensInFlight(s, x, y)
      BY <2>3, TransfersStay
    <2> QED BY <2>1, <2>2, <2>4
  <1>5. /\ chainOf[l] = s
        /\ \A k \in Token : k # l \/ ~isNonNativeTokenPair(l, r) => Total(tokens'[k]) = Total(tokens[k])
        /\ isNonNativeTokenPair(l, r) => Total(tokens[l]) = Total(tokens'[l]) + v
        /\ \A x, y \in Token :
              deposits'[<<x, y>>] = IF x = l /\ y = r /\ ~isNonNativeTokenPair(l, r)
                                    THEN deposits[<<x, y>>] + v ELSE deposits[<<x, y>>]
        /\ Total(tokens'[t]) \in Nat
    <2>1. a \in Account
      BY Sides
    <2>2. BridgeERC20(s, a, l, r, to, v)
      OBVIOUS
    <2>3. v \in Nat
      OBVIOUS
    <2>4. TokensEscrowed(s, l, r, v)
      BY <2>1, <2>2, <2>3, EscrowEffect
    <2> QED BY <2>4 DEF TokensEscrowed
  <1>6. chainOf[t] = s => /\ A' = A
                          /\ home = r /\ t = l => B' = B + v
                          /\ ~(home = r /\ t = l) => B' = B
    <2> SUFFICES ASSUME chainOf[t] = s
                 PROVE  A' = A /\ (home = r /\ t = l => B' = B + v) /\ (~(home = r /\ t = l) => B' = B)
      OBVIOUS
    <2>1. chainOf[home] = other(s)
      BY <1>1
    <2>2. tokensInFlight(s, t, home)' = tokensInFlight(s, t, home)
      BY <1>1, <1>4
    <2>3. /\ home = r /\ t = l => tokensInFlight(other(s), home, t)' = tokensInFlight(other(s), home, t) + v
          /\ ~(home = r /\ t = l) => tokensInFlight(other(s), home, t)' = tokensInFlight(other(s), home, t)
      BY <1>1, <1>4
    <2> QED BY <2>1, <2>2, <2>3
  <1>7. chainOf[t] = other(s) => /\ t = r /\ home = l => A' = A + v
                                 /\ ~(t = r /\ home = l) => A' = A
                                 /\ B' = B
    <2> SUFFICES ASSUME chainOf[t] = other(s)
                 PROVE  (t = r /\ home = l => A' = A + v) /\ (~(t = r /\ home = l) => A' = A) /\ B' = B
      OBVIOUS
    <2>1. chainOf[home] = s
      BY <1>1, Sides
    <2>2. tokensInFlight(s, home, t)' = tokensInFlight(s, home, t)
      BY <1>1, <1>4
    <2>3. /\ t = r /\ home = l => tokensInFlight(other(s), t, home)' = tokensInFlight(other(s), t, home) + v
          /\ ~(t = r /\ home = l) => tokensInFlight(other(s), t, home)' = tokensInFlight(other(s), t, home)
      BY <1>1, <1>4
    <2> QED BY <2>1, <2>2, <2>3
  <1>8. chainOf[t] = s \/ chainOf[t] = other(s)
    BY <1>1, Sides
  <1>9. CASE isNonNativeTokenPair(l, r)
    <2>1. D' = D
      BY <1>1, <1>5, <1>9
    <2>2. remoteToken[l] = r
      BY <1>9 DEF isNonNativeTokenPair
    <2>3. CASE t = l
      <3>1. home = r /\ chainOf[t] = s
        BY <1>5, <2>2, <2>3
      <3>2. A' = A /\ B' = B + v /\ S = S' + v /\ S' \in Nat
        BY <1>5, <1>6, <1>9, <2>3, <3>1
      <3>3. D' = S' + A' + B'
        <4> HIDE DEF D, S, A, B
        <4>1. Balanced(D, S' + v, A, B)
          BY <1>3, <3>2 DEF Balanced
        <4>2. Balanced(D, S', A, B + v)
          BY <1>2, <3>2, <4>1, BooksMoved
        <4> QED BY <2>1, <3>2, <4>2 DEF Balanced
      <3> QED BY <3>3 DEF Books
    <2>4. CASE t # l
      <3>1. S' = S
        BY <1>5, <2>4
      <3>2. ~(t = r /\ home = l)
        BY <1>1, <2>2
      <3>3. A' = A /\ B' = B
        <4> HIDE DEF A, B
        <4> QED BY <1>6, <1>7, <1>8, <2>4, <3>2
      <3> QED BY <1>3, <2>1, <3>1, <3>3 DEF Books
    <2> QED BY <2>3, <2>4
  <1>10. CASE ~isNonNativeTokenPair(l, r)
    <2>1. S' = S
      BY <1>5, <1>10
    <2>2. ~(home = r /\ t = l)
      BY <1>10 DEF isNonNativeTokenPair
    <2>3. CASE home = l /\ t = r
      <3>1. chainOf[t] = other(s)
        BY <1>1, <1>5, <2>3
      <3>2. D' = D + v /\ A' = A + v /\ B' = B
        BY <1>1, <1>5, <1>7, <1>10, <2>3, <3>1
      <3>3. D' = S' + A' + B'
        <4> HIDE DEF D, S, A, B
        <4>1. Balanced(D, S, A, B)
          BY <1>3 DEF Balanced
        <4>2. Balanced(D + v, S, A + v, B)
          BY <1>2, <4>1, BooksMoved
        <4> QED BY <2>1, <3>2, <4>2 DEF Balanced
      <3> QED BY <3>3 DEF Books
    <2>4. CASE ~(home = l /\ t = r)
      <3>1. D' = D
        BY <1>1, <1>5, <2>4
      <3>2. A' = A /\ B' = B
        <4> HIDE DEF A, B
        <4> QED BY <1>6, <1>7, <1>8, <2>2, <2>4
      <3> QED BY <1>3, <2>1, <3>1, <3>2 DEF Books
    <2> QED BY <2>3, <2>4
  <1> QED BY <1>9, <1>10

\* finalizeBridgeERC20 keeps them.
LEMMA BooksRelease ==
    ASSUME BInv, NEW t \in Token, NEW home, home = remoteToken[t], home # NoToken, Books(t, home),
           ReleaseStep
    PROVE  Books(t, home)'
  <1> PICK s \in Side, m \in Message :
        /\ Passes(s, m) /\ Pays(s, m, bridge(s)) /\ isTokenMessage(other(s), m)
        /\ Release(s, m.data)
        /\ UNCHANGED <<nonce, initiated>>
    BY DEF ReleaseStep
  <1> PICK l : m.data.local = l
    OBVIOUS
  <1> PICK r : m.data.remote = r
    OBVIOUS
  <1> PICK v : m.data.amount = v
    OBVIOUS
  <1>0. m.data \in Data /\ l \in Token /\ r \in Token
    BY Sides DEF Message, BInv, MsgInv, BridgeCall, isTokenMessage, Passes
  <1>1. /\ home \in Token /\ remoteToken[home] = NoToken /\ NoToken \notin Token
        /\ chainOf[t] \in Side /\ chainOf[home] = other(chainOf[t]) /\ chainOf[home] \in Side
        /\ chainOf[t] = other(chainOf[home]) /\ chainOf[t] # chainOf[home]
    <2>1. Paired(t, home)
      BY Pair
    <2> QED BY <2>1 DEF Paired
  <1> DEFINE D == deposits[<<home, t>>]
             S == Total(tokens[t])
             A == tokensInFlight(chainOf[t], t, home)
             B == tokensInFlight(chainOf[home], home, t)
  <1>2. D \in Nat /\ S \in Nat /\ A \in Nat /\ B \in Nat
    BY <1>1, PairTyped
  <1>3. D = S + A + B
    BY DEF Books
  <1>4. \A x, y \in Token :
           /\ tokensInFlight(s, x, y)' \in Nat
           /\ x = l /\ y = r => tokensInFlight(s, x, y) = tokensInFlight(s, x, y)' + v
           /\ ~(x = l /\ y = r) => tokensInFlight(s, x, y)' = tokensInFlight(s, x, y)
           /\ tokensInFlight(other(s), x, y)' = tokensInFlight(other(s), x, y)
    <2> SUFFICES ASSUME NEW x \in Token, NEW y \in Token
                 PROVE  /\ tokensInFlight(s, x, y)' \in Nat
                        /\ x = l /\ y = r => tokensInFlight(s, x, y) = tokensInFlight(s, x, y)' + v
                        /\ ~(x = l /\ y = r) => tokensInFlight(s, x, y)' = tokensInFlight(s, x, y)
                        /\ tokensInFlight(other(s), x, y)' = tokensInFlight(other(s), x, y)
      OBVIOUS
    <2>1. isTransfer(s, m, x, y) <=> x = l /\ y = r
      BY DEF isTransfer, isTokenMessage
    <2>2. /\ tokensInFlight(s, x, y)' \in Nat
          /\ tokensInFlight(s, x, y)
               = IF isTransfer(s, m, x, y) THEN tokensInFlight(s, x, y)' + m.data.amount
                                           ELSE tokensInFlight(s, x, y)'
      BY TransferLeaves
    <2>3. finalized'[other(s)] = finalized[other(s)]
      BY Sides DEF Passes, BInv, CallInv
    <2>4. tokensInFlight(other(s), x, y)' = tokensInFlight(other(s), x, y)
      <3>1. other(s) \in Side /\ other(other(s)) = s
        BY Sides
      <3>2. initiated'[s] = initiated[s]
        OBVIOUS
      <3> QED BY <2>3, <3>1, <3>2, TransfersStay
    <2> QED BY <2>1, <2>2, <2>4
  <1>5. /\ chainOf[l] = s /\ v \in Nat
        /\ \A k \in Token : k # l \/ ~isNonNativeTokenPair(l, r) => Total(tokens'[k]) = Total(tokens[k])
        /\ isNonNativeTokenPair(l, r) => Total(tokens'[l]) = Total(tokens[l]) + v
        /\ \A x, y \in Token :
              deposits[<<x, y>>] = IF x = l /\ y = r /\ ~isNonNativeTokenPair(l, r)
                                   THEN deposits'[<<x, y>>] + v ELSE deposits'[<<x, y>>]
    <2>1. TokensReleased(s, l, r, v)
      BY <1>0, ReleaseEffect
    <2> QED BY <2>1 DEF TokensReleased
  <1>6. chainOf[t] = s => /\ t = l /\ home = r => A = A' + v
                          /\ ~(t = l /\ home = r) => A' = A
                          /\ A' \in Nat /\ B' = B
    <2> SUFFICES ASSUME chainOf[t] = s
                 PROVE  /\ (t = l /\ home = r => A = A' + v) /\ (~(t = l /\ home = r) => A' = A)
                        /\ A' \in Nat /\ B' = B
      OBVIOUS
    <2>1. chainOf[home] = other(s)
      BY <1>1
    <2>2. tokensInFlight(other(s), home, t)' = tokensInFlight(other(s), home, t)
      BY <1>1, <1>4
    <2>3. /\ tokensInFlight(s, t, home)' \in Nat
          /\ t = l /\ home = r => tokensInFlight(s, t, home) = tokensInFlight(s, t, home)' + v
          /\ ~(t = l /\ home = r) => tokensInFlight(s, t, home)' = tokensInFlight(s, t, home)
      BY <1>1, <1>4
    <2> QED BY <2>1, <2>2, <2>3
  <1>7. chainOf[t] = other(s) => /\ A' = A
                                 /\ home = l /\ t = r => B = B' + v
                                 /\ ~(home = l /\ t = r) => B' = B
                                 /\ B' \in Nat
    <2> SUFFICES ASSUME chainOf[t] = other(s)
                 PROVE  /\ (home = l /\ t = r => B = B' + v) /\ (~(home = l /\ t = r) => B' = B)
                        /\ B' \in Nat /\ A' = A
      OBVIOUS
    <2>1. chainOf[home] = s
      BY <1>1, Sides
    <2>2. tokensInFlight(other(s), t, home)' = tokensInFlight(other(s), t, home)
      BY <1>1, <1>4
    <2>3. /\ tokensInFlight(s, home, t)' \in Nat
          /\ home = l /\ t = r => tokensInFlight(s, home, t) = tokensInFlight(s, home, t)' + v
          /\ ~(home = l /\ t = r) => tokensInFlight(s, home, t)' = tokensInFlight(s, home, t)
      BY <1>1, <1>4
    <2> QED BY <2>1, <2>2, <2>3
  <1>8. chainOf[t] = s \/ chainOf[t] = other(s)
    BY <1>1, Sides
  <1>9. CASE isNonNativeTokenPair(l, r)
    <2>1. D' = D
      BY <1>0, <1>1, <1>5, <1>9
    <2>2. remoteToken[l] = r
      BY <1>9 DEF isNonNativeTokenPair
    <2>3. CASE t = l
      <3>0. v \in Nat
        BY <1>5
      <3>1. home = r /\ chainOf[t] = s
        BY <1>5, <2>2, <2>3
      <3>2. A = A' + v /\ A' \in Nat /\ B' = B /\ S' = S + v
        BY <1>5, <1>6, <1>9, <2>3, <3>1
      <3>3. D' = S' + A' + B'
        <4> HIDE DEF D, S, A, B
        <4>1. Balanced(D, S, A' + v, B)
          BY <1>3, <3>2 DEF Balanced
        <4>2. Balanced(D, S + v, A', B)
          BY <1>2, <3>0, <3>2, <4>1, BooksMoved
        <4> QED BY <2>1, <3>2, <4>2 DEF Balanced
      <3> QED BY <3>3 DEF Books
    <2>4. CASE t # l
      <3>1. S' = S
        BY <1>5, <2>4
      <3>2. ~(home = l /\ t = r)
        BY <1>1, <2>2
      <3>3. A' = A /\ B' = B
        <4> HIDE DEF A, B
        <4> QED BY <1>6, <1>7, <1>8, <2>4, <3>2
      <3> QED BY <1>3, <2>1, <3>1, <3>3 DEF Books
    <2> QED BY <2>3, <2>4
  <1>10. CASE ~isNonNativeTokenPair(l, r)
    <2>1. S' = S
      BY <1>5, <1>10
    <2>2. ~(home = r /\ t = l)
      BY <1>10 DEF isNonNativeTokenPair
    <2>3. CASE home = l /\ t = r
      <3>0. v \in Nat
        BY <1>5
      <3>1. chainOf[t] = other(s)
        BY <1>1, <1>5, <2>3
      <3>2. D = D' + v /\ B = B' + v /\ B' \in Nat /\ A' = A
        BY <1>1, <1>5, <1>7, <1>10, <2>3, <3>1
      <3>3. D' \in Nat
        BY <1>0, <1>1, ReleaseTyped
      <3>4. D' = S' + A' + B'
        <4> HIDE DEF D, S, A, B
        <4>1. Balanced(D' + v, S, A, B' + v)
          BY <1>3, <3>2 DEF Balanced
        <4>2. Balanced(D', S, A, B')
          BY <1>2, <3>0, <3>2, <3>3, <4>1, Outstanding
        <4> QED BY <2>1, <3>2, <4>2 DEF Balanced
      <3> QED BY <3>4 DEF Books
    <2>4. CASE ~(home = l /\ t = r)
      <3>1. D' = D
        BY <1>0, <1>1, <1>5, <2>4
      <3>2. A' = A /\ B' = B
        <4> HIDE DEF A, B
        <4> QED BY <1>6, <1>7, <1>8, <2>2, <2>4
      <3> QED BY <1>3, <2>1, <3>1, <3>2 DEF Books
    <2> QED BY <2>3, <2>4
  <1> QED BY <1>9, <1>10

\* Messages without a token leave the transfers on their way alone.
LEMMA TransfersKept ==
    ASSUME BInv, QuietStep \/ DonateStep \/ SendStep \/ DeliverStep \/ BounceStep,
           NEW c \in Side, NEW l, NEW r
    PROVE  tokensInFlight(c, l, r)' = tokensInFlight(c, l, r)
  <1>1. CASE QuietStep \/ DonateStep
    <2>1. UNCHANGED <<initiated, finalized>>
      BY <1>1 DEF QuietStep, DonateStep
    <2> QED BY <2>1, TransfersStay
  <1>2. ASSUME NEW s \in Side, NEW payer, NEW m, Sends(s, payer, m), ~isTokenMessage(s, m),
               finalized'[other(s)] = finalized[other(s)]
        PROVE  tokensInFlight(other(s), l, r)' = tokensInFlight(other(s), l, r)
    <2>1. ~isTransfer(other(s), m, l, r)
      BY <1>2, Sides DEF isTransfer, isTokenMessage
    <2>2. ~isTransfer(other(s), m, l, r) =>
            tokensInFlight(other(s), l, r)' = tokensInFlight(other(s), l, r)
      BY <1>2, TransferJoins
    <2> QED BY <2>1, <2>2
  <1>3. ASSUME NEW s \in Side, NEW m, Passes(s, m), ~isTokenMessage(other(s), m),
               initiated'[other(s)] = initiated[other(s)]
        PROVE  tokensInFlight(s, l, r)' = tokensInFlight(s, l, r)
    <2>1. ~isTransfer(s, m, l, r)
      BY <1>3 DEF isTransfer, isTokenMessage
    <2>2. ~isTransfer(s, m, l, r) => tokensInFlight(s, l, r) = tokensInFlight(s, l, r)'
      BY <1>3, TransferLeaves
    <2> QED BY <2>1, <2>2
  <1>4. CASE SendStep
    <2> PICK s \in Side, a \in User \cup App, m \in Message :
          Sends(s, a, m) /\ ~isTokenMessage(s, m) /\ UNCHANGED finalized
      BY <1>4 DEF SendStep
    <2>1. initiated'[other(s)] = initiated[other(s)]
      BY Sides DEF Sends, BInv, CallInv
    <2>2. tokensInFlight(s, l, r)' = tokensInFlight(s, l, r)
      BY <2>1, TransfersStay
    <2>3. tokensInFlight(other(s), l, r)' = tokensInFlight(other(s), l, r)
      BY <1>2
    <2> QED BY <2>2, <2>3, Sides
  <1>5. CASE DeliverStep
    <2> PICK s \in Side, m \in Message :
          Passes(s, m) /\ ~isTokenMessage(other(s), m) /\ UNCHANGED initiated
      BY <1>5 DEF DeliverStep
    <2>1. finalized'[other(s)] = finalized[other(s)]
      BY Sides DEF Passes, BInv, CallInv
    <2>2. tokensInFlight(other(s), l, r)' = tokensInFlight(other(s), l, r)
      BY <2>1, Sides, TransfersStay
    <2>3. tokensInFlight(s, l, r)' = tokensInFlight(s, l, r)
      BY <1>3
    <2> QED BY <2>2, <2>3, Sides
  <1>6. CASE BounceStep
    <2> PICK s \in Side, m \in Message, n \in Message :
          /\ Passes(s, m) /\ Sends(s, portal(s), n)
          /\ ~isTokenMessage(other(s), m) /\ ~isTokenMessage(s, n)
      BY <1>6 DEF BounceStep
    <2>1. /\ finalized'[other(s)] = finalized[other(s)]
          /\ initiated'[other(s)] = initiated[other(s)]
      BY Sides DEF Passes, Sends, BInv, CallInv
    <2>2. tokensInFlight(other(s), l, r)' = tokensInFlight(other(s), l, r)
      BY <1>2, <2>1
    <2>3. tokensInFlight(s, l, r)' = tokensInFlight(s, l, r)
      BY <1>3, <2>1
    <2> QED BY <2>2, <2>3, Sides
  <1> QED BY <1>1, <1>4, <1>5, <1>6

\* For every set of tokens, however they are paired, and every set of accounts: the
\* supply of a MintableERC20, with what is on its way to and from it, is exactly what
\* the bridge of its home chain recorded (bridgeERC20To, finalizeBridgeERC20).
THEOREM TokensAreBacked == Spec => []TokensBacked
  <1>1. TokensBacked <=> \A t \in Token : remoteToken[t] # NoToken => Books(t, remoteToken[t])
    BY DEF TokensBacked, Books
  <1>2. Init => TokensBacked
    <2> SUFFICES ASSUME Init, NEW t \in Token, NEW home, home = remoteToken[t], home # NoToken
                 PROVE  Books(t, home)
      BY <1>1
    <2>1. home \in Token /\ chainOf[t] \in Side /\ chainOf[home] \in Side
      BY Pair DEF Paired
    <2>2. deposits[<<home, t>>] = 0
      BY <2>1 DEF Init
    <2>3. Total(tokens[t]) = 0
      <3>1. tokens[t] \in [Account -> Nat] /\ \A a \in Account : tokens[t][a] = 0
        BY BridgeAssumption DEF Init
      <3> QED BY <3>1, NoneTotal
    <2>4. ASSUME NEW s \in Side, NEW l, NEW r PROVE tokensInFlight(s, l, r) = 0
      <3>1. inFlight(s) = {}
        BY Sides DEF Init, PortalsInit, inFlight
      <3> QED BY <3>1, NoneTotal DEF tokensInFlight
    <2> QED BY <2>1, <2>2, <2>3, <2>4, SMT DEF Books
  <1>3. BInv /\ TokensBacked /\ [Next]_vars => TokensBacked'
    <2> SUFFICES ASSUME BInv, TokensBacked, [Next]_vars, NEW t \in Token,
                        NEW home, home = remoteToken[t], home # NoToken
                 PROVE  Books(t, home)'
      BY DEF TokensBacked, Books
    <2>1. Books(t, home)
      BY <1>1
    <2>2. CASE QuietStep \/ DonateStep \/ SendStep \/ DeliverStep \/ BounceStep
      <3>1. \A s \in Side : \A l, r \in Token : tokensInFlight(s, l, r)' = tokensInFlight(s, l, r)
        BY <2>2, TransfersKept
      <3>2. UNCHANGED <<deposits, tokens>>
        BY <2>2 DEF QuietStep, DonateStep, SendStep, DeliverStep, BounceStep
      <3> QED BY <2>1, <3>1, <3>2, BooksStay
    <2>3. CASE TokenStep
      BY <2>1, <2>3, BooksEscrow
    <2>4. CASE ReleaseStep
      BY <2>1, <2>4, BooksRelease
    <2> QED BY <2>2, <2>3, <2>4, StepShape
  <1> QED BY <1>2, <1>3, BInvHolds, PTL DEF Spec

\* What the bridge of t's chain holds of t covers what it recorded for t.
Held(t) == Total(recorded(t)) <= tokens[t][bridge(chainOf[t])]

LEMMA RecordsTyped ==
    ASSUME BInv, NEW t \in Token
    PROVE  recorded(t) \in [Token -> Nat] /\ Total(recorded(t)) \in Nat
  <1>1. recorded(t) \in [Token -> Nat]
    BY DEF recorded, BInv, TypeOK
  <1> QED BY <1>1, PortalsAssumption, UnitsFinite

\* What a change of one record does to their sum.
LEMMA RecordsMove ==
    ASSUME NEW f \in [Token -> Nat], NEW g \in [Token -> Nat], NEW r \in Token, NEW v \in Nat,
           \A x \in Token \ {r} : g[x] = f[x]
    PROVE  /\ Total(f) \in Nat /\ Total(g) \in Nat
           /\ g[r] = f[r] + v => Total(g) = Total(f) + v
           /\ f[r] = g[r] + v => Total(f) = Total(g) + v
  <1>1. Total(f) \in Nat /\ Total(g) \in Nat /\ Total(g) + f[r] = Total(f) + g[r]
    BY PortalsAssumption, OneChanges, SMT DEF Shifted
  <1>2. f[r] \in Nat /\ g[r] \in Nat
    OBVIOUS
  <1>3. ASSUME g[r] = f[r] + v PROVE Total(g) = Total(f) + v
    BY <1>1, <1>2, <1>3, Cancelled, SMT
  <1>4. ASSUME f[r] = g[r] + v PROVE Total(f) = Total(g) + v
    BY <1>1, <1>2, <1>4, Cancelled, SMT
  <1> QED BY <1>1, <1>3, <1>4

LEMMA HeldStays ==
    ASSUME BInv, NEW t \in Token, Held(t), tokens'[t] = tokens[t],
           \A r \in Token : deposits'[<<t, r>>] = deposits[<<t, r>>]
    PROVE  Held(t)'
  <1>1. recorded(t)' = recorded(t)
    BY DEF recorded
  <1> QED BY <1>1 DEF Held

\* What bridgeERC20 records it also takes into escrow.
LEMMA HeldEscrow ==
    ASSUME BInv, NEW t \in Token, Held(t), NEW s \in Side, NEW a \in User \cup App,
           NEW l \in Token, NEW r \in Token, NEW to, NEW v \in Nat, BridgeERC20(s, a, l, r, to, v)
    PROVE  Held(t)'
  <1>1. tokens \in [Token -> [Account -> Nat]] /\ deposits \in [Token \X Token -> Nat]
    BY DEF BInv, TypeOK
  <1>2. a \in Account /\ a # bridge(s) /\ bridge(s) \in Account
    BY Sides
  <1>3. /\ chainOf[l] = s /\ v <= tokens[l][a]
        /\ tokens' \in [Token -> [Account -> Nat]] /\ deposits' \in [Token \X Token -> Nat]
    BY <1>2, EscrowTyped DEF BridgeERC20
  <1>4. CASE isNonNativeTokenPair(l, r)
    <2>1. tokens' = [tokens EXCEPT ![l][a] = @ - v] /\ deposits' = deposits
      BY <1>4 DEF BridgeERC20
    <2>2. CASE t = l
      <3>1. tokens'[t][bridge(s)] = tokens[t][bridge(s)] /\ recorded(t)' = recorded(t)
        BY <1>1, <1>2, <2>1, <2>2 DEF recorded
      <3> QED BY <1>3, <2>2, <3>1 DEF Held
    <2>3. CASE t # l
      BY <1>1, <2>1, <2>3, HeldStays
    <2> QED BY <2>2, <2>3
  <1>5. CASE ~isNonNativeTokenPair(l, r)
    <2>1. /\ tokens' = [tokens EXCEPT ![l] = transfer(@, a, bridge(s), v)]
          /\ deposits' = [deposits EXCEPT ![<<l, r>>] = @ + v]
      BY <1>5 DEF BridgeERC20
    <2>2. CASE t = l
      <3>1. tokens'[t] = transfer(tokens[t], a, bridge(s), v) /\ tokens[t] \in [Account -> Nat]
        BY <1>1, <2>1, <2>2
      <3>2. tokens'[t][bridge(s)] = tokens[t][bridge(s)] + v /\ tokens[t][bridge(s)] \in Nat
        <4>1. v <= tokens[t][a]
          BY <1>3, <2>2
        <4>2. transfer(tokens[t], a, bridge(s), v)[bridge(s)] = tokens[t][bridge(s)] + v
          BY <1>2, <3>1, <4>1, Transfer, SMT
        <4> QED BY <1>2, <3>1, <4>2
      <3> DEFINE f == [x \in Token |-> deposits[<<t, x>>]]
                 g == [x \in Token |-> deposits'[<<t, x>>]]
      <3>3. /\ f \in [Token -> Nat] /\ g \in [Token -> Nat] /\ g[r] = f[r] + v
            /\ \A x \in Token \ {r} : g[x] = f[x]
        BY <1>1, <1>3, <2>1, <2>2
      <3>4. recorded(t) = f /\ recorded(t)' = g
        BY DEF recorded
      <3> HIDE DEF f, g
      <3>5. Total(f) \in Nat /\ Total(g) = Total(f) + v
        BY <3>3, RecordsMove
      <3>6. Total(f) <= tokens[t][bridge(s)]
        BY <1>3, <2>2, <3>4 DEF Held
      <3>7. Total(g) <= tokens'[t][bridge(s)]
        BY <3>2, <3>5, <3>6, SMT
      <3>8. Total(recorded(t)') <= tokens'[t][bridge(s)]
        BY <3>4, <3>7
      <3> QED BY <1>3, <2>2, <3>8 DEF Held
    <2>3. CASE t # l
      BY <1>1, <2>1, <2>3, HeldStays
    <2> QED BY <2>2, <2>3
  <1> QED BY <1>4, <1>5

\* What finalizeBridgeERC20 takes from escrow it also takes from the record.
LEMMA HeldRelease ==
    ASSUME BInv, NEW t \in Token, Held(t), NEW s \in Side, NEW d \in Data, d.local \in Token,
           d.remote \in Token, Release(s, d)
    PROVE  Held(t)'
  <1>1. tokens \in [Token -> [Account -> Nat]] /\ deposits \in [Token \X Token -> Nat]
    BY DEF BInv, TypeOK
  <1> PICK l \in Token : l = d.local
    OBVIOUS
  <1> PICK r \in Token : r = d.remote
    OBVIOUS
  <1> PICK v : v = d.amount
    OBVIOUS
  <1> PICK to : to = d.to
    OBVIOUS
  <1>2. chainOf[l] = s /\ bridge(s) \in Account /\ to \in Account /\ v \in Nat
    BY Sides DEF Release, Data
  <1>3. tokens' \in [Token -> [Account -> Nat]] /\ deposits' \in [Token \X Token -> Nat]
    BY ReleaseTyped
  <1>4. CASE isNonNativeTokenPair(l, r)
    <2>1. tokens' = [tokens EXCEPT ![l][to] = @ + v] /\ deposits' = deposits
      BY <1>4 DEF Release
    <2>2. CASE t = l
      <3>1. recorded(t)' = recorded(t)
        BY <2>1 DEF recorded
      <3>2. /\ tokens[t][bridge(s)] \in Nat
            /\ tokens'[t][bridge(s)] = IF bridge(s) = to THEN tokens[t][bridge(s)] + v
                                                        ELSE tokens[t][bridge(s)]
        BY <1>1, <1>2, <2>1, <2>2
      <3>3. tokens[t][bridge(s)] <= tokens'[t][bridge(s)] /\ tokens'[t][bridge(s)] \in Nat
        BY <1>2, <3>2, SMT
      <3>4. Total(recorded(t)) \in Nat /\ Total(recorded(t)) <= tokens[t][bridge(s)]
        BY <1>2, <2>2, RecordsTyped DEF Held
      <3>5. Total(recorded(t)) <= tokens'[t][bridge(s)]
        BY <3>2, <3>3, <3>4, SMT
      <3> QED BY <1>2, <2>2, <3>1, <3>5 DEF Held
    <2>3. CASE t # l
      BY <1>1, <2>1, <2>3, HeldStays
    <2> QED BY <2>2, <2>3
  <1>5. CASE ~isNonNativeTokenPair(l, r)
    <2>1. /\ v <= deposits[<<l, r>>] /\ v <= tokens[l][bridge(s)]
          /\ deposits' = [deposits EXCEPT ![<<l, r>>] = @ - v]
          /\ tokens' = [tokens EXCEPT ![l] = transfer(@, bridge(s), to, v)]
      BY <1>5 DEF Release
    <2>2. CASE t = l
      <3>1. tokens'[t] = transfer(tokens[t], bridge(s), to, v) /\ tokens[t] \in [Account -> Nat]
        BY <1>1, <2>1, <2>2
      <3>2. /\ tokens[t][bridge(s)] \in Nat
            /\ \/ tokens'[t][bridge(s)] = tokens[t][bridge(s)] - v
               \/ tokens'[t][bridge(s)] = tokens[t][bridge(s)]
        <4>1. v <= tokens[t][bridge(s)]
          BY <2>1, <2>2
        <4>2. \/ transfer(tokens[t], bridge(s), to, v)[bridge(s)] = tokens[t][bridge(s)] - v
              \/ transfer(tokens[t], bridge(s), to, v) = tokens[t]
          BY <1>2, <3>1, <4>1, Transfer, SMT
        <4> QED BY <1>2, <3>1, <4>2
      <3> DEFINE f == [x \in Token |-> deposits[<<t, x>>]]
                 g == [x \in Token |-> deposits'[<<t, x>>]]
      <3>3. /\ f \in [Token -> Nat] /\ g \in [Token -> Nat] /\ g[r] = f[r] - v /\ f[r] \in Nat
            /\ \A x \in Token \ {r} : g[x] = f[x]
        BY <1>1, <1>3, <2>1, <2>2
      <3>4. recorded(t) = f /\ recorded(t)' = g
        BY DEF recorded
      <3> HIDE DEF f, g
      <3>5. f[r] = g[r] + v
        BY <1>2, <3>3, SMT
      <3>6. Total(g) \in Nat /\ Total(f) = Total(g) + v
        BY <1>2, <3>3, <3>5, RecordsMove
      <3>7. Total(f) <= tokens[t][bridge(s)]
        BY <1>2, <2>2, <3>4 DEF Held
      <3>8. Total(g) <= tokens'[t][bridge(s)]
        BY <1>2, <3>2, <3>6, <3>7, SMT
      <3>9. Total(recorded(t)') <= tokens'[t][bridge(s)]
        BY <3>4, <3>8
      <3> QED BY <1>2, <2>2, <3>9 DEF Held
    <2>3. CASE t # l
      BY <1>1, <2>1, <2>3, HeldStays
    <2> QED BY <2>2, <2>3
  <1> QED BY <1>4, <1>5

\* For every set of tokens and accounts: a bridge holds every token it recorded as
\* deposited, over all pairs at once, so that no release fails for lack of escrow
\* (bridgeERC20To, finalizeBridgeERC20).
THEOREM EscrowIsHeld == Spec => []EscrowHeld
  <1>1. EscrowHeld <=> \A t \in Token : Held(t)
    BY DEF EscrowHeld, Held
  <1>2. Init => EscrowHeld
    <2> SUFFICES ASSUME Init, NEW t \in Token PROVE Held(t)
      BY <1>1
    <2>1. Total(recorded(t)) = 0
      <3>1. recorded(t) = [r \in Token |-> 0]
        BY DEF Init, recorded
      <3> QED BY <3>1, NoneTotal
    <2>2. tokens[t][bridge(chainOf[t])] \in Nat
      BY BridgeAssumption, Sides, SMT DEF Init
    <2> QED BY <2>1, <2>2, SMT DEF Held
  <1>3. BInv /\ EscrowHeld /\ [Next]_vars => EscrowHeld'
    <2> SUFFICES ASSUME BInv, EscrowHeld, [Next]_vars, NEW t \in Token PROVE Held(t)'
      BY DEF EscrowHeld, Held
    <2>1. Held(t)
      BY <1>1
    <2>2. CASE QuietStep \/ DonateStep \/ SendStep \/ DeliverStep \/ BounceStep
      <3>1. UNCHANGED <<deposits, tokens>>
        BY <2>2 DEF QuietStep, DonateStep, SendStep, DeliverStep, BounceStep
      <3> QED BY <2>1, <3>1, HeldStays
    <2>3. CASE TokenStep
      BY <2>1, <2>3, HeldEscrow, SMT DEF TokenStep
    <2>4. CASE ReleaseStep
      <3> PICK s \in Side, m \in Message :
            Passes(s, m) /\ isTokenMessage(other(s), m) /\ Release(s, m.data)
        BY <2>4 DEF ReleaseStep
      <3>1. m.data \in Data /\ m.data.local \in Token /\ m.data.remote \in Token
        BY Sides DEF Message, BInv, MsgInv, BridgeCall, isTokenMessage, Passes
      <3> QED BY <2>1, <3>1, HeldRelease
    <2> QED BY <2>2, <2>3, <2>4, StepShape
  <1> QED BY <1>2, <1>3, BInvHolds, PTL DEF Spec
=============================================================================
