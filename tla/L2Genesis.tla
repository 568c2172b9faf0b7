------------------------------ MODULE L2Genesis -----------------------------
(***************************************************************************)
(* The genesis tool: ops/cmd/genesis, ops/genesis, ops/predeploys and      *)
(* ops/deployer, with the state of ops/state/memory_db.go, on top of the   *)
(* simulated backend.  It deploys the implementations and the proxies of   *)
(* the predeploys to obtain their code, then writes code and storage into  *)
(* the genesis accounts.  Loops over Go maps take their elements in any    *)
(* order.  The generated bindings (layouts and code) are constants.        *)
(***************************************************************************)
EXTENDS SimulatedBackend, StorageEncoding

CONSTANTS
    Indexes,            \* name of a predeploy -> its number in the namespace
    PredeployProxyCount,
    L2Namespace, CodeNamespace,   \* the first addresses of the two namespaces
    ImplementationSlot,
    Layouts,            \* build of the bindings -> name -> storage layout
    Configs,            \* genesis configurations
    L1Blocks,           \* L1 start blocks
    MaxExtra,           \* 32
    TestAddress

VARIABLES
    user,               \* who uses the backend: the tool, or any client
    config, l1Block, build,
    pc,                 \* where the tool is
    queue,              \* constructors still to be deployed: <<name, contract>>
    todo,               \* predeploys still to be visited by a loop
    codes,              \* implDeployments: name -> code
    alloc               \* genesis.Alloc: address -> account

tool == <<pc, queue, todo, codes, alloc>>
inputs == <<user, config, l1Block, build>>

Names == DOMAIN Indexes
Impls == <<"UUPSPlaceholder", "L1Oracle", "L2Portal", "L2StandardBridge">>
InitialisedBy == [L2Portal |-> "_l1PortalAddress", L2StandardBridge |-> "_otherBridge"]

\* Two bytes of a predeploy's address carry over to that of its code.
AddressToCodeNamespace_oneByte(a) == CodeNamespace + (a % Byte)
AddressToCodeNamespace(a) == CodeNamespace + (a % Byte ^ 2)
predeploy(name) == L2Namespace + Indexes[name]

\* GetStorageLayout
layouts == Layouts[build]

GenesisInit ==
    /\ BackendInit
    /\ user \in {"client", "tool"} /\ (user = "tool" => merged)
    /\ config \in Configs /\ l1Block \in L1Blocks /\ build \in DOMAIN Layouts
    /\ user = "client" => config = CHOOSE c \in Configs : TRUE
    /\ user = "client" => l1Block = CHOOSE b \in L1Blocks : TRUE
    /\ user = "client" => build = CHOOSE l \in DOMAIN Layouts : TRUE
    /\ pc = "start" /\ queue = <<>> /\ todo = {} /\ codes = <<>> /\ alloc = <<>>

-----------------------------------------------------------------------------
(* The configuration of the predeploys *)

go(type, v) == [go |-> type, v |-> v]
both(p, i) == [proxy |-> <<p>>, impl |-> <<i>>]
proxyOnly(p) == [proxy |-> <<p>>, impl |-> <<>>]

GeneratePredeployConfig ==
    LET common == [_initialized |-> both(go("uint8", 1), go("uint8", Byte - 1)),
                   _initializing |-> both(go("bool", 0), go("bool", 0)),
                   _owner |-> proxyOnly(go("Address", config.owner))]
        of(name, proxied, init, storages) ==
            [proxied |-> proxied, initializerValues |-> init, storages |-> storages @@ common]
    IN  [UUPSPlaceholder |-> of("UUPSPlaceholder", FALSE, {}, <<>>),
         L1Oracle |-> of("L1Oracle", TRUE, {},
            [number |-> proxyOnly(go("*Int", l1Block.number)),
             timestamp |-> proxyOnly(go("uint64", l1Block.time)),
             baseFee |-> proxyOnly(go("*Int", l1Block.baseFee)),
             hash |-> proxyOnly(go("Hash", l1Block.hash)),
             stateRoot |-> proxyOnly(go("Hash", l1Block.root))]),
         L2Portal |-> of("L2Portal", TRUE, {"_l1PortalAddress"},
            [l1PortalAddress |-> proxyOnly(go("Address", config.l1Portal)),
             l1Sender |-> proxyOnly(go("Address", config.l1Sender))]),
         L2StandardBridge |-> of("L2StandardBridge", TRUE, {"_otherBridge"},
            [OTHER_BRIDGE |-> proxyOnly(go("Address", config.l1Bridge)),
             PORTAL_ADDRESS |-> proxyOnly(go("Address", predeploy("L2Portal")))])]
predeploys == GeneratePredeployConfig

Check(p) ==
    \A name \in DOMAIN InitialisedBy :
        name \in DOMAIN p /\ InitialisedBy[name] \in p[name].initializerValues

\* The values a proxy or an implementation is given.
values(name, side) ==
    LET s == predeploys[name].storages
    IN  [label \in {l \in DOMAIN s : s[l][side] # <<>>} |-> s[label][side][1]]

-----------------------------------------------------------------------------
(* memory_db.go *)

emptyAccount == [code |-> <<>>, storage |-> <<>>, balance |-> 0, nonce |-> 0]
CreateAccount(db, a) == db @@ (a :> emptyAccount)
SetCode(db, a, code) == IF a \in DOMAIN db THEN [db EXCEPT ![a].code = code] ELSE db
SetStates(db, a, slots) == [db EXCEPT ![a].storage = slots @@ @]

-----------------------------------------------------------------------------
(* The steps of the tool *)

Goto(next) == pc' = next /\ UNCHANGED <<inputs>>
Fails(failures) == \E f \in failures : Goto(IF f = Panic THEN "panicked" ELSE "failed")

\* Dialling, reading the L1 block and the configuration fail or not; then NewL2EmptyGenesis
\* and the checks of BuildSpecular.
GenerateSpecularGenesis ==
    /\ pc = "start"
    /\ \/ /\ config.chainID # 0 /\ config.extraData <= MaxExtra /\ Check(predeploys)
          /\ Goto("send") /\ queue' = [i \in DOMAIN Impls |-> <<Impls[i], Impls[i]>>]
       \/ Goto("failed") /\ UNCHANGED queue
    /\ UNCHANGED <<backend, todo, codes, alloc>>

\* Deploy: cb creates a transaction with the pending nonce.  A constructor may revert.
deployment == [from |-> TestAddress, nonce |-> pendingState.nonce[TestAddress], does |-> "deploys"]
Send ==
    /\ pc = "send" /\ queue # <<>>
    /\ \E does \in {"deploys", "reverts"} : SendTransaction([deployment EXCEPT !.does = does])
    /\ Goto("commit") /\ UNCHANGED <<queue, todo, codes, alloc>>

DeployCommit_none ==
    /\ pc = "commit"
    /\ Goto("wait") /\ UNCHANGED <<backend, queue, todo, codes, alloc>>
DeployCommit ==
    /\ pc = "commit"
    /\ Commit
    /\ Goto("wait") /\ UNCHANGED <<queue, todo, codes, alloc>>

\* WaitDeployed, then the code at the address.  Code has the address of its deployment
\* built in; the results of the proxies are all filed under the name of their contract.
lastSent == Last(allTxs(pendingBlock))
Wait ==
    /\ pc = "wait" /\ TransactionReceipt(lastSent)
    /\ \/ /\ ~CodeAt(lastSent)
          /\ Goto("failed") /\ UNCHANGED <<queue, codes>>
       \/ /\ CodeAt(lastSent)
          /\ codes' = IF Head(queue)[2] = "ERC1967Proxy" THEN codes
                      ELSE codes @@ (Head(queue)[1] :> <<Head(queue)[2], lastSent.nonce>>)
          /\ queue' = Tail(queue) /\ Goto("send")
    /\ UNCHANGED <<backend, todo, alloc>>

\* The proxies are queued in any order once the implementations are deployed.
proxied == {name \in Names : predeploys[name].proxied}
BuildPredeployProxies ==
    /\ pc = "send" /\ queue = <<>> /\ Len(allTxs(head)) = Len(Impls)
    /\ queue' \in {[i \in DOMAIN order |-> <<order[i], "ERC1967Proxy">>] : order \in SetToSeqs(proxied)}
    /\ Goto("send") /\ UNCHANGED <<backend, todo, codes, alloc>>

Deployed ==
    /\ pc = "send" /\ queue = <<>> /\ Len(allTxs(head)) = Len(Impls) + Cardinality(proxied)
    /\ todo' = Names
    /\ Goto("setup") /\ UNCHANGED <<backend, queue, codes, alloc>>

implAddr(name) ==
    IF predeploys[name].proxied THEN AddressToCodeNamespace(predeploy(name)) ELSE predeploy(name)
setupPredeploy(db, name, slots) ==
    SetStates(SetCode(CreateAccount(db, implAddr(name)), implAddr(name), codes[name]),
              implAddr(name), slots)
\* proxyDeployments has no entry of this name: the code is empty.
setupProxy(db, name, slots) ==
    LET a == predeploy(name)
    IN  IF ~predeploys[name].proxied THEN db
        ELSE SetStates(SetCode(CreateAccount(db, a), a, <<>>), a,
                       slots @@ (<<ImplementationSlot>> :> implAddr(name)))

Setup ==
    /\ pc = "setup"
    /\ \E name \in todo :
          LET impl == ComputeStorageSlots(layouts[name], values(name, "impl"))
              proxy == ComputeStorageSlots(layouts[name], values(name, "proxy"))
              failures == IF impl.failures # {} \/ ~predeploys[name].proxied THEN impl.failures
                          ELSE proxy.failures
          IN  IF failures # {} THEN Fails(failures) /\ UNCHANGED <<todo, alloc>>
              ELSE /\ alloc' = setupProxy(setupPredeploy(alloc, name, impl.slots), name, proxy.slots)
                   /\ todo' = todo \ {name} /\ Goto(IF todo' = {} THEN "empties" ELSE "setup")
    /\ UNCHANGED <<backend, queue, codes>>

\* The other addresses of the namespace, up to and including the count.
empties == {L2Namespace + i : i \in 0..PredeployProxyCount} \ {predeploy(name) : name \in Names}
setupEmptyProxy(slots) ==
    [emptyAccount EXCEPT
        !.code = <<"ERC1967Proxy">>,
        !.storage = slots @@ (<<ImplementationSlot>> :> predeploy("UUPSPlaceholder"))]
Empties ==
    /\ pc = "empties"
    /\ LET r == ComputeStorageSlots(layouts["UUPSPlaceholder"], values("UUPSPlaceholder", "proxy"))
       IN  IF r.failures # {} THEN Fails(r.failures) /\ UNCHANGED alloc
           ELSE alloc' = alloc @@ [a \in empties |-> setupEmptyProxy(r.slots)] /\ Goto("allocs")
    /\ UNCHANGED <<backend, queue, todo, codes>>

\* A configured balance always replaces the old one; code, storage and a nonce if given.
setupAllocs(db, given) ==
    LET over(old, new) ==
            [balance |-> new.balance, nonce |-> IF new.nonce = 0 THEN old.nonce ELSE new.nonce,
             code |-> IF new.code = <<>> THEN old.code ELSE new.code,
             storage |-> IF DOMAIN new.storage = {} THEN old.storage ELSE new.storage]
    IN  [a \in DOMAIN given |-> IF a \in DOMAIN db THEN over(db[a], given[a]) ELSE given[a]] @@ db
Allocs ==
    /\ pc = "allocs"
    /\ alloc' = setupAllocs(alloc, config.alloc)
    /\ Goto("write") /\ UNCHANGED <<backend, queue, todo, codes>>

\* The files, which may fail.
Write ==
    /\ pc = "write"
    /\ Goto("done") \/ Goto("failed")
    /\ UNCHANGED <<backend, queue, todo, codes, alloc>>

Tool ==
    \/ GenerateSpecularGenesis \/ Send \/ DeployCommit \/ Wait \/ BuildPredeployProxies
    \/ Deployed \/ Setup \/ Empties \/ Allocs \/ Write

-----------------------------------------------------------------------------
(* Properties *)

\* Whatever the order of the loops, genesis has the same accounts: the implementations
\* carry the code of their own deployment, at the address that belongs to the predeploy;
\* every address of the namespace names an implementation that has code.  The proxies of
\* the four predeploys have no code themselves unless the configuration gives it; read
\* with the layout of its contract, the storage of each is what was configured, the values
\* of the L1 start block among it.
decodes(name) ==
    \A i \in DOMAIN layouts[name] :
        LET entry == layouts[name][i]
            given == values(name, "proxy")
        IN  entry.label \in DOMAIN given =>
                decode(alloc[predeploy(name)].storage, entry) = given[entry.label].v
GenesisExact ==
    pc = "write" =>
        LET given == DOMAIN config.alloc
            impl(name) == IF predeploys[name].proxied THEN CodeNamespace + Indexes[name]
                          ELSE predeploy(name)
            slot(a) == alloc[a].storage[<<ImplementationSlot>>]
        IN  /\ DOMAIN alloc = {L2Namespace + i : i \in 0..PredeployProxyCount}
                                \cup {impl(name) : name \in Names} \cup given
            /\ \A i \in DOMAIN Impls :
                  impl(Impls[i]) \notin given => alloc[impl(Impls[i])].code = <<Impls[i], i - 1>>
            /\ \A name \in proxied : predeploy(name) \notin given =>
                  /\ slot(predeploy(name)) = impl(name) /\ alloc[predeploy(name)].code = <<>>
                  /\ decodes(name)
            /\ \A a \in empties \ given :
                  slot(a) = predeploy("UUPSPlaceholder") /\ alloc[a].code = <<"ERC1967Proxy">>

\* The tool ends: no deployment waits for a receipt that never comes.
ToolEnds == (user = "tool") ~> (pc \in {"done", "failed", "panicked"})
=============================================================================
