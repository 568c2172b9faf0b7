------------------------------- MODULE Sidecar ------------------------------
(***************************************************************************)
(* cmd/sidecar/main.go with services/config.go: one process that reads its *)
(* configuration, starts the L1 syncer and then the services it enables,   *)
(* the disseminator and the validator, and waits for them.  The services   *)
(* are goroutines of one errgroup, whose context also ends the syncer.     *)
(* They go on until that context is done; only the validator's start       *)
(* returns errors (both loops look for the value of an error they only     *)
(* ever return as a pointer).                                              *)
(***************************************************************************)
EXTENDS L1Sync

CONSTANT
    SystemConfig        \* the flags the process may be given

VARIABLES
    cfg,                \* service -> what the flags say
    main,               \* where startServices is
    service,            \* service -> its goroutine
    exit                \* how the process ended

mainVars == <<cfg, main, service, exit>>
vars == <<ctx, stopped, tag, feed, mainVars>>

Service == {"disseminator", "validator"}
Flags == [enabled : BOOLEAN, key : {"none", "malformed", "valid"}, clef : BOOLEAN]
ASSUME ConfigAssumption == SystemConfig \subseteq [Service -> Flags]

Init ==
    /\ SyncInit
    /\ cfg \in SystemConfig
    /\ main = "parse" /\ exit = "none"
    /\ service = [s \in Service |-> "off"]

-----------------------------------------------------------------------------
(* services/config.go *)

\* toPrivateKey panics, the service enabled or not.
toPrivateKey(key) == IF key = "none" THEN "nil" ELSE IF key = "valid" THEN "key" ELSE "panic"

\* A disabled service needs no signer; one of the two services must be enabled.
validateService(c) == c.enabled => toPrivateKey(c.key) # "nil" \/ c.clef
validate(c) == (\E s \in Service : c[s].enabled) /\ \A s \in Service : validateService(c[s])

-----------------------------------------------------------------------------
(* startServices *)

Exit(status) == main' = "exited" /\ exit' = status

\* The file of the rollup configuration is read before the flags of the services.
ParseSystemConfig ==
    /\ main = "parse"
    /\ \/ Exit("error")
       \/ (\E s \in Service : toPrivateKey(cfg[s].key) = "panic") /\ Exit("panic")
       \/ /\ \A s \in Service : toPrivateKey(cfg[s].key) # "panic"
          /\ IF validate(cfg) THEN main' = "l1State" /\ UNCHANGED exit ELSE Exit("error")
    /\ UNCHANGED <<cfg, service, ctx, stopped, tag, feed>>

\* Three attempts to connect to a node, which may all fail.
DialWithRetry == {"client", "error"}

createL1State ==
    /\ main = "l1State"
    /\ \E result \in DialWithRetry :
          \/ result = "client" /\ Start /\ main' = "disseminator" /\ UNCHANGED exit
          \/ result = "error" /\ Exit("error") /\ UNCHANGED <<ctx, stopped, tag, feed>>
    /\ UNCHANGED <<cfg, service>>

\* Clef is preferred; without it there must be a key.
createTransactor(c) == IF c.clef THEN "clef" ELSE toPrivateKey(c.key)

\* A service starts unless a dial, of L1 or L2, fails: the process then ends with whatever
\* is running.
createService(s, next) ==
    /\ main = s
    /\ \/ ~cfg[s].enabled /\ main' = next /\ UNCHANGED <<service, exit>>
       \/ /\ cfg[s].enabled
          /\ \E result \in DialWithRetry :
                IF result = "client" /\ createTransactor(cfg[s]) # "nil"
                THEN /\ service' = [service EXCEPT ![s] = "running"]
                     /\ main' = next /\ UNCHANGED exit
                ELSE Exit("error") /\ UNCHANGED service
    /\ UNCHANGED <<cfg, ctx, stopped, tag, feed>>
createDisseminator == createService("disseminator", "validator")
createValidator == createService("validator", "wait")

\* Validator.start fails before its loop: the errgroup cancels its context.
serviceFails_logged(s) ==
    /\ s = "validator" /\ service[s] = "running"
    /\ service' = [service EXCEPT ![s] = "failed"]
    /\ UNCHANGED ctx
serviceFails(s) ==
    /\ s = "validator" /\ service[s] = "running"
    /\ service' = [service EXCEPT ![s] = "failed"]
    /\ ctx' = "done"
ServiceFails(s) == main # "exited" /\ serviceFails(s) /\ UNCHANGED <<cfg, main, exit, stopped, tag, feed>>

ServiceStops(s) ==
    /\ main # "exited" /\ service[s] = "running" /\ ctx = "done"
    /\ service' = [service EXCEPT ![s] = "stopped"]
    /\ UNCHANGED <<cfg, main, exit, ctx, stopped, tag, feed>>

\* eg.Wait: for all services, and the first error.
Wait ==
    /\ main = "wait"
    /\ \A s \in Service : service[s] # "running"
    /\ Exit(IF \E s \in Service : service[s] = "failed" THEN "error" ELSE "ok")
    /\ UNCHANGED <<cfg, service, ctx, stopped, tag, feed>>

-----------------------------------------------------------------------------
Startup ==
    \/ ParseSystemConfig \/ createL1State
    \/ createDisseminator \/ createValidator \/ Wait

Running == main # "exited" /\ (Sync \/ Stop) /\ UNCHANGED mainVars

Next ==
    \/ Startup \/ Running
    \/ \E s \in Service : ServiceFails(s) \/ ServiceStops(s)

Spec == Init /\ [][Next]_vars

alive(A) == main # "exited" /\ A /\ UNCHANGED <<ctx, stopped, tag, mainVars>>

\* Goroutines that can go on do.
FairSpec ==
    /\ Spec /\ WF_vars(Startup)
    /\ \A s \in Service : WF_vars(ServiceStops(s))
    /\ WF_vars(alive(Poller)) /\ WF_vars(alive(Broker)) /\ WF_vars(alive(Subscriber))

-----------------------------------------------------------------------------
(* Properties *)

\* Variables have their types.
TypeOK ==
    /\ SyncTypeOK
    /\ cfg \in SystemConfig
    /\ main \in {"parse", "l1State", "wait", "exited"} \cup Service
    /\ service \in [Service -> {"off", "running", "failed", "stopped"}]
    /\ exit \in {"none", "ok", "error", "panic"}

\* startServices never returns nil: a process that waits has an enabled service, and its
\* context ends only after an error.
NeverEndsWell == exit # "ok"

\* The failure of one service ends the other and the process, which reports it.
FailureEndsProcess ==
    (\E s \in Service : service[s] = "failed") ~> exit = "error"

\* A header that was polled reaches EthState while the process, the broker and the
\* subscription live: broker and subscriber never wait for each other.
HeaderArrives ==
    inFlight # <<>> ~> \/ inFlight = <<>> \/ main = "exited"
                       \/ feed.subscriber # "select" \/ feed.broker = "ended"
=============================================================================
