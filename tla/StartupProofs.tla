---------------------------- MODULE StartupProofs ----------------------------
(***************************************************************************)
(* Proofs about the start of the program, for any configuration file and   *)
(* any limits.                                                             *)
(*                                                                         *)
(* ConfigFaithful speaks of the maps once they are built.  The inductive   *)
(* invariant, BuildInv, says what they hold at any moment of the loop of   *)
(* ProxyConfig::try_from: the pools of the apps begun, and the ports at    *)
(* the positions gone through, each once and leading to its app's pool.    *)
(***************************************************************************)
EXTENDS Startup, TLAPS

\* How many ports of app i the loop has gone through, once it has begun a
\* apps and q ports of the last of them.
Seen(i, a, q) == IF i = a THEN q ELSE Len(apps[i].ports)

PoolsBuilt ==
    /\ target_pools \in Seq(Seq(Targets))
    /\ Len(target_pools) = app
    /\ \A i \in 1 .. app : target_pools[i] = apps[i].targets

PortsBuilt ==
    /\ \A i \in 1 .. app : \A n \in 1 .. Seen(i, app, port) :
         apps[i].ports[n] \in Ports /\ port_to_pool[apps[i].ports[n]] = i
    /\ \A p \in Ports : \E i \in 1 .. app :
         \E n \in 1 .. Seen(i, app, port) : p = apps[i].ports[n]
    /\ \A i \in 1 .. app : \A m, n \in 1 .. Seen(i, app, port) :
         apps[i].ports[m] = apps[i].ports[n] => m = n

BuildInv ==
    /\ PoolsBuilt
    /\ PortsBuilt
    /\ pc \in {"parse", "load"} => app = 0
    /\ pc \in {"targets", "resolver", "new", "serve"} => app = Len(apps) /\ AppDone
    /\ error = "ConfigIngestError" => Duplicated

TargetsOf(raw) == UNION {{raw[i].targets[n] : n \in DOMAIN raw[i].targets} : i \in DOMAIN raw}

WiringInv ==
    /\ pc \in {"resolver", "new", "serve"} => target_keys = TargetsOf(apps)
    /\ pc \in {"new", "serve"} => counters = Ports

\* What the exit tells of the maps as built, and the signal task of the token.
ExitInv ==
    /\ pc # "over" => exit = "none" /\ error = "none"
    /\ pc \in {"parse", "load", "ingest", "targets"} => watcher = "none"
    /\ cancelled => watcher \in {"notified", "failed"}
    /\ pc = "serve" => ~TooLarge
    /\ exit = "SUCCESS" => /\ app = Len(apps) /\ AppDone /\ ~TooLarge
                           /\ watcher \in {"notified", "failed"} \/ Ports = {}
    /\ error = "ServerError" => /\ app = Len(apps) /\ AppDone
                                /\ exit = "FAILURE" /\ Ports # {}
    /\ exit = "killed" => watcher \notin {"waiting", "notified"}

StartupInv == StartupTypeOK /\ BuildInv /\ WiringInv /\ ExitInv
-----------------------------------------------------------------------------
\* The shape of a configuration file.
LEMMA ConfigShape ==
  ASSUME apps \in RawConfigs
  PROVE  /\ Len(apps) \in Nat /\ DOMAIN apps = 1 .. Len(apps)
         /\ \A i \in 1 .. Len(apps) :
              /\ apps[i].ports \in Seq(Nat) /\ Len(apps[i].ports) \in Nat
              /\ DOMAIN apps[i].ports = 1 .. Len(apps[i].ports)
              /\ apps[i].targets \in Seq(Targets)
<1> DEFINE App == [ports : Seq(Nat), targets : Seq(Targets)]
<1>1. apps \in Seq(App)
  BY RawConfigAssumption
<1>2. ASSUME NEW i \in 1 .. Len(apps)
      PROVE  apps[i].ports \in Seq(Nat) /\ apps[i].targets \in Seq(Targets)
  <2> HIDE DEF App
  <2>1. apps[i] \in App
    BY <1>1
  <2> QED BY <2>1 DEF App
<1> QED BY <1>1, <1>2

\* A step that leaves the file and the maps alone leaves what is built.
LEMMA BuildSame ==
  ASSUME PoolsBuilt, PortsBuilt, UNCHANGED <<apps, build>>
  PROVE  PoolsBuilt' /\ PortsBuilt'
BY DEF PoolsBuilt, PortsBuilt, Seen, build, Ports

\* PortsBuilt after a step that leaves the file alone.
LEMMA PortsHold ==
  ASSUME apps' = apps,
         \A i \in 1 .. app' : \A n \in 1 .. Seen(i, app', port') :
           apps[i].ports[n] \in Ports' /\ port_to_pool'[apps[i].ports[n]] = i,
         \A p \in Ports' : \E i \in 1 .. app' :
           \E n \in 1 .. Seen(i, app', port') : p = apps[i].ports[n],
         \A i \in 1 .. app' : \A m, n \in 1 .. Seen(i, app', port') :
           apps[i].ports[m] = apps[i].ports[n] => m = n
  PROVE  PortsBuilt'
<1>1. \A i : Seen(i, app, port)' = Seen(i, app', port')
  BY DEF Seen
<1> QED BY <1>1 DEF PortsBuilt

\* A new app adds its pool and no port.
LEMMA IngestAppBuilds ==
  ASSUME StartupTypeOK, PoolsBuilt, PortsBuilt, IngestApp
  PROVE  /\ PoolsBuilt' /\ PortsBuilt'
         /\ app' \in 0 .. Len(apps) /\ port' = 0 /\ app' # 0
<1>1. /\ app' = app + 1 /\ port' = 0 /\ app \in Nat /\ app + 1 \in 1 .. Len(apps)
      /\ target_pools' = Append(target_pools, apps[app + 1].targets)
      /\ UNCHANGED <<apps, port_to_pool>>
      /\ app > 0 => port = Len(apps[app].ports)
  BY ConfigShape DEF IngestApp, StartupTypeOK, inputs, AppDone
<1>s. apps[app + 1].targets \in Seq(Targets)
  BY <1>1, ConfigShape DEF StartupTypeOK
<1>2. PoolsBuilt'
  <2>1. /\ target_pools' \in Seq(Seq(Targets)) /\ Len(target_pools') = app + 1
        /\ \A i \in 1 .. app : target_pools'[i] = target_pools[i]
        /\ target_pools'[app + 1] = apps[app + 1].targets
    BY <1>1, <1>s DEF PoolsBuilt
  <2>2. \A i \in 1 .. app + 1 : target_pools'[i] = apps[i].targets
    BY <1>1, <2>1 DEF PoolsBuilt
  <2> QED BY <1>1, <2>1, <2>2 DEF PoolsBuilt
<1>3. \A i \in 1 .. app : Seen(i, app', port') = Seen(i, app, port)
  BY <1>1 DEF Seen
<1>4. Seen(app + 1, app', port') = 0
  BY <1>1 DEF Seen
<1>5. PortsBuilt'
  <2>1. \A i \in 1 .. app + 1 : \A n \in 1 .. Seen(i, app', port') : i \in 1 .. app /\ n \in 1 .. Seen(i, app, port)
    BY <1>1, <1>3, <1>4
  <2>2. \A i \in 1 .. app + 1 : \A n \in 1 .. Seen(i, app', port') :
          apps[i].ports[n] \in Ports /\ port_to_pool[apps[i].ports[n]] = i
    BY <2>1 DEF PortsBuilt
  <2>3. \A p \in Ports : \E i \in 1 .. app + 1 : \E n \in 1 .. Seen(i, app', port') : p = apps[i].ports[n]
    BY <1>1, <1>3 DEF PortsBuilt
  <2>4. \A i \in 1 .. app + 1 : \A m, n \in 1 .. Seen(i, app', port') :
          apps[i].ports[m] = apps[i].ports[n] => m = n
    BY <2>1 DEF PortsBuilt
  <2> QED BY <1>1, <2>2, <2>3, <2>4, PortsHold DEF Ports
<1> QED BY <1>1, <1>2, <1>5

\* A port that is not taken is added, once, with the current app's pool.
LEMMA IngestPortBuilds ==
  ASSUME StartupTypeOK, PoolsBuilt, PortsBuilt, IngestPort,
         apps[app].ports[port + 1] \notin Ports
  PROVE  /\ PoolsBuilt' /\ PortsBuilt'
         /\ UNCHANGED <<apps, app, pc, error, exit>>
         /\ port' \in 1 .. Len(apps[app].ports) /\ app \in 1 .. Len(apps)
<1> DEFINE p == apps[app].ports[port + 1]
<1>1. /\ app \in 1 .. Len(apps) /\ port \in Nat /\ port + 1 \in 1 .. Len(apps[app].ports)
      /\ Len(apps[app].ports) \in Nat
  BY ConfigShape DEF StartupTypeOK, IngestPort, AppDone
<1>2. /\ port' = port + 1
      /\ port_to_pool' = [q \in Ports \cup {p} |->
                            IF q = p THEN Len(target_pools) ELSE port_to_pool[q]]
      /\ UNCHANGED <<apps, app, pc, error, exit, target_pools>>
  BY DEF IngestPort, inputs, result
<1>3. Len(target_pools) = app
  BY DEF PoolsBuilt
<1>p. p \notin Ports
  OBVIOUS
<1> HIDE DEF p
<1>4. /\ Ports' = Ports \cup {p} /\ port_to_pool'[p] = app
      /\ \A q \in Ports : port_to_pool'[q] = port_to_pool[q]
  BY <1>2, <1>3, <1>p DEF Ports
<1>5. PoolsBuilt'
  BY <1>2 DEF PoolsBuilt
<1>6. \A i \in 1 .. app : i # app => Seen(i, app', port') = Seen(i, app, port)
  BY <1>2 DEF Seen
<1>7. Seen(app, app, port) = port /\ Seen(app, app', port') = port + 1
  BY <1>2 DEF Seen
<1>8. ASSUME NEW i \in 1 .. app, NEW n \in 1 .. Seen(i, app', port')
      PROVE  n \in 1 .. Seen(i, app, port) \/ (i = app /\ n = port + 1)
  <2>1. CASE i = app
    BY <1>1, <1>7, <2>1
  <2>2. CASE i # app
    BY <1>6, <2>2
  <2> QED BY <2>1, <2>2
<1>9. ASSUME NEW i \in 1 .. app, NEW n \in 1 .. Seen(i, app, port)
      PROVE  n \in 1 .. Seen(i, app', port')
  <2>1. CASE i = app
    BY <1>1, <1>7, <2>1
  <2>2. CASE i # app
    BY <1>6, <2>2
  <2> QED BY <2>1, <2>2
<1>10. ASSUME NEW i \in 1 .. app, NEW n \in 1 .. Seen(i, app', port')
       PROVE  apps[i].ports[n] \in Ports' /\ port_to_pool'[apps[i].ports[n]] = i
  <2>1. CASE n \in 1 .. Seen(i, app, port)
    BY <2>1, <1>4 DEF PortsBuilt
  <2>2. CASE i = app /\ n = port + 1
    BY <2>2, <1>4 DEF p
  <2> QED BY <1>8, <2>1, <2>2
<1>11. ASSUME NEW q \in Ports'
       PROVE  \E i \in 1 .. app : \E n \in 1 .. Seen(i, app', port') : q = apps[i].ports[n]
  <2>1. CASE q \in Ports
    BY <2>1, <1>9 DEF PortsBuilt
  <2>2. CASE q = p
    <3>1. app \in 1 .. app /\ port + 1 \in 1 .. Seen(app, app', port')
      BY <1>1, <1>7
    <3> QED BY <2>2, <3>1 DEF p
  <2> QED BY <1>4, <2>1, <2>2
<1>12. ASSUME NEW i \in 1 .. app, NEW m \in 1 .. Seen(i, app', port'), NEW n \in 1 .. Seen(i, app', port'),
              apps[i].ports[m] = apps[i].ports[n]
       PROVE  m = n
  <2>1. CASE m \in 1 .. Seen(i, app, port) /\ n \in 1 .. Seen(i, app, port)
    BY <1>12, <2>1 DEF PortsBuilt
  <2>2. CASE i = app /\ m = port + 1 /\ n \in 1 .. Seen(i, app, port)
    BY <1>12, <2>2, <1>p DEF PortsBuilt, p
  <2>3. CASE i = app /\ n = port + 1 /\ m \in 1 .. Seen(i, app, port)
    BY <1>12, <2>3, <1>p DEF PortsBuilt, p
  <2> QED BY <1>8, <2>1, <2>2, <2>3
<1>13. PortsBuilt'
  BY <1>2, <1>10, <1>11, <1>12, PortsHold
<1> QED BY <1>1, <1>2, <1>5, <1>13

\* A port that is taken is listed twice: here and where it was taken.
LEMMA RefusedIsDuplicated ==
  ASSUME StartupTypeOK, PortsBuilt, IngestPort, apps[app].ports[port + 1] \in Ports
  PROVE  Duplicated
<1>1. /\ app \in 1 .. Len(apps) /\ port \in Nat /\ port + 1 \in 1 .. Len(apps[app].ports)
      /\ DOMAIN apps = 1 .. Len(apps) /\ Len(apps) \in Nat
      /\ \A i \in 1 .. Len(apps) : /\ DOMAIN apps[i].ports = 1 .. Len(apps[i].ports)
                                   /\ Len(apps[i].ports) \in Nat
  BY ConfigShape DEF StartupTypeOK, IngestPort, AppDone
<1>2. PICK i \in 1 .. app : \E n \in 1 .. Seen(i, app, port) : apps[app].ports[port + 1] = apps[i].ports[n]
  BY DEF PortsBuilt
<1>3. PICK n \in 1 .. Seen(i, app, port) : apps[app].ports[port + 1] = apps[i].ports[n]
  BY <1>2
<1>4. /\ i \in DOMAIN apps /\ app \in DOMAIN apps
      /\ port + 1 \in DOMAIN apps[app].ports /\ n \in DOMAIN apps[i].ports
      /\ i # app \/ n # port + 1
  <2>1. CASE i = app
    BY <1>1, <2>1 DEF Seen
  <2>2. CASE i # app
    BY <1>1, <2>2 DEF Seen
  <2> QED BY <2>1, <2>2
<1>5. <<app, port + 1>> # <<i, n>>
  BY <1>4
<1> QED BY <1>3, <1>4, <1>5 DEF Duplicated
-----------------------------------------------------------------------------
\* The program starts with empty maps.
LEMMA StartupInit == Init => StartupInv
<1> SUFFICES ASSUME Init PROVE StartupInv
  OBVIOUS
<1>1. Len(apps) \in Nat
  BY ConfigShape DEF Init
<1>2. StartupTypeOK
  <2>1. app \in 0 .. Len(apps) /\ app = 0 /\ port \in 0 .. 0
    BY <1>1 DEF Init
  <2> QED BY <2>1, Zenon DEF Init, StartupTypeOK
<1>3. PoolsBuilt /\ PortsBuilt
  <2>1. <<>> \in Seq(Seq(Targets)) /\ Len(<<>>) = 0 /\ DOMAIN <<>> = {}
    OBVIOUS
  <2> QED BY <2>1 DEF Init, PoolsBuilt, PortsBuilt, Ports
<1> QED BY <1>2, <1>3 DEF Init, StartupInv, BuildInv, WiringInv, ExitInv

\* A step that leaves the file and the maps alone.
LEMMA QuietBuild ==
  ASSUME StartupInv, UNCHANGED <<inputs, build>>,
         pc' \in {"targets", "resolver", "new", "serve"} => app = Len(apps) /\ AppDone,
         pc' \in {"parse", "load"} => pc \in {"parse", "load"},
         error' = "ConfigIngestError" => error = "ConfigIngestError"
  PROVE  BuildInv'
<1>1. PoolsBuilt' /\ PortsBuilt'
  BY BuildSame DEF StartupInv, BuildInv, inputs
<1>2. (Duplicated <=> Duplicated') /\ (AppDone <=> AppDone')
  BY DEF Duplicated, AppDone, inputs, build
<1> QED BY <1>1, <1>2 DEF StartupInv, BuildInv, inputs, build

\* Every step keeps the invariant.
LEMMA StartupStep == StartupInv /\ [Next]_vars => StartupInv'
<1> SUFFICES ASSUME StartupInv, [Next]_vars PROVE StartupInv'
  OBVIOUS
<1>t. /\ apps \in RawConfigs /\ Len(apps) \in Nat
      /\ \A i \in 1 .. Len(apps) : Len(apps[i].ports) \in Nat
      /\ app \in 0 .. Len(apps)
  BY ConfigShape DEF StartupInv, StartupTypeOK
<1> USE DEF ExitInv, WiringInv
<1>1. CASE ParseFail \/ NewPanic \/ SignalKills
  <2>1. BuildInv'
    BY <1>1, QuietBuild DEF ParseFail, NewPanic, SignalKills, Die
  <2>2. StartupTypeOK'
    BY <1>1 DEF StartupInv, StartupTypeOK, ParseFail, NewPanic, SignalKills, Die,
       inputs, build, proc
  <2>3. WiringInv' /\ ExitInv'
    BY <1>1 DEF StartupInv, ParseFail, NewPanic, SignalKills, Die, proc
  <2> QED BY <2>1, <2>2, <2>3 DEF StartupInv
<1>2. CASE Parse \/ Load \/ Ingested \/ New
  <2>1. BuildInv'
    BY <1>2, QuietBuild DEF Parse, Load, Ingested, New, result, StartupInv, BuildInv
  <2>2. StartupTypeOK'
    BY <1>2 DEF StartupInv, StartupTypeOK, Parse, Load, Ingested, New, inputs, result,
       build, proc
  <2>3. WiringInv' /\ ExitInv'
    BY <1>2 DEF StartupInv, Parse, Load, Ingested, New, inputs, result, build, wiring,
       proc, TargetsOf, Ports, TooLarge
  <2> QED BY <2>1, <2>2, <2>3 DEF StartupInv
<1>3. ASSUME \/ \E e \in {"IoError", "JsonError"} : LoadFail(e)
             \/ ResolverFail
             \/ \E e \in {"none", "ServerError"} : ServerReturns(e)
      PROVE  StartupInv'
  <2>1. BuildInv'
    BY <1>3, QuietBuild DEF LoadFail, ResolverFail, ServerReturns, Exit
  <2>2. StartupTypeOK'
    BY <1>3 DEF StartupInv, StartupTypeOK, LoadFail, ResolverFail, ServerReturns, Exit,
       inputs, build, proc
  <2>3. pc = "serve" => app = Len(apps) /\ AppDone
    BY DEF StartupInv, BuildInv
  <2>4. (AppDone <=> AppDone') /\ (TooLarge <=> TooLarge') /\ Ports' = Ports
        /\ UNCHANGED <<app, apps, watcher, cancelled>>
    BY <1>3 DEF LoadFail, ResolverFail, ServerReturns, inputs, build, proc, AppDone, TooLarge, Ports
  <2>5. WiringInv' /\ ExitInv'
    BY <1>3, <2>3, <2>4 DEF StartupInv, LoadFail, ResolverFail, ServerReturns, Exit
  <2> QED BY <2>1, <2>2, <2>5 DEF StartupInv
<1>4. CASE IngestApp
  <2>1. /\ PoolsBuilt' /\ PortsBuilt' /\ app' \in 0 .. Len(apps) /\ port' = 0 /\ app' # 0
        /\ UNCHANGED <<inputs, pc, result, wiring, proc>> /\ pc = "ingest"
    BY <1>4, IngestAppBuilds DEF StartupInv, BuildInv, IngestApp
  <2>2. apps' = apps /\ error' # "ConfigIngestError"
    BY <2>1 DEF inputs, result, StartupInv
  <2>3. BuildInv'
    BY <2>1, <2>2 DEF BuildInv
  <2>4. Len(apps[app'].ports) \in Nat
    BY <1>t, <2>1
  <2>5. StartupTypeOK'
    BY <2>1, <2>2, <2>4 DEF StartupInv, StartupTypeOK, inputs, result, proc
  <2>6. WiringInv' /\ ExitInv'
    BY <2>1 DEF StartupInv, result, proc
  <2> QED BY <2>3, <2>5, <2>6 DEF StartupInv
<1>5. CASE IngestPort
  <2>1. CASE apps[app].ports[port + 1] \in Ports
    <3>1. Duplicated
      BY <1>5, <2>1, RefusedIsDuplicated DEF StartupInv, BuildInv
    <3>2. /\ pc' = "over" /\ error' = "ConfigIngestError" /\ exit' = "FAILURE"
          /\ UNCHANGED <<inputs, build, wiring, proc>>
      BY <1>5, <2>1 DEF IngestPort, Exit
    <3>3. PoolsBuilt' /\ PortsBuilt'
      BY <3>2, BuildSame DEF StartupInv, BuildInv, inputs
    <3>4. Duplicated'
      BY <3>1, <3>2 DEF Duplicated, inputs
    <3>5. BuildInv'
      BY <3>2, <3>3, <3>4 DEF BuildInv
    <3>6. StartupTypeOK'
      BY <3>2 DEF StartupInv, StartupTypeOK, inputs, build, proc
    <3>7. WiringInv' /\ ExitInv'
      BY <3>2 DEF StartupInv, proc
    <3> QED BY <3>5, <3>6, <3>7 DEF StartupInv
  <2>2. CASE apps[app].ports[port + 1] \notin Ports
    <3>1. /\ PoolsBuilt' /\ PortsBuilt' /\ UNCHANGED <<apps, app, pc, error, exit>>
          /\ port' \in 1 .. Len(apps[app].ports) /\ app \in 1 .. Len(apps)
      BY <1>5, <2>2, IngestPortBuilds DEF StartupInv, BuildInv
    <3>2. UNCHANGED <<inputs, wiring, proc>> /\ pc = "ingest"
      BY <1>5 DEF IngestPort
    <3>3. BuildInv'
      BY <3>1, <3>2 DEF StartupInv, BuildInv
    <3>4. StartupTypeOK'
      BY <1>t, <3>1, <3>2 DEF StartupInv, StartupTypeOK, inputs, proc
    <3>5. WiringInv' /\ ExitInv'
      BY <3>1, <3>2 DEF StartupInv, proc
    <3> QED BY <3>3, <3>4, <3>5 DEF StartupInv
  <2> QED BY <2>1, <2>2
<1>6. CASE BuildTargets
  <2>1. BuildInv'
    BY <1>6, QuietBuild DEF BuildTargets, result, StartupInv, BuildInv
  <2>2. StartupTypeOK'
    BY <1>6 DEF StartupInv, StartupTypeOK, BuildTargets, inputs, result, build
  <2>3. WiringInv' /\ ExitInv'
    BY <1>6 DEF StartupInv, BuildTargets, inputs, result, TargetsOf
  <2> QED BY <2>1, <2>2, <2>3 DEF StartupInv
<1>7. CASE BuildBalancer
  <2>1. BuildInv'
    BY <1>7, QuietBuild DEF BuildBalancer, result, StartupInv, BuildInv
  <2>2. StartupTypeOK'
    BY <1>7 DEF StartupInv, StartupTypeOK, BuildBalancer, inputs, result, build, proc
  <2>3. WiringInv' /\ ExitInv'
    BY <1>7 DEF StartupInv, BuildBalancer, inputs, result, build, proc, TargetsOf, Ports
  <2> QED BY <2>1, <2>2, <2>3 DEF StartupInv
<1>8. CASE WatcherInstalls \/ WatcherPanics \/ CtrlCFails \/ SignalHandled
  <2>1. BuildInv'
    BY <1>8, QuietBuild DEF WatcherInstalls, WatcherPanics, CtrlCFails, SignalHandled, result,
       StartupInv, BuildInv
  <2>2. StartupTypeOK'
    BY <1>8 DEF StartupInv, StartupTypeOK, WatcherInstalls, WatcherPanics, CtrlCFails, SignalHandled,
       inputs, result, build
  <2>3. WiringInv' /\ ExitInv'
    BY <1>8 DEF StartupInv, WatcherInstalls, WatcherPanics, CtrlCFails, SignalHandled, inputs, result,
       build, wiring, TargetsOf, Ports, TooLarge
  <2> QED BY <2>1, <2>2, <2>3 DEF StartupInv
<1>9. CASE Over \/ UNCHANGED vars
  <2>0. UNCHANGED <<inputs, pc, result, build, wiring, proc>>
    BY <1>9 DEF Over, vars
  <2>1. BuildInv'
    BY <2>0, QuietBuild DEF result, StartupInv, BuildInv
  <2>2. StartupTypeOK'
    BY <2>0 DEF StartupInv, StartupTypeOK, inputs, result, build, proc
  <2>3. WiringInv' /\ ExitInv'
    BY <2>0 DEF StartupInv, inputs, result, build, wiring, proc, TargetsOf, Ports, TooLarge,
       AppDone
  <2> QED BY <2>1, <2>2, <2>3 DEF StartupInv
<1> QED BY <1>1, <1>2, <1>3, <1>4, <1>5, <1>6, <1>7, <1>8, <1>9 DEF Next, Starting

\* The invariant holds of every behaviour.
LEMMA StartupInvariance == Spec => []StartupInv
BY StartupInit, StartupStep, PTL DEF Spec

-----------------------------------------------------------------------------
\* The loops over apps and ports stay within the file, and main, its errors
\* and its exits within what the code has.
THEOREM StartupTypeCorrect == Spec => []StartupTypeOK
<1>1. StartupInv => StartupTypeOK
  BY DEF StartupInv
<1> QED BY <1>1, StartupInvariance, PTL

\* Once the loop has gone through the whole file no port was listed twice, and
\* the maps hold what the file says.
LEMMA IngestedIsFaithful ==
  ASSUME StartupInv, app = Len(apps), AppDone
  PROVE  /\ ~Duplicated
         /\ \A p \in Ports : \E i \in DOMAIN apps : \E n \in DOMAIN apps[i].ports :
              p = apps[i].ports[n]
         /\ \A i \in DOMAIN apps : \A n \in DOMAIN apps[i].ports :
              LET p == apps[i].ports[n] IN p \in Ports /\ GetPool(p) = apps[i].targets
<1>t. /\ DOMAIN apps = 1 .. Len(apps) /\ Len(apps) \in Nat
      /\ \A i \in 1 .. Len(apps) : DOMAIN apps[i].ports = 1 .. Len(apps[i].ports)
  BY ConfigShape DEF StartupInv, StartupTypeOK
<1>1. app = Len(apps) /\ (app > 0 => port = Len(apps[app].ports))
      /\ PortsBuilt /\ PoolsBuilt
  BY DEF StartupInv, BuildInv, AppDone
<1>2. \A i \in DOMAIN apps : /\ i \in 1 .. app
                             /\ DOMAIN apps[i].ports = 1 .. Seen(i, app, port)
  BY <1>1, <1>t DEF Seen
<1>3. ASSUME NEW i \in DOMAIN apps, NEW n \in DOMAIN apps[i].ports
      PROVE  /\ apps[i].ports[n] \in Ports /\ port_to_pool[apps[i].ports[n]] = i
             /\ GetPool(apps[i].ports[n]) = apps[i].targets
  <2>1. i \in 1 .. app /\ n \in 1 .. Seen(i, app, port)
    BY <1>2
  <2>2. apps[i].ports[n] \in Ports /\ port_to_pool[apps[i].ports[n]] = i
    BY <1>1, <2>1 DEF PortsBuilt
  <2>3. target_pools[i] = apps[i].targets
    BY <1>1, <2>1 DEF PoolsBuilt
  <2> QED BY <2>2, <2>3 DEF GetPool
<1>4. ~Duplicated
  <2> SUFFICES ASSUME NEW i \in DOMAIN apps, NEW j \in DOMAIN apps,
                      NEW m \in DOMAIN apps[i].ports, NEW n \in DOMAIN apps[j].ports,
                      apps[i].ports[m] = apps[j].ports[n]
               PROVE  <<i, m>> = <<j, n>>
    BY DEF Duplicated
  <2>1. i = j
    BY <1>3
  <2>2. i \in 1 .. app /\ m \in 1 .. Seen(i, app, port) /\ n \in 1 .. Seen(i, app, port)
    BY <2>1, <1>2
  <2>3. m = n
    BY <2>1, <2>2, <1>1 DEF PortsBuilt
  <2> QED BY <2>1, <2>3
<1>5. ASSUME NEW p \in Ports
      PROVE  \E i \in DOMAIN apps : \E n \in DOMAIN apps[i].ports : p = apps[i].ports[n]
  <2>1. PICK i \in 1 .. app : \E n \in 1 .. Seen(i, app, port) : p = apps[i].ports[n]
    BY <1>1 DEF PortsBuilt
  <2>2. i \in DOMAIN apps /\ DOMAIN apps[i].ports = 1 .. Seen(i, app, port)
    BY <1>1, <1>2, <1>t
  <2> QED BY <2>1, <2>2
<1> QED BY <1>3, <1>4, <1>5

\* ProxyConfig::try_from refuses only a file that lists a port twice, and a
\* file it accepts lists none twice and is mapped port by port.
THEOREM ConfigIsFaithful == Spec => []ConfigFaithful
<1>1. StartupInv => ConfigFaithful
  <2> SUFFICES ASSUME StartupInv PROVE ConfigFaithful
    OBVIOUS
  <2>1. error = "ConfigIngestError" => Duplicated
    BY DEF StartupInv, BuildInv
  <2>2. pc \in {"targets", "resolver", "new", "serve"} => app = Len(apps) /\ AppDone
    BY DEF StartupInv, BuildInv
  <2> QED BY <2>1, <2>2, IngestedIsFaithful DEF ConfigFaithful
<1> QED BY <1>1, StartupInvariance, PTL

\* When the server starts every port has a pool and a counter, and every
\* target of a pool a status.
THEOREM WiringIsComplete == Spec => []WiringComplete
<1>1. StartupInv => WiringComplete
  <2> SUFFICES ASSUME StartupInv, pc = "serve"
               PROVE  /\ counters = Ports
                      /\ \A p \in Ports : /\ port_to_pool[p] \in DOMAIN target_pools
                                          /\ \A n \in DOMAIN GetPool(p) :
                                               GetPool(p)[n] \in target_keys
    BY DEF WiringComplete
  <2>1. /\ counters = Ports /\ target_keys = TargetsOf(apps) /\ app = Len(apps)
        /\ PortsBuilt /\ PoolsBuilt /\ DOMAIN apps = 1 .. Len(apps)
    BY ConfigShape DEF StartupInv, BuildInv, WiringInv, StartupTypeOK
  <2>2. ASSUME NEW p \in Ports
        PROVE  /\ port_to_pool[p] \in DOMAIN target_pools
               /\ \A n \in DOMAIN GetPool(p) : GetPool(p)[n] \in target_keys
    <3>1. port_to_pool[p] \in 1 .. app
      BY <2>1 DEF PortsBuilt
    <3>2. port_to_pool[p] \in DOMAIN target_pools /\ port_to_pool[p] \in DOMAIN apps
          /\ GetPool(p) = apps[port_to_pool[p]].targets
      BY <3>1, <2>1 DEF PoolsBuilt, GetPool
    <3>3. \A n \in DOMAIN GetPool(p) : GetPool(p)[n] \in TargetsOf(apps)
      BY <3>2 DEF TargetsOf
    <3> QED BY <3>2, <3>3, <2>1
  <2> QED BY <2>1, <2>2
<1> QED BY <1>1, StartupInvariance, PTL

\* main exits with success only with a file and limits that are in order and
\* after the signal task ended, or with no port in the file; with an error of
\* the server only as a failure; and it is not killed by a signal it waits for.
THEOREM ExitIsFaithful == Spec => []ExitFaithful
<1>1. StartupInv => ExitFaithful
  <2> SUFFICES ASSUME StartupInv PROVE ExitFaithful
    OBVIOUS
  <2>1. \A i \in DOMAIN apps : /\ apps[i].ports \in Seq(Nat)
                               /\ DOMAIN apps[i].ports = 1 .. Len(apps[i].ports)
    BY ConfigShape DEF StartupInv, StartupTypeOK
  <2>2. ASSUME app = Len(apps), AppDone PROVE ~Duplicated /\ (NoPorts <=> Ports = {})
    <3>1. ~Duplicated
      BY <2>2, IngestedIsFaithful
    <3>2. ASSUME NoPorts, NEW p \in Ports PROVE FALSE
      <4>1. PICK i \in DOMAIN apps : \E n \in DOMAIN apps[i].ports : p = apps[i].ports[n]
        BY <2>2, <3>2, IngestedIsFaithful
      <4>2. apps[i].ports = <<>> /\ DOMAIN apps[i].ports = {}
        BY <3>2 DEF NoPorts
      <4> QED BY <4>1, <4>2
    <3>3. ASSUME Ports = {}, NEW i \in DOMAIN apps PROVE apps[i].ports = <<>>
      <4>1. \A n \in DOMAIN apps[i].ports : apps[i].ports[n] \in Ports
        BY <2>2, IngestedIsFaithful
      <4>2. DOMAIN apps[i].ports = {}
        BY <3>3, <4>1
      <4>3. apps[i].ports \in Seq(Nat) /\ DOMAIN apps[i].ports = 1 .. Len(apps[i].ports)
        BY <2>1
      <4>4. Len(apps[i].ports) \in Nat /\ 1 .. Len(apps[i].ports) = {}
        BY <4>2, <4>3
      <4>5. Len(apps[i].ports) = 0
        BY <4>4
      <4> QED BY <4>3, <4>5
    <3> QED BY <3>1, <3>2, <3>3 DEF NoPorts
  <2> QED BY <2>2 DEF StartupInv, ExitInv, ExitFaithful
<1> QED BY <1>1, StartupInvariance, PTL
=============================================================================
