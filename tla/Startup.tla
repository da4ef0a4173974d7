------------------------------- MODULE Startup -------------------------------
(***************************************************************************)
(* The start and the end of the program (src/src/main.rs): load the        *)
(* configuration file (src/src/config.rs), turn it into the ProxyConfig    *)
(* and the TargetState (src/src/state.rs), spawn the task that waits for   *)
(* signals, build the balancer and the server, run the server, and turn    *)
(* its result into an exit code.                                           *)
(*                                                                         *)
(* ProxyConfig::try_from is a loop over the apps and, inside it, over an   *)
(* app's ports; `app` and `port` are how many of each it has begun.  The   *)
(* signal task runs beside all that follows its spawn.                     *)
(***************************************************************************)
EXTENDS Integers, Sequences

CONSTANTS
    Targets,     \* what the file may name as targets
    RawConfigs,  \* what the file may say: sequences of apps
    Limits,      \* what --max-connections and --max-queue may be
    MaxPermits   \* Semaphore::MAX_PERMITS

ASSUME RawConfigAssumption ==
    RawConfigs \subseteq Seq([ports : Seq(Nat), targets : Seq(Targets)])
ASSUME LimitAssumption == Limits \subseteq Nat /\ MaxPermits \in Nat

VARIABLES
    apps,          \* RawConfig::apps
    args,          \* max_connections and max_queue
    pc,            \* where main::run is
    error,         \* the ProxyError it returned
    exit,          \* how the process ended
    app, port,     \* the loops of ProxyConfig::try_from
    target_pools,  \* ProxyConfig::target_pools
    port_to_pool,  \* ProxyConfig::port_to_pool
    target_keys,   \* the keys of TargetState::target_status
    counters,      \* the keys of port_to_rr_counter
    watcher,       \* the shutdown_signal task
    cancelled      \* the CancellationToken

inputs == <<apps, args>>
result == <<error, exit>>
build  == <<app, port, target_pools, port_to_pool>>
wiring == <<target_keys, counters>>
proc   == <<watcher, cancelled>>
vars   == <<inputs, pc, result, build, wiring, proc>>

StartupTypeOK ==
    /\ apps \in RawConfigs
    /\ args \in [max_connections : Limits, max_queue : Limits]
    /\ pc \in {"parse", "load", "ingest", "targets", "resolver", "new", "serve", "over"}
    /\ error \in {"none", "IoError", "JsonError", "ConfigIngestError", "ResolverError",
                  "ServerError"}
    /\ exit \in {"none", "usage", "SUCCESS", "FAILURE", "panic", "killed"}
    /\ app \in 0 .. Len(apps)
    /\ port \in 0 .. (IF app = 0 THEN 0 ELSE Len(apps[app].ports))
    /\ watcher \in {"none", "spawned", "waiting", "notified", "failed", "panicked"}
    /\ cancelled \in BOOLEAN

Init ==
    /\ apps \in RawConfigs
    /\ args \in [max_connections : Limits, max_queue : Limits]
    /\ pc = "parse"
    /\ error = "none" /\ exit = "none"
    /\ app = 0 /\ port = 0
    /\ target_pools = <<>> /\ port_to_pool = <<>>
    /\ target_keys = {} /\ counters = {}
    /\ watcher = "none" /\ cancelled = FALSE

Ports == DOMAIN port_to_pool
GetPool(p) == target_pools[port_to_pool[p]]

-----------------------------------------------------------------------------
\* main: run() returned e.
Exit(e) ==
    /\ pc' = "over"
    /\ error' = e
    /\ exit' = IF e = "none" THEN "SUCCESS" ELSE "FAILURE"

\* The process ends without run() returning.
Die(how) == pc' = "over" /\ exit' = how /\ UNCHANGED error

\* Args::parse() ends the process itself when the command line is wrong.
ParseFail ==
    /\ pc = "parse"
    /\ Die("usage")
    /\ UNCHANGED <<inputs, build, wiring, proc>>

Parse ==
    /\ pc = "parse"
    /\ pc' = "load"
    /\ UNCHANGED <<inputs, result, build, wiring, proc>>

\* The file cannot be read, or is not a RawConfig.
LoadFail(e) ==
    /\ pc = "load"
    /\ Exit(e)
    /\ UNCHANGED <<inputs, build, wiring, proc>>

Load ==
    /\ pc = "load"
    /\ pc' = "ingest"
    /\ UNCHANGED <<inputs, result, build, wiring, proc>>

\* The ports of the current app have been gone through.
AppDone == app > 0 => port = Len(apps[app].ports)

\* Mutant: the loop over the ports goes on where the last app's ended.
IngestAppKeepsPort ==
    /\ pc = "ingest"
    /\ AppDone /\ app < Len(apps)
    /\ app' = app + 1
    /\ target_pools' = Append(target_pools, apps[app + 1].targets)
    /\ UNCHANGED <<inputs, pc, result, port, port_to_pool, wiring, proc>>

\* ProxyConfig::try_from: the next app's targets become a pool.
IngestApp ==
    /\ pc = "ingest"
    /\ AppDone /\ app < Len(apps)
    /\ app' = app + 1
    /\ port' = 0
    /\ target_pools' = Append(target_pools, apps[app + 1].targets)
    /\ UNCHANGED <<inputs, pc, result, port_to_pool, wiring, proc>>

\* Mutant: insert() without looking at the entry.
IngestPortOverwrites ==
    /\ pc = "ingest"
    /\ ~AppDone
    /\ port' = port + 1
    /\ LET p == apps[app].ports[port + 1] IN
       port_to_pool' = [q \in Ports \cup {p} |->
                          IF q = p THEN Len(target_pools) ELSE port_to_pool[q]]
    /\ UNCHANGED <<inputs, pc, result, app, target_pools, wiring, proc>>

\* Its next port is refused if it is taken, or leads to that pool.
IngestPort ==
    /\ pc = "ingest"
    /\ ~AppDone
    /\ LET p == apps[app].ports[port + 1] IN
       IF p \in Ports
       THEN Exit("ConfigIngestError") /\ UNCHANGED build
       ELSE /\ port' = port + 1
            /\ port_to_pool' = [q \in Ports \cup {p} |->
                                  IF q = p THEN Len(target_pools) ELSE port_to_pool[q]]
            /\ UNCHANGED <<pc, result, app, target_pools>>
    /\ UNCHANGED <<inputs, wiring, proc>>

Ingested ==
    /\ pc = "ingest"
    /\ AppDone /\ app = Len(apps)
    /\ pc' = "targets"
    /\ UNCHANGED <<inputs, result, build, wiring, proc>>

\* Mutant: the map is made anew for every app.
BuildTargetsOfLast ==
    /\ pc = "targets"
    /\ target_keys' = {apps[i].targets[1] : i \in {j \in {Len(apps)} \ {0} : apps[j].targets # <<>>}}
    /\ pc' = "resolver"
    /\ watcher' = "spawned"
    /\ UNCHANGED <<inputs, result, build, counters, cancelled>>

\* TargetState::try_from, and the spawn of the signal task.
BuildTargets ==
    /\ pc = "targets"
    /\ target_keys' = UNION {{apps[i].targets[n] : n \in DOMAIN apps[i].targets} :
                               i \in DOMAIN apps}
    /\ pc' = "resolver"
    /\ watcher' = "spawned"
    /\ UNCHANGED <<inputs, result, build, counters, cancelled>>

ResolverFail ==
    /\ pc = "resolver"
    /\ Exit("ResolverError")
    /\ UNCHANGED <<inputs, build, wiring, proc>>

\* RoundRobinBalancer::new: one counter per port.
BuildBalancer ==
    /\ pc = "resolver"
    /\ counters' = Ports
    /\ pc' = "new"
    /\ UNCHANGED <<inputs, result, build, target_keys, proc>>

\* ProxyServer::new: Semaphore::const_new panics above MAX_PERMITS.
TooLarge == args.max_connections > MaxPermits \/ args.max_queue > MaxPermits

NewPanic ==
    /\ pc = "new"
    /\ TooLarge
    /\ Die("panic")
    /\ UNCHANGED <<inputs, build, wiring, proc>>

New ==
    /\ pc = "new"
    /\ ~TooLarge
    /\ pc' = "serve"
    /\ UNCHANGED <<inputs, result, build, wiring, proc>>

\* Mutant: main drops the result of run().
ServerReturnsIgnored(e) ==
    /\ pc = "serve"
    /\ IF e = "none" THEN cancelled \/ Ports = {} ELSE Ports # {}
    /\ Exit("none")
    /\ UNCHANGED <<inputs, build, wiring, proc>>

\* ProxyServer::run returns: Ok after a shutdown or without ports, an error
\* only of a port (ProxyServer!ResultFaithful).
ServerReturns(e) ==
    /\ pc = "serve"
    /\ IF e = "none" THEN cancelled \/ Ports = {} ELSE Ports # {}
    /\ Exit(e)
    /\ UNCHANGED <<inputs, build, wiring, proc>>

-----------------------------------------------------------------------------
(* shutdown_signal.  Its first poll installs the handlers, SIGTERM's first *)
(* and SIGINT's in ctrl_c(); before that the default disposition of the    *)
(* signal ends the process.                                                *)

WatcherInstalls ==
    /\ pc # "over" /\ watcher = "spawned"
    /\ watcher' = "waiting"
    /\ UNCHANGED <<inputs, pc, result, build, wiring, cancelled>>

\* expect() panics in the detached task; nobody joins it.
WatcherPanics ==
    /\ pc # "over" /\ watcher = "spawned"
    /\ watcher' = "panicked"
    /\ UNCHANGED <<inputs, pc, result, build, wiring, cancelled>>

\* ctrl_c() cannot install its handler and returns an error, which select!
\* takes like a signal: the token is cancelled though nobody asked for it.
\* SIGINT keeps its default disposition.
CtrlCFails ==
    /\ pc # "over" /\ watcher = "spawned"
    /\ watcher' = "failed"
    /\ cancelled' = TRUE
    /\ UNCHANGED <<inputs, pc, result, build, wiring>>

\* Mutant: the signal is logged and the token not cancelled.
SignalLogged ==
    /\ pc # "over" /\ watcher = "waiting"
    /\ watcher' = "notified"
    /\ UNCHANGED <<inputs, pc, result, build, wiring, cancelled>>

\* A signal the task waits for.
SignalHandled ==
    /\ pc # "over" /\ watcher = "waiting"
    /\ watcher' = "notified"
    /\ cancelled' = TRUE
    /\ UNCHANGED <<inputs, pc, result, build, wiring>>

\* A signal without a handler.
SignalKills ==
    /\ pc # "over" /\ watcher \in {"none", "spawned", "failed", "panicked"}
    /\ Die("killed")
    /\ UNCHANGED <<inputs, build, wiring, proc>>

-----------------------------------------------------------------------------
Starting ==
    \/ ParseFail \/ Parse \/ Load
    \/ \E e \in {"IoError", "JsonError"} : LoadFail(e)
    \/ IngestApp \/ IngestPort \/ Ingested
    \/ BuildTargets \/ ResolverFail \/ BuildBalancer \/ NewPanic \/ New

Over == pc = "over" /\ UNCHANGED vars

Next ==
    \/ Starting
    \/ \E e \in {"none", "ServerError"} : ServerReturns(e)
    \/ WatcherInstalls \/ WatcherPanics \/ CtrlCFails \/ SignalHandled \/ SignalKills
    \/ Over

Spec == Init /\ [][Next]_vars

\* main goes on; the server returns once it is cancelled
\* (ProxyServer!ShutdownTerminates) and of itself if it has no port.
FairSpec == Spec /\ WF_vars(Starting) /\ WF_vars(ServerReturns("none"))

-----------------------------------------------------------------------------
Duplicated ==
    \E i, j \in DOMAIN apps : \E m \in DOMAIN apps[i].ports, n \in DOMAIN apps[j].ports :
      <<i, m>> # <<j, n>> /\ apps[i].ports[m] = apps[j].ports[n]

\* ProxyConfig::try_from accepts exactly the files that list no port twice,
\* neither in two apps nor in one, and then every listed port, and no other,
\* leads to the targets of the app that lists it.
ConfigFaithful ==
    /\ error = "ConfigIngestError" => Duplicated
    /\ pc \in {"targets", "resolver", "new", "serve"} =>
         /\ ~Duplicated
         /\ \A p \in Ports : \E i \in DOMAIN apps : \E n \in DOMAIN apps[i].ports :
              p = apps[i].ports[n]
         /\ \A i \in DOMAIN apps : \A n \in DOMAIN apps[i].ports :
              LET p == apps[i].ports[n] IN p \in Ports /\ GetPool(p) = apps[i].targets

\* The three maps built from one file agree when the server starts: every
\* port has a pool and a counter, every target of a pool a status.  The
\* balancer's missing-counter and BackendNotFound errors cannot happen.
WiringComplete ==
    pc = "serve" =>
      /\ counters = Ports
      /\ \A p \in Ports : /\ port_to_pool[p] \in DOMAIN target_pools
                          /\ \A n \in DOMAIN GetPool(p) : GetPool(p)[n] \in target_keys

\* The exit of the process against the file, the limits and the signals.  It
\* is a success only with a file and limits the server could start with, and
\* after a signal was received, or ctrl_c() failed, unless the file lists no
\* port; an error of the server is a failure and takes a port; and a signal
\* kills the process only if it is not the one the task waits for or has had.
NoPorts == \A i \in DOMAIN apps : apps[i].ports = <<>>

ExitFaithful ==
    /\ exit = "SUCCESS" => /\ ~Duplicated /\ ~TooLarge
                           /\ watcher \in {"notified", "failed"} \/ NoPorts
    /\ error = "ServerError" => exit = "FAILURE" /\ ~Duplicated /\ ~NoPorts
    /\ exit = "killed" => watcher \notin {"waiting", "notified"}

\* Once the signal task has ended the process ends too, also when that was
\* before the server ran.
SignalEnds == (watcher \in {"notified", "failed"}) ~> (pc = "over")

\* src/README.md:121, "On shutdown either via SIGINT or some error in accept,
\* we attempt to drain the existing connections for 10s": a signal does not
\* end the process while the server runs with ports to serve.
DrainOnSignal == [][pc = "serve" /\ Ports # {} => exit' # "killed"]_vars
=============================================================================
