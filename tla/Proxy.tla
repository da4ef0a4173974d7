-------------------------------- MODULE Proxy --------------------------------
(***************************************************************************)
(* The proxy server with the balancer it calls: do_connection              *)
(* (src/src/proxy.rs) runs connect_backend (src/src/balancer/roundrobin.rs)*)
(* inside the connection task, so a call begins, goes on and ends only     *)
(* with its task.  What ProxyServer takes for one await, that always ends, *)
(* is here the whole search through the pool.                              *)
(***************************************************************************)
EXTENDS ProxyServer

CONSTANTS Targets, COOLDOWN, MaxClock, Pools, AddrForm, UsizeMod, MaxAddrs

\* What RoundRobinBalancer assumes of its constants.
ASSUME BalancerAssumption ==
    /\ Targets # {} /\ COOLDOWN \in Nat \ {0} /\ MaxClock \in Nat
    /\ \A p \in DOMAIN Pools : Pools[p] \in Seq(Targets)
    /\ UsizeMod \in Nat \ {0} /\ MaxAddrs \in Nat \ {0}
    /\ \A p \in DOMAIN Pools : 2 * Len(Pools[p]) <= UsizeMod + 1
    /\ AddrForm \in [Targets -> {"socket", "name", "bad"}]

VARIABLES
    port_of,  \* do_connection's `port`, once a connection has a task
    clock, target_status, report, rr_counter, call

Balancer == INSTANCE RoundRobinBalancer WITH Callers <- Conns, ForPorts <- Ports

balancerVars == <<clock, target_status, report, rr_counter, call>>
proxyVars    == <<vars, port_of, balancerVars>>

ProxyInit ==
    /\ Init
    /\ port_of = [c \in Conns |-> 0]
    /\ Balancer!Init

-----------------------------------------------------------------------------
\* Mutant: the task is not given the port.
SpawnPortless(p, c) ==
    /\ AcceptSpawn(p, c) \/ Enqueue(p, c)
    /\ UNCHANGED <<port_of, balancerVars>>

\* Both spawns in accept_connection move the port into the task.
Spawn(p, c) ==
    /\ AcceptSpawn(p, c) \/ Enqueue(p, c)
    /\ port_of' = [port_of EXCEPT ![c] = p]
    /\ UNCHANGED balancerVars

\* Steps of `run`, `listen` and of the tasks that have nothing to do with a
\* call.
ServerStep ==
    /\ \/ RunNext \/ Terminated
       \/ \E p \in Ports : \/ Reap(p) \/ Stop(p) \/ Drained(p) \/ DrainDeadline(p)
                           \/ ListenerPanic(p)
                           \/ \E e \in RetriableKinds \cup PermanentErrors : AcceptError(p, e)
                           \/ \E c \in Conns : AcceptFull(p, c) \/ Reject(p, c) \/ JoinNext(p, c)
       \/ \E c \in Conns : \/ PollAcquire(c) \/ StartGranted(c) \/ CopyEnd(c) \/ Finish(c)
                           \/ DropAcquire(c)
    /\ UNCHANGED <<port_of, balancerVars>>

\* Mutant: `let Ok(_)` in place of `let Ok(_permit)` drops the permit at once.
BeginCallUnpermitted(c) ==
    /\ task[c] = "connecting"
    /\ Balancer!CallUnserved(c, port_of[c]) \/ Balancer!Call(c, port_of[c])
    /\ Release(c, "connecting")
    /\ UNCHANGED <<runVars, cancelled, listener, accept_res, in_sock, connections,
                   aborted, queue_permits, port_of>>

\* balancer.connect_backend(port) is entered, and goes on.
BeginCall(c) ==
    /\ task[c] = "connecting"
    /\ Balancer!CallUnserved(c, port_of[c]) \/ Balancer!Call(c, port_of[c])
    /\ UNCHANGED <<vars, port_of>>

CallGoesOn(c) ==
    /\ call[c].pc # "done"
    /\ Balancer!CallStep(c)
    /\ UNCHANGED <<vars, port_of>>

\* It returns: Ok goes on to the copy, Err out of do_connection.
CallReturns(c) ==
    /\ ConnectDone(c, IF call[c].outcome = "Ready" THEN "copying" ELSE "closing")
    /\ Balancer!Return(c)
    /\ UNCHANGED port_of

\* Mutant: the call outlives its task.
DropTaskOnly(c) ==
    /\ TaskPanic(c) \/ DropAborted(c)
    /\ UNCHANGED <<port_of, balancerVars>>

\* The task is dropped or unwound, at an await, and a call it is in with it.
DropTask(c) ==
    /\ TaskPanic(c) \/ DropAborted(c)
    /\ IF call[c].pc = "idle" THEN UNCHANGED balancerVars ELSE Balancer!DropCall(c)
    /\ UNCHANGED port_of

Tick == Balancer!Tick /\ UNCHANGED <<vars, port_of, rr_counter, call>>

ProxyNext ==
    \/ ServerStep \/ Tick
    \/ \E p \in Ports, c \in Conns : Spawn(p, c)
    \/ \E c \in Conns : BeginCall(c) \/ CallGoesOn(c) \/ CallReturns(c) \/ DropTask(c)

ProxySpec == ProxyInit /\ [][ProxyNext]_proxyVars

\* Of a connecting task only this is assumed: it is polled, and the lookup or
\* the connect it awaits ends (RoundRobinBalancer!FairSpec).
CallFairness(c) == WF_proxyVars(BeginCall(c) \/ CallGoesOn(c) \/ CallReturns(c))

CallFairSpec == ProxySpec /\ \A c \in Conns : CallFairness(c)

-----------------------------------------------------------------------------
InCall == {c \in Conns : call[c].pc # "idle" \/ report[c].at # "idle"}

\* A search for a backend, and a report to the cooldown handler, is only ever
\* made by a connection task that holds an open permit: max_connections
\* bounds the calls in flight as it bounds the connections, queued tasks make
\* none, and none survives the task that was aborted or panicked inside it.
CallsHoldPermits ==
    /\ \A c \in InCall : task[c] = "connecting"
    /\ \A c \in Conns : report[c].at # "idle" => call[c].pc \in {"ready", "trynext"}
    /\ Cardinality(InCall) <= MaxConnections - open_permits

\* The calls change nothing the server's own steps do not change: what holds
\* of ProxyServer, connect_backend being one await, holds with the search.
ImplementsServer == Spec

\* The connection tasks call connect_backend as RoundRobinBalancer allows: a
\* task makes one call at a time, for a configured port, and leaves it only
\* when it has returned or at an await.
ImplementsBalancer == Balancer!Spec

\* What ProxyServer assumes of connect_backend, that it ends, follows from
\* the balancer: every search through the pool comes to an end, however the
\* statuses change under it.
ConnectFairness ==
    \A c \in Conns : WF_vars(\E s \in {"copying", "closing"} : ConnectDone(c, s))
=============================================================================
