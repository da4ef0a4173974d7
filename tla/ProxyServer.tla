----------------------------- MODULE ProxyServer -----------------------------
(***************************************************************************)
(* The proxy server of src/src/proxy.rs: ProxyServer::run binds the ports, *)
(* spawns one `listen` task per port and joins them; every `listen` task   *)
(* accepts connections, admits, queues or rejects them, and on shutdown    *)
(* drains its connection tasks; the connection tasks share two semaphores, *)
(* `open_connections` and `queued_connections`.                            *)
(*                                                                         *)
(* A step of this specification is what a task does between two points     *)
(* where another task can see it: an await, or an operation on a           *)
(* semaphore, on the cancellation token or on a JoinSet.  What             *)
(* `connect_backend` does inside is RoundRobinBalancer's subject; here it  *)
(* is one await that succeeds or fails.                                    *)
(***************************************************************************)
EXTENDS Integers, Sequences, FiniteSets

CONSTANTS
    Ports,           \* the configured ports
    Conns,           \* names for client connections, reused once reaped
    MaxConnections,  \* --max-connections
    MaxQueue         \* --max-queue

ASSUME PortsAssumption == Ports \subseteq Nat /\ IsFiniteSet(Ports)
ASSUME ConnsAssumption == IsFiniteSet(Conns)
ASSUME LimitsAssumption == MaxConnections \in Nat /\ MaxQueue \in Nat

VARIABLES
    run_pc,        \* where ProxyServer::run is
    first_error,   \* its `first_error`, and what it returned
    cancelled,     \* the shared CancellationToken
    listener,      \* where the listen task of each port is
    accept_res,    \* the `accept_res` of each listen task
    in_sock,       \* the accepted socket a listen task is holding
    connections,   \* the JoinSet of each listen task
    task,          \* where each connection task is
    aborted,       \* live tasks whose JoinSet has been dropped
    open_permits,  \* permits left in `open_connections`
    queue_permits, \* permits left in `queued_connections`
    waiters        \* the FIFO of tasks parked in `open_connections`

runVars  == <<run_pc, first_error>>
semVars  == <<open_permits, queue_permits, waiters>>
taskVars == <<task, aborted>>
vars     == <<runVars, cancelled, listener, accept_res, in_sock, connections,
              taskVars, semVars>>

(***************************************************************************)
(* Errors.  An accept error is named by its io::ErrorKind; OtherIo is any  *)
(* other kind, NotIo any ProxyError that is not an IoError.                *)
(***************************************************************************)
RetriableKinds == {"ConnectionRefused", "ConnectionReset", "ConnectionAborted"}
PermanentErrors == {"OtherIo", "NotIo"}
BindErrors == {"IoError", "NotIo"}

MaybeIntoBindError(e) == IF e = "IoError" THEN "BindError" ELSE e

RunErrors == PermanentErrors \cup {"BindError", "TaskCancellation"}

(***************************************************************************)
(* The life of a connection task.  "free" names no connection; "offered"   *)
(* is a socket that found no open permit and has no task yet; a "queued"   *)
(* task has not been polled, a "waiting" one is parked in the semaphore, a *)
(* "granted" one has been handed its permit and not been polled again; a   *)
(* "leaving" one has been aborted in one of these two and has still its    *)
(* queue slot.                                                             *)
(***************************************************************************)
PermitStates == {"granted", "connecting", "copying", "closing"}
SlotStates   == {"queued", "waiting", "granted", "leaving"}
Joinable     == {"finished", "panicked"}
Live         == PermitStates \cup SlotStates
TaskStates   == Live \cup Joinable \cup {"free", "offered"}

ListenerStates == {"unbound", "bound", "reap", "accept", "queueing", "drain",
                   "exited", "joined", "closed"}

TypeOK ==
    /\ run_pc \in {"bind", "join", "returned"}
    /\ first_error \in RunErrors \cup {"none"}
    /\ cancelled \in BOOLEAN
    /\ listener \in [Ports -> ListenerStates]
    /\ accept_res \in [Ports -> PermanentErrors \cup {"pending", "Ok", "panic"}]
    /\ in_sock \in [Ports -> SUBSET Conns]
    /\ connections \in [Ports -> SUBSET Conns]
    /\ task \in [Conns -> TaskStates]
    /\ aborted \in SUBSET Conns
    /\ open_permits \in 0 .. MaxConnections
    /\ queue_permits \in 0 .. MaxQueue
    /\ waiters \in Seq(Conns)

\* ProxyServer::new(.., max_connections, max_queue), before `run`.
New(max_connections, max_queue) ==
    /\ run_pc = "bind"
    /\ first_error = "none"
    /\ cancelled = FALSE
    /\ listener = [p \in Ports |-> "unbound"]
    /\ accept_res = [p \in Ports |-> "pending"]
    /\ in_sock = [p \in Ports |-> {}]
    /\ connections = [p \in Ports |-> {}]
    /\ task = [c \in Conns |-> "free"]
    /\ aborted = {}
    /\ open_permits = max_connections
    /\ queue_permits = max_queue
    /\ waiters = <<>>

Init == New(MaxConnections, MaxQueue)

-----------------------------------------------------------------------------
(* ProxyServer::run: bind the ports one after the other, in key order.     *)

NextPort(p) ==
    /\ run_pc = "bind"
    /\ listener[p] = "unbound"
    /\ \A q \in Ports : listener[q] = "unbound" => p <= q

BindOk(p) ==
    /\ NextPort(p)
    /\ listener' = [listener EXCEPT ![p] = "bound"]
    /\ UNCHANGED <<runVars, cancelled, accept_res, in_sock, connections,
                   taskVars, semVars>>

\* Mutant: the listeners bound so far stay open.
BindFailLeaks(p, e) ==
    /\ NextPort(p)
    /\ run_pc' = "returned"
    /\ first_error' = MaybeIntoBindError(e)
    /\ UNCHANGED <<cancelled, listener, accept_res, in_sock, connections,
                   taskVars, semVars>>

\* The `?` returns at once; the listeners bound so far are dropped.
BindFail(p, e) ==
    /\ NextPort(p)
    /\ run_pc' = "returned"
    /\ first_error' = MaybeIntoBindError(e)
    /\ listener' = [q \in Ports |->
                      IF listener[q] = "bound" THEN "closed" ELSE listener[q]]
    /\ UNCHANGED <<cancelled, accept_res, in_sock, connections, taskVars, semVars>>

\* Every port is bound: spawn the listen tasks.
Serve ==
    /\ run_pc = "bind"
    /\ \A p \in Ports : listener[p] = "bound"
    /\ run_pc' = "join"
    /\ listener' = [p \in Ports |-> "reap"]
    /\ UNCHANGED <<first_error, cancelled, accept_res, in_sock, connections,
                   taskVars, semVars>>

\* handles.join_next() yields the result of the listen task of port p.
JoinError(p) ==
    IF accept_res[p] = "panic" THEN "TaskCancellation" ELSE accept_res[p]

\* Mutant: the Err(join_error) arm only logs.
JoinListenerLogs(p) ==
    /\ run_pc = "join"
    /\ listener[p] = "exited"
    /\ listener' = [listener EXCEPT ![p] = "joined"]
    /\ first_error' = IF first_error = "none" /\ accept_res[p] \in PermanentErrors
                      THEN accept_res[p] ELSE first_error
    /\ UNCHANGED <<run_pc, cancelled, accept_res, in_sock, connections,
                   taskVars, semVars>>

JoinListener(p) ==
    /\ run_pc = "join"
    /\ listener[p] = "exited"
    /\ listener' = [listener EXCEPT ![p] = "joined"]
    /\ IF accept_res[p] = "Ok"
       THEN UNCHANGED <<first_error, cancelled>>
       ELSE /\ cancelled' = TRUE
            /\ first_error' = IF first_error = "none" THEN JoinError(p)
                                                      ELSE first_error
    /\ UNCHANGED <<run_pc, accept_res, in_sock, connections, taskVars, semVars>>

Return ==
    /\ run_pc = "join"
    /\ \A p \in Ports : listener[p] = "joined"
    /\ run_pc' = "returned"
    /\ UNCHANGED <<first_error, cancelled, listener, accept_res, in_sock,
                   connections, taskVars, semVars>>

\* main's shutdown_signal task: SIGINT or SIGTERM, before the process exits.
Signal ==
    /\ ~cancelled
    /\ run_pc # "returned"
    /\ cancelled' = TRUE
    /\ UNCHANGED <<runVars, listener, accept_res, in_sock, connections,
                   taskVars, semVars>>

-----------------------------------------------------------------------------
(* listen: the accept loop.                                                *)

\* while let Some(res) = connections.try_join_next()
Reaped(p) == {c \in connections[p] : task[c] \in Joinable}

Reap(p) ==
    /\ listener[p] = "reap"
    /\ listener' = [listener EXCEPT ![p] = "accept"]
    /\ connections' = [connections EXCEPT ![p] = @ \ Reaped(p)]
    /\ task' = [c \in Conns |-> IF c \in Reaped(p) THEN "free" ELSE task[c]]
    /\ UNCHANGED <<runVars, cancelled, accept_res, in_sock, aborted, semVars>>

\* An accepted socket finds an open permit.
AcceptSpawn(p, c) ==
    /\ listener[p] = "accept"
    /\ task[c] = "free"
    /\ open_permits > 0
    /\ open_permits' = open_permits - 1
    /\ task' = [task EXCEPT ![c] = "connecting"]
    /\ connections' = [connections EXCEPT ![p] = @ \cup {c}]
    /\ listener' = [listener EXCEPT ![p] = "reap"]
    /\ UNCHANGED <<runVars, cancelled, accept_res, in_sock, aborted,
                   queue_permits, waiters>>

\* It finds none: accept_connection goes on to the queue's semaphore.
AcceptFull(p, c) ==
    /\ listener[p] = "accept"
    /\ task[c] = "free"
    /\ open_permits = 0
    /\ task' = [task EXCEPT ![c] = "offered"]
    /\ in_sock' = [in_sock EXCEPT ![p] = {c}]
    /\ listener' = [listener EXCEPT ![p] = "queueing"]
    /\ UNCHANGED <<runVars, cancelled, accept_res, connections, aborted, semVars>>

\* Mutant: the queue slot is checked for and not kept.
EnqueueUncounted(p, c) ==
    /\ listener[p] = "queueing"
    /\ c \in in_sock[p]
    /\ queue_permits > 0
    /\ task' = [task EXCEPT ![c] = "queued"]
    /\ connections' = [connections EXCEPT ![p] = @ \cup {c}]
    /\ in_sock' = [in_sock EXCEPT ![p] = {}]
    /\ listener' = [listener EXCEPT ![p] = "reap"]
    /\ UNCHANGED <<runVars, cancelled, accept_res, aborted, semVars>>

Enqueue(p, c) ==
    /\ listener[p] = "queueing"
    /\ c \in in_sock[p]
    /\ queue_permits > 0
    /\ queue_permits' = queue_permits - 1
    /\ task' = [task EXCEPT ![c] = "queued"]
    /\ connections' = [connections EXCEPT ![p] = @ \cup {c}]
    /\ in_sock' = [in_sock EXCEPT ![p] = {}]
    /\ listener' = [listener EXCEPT ![p] = "reap"]
    /\ UNCHANGED <<runVars, cancelled, accept_res, aborted, open_permits, waiters>>

\* RejectedTooManyConnections: the socket is dropped.
Reject(p, c) ==
    /\ listener[p] = "queueing"
    /\ c \in in_sock[p]
    /\ queue_permits = 0
    /\ task' = [task EXCEPT ![c] = "free"]
    /\ in_sock' = [in_sock EXCEPT ![p] = {}]
    /\ listener' = [listener EXCEPT ![p] = "reap"]
    /\ UNCHANGED <<runVars, cancelled, accept_res, connections, aborted, semVars>>

AcceptError(p, e) ==
    /\ listener[p] = "accept"
    /\ IF e \in RetriableKinds
       THEN /\ listener' = [listener EXCEPT ![p] = "reap"]
            /\ UNCHANGED <<accept_res, cancelled>>
       ELSE /\ listener' = [listener EXCEPT ![p] = "drain"]
            /\ accept_res' = [accept_res EXCEPT ![p] = e]
            /\ cancelled' = TRUE
    /\ UNCHANGED <<runVars, in_sock, connections, taskVars, semVars>>

\* The cancelled() branch of the first select!.
Stop(p) ==
    /\ listener[p] = "accept"
    /\ cancelled
    /\ listener' = [listener EXCEPT ![p] = "drain"]
    /\ accept_res' = [accept_res EXCEPT ![p] = "Ok"]
    /\ UNCHANGED <<runVars, cancelled, in_sock, connections, taskVars, semVars>>

-----------------------------------------------------------------------------
(* listen: the drain.                                                      *)

JoinNext(p, c) ==
    /\ listener[p] = "drain"
    /\ c \in Reaped(p)
    /\ connections' = [connections EXCEPT ![p] = @ \ {c}]
    /\ task' = [task EXCEPT ![c] = "free"]
    /\ UNCHANGED <<runVars, cancelled, listener, accept_res, in_sock, aborted, semVars>>

\* Mutant: the drain is not the end of `listen`.
DrainedLoops(p) ==
    /\ listener[p] = "drain"
    /\ connections[p] = {}
    /\ listener' = [listener EXCEPT ![p] = "reap"]
    /\ UNCHANGED <<runVars, cancelled, accept_res, in_sock, connections,
                   taskVars, semVars>>

Drained(p) ==
    /\ listener[p] = "drain"
    /\ connections[p] = {}
    /\ listener' = [listener EXCEPT ![p] = "exited"]
    /\ UNCHANGED <<runVars, cancelled, accept_res, in_sock, connections,
                   taskVars, semVars>>

\* Dropping the JoinSet forgets the finished tasks and aborts the others.
DropJoinSet(p) ==
    /\ connections' = [connections EXCEPT ![p] = {}]
    /\ aborted' = aborted \cup (connections[p] \ Reaped(p))
    /\ task' = [c \in Conns |-> IF c \in Reaped(p) THEN "free" ELSE task[c]]

\* Mutant: at the deadline the tasks are detached instead of aborted.
DrainDeadlineDetaches(p) ==
    /\ listener[p] = "drain"
    /\ listener' = [listener EXCEPT ![p] = "exited"]
    /\ connections' = [connections EXCEPT ![p] = {}]
    /\ task' = [c \in Conns |-> IF c \in Reaped(p) THEN "free" ELSE task[c]]
    /\ UNCHANGED <<runVars, cancelled, accept_res, in_sock, aborted, semVars>>

\* The 10 s sleep wins the second select!; `listen` returns.
DrainDeadline(p) ==
    /\ listener[p] = "drain"
    /\ listener' = [listener EXCEPT ![p] = "exited"]
    /\ DropJoinSet(p)
    /\ UNCHANGED <<runVars, cancelled, accept_res, in_sock, semVars>>

\* A panic unwinds `listen` while it awaits accept; its JoinSet goes with it.
ListenerPanic(p) ==
    /\ listener[p] = "accept"
    /\ listener' = [listener EXCEPT ![p] = "exited"]
    /\ accept_res' = [accept_res EXCEPT ![p] = "panic"]
    /\ DropJoinSet(p)
    /\ UNCHANGED <<runVars, cancelled, in_sock, semVars>>

-----------------------------------------------------------------------------
(* The connection tasks.  open_connections is a tokio semaphore: a permit  *)
(* that is returned while tasks are parked goes to the first of them and   *)
(* never shows in the counter.                                             *)

Release(c, s) ==
    IF waiters = <<>>
    THEN /\ open_permits' = open_permits + 1
         /\ task' = [task EXCEPT ![c] = s]
         /\ UNCHANGED waiters
    ELSE /\ waiters' = Tail(waiters)
         /\ task' = [task EXCEPT ![c] = s, ![Head(waiters)] = "granted"]
         /\ UNCHANGED open_permits

\* Dropping a pending acquire takes the task out of the FIFO.
Unpark(c) ==
    /\ \E i \in 1 .. Len(waiters) :
         /\ waiters[i] = c
         /\ waiters' = [j \in 1 .. Len(waiters) - 1 |->
                          IF j < i THEN waiters[j] ELSE waiters[j + 1]]
    /\ task' = [task EXCEPT ![c] = "leaving"]
    /\ UNCHANGED open_permits

\* Mutant: the task parks without looking for a permit again.
PollAcquireParks(c) ==
    /\ task[c] = "queued"
    /\ waiters' = Append(waiters, c)
    /\ task' = [task EXCEPT ![c] = "waiting"]
    /\ UNCHANGED <<runVars, cancelled, listener, accept_res, in_sock,
                   connections, aborted, open_permits, queue_permits>>

\* Mutant: the task retries try_acquire_owned() instead of parking.
PollAcquireRetries(c) ==
    /\ task[c] = "queued"
    /\ open_permits > 0
    /\ open_permits' = open_permits - 1
    /\ task' = [task EXCEPT ![c] = "granted"]
    /\ UNCHANGED <<runVars, cancelled, listener, accept_res, in_sock,
                   connections, aborted, queue_permits, waiters>>

\* Mutant: the newcomer is put in front of those parked.
PollAcquireFront(c) ==
    /\ task[c] = "queued"
    /\ IF open_permits > 0
       THEN /\ open_permits' = open_permits - 1
            /\ task' = [task EXCEPT ![c] = "granted"]
            /\ UNCHANGED waiters
       ELSE /\ waiters' = <<c>> \o waiters
            /\ task' = [task EXCEPT ![c] = "waiting"]
            /\ UNCHANGED open_permits
    /\ UNCHANGED <<runVars, cancelled, listener, accept_res, in_sock,
                   connections, aborted, queue_permits>>

\* The first poll of acquire_owned().
PollAcquire(c) ==
    /\ task[c] = "queued"
    /\ IF open_permits > 0
       THEN /\ open_permits' = open_permits - 1
            /\ task' = [task EXCEPT ![c] = "granted"]
            /\ UNCHANGED waiters
       ELSE /\ waiters' = Append(waiters, c)
            /\ task' = [task EXCEPT ![c] = "waiting"]
            /\ UNCHANGED open_permits
    /\ UNCHANGED <<runVars, cancelled, listener, accept_res, in_sock,
                   connections, aborted, queue_permits>>

\* acquire_owned() has returned: drop(queue_slot), then connect.
StartGranted(c) ==
    /\ task[c] = "granted"
    /\ task' = [task EXCEPT ![c] = "connecting"]
    /\ queue_permits' = queue_permits + 1
    /\ UNCHANGED <<runVars, cancelled, listener, accept_res, in_sock,
                   connections, aborted, open_permits, waiters>>

\* connect_backend returns: Ok goes on to the copy, Err out of do_connection.
ConnectDone(c, s) ==
    /\ task[c] = "connecting"
    /\ task' = [task EXCEPT ![c] = s]
    /\ UNCHANGED <<runVars, cancelled, listener, accept_res, in_sock,
                   connections, aborted, semVars>>

\* copy_bidirectional ends, both sides closed or one failed.
CopyEnd(c) ==
    /\ task[c] = "copying"
    /\ task' = [task EXCEPT ![c] = "closing"]
    /\ UNCHANGED <<runVars, cancelled, listener, accept_res, in_sock,
                   connections, aborted, semVars>>

\* The task ends, returning its permit; nobody joins it if it was aborted.
EndTask(c, s) ==
    /\ Release(c, IF c \in aborted THEN "free" ELSE s)
    /\ aborted' = aborted \ {c}
    /\ UNCHANGED <<runVars, cancelled, listener, accept_res, in_sock,
                   connections, queue_permits>>

\* Mutant: the end of every connection returns a queue slot as well.
FinishReturnsSlot(c) ==
    /\ task[c] = "closing"
    /\ Release(c, "finished")
    /\ queue_permits' = queue_permits + 1
    /\ UNCHANGED <<runVars, cancelled, listener, accept_res, in_sock,
                   connections, aborted>>

Finish(c) == task[c] = "closing" /\ EndTask(c, "finished")

\* Mutant: a panic loses the permit.
TaskPanicLeaks(c) ==
    /\ task[c] \in {"connecting", "copying"}
    /\ task' = [task EXCEPT ![c] = "panicked"]
    /\ UNCHANGED <<runVars, cancelled, listener, accept_res, in_sock,
                   connections, aborted, semVars>>

\* A panic below do_connection unwinds through _permit.
TaskPanic(c) == task[c] \in {"connecting", "copying"} /\ EndTask(c, "panicked")

\* The runtime drops the future of an aborted task.  The acquire it awaits
\* goes first, with the permit it was handed or its place in the FIFO.
DropAcquire(c) ==
    /\ c \in aborted
    /\ \/ task[c] = "granted" /\ Release(c, "leaving")
       \/ task[c] = "waiting" /\ Unpark(c)
    /\ UNCHANGED <<runVars, cancelled, listener, accept_res, in_sock,
                   connections, aborted, queue_permits>>

\* Then what the task itself holds, its permit or its queue slot.
DropAborted(c) ==
    /\ c \in aborted
    /\ aborted' = aborted \ {c}
    /\ \/ /\ task[c] \in PermitStates \ SlotStates
          /\ Release(c, "free")
          /\ UNCHANGED queue_permits
       \/ /\ task[c] \in {"queued", "leaving"}
          /\ task' = [task EXCEPT ![c] = "free"]
          /\ queue_permits' = queue_permits + 1
          /\ UNCHANGED <<open_permits, waiters>>
    /\ UNCHANGED <<runVars, cancelled, listener, accept_res, in_sock, connections>>

-----------------------------------------------------------------------------
RunNext ==
    \/ Serve \/ Return \/ Signal
    \/ \E p \in Ports : BindOk(p) \/ JoinListener(p)
    \/ \E p \in Ports, e \in BindErrors : BindFail(p, e)

ListenNext(p) ==
    \/ Reap(p) \/ Stop(p) \/ Drained(p) \/ DrainDeadline(p) \/ ListenerPanic(p)
    \/ \E e \in RetriableKinds \cup PermanentErrors : AcceptError(p, e)
    \/ \E c \in Conns : \/ AcceptSpawn(p, c) \/ AcceptFull(p, c)
                        \/ Enqueue(p, c) \/ Reject(p, c) \/ JoinNext(p, c)

TaskNext(c) ==
    \/ PollAcquire(c) \/ StartGranted(c) \/ CopyEnd(c)
    \/ Finish(c) \/ TaskPanic(c) \/ DropAcquire(c) \/ DropAborted(c)
    \/ \E s \in {"copying", "closing"} : ConnectDone(c, s)

\* The program is over once `run` has returned and every task is gone.
Terminated ==
    /\ run_pc = "returned"
    /\ \A c \in Conns : task[c] = "free"
    /\ UNCHANGED vars

Next ==
    \/ RunNext
    \/ \E p \in Ports : ListenNext(p)
    \/ \E c \in Conns : TaskNext(c)
    \/ Terminated

Spec == Init /\ [][Next]_vars

(***************************************************************************)
(* Fairness.  A task the runtime has woken is polled again, a bind and a   *)
(* connect_backend end (its connects are bounded by CONNECT_TIMEOUT), a    *)
(* timer fires.  Nothing is assumed of clients, signals, panics or the     *)
(* length of a copy.  Stop is strongly fair: accepting in a loop uses up   *)
(* the task's cooperative budget, the accept branch then yields, and the   *)
(* same select! polls the cancelled() branch.                              *)
(***************************************************************************)
RunFairness ==
    /\ WF_vars(Serve) /\ WF_vars(Return)
    /\ \A p \in Ports :
         /\ WF_vars(BindOk(p) \/ \E e \in BindErrors : BindFail(p, e))
         /\ WF_vars(JoinListener(p))

ListenFairness(p) ==
    /\ WF_vars(Reap(p)) /\ SF_vars(Stop(p))
    /\ WF_vars(\E c \in Conns : Enqueue(p, c) \/ Reject(p, c))
    /\ WF_vars(\E c \in Conns : JoinNext(p, c))
    /\ WF_vars(Drained(p)) /\ WF_vars(DrainDeadline(p))

TaskFairness(c) ==
    /\ WF_vars(PollAcquire(c)) /\ WF_vars(StartGranted(c))
    /\ WF_vars(\E s \in {"copying", "closing"} : ConnectDone(c, s))
    /\ WF_vars(Finish(c)) /\ WF_vars(DropAcquire(c)) /\ WF_vars(DropAborted(c))

FairSpec ==
    /\ Spec
    /\ RunFairness
    /\ \A p \in Ports : ListenFairness(p)
    /\ \A c \in Conns : TaskFairness(c)

-----------------------------------------------------------------------------
Count(f, S) == Cardinality({c \in Conns : f[c] \in S})
Failed(p)   == accept_res[p] \in PermanentErrors \cup {"panic"}

\* Neither semaphore gains or loses a permit, whichever way a connection
\* task ends: normally, by a panic, or dropped at any of its awaits.
PermitsConserved ==
    /\ Count(task, PermitStates) + open_permits = MaxConnections
    /\ Count(task, SlotStates) + queue_permits = MaxQueue

\* The two limits bound what the proxy holds: together they bound the tasks,
\* and besides those there is at most one undecided socket per listener.
AdmissionBound ==
    /\ Count(task, Live) <= MaxConnections + MaxQueue
    /\ Count(task, {"offered"}) <= Cardinality(Ports)

\* The parked tasks are those of the semaphore's FIFO, each once, and none
\* is parked while a permit is free: a queued connection is never forgotten.
QueueNeverStuck ==
    /\ \A i, j \in 1 .. Len(waiters) : waiters[i] = waiters[j] => i = j
    /\ \A c \in Conns : task[c] = "waiting" <=>
                          \E i \in 1 .. Len(waiters) : waiters[i] = c
    /\ open_permits > 0 => waiters = <<>>

TasksOwned ==
    /\ \A c \in Conns : task[c] \in Live =>
         c \in aborted \/ \E p \in Ports : c \in connections[p]
    /\ \A p \in Ports : \A c \in connections[p] :
         task[c] \in Live \cup Joinable /\ c \notin aborted
    /\ \A c \in aborted : task[c] \in Live
    /\ \A p, q \in Ports : p # q => connections[p] \cap connections[q] = {}

SocketsOwned ==
    /\ \A c \in Conns : task[c] = "offered" => \E p \in Ports : c \in in_sock[p]
    /\ \A p \in Ports : \A c \in in_sock[p] :
         task[c] = "offered" /\ in_sock[p] = {c} /\ listener[p] = "queueing"
    /\ \A p, q \in Ports : p # q => in_sock[p] \cap in_sock[q] = {}

JoinSetsDropped ==
    /\ \A p \in Ports : connections[p] # {} =>
         listener[p] \in {"reap", "accept", "queueing", "drain"}
    /\ aborted # {} => cancelled \/ \E p \in Ports : accept_res[p] = "panic"

\* No connection outlives its listener unnoticed: a live task is in exactly
\* one JoinSet or has been aborted, an undecided socket is held by exactly
\* one accepting listener, a listener that has exited leaves no JoinSet, and
\* connections are aborted only by a shutdown or a listener's panic.
NoOrphans == TasksOwned /\ SocketsOwned /\ JoinSetsDropped

\* What `run` returns: Ok only after a requested shutdown in which every
\* listener ended well, otherwise the error of a listener that did fail, or
\* the bind error.
ResultFaithful ==
    run_pc = "returned" =>
      IF \A p \in Ports : listener[p] = "joined"
      THEN IF \E p \in Ports : Failed(p)
           THEN cancelled /\ \E p \in Ports : Failed(p) /\ first_error = JoinError(p)
           ELSE first_error = "none" /\ (Ports # {} => cancelled)
      ELSE first_error \in {"BindError", "NotIo"}

\* A failed bind leaves nothing to drain: until every port is bound no
\* connection is taken, and the listeners bound so far are closed.
BindFailureLeavesNothing ==
    (\E p \in Ports : listener[p] = "unbound") =>
      /\ \A c \in Conns : task[c] = "free"
      /\ \A p \in Ports : listener[p] \in {"unbound", "bound", "closed"}
      /\ run_pc = "returned" => \A p \in Ports : listener[p] # "bound"

\* How much of the shutdown `run`, a listener and a task have before them.
RunRank == [bind |-> 2, join |-> 1, returned |-> 0]
ListenerRank == [drain |-> 2, exited |-> 1, joined |-> 0]
TaskRank == [queued |-> 8, waiting |-> 7, granted |-> 6, connecting |-> 5, copying |-> 4,
             closing |-> 3, leaving |-> 2, finished |-> 1, panicked |-> 1, free |-> 0]

Stopped == \A p \in Ports : listener[p] \in {"drain", "exited", "joined"}

\* Once every listener has left its accept loop the server only runs down:
\* none goes back to it, no task moves away from its end, and each step takes
\* a task, a listener or `run` nearer to it, or is the signal.  However the
\* drain, its deadlines, aborts, panics and handed-over permits interleave,
\* it takes a bounded number of steps.
DrainRunsDown ==
    [][Stopped =>
         /\ Stopped'
         /\ RunRank[run_pc'] <= RunRank[run_pc]
         /\ \A p \in Ports : ListenerRank[listener'[p]] <= ListenerRank[listener[p]]
         /\ \A c \in Conns : TaskRank[task'[c]] <= TaskRank[task[c]]
         /\ \/ RunRank[run_pc'] < RunRank[run_pc] \/ cancelled' # cancelled
            \/ \E p \in Ports : ListenerRank[listener'[p]] < ListenerRank[listener[p]]
            \/ \E c \in Conns : TaskRank[task'[c]] < TaskRank[task[c]]]_vars

\* A signal, a permanent accept error or a panic of one listener ends the
\* whole program: `run` returns and every connection task is gone.
ShutdownTerminates ==
    (cancelled \/ \E p \in Ports : Failed(p)) ~>
      (run_pc = "returned" /\ \A c \in Conns : task[c] = "free")

\* If copies end, every queued connection leaves the queue, whatever new
\* connections the listeners admit meanwhile.
QueueProgress ==
    (\A c \in Conns : []<>(task[c] # "copying")) =>
      \A c \in Conns : (task[c] \in SlotStates) ~> (task[c] \notin SlotStates)

\* src/README.md:164 and the comment on accept_connection: a connection is
\* dropped only when the pool is full and the queue is full.
RejectOnlyWhenFull ==
    [][\A p \in Ports, c \in Conns : Reject(p, c) => open_permits = 0]_vars

\* The comment in `listen` bounds the delay before a panicked task is reaped:
\* it is reaped eventually.
PanicReaped ==
    \A c \in Conns : (task[c] = "panicked") ~> (task[c] # "panicked")
=============================================================================
